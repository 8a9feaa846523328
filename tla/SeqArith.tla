------------------------------ MODULE SeqArith ------------------------------
(***************************************************************************)
(* Sequence-number arithmetic of internal/arq.  A chunk of a stream is     *)
(* numbered by a uint16 that wraps around; positions that were never       *)
(* truncated exist only in the specifications.  SeqSpace is 65536 in the   *)
(* program and small in the model-checked instances.                       *)
(***************************************************************************)
EXTENDS Integers

CONSTANT SeqSpace

ASSUME SeqSpaceAssumption == SeqSpace \in Nat /\ SeqSpace > 1 /\ SeqSpace % 2 = 0

Seqs == 0 .. SeqSpace - 1

(* The constant 32768 of the code: half of the number space. *)
Half == SeqSpace \div 2

(* uint16 truncation of an unbounded position. *)
Wrap(n) == n % SeqSpace

AheadSwapped(a, b) == (b - a) % SeqSpace

(* uint16 subtraction a - b: how far a lies ahead of b, modulo the wrap. *)
Ahead(a, b) == (a - b) % SeqSpace
=============================================================================
