--------------------------- MODULE ReliableStream ---------------------------
(***************************************************************************)
(* What one direction of a tunnelled stream promises to the applications   *)
(* at its two ends: the chunks read from one come out at the other once    *)
(* each and in the order they were read, whatever the DNS path did to the  *)
(* packets.  ArqData implements this specification.                        *)
(***************************************************************************)
EXTENDS Sequences, Naturals

CONSTANT Chunk

VARIABLES
  read,     \* the chunks read so far from the sending application
  written   \* the chunks written so far to the receiving application

vars == <<read, written>>

Init ==
  /\ read = <<>>
  /\ written = <<>>

Read ==
  \E c \in Chunk :
    /\ read' = Append(read, c)
    /\ UNCHANGED written

(* A write hands over any number of the chunks that are still owed. *)
Write ==
  \E n \in Len(written) + 1 .. Len(read) :
    /\ written' = SubSeq(read, 1, n)
    /\ UNCHANGED read

Next == Read \/ Write

Spec == Init /\ [][Next]_vars
=============================================================================
