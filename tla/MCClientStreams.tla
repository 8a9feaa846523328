-------------------------- MODULE MCClientStreams --------------------------
(* The processors are interchangeable. *)
EXTENDS ClientStreams, TLC

Interchangeable == Permutations(Processor)
=============================================================================
