-------------------------- MODULE MCServerStreams --------------------------
(* The workers are interchangeable, and so are the ingress goroutines. *)
EXTENDS ServerStreams, TLC

Interchangeable == Permutations(Worker) \cup Permutations(Rx)
=============================================================================
