----------------------------- MODULE MCArqData -----------------------------
(***************************************************************************)
(* ArqData for TLC.  Windows and number space keep the proportions of the   *)
(* program: both windows and one chunk fill half of the number space, and   *)
(* the application offers enough chunks for the numbers to wrap.            *)
(***************************************************************************)
EXTENDS ArqData

(* The run over the wrap ends when the sender resets the stream, and it     *)
(* follows at most three copies that have not left the sender yet, so that    *)
(* every interleaving of a whole lap of the numbers can be searched.        *)
FewCopies ==
  /\ ~gaveUp
  /\ Cardinality(txQueue) + Cardinality(rtxJobs) + Cardinality(rtxPushed) <= 3
=============================================================================
