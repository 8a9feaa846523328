---------------------------- MODULE MCArqClose ----------------------------
(* ArqClose for TLC: each application sends one chunk, or only one of them  *)
(* does.                                                                    *)
EXTENDS ArqClose

ServerSends == {[s \in Side |-> IF s = "server" THEN 1 ELSE 0]}
ClientSends == {[s \in Side |-> IF s = "client" THEN 1 ELSE 0]}
OneSends == ServerSends \cup ClientSends
BothSend == {[s \in Side |-> 1]}

(* Once both ends have closed, nothing is read, written or closed any more,  *)
(* so that a run about what was written by then need not go on.              *)
SomeEndOpen == \E s \in Side : ~Is(arq[s], "closed")
=============================================================================
