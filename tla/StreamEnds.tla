----------------------------- MODULE StreamEnds -----------------------------
(***************************************************************************)
(* What the end of a tunnelled stream promises to the applications at its  *)
(* two ends.  An end is open until it has failed or is complete, and both  *)
(* are final.  It never writes more than was read at the other end, and a  *)
(* complete one has written everything that the other application sends;   *)
(* it neither reads nor writes any more.  ArqClose implements this         *)
(* specification.                                                          *)
(***************************************************************************)
EXTENDS Naturals

VARIABLE ends

Side == {"client", "server"}
Peer(s) == IF s = "client" THEN "server" ELSE "client"

End == [offers : Nat,      \* chunks that the local application sends, until it ends
        read : Nat,        \* those read from it so far
        written : Nat,     \* chunks written to it so far
        state : {"open", "failed", "complete"}]

Init ==
  /\ ends \in [Side -> End]
  /\ \A s \in Side : ends[s].read = 0 /\ ends[s].written = 0 /\ ends[s].state = "open"

(* An end becomes b from a, with the other one at p.  It may read, write    *)
(* and end in one step: the last read of a connection comes with its error, *)
(* and the last write completes the end.                                    *)
Advances(a, b, p) ==
  /\ b.offers = a.offers
  /\ b.read \in a.read .. a.read + 1 /\ b.read <= a.offers
  /\ b.written \in a.written .. p.read
  /\ a.state = "failed" => b.state = "failed"
  /\ a.state = "complete" => b = a
  /\ b.state = "complete" => b.written = p.offers

Next ==
  /\ ends' \in [Side -> End]
  /\ \E s \in Side : /\ Advances(ends[s], ends'[s], ends[Peer(s)])
                     /\ ends'[Peer(s)] = ends[Peer(s)]

Spec == Init /\ [][Next]_ends
=============================================================================
