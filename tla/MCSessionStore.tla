--------------------------- MODULE MCSessionStore ---------------------------
(* SessionStore for TLC: a client, and one that has gone and whose last     *)
(* init may still create a session; two slots, one worker for notices.      *)
EXTENDS SessionStore

CONSTANTS c1, c2, w1

Clients     == {c1, c2}
GoneClients == {c2}
Workers     == {w1}
=============================================================================
