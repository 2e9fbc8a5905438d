--------------------------- MODULE MCSessionCache ---------------------------
(* Five session IDs for four entries, each session with its own secret.    *)
EXTENDS SessionCacheRefines

MCParams == 1..5
MCSaved == [id \in 1..5 |-> {id}]
=============================================================================
