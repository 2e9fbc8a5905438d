--------------------------- MODULE MCAuthSettings ---------------------------
(* AuthSettings with four servers: the one everything agrees on, and servers   *)
(* that are right in one respect and wrong in the others.                      *)
EXTENDS AuthSettings

CONSTANTS a, b

MCServers ==
    { [ca |-> a, key |-> a, print |-> a, selfSigned |-> FALSE],
      [ca |-> a, key |-> b, print |-> b, selfSigned |-> FALSE],
      [ca |-> b, key |-> a, print |-> b, selfSigned |-> FALSE],
      [ca |-> b, key |-> b, print |-> a, selfSigned |-> TRUE] }
=============================================================================
