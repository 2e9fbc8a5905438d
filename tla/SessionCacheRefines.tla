------------------------- MODULE SessionCacheRefines -------------------------
(***************************************************************************)
(* ssl_lru.c implements AbstractCache: the list, read from its head, is the *)
(* abstract cache, and the tree finds in it what a search of the whole list *)
(* would find.                                                             *)
(***************************************************************************)
EXTENDS SessionCache

VARIABLE lru    \* the sessions in the list

Sessions(s) ==
  LET session(x) == [id |-> s.store[x].id, par |-> s.store[x].par, on |-> s.store[x].on]
      l == List(s)
  IN  [i \in 1..s.used |-> session(l[i])]

RInit == Init /\ lru = Sessions(c)
RNext == Next /\ lru' = Sessions(c')
RSpec == RInit /\ [][RNext]_<<vars, lru>>

(* Save, load and forget do what the server counts on, and the session     *)
(* evicted is the one used longest ago.                                    *)
Abstract == INSTANCE AbstractCache WITH room <- c.size
ImplementsCache == Abstract!Spec
==============================================================================
