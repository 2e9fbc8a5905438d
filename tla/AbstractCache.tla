---------------------------- MODULE AbstractCache ----------------------------
(***************************************************************************)
(* What a server counts on from its session cache                          *)
(* (br_ssl_session_cache_class): sessions by their ID, the one used longest *)
(* ago first to go.  SessionCache implements it.                           *)
(***************************************************************************)
EXTENDS Naturals, Sequences

CONSTANTS
  Ids,        \* session IDs
  Params,     \* what is stored with an ID: version, suite, master secret
  Nothing     \* what load() gives when there is no session, none of Params

VARIABLES
  room,       \* how many sessions there is room for
  lru,        \* the sessions, the last one used first
  got         \* the session the last call gave

(* A session that was forgotten stays in its place until it is evicted.    *)
Sessions == [id : Ids, par : Params, on : BOOLEAN]

Has(id) == \E i \in DOMAIN lru : lru[i].id = id
Place(id) == CHOOSE i \in DOMAIN lru : lru[i].id = id
Without(i) == SubSeq(lru, 1, i - 1) \o SubSeq(lru, i + 1, Len(lru))
Kept == IF Len(lru) = room THEN SubSeq(lru, 1, room - 1) ELSE lru

Init == room \in Nat /\ lru = << >> /\ got = Nothing

Save(id, p) ==
  /\ lru' = IF room = 0 \/ Has(id) THEN lru
            ELSE << [id |-> id, par |-> p, on |-> TRUE] >> \o Kept
  /\ got' = Nothing
  /\ UNCHANGED room

Load(id) ==
  /\ IF Has(id) /\ lru[Place(id)].on
       THEN /\ got' = lru[Place(id)].par
            /\ lru' = << lru[Place(id)] >> \o Without(Place(id))
       ELSE got' = Nothing /\ UNCHANGED lru
  /\ UNCHANGED room

Forget(id) ==
  /\ lru' = IF Has(id) THEN [lru EXCEPT ![Place(id)].on = FALSE] ELSE lru
  /\ got' = Nothing
  /\ UNCHANGED room

Next == \E id \in Ids : Load(id) \/ Forget(id) \/ \E p \in Params : Save(id, p)

Spec == Init /\ [][Next]_<<room, lru, got>>
=============================================================================
