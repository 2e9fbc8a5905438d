---------------------------- MODULE SessionCache ----------------------------
(***************************************************************************)
(* The session cache of a TLS server (ssl_lru.c): entries of a fixed size  *)
(* in a block the caller provides, linked twice, as a list in the order of *)
(* use, from which the tail is evicted, and as a search tree on the masked *)
(* session ID.  An address is the number of an entry; Null is ADDR_NULL.   *)
(* The mask is a keyed permutation of the IDs: Ids are masked IDs, in the  *)
(* order of memcmp().                                                      *)
(***************************************************************************)
EXTENDS Naturals, FiniteSets, Sequences

CONSTANTS
  Sizes,      \* entries the block has room for, one of these
  Ids,        \* masked session IDs
  Forgets,    \* those the application calls forget() for
  Params,     \* version, suite and master secret of a session
  Saved,      \* with an ID, those the server may save with it
  Nothing     \* load() finds nothing

ASSUME SessionCacheAssumption ==
  /\ Sizes \subseteq Nat /\ Ids \subseteq Nat /\ Forgets \subseteq Ids
  /\ Saved \in [Ids -> SUBSET Params] /\ Nothing \notin Params

VARIABLES c, got

vars == << c, got >>

Null == 0
Addresses(cap) == 0..cap

(* The addr_link of find_node(): which child of which node; at the root,   *)
(* and where there is no link, both are Null.                              *)
Root == [node |-> Null, side |-> "root"]

(* An entry not written yet. *)
Blank == [id |-> 0, par |-> Nothing, on |-> FALSE,
          prev |-> Null, next |-> Null, left |-> Null, right |-> Null]

---------------------------------------------------------------------------
(* The tree. *)

(* A walk along links: no longer than there are entries. *)
Walk(s, step(_), from) ==
  LET at[n \in 0..s.size] == IF n = 0 THEN from ELSE step(at[n - 1])
  IN  at[s.size]

Child(s, x, side) == [x |-> s.store[x][side], link |-> [node |-> x, side |-> side]]

(* find_node(): the node with this ID, or Null, and the last link followed. *)
find_node(s, id) ==
  LET down(w) == IF w.x = Null \/ s.store[w.x].id = id THEN w
                 ELSE Child(s, w.x, IF id < s.store[w.x].id THEN "left" ELSE "right")
  IN  Walk(s, down, [x |-> s.root, link |-> Root])

set_link(s, link, x) ==
  IF link = Root THEN [s EXCEPT !.root = x]
                 ELSE [s EXCEPT !.store[link.node][link.side] = x]

(* The last node from the `first' child of x on, along `then' links. *)
Furthest(s, x, first, then) ==
  LET on(w) == IF s.store[w.x][then] = Null THEN w ELSE Child(s, w.x, then)
  IN  Walk(s, on, Child(s, x, first))

find_replacement_node(s, x) ==
  IF s.store[x].left # Null THEN Furthest(s, x, "left", "right")
  ELSE IF s.store[x].right # Null THEN Furthest(s, x, "right", "left")
  ELSE [x |-> Null, link |-> Root]

\* Mutant: the replacement's own child is dropped.
remove_node_whole(s, x) ==
  LET link == find_node(s, s.store[x].id).link
      r    == find_replacement_node(s, x)
      y    == r.x
  IN  IF y = Null THEN set_link(s, link, Null)
      ELSE LET moved == set_link(set_link(s, r.link, Null), link, y)
           IN  [moved EXCEPT !.store[y].left = moved.store[x].left,
                             !.store[y].right = moved.store[x].right]

(* The replacement leaves its place to its only child, and takes that of x. *)
remove_node(s, x) ==
  LET link == find_node(s, s.store[x].id).link
      r    == find_replacement_node(s, x)
      y    == r.x
      only == IF s.store[y].left # Null THEN s.store[y].left ELSE s.store[y].right
  IN  IF y = Null THEN set_link(s, link, Null)
      ELSE LET moved == set_link(set_link(s, r.link, only), link, y)
           IN  [moved EXCEPT !.store[y].left = moved.store[x].left,
                             !.store[y].right = moved.store[x].right]

---------------------------------------------------------------------------
(* The list. *)

\* Mutant: the last entry alone leaves no empty list.
EvictedKeepingHead(s) ==
  LET x == s.tail
      p == s.store[x].prev
      t == [s EXCEPT !.tail = p]
  IN  remove_node(IF p = Null THEN t ELSE [t EXCEPT !.store[p].next = Null], x)

(* lru_save(): the tail leaves, with its entry. *)
Evicted(s) ==
  LET x == s.tail
      p == s.store[x].prev
      t == [s EXCEPT !.tail = p]
      cut == IF p = Null THEN [t EXCEPT !.head = Null] ELSE [t EXCEPT !.store[p].next = Null]
  IN  remove_node(cut, x)

\* Mutant: the tail does not follow.
UnlinkedKeepingTail(s, x) ==
  LET p == s.store[x].prev
      n == s.store[x].next
      t == [s EXCEPT !.store[p].next = n]
  IN  IF n = Null THEN t ELSE [t EXCEPT !.store[n].prev = p]

(* lru_load(): x, which is not the head, leaves its place in the list. *)
Unlinked(s, x) ==
  LET p == s.store[x].prev
      n == s.store[x].next
      t == [s EXCEPT !.store[p].next = n]
  IN  IF n = Null THEN [t EXCEPT !.tail = p] ELSE [t EXCEPT !.store[n].prev = p]

(* x becomes the head. *)
Pushed(s, x) ==
  LET h == s.head
      t == IF h = Null THEN [s EXCEPT !.tail = x] ELSE [s EXCEPT !.store[h].prev = x]
  IN  [t EXCEPT !.store[x].prev = Null, !.store[x].next = h, !.head = x]

---------------------------------------------------------------------------
(* The operations. *)

Inserted(s, x, id, p) ==
  LET t == set_link(s, find_node(s, id).link, x)
  IN  Pushed([t EXCEPT !.store[x] = [Blank EXCEPT !.id = id, !.par = p, !.on = TRUE]], x)

(* br_ssl_session_cache_class: save.  The first one draws the key of the   *)
(* mask (init_done).                                                       *)
lru_save(id, p) ==
  /\ got' = Nothing
  /\ LET s == [c EXCEPT !.init = TRUE]
         x == IF s.used = s.size THEN s.tail ELSE s.used + 1
     IN  c' = IF c.size = 0 THEN c
              ELSE IF find_node(s, id).x # Null THEN s
              ELSE IF s.used = s.size THEN Inserted(Evicted(s), x, id, p)
              ELSE Inserted([s EXCEPT !.used = x], x, id, p)

\* Mutant: a session found is not moved.
lru_load_fifo(id) ==
  LET x == find_node(c, id).x
  IN  /\ got' = IF c.init /\ x # Null /\ c.store[x].on THEN c.store[x].par ELSE Nothing
      /\ UNCHANGED c

lru_load(id) ==
  LET x == find_node(c, id).x
      found == c.init /\ x # Null /\ c.store[x].on
  IN  /\ got' = IF found THEN c.store[x].par ELSE Nothing
      /\ c' = IF found /\ x # c.head THEN Pushed(Unlinked(c, x), x) ELSE c

(* br_ssl_session_cache_lru_forget(): version 0. *)
forget(id) ==
  LET x == find_node(c, id).x
  IN  /\ got' = Nothing
      /\ c' = IF c.init /\ x # Null THEN [c EXCEPT !.store[x].on = FALSE] ELSE c

(* br_ssl_session_cache_lru_init(). *)
Init ==
  /\ got = Nothing
  /\ \E size \in Sizes :
       c = [size |-> size, used |-> 0, init |-> FALSE, head |-> Null, tail |-> Null,
            root |-> Null, store |-> [x \in 0..size |-> Blank]]

Next ==
  \/ \E id \in Ids : lru_load(id) \/ \E p \in Saved[id] : lru_save(id, p)
  \/ \E id \in Forgets : forget(id)

Spec == Init /\ [][Next]_vars

---------------------------------------------------------------------------
(* The list, from the head along `next'. *)
List(s) ==
  LET at[n \in 1..s.used] == IF n = 1 THEN s.head ELSE s.store[at[n - 1]].next
  IN  at

Used == 1..c.used

Entry == [id : Ids \cup {0}, par : Params \cup {Nothing}, on : BOOLEAN,
          prev : Nat, next : Nat, left : Nat, right : Nat]

TypeOK ==
  /\ c.size \in Sizes /\ c.used \in 0..c.size /\ c.init \in BOOLEAN
  /\ {c.head, c.tail, c.root} \subseteq 0..c.used
  /\ c.store \in [0..c.size -> Entry]
  /\ c.store[Null] = Blank
  /\ got \in Params \cup {Nothing}

(* Every entry in use is in the list, once, so that it can be evicted in   *)
(* its turn; the links back are those forth.                               *)
ListHasAll ==
  LET l == List(c)
  IN  /\ {l[i] : i \in Used} = Used
      /\ \A i \in Used :
           /\ c.store[l[i]].prev = IF i = 1 THEN Null ELSE l[i - 1]
           /\ c.store[l[i]].next = IF i = c.used THEN Null ELSE l[i + 1]
      /\ c.head = IF c.used = 0 THEN Null ELSE l[1]
      /\ c.tail = IF c.used = 0 THEN Null ELSE l[c.used]

(* The tree has every entry in use, where a search for its ID finds it,    *)
(* and nothing else: no node has two parents, and no link of an entry that *)
(* was moved away is left.                                                 *)
Children == {x \in {c.root} \cup {c.store[y].left : y \in Used}
                   \cup {c.store[y].right : y \in Used} : x # Null}
Links == Cardinality({y \in Used : c.store[y].left # Null})
           + Cardinality({y \in Used : c.store[y].right # Null})

TreeFindsAll ==
  /\ \A x \in Used : find_node(c, c.store[x].id).x = x
  /\ Children = Used
  /\ c.used > 0 => Links = c.used - 1
=============================================================================
