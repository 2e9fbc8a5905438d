------------------------- MODULE SessionCacheProofs -------------------------
(***************************************************************************)
(* The session cache for every number of entries, every set of IDs and     *)
(* sessions, and every order of calls: the list and the tree always have   *)
(* the same entries, the tree finds them, and the cache is AbstractCache.  *)
(*                                                                         *)
(* The links are an image of two things the store does not have.  An order *)
(* l of the entries in use: s.prev and s.next are l backwards and forwards *)
(* (Chain).  And T[x], what is in the tree under x: the children of x are  *)
(* the tops of what is in T[x] on either side of its ID (Tree).  Every     *)
(* procedure of ssl_lru.c is a change of l and T: from walks to links,     *)
(* find, remove and insert, to the calls on the whole cache.               *)
(***************************************************************************)
EXTENDS SessionCacheRefines, FiniteSetTheorems, SequenceTheorems, TLAPS

---------------------------------------------------------------------------
(* Walks. *)

(* h takes k steps of f. *)
Runs(h, f, from, k) == h = [n \in 0..k |-> IF n = 0 THEN from ELSE f[h[n - 1]]]

LEMMA FirstOf ==
    ASSUME NEW S, S \subseteq Nat, S # {}
    PROVE  \E k \in S : \A j \in S : k <= j
<1> DEFINE R == {p \in Nat \X Nat : p[1] < p[2]}
<1>1. IsWellFoundedOn(R, Nat)
  BY NatLessThanWellFounded DEF OpToRel
<1> HIDE DEF R
<1>2. PICK k \in S : \A j \in S : << j, k >> \notin R
  BY <1>1, WFMin
<1>3. \A j \in S : k <= j
  <2> SUFFICES ASSUME NEW j \in S, ~(k <= j) PROVE FALSE
    OBVIOUS
  <2>1. k \in Nat /\ j \in Nat /\ << j, k >> \notin R
    BY <1>2
  <2> QED BY <2>1 DEF R
<1> QED BY <1>2, <1>3

LEMMA RunsStep ==
    ASSUME NEW f, NEW from, NEW k \in Nat, NEW h, Runs(h, f, from, k)
    PROVE  /\ h[0] = from
           /\ \A n \in 0..k : n # 0 => h[n] = f[h[n - 1]]
  BY DEF Runs

LEMMA RunsExist ==
    ASSUME NEW S, NEW f \in [S -> S], NEW from \in S, NEW m \in Nat
    PROVE  \E h \in [0..m -> S] : Runs(h, f, from, m)
<1> DEFINE Bad == {k \in 0..m : ~ \E h \in [0..k -> S] : Runs(h, f, from, k)}
<1> SUFFICES Bad = {}
  OBVIOUS
<1>0. Bad # {} => \E k \in Bad : \A j \in Bad : k <= j
  <2>1. Bad \subseteq Nat
    OBVIOUS
  <2> HIDE DEF Bad
  <2> QED BY <2>1, FirstOf
<1> SUFFICES ASSUME NEW k \in Bad, \A j \in Bad : k <= j
             PROVE  FALSE
  BY <1>0
<1>1. CASE k = 0
  <2> DEFINE h == [i \in 0..0 |-> from]
  <2>1. \A i \in 0..0 : i = 0
    OBVIOUS
  <2>2. h = [i \in 0..0 |-> IF i = 0 THEN from ELSE f[h[i - 1]]]
    BY <2>1
  <2>3. h \in [0..0 -> S] /\ Runs(h, f, from, 0)
    BY <2>2 DEF Runs
  <2> HIDE DEF h
  <2> QED BY <1>1, <2>3
<1>2. CASE k # 0
  <2>1. k \in Nat /\ k - 1 \in 0..m /\ k \in 1..m /\ ~(k <= k - 1)
    BY <1>2
  <2>2. PICK g \in [0..k-1 -> S] : Runs(g, f, from, k - 1)
    BY <2>1
  <2>3. \A i \in 0..k-1 : g[i] = IF i = 0 THEN from ELSE f[g[i - 1]]
    BY <2>2 DEF Runs
  <2> DEFINE h == [i \in 0..k |-> IF i < k THEN g[i] ELSE f[g[k - 1]]]
  <2>4. g[k - 1] \in S /\ f[g[k - 1]] \in S
    BY <2>1
  <2>5. h \in [0..k -> S]
    BY <2>1, <2>4
  <2>6. \A i \in 0..k : h[i] = IF i = 0 THEN from ELSE f[h[i - 1]]
    <3> SUFFICES ASSUME NEW i \in 0..k PROVE h[i] = IF i = 0 THEN from ELSE f[h[i - 1]]
      OBVIOUS
    <3>1. CASE i < k
      <4>1. h[i] = g[i] /\ (i # 0 => h[i - 1] = g[i - 1])
        BY <2>1, <3>1
      <4> HIDE DEF h, Bad
      <4>2. i \in 0..k-1
        BY <2>1, <3>1
      <4>3. g[i] = IF i = 0 THEN from ELSE f[g[i - 1]]
        BY <2>3, <4>2
      <4> QED BY <4>1, <4>3
    <3>2. CASE i = k
      <4>1. h[k] = f[g[k - 1]] /\ h[k - 1] = g[k - 1]
        BY <2>1
      <4> QED BY <1>2, <3>2, <4>1
    <3> QED BY <2>1, <3>1, <3>2
  <2> HIDE DEF h
  <2>7. Runs(h, f, from, k)
    BY <2>5, <2>6 DEF Runs
  <2> QED BY <2>5, <2>7
<1> QED BY <1>1, <1>2

LEMMA RunsAreOne ==
    ASSUME NEW f, NEW from, NEW m \in Nat, NEW g, Runs(g, f, from, m), NEW h, Runs(h, f, from, m)
    PROVE  g = h
<1> DEFINE Bad == {k \in 0..m : g[k] # h[k]}
<1>1. \A i \in 0..m : /\ g[i] = IF i = 0 THEN from ELSE f[g[i - 1]]
                      /\ h[i] = IF i = 0 THEN from ELSE f[h[i - 1]]
  BY DEF Runs
<1>2. Bad = {} => g = h
  BY DEF Runs
<1> SUFFICES Bad = {}
  BY <1>2
<1>0. Bad # {} => \E k \in Bad : \A j \in Bad : k <= j
  <2>1. Bad \subseteq Nat
    OBVIOUS
  <2> HIDE DEF Bad
  <2> QED BY <2>1, FirstOf
<1> SUFFICES ASSUME NEW k \in Bad, \A j \in Bad : k <= j
             PROVE  FALSE
  BY <1>0
<1>3. k # 0
  BY <1>1
<1>4. k - 1 \in 0..m /\ k - 1 \notin Bad
  BY <1>3
<1>5. g[k - 1] = h[k - 1]
  BY <1>4
<1> QED BY <1>1, <1>3, <1>5

(* What holds before the first step and after every step. *)
Steps(P, S, f, m) == \A n \in 0..m, w \in S : n < m /\ << n, w >> \in P => << n + 1, f[w] >> \in P

LEMMA RunsReach ==
    ASSUME NEW S, NEW f \in [S -> S], NEW from \in S, NEW m \in Nat, NEW h \in [0..m -> S],
           Runs(h, f, from, m), NEW P, << 0, from >> \in P, Steps(P, S, f, m)
    PROVE  << m, h[m] >> \in P
<1>1. h[0] = from /\ \A n \in 0..m : n # 0 => h[n] = f[h[n - 1]]
  BY DEF Runs
<1> DEFINE Bad == {k \in 0..m : << k, h[k] >> \notin P}
<1> SUFFICES Bad = {}
  OBVIOUS
<1>0. Bad # {} => \E k \in Bad : \A j \in Bad : k <= j
  <2>1. Bad \subseteq Nat
    OBVIOUS
  <2> HIDE DEF Bad
  <2> QED BY <2>1, FirstOf
<1> SUFFICES ASSUME NEW k \in Bad, \A j \in Bad : k <= j
             PROVE  FALSE
  BY <1>0
<1>2. k # 0
  BY <1>1
<1>3. k - 1 \in 0..m /\ k - 1 < m /\ k - 1 \notin Bad /\ k - 1 + 1 = k
  BY <1>2
<1>4. << k - 1, h[k - 1] >> \in P /\ h[k - 1] \in S
  BY <1>3
<1>5. << k - 1 + 1, f[h[k - 1]] >> \in P
  BY <1>3, <1>4 DEF Steps
<1> QED BY <1>1, <1>2, <1>3, <1>5

---------------------------------------------------------------------------
(* One step of find_node(), and of the walk to a replacement. *)

Sides == {"left", "right"}

Down(s, id, w) ==
  IF w.x = Null \/ s.store[w.x].id = id THEN w
  ELSE Child(s, w.x, IF id < s.store[w.x].id THEN "left" ELSE "right")

On(s, then, w) == IF s.store[w.x][then] = Null THEN w ELSE Child(s, w.x, then)

Top(s) == [x |-> s.root, link |-> Root]

LEMMA FindIs ==
    ASSUME NEW s, s.size \in Nat, NEW id, NEW S, NEW f \in [S -> S], Top(s) \in S,
           \A w \in S : f[w] = Down(s, id, w),
           NEW h \in [0..s.size -> S], Runs(h, f, Top(s), s.size)
    PROVE  find_node(s, id) = h[s.size]
<1> DEFINE g == CHOOSE g : g = [n \in 0..s.size |-> IF n = 0 THEN Top(s) ELSE Down(s, id, g[n - 1])]
           D(n) == IF n = 0 THEN Top(s) ELSE Down(s, id, h[n - 1])
<1>1. find_node(s, id) = g[s.size]
  BY DEF find_node, Walk, Down, Top
<1>2. h = [n \in 0..s.size |-> IF n = 0 THEN Top(s) ELSE Down(s, id, h[n - 1])]
  <2>1. \A n \in 0..s.size : n # 0 => h[n - 1] \in S
    OBVIOUS
  <2>2. \A n \in 0..s.size : n # 0 => f[h[n - 1]] = Down(s, id, h[n - 1])
    BY <2>1
  <2> QED BY <2>2 DEF Runs
<1>3. g = [n \in 0..s.size |-> IF n = 0 THEN Top(s) ELSE Down(s, id, g[n - 1])]
  BY <1>2
<1> HIDE DEF g
<1> DEFINE Bad == {k \in 0..s.size : g[k] # h[k]}
<1>4. \A n \in 0..s.size : /\ g[n] = IF n = 0 THEN Top(s) ELSE Down(s, id, g[n - 1])
                           /\ h[n] = IF n = 0 THEN Top(s) ELSE Down(s, id, h[n - 1])
  BY <1>2, <1>3
<1>5. Bad = {}
  <2>0. Bad # {} => \E k \in Bad : \A j \in Bad : k <= j
    <3>1. Bad \subseteq Nat
      OBVIOUS
    <3> HIDE DEF Bad
    <3> QED BY <3>1, FirstOf
  <2> SUFFICES ASSUME NEW k \in Bad, \A j \in Bad : k <= j PROVE FALSE
    BY <2>0
  <2>1. k # 0
    BY <1>4
  <2>2. k - 1 \in 0..s.size /\ k - 1 \notin Bad
    BY <2>1
  <2>3. g[k - 1] = h[k - 1]
    BY <2>2
  <2> QED BY <1>4, <2>1, <2>3
<1> QED BY <1>1, <1>5
LEMMA FurthestIs ==
    ASSUME NEW s, s.size \in Nat, NEW x, NEW first, NEW then, NEW S, NEW f \in [S -> S], Child(s, x, first) \in S,
           \A w \in S : f[w] = On(s, then, w),
           NEW h \in [0..s.size -> S], Runs(h, f, Child(s, x, first), s.size)
    PROVE  Furthest(s, x, first, then) = h[s.size]
<1> DEFINE g == CHOOSE g : g = [n \in 0..s.size |-> IF n = 0 THEN Child(s, x, first) ELSE On(s, then, g[n - 1])]
           D(n) == IF n = 0 THEN Child(s, x, first) ELSE On(s, then, h[n - 1])
<1>1. Furthest(s, x, first, then) = g[s.size]
  BY DEF Furthest, Walk, On
<1>2. h = [n \in 0..s.size |-> IF n = 0 THEN Child(s, x, first) ELSE On(s, then, h[n - 1])]
  <2>1. \A n \in 0..s.size : n # 0 => h[n - 1] \in S
    OBVIOUS
  <2>2. \A n \in 0..s.size : n # 0 => f[h[n - 1]] = On(s, then, h[n - 1])
    BY <2>1
  <2> QED BY <2>2 DEF Runs
<1>3. g = [n \in 0..s.size |-> IF n = 0 THEN Child(s, x, first) ELSE On(s, then, g[n - 1])]
  BY <1>2
<1> HIDE DEF g
<1> DEFINE Bad == {k \in 0..s.size : g[k] # h[k]}
<1>4. \A n \in 0..s.size : /\ g[n] = IF n = 0 THEN Child(s, x, first) ELSE On(s, then, g[n - 1])
                           /\ h[n] = IF n = 0 THEN Child(s, x, first) ELSE On(s, then, h[n - 1])
  BY <1>2, <1>3
<1>5. Bad = {}
  <2>0. Bad # {} => \E k \in Bad : \A j \in Bad : k <= j
    <3>1. Bad \subseteq Nat
      OBVIOUS
    <3> HIDE DEF Bad
    <3> QED BY <3>1, FirstOf
  <2> SUFFICES ASSUME NEW k \in Bad, \A j \in Bad : k <= j PROVE FALSE
    BY <2>0
  <2>1. k # 0
    BY <1>4
  <2>2. k - 1 \in 0..s.size /\ k - 1 \notin Bad
    BY <2>1
  <2>3. g[k - 1] = h[k - 1]
    BY <2>2
  <2> QED BY <1>4, <2>1, <2>3
<1> QED BY <1>1, <1>5

---------------------------------------------------------------------------
(* The tree. *)

(* Entries keep their shape, and the links of the tree are of entries. *)
Shape(s) ==
  /\ s = [size |-> s.size, used |-> s.used, init |-> s.init, head |-> s.head, tail |-> s.tail,
          root |-> s.root, store |-> s.store]
  /\ s.size \in Nat /\ s.store \in [0..s.size -> Entry]

(* v belongs on this side of z. *)
Before(s, sd, v, z) ==
  IF sd = "left" THEN s.store[v].id < s.store[z].id ELSE s.store[z].id < s.store[v].id

(* T[x] is what is in the tree under x, x with it.  What is on one side of *)
(* x is under its child there.                                             *)
Below(T, U) ==
  /\ T \in [U -> SUBSET U]
  /\ \A x \in U : x \in T[x]
  /\ \A x, y, z \in U : x \in T[y] /\ y \in T[z] => x \in T[z]
  /\ \A x, y \in U : x \in T[y] /\ y \in T[x] => x = y
  /\ \A x, y, z \in U : x \in T[y] /\ x \in T[z] => y \in T[z] \/ z \in T[y]

Leads(s, T, U, x, sd) ==
  LET k == s.store[x][sd]
  IN  /\ k # Null => k \in U
      /\ \A v \in U : (v \in T[x] /\ Before(s, sd, v, x)) <=> (k # Null /\ v \in T[k])

Keyed(s, U) ==
  /\ \A x \in U : s.store[x].id \in Nat
  /\ \A x, y \in U : s.store[x].id = s.store[y].id => x = y

Tree(s, T, U) ==
  /\ U \subseteq 1..s.size
  /\ Below(T, U) /\ Keyed(s, U)
  /\ s.root # Null => s.root \in U
  /\ \A v \in U : s.root # Null /\ v \in T[s.root]
  /\ \A x \in U, sd \in Sides : Leads(s, T, U, x, sd)

LEMMA KeyIs ==
    ASSUME NEW s, NEW T, NEW U, Tree(s, T, U), NEW x \in U
    PROVE  s.store[x].id \in Nat /\ x \in T[x] /\ x \in 1..s.size
  BY DEF Tree, Keyed, Below

LEMMA KeysDiffer ==
    ASSUME NEW s, NEW T, NEW U, Tree(s, T, U), NEW x \in U, NEW y \in U, x # y
    PROVE  s.store[x].id # s.store[y].id
  BY DEF Tree, Keyed

(* Two nodes are one, or one of them is on one side of the other. *)
LEMMA BeforeIs ==
    ASSUME NEW s, NEW T, NEW U, Tree(s, T, U), NEW x \in U, NEW y \in U
    PROVE  /\ x # y => Before(s, "left", x, y) \/ Before(s, "right", x, y)
           /\ ~(Before(s, "left", x, y) /\ Before(s, "right", x, y))
           /\ \A sd \in Sides : Before(s, sd, x, y) => x # y
           /\ Before(s, "left", x, y) <=> Before(s, "right", y, x)
<1>1. s.store[x].id \in Nat /\ s.store[y].id \in Nat
  BY KeyIs
<1>2. x # y => s.store[x].id # s.store[y].id
  BY KeysDiffer
<1> QED BY <1>1, <1>2 DEF Before, Sides

LEMMA BeforeThen ==
    ASSUME NEW s, NEW T, NEW U, Tree(s, T, U), NEW x \in U, NEW y \in U, NEW z \in U, NEW sd \in Sides,
           Before(s, sd, x, y), Before(s, sd, y, z)
    PROVE  Before(s, sd, x, z)
<1>1. s.store[x].id \in Nat /\ s.store[y].id \in Nat /\ s.store[z].id \in Nat
  BY KeyIs
<1> QED BY <1>1 DEF Before, Sides

LEMMA UnderThen ==
    ASSUME NEW s, NEW T, NEW U, Tree(s, T, U), NEW x \in U, NEW y \in U, NEW z \in U, x \in T[y], y \in T[z]
    PROVE  x \in T[z]
  BY DEF Tree, Below

LEMMA UnderEach ==
    ASSUME NEW s, NEW T, NEW U, Tree(s, T, U), NEW x \in U, NEW y \in U, x \in T[y], y \in T[x]
    PROVE  x = y
  BY DEF Tree, Below

LEMMA UnderBoth ==
    ASSUME NEW s, NEW T, NEW U, Tree(s, T, U), NEW x \in U, NEW y \in U, NEW z \in U, x \in T[y], x \in T[z]
    PROVE  y \in T[z] \/ z \in T[y]
  BY DEF Tree, Below

LEMMA ChildIs ==
    ASSUME NEW s, NEW T, NEW U, Tree(s, T, U), NEW x \in U, NEW sd \in Sides, s.store[x][sd] # Null
    PROVE  /\ s.store[x][sd] \in U /\ s.store[x][sd] \in T[x] /\ s.store[x][sd] # x
           /\ Before(s, sd, s.store[x][sd], x)
           /\ \A v \in U : (v \in T[x] /\ Before(s, sd, v, x)) <=> v \in T[s.store[x][sd]]
<1> DEFINE k == s.store[x][sd]
<1>1. Leads(s, T, U, x, sd)
  BY DEF Tree
<1>2. /\ k \in U
      /\ \A v \in U : (v \in T[x] /\ Before(s, sd, v, x)) <=> v \in T[k]
  BY <1>1 DEF Leads
<1> HIDE DEF k
<1>3. k \in T[k]
  BY <1>2, KeyIs
<1>4. k \in T[x] /\ Before(s, sd, k, x)
  BY <1>2, <1>3
<1>5. k # x
  BY <1>2, <1>4, BeforeIs
<1> QED BY <1>2, <1>4, <1>5 DEF k

LEMMA NoChildIs ==
    ASSUME NEW s, NEW T, NEW U, Tree(s, T, U), NEW x \in U, NEW sd \in Sides, s.store[x][sd] = Null
    PROVE  \A v \in U : v \in T[x] => ~Before(s, sd, v, x)
<1>1. Leads(s, T, U, x, sd)
  BY DEF Tree
<1> QED BY <1>1 DEF Leads

LEMMA UnderIn ==
    ASSUME NEW s, NEW T, NEW U, Tree(s, T, U), NEW x \in U
    PROVE  T[x] \subseteq U
  BY DEF Tree, Below

(* What is under p is on one side of every y above p. *)
LEMMA SameSide ==
    ASSUME NEW s, NEW T, NEW U, Tree(s, T, U), NEW p \in U, NEW y \in U, p \in T[y], p # y,
           NEW v \in U, v \in T[p]
    PROVE  \A sd \in Sides : Before(s, sd, v, y) <=> Before(s, sd, p, y)
<1>1. v \in T[y]
  BY UnderThen
<1>2. ASSUME NEW sd \in Sides, Before(s, sd, p, y) PROVE Before(s, sd, v, y)
  <2> DEFINE k == s.store[y][sd]
  <2>1. k # Null
    BY <1>2, NoChildIs
  <2>2. k \in U /\ p \in T[k] /\ \A u \in U : u \in T[k] => Before(s, sd, u, y)
    BY <1>2, <2>1, ChildIs
  <2> HIDE DEF k
  <2>3. v \in T[k]
    BY <2>2, UnderThen
  <2> QED BY <2>2, <2>3
<1>3. Before(s, "left", p, y) \/ Before(s, "right", p, y)
  BY BeforeIs
<1>4. ~(Before(s, "left", v, y) /\ Before(s, "right", v, y))
  BY BeforeIs
<1> QED BY <1>2, <1>3, <1>4 DEF Sides

(* A node above a child is the child, or above its parent. *)
LEMMA AboveChild ==
    ASSUME NEW s, NEW T, NEW U, Tree(s, T, U), NEW p \in U, NEW sd \in Sides,
           s.store[p][sd] # Null, NEW y \in U, s.store[p][sd] \in T[y], y # s.store[p][sd]
    PROVE  p \in T[y]
<1> DEFINE k == s.store[p][sd]
<1>1. k \in U /\ k \in T[p] /\ Before(s, sd, k, p) /\ \A v \in U : v \in T[p] /\ Before(s, sd, v, p) => v \in T[k]
  BY ChildIs
<1> HIDE DEF k
<1>0. k \in T[y] /\ y # k
  BY DEF k
<1>2. CASE y \in T[p] /\ y # p
  <2>1. Before(s, sd, y, p)
    BY <1>0, <1>1, <1>2, SameSide
  <2>2. y \in T[k]
    BY <1>1, <1>2, <2>1
  <2> QED BY <1>0, <1>1, <2>2, UnderEach
<1>3. CASE y = p
  BY <1>3, KeyIs
<1>4. p \in T[y] \/ y \in T[p]
  BY <1>0, <1>1, UnderBoth
<1> QED BY <1>2, <1>3, <1>4

(* A child has one parent, and is on one side of it. *)
LEMMA OneParent ==
    ASSUME NEW s, NEW T, NEW U, Tree(s, T, U), NEW p \in U, NEW q \in U, NEW sd \in Sides,
           NEW se \in Sides, s.store[p][sd] # Null, s.store[q][se] = s.store[p][sd]
    PROVE  p = q /\ sd = se
<1>1. p \in T[q]
  <2>1. s.store[q][se] \in T[q] /\ s.store[q][se] # q
    BY ChildIs
  <2> QED BY <2>1, AboveChild
<1>2. q \in T[p]
  <2>1. s.store[p][sd] \in T[p] /\ s.store[p][sd] # p
    BY ChildIs
  <2> QED BY <2>1, AboveChild
<1>3. p = q
  BY <1>1, <1>2, UnderEach
<1>4. Before(s, sd, s.store[p][sd], p) /\ Before(s, se, s.store[p][sd], p) /\ s.store[p][sd] \in U
  BY <1>3, ChildIs
<1>5. sd = se
  BY <1>4, BeforeIs DEF Sides
<1> QED BY <1>3, <1>5

LEMMA RootAlone ==
    ASSUME NEW s, NEW T, NEW U, Tree(s, T, U), NEW p \in U, NEW sd \in Sides
    PROVE  /\ s.root \in U /\ s.root # Null /\ p \in T[s.root]
           /\ s.store[p][sd] # s.root /\ (s.root \in T[p] => p = s.root)
<1>1. s.root \in U /\ s.root # Null /\ \A y \in U : y \in T[s.root]
  BY DEF Tree
<1>2. \A y \in U : s.root \in T[y] => y = s.root
  BY <1>1, UnderEach
<1>3. ASSUME s.store[p][sd] = s.root PROVE FALSE
  <2>1. s.root \in T[p] /\ s.root # p
    BY <1>1, <1>3, ChildIs
  <2> QED BY <1>2, <2>1
<1> QED BY <1>1, <1>2, <1>3

---------------------------------------------------------------------------
(* find_node(). *)

Places(U) == [x : U \cup {Null}, link : {Root} \cup [node : U, side : Sides]]

(* The ID belongs on this side of z. *)
Toward(s, id, sd, z) == IF sd = "left" THEN id < s.store[z].id ELSE s.store[z].id < id

(* A link of the tree, or the place of its root. *)
Linked(s, w) ==
  /\ w.link = Root => w.x = s.root
  /\ w.link # Root => s.store[w.link.node][w.link.side] = w.x

(* The search went, at every node above, to the side the ID is on: what it *)
(* looks for is below.                                                     *)
Searched(s, T, U, id, w) ==
  /\ w \in Places(U) /\ Linked(s, w)
  /\ w.link # Root =>
       /\ Toward(s, id, w.link.side, w.link.node)
       /\ \A y \in U : w.link.node \in T[y] /\ y # w.link.node =>
            \A sd \in Sides : Toward(s, id, sd, y) <=> Before(s, sd, w.link.node, y)
  /\ \A v \in U : s.store[v].id = id => w.x # Null /\ v \in T[w.x]

LEMMA RootIsNone == \A U : Null \notin U => Root \notin [node : U, side : Sides]
  BY DEF Root

LEMMA DownSearched ==
    ASSUME NEW s, NEW T, NEW U, Tree(s, T, U), NEW id \in Nat, NEW w, Searched(s, T, U, id, w),
           w.x # Null, s.store[w.x].id # id
    PROVE  LET z == Down(s, id, w)
           IN  /\ Searched(s, T, U, id, z)
               /\ z.x # Null => T[z.x] \subseteq T[w.x] /\ w.x \notin T[z.x]
<1> DEFINE p == w.x
           sd == IF id < s.store[p].id THEN "left" ELSE "right"
           k == s.store[p][sd]
           z == Down(s, id, w)
<1>1. p \in U /\ w \in Places(U) /\ s.store[p].id \in Nat
  <2>1. w.x \in U
    BY DEF Searched, Places
  <2> QED BY <2>1, KeyIs DEF Searched
<1>2. sd \in Sides /\ Toward(s, id, sd, p) /\ \A se \in Sides : Toward(s, id, se, p) => se = sd
  BY <1>1 DEF Sides, Toward
<1>3. z = [x |-> k, link |-> [node |-> p, side |-> sd]]
  BY DEF Down, Child
<1>4. z.x = k /\ z.link = [node |-> p, side |-> sd] /\ z.link.node = p /\ z.link.side = sd /\ z.link # Root
  <2>1. p # Null
    BY <1>1 DEF Tree, Null
  <2>2. [node |-> p, side |-> sd] # Root
    BY <2>1 DEF Root
  <2> QED BY <1>3, <2>2
<1> HIDE DEF sd, z
<1>5. k # Null => k \in U /\ k \in T[p] /\ k # p /\ \A v \in U : (v \in T[p] /\ Before(s, sd, v, p)) <=> v \in T[k]
  BY <1>1, <1>2, ChildIs
<1>6. z \in Places(U)
  BY <1>1, <1>2, <1>3, <1>5 DEF Places
<1>7. Linked(s, z)
  BY <1>4 DEF Linked
<1>8. ASSUME NEW y \in U, p \in T[y], y # p, NEW se \in Sides
      PROVE  Toward(s, id, se, y) <=> Before(s, se, p, y)
  <2>1. CASE w.link = Root
    <3>1. p = s.root
      BY <2>1 DEF Searched, Linked
    <3> QED BY <1>1, <1>8, <3>1, RootAlone
  <2>2. CASE w.link # Root
    <3> DEFINE q == w.link.node
    <3>1. q \in U /\ w.link.side \in Sides /\ s.store[q][w.link.side] = p /\ Toward(s, id, w.link.side, q)
      BY <2>2 DEF Searched, Linked, Places
    <3>2. q \in T[y]
      BY <1>1, <1>8, <3>1, AboveChild
    <3>3. p \in T[q] /\ Before(s, w.link.side, p, q)
      BY <1>1, <3>1, ChildIs
    <3> HIDE DEF q
    <3>4. CASE y = q
      <4>1. s.store[q].id \in Nat /\ s.store[p].id \in Nat
        BY <1>1, <3>1, KeyIs
      <4> QED BY <3>1, <3>3, <3>4, <4>1 DEF Toward, Before, Sides
    <3>5. CASE y # q
      <4>1. Toward(s, id, se, y) <=> Before(s, se, q, y)
        BY <2>2, <3>2, <3>5 DEF Searched, q
      <4>2. Before(s, se, p, y) <=> Before(s, se, q, y)
        BY <1>1, <3>1, <3>2, <3>3, <3>5, SameSide
      <4> QED BY <4>1, <4>2
    <3> QED BY <3>4, <3>5
  <2> QED BY <2>1, <2>2
<1>9. ASSUME NEW v \in U, s.store[v].id = id PROVE k # Null /\ v \in T[k]
  <2>1. v \in T[p]
    BY <1>9 DEF Searched
  <2>2. Before(s, sd, v, p)
    BY <1>2, <1>9 DEF Toward, Before
  <2>3. k # Null
    BY <1>1, <1>2, <2>1, <2>2, NoChildIs
  <2> QED BY <1>5, <2>1, <2>2, <2>3
<1>10. Searched(s, T, U, id, z)
  BY <1>2, <1>4, <1>6, <1>7, <1>8, <1>9 DEF Searched
<1>11. k # Null => T[k] \subseteq T[p] /\ p \notin T[k]
  <2> SUFFICES ASSUME k # Null PROVE T[k] \subseteq T[p] /\ p \notin T[k]
    OBVIOUS
  <2>1. T[k] \subseteq U
    BY <1>5, UnderIn
  <2> QED BY <1>1, <1>2, <1>5, <2>1, BeforeIs
<1> QED BY <1>4, <1>10, <1>11 DEF z

(* What is under a node is finite, and less than what is under one above.  *)
LEMMA UnderShrinks ==
    ASSUME NEW s, s.size \in Nat, NEW T, NEW U, Tree(s, T, U)
    PROVE  /\ Cardinality(U) \in Nat /\ Cardinality(U) <= s.size
           /\ \A x \in U : Cardinality(T[x]) \in Nat /\ Cardinality(T[x]) > 0 /\ Cardinality(T[x]) <= Cardinality(U)
           /\ \A x, y \in U : T[y] \subseteq T[x] /\ x \notin T[y] => Cardinality(T[y]) < Cardinality(T[x])
<1>1. U \in SUBSET (1..s.size)
  BY DEF Tree
<1>2. IsFiniteSet(1..s.size) /\ Cardinality(1..s.size) <= s.size
  <2>1. 1 \in Int /\ s.size \in Int
    OBVIOUS
  <2>2. /\ IsFiniteSet(1..s.size)
        /\ Cardinality(1..s.size) = IF 1 > s.size THEN 0 ELSE s.size - 1 + 1
    BY <2>1, FS_Interval
  <2> QED BY <2>2
<1>3. IsFiniteSet(U) /\ Cardinality(U) <= Cardinality(1..s.size)
  BY <1>1, <1>2, FS_Subset
<1>4. Cardinality(U) \in Nat /\ Cardinality(1..s.size) \in Nat
  BY <1>2, <1>3, FS_CardinalityType
<1>5. ASSUME NEW x \in U
      PROVE  /\ IsFiniteSet(T[x]) /\ Cardinality(T[x]) \in Nat /\ Cardinality(T[x]) <= Cardinality(U)
             /\ Cardinality(T[x]) > 0
  <2>1. T[x] \in SUBSET U /\ x \in T[x]
    BY UnderIn, KeyIs
  <2>2. IsFiniteSet(T[x]) /\ Cardinality(T[x]) <= Cardinality(U)
    BY <1>3, <2>1, FS_Subset
  <2>3. Cardinality(T[x]) \in Nat
    BY <2>2, FS_CardinalityType
  <2>4. Cardinality(T[x]) # 0
    BY <2>1, <2>2, FS_EmptySet
  <2> QED BY <2>2, <2>3, <2>4
<1>6. ASSUME NEW x \in U, NEW y \in U, T[y] \subseteq T[x], x \notin T[y]
      PROVE  Cardinality(T[y]) < Cardinality(T[x])
  <2>1. T[y] \in SUBSET T[x] /\ x \in T[x] /\ IsFiniteSet(T[x])
    BY <1>5, <1>6, KeyIs
  <2>2. Cardinality(T[y]) <= Cardinality(T[x]) /\ (Cardinality(T[x]) = Cardinality(T[y]) => T[x] = T[y])
    BY <2>1, FS_Subset
  <2>3. Cardinality(T[x]) \in Nat /\ Cardinality(T[y]) \in Nat
    BY <1>5
  <2> QED BY <1>6, <2>1, <2>2, <2>3
<1> QED BY <1>2, <1>3, <1>4, <1>5, <1>6

LEMMA DownPlaces ==
    ASSUME NEW s, NEW T, NEW U, Tree(s, T, U), NEW id, NEW w \in Places(U)
    PROVE  Down(s, id, w) \in Places(U)
<1> DEFINE sd == IF id < s.store[w.x].id THEN "left" ELSE "right"
<1>1. CASE w.x = Null \/ s.store[w.x].id = id
  BY <1>1 DEF Down
<1>2. CASE ~(w.x = Null \/ s.store[w.x].id = id)
  <2>1. Down(s, id, w) = Child(s, w.x, sd)
    BY <1>2 DEF Down
  <2>2. sd \in Sides /\ w.x \in U
    BY <1>2 DEF Sides, Places
  <2> HIDE DEF sd
  <2>3. s.store[w.x][sd] \in U \cup {Null}
    BY <2>2, ChildIs
  <2> QED BY <2>1, <2>2, <2>3 DEF Child, Places
<1> QED BY <1>1, <1>2

(* The search ends: at the node with the ID, or where it is to be.         *)
LEMMA FindSearched ==
    ASSUME NEW s, s.size \in Nat, NEW T, NEW U, Tree(s, T, U), NEW id \in Nat
    PROVE  LET w == find_node(s, id)
           IN  Searched(s, T, U, id, w) /\ (w.x = Null \/ s.store[w.x].id = id)
<1> DEFINE S == Places(U)
           f == [w \in S |-> Down(s, id, w)]
           Ends(w) == w.x = Null \/ s.store[w.x].id = id
           Near(n, w) == Searched(s, T, U, id, w) /\ (Ends(w) \/ Cardinality(T[w.x]) + n <= Cardinality(U))
           P == {q \in (0..s.size) \X S : Near(q[1], q[2])}
<1>1. f \in [S -> S] /\ \A w \in S : f[w] = Down(s, id, w)
  BY DownPlaces
<1>2. Top(s) \in S
  <2>1. s.root \in U \cup {Null}
    BY DEF Tree
  <2> QED BY <2>1 DEF Top, Places
<1>3. PICK h \in [0..s.size -> S] : Runs(h, f, Top(s), s.size)
  <2> HIDE DEF S, f
  <2> QED BY <1>1, <1>2, RunsExist
<1>4. find_node(s, id) = h[s.size]
  <2> HIDE DEF S, f
  <2> QED BY <1>1, <1>2, <1>3, FindIs
<1>5. Near(0, Top(s))
  <2>1. Searched(s, T, U, id, Top(s))
    <3>1. \A v \in U : s.root # Null /\ v \in T[s.root]
      BY DEF Tree
    <3> QED BY <1>2, <3>1 DEF Searched, Top, Linked
  <2>2. s.root # Null => Cardinality(T[s.root]) \in Nat /\ Cardinality(T[s.root]) <= Cardinality(U)
    BY UnderShrinks DEF Tree
  <2> QED BY <2>1, <2>2 DEF Top
<1>6. ASSUME NEW n \in 0..s.size, NEW w \in S, n < s.size, Near(n, w)
      PROVE  n + 1 \in 0..s.size /\ Near(n + 1, Down(s, id, w))
  <2>1. CASE Ends(w)
    BY <1>6, <2>1 DEF Down
  <2>2. CASE ~Ends(w)
    <3> DEFINE z == Down(s, id, w)
    <3>1. Searched(s, T, U, id, z) /\ (z.x # Null => T[z.x] \subseteq T[w.x] /\ w.x \notin T[z.x])
      BY <1>6, <2>2, DownSearched
    <3>2. w.x \in U /\ (z.x # Null => z.x \in U)
      BY <1>6, <2>2, <3>1 DEF Searched, Places
    <3> HIDE DEF z
    <3>3. z.x # Null => /\ Cardinality(T[z.x]) < Cardinality(T[w.x])
                        /\ Cardinality(T[z.x]) \in Nat /\ Cardinality(T[w.x]) \in Nat /\ Cardinality(U) \in Nat
      BY <3>1, <3>2, UnderShrinks
    <3>4. z.x # Null => Cardinality(T[z.x]) + (n + 1) <= Cardinality(U)
      BY <1>6, <2>2, <3>3
    <3>5. Near(n + 1, z)
      BY <3>1, <3>4
    <3> QED BY <1>6, <3>5 DEF z
  <2> QED BY <2>1, <2>2
<1>7. << s.size, h[s.size] >> \in P
  <2>1. << 0, Top(s) >> \in P
    BY <1>2, <1>5
  <2>2. Steps(P, S, f, s.size)
    <3> SUFFICES ASSUME NEW n \in 0..s.size, NEW w \in S, n < s.size, << n, w >> \in P
                 PROVE  << n + 1, f[w] >> \in P
      BY DEF Steps
    <3>1. Near(n, w)
      OBVIOUS
    <3>2. n + 1 \in 0..s.size /\ Near(n + 1, f[w]) /\ f[w] \in S
      BY <1>1, <1>6, <3>1
    <3> HIDE DEF f, S, Near
    <3> QED BY <3>2
  <2> HIDE DEF S, f, P, Near
  <2>3. s.size \in Nat /\ f \in [S -> S] /\ Top(s) \in S
    BY <1>1, <1>2
  <2> QED BY <1>3, <2>1, <2>2, <2>3, RunsReach
<1>8. Near(s.size, find_node(s, id))
  BY <1>4, <1>7
<1>9. Ends(find_node(s, id))
  <2> DEFINE w == find_node(s, id)
  <2>1. ASSUME ~Ends(w) PROVE FALSE
    <3>1. w.x \in U
      BY <1>8, <2>1 DEF Searched, Places
    <3>2. /\ Cardinality(T[w.x]) \in Nat /\ Cardinality(T[w.x]) > 0 /\ Cardinality(U) \in Nat
          /\ Cardinality(U) <= s.size
      BY <3>1, UnderShrinks
    <3>3. Cardinality(T[w.x]) + s.size <= Cardinality(U)
      BY <1>8, <2>1
    <3> HIDE DEF w
    <3> QED BY <3>2, <3>3
  <2> QED BY <2>1
<1> QED BY <1>8, <1>9

---------------------------------------------------------------------------
(* find_replacement_node(): the node next to x, on the side of `first'. *)

Turned(first, then) == first \in Sides /\ then \in Sides /\ first # then

LEMMA TurnedIs ==
    ASSUME NEW s, NEW T, NEW U, Tree(s, T, U), NEW first, NEW then, Turned(first, then),
           NEW v \in U, NEW z \in U
    PROVE  /\ Before(s, first, v, z) <=> Before(s, then, z, v)
           /\ v # z => Before(s, first, v, z) \/ Before(s, then, v, z)
           /\ ~(Before(s, first, v, z) /\ Before(s, then, v, z))
<1>1. (first = "left" /\ then = "right") \/ (first = "right" /\ then = "left")
  BY DEF Turned, Sides
<1>2. Before(s, "left", v, z) <=> Before(s, "right", z, v)
  BY BeforeIs
<1>3. Before(s, "left", z, v) <=> Before(s, "right", v, z)
  BY BeforeIs
<1>4. /\ v # z => Before(s, "left", v, z) \/ Before(s, "right", v, z)
      /\ ~(Before(s, "left", v, z) /\ Before(s, "right", v, z))
  BY BeforeIs
<1> QED BY <1>1, <1>2, <1>3, <1>4

Beside(s, T, U, x, first, then, w) ==
  /\ w \in Places(U) /\ Linked(s, w) /\ w.x \in U /\ w.link # Root
  /\ w.x \in T[x] /\ Before(s, first, w.x, x)
  /\ IF w.link.node = x THEN w.link.side = first
     ELSE w.link.side = then /\ w.link.node \in T[x] /\ Before(s, first, w.link.node, x)
  /\ \A v \in U : v \in T[x] /\ Before(s, first, v, x) => v \in T[w.x] \/ Before(s, first, v, w.x)

LEMMA BesideStarts ==
    ASSUME NEW s, NEW T, NEW U, Tree(s, T, U), NEW x \in U, NEW first, NEW then, Turned(first, then),
           s.store[x][first] # Null
    PROVE  Beside(s, T, U, x, first, then, Child(s, x, first))
<1> DEFINE k == s.store[x][first]
           w == Child(s, x, first)
<1>1. first \in Sides
  BY DEF Turned
<1>2. /\ k \in U /\ k \in T[x] /\ k # x /\ Before(s, first, k, x)
      /\ \A v \in U : (v \in T[x] /\ Before(s, first, v, x)) <=> v \in T[k]
  BY <1>1, ChildIs
<1>3. w = [x |-> k, link |-> [node |-> x, side |-> first]]
  BY DEF Child
<1>4. w.x = k /\ w.link.node = x /\ w.link.side = first /\ w.link # Root
  <2>1. x # Null
    BY DEF Tree, Null
  <2>2. [node |-> x, side |-> first] # Root
    BY <2>1 DEF Root
  <2> QED BY <1>3, <2>2
<1>5. w \in Places(U)
  BY <1>1, <1>2, <1>3 DEF Places
<1> HIDE DEF w
<1>6. Linked(s, w)
  BY <1>4 DEF Linked
<1> HIDE DEF k
<1>7. w.x \in U /\ w.x \in T[x] /\ Before(s, first, w.x, x)
  BY <1>2, <1>4
<1>8. \A v \in U : v \in T[x] /\ Before(s, first, v, x) => v \in T[w.x]
  BY <1>2, <1>4
<1>9. Beside(s, T, U, x, first, then, w)
  BY <1>4, <1>5, <1>6, <1>7, <1>8 DEF Beside
<1> QED BY <1>9 DEF w

LEMMA BesideOn ==
    ASSUME NEW s, NEW T, NEW U, Tree(s, T, U), NEW x \in U, NEW first, NEW then, Turned(first, then),
           NEW w, Beside(s, T, U, x, first, then, w), s.store[w.x][then] # Null
    PROVE  LET z == On(s, then, w)
           IN  Beside(s, T, U, x, first, then, z) /\ T[z.x] \subseteq T[w.x] /\ w.x \notin T[z.x]
<1> DEFINE p == w.x
           k == s.store[p][then]
           z == On(s, then, w)
<1>1. then \in Sides /\ first \in Sides /\ p \in U /\ p \in T[x] /\ Before(s, first, p, x)
  BY DEF Turned, Beside
<1>2. /\ k \in U /\ k \in T[p] /\ k # p /\ Before(s, then, k, p)
      /\ \A v \in U : (v \in T[p] /\ Before(s, then, v, p)) <=> v \in T[k]
  BY <1>1, ChildIs
<1>3. z = [x |-> k, link |-> [node |-> p, side |-> then]]
  BY DEF On, Child
<1>4. z.x = k /\ z.link.node = p /\ z.link.side = then /\ z.link # Root
  <2>1. p # Null
    BY <1>1 DEF Tree, Null
  <2>2. [node |-> p, side |-> then] # Root
    BY <2>1 DEF Root
  <2> QED BY <1>3, <2>2
<1>5. z \in Places(U)
  BY <1>1, <1>2, <1>3 DEF Places
<1> HIDE DEF z
<1>6. Linked(s, z)
  BY <1>4 DEF Linked
<1>7. p # x
  BY <1>1, BeforeIs
<1>8. T[k] \subseteq T[p] /\ p \notin T[k]
  <2>1. T[k] \subseteq U
    BY <1>2, UnderIn
  <2> QED BY <1>1, <1>2, <2>1, BeforeIs
<1> HIDE DEF k, p
<1>9. k \in T[x] /\ Before(s, first, k, x)
  <2>1. k \in T[x]
    BY <1>1, <1>2, UnderThen
  <2> QED BY <1>1, <1>2, <1>7, <2>1, SameSide
<1>10. Before(s, first, p, k)
  BY <1>1, <1>2, TurnedIs
<1>11. ASSUME NEW v \in U, v \in T[x], Before(s, first, v, x) PROVE v \in T[k] \/ Before(s, first, v, k)
  <2>1. CASE Before(s, first, v, p)
    BY <1>1, <1>2, <1>10, <2>1, BeforeThen
  <2>2. CASE v \in T[p] /\ ~Before(s, first, v, p)
    BY <1>1, <1>2, <1>10, <2>2, TurnedIs
  <2>3. v \in T[p] \/ Before(s, first, v, p)
    BY <1>11 DEF Beside, p
  <2> QED BY <2>1, <2>2, <2>3
<1>12. Beside(s, T, U, x, first, then, z)
  BY <1>1, <1>2, <1>4, <1>5, <1>6, <1>7, <1>9, <1>11 DEF Beside
<1> QED BY <1>4, <1>8, <1>12 DEF z, k, p

LEMMA OnPlaces ==
    ASSUME NEW s, NEW T, NEW U, Tree(s, T, U), NEW then \in Sides, NEW w \in Places(U), w.x \in U
    PROVE  On(s, then, w) \in Places(U) /\ On(s, then, w).x \in U
<1>1. CASE s.store[w.x][then] = Null
  BY <1>1 DEF On
<1>2. CASE s.store[w.x][then] # Null
  <2>1. On(s, then, w) = [x |-> s.store[w.x][then], link |-> [node |-> w.x, side |-> then]]
    BY <1>2 DEF On, Child
  <2>2. s.store[w.x][then] \in U
    BY <1>2, ChildIs
  <2> QED BY <2>1, <2>2 DEF Places
<1> QED BY <1>1, <1>2

(* The walk ends at the node next to x. *)
LEMMA FurthestBeside ==
    ASSUME NEW s, s.size \in Nat, NEW T, NEW U, Tree(s, T, U), NEW x \in U, NEW first, NEW then,
           Turned(first, then), s.store[x][first] # Null
    PROVE  LET w == Furthest(s, x, first, then)
           IN  Beside(s, T, U, x, first, then, w) /\ s.store[w.x][then] = Null
<1> DEFINE S == {w \in Places(U) : w.x \in U}
           f == [w \in S |-> On(s, then, w)]
           from == Child(s, x, first)
           Ends(w) == s.store[w.x][then] = Null
           Near(n, w) == Beside(s, T, U, x, first, then, w) /\ (Ends(w) \/ Cardinality(T[w.x]) + n <= Cardinality(U))
           P == {q \in (0..s.size) \X S : Near(q[1], q[2])}
<1>0. then \in Sides
  BY DEF Turned
<1>1. f \in [S -> S] /\ \A w \in S : f[w] = On(s, then, w)
  BY <1>0, OnPlaces
<1>2. Beside(s, T, U, x, first, then, from)
  BY BesideStarts
<1>3. from \in S
  BY <1>2 DEF Beside
<1> HIDE DEF from
<1>4. PICK h \in [0..s.size -> S] : Runs(h, f, from, s.size)
  <2> HIDE DEF S, f
  <2> QED BY <1>1, <1>3, RunsExist
<1>5. Furthest(s, x, first, then) = h[s.size]
  <2> HIDE DEF S, f
  <2> QED BY <1>1, <1>3, <1>4, FurthestIs DEF from
<1>6. Near(0, from)
  <2>1. Cardinality(T[from.x]) \in Nat /\ Cardinality(T[from.x]) <= Cardinality(U)
    BY <1>2, UnderShrinks DEF Beside
  <2> QED BY <1>2, <2>1
<1>7. ASSUME NEW n \in 0..s.size, NEW w \in S, n < s.size, Near(n, w)
      PROVE  n + 1 \in 0..s.size /\ Near(n + 1, On(s, then, w))
  <2>1. CASE Ends(w)
    BY <1>7, <2>1 DEF On
  <2>2. CASE ~Ends(w)
    <3> DEFINE z == On(s, then, w)
    <3>1. Beside(s, T, U, x, first, then, z) /\ T[z.x] \subseteq T[w.x] /\ w.x \notin T[z.x]
      BY <1>7, <2>2, BesideOn
    <3>2. w.x \in U /\ z.x \in U
      BY <1>7, <3>1 DEF Beside
    <3> HIDE DEF z
    <3>3. /\ Cardinality(T[z.x]) < Cardinality(T[w.x])
          /\ Cardinality(T[z.x]) \in Nat /\ Cardinality(T[w.x]) \in Nat /\ Cardinality(U) \in Nat
      BY <3>1, <3>2, UnderShrinks
    <3>4. Cardinality(T[z.x]) + (n + 1) <= Cardinality(U)
      BY <1>7, <2>2, <3>3
    <3>5. Near(n + 1, z)
      BY <3>1, <3>4
    <3> QED BY <1>7, <3>5 DEF z
  <2> QED BY <2>1, <2>2
<1>8. << s.size, h[s.size] >> \in P
  <2>1. << 0, from >> \in P
    BY <1>3, <1>6
  <2>2. Steps(P, S, f, s.size)
    <3> SUFFICES ASSUME NEW n \in 0..s.size, NEW w \in S, n < s.size, << n, w >> \in P
                 PROVE  << n + 1, f[w] >> \in P
      BY DEF Steps
    <3>1. Near(n, w)
      OBVIOUS
    <3>2. n + 1 \in 0..s.size /\ Near(n + 1, f[w]) /\ f[w] \in S
      BY <1>1, <1>7, <3>1
    <3> HIDE DEF f, S, Near
    <3> QED BY <3>2
  <2> HIDE DEF S, f, P, Near
  <2>3. s.size \in Nat /\ f \in [S -> S] /\ from \in S
    BY <1>1, <1>3
  <2> QED BY <1>4, <2>1, <2>2, <2>3, RunsReach
<1>9. Near(s.size, Furthest(s, x, first, then))
  BY <1>5, <1>8
<1>10. Ends(Furthest(s, x, first, then))
  <2> DEFINE w == Furthest(s, x, first, then)
  <2>1. ASSUME ~Ends(w) PROVE FALSE
    <3>1. w.x \in U
      BY <1>9 DEF Beside
    <3>2. /\ Cardinality(T[w.x]) \in Nat /\ Cardinality(T[w.x]) > 0 /\ Cardinality(U) \in Nat
          /\ Cardinality(U) <= s.size
      BY <3>1, UnderShrinks
    <3>3. Cardinality(T[w.x]) + s.size <= Cardinality(U)
      BY <1>9, <2>1
    <3> HIDE DEF w
    <3> QED BY <3>2, <3>3
  <2> QED BY <2>1
<1> QED BY <1>9, <1>10

---------------------------------------------------------------------------
(* remove_node(): links. *)

(* t differs from s in the tree only. *)
SameList(s, t) ==
  /\ Shape(t)
  /\ t.size = s.size /\ t.used = s.used /\ t.init = s.init /\ t.head = s.head /\ t.tail = s.tail
  /\ t.store[Null] = s.store[Null]
  /\ \A v \in 0..s.size : /\ t.store[v].id = s.store[v].id /\ t.store[v].par = s.store[v].par
                          /\ t.store[v].on = s.store[v].on
                          /\ t.store[v].prev = s.store[v].prev /\ t.store[v].next = s.store[v].next

LEMMA SameListThen ==
    ASSUME NEW s, NEW t, NEW u, SameList(s, t), SameList(t, u)
    PROVE  SameList(s, u)
  BY DEF SameList

LEMMA EntryLinked ==
    ASSUME NEW r \in Entry, NEW sd \in Sides, NEW y \in Nat
    PROVE  LET z == [r EXCEPT ![sd] = y]
           IN  /\ z \in Entry /\ z[sd] = y /\ \A se \in Sides : se # sd => z[se] = r[se]
               /\ z.id = r.id /\ z.par = r.par /\ z.on = r.on /\ z.prev = r.prev /\ z.next = r.next
  BY DEF Entry, Sides

(* One link of the tree is set. *)
Relinked(s, t, p, sd, y) ==
  /\ SameList(s, t) /\ t.root = s.root
  /\ \A v \in 0..s.size, se \in Sides :
       t.store[v][se] = IF v = p /\ se = sd THEN y ELSE s.store[v][se]

LEMMA StoreLinked ==
    ASSUME NEW s, Shape(s), NEW p \in 1..s.size, NEW sd \in Sides, NEW y \in Nat
    PROVE  Relinked(s, [s EXCEPT !.store[p][sd] = y], p, sd, y)
<1> DEFINE z == [s.store[p] EXCEPT ![sd] = y]
           st == [s.store EXCEPT ![p] = z]
           t == [s EXCEPT !.store = st]
<1>0. Null # p /\ Null \in 0..s.size /\ p \in 0..s.size
  BY DEF Shape, Null
<1>1. s.store[p] \in Entry
  BY <1>0 DEF Shape
<1>2. /\ z \in Entry /\ z[sd] = y /\ \A se \in Sides : se # sd => z[se] = s.store[p][se]
      /\ z.id = s.store[p].id /\ z.par = s.store[p].par /\ z.on = s.store[p].on
      /\ z.prev = s.store[p].prev /\ z.next = s.store[p].next
  BY <1>1, EntryLinked
<1> HIDE DEF z
<1>3. st \in [0..s.size -> Entry] /\ st[p] = z /\ \A v \in 0..s.size : v # p => st[v] = s.store[v]
  BY <1>0, <1>2 DEF Shape
<1> HIDE DEF st
<1>4. /\ t.size = s.size /\ t.used = s.used /\ t.init = s.init /\ t.head = s.head /\ t.tail = s.tail
      /\ t.root = s.root /\ t.store = st
      /\ t = [size |-> t.size, used |-> t.used, init |-> t.init, head |-> t.head, tail |-> t.tail,
              root |-> t.root, store |-> t.store]
  BY DEF Shape
<1>5. [s EXCEPT !.store[p][sd] = y] = t
  BY DEF t, st, z, Shape
<1> HIDE DEF t
<1>6. Shape(t)
  BY <1>3, <1>4 DEF Shape
<1>7. \A v \in 0..s.size : v # p => t.store[v] = s.store[v]
  BY <1>3, <1>4
<1>8. t.store[p] = z
  BY <1>0, <1>3, <1>4
<1>9. SameList(s, t)
  BY <1>0, <1>2, <1>4, <1>6, <1>7, <1>8 DEF SameList
<1>10. \A v \in 0..s.size, se \in Sides :
         t.store[v][se] = IF v = p /\ se = sd THEN y ELSE s.store[v][se]
  BY <1>2, <1>7, <1>8
<1> QED BY <1>4, <1>5, <1>9, <1>10 DEF Relinked

IsLink(s, link) == link = Root \/ (link # Root /\ link.node \in 1..s.size /\ link.side \in Sides)

LEMMA SetLinkIs ==
    ASSUME NEW s, Shape(s), NEW link, IsLink(s, link), NEW y \in Nat
    PROVE  LET t == set_link(s, link, y)
           IN  /\ SameList(s, t)
               /\ t.root = IF link = Root THEN y ELSE s.root
               /\ \A v \in 0..s.size, se \in Sides :
                    t.store[v][se] = IF link # Root /\ v = link.node /\ se = link.side THEN y
                                     ELSE s.store[v][se]
<1>1. CASE link = Root
  <2> DEFINE t == [s EXCEPT !.root = y]
  <2>1. set_link(s, link, y) = t
    BY <1>1 DEF set_link
  <2>2. /\ t.size = s.size /\ t.used = s.used /\ t.init = s.init /\ t.head = s.head /\ t.tail = s.tail
        /\ t.root = y /\ t.store = s.store
        /\ t = [size |-> t.size, used |-> t.used, init |-> t.init, head |-> t.head, tail |-> t.tail,
                root |-> t.root, store |-> t.store]
    BY DEF Shape
  <2> HIDE DEF t
  <2>3. SameList(s, t)
    BY <2>2 DEF SameList, Shape
  <2> QED BY <1>1, <2>1, <2>2, <2>3
<1>2. CASE link # Root
  <2>1. link.node \in 1..s.size /\ link.side \in Sides
    BY <1>2 DEF IsLink
  <2>2. Relinked(s, set_link(s, link, y), link.node, link.side, y)
    BY <1>2, <2>1, StoreLinked DEF set_link
  <2> QED BY <1>2, <2>2 DEF Relinked
<1> QED BY <1>1, <1>2

(* The node y that replaces x takes over its links. *)
Adopted(s, y, a, d) == [s EXCEPT !.store[y].left = a, !.store[y].right = d]

LEMMA AdoptIs ==
    ASSUME NEW s, Shape(s), NEW y \in 1..s.size, NEW a \in Nat, NEW d \in Nat
    PROVE  LET t == Adopted(s, y, a, d)
           IN  /\ SameList(s, t) /\ t.root = s.root
               /\ \A v \in 0..s.size : v # y => \A se \in Sides : t.store[v][se] = s.store[v][se]
               /\ t.store[y]["left"] = a /\ t.store[y]["right"] = d
<1> DEFINE p == [s EXCEPT !.store[y]["left"] = a]
           q == [p EXCEPT !.store[y]["right"] = d]
           t == Adopted(s, y, a, d)
<1>1. y \in 0..s.size /\ "left" \in Sides /\ "right" \in Sides
  BY DEF Shape, Sides
<1>2. Relinked(s, p, y, "left", a)
  BY <1>1, StoreLinked
<1>3. Relinked(p, q, y, "right", d)
  <2>1. Shape(p) /\ p.size = s.size
    BY <1>2 DEF Relinked, SameList
  <2> HIDE DEF p
  <2> QED BY <1>1, <2>1, StoreLinked
<1>4. t = q
  BY DEF Adopted
<1>5. SameList(s, q) /\ q.root = s.root
  BY <1>2, <1>3, SameListThen DEF Relinked
<1> HIDE DEF p, q
<1>6. p.size = s.size
  BY <1>2 DEF Relinked, SameList
<1>7. \A v \in 0..s.size : v # y => \A se \in Sides : q.store[v][se] = s.store[v][se]
  BY <1>2, <1>3, <1>6 DEF Relinked
<1>8. q.store[y]["left"] = a /\ q.store[y]["right"] = d
  BY <1>1, <1>2, <1>3, <1>6 DEF Relinked
<1> QED BY <1>4, <1>5, <1>7, <1>8

LEMMA AdoptsIs ==
    ASSUME NEW s, Shape(s), NEW y \in 1..s.size, NEW x \in 0..s.size
    PROVE  LET t == Adopted(s, y, s.store[x].left, s.store[x].right)
           IN  /\ SameList(s, t) /\ t.root = s.root
               /\ \A v \in 0..s.size : v # y => \A se \in Sides : t.store[v][se] = s.store[v][se]
               /\ \A se \in Sides : t.store[y][se] = s.store[x][se]
<1> DEFINE a == s.store[x].left
           d == s.store[x].right
           t == Adopted(s, y, a, d)
<1>1. a \in Nat /\ d \in Nat
  BY DEF Shape, Entry
<1>2. a = s.store[x]["left"] /\ d = s.store[x]["right"]
  OBVIOUS
<1> HIDE DEF a, d
<1>3. /\ SameList(s, t) /\ t.root = s.root
      /\ \A v \in 0..s.size : v # y => \A se \in Sides : t.store[v][se] = s.store[v][se]
      /\ t.store[y]["left"] = a /\ t.store[y]["right"] = d
  BY <1>1, AdoptIs
<1> HIDE DEF t
<1>4. \A se \in Sides : t.store[y][se] = s.store[x][se]
  BY <1>2, <1>3 DEF Sides
<1> QED BY <1>3, <1>4 DEF t, a, d

(* The links of a node x that is replaced by y, which leaves its place to o. *)
Replaced(s, t, x, y, l, r, o) ==
  /\ SameList(s, t)
  /\ t.root = IF l = Root THEN y ELSE s.root
  /\ \A sd \in Sides : t.store[y][sd] = IF r.node = x /\ r.side = sd THEN o ELSE s.store[x][sd]
  /\ \A v \in 0..s.size : v # y =>
       \A sd \in Sides : t.store[v][sd] = IF l # Root /\ v = l.node /\ sd = l.side THEN y
                                         ELSE IF v = r.node /\ sd = r.side THEN o
                                         ELSE s.store[v][sd]

LEMMA ReplacedIs ==
    ASSUME NEW s, Shape(s), NEW x \in 1..s.size, NEW y \in 1..s.size, x # y,
           NEW l, IsLink(s, l), l # Root => l.node # x,
           NEW r, IsLink(s, r), r # Root, NEW o \in Nat
    PROVE  LET moved == set_link(set_link(s, r, o), l, y)
           IN  Replaced(s, [moved EXCEPT !.store[y].left = moved.store[x].left,
                                         !.store[y].right = moved.store[x].right], x, y, l, r, o)
<1> DEFINE p == set_link(s, r, o)
           moved == set_link(p, l, y)
           t == Adopted(moved, y, moved.store[x].left, moved.store[x].right)
<1>0. y \in Nat /\ x \in 0..s.size /\ y \in 0..s.size
  BY DEF Shape
<1>1. /\ SameList(s, p) /\ p.root = s.root
      /\ \A v \in 0..s.size, se \in Sides :
           p.store[v][se] = IF v = r.node /\ se = r.side THEN o ELSE s.store[v][se]
  BY SetLinkIs
<1> HIDE DEF p
<1>2. Shape(p) /\ p.size = s.size /\ IsLink(p, l)
  BY <1>1 DEF SameList, IsLink
<1>3. /\ SameList(p, moved)
      /\ moved.root = IF l = Root THEN y ELSE p.root
      /\ \A v \in 0..s.size, se \in Sides :
           moved.store[v][se] = IF l # Root /\ v = l.node /\ se = l.side THEN y ELSE p.store[v][se]
  BY <1>0, <1>2, SetLinkIs
<1> HIDE DEF moved
<1>4. Shape(moved) /\ moved.size = s.size /\ moved.store[x].left \in Nat /\ moved.store[x].right \in Nat
  <2>1. Shape(moved) /\ moved.size = s.size
    BY <1>2, <1>3 DEF SameList
  <2>2. moved.store[x] \in Entry
    BY <1>0, <2>1 DEF Shape
  <2> QED BY <2>1, <2>2 DEF Entry
<1>5. /\ SameList(moved, t) /\ t.root = moved.root
      /\ \A v \in 0..s.size : v # y => \A se \in Sides : t.store[v][se] = moved.store[v][se]
      /\ \A se \in Sides : t.store[y][se] = moved.store[x][se]
  BY <1>0, <1>4, AdoptsIs
<1> HIDE DEF t
<1>6. SameList(s, t)
  BY <1>1, <1>3, <1>5, SameListThen
<1>7. \A se \in Sides : t.store[y][se] = moved.store[x][se]
  BY <1>5
<1>8. \A se \in Sides : moved.store[x][se] = IF r.node = x /\ r.side = se THEN o ELSE s.store[x][se]
  BY <1>0, <1>1, <1>3
<1>9. \A v \in 0..s.size : v # y =>
       \A sd \in Sides : t.store[v][sd] = IF l # Root /\ v = l.node /\ sd = l.side THEN y
                                         ELSE IF v = r.node /\ sd = r.side THEN o
                                         ELSE s.store[v][sd]
  BY <1>1, <1>3, <1>5
<1>10. Replaced(s, t, x, y, l, r, o)
  BY <1>1, <1>3, <1>5, <1>6, <1>7, <1>8, <1>9 DEF Replaced
<1> QED BY <1>10 DEF t, moved, p, Adopted

(* A part of the tree, with other names. *)
LEMMA BelowMapped ==
    ASSUME NEW T, NEW U, Below(T, U), NEW V, NEW m \in [V -> U], \A a, b \in V : m[a] = m[b] => a = b
    PROVE  Below([z \in V |-> {v \in V : m[v] \in T[m[z]]}], V)
<1> DEFINE R == [z \in V |-> {v \in V : m[v] \in T[m[z]]}]
<1>1. R \in [V -> SUBSET V]
  OBVIOUS
<1>2. \A v, z \in V : v \in R[z] <=> m[v] \in T[m[z]]
  OBVIOUS
<1>3. \A v \in V : m[v] \in U
  OBVIOUS
<1> HIDE DEF R
<1>4. \A v \in V : v \in R[v]
  BY <1>2, <1>3 DEF Below
<1>5. \A x, y, z \in V : x \in R[y] /\ y \in R[z] => x \in R[z]
  BY <1>2, <1>3 DEF Below
<1>6. \A x, y \in V : x \in R[y] /\ y \in R[x] => x = y
  BY <1>2, <1>3 DEF Below
<1>7. \A x, y, z \in V : x \in R[y] /\ x \in R[z] => y \in R[z] \/ z \in R[y]
  BY <1>2, <1>3 DEF Below
<1>8. Below(R, V)
  BY <1>1, <1>4, <1>5, <1>6, <1>7 DEF Below
<1> QED BY <1>8 DEF R

---------------------------------------------------------------------------
(* remove_node(): the tree. *)

(* k is the child z is to have on this side of a tree T of V. *)
Led(s, T, V, z, sd, k) ==
  /\ k # Null => k \in V
  /\ \A v \in V : (v \in T[z] /\ Before(s, sd, v, z)) <=> (k # Null /\ v \in T[k])

LEMMA LeadsLed ==
    ASSUME NEW s, NEW t, SameList(s, t), NEW T, NEW V, V \subseteq 1..s.size, s.size \in Nat,
           NEW z \in V, NEW sd \in Sides,
           Led(s, T, V, z, sd, t.store[z][sd])
    PROVE  Leads(t, T, V, z, sd)
<1>1. \A v \in V : Before(t, sd, v, z) <=> Before(s, sd, v, z)
  <2>0. \A v \in 0..s.size : t.store[v].id = s.store[v].id
    BY DEF SameList
  <2>1. \A v \in V : t.store[v].id = s.store[v].id
    BY <2>0
  <2> QED BY <2>1 DEF Before
<1> QED BY <1>1 DEF Led, Leads

LEMMA LedIs ==
    ASSUME NEW s, NEW T, NEW U, Tree(s, T, U), NEW z \in U, NEW sd \in Sides
    PROVE  Led(s, T, U, z, sd, s.store[z][sd])
  BY DEF Tree, Leads, Led

LEMMA TreeKept ==
    ASSUME NEW s, NEW t, SameList(s, t), s.size \in Nat, NEW T, NEW U, Tree(s, T, U),
           NEW R, NEW V, V \subseteq U, Below(R, V),
           t.root # Null => t.root \in V,
           \A v \in V : t.root # Null /\ v \in R[t.root],
           \A z \in V, sd \in Sides : Led(s, R, V, z, sd, t.store[z][sd])
    PROVE  Tree(t, R, V)
<1>1. V \subseteq 1..s.size /\ V \subseteq 1..t.size
  BY DEF Tree, SameList
<1>2. \A v \in V : t.store[v].id = s.store[v].id
  BY <1>1 DEF SameList
<1>3. Keyed(t, V)
  BY <1>2 DEF Keyed, Tree
<1>4. \A z \in V, sd \in Sides : Leads(t, R, V, z, sd)
  BY <1>1, LeadsLed
<1> QED BY <1>1, <1>3, <1>4 DEF Tree

(* The tree without x, whose place y takes. *)
StandsAt(v, x, y) == IF v = y THEN x ELSE v

Renamed(T, U, x, y) ==
  LET V == U \ {x}
      m == [v \in V |-> StandsAt(v, x, y)]
  IN  [z \in V |-> {v \in V : m[v] \in T[m[z]]}]

LEMMA RenamedIs ==
    ASSUME NEW T, NEW U, NEW x \in U, NEW y \in U, NEW z \in U \ {x}, NEW v \in U \ {x}
    PROVE  v \in Renamed(T, U, x, y)[z] <=> StandsAt(v, x, y) \in T[StandsAt(z, x, y)]
  BY DEF Renamed

LEMMA RenamedBelow ==
    ASSUME NEW T, NEW U, Below(T, U), NEW x \in U, NEW y \in U
    PROVE  Below(Renamed(T, U, x, y), U \ {x})
<1> DEFINE V == U \ {x}
           m == [v \in V |-> StandsAt(v, x, y)]
<1>1. m \in [V -> U]
  BY DEF StandsAt
<1>2. \A a, b \in V : m[a] = m[b] => a = b
  BY DEF StandsAt
<1>3. Renamed(T, U, x, y) = [z \in V |-> {v \in V : m[v] \in T[m[z]]}]
  BY DEF Renamed
<1> HIDE DEF V, m
<1>4. Below([z \in V |-> {v \in V : m[v] \in T[m[z]]}], V)
  BY <1>1, <1>2, BelowMapped
<1> QED BY <1>3, <1>4 DEF V

(* A leaf x leaves the tree. *)
LEMMA LeafRemoved ==
    ASSUME NEW s, Shape(s), NEW T, NEW U, Tree(s, T, U), NEW x \in U,
           \A sd \in Sides : s.store[x][sd] = Null,
           NEW w \in Places(U), Linked(s, w), w.x = x
    PROVE  LET t == set_link(s, w.link, Null)
           IN  SameList(s, t) /\ Tree(t, Renamed(T, U, x, x), U \ {x})
<1> DEFINE t == set_link(s, w.link, Null)
           R == Renamed(T, U, x, x)
           V == U \ {x}
<1>1. \A v \in U : v \in T[x] => v = x
  <2> SUFFICES ASSUME NEW v \in U, v \in T[x], v # x PROVE FALSE
    OBVIOUS
  <2>1. Before(s, "left", v, x) \/ Before(s, "right", v, x)
    BY BeforeIs
  <2> QED BY <2>1, NoChildIs DEF Sides
<1>2. IsLink(s, w.link) /\ (w.link # Root => w.link.node \in U /\ w.link.side \in Sides)
  BY DEF Places, IsLink, Tree
<1>3. /\ SameList(s, t)
      /\ t.root = IF w.link = Root THEN Null ELSE s.root
      /\ \A v \in 0..s.size, se \in Sides :
           t.store[v][se] = IF w.link # Root /\ v = w.link.node /\ se = w.link.side THEN Null ELSE s.store[v][se]
  <2>1. Null \in Nat
    BY DEF Null
  <2> QED BY <1>2, <2>1, SetLinkIs
<1>4. Below(R, V)
  BY RenamedBelow DEF Tree
<1>5. \A z, v \in V : v \in R[z] <=> v \in T[z]
  <2> SUFFICES ASSUME NEW z \in V, NEW v \in V PROVE v \in R[z] <=> v \in T[z]
    OBVIOUS
  <2>1. StandsAt(v, x, x) = v /\ StandsAt(z, x, x) = z
    BY DEF StandsAt
  <2>2. v \in R[z] <=> StandsAt(v, x, x) \in T[StandsAt(z, x, x)]
    BY RenamedIs
  <2> QED BY <2>1, <2>2
<1> HIDE DEF t, R
<1>6. CASE w.link = Root
  <2>1. s.root = x
    BY <1>6 DEF Linked
  <2>2. V = {}
    BY <1>1, <2>1 DEF Tree
  <2>3. t.root = Null
    BY <1>3, <1>6
  <2>4. Tree(t, R, V)
    <3>1. \A v \in V : FALSE
      BY <2>2
    <3> QED BY <1>3, <1>4, <2>3, <3>1, TreeKept DEF Shape
  <2> QED BY <1>3, <2>4 DEF t, R
<1>7. CASE w.link # Root
  <2> DEFINE p == w.link.node
             se == w.link.side
  <2>1. p \in U /\ se \in Sides /\ s.store[p][se] = x /\ x # Null
    BY <1>2, <1>7 DEF Linked, Tree, Null
  <2> HIDE DEF p, se
  <2>2. t.root = s.root /\ s.root # x /\ s.root # Null /\ s.root \in V
    BY <1>3, <1>7, <2>1, RootAlone
  <2>3. \A v \in V : v \in R[t.root]
    BY <1>5, <2>2 DEF Tree
  <2>4. ASSUME NEW z \in V, NEW sd \in Sides
        PROVE  Led(s, R, V, z, sd, t.store[z][sd])
    <3>0. Led(s, T, U, z, sd, s.store[z][sd]) /\ z \in 0..s.size
      BY LedIs, KeyIs
    <3>1. CASE z = p /\ sd = se
      <4>1. t.store[z][sd] = Null
        BY <1>3, <1>7, <3>0, <3>1 DEF p, se
      <4>2. \A v \in U : (v \in T[z] /\ Before(s, sd, v, z)) <=> v \in T[x]
        BY <2>1, <3>0, <3>1 DEF Led
      <4>3. \A v \in V : ~(v \in R[z] /\ Before(s, sd, v, z))
        BY <1>1, <1>5, <4>2
      <4> QED BY <4>1, <4>3 DEF Led
    <3>2. CASE ~(z = p /\ sd = se)
      <4>1. t.store[z][sd] = s.store[z][sd]
        BY <1>3, <3>0, <3>2 DEF p, se
      <4>2. s.store[z][sd] # x
        BY <2>1, <3>2, OneParent
      <4> QED BY <1>5, <3>0, <4>1, <4>2 DEF Led
    <3> QED BY <3>1, <3>2
  <2>5. Tree(t, R, V)
    BY <1>3, <1>4, <2>2, <2>3, <2>4, TreeKept DEF Shape
  <2> QED BY <1>3, <2>5 DEF t, R
<1> QED BY <1>6, <1>7

(* The node r.x is next to x on the side of `first', and has no child on   *)
(* the other side: it can take the place of x, w.                          *)
Replaces(s, T, U, x, first, then, r, w) ==
  /\ Turned(first, then) /\ Beside(s, T, U, x, first, then, r) /\ s.store[r.x][then] = Null
  /\ w \in Places(U) /\ Linked(s, w) /\ w.x = x

LEMMA ReplacementIs ==
    ASSUME NEW s, NEW T, NEW U, Tree(s, T, U), NEW x \in U, NEW first, NEW then, NEW r, NEW w,
           Replaces(s, T, U, x, first, then, r, w)
    PROVE  /\ r.x \in U /\ r.x # x /\ r.x \in T[x] /\ x \notin T[r.x] /\ Before(s, first, r.x, x)
           /\ \A v \in U : v \in T[x] =>
                /\ Before(s, first, v, r.x) <=> (Before(s, first, v, x) /\ v # r.x)
                /\ v # x => (Before(s, then, v, r.x) <=> Before(s, then, v, x))
<1> DEFINE y == r.x
<1>1. /\ first \in Sides /\ then \in Sides /\ Turned(first, then) /\ y \in U /\ y \in T[x] /\ Before(s, first, y, x)
      /\ s.store[y][then] = Null
      /\ \A v \in U : v \in T[x] /\ Before(s, first, v, x) => v \in T[y] \/ Before(s, first, v, y)
  BY DEF Replaces, Turned, Beside
<1> HIDE DEF y
<1>2. y # x /\ x \notin T[y]
  <2>1. y # x
    BY <1>1, BeforeIs
  <2> QED BY <1>1, <2>1, UnderEach
<1>3. ASSUME NEW v \in U, v \in T[x], Before(s, first, v, x), v # y PROVE Before(s, first, v, y)
  <2>1. CASE v \in T[y]
    <3>1. ~Before(s, then, v, y)
      BY <1>1, <2>1, NoChildIs
    <3> QED BY <1>1, <1>3, <3>1, TurnedIs
  <2> QED BY <1>1, <1>3, <2>1
<1>4. ASSUME NEW v \in U, Before(s, first, v, y) PROVE Before(s, first, v, x) /\ v # y
  BY <1>1, <1>4, BeforeThen, BeforeIs
<1>5. ASSUME NEW v \in U, v \in T[x], Before(s, then, v, y), v # x PROVE Before(s, then, v, x)
  <2>1. ~Before(s, first, v, y) /\ v # y
    BY <1>1, <1>5, TurnedIs, BeforeIs
  <2>2. ~Before(s, first, v, x)
    BY <1>3, <1>5, <2>1
  <2> QED BY <1>1, <1>5, <2>2, TurnedIs
<1>6. ASSUME NEW v \in U, Before(s, then, v, x) PROVE Before(s, then, v, y)
  <2>1. Before(s, then, x, y)
    BY <1>1, TurnedIs
  <2> QED BY <1>1, <1>6, <2>1, BeforeThen
<1>7. \A v \in U : v \in T[x] =>
        /\ Before(s, first, v, y) <=> (Before(s, first, v, x) /\ v # y)
        /\ v # x => (Before(s, then, v, y) <=> Before(s, then, v, x))
  BY <1>3, <1>4, <1>5, <1>6
<1> QED BY <1>1, <1>2, <1>7 DEF y

(* What is left of the replacement's own place. *)
LEMMA OnlyChildIs ==
    ASSUME NEW s, NEW T, NEW U, Tree(s, T, U), NEW x \in U, NEW first, NEW then, NEW r, NEW w,
           Replaces(s, T, U, x, first, then, r, w)
    PROVE  LET o == s.store[r.x][first]
           IN  /\ o # Null => o \in U /\ o # r.x /\ o # x /\ x \notin T[o] /\ r.x \notin T[o]
               /\ \A v \in U : (v \in T[r.x] /\ v # r.x) <=> (o # Null /\ v \in T[o])
<1> DEFINE y == r.x
           o == s.store[y][first]
<1>1. first \in Sides /\ then \in Sides /\ Turned(first, then) /\ y \in U /\ s.store[y][then] = Null
  BY DEF Replaces, Turned, Beside
<1>2. x \notin T[y] /\ y # x
  BY ReplacementIs
<1> HIDE DEF y
<1>3. \A v \in U : (v \in T[y] /\ Before(s, first, v, y)) <=> (o # Null /\ v \in T[o])
  BY <1>1, LedIs DEF Led
<1>4. o # Null => o \in U /\ o \in T[y] /\ o # y /\ Before(s, first, o, y)
  BY <1>1, ChildIs
<1> HIDE DEF o
<1>5. \A v \in U : v \in T[y] => (v # y <=> Before(s, first, v, y))
  <2> SUFFICES ASSUME NEW v \in U, v \in T[y] PROVE v # y <=> Before(s, first, v, y)
    OBVIOUS
  <2>1. ~Before(s, then, v, y)
    BY <1>1, NoChildIs
  <2> QED BY <1>1, <2>1, TurnedIs, BeforeIs
<1>6. \A v \in U : (v \in T[y] /\ v # y) <=> (o # Null /\ v \in T[o])
  BY <1>3, <1>5
<1>7. o # Null => o # x /\ x \notin T[o] /\ y \notin T[o]
  BY <1>1, <1>2, <1>4, <1>6
<1> QED BY <1>4, <1>6, <1>7 DEF o, y

(* The place of x, or of the replacement, is a link of no other. *)
LEMMA PlaceIs ==
    ASSUME NEW s, NEW T, NEW U, Tree(s, T, U), NEW w \in Places(U), Linked(s, w), w.x \in U,
           NEW z \in U, NEW sd \in Sides
    PROVE  /\ s.store[z][sd] = w.x <=> (w.link # Root /\ z = w.link.node /\ sd = w.link.side)
           /\ w.x # Null
           /\ w.link # Root => w.link.node \in U /\ w.link.side \in Sides /\ w.link.node # w.x
<1>1. w.x # Null
  BY DEF Tree, Null
<1>2. CASE w.link = Root
  <2>1. s.root = w.x
    BY <1>2 DEF Linked
  <2> QED BY <1>1, <1>2, <2>1, RootAlone
<1>3. CASE w.link # Root
  <2> DEFINE p == w.link.node
             se == w.link.side
  <2>1. p \in U /\ se \in Sides /\ s.store[p][se] = w.x
    BY <1>3 DEF Linked, Places
  <2> HIDE DEF p, se
  <2>2. p # w.x
    BY <1>1, <2>1, ChildIs
  <2>3. s.store[z][sd] = w.x => z = p /\ sd = se
    BY <1>1, <2>1, OneParent
  <2> QED BY <1>1, <1>3, <2>1, <2>2, <2>3 DEF p, se
<1> QED BY <1>2, <1>3

LEMMA RenamedParts ==
    ASSUME NEW s, NEW T, NEW U, Tree(s, T, U), NEW x \in U, NEW y \in U, NEW z \in U \ {x}, NEW v \in U \ {x}
    PROVE  LET R == Renamed(T, U, x, y)
           IN  /\ v # y /\ z # y => (v \in R[z] <=> v \in T[z])
               /\ v = y /\ z # y => (v \in R[z] <=> x \in T[z])
               /\ v # y /\ z = y => (v \in R[z] <=> v \in T[x])
               /\ v = y /\ z = y => v \in R[z]
<1> DEFINE R == Renamed(T, U, x, y)
<1>1. v \in R[z] <=> StandsAt(v, x, y) \in T[StandsAt(z, x, y)]
  BY RenamedIs
<1>2. x \in T[x]
  BY KeyIs
<1>3. StandsAt(v, x, y) = IF v = y THEN x ELSE v
  BY DEF StandsAt
<1>4. StandsAt(z, x, y) = IF z = y THEN x ELSE z
  BY DEF StandsAt
<1> HIDE DEF R
<1>5. /\ v # y /\ z # y => (v \in R[z] <=> v \in T[z])
      /\ v = y /\ z # y => (v \in R[z] <=> x \in T[z])
      /\ v # y /\ z = y => (v \in R[z] <=> v \in T[x])
      /\ v = y /\ z = y => v \in R[z]
  BY <1>1, <1>2, <1>3, <1>4
<1> QED BY <1>5 DEF R

(* The children of the replacement are those of x. *)
LEMMA LedInPlace ==
    ASSUME NEW s, NEW T, NEW U, Tree(s, T, U), NEW x \in U, NEW first, NEW then, NEW r, NEW w,
           Replaces(s, T, U, x, first, then, r, w), NEW sd \in Sides
    PROVE  Led(s, Renamed(T, U, x, r.x), U \ {x}, r.x, sd,
               IF r.link.node = x /\ r.link.side = sd THEN s.store[r.x][first] ELSE s.store[x][sd])
<1> DEFINE y == r.x
           o == s.store[y][first]
           V == U \ {x}
           R == Renamed(T, U, x, y)
           k == s.store[x][sd]
           k1 == IF r.link.node = x /\ r.link.side = sd THEN o ELSE k
<1>1. /\ y \in U /\ y # x /\ y \in T[x] /\ x \notin T[y] /\ Before(s, first, y, x)
      /\ \A v \in U : v \in T[x] =>
           /\ Before(s, first, v, y) <=> (Before(s, first, v, x) /\ v # y)
           /\ v # x => (Before(s, then, v, y) <=> Before(s, then, v, x))
  BY ReplacementIs
<1>2. /\ o # Null => o \in U /\ o # y /\ o # x /\ x \notin T[o] /\ y \notin T[o]
      /\ \A v \in U : (v \in T[y] /\ v # y) <=> (o # Null /\ v \in T[o])
  BY OnlyChildIs
<1>3. /\ first \in Sides /\ then \in Sides /\ first # then /\ Turned(first, then) /\ sd \in {first, then}
      /\ r \in Places(U) /\ Linked(s, r) /\ r.link # Root /\ r.x = y
      /\ IF r.link.node = x THEN r.link.side = first ELSE r.link.side = then
  BY DEF Replaces, Turned, Beside, Sides
<1>4. k = y <=> (x = r.link.node /\ sd = r.link.side)
  BY <1>1, <1>3, PlaceIs
<1>5. /\ \A v \in U : (v \in T[x] /\ Before(s, sd, v, x)) <=> (k # Null /\ v \in T[k])
      /\ k # Null => k \in U /\ k # x /\ x \notin T[k]
  <2>1. k # Null => k \in U /\ k \in T[x] /\ k # x
    BY ChildIs
  <2> HIDE DEF k
  <2>2. k # Null => x \notin T[k]
    BY <2>1, UnderEach
  <2>3. \A v \in U : (v \in T[x] /\ Before(s, sd, v, x)) <=> (k # Null /\ v \in T[k])
    BY LedIs DEF Led, k
  <2> QED BY <2>1, <2>2, <2>3
<1>6. /\ \A v \in V : v # y => (v \in R[y] <=> v \in T[x])
      /\ \A v, z \in V : v # y /\ z # y => (v \in R[z] <=> v \in T[z])
      /\ \A z \in V : z # y => (y \in R[z] <=> x \in T[z])
  BY <1>1, RenamedParts
<1>7. ~Before(s, sd, y, y)
  BY <1>1, BeforeIs
<1> HIDE DEF y, o, R, k
<1>8. CASE k = y
  <2>1. k1 = o /\ sd = first
    BY <1>3, <1>4, <1>8
  <2>2. \A v \in V : (v \in R[y] /\ Before(s, sd, v, y)) <=> (v \in T[y] /\ v # y)
    BY <1>1, <1>5, <1>6, <1>7, <1>8, <2>1
  <2>3. \A v \in V : (v \in R[y] /\ Before(s, sd, v, y)) <=> (o # Null /\ v \in R[o])
    BY <1>1, <1>2, <1>6, <2>2
  <2>4. Led(s, R, V, y, sd, k1)
    BY <1>2, <2>1, <2>3 DEF Led
  <2> QED BY <2>4 DEF R, y, k1, o, k
<1>9. CASE k # y
  <2>1. k1 = k
    BY <1>4, <1>9
  <2>2. ASSUME NEW v \in V, v # y
        PROVE  (v \in T[x] /\ Before(s, sd, v, y)) <=> (v \in T[x] /\ Before(s, sd, v, x))
    BY <1>1, <1>3, <2>2
  <2>3. \A v \in V : (v \in R[y] /\ Before(s, sd, v, y)) <=> (v # y /\ v \in T[x] /\ Before(s, sd, v, x))
    BY <1>6, <1>7, <2>2
  <2>4. \A v \in V : (v \in R[y] /\ Before(s, sd, v, y)) <=> (k # Null /\ v \in R[k])
    BY <1>5, <1>6, <1>9, <2>3
  <2>5. Led(s, R, V, y, sd, k1)
    BY <1>5, <2>1, <2>4 DEF Led
  <2> QED BY <2>5 DEF R, y, k1, o, k
<1> QED BY <1>8, <1>9

(* The links of the others. *)
LEMMA LedElsewhere ==
    ASSUME NEW s, NEW T, NEW U, Tree(s, T, U), NEW x \in U, NEW first, NEW then, NEW r, NEW w,
           Replaces(s, T, U, x, first, then, r, w), NEW z \in U \ {x}, z # r.x, NEW sd \in Sides
    PROVE  Led(s, Renamed(T, U, x, r.x), U \ {x}, z, sd,
               IF w.link # Root /\ z = w.link.node /\ sd = w.link.side THEN r.x
               ELSE IF z = r.link.node /\ sd = r.link.side THEN s.store[r.x][first]
               ELSE s.store[z][sd])
<1> DEFINE y == r.x
           o == s.store[y][first]
           V == U \ {x}
           R == Renamed(T, U, x, y)
           k == s.store[z][sd]
           k1 == IF w.link # Root /\ z = w.link.node /\ sd = w.link.side THEN y
                 ELSE IF z = r.link.node /\ sd = r.link.side THEN o
                 ELSE k
<1>1. y \in U /\ y # x /\ y \in T[x] /\ x \notin T[y] /\ Before(s, first, y, x)
  BY ReplacementIs
<1>2. /\ o # Null => o \in U /\ o # y /\ o # x /\ x \notin T[o] /\ y \notin T[o]
      /\ \A v \in U : (v \in T[y] /\ v # y) <=> (o # Null /\ v \in T[o])
  BY OnlyChildIs
<1>3. /\ first \in Sides /\ then \in Sides /\ first # then
      /\ r \in Places(U) /\ Linked(s, r) /\ r.link # Root /\ r.x = y
      /\ r.link.node # x => r.link.node \in T[x]
      /\ w \in Places(U) /\ Linked(s, w) /\ w.x = x
  BY DEF Replaces, Turned, Beside
<1>4. /\ k = y <=> (z = r.link.node /\ sd = r.link.side)
      /\ k = x <=> (w.link # Root /\ z = w.link.node /\ sd = w.link.side)
  BY <1>1, <1>3, PlaceIs
<1>5. /\ \A v \in U : (v \in T[z] /\ Before(s, sd, v, z)) <=> (k # Null /\ v \in T[k])
      /\ k # Null => k \in U
  BY LedIs DEF Led
<1>6. /\ \A v, u \in V : v # y /\ u # y => (v \in R[u] <=> v \in T[u])
      /\ \A u \in V : u # y => (y \in R[u] <=> x \in T[u])
      /\ \A v \in V : v # y => (v \in R[y] <=> v \in T[x])
      /\ y \in R[y]
  BY <1>1, RenamedParts
<1>7. z # y /\ z # x /\ z \in V /\ x # Null /\ y # Null /\ x \in T[x]
  <2>1. x \in T[x]
    BY KeyIs
  <2>2. U \subseteq 1..s.size
    BY DEF Tree
  <2> QED BY <1>1, <2>1, <2>2 DEF Null
<1>8. x \in T[z] => (Before(s, sd, y, z) <=> Before(s, sd, x, z))
  BY <1>1, <1>7, SameSide
<1> HIDE DEF y, o, R, k
<1>9. CASE k = x
  <2>1. k1 = y
    BY <1>4, <1>9
  <2>2. x \in T[z] /\ Before(s, sd, y, z)
    BY <1>5, <1>7, <1>8, <1>9
  <2>3. ASSUME NEW v \in V PROVE (v \in R[z] /\ Before(s, sd, v, z)) <=> v \in R[y]
    <3>1. CASE v = y
      BY <1>6, <1>7, <2>2, <3>1
    <3>2. CASE v # y
      BY <1>5, <1>6, <1>7, <1>9, <3>2
    <3> QED BY <3>1, <3>2
  <2>4. Led(s, R, V, z, sd, k1)
    BY <1>1, <1>7, <2>1, <2>3 DEF Led
  <2> QED BY <2>4 DEF R, k1, y, o, k
<1>10. CASE k = y
  <2>1. k1 = o /\ z = r.link.node
    BY <1>1, <1>4, <1>10
  <2>2. x \notin T[z]
    BY <1>3, <1>7, <2>1, UnderEach
  <2>3. ASSUME NEW v \in V PROVE (v \in R[z] /\ Before(s, sd, v, z)) <=> (o # Null /\ v \in R[o])
    <3>1. CASE v = y
      BY <1>2, <1>6, <1>7, <2>2, <3>1
    <3>2. CASE v # y
      BY <1>2, <1>5, <1>6, <1>7, <1>10, <3>2
    <3> QED BY <3>1, <3>2
  <2>4. Led(s, R, V, z, sd, k1)
    BY <1>2, <2>1, <2>3 DEF Led
  <2> QED BY <2>4 DEF R, k1, y, o, k
<1>11. CASE k # x /\ k # y
  <2>1. k1 = k
    BY <1>4, <1>11
  <2>2. ASSUME NEW v \in V PROVE (v \in R[z] /\ Before(s, sd, v, z)) <=> (k # Null /\ v \in R[k])
    <3>1. CASE v = y
      BY <1>5, <1>6, <1>7, <1>8, <1>11, <3>1
    <3>2. CASE v # y
      BY <1>5, <1>6, <1>7, <1>11, <3>2
    <3> QED BY <3>1, <3>2
  <2>3. Led(s, R, V, z, sd, k1)
    BY <1>5, <1>11, <2>1, <2>2 DEF Led
  <2> QED BY <2>3 DEF R, k1, y, o, k
<1> QED BY <1>9, <1>10, <1>11

(* The replacement takes the place of x. *)
LEMMA NodeRemoved ==
    ASSUME NEW s, Shape(s), NEW T, NEW U, Tree(s, T, U), NEW x \in U, NEW first, NEW then, NEW r, NEW w,
           Replaces(s, T, U, x, first, then, r, w),
           NEW t, Replaced(s, t, x, r.x, w.link, r.link, s.store[r.x][first])
    PROVE  SameList(s, t) /\ Tree(t, Renamed(T, U, x, r.x), U \ {x})
<1> DEFINE y == r.x
           o == s.store[y][first]
           V == U \ {x}
           R == Renamed(T, U, x, y)
<1>1. /\ SameList(s, t)
      /\ t.root = IF w.link = Root THEN y ELSE s.root
      /\ \A sd \in Sides : t.store[y][sd] = IF r.link.node = x /\ r.link.side = sd THEN o ELSE s.store[x][sd]
      /\ \A v \in 0..s.size : v # y =>
           \A sd \in Sides : t.store[v][sd] = IF w.link # Root /\ v = w.link.node /\ sd = w.link.side THEN y
                                             ELSE IF v = r.link.node /\ sd = r.link.side THEN o
                                             ELSE s.store[v][sd]
  BY DEF Replaced
<1>2. y \in U /\ y # x /\ y \in T[x]
  BY ReplacementIs
<1>3. y # Null /\ U \subseteq 0..s.size
  BY <1>2 DEF Tree, Null
<1>4. Below(R, V)
  <2>1. Below(T, U)
    BY DEF Tree
  <2> QED BY <1>2, <2>1, RenamedBelow
<1>5. ASSUME NEW z \in V, NEW sd \in Sides PROVE Led(s, R, V, z, sd, t.store[z][sd])
  <2>1. CASE z = y
    <3>1. t.store[z][sd] = IF r.link.node = x /\ r.link.side = sd THEN o ELSE s.store[x][sd]
      BY <1>1, <2>1
    <3>2. Led(s, R, V, y, sd, IF r.link.node = x /\ r.link.side = sd THEN o ELSE s.store[x][sd])
      BY LedInPlace
    <3> QED BY <2>1, <3>1, <3>2
  <2>2. CASE z # y
    <3>1. z \in 0..s.size
      BY <1>3
    <3>2. t.store[z][sd] = IF w.link # Root /\ z = w.link.node /\ sd = w.link.side THEN y
                           ELSE IF z = r.link.node /\ sd = r.link.side THEN o
                           ELSE s.store[z][sd]
      BY <1>1, <2>2, <3>1
    <3>3. Led(s, R, V, z, sd, IF w.link # Root /\ z = w.link.node /\ sd = w.link.side THEN y
                              ELSE IF z = r.link.node /\ sd = r.link.side THEN o
                              ELSE s.store[z][sd])
      BY <2>2, LedElsewhere
    <3> QED BY <3>2, <3>3
  <2> QED BY <2>1, <2>2
<1>6. ASSUME NEW v \in V, NEW z \in V
      PROVE  /\ v # y /\ z # y => (v \in R[z] <=> v \in T[z])
             /\ v = y /\ z # y => (v \in R[z] <=> x \in T[z])
             /\ v # y /\ z = y => (v \in R[z] <=> v \in T[x])
             /\ v = y /\ z = y => v \in R[z]
  BY <1>2, RenamedParts
<1> HIDE DEF R, y, o
<1>7. t.root # Null /\ t.root \in V /\ \A v \in V : v \in R[t.root]
  <2>1. CASE w.link = Root
    <3>1. s.root = x /\ t.root = y
      BY <1>1, <2>1 DEF Replaces, Linked
    <3>2. \A v \in U : v \in T[x]
      BY <3>1 DEF Tree
    <3> QED BY <1>2, <1>3, <1>6, <3>1, <3>2
  <2>2. CASE w.link # Root
    <3>1. t.root = s.root /\ s.root # Null /\ s.root \in U /\ \A v \in U : v \in T[s.root]
      BY <1>1, <2>2 DEF Tree
    <3>2. s.root # x
      <4> DEFINE p == w.link.node
                 se == w.link.side
      <4>1. s.store[p][se] = x /\ p \in U /\ se \in Sides
        BY <2>2 DEF Replaces, Linked, Places
      <4> HIDE DEF p, se
      <4> QED BY <4>1, RootAlone
    <3>3. s.root # y
      BY <1>2, <3>1, <3>2, UnderEach
    <3>4. \A v \in V : v \in R[s.root]
      BY <1>6, <3>1, <3>2, <3>3
    <3> QED BY <3>1, <3>2, <3>4
  <2> QED BY <2>1, <2>2
<1>8. Tree(t, R, V)
  BY <1>1, <1>4, <1>5, <1>7, TreeKept DEF Shape
<1> QED BY <1>1, <1>8 DEF R, y

LEMMA FindsIt ==
    ASSUME NEW s, s.size \in Nat, NEW T, NEW U, Tree(s, T, U), NEW x \in U
    PROVE  LET w == find_node(s, s.store[x].id)
           IN  w \in Places(U) /\ Linked(s, w) /\ w.x = x
<1> DEFINE w == find_node(s, s.store[x].id)
<1>1. s.store[x].id \in Nat
  BY KeyIs
<1>2. Searched(s, T, U, s.store[x].id, w) /\ (w.x = Null \/ s.store[w.x].id = s.store[x].id)
  BY <1>1, FindSearched
<1> HIDE DEF w
<1>3. w.x # Null /\ w \in Places(U) /\ Linked(s, w)
  BY <1>2 DEF Searched
<1>4. w.x \in U
  BY <1>3 DEF Places
<1>5. w.x = x
  BY <1>2, <1>3, <1>4, KeysDiffer
<1> QED BY <1>3, <1>5 DEF w

LEMMA PlaceLink ==
    ASSUME NEW s, s.size \in Nat, NEW T, NEW U, Tree(s, T, U), NEW w \in Places(U), Linked(s, w), w.x \in U
    PROVE  IsLink(s, w.link) /\ (w.link # Root => w.link.node # w.x)
<1>1. "left" \in Sides
  BY DEF Sides
<1>2. w.link # Root => w.link.node \in U /\ w.link.side \in Sides /\ w.link.node # w.x
  BY <1>1, PlaceIs
<1>3. U \subseteq 1..s.size
  BY DEF Tree
<1> QED BY <1>2, <1>3 DEF IsLink

LEMMA LinkType ==
    ASSUME NEW s, Shape(s), NEW x \in 0..s.size, NEW sd \in Sides
    PROVE  s.store[x][sd] \in Nat
<1>1. s.store[x] \in Entry
  BY DEF Shape
<1> QED BY <1>1 DEF Entry, Sides

(* remove_node(), with the replacement found on the side of `first'. *)
LEMMA RemovedBeside ==
    ASSUME NEW s, Shape(s), NEW T, NEW U, Tree(s, T, U), NEW x \in U, NEW first, NEW then, NEW r,
           Turned(first, then), Beside(s, T, U, x, first, then, r), s.store[r.x][then] = Null,
           find_replacement_node(s, x) = r
    PROVE  LET t == remove_node(s, x)
           IN  SameList(s, t) /\ \E R : Tree(t, R, U \ {x})
<1> DEFINE w == find_node(s, s.store[x].id)
           y == r.x
           o == s.store[y][first]
           only == IF s.store[y].left # Null THEN s.store[y].left ELSE s.store[y].right
           moved == set_link(set_link(s, r.link, only), w.link, y)
           t == [moved EXCEPT !.store[y].left = moved.store[x].left,
                              !.store[y].right = moved.store[x].right]
<1>0. s.size \in Nat /\ U \subseteq 1..s.size
  BY DEF Shape, Tree
<1>1. w \in Places(U) /\ Linked(s, w) /\ w.x = x
  BY <1>0, FindsIt
<1>2. Replaces(s, T, U, x, first, then, r, w)
  BY <1>1 DEF Replaces
<1>3. y \in U /\ y # x /\ y \in 1..s.size /\ x \in 1..s.size /\ y # Null
  <2>1. y \in U /\ y # x
    BY <1>2, ReplacementIs
  <2> HIDE DEF y
  <2> QED BY <1>0, <2>1 DEF Null
<1>4. only = o
  <2>1. (first = "left" /\ then = "right") \/ (first = "right" /\ then = "left")
    BY DEF Turned, Sides
  <2> QED BY <2>1
<1>5. remove_node(s, x) = t
  BY <1>3 DEF remove_node
<1>6. IsLink(s, w.link) /\ (w.link # Root => w.link.node # x)
  BY <1>0, <1>1, PlaceLink
<1>7. IsLink(s, r.link) /\ r.link # Root
  BY <1>0, <1>3, PlaceLink DEF Beside
<1>8. o \in Nat
  BY <1>3, LinkType DEF Turned, Shape
<1> HIDE DEF w, y, o, only
<1>9. Replaced(s, t, x, y, w.link, r.link, o)
  BY <1>3, <1>4, <1>6, <1>7, <1>8, ReplacedIs
<1> HIDE DEF t
<1>10. SameList(s, t) /\ Tree(t, Renamed(T, U, x, y), U \ {x})
  BY <1>2, <1>9, NodeRemoved DEF y, o
<1> QED BY <1>5, <1>10

LEMMA RemoveIs ==
    ASSUME NEW s, Shape(s), NEW T, NEW U, Tree(s, T, U), NEW x \in U
    PROVE  LET t == remove_node(s, x)
           IN  SameList(s, t) /\ \E R : Tree(t, R, U \ {x})
<1>0. s.size \in Nat
  BY DEF Shape
<1>1. CASE s.store[x].left # Null
  <2> DEFINE r == Furthest(s, x, "left", "right")
  <2>1. Turned("left", "right") /\ s.store[x]["left"] # Null
    BY <1>1 DEF Turned, Sides
  <2>2. Beside(s, T, U, x, "left", "right", r) /\ s.store[r.x]["right"] = Null
    BY <1>0, <2>1, FurthestBeside
  <2>3. find_replacement_node(s, x) = r
    BY <1>1 DEF find_replacement_node
  <2> HIDE DEF r
  <2> QED BY <2>1, <2>2, <2>3, RemovedBeside
<1>2. CASE s.store[x].left = Null /\ s.store[x].right # Null
  <2> DEFINE r == Furthest(s, x, "right", "left")
  <2>1. Turned("right", "left") /\ s.store[x]["right"] # Null
    BY <1>2 DEF Turned, Sides
  <2>2. Beside(s, T, U, x, "right", "left", r) /\ s.store[r.x]["left"] = Null
    BY <1>0, <2>1, FurthestBeside
  <2>3. find_replacement_node(s, x) = r
    BY <1>2 DEF find_replacement_node
  <2> HIDE DEF r
  <2> QED BY <2>1, <2>2, <2>3, RemovedBeside
<1>3. CASE s.store[x].left = Null /\ s.store[x].right = Null
  <2> DEFINE w == find_node(s, s.store[x].id)
  <2>1. w \in Places(U) /\ Linked(s, w) /\ w.x = x
    BY <1>0, FindsIt
  <2>2. remove_node(s, x) = set_link(s, w.link, Null)
    BY <1>3 DEF remove_node, find_replacement_node
  <2>3. \A sd \in Sides : s.store[x][sd] = Null
    BY <1>3 DEF Sides
  <2> HIDE DEF w
  <2>4. SameList(s, set_link(s, w.link, Null)) /\ Tree(set_link(s, w.link, Null), Renamed(T, U, x, x), U \ {x})
    BY <2>1, <2>3, LeafRemoved
  <2> QED BY <2>2, <2>4
<1> QED BY <1>1, <1>2, <1>3

---------------------------------------------------------------------------
(* Insertion: a new leaf, where the search for its ID ended. *)

Leaf(id, p) == [Blank EXCEPT !.id = id, !.par = p, !.on = TRUE]

LEMMA LeafIs ==
    ASSUME NEW id \in Ids, NEW p \in Params
    PROVE  /\ Leaf(id, p) \in Entry /\ Leaf(id, p).id = id /\ Leaf(id, p).par = p /\ Leaf(id, p).on = TRUE
           /\ \A sd \in Sides : Leaf(id, p)[sd] = Null
<1>1. Leaf(id, p) \in Entry
  BY DEF Leaf, Blank, Null, Entry
<1>2. Leaf(id, p).on = TRUE /\ Leaf(id, p).id = id /\ Leaf(id, p).par = p
  BY DEF Leaf, Blank, Null
<1>3. Leaf(id, p)["left"] = 0 /\ Leaf(id, p)["right"] = 0
  BY DEF Leaf, Blank, Null
<1> QED BY <1>1, <1>2, <1>3 DEF Null, Sides

(* The leaf x is the child at link l. *)
Grafted(s, t, x, id, p, l) ==
  /\ Shape(t)
  /\ t.size = s.size /\ t.used = s.used /\ t.init = s.init /\ t.head = s.head /\ t.tail = s.tail
  /\ t.root = IF l = Root THEN x ELSE s.root
  /\ t.store[x] = Leaf(id, p) /\ t.store[Null] = s.store[Null]
  /\ \A v \in 0..s.size : v # x =>
       /\ t.store[v].id = s.store[v].id /\ t.store[v].par = s.store[v].par /\ t.store[v].on = s.store[v].on
       /\ t.store[v].prev = s.store[v].prev /\ t.store[v].next = s.store[v].next
       /\ \A sd \in Sides : t.store[v][sd] = IF l # Root /\ v = l.node /\ sd = l.side THEN x ELSE s.store[v][sd]

LEMMA GraftedIs ==
    ASSUME NEW s, Shape(s), NEW x \in 1..s.size, NEW id \in Ids, NEW p \in Params, NEW l, IsLink(s, l)
    PROVE  Grafted(s, [set_link(s, l, x) EXCEPT !.store[x] = Leaf(id, p)], x, id, p, l)
<1> DEFINE m == set_link(s, l, x)
           st == [m.store EXCEPT ![x] = Leaf(id, p)]
           t == [m EXCEPT !.store = st]
           t1 == [m EXCEPT !.store[x] = Leaf(id, p)]
<1>1. x \in Nat /\ x \in 0..s.size /\ x # Null /\ Null \in 0..s.size
  BY DEF Shape, Null
<1>2. /\ SameList(s, m)
      /\ m.root = IF l = Root THEN x ELSE s.root
      /\ \A v \in 0..s.size, se \in Sides :
           m.store[v][se] = IF l # Root /\ v = l.node /\ se = l.side THEN x ELSE s.store[v][se]
  BY <1>1, SetLinkIs
<1> HIDE DEF m
<1>3. Shape(m) /\ m.size = s.size
  BY <1>2 DEF SameList
<1>4. st \in [0..s.size -> Entry] /\ st[x] = Leaf(id, p) /\ \A v \in 0..s.size : v # x => st[v] = m.store[v]
  BY <1>1, <1>3, LeafIs DEF Shape
<1>5. t1 = t
  BY <1>3 DEF Shape
<1> HIDE DEF st
<1>6. /\ t.size = m.size /\ t.used = m.used /\ t.init = m.init /\ t.head = m.head /\ t.tail = m.tail
      /\ t.root = m.root /\ t.store = st
      /\ t = [size |-> t.size, used |-> t.used, init |-> t.init, head |-> t.head, tail |-> t.tail,
              root |-> t.root, store |-> t.store]
  BY <1>3 DEF Shape
<1> HIDE DEF t
<1>7. Shape(t)
  BY <1>3, <1>4, <1>6 DEF Shape
<1>8. Grafted(s, t, x, id, p, l)
  BY <1>1, <1>2, <1>4, <1>6, <1>7 DEF Grafted, SameList
<1> QED BY <1>5, <1>8 DEF t1, m

Grown(T, U, x, l) ==
  [z \in U \cup {x} |-> IF z = x THEN {x}
                        ELSE IF l # Root /\ l.node \in T[z] THEN T[z] \cup {x} ELSE T[z]]

LEMMA GrownBelow ==
    ASSUME NEW T, NEW U, Below(T, U), NEW x, x \notin U, NEW l, l # Root => l.node \in U
    PROVE  Below(Grown(T, U, x, l), U \cup {x})
<1> DEFINE R == Grown(T, U, x, l)
           V == U \cup {x}
           In(z) == l # Root /\ l.node \in T[z]
<1>0. \A z \in U : T[z] \subseteq U
  BY DEF Below
<1>1. R[x] = {x} /\ \A z \in U : R[z] = IF In(z) THEN T[z] \cup {x} ELSE T[z]
  BY DEF Grown
<1>2. R \in [V -> SUBSET V]
  BY <1>0 DEF Grown
<1>3. \A v \in V : v \in R[x] <=> v = x
  BY <1>1
<1>4. \A z \in U, v \in U : v \in R[z] <=> v \in T[z]
  BY <1>1
<1>5. \A z \in U : x \in R[z] <=> In(z)
  BY <1>0, <1>1
<1>6. \A a, b \in U : In(a) /\ a \in T[b] => In(b)
  BY DEF Below
<1>7. \A a, b \in U : In(a) /\ In(b) => a \in T[b] \/ b \in T[a]
  BY DEF Below
<1> HIDE DEF R, In
<1>8. \A v \in V : v \in R[v]
  BY <1>3, <1>4 DEF Below
<1>9. ASSUME NEW a \in V, NEW b \in V, NEW d \in V, a \in R[b], b \in R[d] PROVE a \in R[d]
  <2>1. CASE d = x \/ b = x
    BY <1>3, <1>9, <2>1
  <2>2. CASE d \in U /\ b \in U /\ a = x
    BY <1>4, <1>5, <1>6, <1>9, <2>2
  <2>3. CASE d \in U /\ b \in U /\ a \in U
    BY <1>4, <1>9, <2>3 DEF Below
  <2> QED BY <2>1, <2>2, <2>3
<1>10. ASSUME NEW a \in V, NEW b \in V, a \in R[b], b \in R[a] PROVE a = b
  <2>1. CASE a = x \/ b = x
    BY <1>3, <1>10, <2>1
  <2>2. CASE a \in U /\ b \in U
    BY <1>4, <1>10, <2>2 DEF Below
  <2> QED BY <2>1, <2>2
<1>11. ASSUME NEW a \in V, NEW b \in V, NEW d \in V, a \in R[b], a \in R[d] PROVE b \in R[d] \/ d \in R[b]
  <2>1. CASE b = x \/ d = x
    BY <1>3, <1>11, <2>1
  <2>2. CASE d \in U /\ b \in U /\ a = x
    BY <1>4, <1>5, <1>7, <1>11, <2>2
  <2>3. CASE d \in U /\ b \in U /\ a \in U
    BY <1>4, <1>11, <2>3 DEF Below
  <2> QED BY <2>1, <2>2, <2>3
<1>12. Below(R, V)
  BY <1>2, <1>8, <1>9, <1>10, <1>11 DEF Below
<1> QED BY <1>12 DEF R

LEMMA TreeGrows ==
    ASSUME NEW s, Shape(s), NEW T, NEW U, Tree(s, T, U), NEW x \in 1..s.size, x \notin U,
           NEW id \in Ids, id \in Nat, NEW p \in Params, NEW w, Searched(s, T, U, id, w), w.x = Null,
           NEW t, Grafted(s, t, x, id, p, w.link)
    PROVE  Tree(t, Grown(T, U, x, w.link), U \cup {x})
<1> DEFINE l == w.link
           q == l.node
           se == l.side
           R == Grown(T, U, x, l)
           V == U \cup {x}
           In(z) == l # Root /\ q \in T[z]
<1>0. U \subseteq 1..s.size /\ t.size = s.size /\ x # Null
  BY DEF Tree, Grafted, Null
<1>1. /\ l # Root => q \in U /\ se \in Sides /\ s.store[q][se] = Null /\ Toward(s, id, se, q)
      /\ l = Root => s.root = Null
  BY DEF Searched, Linked, Places
<1>2. \A v \in U : s.store[v].id # id /\ s.store[v].id \in Nat
  BY KeyIs DEF Searched
<1>3. /\ \A v \in U : t.store[v].id = s.store[v].id
      /\ t.store[x].id = id /\ \A sd \in Sides : t.store[x][sd] = Null
      /\ \A v \in U, sd \in Sides : t.store[v][sd] = IF l # Root /\ v = q /\ sd = se THEN x ELSE s.store[v][sd]
      /\ t.root = IF l = Root THEN x ELSE s.root
  <2>1. t.store[x] = Leaf(id, p) /\ Leaf(id, p).id = id /\ \A sd \in Sides : Leaf(id, p)[sd] = Null
    <3>1. t.store[x] = Leaf(id, p)
      BY DEF Grafted
    <3>2. Leaf(id, p).id = id /\ \A sd \in Sides : Leaf(id, p)[sd] = Null
      BY LeafIs
    <3> QED BY <3>1, <3>2
  <2>2. \A v \in U : v \in 0..s.size /\ v # x
    BY <1>0 DEF Shape
  <2>3. \A v \in U : /\ t.store[v].id = s.store[v].id
                     /\ \A sd \in Sides : t.store[v][sd] = IF l # Root /\ v = q /\ sd = se THEN x ELSE s.store[v][sd]
    BY <2>2 DEF Grafted
  <2>4. t.root = IF l = Root THEN x ELSE s.root
    BY DEF Grafted
  <2> QED BY <2>1, <2>3, <2>4
<1>4. Keyed(t, V)
  <2>1. \A a, b \in U : s.store[a].id = s.store[b].id => a = b
    BY KeysDiffer
  <2> QED BY <1>2, <1>3, <2>1 DEF Keyed
<1>5. Below(R, V)
  <2>1. Below(T, U)
    BY DEF Tree
  <2> QED BY <1>1, <2>1, GrownBelow
<1>6. /\ \A v \in V : v \in R[x] <=> v = x
      /\ \A z \in U, v \in U : v \in R[z] <=> v \in T[z]
      /\ \A z \in U : x \in R[z] <=> In(z)
  <2>1. R[x] = {x} /\ \A z \in U : R[z] = IF In(z) THEN T[z] \cup {x} ELSE T[z]
    BY DEF Grown
  <2>2. \A z \in U : x \notin T[z]
    BY UnderIn
  <2> HIDE DEF R, In
  <2> QED BY <2>1, <2>2
<1>7. /\ \A sd \in Sides, v \in U, z \in U : Before(t, sd, v, z) <=> Before(s, sd, v, z)
      /\ \A sd \in Sides, z \in U : Before(t, sd, x, z) <=> Toward(s, id, sd, z)
      /\ \A sd \in Sides : ~Before(t, sd, x, x)
  BY <1>2, <1>3 DEF Before, Toward, Sides
<1>8. \A y \in U : l # Root /\ q \in T[y] /\ y # q => \A sd \in Sides : Toward(s, id, sd, y) <=> Before(s, sd, q, y)
  BY DEF Searched
<1> HIDE DEF R
<1>9. t.root # Null /\ t.root \in V /\ \A v \in V : v \in R[t.root]
  <2>1. CASE l = Root
    <3>1. U = {} /\ t.root = x
      BY <1>1, <1>3, <2>1 DEF Tree
    <3> QED BY <1>0, <1>6, <3>1
  <2>2. CASE l # Root
    <3>1. t.root = s.root /\ s.root # Null /\ s.root \in U /\ \A v \in U : v \in T[s.root]
      BY <1>1, <1>3, <2>2 DEF Tree
    <3> QED BY <1>1, <1>6, <2>2, <3>1
  <2> QED BY <2>1, <2>2
<1>10. ASSUME NEW z \in V, NEW sd \in Sides PROVE Leads(t, R, V, z, sd)
  <2>1. CASE z = x
    <3>1. t.store[z][sd] = Null /\ \A v \in V : ~(v \in R[z] /\ Before(t, sd, v, z))
      BY <1>3, <1>6, <1>7, <2>1
    <3> QED BY <3>1 DEF Leads
  <2>2. CASE z \in U /\ l # Root /\ z = q /\ sd = se
    <3>1. t.store[z][sd] = x
      BY <1>3, <2>2
    <3>2. \A v \in U : v \in T[z] => ~Before(s, sd, v, z)
      BY <1>1, <2>2, NoChildIs
    <3>3. x \in R[z] /\ Before(t, sd, x, z)
      <4>1. q \in T[q]
        BY <1>1, <2>2, KeyIs
      <4> QED BY <1>1, <1>6, <1>7, <2>2, <4>1
    <3>4. ASSUME NEW v \in V PROVE (v \in R[z] /\ Before(t, sd, v, z)) <=> v \in R[x]
      BY <1>6, <1>7, <2>2, <3>2, <3>3
    <3> QED BY <1>0, <3>1, <3>4 DEF Leads
  <2>3. CASE z \in U /\ ~(l # Root /\ z = q /\ sd = se)
    <3> DEFINE k == s.store[z][sd]
    <3>1. t.store[z][sd] = k
      BY <1>3, <2>3
    <3>2. Led(s, T, U, z, sd, k)
      BY <2>3, LedIs
    <3>3. k # Null => k \in T[z] /\ k # z
      BY <2>3, ChildIs
    <3> HIDE DEF k
    <3>4. (In(z) /\ Toward(s, id, sd, z)) <=> (k # Null /\ In(k))
      <4>1. CASE l = Root
        BY <4>1
      <4>2. CASE l # Root /\ z = q
        <5>1. ~Toward(s, id, sd, z)
          BY <1>1, <1>2, <2>3, <4>2 DEF Toward, Sides
        <5>2. k # Null => q \notin T[k]
          BY <2>3, <3>2, <3>3, <4>2, UnderEach DEF Led
        <5> QED BY <5>1, <5>2
      <4>3. CASE l # Root /\ z # q
        <5>1. q \in T[z] => (Toward(s, id, sd, z) <=> Before(s, sd, q, z))
          BY <1>8, <2>3, <4>3
        <5>2. (q \in T[z] /\ Before(s, sd, q, z)) <=> (k # Null /\ q \in T[k])
          BY <1>1, <3>2, <4>3 DEF Led
        <5> QED BY <4>3, <5>1, <5>2
      <4> QED BY <4>1, <4>2, <4>3
    <3> HIDE DEF In
    <3>5. ASSUME NEW v \in V PROVE (v \in R[z] /\ Before(t, sd, v, z)) <=> (k # Null /\ v \in R[k])
      <4>1. CASE v = x
        BY <1>6, <1>7, <2>3, <3>2, <3>4, <4>1 DEF Led
      <4>2. CASE v \in U
        BY <1>6, <1>7, <2>3, <3>2, <4>2 DEF Led
      <4> QED BY <4>1, <4>2
    <3> QED BY <3>1, <3>2, <3>5 DEF Leads, Led
  <2> QED BY <2>1, <2>2, <2>3
<1>11. V \subseteq 1..t.size
  BY <1>0
<1>12. Tree(t, R, V)
  BY <1>4, <1>5, <1>9, <1>10, <1>11 DEF Tree
<1> QED BY <1>12 DEF R

---------------------------------------------------------------------------
(* The list: what each operation links. *)

(* t differs from s in the list only. *)
SameTree(s, t) ==
  /\ Shape(t)
  /\ t.size = s.size /\ t.used = s.used /\ t.init = s.init /\ t.root = s.root
  /\ t.store[Null] = s.store[Null]
  /\ \A v \in 0..s.size : /\ t.store[v].id = s.store[v].id /\ t.store[v].par = s.store[v].par
                          /\ t.store[v].on = s.store[v].on
                          /\ \A sd \in Sides : t.store[v][sd] = s.store[v][sd]

LEMMA SameTreeThen ==
    ASSUME NEW s, NEW t, NEW u, SameTree(s, t), SameTree(t, u)
    PROVE  SameTree(s, u)
  BY DEF SameTree

LEMMA TreeSame ==
    ASSUME NEW s, s.size \in Nat, NEW t, SameTree(s, t), NEW T, NEW U, Tree(s, T, U)
    PROVE  Tree(t, T, U)
<1>1. U \subseteq 1..t.size /\ Below(T, U)
  BY DEF Tree, SameTree
<1>2. \A v \in U : /\ t.store[v].id = s.store[v].id
                   /\ \A sd \in Sides : t.store[v][sd] = s.store[v][sd]
  <2>1. t.size = s.size
    BY DEF SameTree
  <2>2. U \subseteq 0..s.size
    BY <1>1, <2>1
  <2>3. \A v \in 0..s.size : /\ t.store[v].id = s.store[v].id
                             /\ \A sd \in Sides : t.store[v][sd] = s.store[v][sd]
    BY DEF SameTree
  <2> QED BY <2>2, <2>3
<1>3. Keyed(t, U)
  BY <1>2 DEF Tree, Keyed
<1>4. /\ t.root # Null => t.root \in U
      /\ \A v \in U : t.root # Null /\ v \in T[t.root]
  BY DEF Tree, SameTree
<1>5. ASSUME NEW z \in U, NEW sd \in Sides PROVE Leads(t, T, U, z, sd)
  <2>1. Led(s, T, U, z, sd, s.store[z][sd])
    BY LedIs
  <2>2. \A v \in U : Before(t, sd, v, z) <=> Before(s, sd, v, z)
    BY <1>2 DEF Before
  <2>3. t.store[z][sd] = s.store[z][sd]
    BY <1>2
  <2> QED BY <2>1, <2>2, <2>3 DEF Led, Leads
<1> QED BY <1>1, <1>3, <1>4, <1>5 DEF Tree

SetPrev(s, x, y) == [s EXCEPT !.store[x].prev = y]
SetNext(s, x, y) == [s EXCEPT !.store[x].next = y]
SetHead(s, y) == [s EXCEPT !.head = y]
SetTail(s, y) == [s EXCEPT !.tail = y]

LEMMA PrevSet ==
    ASSUME NEW s, Shape(s), NEW x \in 1..s.size, NEW y \in Nat
    PROVE  LET t == SetPrev(s, x, y)
           IN  /\ SameTree(s, t) /\ t.head = s.head /\ t.tail = s.tail
               /\ \A v \in 0..s.size : /\ t.store[v].prev = IF v = x THEN y ELSE s.store[v].prev
                                       /\ t.store[v].next = s.store[v].next
<1> DEFINE z == [s.store[x] EXCEPT !.prev = y]
           st == [s.store EXCEPT ![x] = z]
           t == [s EXCEPT !.store = st]
<1>0. Null # x /\ Null \in 0..s.size /\ x \in 0..s.size
  BY DEF Shape, Null
<1>1. s.store[x] \in Entry
  BY <1>0 DEF Shape
<1>2. /\ z \in Entry /\ z.prev = y /\ z.next = s.store[x].next
      /\ z.id = s.store[x].id /\ z.par = s.store[x].par /\ z.on = s.store[x].on
  BY <1>1 DEF Entry
<1>3. z["left"] = s.store[x]["left"] /\ z["right"] = s.store[x]["right"]
  BY <1>1 DEF Entry
<1> HIDE DEF z
<1>4. st \in [0..s.size -> Entry] /\ st[x] = z /\ \A v \in 0..s.size : v # x => st[v] = s.store[v]
  BY <1>0, <1>2 DEF Shape
<1> HIDE DEF st
<1>5. /\ t.size = s.size /\ t.used = s.used /\ t.init = s.init /\ t.head = s.head /\ t.tail = s.tail
      /\ t.root = s.root /\ t.store = st
      /\ t = [size |-> t.size, used |-> t.used, init |-> t.init, head |-> t.head, tail |-> t.tail,
              root |-> t.root, store |-> t.store]
  BY DEF Shape
<1>6. SetPrev(s, x, y) = t
  BY DEF SetPrev, t, st, z, Shape
<1> HIDE DEF t
<1>7. Shape(t)
  BY <1>4, <1>5 DEF Shape
<1>8. \A sd \in Sides : z[sd] = s.store[x][sd]
  BY <1>3 DEF Sides
<1>9. SameTree(s, t)
  BY <1>0, <1>2, <1>4, <1>5, <1>7, <1>8 DEF SameTree
<1>10. \A v \in 0..s.size : /\ t.store[v].prev = IF v = x THEN y ELSE s.store[v].prev
                            /\ t.store[v].next = s.store[v].next
  BY <1>2, <1>4, <1>5
<1> QED BY <1>5, <1>6, <1>9, <1>10

LEMMA NextSet ==
    ASSUME NEW s, Shape(s), NEW x \in 1..s.size, NEW y \in Nat
    PROVE  LET t == SetNext(s, x, y)
           IN  /\ SameTree(s, t) /\ t.head = s.head /\ t.tail = s.tail
               /\ \A v \in 0..s.size : /\ t.store[v].next = IF v = x THEN y ELSE s.store[v].next
                                       /\ t.store[v].prev = s.store[v].prev
<1> DEFINE z == [s.store[x] EXCEPT !.next = y]
           st == [s.store EXCEPT ![x] = z]
           t == [s EXCEPT !.store = st]
<1>0. Null # x /\ Null \in 0..s.size /\ x \in 0..s.size
  BY DEF Shape, Null
<1>1. s.store[x] \in Entry
  BY <1>0 DEF Shape
<1>2. /\ z \in Entry /\ z.next = y /\ z.prev = s.store[x].prev
      /\ z.id = s.store[x].id /\ z.par = s.store[x].par /\ z.on = s.store[x].on
  BY <1>1 DEF Entry
<1>3. z["left"] = s.store[x]["left"] /\ z["right"] = s.store[x]["right"]
  BY <1>1 DEF Entry
<1> HIDE DEF z
<1>4. st \in [0..s.size -> Entry] /\ st[x] = z /\ \A v \in 0..s.size : v # x => st[v] = s.store[v]
  BY <1>0, <1>2 DEF Shape
<1> HIDE DEF st
<1>5. /\ t.size = s.size /\ t.used = s.used /\ t.init = s.init /\ t.head = s.head /\ t.tail = s.tail
      /\ t.root = s.root /\ t.store = st
      /\ t = [size |-> t.size, used |-> t.used, init |-> t.init, head |-> t.head, tail |-> t.tail,
              root |-> t.root, store |-> t.store]
  BY DEF Shape
<1>6. SetNext(s, x, y) = t
  BY DEF SetNext, t, st, z, Shape
<1> HIDE DEF t
<1>7. Shape(t)
  BY <1>4, <1>5 DEF Shape
<1>8. \A sd \in Sides : z[sd] = s.store[x][sd]
  BY <1>3 DEF Sides
<1>9. SameTree(s, t)
  BY <1>0, <1>2, <1>4, <1>5, <1>7, <1>8 DEF SameTree
<1>10. \A v \in 0..s.size : /\ t.store[v].next = IF v = x THEN y ELSE s.store[v].next
                            /\ t.store[v].prev = s.store[v].prev
  BY <1>2, <1>4, <1>5
<1> QED BY <1>5, <1>6, <1>9, <1>10

LEMMA EndsSet ==
    ASSUME NEW s, Shape(s), NEW y
    PROVE  /\ LET t == SetHead(s, y)
              IN  SameTree(s, t) /\ t.head = y /\ t.tail = s.tail /\ t.store = s.store
           /\ LET t == SetTail(s, y)
              IN  SameTree(s, t) /\ t.head = s.head /\ t.tail = y /\ t.store = s.store
<1>1. ASSUME NEW t, t = SetHead(s, y)
      PROVE  SameTree(s, t) /\ t.head = y /\ t.tail = s.tail /\ t.store = s.store
  <2>1. /\ t.size = s.size /\ t.used = s.used /\ t.init = s.init /\ t.head = y /\ t.tail = s.tail
        /\ t.root = s.root /\ t.store = s.store
        /\ t = [size |-> t.size, used |-> t.used, init |-> t.init, head |-> t.head, tail |-> t.tail,
                root |-> t.root, store |-> t.store]
    BY <1>1 DEF Shape, SetHead
  <2> QED BY <2>1 DEF SameTree, Shape
<1>2. ASSUME NEW t, t = SetTail(s, y)
      PROVE  SameTree(s, t) /\ t.head = s.head /\ t.tail = y /\ t.store = s.store
  <2>1. /\ t.size = s.size /\ t.used = s.used /\ t.init = s.init /\ t.head = s.head /\ t.tail = y
        /\ t.root = s.root /\ t.store = s.store
        /\ t = [size |-> t.size, used |-> t.used, init |-> t.init, head |-> t.head, tail |-> t.tail,
                root |-> t.root, store |-> t.store]
    BY <1>2 DEF Shape, SetTail
  <2> QED BY <2>1 DEF SameTree, Shape
<1> QED BY <1>1, <1>2

(* What Pushed(), Unlinked() and the cut in Evicted() do to the list. *)
Pushes(s, t, x) ==
  /\ t.head = x /\ t.tail = IF s.head = Null THEN x ELSE s.tail
  /\ \A v \in 0..s.size :
       /\ t.store[v].prev = IF v = x THEN Null
                            ELSE IF s.head # Null /\ v = s.head THEN x ELSE s.store[v].prev
       /\ t.store[v].next = IF v = x THEN s.head ELSE s.store[v].next

Unlinks(s, t, p, n) ==
  /\ t.head = s.head /\ t.tail = IF n = Null THEN p ELSE s.tail
  /\ \A v \in 0..s.size :
       /\ t.store[v].prev = IF n # Null /\ v = n THEN p ELSE s.store[v].prev
       /\ t.store[v].next = IF v = p THEN n ELSE s.store[v].next

Cuts(s, t, p) ==
  /\ t.head = (IF p = Null THEN Null ELSE s.head) /\ t.tail = p
  /\ \A v \in 0..s.size :
       /\ t.store[v].prev = s.store[v].prev
       /\ t.store[v].next = IF p # Null /\ v = p THEN Null ELSE s.store[v].next

LEMMA PushedIs ==
    ASSUME NEW s, Shape(s), NEW x \in 1..s.size, s.head \in 0..s.size
    PROVE  SameTree(s, Pushed(s, x)) /\ Pushes(s, Pushed(s, x), x)
<1> DEFINE h == s.head
           a == IF h = Null THEN SetTail(s, x) ELSE SetPrev(s, h, x)
           b == SetPrev(a, x, Null)
           d == SetNext(b, x, h)
           t == SetHead(d, x)
<1>0. x \in Nat /\ h \in Nat /\ Null \in Nat /\ (h # Null => h \in 1..s.size)
  BY DEF Shape, Null
<1>1. Pushed(s, x) = t
  BY DEF Pushed, SetHead, SetTail, SetNext, SetPrev
<1>2. /\ SameTree(s, a) /\ a.tail = IF h = Null THEN x ELSE s.tail
      /\ \A v \in 0..s.size : /\ a.store[v].prev = IF h # Null /\ v = h THEN x ELSE s.store[v].prev
                              /\ a.store[v].next = s.store[v].next
  <2>1. CASE h = Null
    <3>1. a = SetTail(s, x)
      BY <2>1
    <3>2. SameTree(s, SetTail(s, x)) /\ SetTail(s, x).tail = x /\ SetTail(s, x).store = s.store
      BY EndsSet
    <3> QED BY <2>1, <3>1, <3>2
  <2>2. CASE h # Null
    <3>1. a = SetPrev(s, h, x)
      BY <2>2
    <3> HIDE DEF a
    <3> QED BY <1>0, <2>2, <3>1, PrevSet
  <2> QED BY <2>1, <2>2
<1> HIDE DEF a, h
<1>3. Shape(a) /\ a.size = s.size
  BY <1>2 DEF SameTree
<1>4. /\ SameTree(a, b) /\ b.tail = a.tail
      /\ \A v \in 0..s.size : /\ b.store[v].prev = IF v = x THEN Null ELSE a.store[v].prev
                              /\ b.store[v].next = a.store[v].next
  BY <1>0, <1>3, PrevSet
<1> HIDE DEF b
<1>5. Shape(b) /\ b.size = s.size
  BY <1>3, <1>4 DEF SameTree
<1>6. /\ SameTree(b, d) /\ d.tail = b.tail
      /\ \A v \in 0..s.size : /\ d.store[v].next = IF v = x THEN h ELSE b.store[v].next
                              /\ d.store[v].prev = b.store[v].prev
  BY <1>0, <1>5, NextSet
<1> HIDE DEF d
<1>7. Shape(d) /\ d.size = s.size
  BY <1>5, <1>6 DEF SameTree
<1>8. SameTree(d, t) /\ t.head = x /\ t.tail = d.tail /\ t.store = d.store
  BY <1>7, EndsSet
<1> HIDE DEF t
<1>9. SameTree(s, t)
  BY <1>2, <1>4, <1>6, <1>8, SameTreeThen
<1>10. /\ t.tail = IF h = Null THEN x ELSE s.tail
       /\ \A v \in 0..s.size :
            /\ t.store[v].prev = IF v = x THEN Null
                                 ELSE IF h # Null /\ v = h THEN x ELSE s.store[v].prev
            /\ t.store[v].next = IF v = x THEN h ELSE s.store[v].next
  BY <1>2, <1>4, <1>6, <1>8
<1> QED BY <1>1, <1>8, <1>9, <1>10 DEF h, Pushes

LEMMA UnlinkedIs ==
    ASSUME NEW s, Shape(s), NEW x \in 0..s.size,
           s.store[x].prev \in 1..s.size, s.store[x].next \in 0..s.size
    PROVE  /\ SameTree(s, Unlinked(s, x))
           /\ Unlinks(s, Unlinked(s, x), s.store[x].prev, s.store[x].next)
<1> DEFINE p == s.store[x].prev
           n == s.store[x].next
           a == SetNext(s, p, n)
           t == IF n = Null THEN SetTail(a, p) ELSE SetPrev(a, n, p)
<1>0. p \in Nat /\ n \in Nat /\ p \in 1..s.size /\ (n # Null => n \in 1..s.size)
  BY DEF Shape, Null
<1>1. Unlinked(s, x) = t
  BY DEF Unlinked, SetTail, SetNext, SetPrev
<1> HIDE DEF p, n
<1>2. /\ SameTree(s, a) /\ a.head = s.head /\ a.tail = s.tail
      /\ \A v \in 0..s.size : /\ a.store[v].next = IF v = p THEN n ELSE s.store[v].next
                              /\ a.store[v].prev = s.store[v].prev
  BY <1>0, NextSet
<1> HIDE DEF a
<1>3. Shape(a) /\ a.size = s.size
  BY <1>2 DEF SameTree
<1>4. CASE n = Null
  <2>1. t = SetTail(a, p)
    BY <1>4
  <2> HIDE DEF t
  <2>2. SameTree(a, t) /\ t.head = a.head /\ t.tail = p /\ t.store = a.store
    BY <1>3, <2>1, EndsSet
  <2>3. SameTree(s, t)
    BY <1>2, <2>2, SameTreeThen
  <2> QED BY <1>1, <1>2, <1>4, <2>2, <2>3 DEF n, p, Unlinks
<1>5. CASE n # Null
  <2>1. t = SetPrev(a, n, p)
    BY <1>5
  <2> HIDE DEF t
  <2>2. /\ SameTree(a, t) /\ t.head = a.head /\ t.tail = a.tail
        /\ \A v \in 0..s.size : /\ t.store[v].prev = IF v = n THEN p ELSE a.store[v].prev
                                /\ t.store[v].next = a.store[v].next
    BY <1>0, <1>3, <1>5, <2>1, PrevSet
  <2>3. SameTree(s, t)
    BY <1>2, <2>2, SameTreeThen
  <2> QED BY <1>1, <1>2, <1>5, <2>2, <2>3 DEF n, p, Unlinks
<1> QED BY <1>4, <1>5

(* The list without its tail, of which the tree is not yet rid. *)
Cut(s) ==
  LET p == s.store[s.tail].prev
      t == SetTail(s, p)
  IN  IF p = Null THEN SetHead(t, Null) ELSE SetNext(t, p, Null)

LEMMA EvictedIs == \A s : Evicted(s) = remove_node(Cut(s), s.tail)
  BY DEF Evicted, Cut, SetTail, SetHead, SetNext

LEMMA CutIs ==
    ASSUME NEW s, Shape(s), s.store[s.tail].prev \in 0..s.size
    PROVE  SameTree(s, Cut(s)) /\ Cuts(s, Cut(s), s.store[s.tail].prev)
<1> DEFINE p == s.store[s.tail].prev
           a == SetTail(s, p)
           t == IF p = Null THEN SetHead(a, Null) ELSE SetNext(a, p, Null)
<1>1. Cut(s) = t
  BY DEF Cut
<1>2. (p # Null => p \in 1..s.size) /\ Null \in Nat
  BY DEF Null
<1> HIDE DEF p
<1>3. SameTree(s, a) /\ a.head = s.head /\ a.tail = p /\ a.store = s.store
  BY EndsSet
<1> HIDE DEF a
<1>4. Shape(a) /\ a.size = s.size
  BY <1>3 DEF SameTree
<1>5. CASE p = Null
  <2>1. t = SetHead(a, Null)
    BY <1>5
  <2> HIDE DEF t
  <2>2. SameTree(a, t) /\ t.head = Null /\ t.tail = a.tail /\ t.store = a.store
    BY <1>4, <2>1, EndsSet
  <2>3. SameTree(s, t)
    BY <1>3, <2>2, SameTreeThen
  <2> QED BY <1>1, <1>3, <1>5, <2>2, <2>3 DEF p, Cuts
<1>6. CASE p # Null
  <2>1. t = SetNext(a, p, Null)
    BY <1>6
  <2> HIDE DEF t
  <2>2. /\ SameTree(a, t) /\ t.head = a.head /\ t.tail = a.tail
        /\ \A v \in 0..s.size : /\ t.store[v].next = IF v = p THEN Null ELSE a.store[v].next
                                /\ t.store[v].prev = a.store[v].prev
    BY <1>2, <1>4, <1>6, <2>1, NextSet
  <2>3. SameTree(s, t)
    BY <1>3, <2>2, SameTreeThen
  <2> QED BY <1>1, <1>3, <1>6, <2>2, <2>3 DEF p, Cuts
<1> QED BY <1>5, <1>6

---------------------------------------------------------------------------
(* The list: its entries in order. *)

(* l[1] to l[n] are the entries of U, each once, from the head to the tail. *)
Chain(s, l, n, U) ==
  /\ n \in Nat /\ l \in [1..n -> U]
  /\ \A v \in U : \E i \in 1..n : l[i] = v
  /\ \A i, j \in 1..n : l[i] = l[j] => i = j
  /\ \A i \in 1..n : /\ s.store[l[i]].prev = IF i = 1 THEN Null ELSE l[i - 1]
                     /\ s.store[l[i]].next = IF i = n THEN Null ELSE l[i + 1]
  /\ s.head = IF n = 0 THEN Null ELSE l[1]
  /\ s.tail = IF n = 0 THEN Null ELSE l[n]

(* The order with x first, without entry k, and without the last. *)
Headed(l, n, x) == [i \in 1..(n + 1) |-> IF i = 1 THEN x ELSE l[i - 1]]
Skipped(l, n, k) == [i \in 1..(n - 1) |-> IF i < k THEN l[i] ELSE l[i + 1]]
Shortened(l, n) == [i \in 1..(n - 1) |-> l[i]]

LEMMA ChainEnds ==
    ASSUME NEW s, s.size \in Nat, NEW l, NEW n, NEW U, U \subseteq 1..s.size, Chain(s, l, n, U)
    PROVE  /\ s.head \in 0..s.size /\ s.tail \in 0..s.size /\ Null \notin U
           /\ n > 0 => s.head \in U /\ s.tail \in U
           /\ \A v \in U : n > 0 /\ s.store[v].prev \in 0..s.size /\ s.store[v].next \in 0..s.size
           /\ \A v \in U : v # s.head => s.store[v].prev \in U
<1>1. n \in Nat /\ l \in [1..n -> U] /\ Null \notin U /\ Null \in 0..s.size /\ U \subseteq 0..s.size
  BY DEF Chain, Null
<1>2. \A i \in 1..n : l[i] \in U
  BY <1>1
<1>3. /\ s.head = IF n = 0 THEN Null ELSE l[1]
      /\ s.tail = IF n = 0 THEN Null ELSE l[n]
  BY DEF Chain
<1>4. n > 0 => s.head \in U /\ s.tail \in U
  BY <1>1, <1>2, <1>3
<1>5. s.head \in 0..s.size /\ s.tail \in 0..s.size
  <2>1. CASE n = 0
    BY <1>1, <1>3, <2>1
  <2>2. CASE n > 0
    BY <1>1, <1>4, <2>2
  <2> QED BY <1>1, <2>1, <2>2
<1>6. ASSUME NEW v \in U
      PROVE  /\ n > 0 /\ s.store[v].prev \in 0..s.size /\ s.store[v].next \in 0..s.size
             /\ v # s.head => s.store[v].prev \in U
  <2>1. PICK i \in 1..n : l[i] = v
    BY DEF Chain
  <2>2. /\ s.store[v].prev = IF i = 1 THEN Null ELSE l[i - 1]
        /\ s.store[v].next = IF i = n THEN Null ELSE l[i + 1]
    BY <2>1 DEF Chain
  <2>3. /\ i # 1 => i - 1 \in 1..n
        /\ i # n => i + 1 \in 1..n
        /\ n > 0
    BY <1>1
  <2>4. v # s.head => i # 1
    BY <1>3, <2>1, <2>3
  <2> QED BY <1>1, <1>2, <2>2, <2>3, <2>4
<1> QED BY <1>1, <1>4, <1>5, <1>6

LEMMA ChainPushed ==
    ASSUME NEW s, s.size \in Nat, NEW l, NEW n, NEW U, U \subseteq 1..s.size, Chain(s, l, n, U),
           NEW x \in 1..s.size, x \notin U, NEW t, Pushes(s, t, x)
    PROVE  Chain(t, Headed(l, n, x), n + 1, U \cup {x})
<1> DEFINE m == [i \in 1..(n + 1) |-> IF i = 1 THEN x ELSE l[i - 1]]
           V == U \cup {x}
<1>0. /\ t.head = x /\ t.tail = IF s.head = Null THEN x ELSE s.tail
      /\ \A v \in 0..s.size :
           /\ t.store[v].prev = IF v = x THEN Null
                                ELSE IF s.head # Null /\ v = s.head THEN x ELSE s.store[v].prev
           /\ t.store[v].next = IF v = x THEN s.head ELSE s.store[v].next
  BY DEF Pushes
<1>1. n \in Nat /\ l \in [1..n -> U] /\ Null \notin U /\ U \subseteq 0..s.size /\ x # Null
  BY DEF Chain, Null
<1>2. \A i \in 1..(n + 1) : i # 1 => i - 1 \in 1..n
  BY <1>1
<1>3. m \in [1..(n + 1) -> V]
  BY <1>1, <1>2
<1>4. m[1] = x /\ \A i \in 1..n : m[i + 1] = l[i] /\ i + 1 \in 1..(n + 1)
  BY <1>1
<1>5. \A i \in 1..(n + 1) : i # 1 => m[i] = l[i - 1]
  OBVIOUS
<1>6. \A i \in 1..n : l[i] \in U /\ l[i] # x /\ l[i] \in 0..s.size
  BY <1>1
<1>7. /\ \A v \in U : \E i \in 1..n : l[i] = v
      /\ \A i, j \in 1..n : l[i] = l[j] => i = j
      /\ \A i \in 1..n : /\ s.store[l[i]].prev = IF i = 1 THEN Null ELSE l[i - 1]
                         /\ s.store[l[i]].next = IF i = n THEN Null ELSE l[i + 1]
      /\ s.head = IF n = 0 THEN Null ELSE l[1]
      /\ s.tail = IF n = 0 THEN Null ELSE l[n]
  BY DEF Chain
<1> HIDE DEF m
<1>8. \A v \in V : \E i \in 1..(n + 1) : m[i] = v
  <2> SUFFICES ASSUME NEW v \in V PROVE \E i \in 1..(n + 1) : m[i] = v
    OBVIOUS
  <2>1. CASE v = x
    BY <1>1, <1>4, <2>1
  <2>2. CASE v \in U
    <3>1. PICK i \in 1..n : l[i] = v
      BY <1>7, <2>2
    <3> QED BY <1>4, <3>1
  <2> QED BY <2>1, <2>2
<1>9. ASSUME NEW i \in 1..(n + 1), NEW j \in 1..(n + 1), m[i] = m[j] PROVE i = j
  <2>1. CASE i = 1 /\ j # 1
    <3>1. m[j] # x
      BY <1>2, <1>5, <1>6, <2>1
    <3> QED BY <1>4, <1>9, <2>1, <3>1
  <2>2. CASE i # 1 /\ j = 1
    <3>1. m[i] # x
      BY <1>2, <1>5, <1>6, <2>2
    <3> QED BY <1>4, <1>9, <2>2, <3>1
  <2>3. CASE i # 1 /\ j # 1
    <3>1. i - 1 = j - 1
      BY <1>2, <1>5, <1>7, <1>9, <2>3
    <3> QED BY <1>1, <3>1
  <2> QED BY <2>1, <2>2, <2>3
<1>10. ASSUME NEW i \in 1..(n + 1)
       PROVE  /\ t.store[m[i]].prev = IF i = 1 THEN Null ELSE m[i - 1]
              /\ t.store[m[i]].next = IF i = n + 1 THEN Null ELSE m[i + 1]
  <2>1. CASE i = 1
    <3>1. t.store[x].prev = Null /\ t.store[x].next = s.head
      BY <1>0, <1>1
    <3>2. s.head = IF n = 0 THEN Null ELSE m[2]
      <4>1. n # 0 => 1 \in 1..n /\ 1 + 1 = 2
        BY <1>1
      <4> QED BY <1>4, <1>7, <4>1
    <3> QED BY <1>1, <1>4, <2>1, <3>1, <3>2
  <2>2. CASE i # 1
    <3> DEFINE k == i - 1
    <3>1. k \in 1..n /\ m[i] = l[k] /\ k + 1 = i
      BY <1>1, <1>2, <1>5, <2>2
    <3>2. l[k] \in 0..s.size /\ l[k] # x
      BY <1>6, <3>1
    <3>3. t.store[m[i]].prev = m[k]
      <4>1. CASE k = 1
        <5>1. s.head = l[1] /\ s.head # Null
          BY <1>1, <1>6, <1>7, <3>1, <4>1
        <5> QED BY <1>0, <1>4, <3>1, <3>2, <4>1, <5>1
      <4>2. CASE k # 1
        <5>1. k - 1 \in 1..n /\ 1 \in 1..n /\ n # 0 /\ k - 1 + 1 = k
          BY <1>1, <3>1, <4>2
        <5>2. s.head = l[1] /\ l[k] # l[1]
          BY <1>7, <3>1, <4>2, <5>1
        <5>3. t.store[l[k]].prev = l[k - 1]
          BY <1>0, <1>7, <3>1, <3>2, <4>2, <5>2
        <5> QED BY <1>4, <3>1, <5>1, <5>3
      <4> QED BY <4>1, <4>2
    <3>4. t.store[m[i]].next = IF k = n THEN Null ELSE l[k + 1]
      BY <1>0, <1>7, <3>1, <3>2
    <3>5. k # n => m[i + 1] = l[k + 1]
      <4>1. k # n => k + 1 \in 1..n
        BY <1>1, <3>1
      <4> QED BY <1>4, <3>1, <4>1
    <3>6. i = n + 1 <=> k = n
      BY <1>1, <3>1
    <3> QED BY <2>2, <3>3, <3>4, <3>5, <3>6
  <2> QED BY <2>1, <2>2
<1>11. t.tail = m[n + 1] /\ n + 1 \in Nat /\ n + 1 # 0
  <2>1. CASE n = 0
    BY <1>0, <1>4, <1>7, <2>1
  <2>2. CASE n # 0
    <3>1. 1 \in 1..n /\ n \in 1..n
      BY <1>1, <2>2
    <3>2. s.head # Null /\ s.tail = l[n] /\ m[n + 1] = l[n]
      BY <1>1, <1>4, <1>6, <1>7, <2>2, <3>1
    <3> QED BY <1>0, <1>1, <3>2
  <2> QED BY <2>1, <2>2
<1>12. Chain(t, m, n + 1, V)
  BY <1>0, <1>3, <1>4, <1>8, <1>9, <1>10, <1>11 DEF Chain
<1> QED BY <1>12 DEF m, Headed

LEMMA ChainUnlinked ==
    ASSUME NEW s, s.size \in Nat, NEW l, NEW n, NEW U, U \subseteq 1..s.size, Chain(s, l, n, U),
           NEW k \in 2..n, NEW p, p = s.store[l[k]].prev, NEW nx, nx = s.store[l[k]].next, NEW t, Unlinks(s, t, p, nx)
    PROVE  Chain(t, Skipped(l, n, k), n - 1, U \ {l[k]})
<1> DEFINE m == [i \in 1..(n - 1) |-> IF i < k THEN l[i] ELSE l[i + 1]]
           V == U \ {l[k]}
           at(i) == IF i < k THEN i ELSE i + 1
<1>0. /\ t.head = s.head /\ t.tail = IF nx = Null THEN p ELSE s.tail
      /\ \A v \in 0..s.size :
           /\ t.store[v].prev = IF nx # Null /\ v = nx THEN p ELSE s.store[v].prev
           /\ t.store[v].next = IF v = p THEN nx ELSE s.store[v].next
  BY DEF Unlinks
<1>1. n \in Nat /\ l \in [1..n -> U] /\ Null \notin U /\ U \subseteq 0..s.size
  BY DEF Chain, Null
<1>2. /\ n - 1 \in Nat /\ n - 1 # 0 /\ n # 0 /\ k \in 1..n /\ k - 1 \in 1..n /\ 1 \in 1..n /\ n \in 1..n
      /\ 1 \in 1..(n - 1) /\ n - 1 \in 1..(n - 1) /\ k \in Nat /\ k # 1
  BY <1>1
<1>3. /\ \A v \in U : \E i \in 1..n : l[i] = v
      /\ \A i, j \in 1..n : l[i] = l[j] => i = j
      /\ \A i \in 1..n : /\ s.store[l[i]].prev = IF i = 1 THEN Null ELSE l[i - 1]
                         /\ s.store[l[i]].next = IF i = n THEN Null ELSE l[i + 1]
      /\ s.head = IF n = 0 THEN Null ELSE l[1]
      /\ s.tail = IF n = 0 THEN Null ELSE l[n]
  BY DEF Chain
<1>4. \A i \in 1..n : l[i] \in U /\ l[i] \in 0..s.size /\ l[i] # Null
  BY <1>1
<1>5. p = l[k - 1] /\ nx = IF k = n THEN Null ELSE l[k + 1]
  BY <1>2, <1>3
<1>6. \A i \in 1..(n - 1) : i \in 1..n /\ i + 1 \in 1..n /\ at(i) \in 1..n /\ at(i) # k /\ m[i] = l[at(i)]
  BY <1>1, <1>2
<1>7. /\ \A i \in 1..(n - 1) : i < k => m[i] = l[i]
      /\ \A i \in 1..(n - 1) : ~(i < k) => m[i] = l[i + 1]
  OBVIOUS
<1>8. \A i \in 1..(n - 1) : m[i] \in V
  BY <1>2, <1>3, <1>4, <1>6
<1>9. m \in [1..(n - 1) -> V]
  BY <1>8
<1> HIDE DEF m
<1>10. ASSUME NEW v \in V PROVE \E i \in 1..(n - 1) : m[i] = v
  <2>1. PICK j \in 1..n : l[j] = v /\ j # k
    BY <1>3
  <2>2. CASE j < k
    <3>1. j \in 1..(n - 1)
      BY <1>1, <1>2, <2>2
    <3> QED BY <1>7, <2>1, <2>2, <3>1
  <2>3. CASE ~(j < k)
    <3>1. j - 1 \in 1..(n - 1) /\ ~(j - 1 < k) /\ j - 1 + 1 = j
      BY <1>1, <1>2, <2>1, <2>3
    <3> QED BY <1>7, <2>1, <3>1
  <2> QED BY <2>2, <2>3
<1>11. ASSUME NEW i \in 1..(n - 1), NEW j \in 1..(n - 1), m[i] = m[j] PROVE i = j
  <2>1. at(i) = at(j)
    BY <1>3, <1>6, <1>11
  <2> QED BY <1>1, <1>2, <2>1
<1>12. ASSUME NEW i \in 1..(n - 1)
       PROVE  t.store[m[i]].next = IF i = n - 1 THEN Null ELSE m[i + 1]
  <2>0. i \in 1..n /\ i + 1 \in 1..n /\ i \in Nat /\ (i # n - 1 => i + 1 \in 1..(n - 1))
    BY <1>1
  <2>1. CASE i < k - 1
    <3>1. m[i] = l[i] /\ l[i] # p /\ i # n /\ i # n - 1 /\ i + 1 < k
      BY <1>1, <1>2, <1>3, <1>5, <1>7, <2>0, <2>1
    <3>2. t.store[m[i]].next = l[i + 1]
      BY <1>0, <1>3, <1>4, <2>0, <3>1
    <3>3. m[i + 1] = l[i + 1]
      BY <1>7, <2>0, <3>1
    <3> QED BY <3>1, <3>2, <3>3
  <2>2. CASE i = k - 1
    <3>1. m[i] = p /\ i + 1 = k /\ (i = n - 1 <=> k = n)
      BY <1>1, <1>2, <1>5, <1>7, <2>2
    <3>2. t.store[m[i]].next = nx
      BY <1>0, <1>2, <1>4, <1>5, <3>1
    <3>3. k # n => m[k] = l[k + 1]
      BY <1>2, <1>7, <2>0, <3>1
    <3> QED BY <1>5, <3>1, <3>2, <3>3
  <2>3. CASE i > k - 1
    <3>1. m[i] = l[i + 1] /\ i + 1 # k - 1 /\ ~(i < k) /\ ~(i + 1 < k)
      BY <1>1, <1>2, <1>7, <2>3
    <3>2. l[i + 1] # p
      BY <1>2, <1>3, <1>5, <2>0, <3>1
    <3>3. t.store[m[i]].next = IF i + 1 = n THEN Null ELSE l[i + 1 + 1]
      BY <1>0, <1>3, <1>4, <2>0, <3>1, <3>2
    <3>4. i # n - 1 => m[i + 1] = l[i + 1 + 1]
      BY <1>7, <2>0, <3>1
    <3>5. i + 1 = n <=> i = n - 1
      BY <1>1
    <3> QED BY <3>3, <3>4, <3>5
  <2> QED BY <1>1, <1>2, <2>1, <2>2, <2>3
<1>13. ASSUME NEW i \in 1..(n - 1)
       PROVE  t.store[m[i]].prev = IF i = 1 THEN Null ELSE m[i - 1]
  <2>0. i \in 1..n /\ i + 1 \in 1..n /\ i \in Nat /\ (i # 1 => i - 1 \in 1..(n - 1))
    BY <1>1
  <2>1. CASE i < k
    <3>1. m[i] = l[i] /\ (k # n => k + 1 \in 1..n /\ i # k + 1) /\ i - 1 < k
      BY <1>1, <1>2, <1>7, <2>1
    <3>2. ~(nx # Null /\ l[i] = nx)
      BY <1>3, <1>5, <2>0, <3>1
    <3>3. t.store[m[i]].prev = IF i = 1 THEN Null ELSE l[i - 1]
      BY <1>0, <1>3, <1>4, <2>0, <3>1, <3>2
    <3>4. i # 1 => m[i - 1] = l[i - 1]
      BY <1>7, <2>0, <3>1
    <3> QED BY <3>3, <3>4
  <2>2. CASE i = k
    <3>1. k # n /\ m[k] = l[k + 1] /\ nx = l[k + 1] /\ nx # Null
      BY <1>1, <1>2, <1>4, <1>5, <1>7, <2>0, <2>2
    <3>2. t.store[m[i]].prev = l[k - 1]
      BY <1>0, <1>4, <1>5, <2>0, <2>2, <3>1
    <3>3. i # 1 /\ k - 1 < k /\ m[i - 1] = l[k - 1]
      BY <1>2, <1>7, <2>0, <2>2
    <3> QED BY <3>2, <3>3
  <2>3. CASE i > k
    <3>1. m[i] = l[i + 1] /\ i # 1 /\ ~(i - 1 < k) /\ i - 1 + 1 = i /\ i + 1 - 1 = i /\ i + 1 # k + 1 /\ i + 1 # 1
      BY <1>1, <1>2, <1>7, <2>0, <2>3
    <3>2. ~(nx # Null /\ l[i + 1] = nx)
      <4>1. k # n => k + 1 \in 1..n
        BY <1>1, <1>2
      <4> QED BY <1>3, <1>5, <2>0, <3>1, <4>1
    <3>3. t.store[m[i]].prev = l[i]
      BY <1>0, <1>3, <1>4, <2>0, <3>1, <3>2
    <3>4. m[i - 1] = l[i]
      BY <1>7, <2>0, <3>1
    <3> QED BY <3>1, <3>3, <3>4
  <2> QED BY <1>1, <1>2, <2>1, <2>2, <2>3
<1>14. t.head = m[1]
  <2>1. 1 < k
    BY <1>2
  <2> QED BY <1>0, <1>2, <1>3, <1>7, <2>1
<1>15. t.tail = m[n - 1]
  <2>1. CASE k = n
    <3>1. nx = Null /\ n - 1 < k
      BY <1>1, <1>5, <2>1
    <3> QED BY <1>0, <1>2, <1>5, <1>7, <2>1, <3>1
  <2>2. CASE k # n
    <3>1. k + 1 \in 1..n /\ ~(n - 1 < k) /\ n - 1 + 1 = n
      BY <1>1, <1>2, <2>2
    <3>2. nx # Null
      BY <1>4, <1>5, <2>2, <3>1
    <3> QED BY <1>0, <1>2, <1>3, <1>7, <3>1, <3>2
  <2> QED BY <2>1, <2>2
<1>16. Chain(t, m, n - 1, V)
  BY <1>2, <1>9, <1>10, <1>11, <1>12, <1>13, <1>14, <1>15 DEF Chain
<1> QED BY <1>16 DEF m, Skipped

LEMMA ChainCut ==
    ASSUME NEW s, s.size \in Nat, NEW l, NEW n, NEW U, U \subseteq 1..s.size, Chain(s, l, n, U), n # 0,
           NEW p, p = s.store[s.tail].prev, NEW t, Cuts(s, t, p)
    PROVE  Chain(t, Shortened(l, n), n - 1, U \ {s.tail})
<1> DEFINE m == [i \in 1..(n - 1) |-> l[i]]
           V == U \ {s.tail}
<1>0. /\ t.head = (IF p = Null THEN Null ELSE s.head) /\ t.tail = p
      /\ \A v \in 0..s.size :
           /\ t.store[v].prev = s.store[v].prev
           /\ t.store[v].next = IF p # Null /\ v = p THEN Null ELSE s.store[v].next
  BY DEF Cuts
<1>1. n \in Nat /\ l \in [1..n -> U] /\ Null \notin U /\ U \subseteq 0..s.size
  BY DEF Chain, Null
<1>2. n - 1 \in Nat /\ 1 \in 1..n /\ n \in 1..n
  BY <1>1
<1>3. /\ \A v \in U : \E i \in 1..n : l[i] = v
      /\ \A i, j \in 1..n : l[i] = l[j] => i = j
      /\ \A i \in 1..n : /\ s.store[l[i]].prev = IF i = 1 THEN Null ELSE l[i - 1]
                         /\ s.store[l[i]].next = IF i = n THEN Null ELSE l[i + 1]
      /\ s.head = l[1] /\ s.tail = l[n]
  BY DEF Chain
<1>4. \A i \in 1..n : l[i] \in U /\ l[i] \in 0..s.size /\ l[i] # Null
  BY <1>1
<1>5. p = IF n = 1 THEN Null ELSE l[n - 1]
  BY <1>2, <1>3
<1>6. \A i \in 1..(n - 1) : i \in 1..n /\ i + 1 \in 1..n /\ i # n /\ m[i] = l[i]
  BY <1>1
<1>7. m \in [1..(n - 1) -> V]
  <2>1. \A i \in 1..(n - 1) : l[i] \in V
    BY <1>2, <1>3, <1>4, <1>6
  <2> QED BY <2>1
<1> HIDE DEF m
<1>8. ASSUME NEW v \in V PROVE \E i \in 1..(n - 1) : m[i] = v
  <2>1. PICK j \in 1..n : l[j] = v /\ j # n
    BY <1>3
  <2>2. j \in 1..(n - 1)
    BY <1>1, <2>1
  <2> QED BY <1>6, <2>1, <2>2
<1>9. \A i, j \in 1..(n - 1) : m[i] = m[j] => i = j
  BY <1>3, <1>6
<1>10. ASSUME NEW i \in 1..(n - 1)
       PROVE  /\ t.store[m[i]].prev = IF i = 1 THEN Null ELSE m[i - 1]
              /\ t.store[m[i]].next = IF i = n - 1 THEN Null ELSE m[i + 1]
  <2>0. /\ i \in 1..n /\ i # n /\ m[i] = l[i]
        /\ i # 1 => i - 1 \in 1..(n - 1)
        /\ i # n - 1 => i + 1 \in 1..(n - 1)
    BY <1>1, <1>6
  <2>1. t.store[m[i]].prev = IF i = 1 THEN Null ELSE m[i - 1]
    BY <1>0, <1>3, <1>4, <1>6, <2>0
  <2>2. CASE i = n - 1
    <3>1. n # 1 /\ p = l[i] /\ p # Null
      BY <1>1, <1>4, <1>5, <2>0, <2>2
    <3>2. t.store[m[i]].next = Null
      BY <1>0, <1>4, <2>0, <3>1
    <3> QED BY <2>1, <2>2, <3>2
  <2>3. CASE i # n - 1
    <3>1. ~(p # Null /\ l[i] = p)
      <4>1. n # 1 => n - 1 \in 1..n
        BY <1>1
      <4> QED BY <1>3, <1>5, <2>0, <2>3, <4>1
    <3>2. t.store[m[i]].next = l[i + 1]
      BY <1>0, <1>3, <1>4, <2>0, <3>1
    <3> QED BY <1>6, <2>0, <2>1, <2>3, <3>2
  <2> QED BY <2>2, <2>3
<1>11. /\ t.head = IF n - 1 = 0 THEN Null ELSE m[1]
       /\ t.tail = IF n - 1 = 0 THEN Null ELSE m[n - 1]
  <2>1. CASE n = 1
    BY <1>0, <1>5, <2>1
  <2>2. CASE n # 1
    <3>1. n - 1 # 0 /\ n - 1 \in 1..n /\ 1 \in 1..(n - 1) /\ n - 1 \in 1..(n - 1)
      BY <1>1, <2>2
    <3>2. p # Null
      BY <1>4, <1>5, <2>2, <3>1
    <3> QED BY <1>0, <1>3, <1>5, <1>6, <2>2, <3>1, <3>2
  <2> QED BY <2>1, <2>2
<1>12. Chain(t, m, n - 1, V)
  BY <1>2, <1>7, <1>8, <1>9, <1>10, <1>11 DEF Chain
<1> QED BY <1>12 DEF m, Shortened

---------------------------------------------------------------------------
(* The operations keep the list and the tree of the same entries. *)

Held(s, l, n, U) ==
  /\ Shape(s) /\ s.store[Null] = Blank /\ U \subseteq 1..s.size
  /\ Chain(s, l, n, U)
  /\ \E T : Tree(s, T, U)

(* What the list and the tree do not change. *)
SameData(s, t, U) ==
  /\ t.size = s.size /\ t.used = s.used /\ t.init = s.init
  /\ \A v \in U : t.store[v].id = s.store[v].id /\ t.store[v].par = s.store[v].par /\ t.store[v].on = s.store[v].on

(* A session, as the abstract cache has it. *)
Item(s, x) == [id |-> s.store[x].id, par |-> s.store[x].par, on |-> s.store[x].on]
Session(id, p) == [id |-> id, par |-> p, on |-> TRUE]

Fresh(s, U, id) == \A v \in U : s.store[v].id # id

(* What find_node() finds: the entry with this ID, or that there is none.  *)
Finds(s, U, id, x) ==
  /\ x # Null => x \in U /\ s.store[x].id = id
  /\ x = Null => Fresh(s, U, id)
  /\ \A v \in U : s.store[v].id = id => x = v

LEMMA SameDataThen ==
    ASSUME NEW s, NEW t, NEW u, NEW U, NEW V, V \subseteq U, SameData(s, t, U), SameData(t, u, V)
    PROVE  SameData(s, u, V)
  BY DEF SameData

LEMMA FoundIs ==
    ASSUME NEW s, NEW l, NEW n, NEW U, Held(s, l, n, U), NEW id \in Nat
    PROVE  Finds(s, U, id, find_node(s, id).x)
<1> DEFINE w == find_node(s, id)
<1>1. PICK T : Tree(s, T, U)
  BY DEF Held
<1>2. s.size \in Nat
  BY DEF Held, Shape
<1>3. Searched(s, T, U, id, w) /\ (w.x = Null \/ s.store[w.x].id = id)
  BY <1>1, <1>2, FindSearched
<1> HIDE DEF w
<1>4. w.x # Null => w.x \in U /\ s.store[w.x].id = id
  BY <1>3 DEF Searched, Places
<1>5. w.x = Null => \A v \in U : s.store[v].id # id
  BY <1>3 DEF Searched
<1>6. ASSUME NEW v \in U, s.store[v].id = id PROVE w.x = v
  BY <1>1, <1>4, <1>5, <1>6, KeysDiffer
<1>7. Finds(s, U, id, w.x)
  BY <1>4, <1>5, <1>6 DEF Finds, Fresh
<1> QED BY <1>7 DEF w

LEMMA ChainKept ==
    ASSUME NEW s, NEW t, NEW l, NEW n, NEW U, Chain(s, l, n, U), t.head = s.head, t.tail = s.tail,
           \A v \in U : t.store[v].prev = s.store[v].prev /\ t.store[v].next = s.store[v].next
    PROVE  Chain(t, l, n, U)
<1>1. n \in Nat /\ l \in [1..n -> U] /\ \A i \in 1..n : l[i] \in U
  BY DEF Chain
<1>2. \A i \in 1..n : /\ t.store[l[i]].prev = IF i = 1 THEN Null ELSE l[i - 1]
                      /\ t.store[l[i]].next = IF i = n THEN Null ELSE l[i + 1]
  BY <1>1 DEF Chain
<1> QED BY <1>1, <1>2 DEF Chain

LEMMA HeldInserted ==
    ASSUME NEW s, NEW l, NEW n, NEW U, Held(s, l, n, U), NEW x \in 1..s.size, x \notin U,
           NEW id \in Ids, NEW p \in Params, Fresh(s, U, id)
    PROVE  LET t == Inserted(s, x, id, p)
           IN  /\ Held(t, Headed(l, n, x), n + 1, U \cup {x})
               /\ SameData(s, t, U)
               /\ Item(t, x) = Session(id, p)
<1> DEFINE w == find_node(s, id)
           a == [set_link(s, w.link, x) EXCEPT !.store[x] = Leaf(id, p)]
           t == Pushed(a, x)
           V == U \cup {x}
<1>1. PICK T : Tree(s, T, U)
  BY DEF Held
<1>2. s.size \in Nat /\ Shape(s) /\ U \subseteq 1..s.size /\ s.store[Null] = Blank /\ Chain(s, l, n, U)
  BY DEF Held, Shape
<1>3. id \in Nat
  BY SessionCacheAssumption
<1>4. Searched(s, T, U, id, w) /\ (w.x = Null \/ s.store[w.x].id = id)
  BY <1>1, <1>2, <1>3, FindSearched
<1>5. Inserted(s, x, id, p) = t
  BY DEF Inserted, Leaf
<1> HIDE DEF w
<1>6. w.x = Null /\ IsLink(s, w.link)
  <2>1. w \in Places(U)
    BY <1>4 DEF Searched
  <2>2. w.x = Null
    BY <1>4, <2>1 DEF Places, Fresh
  <2> QED BY <1>2, <2>1, <2>2 DEF Places, IsLink
<1>7. Grafted(s, a, x, id, p, w.link)
  BY <1>2, <1>6, GraftedIs
<1> HIDE DEF a
<1>8. Tree(a, Grown(T, U, x, w.link), V)
  BY <1>1, <1>2, <1>3, <1>4, <1>6, <1>7, TreeGrows
<1>9. /\ Shape(a) /\ a.size = s.size /\ a.used = s.used /\ a.init = s.init /\ a.head = s.head /\ a.tail = s.tail
      /\ a.store[x] = Leaf(id, p) /\ a.store[Null] = Blank
      /\ \A v \in U : /\ a.store[v].id = s.store[v].id /\ a.store[v].par = s.store[v].par /\ a.store[v].on = s.store[v].on
                      /\ a.store[v].prev = s.store[v].prev /\ a.store[v].next = s.store[v].next
  <2>1. \A v \in U : v \in 0..s.size /\ v # x
    BY <1>2
  <2> QED BY <1>2, <1>7, <2>1 DEF Grafted
<1>10. Chain(a, l, n, U)
  <2>1. Chain(s, l, n, U)
    BY <1>2
  <2>2. /\ a.head = s.head /\ a.tail = s.tail
        /\ \A v \in U : a.store[v].prev = s.store[v].prev /\ a.store[v].next = s.store[v].next
    BY <1>9
  <2> QED BY <2>1, <2>2, ChainKept
<1>11. a.head \in 0..a.size
  BY <1>2, <1>9, <1>10, ChainEnds
<1>12. SameTree(a, t) /\ Pushes(a, t, x)
  BY <1>9, <1>11, PushedIs
<1> HIDE DEF t
<1>13. Chain(t, Headed(l, n, x), n + 1, V)
  <2>1. a.size \in Nat /\ U \subseteq 1..a.size /\ x \in 1..a.size
    BY <1>2, <1>9
  <2> QED BY <1>10, <1>12, <2>1, ChainPushed
<1>14. Tree(t, Grown(T, U, x, w.link), V)
  BY <1>2, <1>8, <1>9, <1>12, TreeSame
<1>15. Shape(t) /\ t.store[Null] = Blank /\ V \subseteq 1..t.size
  BY <1>2, <1>9, <1>12 DEF SameTree
<1>16. /\ SameData(s, t, U)
       /\ t.store[x].id = a.store[x].id /\ t.store[x].par = a.store[x].par /\ t.store[x].on = a.store[x].on
  <2>0. U \subseteq 0..s.size /\ x \in 0..s.size
    BY <1>2
  <2>1. V \subseteq 0..s.size
    BY <2>0
  <2>2. \A v \in V : t.store[v].id = a.store[v].id /\ t.store[v].par = a.store[v].par /\ t.store[v].on = a.store[v].on
    BY <1>9, <1>12, <2>1 DEF SameTree
  <2>3. t.size = a.size /\ t.used = a.used /\ t.init = a.init
    BY <1>12 DEF SameTree
  <2> QED BY <1>9, <2>2, <2>3 DEF SameData
<1>17. Leaf(id, p).id = id /\ Leaf(id, p).par = p /\ Leaf(id, p).on = TRUE
  BY LeafIs
<1>18. Held(t, Headed(l, n, x), n + 1, V)
  BY <1>13, <1>14, <1>15 DEF Held
<1>19. Item(t, x) = Session(id, p)
  <2>1. t.store[x].id = id /\ t.store[x].par = p /\ t.store[x].on = TRUE
    BY <1>9, <1>16, <1>17
  <2> QED BY <2>1 DEF Item, Session
<1> QED BY <1>5, <1>16, <1>18, <1>19

LEMMA HeldEvicted ==
    ASSUME NEW s, NEW l, NEW n, NEW U, Held(s, l, n, U), n # 0
    PROVE  /\ Held(Evicted(s), Shortened(l, n), n - 1, U \ {s.tail})
           /\ SameData(s, Evicted(s), U) /\ s.tail \in U
<1> DEFINE x == s.tail
           a == Cut(s)
           t == remove_node(a, x)
           V == U \ {x}
           m == Shortened(l, n)
<1>1. PICK T : Tree(s, T, U)
  BY DEF Held
<1>2. /\ s.size \in Nat /\ Shape(s) /\ U \subseteq 1..s.size /\ s.store[Null] = Blank /\ Chain(s, l, n, U)
      /\ n > 0
  BY DEF Held, Shape, Chain
<1>3. Evicted(s) = t
  BY EvictedIs
<1>4. x \in U /\ s.store[x].prev \in 0..s.size
  BY <1>2, ChainEnds
<1>5. SameTree(s, a) /\ Cuts(s, a, s.store[s.tail].prev)
  BY <1>2, <1>4, CutIs
<1> HIDE DEF a
<1>6. Chain(a, m, n - 1, V)
  <2> DEFINE p == s.store[s.tail].prev
  <2>1. p = s.store[s.tail].prev /\ Cuts(s, a, p)
    BY <1>5
  <2>2. s.size \in Nat /\ U \subseteq 1..s.size /\ Chain(s, l, n, U)
    BY <1>2
  <2> HIDE DEF p
  <2> QED BY <2>1, <2>2, ChainCut
<1>7. Tree(a, T, U) /\ Shape(a)
  BY <1>1, <1>2, <1>5, TreeSame DEF SameTree
<1>8. SameList(a, t) /\ \E R : Tree(t, R, V)
  BY <1>4, <1>7, RemoveIs
<1> HIDE DEF t, m
<1>9. a.size = s.size /\ V \subseteq 0..s.size /\ U \subseteq 0..s.size
  <2>1. a.size = s.size
    BY <1>5 DEF SameTree
  <2>2. U \subseteq 0..s.size
    BY <1>2
  <2> QED BY <2>1, <2>2
<1>10. Chain(t, m, n - 1, V)
  <2>1. t.head = a.head /\ t.tail = a.tail
        /\ \A v \in V : t.store[v].prev = a.store[v].prev /\ t.store[v].next = a.store[v].next
    BY <1>8, <1>9 DEF SameList
  <2> QED BY <1>6, <2>1, ChainKept
<1>11. Shape(t) /\ t.store[Null] = Blank /\ t.size = s.size
  BY <1>2, <1>5, <1>8 DEF SameList, SameTree
<1>12. SameData(s, t, U)
  <2>1. SameData(s, a, U)
    BY <1>5, <1>9 DEF SameTree, SameData
  <2>2. SameData(a, t, U)
    BY <1>8, <1>9 DEF SameList, SameData
  <2> QED BY <2>1, <2>2, SameDataThen
<1>13. Held(t, m, n - 1, V)
  BY <1>2, <1>8, <1>10, <1>11 DEF Held
<1> QED BY <1>3, <1>4, <1>12, <1>13 DEF m

(* The order after entry k moved to the head. *)
Fronted(l, n, k) == [i \in 1..n |-> IF i = 1 THEN l[k] ELSE IF i <= k THEN l[i - 1] ELSE l[i]]

LEMMA HeldMoved ==
    ASSUME NEW s, NEW l, NEW n, NEW U, Held(s, l, n, U), NEW k \in 2..n
    PROVE  LET t == Pushed(Unlinked(s, l[k]), l[k])
           IN  Held(t, Fronted(l, n, k), n, U) /\ SameData(s, t, U)
<1> DEFINE x == l[k]
           p == s.store[x].prev
           nx == s.store[x].next
           a == Unlinked(s, x)
           t == Pushed(a, x)
           V == U \ {x}
           m == Skipped(l, n, k)
           m1 == Headed(m, n - 1, x)
<1>1. PICK T : Tree(s, T, U)
  BY DEF Held
<1>2. /\ s.size \in Nat /\ Shape(s) /\ U \subseteq 1..s.size /\ s.store[Null] = Blank /\ Chain(s, l, n, U)
      /\ n \in Nat /\ k \in 1..n /\ 1 \in 1..n /\ k # 1 /\ k \in Nat
  BY DEF Held, Shape, Chain
<1>3. x \in U /\ x # s.head
  <2>1. l[k] \in U /\ \A i, j \in 1..n : l[i] = l[j] => i = j
    BY <1>2 DEF Chain
  <2>2. s.head = l[1]
    <3>1. n # 0
      BY <1>2
    <3> QED BY <1>2, <3>1 DEF Chain
  <2>3. l[k] # l[1]
    BY <1>2, <2>1
  <2> QED BY <2>1, <2>2, <2>3
<1>4. p \in U /\ nx \in 0..s.size
  BY <1>2, <1>3, ChainEnds
<1>5. SameTree(s, a) /\ Unlinks(s, a, p, nx)
  <2>1. x \in 0..s.size /\ p \in 1..s.size
    <3>1. x \in U /\ p \in U /\ U \subseteq 1..s.size /\ s.size \in Nat
      BY <1>2, <1>3, <1>4
    <3> HIDE DEF x, p
    <3> QED BY <3>1
  <2> HIDE DEF x
  <2> QED BY <1>2, <1>4, <2>1, UnlinkedIs
<1> HIDE DEF a
<1>6. Chain(a, m, n - 1, V)
  <2>1. p = s.store[l[k]].prev /\ nx = s.store[l[k]].next
    OBVIOUS
  <2>2. s.size \in Nat /\ U \subseteq 1..s.size /\ Chain(s, l, n, U)
    BY <1>2
  <2> HIDE DEF p, nx
  <2> QED BY <1>5, <2>1, <2>2, ChainUnlinked
<1>7. Shape(a) /\ a.size = s.size /\ Tree(a, T, U)
  BY <1>1, <1>2, <1>5, TreeSame DEF SameTree
<1> HIDE DEF x, m
<1>8. x \in 1..a.size /\ V \subseteq 1..a.size /\ x \notin V /\ a.size \in Nat
  BY <1>2, <1>3, <1>7
<1>9. a.head \in 0..a.size
  BY <1>6, <1>8, ChainEnds
<1>10. SameTree(a, t) /\ Pushes(a, t, x)
  BY <1>7, <1>8, <1>9, PushedIs
<1> HIDE DEF t
<1>11. Chain(t, m1, n - 1 + 1, V \cup {x})
  BY <1>6, <1>8, <1>10, ChainPushed
<1>12. n - 1 + 1 = n /\ V \cup {x} = U
  BY <1>2, <1>3
<1>13. m1 = Fronted(l, n, k)
  <2>1. \A i \in 1..n : m1[i] = IF i = 1 THEN x ELSE IF i <= k THEN l[i - 1] ELSE l[i]
    <3> SUFFICES ASSUME NEW i \in 1..n
                 PROVE  i # 1 => m[i - 1] = IF i <= k THEN l[i - 1] ELSE l[i]
      BY <1>12 DEF m1, Headed
    <3> SUFFICES ASSUME i # 1 PROVE m[i - 1] = IF i <= k THEN l[i - 1] ELSE l[i]
      OBVIOUS
    <3>1. i - 1 \in 1..(n - 1) /\ i - 1 + 1 = i /\ (i - 1 < k <=> i <= k)
      BY <1>2
    <3> QED BY <3>1 DEF m, Skipped
  <2> QED BY <1>12, <2>1 DEF Fronted, Headed, x, m1
<1> HIDE DEF m1
<1>14. Tree(t, T, U) /\ Shape(t) /\ t.size = s.size /\ t.store[Null] = Blank
  BY <1>2, <1>5, <1>7, <1>8, <1>10, TreeSame DEF SameTree
<1>15. Held(t, Fronted(l, n, k), n, U)
  BY <1>2, <1>11, <1>12, <1>13, <1>14 DEF Held
<1>16. SameData(s, t, U)
  <2>0. U \subseteq 0..s.size
    BY <1>2
  <2>1. SameData(s, a, U)
    BY <1>5, <2>0 DEF SameTree, SameData
  <2>2. SameData(a, t, U)
    BY <1>7, <1>10, <2>0 DEF SameTree, SameData
  <2> QED BY <2>1, <2>2, SameDataThen
<1> QED BY <1>15, <1>16 DEF t, a, x

---------------------------------------------------------------------------
(* The operations on the whole cache. *)

(* List() reads the order from the links. *)
LEMMA ListIs ==
    ASSUME NEW s, NEW l, NEW U, Chain(s, l, s.used, U)
    PROVE  List(s) = l
<1> DEFINE n == s.used
           at == CHOOSE at : at = [i \in 1..n |-> IF i = 1 THEN s.head ELSE s.store[at[i - 1]].next]
<1>1. n \in Nat /\ l \in [1..n -> U]
  BY DEF Chain
<1>2. List(s) = at
  BY DEF List
<1>3. \A i \in 1..n : l[i] = IF i = 1 THEN s.head ELSE s.store[l[i - 1]].next
  <2> SUFFICES ASSUME NEW i \in 1..n
               PROVE  l[i] = IF i = 1 THEN s.head ELSE s.store[l[i - 1]].next
    OBVIOUS
  <2>1. n # 0
    BY <1>1
  <2>2. CASE i = 1
    BY <2>1, <2>2 DEF Chain
  <2>3. CASE i # 1
    <3>1. i - 1 \in 1..n /\ i - 1 # n /\ i - 1 + 1 = i
      BY <1>1, <2>3
    <3> QED BY <2>3, <3>1 DEF Chain
  <2> QED BY <2>2, <2>3
<1>4. l = [i \in 1..n |-> IF i = 1 THEN s.head ELSE s.store[l[i - 1]].next]
  BY <1>1, <1>3
<1>5. at = [i \in 1..n |-> IF i = 1 THEN s.head ELSE s.store[at[i - 1]].next]
  BY <1>4
<1> HIDE DEF at
<1>6. \A i \in 1..n : at[i] = IF i = 1 THEN s.head ELSE s.store[at[i - 1]].next
  BY <1>5
<1> DEFINE Bad == {i \in 1..n : at[i] # l[i]}
<1>7. Bad = {}
  <2>0. Bad # {} => \E i \in Bad : \A j \in Bad : i <= j
    <3>1. Bad \subseteq Nat
      OBVIOUS
    <3> HIDE DEF Bad
    <3> QED BY <3>1, FirstOf
  <2> SUFFICES ASSUME NEW i \in Bad, \A j \in Bad : i <= j PROVE FALSE
    BY <2>0
  <2>1. i # 1
    BY <1>3, <1>6
  <2>2. i - 1 \in 1..n /\ i - 1 \notin Bad
    BY <1>1, <2>1
  <2>3. at[i - 1] = l[i - 1]
    BY <2>2
  <2> QED BY <1>3, <1>6, <2>1, <2>3
<1>8. at = l
  <2>1. \A i \in 1..n : at[i] = l[i]
    BY <1>7
  <2>2. at = [i \in 1..n |-> at[i]] /\ l = [i \in 1..n |-> l[i]]
    BY <1>1, <1>5
  <2> QED BY <2>1, <2>2
<1> QED BY <1>2, <1>8

(* The list of the cache is l, the tree has the same entries. *)
Orders(s, l) ==
  /\ s.size \in Sizes /\ s.used \in 0..s.size /\ s.init \in BOOLEAN
  /\ ~s.init => s.used = 0
  /\ Held(s, l, s.used, 1..s.used)

LEMMA SameItems ==
    ASSUME NEW s, NEW t, NEW U, SameData(s, t, U), NEW x \in U
    PROVE  Item(t, x) = Item(s, x) /\ t.store[x].id = s.store[x].id
  BY DEF SameData, Item

LEMMA OrdersIs ==
    ASSUME NEW s, NEW l, Orders(s, l)
    PROVE  /\ s.size \in Nat /\ s.used \in Nat /\ s.used <= s.size /\ Shape(s)
           /\ Chain(s, l, s.used, 1..s.used) /\ Held(s, l, s.used, 1..s.used)
           /\ List(s) = l /\ \A i \in 1..s.used : l[i] \in 1..s.used /\ s.store[l[i]] \in Entry
<1>1. s.size \in Nat
  BY SessionCacheAssumption DEF Orders
<1>2. Held(s, l, s.used, 1..s.used) /\ s.used \in 0..s.size
  BY DEF Orders
<1>3. Shape(s) /\ Chain(s, l, s.used, 1..s.used)
  BY <1>2 DEF Held
<1>4. List(s) = l
  BY <1>3, ListIs
<1>5. \A i \in 1..s.used : l[i] \in 1..s.used
  BY <1>3 DEF Chain
<1>6. \A v \in 1..s.used : s.store[v] \in Entry
  BY <1>1, <1>2, <1>3 DEF Shape
<1> QED BY <1>1, <1>2, <1>3, <1>4, <1>5, <1>6

(* Fields that neither the list nor the tree is made of. *)
LEMMA HeldFields ==
    ASSUME NEW s, NEW l, NEW n, NEW U, Held(s, l, n, U), NEW t, Shape(t), t.size = s.size,
           t.root = s.root, t.head = s.head, t.tail = s.tail, t.store = s.store
    PROVE  Held(t, l, n, U)
<1>1. PICK T : Tree(s, T, U)
  BY DEF Held
<1>2. \A x \in U, sd \in Sides : Leads(t, T, U, x, sd) <=> Leads(s, T, U, x, sd)
  BY DEF Leads, Before
<1>3. Keyed(t, U) <=> Keyed(s, U)
  BY DEF Keyed
<1>4. Tree(t, T, U)
  BY <1>1, <1>2, <1>3 DEF Tree
<1>5. Chain(t, l, n, U)
  BY ChainKept DEF Held
<1> QED BY <1>4, <1>5 DEF Held

Saves(s, l, t, m, id, p) ==
  /\ Orders(t, m) /\ t.size = s.size
  /\ IF s.size = 0 \/ \E v \in 1..s.used : s.store[v].id = id
     THEN t.used = s.used /\ m = l /\ \A v \in 1..s.used : Item(t, v) = Item(s, v)
     ELSE /\ t.used = IF s.used = s.size THEN s.used ELSE s.used + 1
          /\ Item(t, m[1]) = Session(id, p)
          /\ \A i \in 2..t.used : Item(t, m[i]) = Item(s, l[i - 1])

(* The new session is the first of the list. *)
Inserts(s, l, n, t, m, id, p) ==
  /\ Orders(t, m) /\ t.size = s.size /\ t.used = n + 1
  /\ Item(t, m[1]) = Session(id, p)
  /\ \A i \in 2..(n + 1) : Item(t, m[i]) = Item(s, l[i - 1])

LEMMA InsertedIs ==
    ASSUME NEW s, NEW l, NEW n, NEW U, Held(s, l, n, U), NEW x \in 1..s.size, x \notin U,
           NEW id \in Ids, NEW p \in Params, Fresh(s, U, id), U \cup {x} = 1..(n + 1),
           s.used = n + 1, s.init = TRUE, s.size \in Sizes
    PROVE  Inserts(s, l, n, Inserted(s, x, id, p), Headed(l, n, x), id, p)
<1> DEFINE t == Inserted(s, x, id, p)
           m == Headed(l, n, x)
<1>1. /\ Held(t, m, n + 1, U \cup {x}) /\ SameData(s, t, U)
      /\ Item(t, x) = Session(id, p)
  BY HeldInserted
<1> HIDE DEF t
<1>2. n \in Nat /\ l \in [1..n -> U] /\ s.size \in Nat
  BY DEF Held, Chain, Shape
<1>3. m[1] = x /\ \A i \in 2..(n + 1) : m[i] = l[i - 1] /\ l[i - 1] \in U
  BY <1>2 DEF Headed
<1> HIDE DEF m
<1>4. t.size = s.size /\ t.used = n + 1 /\ t.init = s.init
  BY <1>1 DEF SameData
<1>5. n + 1 \in 0..s.size
  <2>1. n + 1 \in 1..(n + 1)
    BY <1>2
  <2>2. n + 1 \in U \cup {x} /\ U \subseteq 1..s.size
    BY <2>1 DEF Held
  <2> QED BY <1>2, <2>2
<1>6. Orders(t, m)
  BY <1>1, <1>4, <1>5 DEF Orders
<1>7. Item(t, m[1]) = Session(id, p)
  BY <1>1, <1>3
<1>8. ASSUME NEW i \in 2..(n + 1) PROVE Item(t, m[i]) = Item(s, l[i - 1])
  BY <1>1, <1>3, SameItems
<1>9. Inserts(s, l, n, t, m, id, p)
  BY <1>4, <1>6, <1>7, <1>8 DEF Inserts
<1> QED BY <1>9 DEF t, m

(* The key of the mask is drawn. *)
LEMMA Started ==
    ASSUME NEW s, Shape(s), NEW b
    PROVE  LET t == [s EXCEPT !.init = b]
           IN  /\ t.size = s.size /\ t.used = s.used /\ t.head = s.head /\ t.tail = s.tail
               /\ t.root = s.root /\ t.store = s.store /\ t.init = b
               /\ Shape(t)
<1> DEFINE t == [s EXCEPT !.init = b]
<1>1. /\ t.size = s.size /\ t.used = s.used /\ t.head = s.head /\ t.tail = s.tail
      /\ t.root = s.root /\ t.store = s.store /\ t.init = b
      /\ t = [size |-> t.size, used |-> t.used, init |-> t.init, head |-> t.head, tail |-> t.tail,
              root |-> t.root, store |-> t.store]
  BY DEF Shape
<1> HIDE DEF t
<1>2. Shape(t)
  BY <1>1 DEF Shape
<1> QED BY <1>1, <1>2 DEF t

LEMMA SaveIs ==
    ASSUME NEW l, Orders(c, l), NEW id \in Ids, NEW p \in Params, lru_save(id, p)
    PROVE  got' = Nothing /\ \E m : Saves(c, l, c', m, id, p)
<1> DEFINE s == [c EXCEPT !.init = TRUE]
           n == c.used
           U == 1..n
           Known == \E v \in U : c.store[v].id = id
<1>0. id \in Nat
  BY SessionCacheAssumption
<1>1. /\ c.size \in Nat /\ n \in Nat /\ n <= c.size /\ Shape(c) /\ Held(c, l, n, U)
      /\ \A i \in 1..n : l[i] \in U
  BY OrdersIs
<1>2. /\ s.size = c.size /\ s.used = n /\ s.head = c.head /\ s.tail = c.tail /\ s.root = c.root
      /\ s.store = c.store
  BY <1>1, Started
<1>20. s.init = TRUE /\ Shape(s)
  BY <1>1, Started
<1>3. /\ got' = Nothing
      /\ c' = IF c.size = 0 THEN c
              ELSE IF find_node(s, id).x # Null THEN s
              ELSE IF s.used = s.size THEN Inserted(Evicted(s), s.tail, id, p)
              ELSE Inserted([s EXCEPT !.used = s.used + 1], s.used + 1, id, p)
  BY DEF lru_save
<1> HIDE DEF s
<1>4. /\ Shape(s)
      /\ s = [size |-> s.size, used |-> s.used, init |-> s.init, head |-> s.head, tail |-> s.tail,
              root |-> s.root, store |-> s.store]
  BY <1>20 DEF Shape
<1>5. Held(s, l, n, U)
  BY <1>1, <1>2, <1>4, HeldFields
<1>6. /\ find_node(s, id).x = Null => Fresh(s, U, id)
      /\ find_node(s, id).x # Null => Known
  <2> DEFINE x == find_node(s, id).x
  <2>1. Finds(s, U, id, x)
    BY <1>0, <1>5, FoundIs
  <2> HIDE DEF x
  <2>2. x = Null => Fresh(s, U, id)
    BY <2>1 DEF Finds
  <2>3. x # Null => Known
    BY <1>2, <2>1 DEF Finds
  <2> QED BY <2>2, <2>3 DEF x
<1>7. c.size \in Sizes
  BY DEF Orders
<1>8. CASE c.size = 0
  <2>1. c' = c
    BY <1>3, <1>8
  <2>2. Saves(c, l, c', l, id, p)
    BY <1>8, <2>1 DEF Saves
  <2> QED BY <1>3, <2>2
<1>9. CASE c.size # 0 /\ find_node(s, id).x # Null
  <2>1. c' = s
    BY <1>3, <1>9
  <2>2. Orders(s, l)
    BY <1>1, <1>2, <1>5, <1>7, <1>20 DEF Orders
  <2>3. \A v \in U : Item(s, v) = Item(c, v)
    BY <1>2 DEF Item
  <2>4. Saves(c, l, s, l, id, p)
    BY <1>2, <1>6, <1>9, <2>2, <2>3 DEF Saves
  <2> QED BY <1>3, <2>1, <2>4
<1>10. CASE c.size # 0 /\ find_node(s, id).x = Null /\ s.used = s.size
  <2> DEFINE e == Evicted(s)
             x == s.tail
  <2>1. c' = Inserted(e, x, id, p)
    BY <1>3, <1>10
  <2>2. n # 0 /\ n = c.size
    BY <1>2, <1>10
  <2>3. Held(e, Shortened(l, n), n - 1, U \ {x}) /\ SameData(s, e, U) /\ x \in U
    BY <1>5, <2>2, HeldEvicted
  <2> HIDE DEF e, x
  <2>4. e.size = c.size /\ e.used = n /\ e.init = TRUE /\ \A v \in U : e.store[v].id = s.store[v].id
    BY <1>2, <1>20, <2>3 DEF SameData
  <2>5. /\ x \in 1..e.size /\ x \notin U \ {x} /\ n - 1 + 1 = n /\ (U \ {x}) \cup {x} = 1..(n - 1 + 1)
    BY <1>1, <1>10, <2>2, <2>3, <2>4
  <2>11. Fresh(e, U \ {x}, id)
    BY <1>6, <1>10, <2>4 DEF Fresh
  <2> DEFINE t == Inserted(e, x, id, p)
             m == Headed(Shortened(l, n), n - 1, x)
  <2>12. Inserts(e, Shortened(l, n), n - 1, t, m, id, p)
    BY <1>7, <2>3, <2>4, <2>5, <2>11, InsertedIs
  <2>6. /\ Orders(t, m) /\ t.size = e.size /\ t.used = n - 1 + 1
        /\ Item(t, m[1]) = Session(id, p)
        /\ \A i \in 2..(n - 1 + 1) : Item(t, m[i]) = Item(e, Shortened(l, n)[i - 1])
    BY <2>12 DEF Inserts
  <2> HIDE DEF t, m
  <2>7. ASSUME NEW i \in 2..n PROVE Item(t, m[i]) = Item(c, l[i - 1])
    <3>1. i - 1 \in 1..(n - 1) /\ i - 1 \in 1..n
      BY <1>1
    <3>2. Shortened(l, n)[i - 1] = l[i - 1] /\ l[i - 1] \in U
      BY <1>1, <3>1 DEF Shortened
    <3>3. Item(e, l[i - 1]) = Item(s, l[i - 1])
      <4> DEFINE v == l[i - 1]
      <4>1. v \in U /\ SameData(s, e, U)
        BY <2>3, <3>2
      <4> HIDE DEF v, U
      <4>2. Item(e, v) = Item(s, v)
        BY <4>1, SameItems
      <4> QED BY <4>2 DEF v
    <3>4. Item(s, l[i - 1]) = Item(c, l[i - 1])
      BY <1>2 DEF Item
    <3> QED BY <2>5, <2>6, <3>2, <3>3, <3>4
  <2>8. ~Known
    BY <1>2, <1>6, <1>10 DEF Fresh
  <2>9. t.size = c.size /\ t.used = n
    BY <2>4, <2>5, <2>6
  <2>10. Saves(c, l, t, m, id, p)
    BY <2>2, <2>6, <2>7, <2>8, <2>9 DEF Saves
  <2> QED BY <1>3, <2>1, <2>10 DEF t
<1>11. CASE c.size # 0 /\ find_node(s, id).x = Null /\ s.used # s.size
  <2> DEFINE g == [s EXCEPT !.used = s.used + 1]
             x == n + 1
  <2>1. c' = Inserted(g, x, id, p)
    BY <1>2, <1>3, <1>11
  <2>11. g.init = TRUE
    BY <1>2, <1>20
  <2>2. /\ g.size = c.size /\ g.used = x /\ g.head = s.head /\ g.tail = s.tail /\ g.root = s.root
        /\ g.store = s.store
        /\ g = [size |-> g.size, used |-> g.used, init |-> g.init, head |-> g.head, tail |-> g.tail,
                root |-> g.root, store |-> g.store]
    BY <1>2, <1>4
  <2> HIDE DEF g
  <2>3. Shape(g)
    BY <1>2, <1>4, <2>2 DEF Shape
  <2>4. Held(g, l, n, U)
    BY <1>2, <1>5, <2>2, <2>3, HeldFields
  <2>5. /\ x \in 1..g.size /\ x \notin U /\ U \cup {x} = 1..(n + 1)
    BY <1>1, <1>2, <1>11, <2>2
  <2>10. Fresh(g, U, id)
    BY <1>6, <1>11, <2>2 DEF Fresh
  <2> DEFINE t == Inserted(g, x, id, p)
             m == Headed(l, n, x)
  <2>12. Inserts(g, l, n, t, m, id, p)
    BY <1>7, <2>2, <2>4, <2>5, <2>10, <2>11, InsertedIs
  <2>6. /\ Orders(t, m) /\ t.size = g.size /\ t.used = n + 1
        /\ Item(t, m[1]) = Session(id, p)
        /\ \A i \in 2..(n + 1) : Item(t, m[i]) = Item(g, l[i - 1])
    BY <2>12 DEF Inserts
  <2> HIDE DEF t, m
  <2>7. ASSUME NEW i \in 2..(n + 1) PROVE Item(t, m[i]) = Item(c, l[i - 1])
    BY <1>2, <2>2, <2>6 DEF Item
  <2>8. ~Known /\ n # c.size
    BY <1>2, <1>6, <1>11 DEF Fresh
  <2>9. Saves(c, l, t, m, id, p)
    BY <1>11, <2>2, <2>6, <2>7, <2>8 DEF Saves
  <2> QED BY <1>3, <2>1, <2>9 DEF t
<1> QED BY <1>8, <1>9, <1>10, <1>11

(* The session given is that of entry k of the list, which becomes the     *)
(* head; there is none, and nothing changes.                               *)
Gives(s, l, id, k) == k \in 1..s.used /\ s.store[l[k]].id = id /\ s.store[l[k]].on

Loads(s, l, t, m, id, g) ==
  /\ Orders(t, m) /\ t.size = s.size /\ t.used = s.used
  /\ \A v \in 1..s.used : Item(t, v) = Item(s, v)
  /\ \/ \E k \in 1..s.used : Gives(s, l, id, k) /\ g = s.store[l[k]].par /\ m = Fronted(l, s.used, k)
     \/ g = Nothing /\ m = l /\ \A k \in 1..s.used : ~Gives(s, l, id, k)

LEMMA LoadIs ==
    ASSUME NEW l, Orders(c, l), NEW id \in Ids, lru_load(id)
    PROVE  \E m : Loads(c, l, c', m, id, got')
<1> DEFINE n == c.used
           U == 1..n
           x == find_node(c, id).x
           Found == c.init /\ x # Null /\ c.store[x].on
<1>0. id \in Nat
  BY SessionCacheAssumption
<1>1. /\ c.size \in Nat /\ n \in Nat /\ n <= c.size /\ Shape(c) /\ Held(c, l, n, U) /\ Chain(c, l, n, U)
      /\ \A i \in 1..n : l[i] \in U
  BY OrdersIs
<1>2. Finds(c, U, id, x)
  BY <1>0, <1>1, FoundIs
<1>3. /\ got' = IF Found THEN c.store[x].par ELSE Nothing
      /\ c' = IF Found /\ x # c.head THEN Pushed(Unlinked(c, x), x) ELSE c
  BY DEF lru_load
<1> HIDE DEF x
<1>4. CASE Found
  <2>1. x \in U /\ c.store[x].id = id
    BY <1>2, <1>4 DEF Finds
  <2>2. PICK k \in 1..n : l[k] = x
    BY <1>1, <2>1 DEF Chain
  <2>3. Gives(c, l, id, k)
    BY <1>4, <2>1, <2>2 DEF Gives
  <2>4. got' = c.store[l[k]].par
    BY <1>3, <1>4, <2>2
  <2>5. k = 1 <=> x = c.head
    <3>1. n # 0 /\ 1 \in 1..n
      BY <1>1, <2>2
    <3>2. c.head = l[1]
      BY <1>1, <3>1 DEF Chain
    <3>3. \A i, j \in 1..n : l[i] = l[j] => i = j
      BY <1>1 DEF Chain
    <3>4. x = c.head => k = 1
      <4> SUFFICES ASSUME l[k] = l[1] PROVE k = 1
        BY <2>2, <3>2
      <4> QED BY <3>1, <3>3
    <3>5. k = 1 => x = c.head
      BY <2>2, <3>2
    <3> QED BY <3>4, <3>5
  <2>6. CASE k = 1
    <3>1. c' = c
      BY <1>3, <2>5, <2>6
    <3>2. Fronted(l, n, 1) = l
      <4>1. l \in [1..n -> U] /\ n \in Nat
        BY <1>1 DEF Chain
      <4>2. l = [i \in 1..n |-> l[i]]
        BY <4>1
      <4>3. \A i \in 1..n : (IF i = 1 THEN l[1] ELSE IF i <= 1 THEN l[i - 1] ELSE l[i]) = l[i]
        BY <4>1
      <4>4. Fronted(l, n, 1) = [i \in 1..n |-> l[i]]
        BY <4>3 DEF Fronted
      <4> QED BY <4>2, <4>4
    <3>3. l = Fronted(l, n, k)
      BY <2>6, <3>2
    <3>4. Loads(c, l, c, l, id, got')
      BY <2>3, <2>4, <3>3 DEF Loads
    <3> QED BY <3>1, <3>4
  <2>7. CASE k # 1
    <3> DEFINE t == Pushed(Unlinked(c, l[k]), l[k])
               m == Fronted(l, n, k)
    <3>1. c' = t
      BY <1>3, <1>4, <2>2, <2>5, <2>7
    <3>2. k \in 2..n
      BY <1>1, <2>7
    <3>3. Held(t, m, n, U) /\ SameData(c, t, U)
      BY <1>1, <3>2, HeldMoved
    <3> HIDE DEF t, m
    <3>4. t.size = c.size /\ t.used = n /\ t.init = c.init
      BY <3>3 DEF SameData
    <3>5. Orders(t, m)
      BY <3>3, <3>4 DEF Orders
    <3>6. \A v \in U : Item(t, v) = Item(c, v)
      BY <3>3, SameItems
    <3>7. Loads(c, l, t, m, id, got')
      BY <2>3, <2>4, <3>4, <3>5, <3>6 DEF Loads, m
    <3> QED BY <3>1, <3>7
  <2> QED BY <2>6, <2>7
<1>5. CASE ~Found
  <2>1. c' = c /\ got' = Nothing
    BY <1>3, <1>5
  <2>2. \A k \in 1..n : ~Gives(c, l, id, k)
    <3> SUFFICES ASSUME NEW k \in 1..n, Gives(c, l, id, k) PROVE FALSE
      OBVIOUS
    <3>1. l[k] \in U /\ c.store[l[k]].id = id /\ c.store[l[k]].on
      BY <1>1 DEF Gives
    <3>2. x = l[k] /\ x # Null
      BY <1>1, <1>2, <3>1 DEF Finds, Null
    <3>3. c.init
      BY <1>1 DEF Orders
    <3> QED BY <1>5, <3>1, <3>2, <3>3
  <2>3. Loads(c, l, c, l, id, got')
    BY <2>1, <2>2 DEF Loads
  <2> QED BY <2>1, <2>3
<1> QED BY <1>4, <1>5

(* The entry stays in its place. *)
Drops(s, l, t, id) ==
  /\ Orders(t, l) /\ t.size = s.size /\ t.used = s.used
  /\ \A v \in 1..s.used :
       /\ t.store[v].id = s.store[v].id /\ t.store[v].par = s.store[v].par
       /\ s.store[v].id # id => t.store[v].on = s.store[v].on
       /\ s.store[v].id = id => t.store[v].on = FALSE

(* The session is dropped in the entry only. *)
SetOn(s, x, b) == [s EXCEPT !.store[x].on = b]

OnIs(s, t, x, b) ==
  /\ Shape(t) /\ t.size = s.size /\ t.used = s.used /\ t.init = s.init
  /\ t.head = s.head /\ t.tail = s.tail /\ t.root = s.root
  /\ t.store[x].on = b
  /\ \A v \in 0..s.size :
       /\ t.store[v].id = s.store[v].id /\ t.store[v].par = s.store[v].par
       /\ t.store[v].prev = s.store[v].prev /\ t.store[v].next = s.store[v].next
       /\ t.store[v].left = s.store[v].left /\ t.store[v].right = s.store[v].right
       /\ v # x => t.store[v] = s.store[v]

LEMMA OnSet ==
    ASSUME NEW s, Shape(s), NEW x \in 0..s.size, NEW b \in BOOLEAN
    PROVE  OnIs(s, SetOn(s, x, b), x, b)
<1> DEFINE t == SetOn(s, x, b)
           e == [s.store[x] EXCEPT !.on = b]
<1>1. s.store \in [0..s.size -> Entry] /\ s.size \in Nat /\ s.store[x] \in Entry
  BY DEF Shape
<1>2. e \in Entry /\ e.id = s.store[x].id /\ e.par = s.store[x].par /\ e.prev = s.store[x].prev
      /\ e.next = s.store[x].next /\ e.left = s.store[x].left /\ e.right = s.store[x].right
  BY <1>1 DEF Entry
<1>3. e.on = b
  BY <1>1 DEF Entry
<1>4. t.store = [s.store EXCEPT ![x] = e]
  BY DEF SetOn, Shape
<1>5. /\ t.size = s.size /\ t.used = s.used /\ t.head = s.head /\ t.tail = s.tail
      /\ t.root = s.root /\ t.init = s.init
      /\ t = [size |-> t.size, used |-> t.used, init |-> t.init, head |-> t.head, tail |-> t.tail,
              root |-> t.root, store |-> t.store]
  <2>1. s = [size |-> s.size, used |-> s.used, init |-> s.init, head |-> s.head, tail |-> s.tail,
             root |-> s.root, store |-> s.store]
    BY DEF Shape
  <2>2. t = [s EXCEPT !.store = [s.store EXCEPT ![x] = e]]
    BY DEF SetOn
  <2> HIDE DEF t, e
  <2> QED BY <2>1, <2>2
<1> HIDE DEF t, e
<1>6. t.store \in [0..s.size -> Entry]
  BY <1>1, <1>2, <1>4
<1>7. t.store[x] = e /\ \A v \in 0..s.size : v # x => t.store[v] = s.store[v]
  BY <1>1, <1>4
<1>8. Shape(t)
  BY <1>1, <1>5, <1>6 DEF Shape
<1>9. t.store[x].on = b
  BY <1>3, <1>7
<1>10. \A v \in 0..s.size :
          /\ t.store[v].id = s.store[v].id /\ t.store[v].par = s.store[v].par
          /\ t.store[v].prev = s.store[v].prev /\ t.store[v].next = s.store[v].next
          /\ t.store[v].left = s.store[v].left /\ t.store[v].right = s.store[v].right
  BY <1>2, <1>7
<1>11. OnIs(s, t, x, b)
  BY <1>5, <1>7, <1>8, <1>9, <1>10 DEF OnIs
<1> QED BY <1>11 DEF t

LEMMA HeldLinks ==
    ASSUME NEW s, NEW l, NEW n, NEW U, Held(s, l, n, U), NEW t, Shape(t), t.size = s.size,
           t.root = s.root, t.head = s.head, t.tail = s.tail, t.store[Null] = Blank,
           \A v \in 0..s.size : /\ t.store[v].id = s.store[v].id
                                /\ t.store[v].prev = s.store[v].prev /\ t.store[v].next = s.store[v].next
                                /\ t.store[v].left = s.store[v].left /\ t.store[v].right = s.store[v].right
    PROVE  Held(t, l, n, U)
<1>1. PICK T : Tree(s, T, U)
  BY DEF Held
<1>2. U \subseteq 0..s.size /\ s.size \in Nat
  BY DEF Held, Shape
<1>3. \A x \in U : /\ t.store[x].id = s.store[x].id
                   /\ \A sd \in Sides : t.store[x][sd] = s.store[x][sd]
  BY <1>2 DEF Sides
<1>4. \A x \in U, sd \in Sides : Leads(t, T, U, x, sd) <=> Leads(s, T, U, x, sd)
  BY <1>3 DEF Leads, Before
<1>5. Keyed(t, U) <=> Keyed(s, U)
  BY <1>3 DEF Keyed
<1>6. Tree(t, T, U)
  BY <1>1, <1>4, <1>5 DEF Tree
<1>7. Chain(t, l, n, U)
  <2>1. Chain(s, l, n, U)
    BY DEF Held
  <2>2. \A v \in U : t.store[v].prev = s.store[v].prev /\ t.store[v].next = s.store[v].next
    BY <1>2
  <2> QED BY <2>1, <2>2, ChainKept
<1> QED BY <1>6, <1>7 DEF Held

LEMMA ForgetIs ==
    ASSUME NEW l, Orders(c, l), NEW id \in Ids, forget(id)
    PROVE  got' = Nothing /\ Drops(c, l, c', id)
<1> DEFINE n == c.used
           U == 1..n
           x == find_node(c, id).x
           t == SetOn(c, x, FALSE)
<1>0. id \in Nat
  BY SessionCacheAssumption
<1>1. /\ c.size \in Nat /\ n \in Nat /\ n <= c.size /\ Shape(c) /\ Held(c, l, n, U)
  BY OrdersIs
<1>2. Finds(c, U, id, x)
  BY <1>0, <1>1, FoundIs
<1>3. got' = Nothing /\ c' = IF c.init /\ x # Null THEN t ELSE c
  BY DEF forget, SetOn
<1> HIDE DEF x
<1>4. CASE c.init /\ x # Null
  <2>1. x \in U /\ x \in 0..c.size /\ c.store[x].id = id /\ FALSE \in BOOLEAN
    BY <1>1, <1>2, <1>4 DEF Finds
  <2>2. /\ Shape(t) /\ t.size = c.size /\ t.used = c.used /\ t.init = c.init
        /\ t.head = c.head /\ t.tail = c.tail /\ t.root = c.root
        /\ t.store[x].on = FALSE
        /\ \A v \in 0..c.size :
             /\ t.store[v].id = c.store[v].id /\ t.store[v].par = c.store[v].par
             /\ t.store[v].prev = c.store[v].prev /\ t.store[v].next = c.store[v].next
             /\ t.store[v].left = c.store[v].left /\ t.store[v].right = c.store[v].right
             /\ v # x => t.store[v] = c.store[v]
    <3>1. OnIs(c, t, x, FALSE)
      BY <1>1, <2>1, OnSet
    <3> HIDE DEF t
    <3> QED BY <3>1 DEF OnIs
  <2> HIDE DEF t
  <2>3. t.store[Null] = Blank
    <3>1. Null \in 0..c.size /\ Null # x
      BY <1>1, <1>4 DEF Null
    <3> QED BY <1>1, <2>2, <3>1 DEF Held
  <2>4. Held(t, l, n, U)
    BY <1>1, <2>2, <2>3, HeldLinks
  <2>5. Orders(t, l)
    BY <2>2, <2>4 DEF Orders
  <2>6. ASSUME NEW v \in U
        PROVE  /\ t.store[v].id = c.store[v].id /\ t.store[v].par = c.store[v].par
               /\ c.store[v].id # id => t.store[v].on = c.store[v].on
               /\ c.store[v].id = id => t.store[v].on = FALSE
    <3>1. v \in 0..c.size
      BY <1>1
    <3>2. c.store[v].id = id => v = x
      BY <1>2 DEF Finds
    <3>3. c.store[v].id # id => v # x
      BY <2>1
    <3>4. c.store[v].id # id => t.store[v] = c.store[v]
      BY <2>2, <3>1, <3>3
    <3>5. c.store[v].id = id => t.store[v].on = FALSE
      BY <2>2, <3>2
    <3> QED BY <2>2, <3>1, <3>4, <3>5
  <2>7. Drops(c, l, t, id)
    BY <2>2, <2>5, <2>6 DEF Drops
  <2> QED BY <1>3, <1>4, <2>7
<1>5. CASE ~(c.init /\ x # Null)
  <2>1. c' = c
    BY <1>3, <1>5
  <2>2. Fresh(c, U, id)
    <3>1. CASE ~c.init
      <4>1. n = 0
        BY <3>1 DEF Orders
      <4>2. U = {}
        BY <4>1
      <4> QED BY <4>2 DEF Fresh
    <3>2. CASE x = Null
      BY <1>2, <3>2 DEF Finds
    <3> QED BY <1>5, <3>1, <3>2
  <2>3. Drops(c, l, c, id)
    BY <2>2 DEF Drops, Fresh
  <2> QED BY <1>3, <2>1, <2>3
<1> QED BY <1>4, <1>5

(* The cache before the first session. *)
Empty(size, b) ==
  [size |-> size, used |-> 0, init |-> b, head |-> Null, tail |-> Null,
   root |-> Null, store |-> [x \in 0..size |-> Blank]]

LEMMA BlankIs == Blank \in Entry
  BY DEF Blank, Null, Entry

LEMMA EmptyIs ==
    ASSUME NEW size \in Nat, NEW b, NEW s, s = Empty(size, b)
    PROVE  /\ Shape(s) /\ s.size = size /\ s.used = 0 /\ s.init = b
           /\ s.store[Null] = Blank /\ s.head = Null /\ s.tail = Null /\ s.root = Null
<1>1. /\ s.size = size /\ s.used = 0 /\ s.init = b /\ s.head = Null /\ s.tail = Null /\ s.root = Null
      /\ s.store = [x \in 0..size |-> Blank]
      /\ s = [size |-> s.size, used |-> s.used, init |-> s.init, head |-> s.head, tail |-> s.tail,
              root |-> s.root, store |-> s.store]
  BY DEF Empty
<1>2. s.store \in [0..s.size -> Entry] /\ s.store[Null] = Blank
  BY <1>1, BlankIs DEF Null
<1> QED BY <1>1, <1>2 DEF Shape

(* No entry, in no order. *)
NoOrder == [i \in 1..0 |-> Null]

LEMMA EmptyHeld ==
    ASSUME NEW s, Shape(s), s.head = Null, s.tail = Null, s.root = Null, s.store[Null] = Blank
    PROVE  Held(s, NoOrder, 0, {})
<1> DEFINE T == [x \in {} |-> {}]
<1>1. 1..0 = {} /\ 0 \in Nat
  OBVIOUS
<1>2. T \in [{} -> SUBSET {}]
  OBVIOUS
<1>3. Below(T, {})
  BY <1>2 DEF Below
<1>4. Tree(s, T, {})
  BY <1>3 DEF Tree, Keyed
<1>5. NoOrder \in [1..0 -> {}]
  BY <1>1 DEF NoOrder
<1>6. Chain(s, NoOrder, 0, {})
  BY <1>1, <1>5 DEF Chain
<1> QED BY <1>4, <1>6 DEF Held

LEMMA InitIs ==
    ASSUME Init
    PROVE  got = Nothing /\ Orders(c, NoOrder) /\ c.used = 0
<1>1. PICK size \in Sizes : c = Empty(size, FALSE)
  BY DEF Init, Empty
<1>2. got = Nothing
  BY DEF Init
<1>3. size \in Nat
  BY SessionCacheAssumption
<1>4. /\ Shape(c) /\ c.size = size /\ c.used = 0 /\ c.init = FALSE
      /\ c.store[Null] = Blank /\ c.head = Null /\ c.tail = Null /\ c.root = Null
  <2> DEFINE b == FALSE
  <2>1. c = Empty(size, b)
    BY <1>1
  <2> HIDE DEF b
  <2>2. /\ Shape(c) /\ c.size = size /\ c.used = 0 /\ c.init = b
        /\ c.store[Null] = Blank /\ c.head = Null /\ c.tail = Null /\ c.root = Null
    BY <1>3, <2>1, EmptyIs
  <2> QED BY <2>2 DEF b
<1>5. Held(c, NoOrder, 0, {})
  BY <1>4, EmptyHeld
<1>6. 1..c.used = {} /\ c.used \in 0..c.size
  BY <1>3, <1>4
<1>7. c.init \in BOOLEAN /\ c.size \in Sizes
  BY <1>4
<1>8. Held(c, NoOrder, c.used, 1..c.used)
  BY <1>4, <1>5, <1>6
<1> QED BY <1>2, <1>4, <1>6, <1>7, <1>8 DEF Orders

---------------------------------------------------------------------------
(* The invariant. *)

IInv ==
  /\ got \in Params \cup {Nothing}
  /\ \E l : Orders(c, l)

LEMMA InitInv == Init => IInv
  BY InitIs DEF IInv

LEMMA SavedIs ==
    ASSUME NEW id \in Ids, NEW p \in Saved[id]
    PROVE  p \in Params
  BY SessionCacheAssumption

LEMMA StepInv == IInv /\ [Next]_vars => IInv'
<1> SUFFICES ASSUME IInv, [Next]_vars PROVE IInv'
  OBVIOUS
<1>1. PICK l : Orders(c, l)
  BY DEF IInv
<1>2. \A i \in 1..c.used : c.store[l[i]] \in Entry
  BY <1>1, OrdersIs
<1>3. ASSUME NEW id \in Ids, lru_load(id) PROVE IInv'
  <2>1. PICK m : Loads(c, l, c', m, id, got')
    BY <1>1, <1>3, LoadIs
  <2>2. Orders(c', m)
    BY <2>1 DEF Loads
  <2>3. got' \in Params \cup {Nothing}
    <3>1. \A k \in 1..c.used : c.store[l[k]].par \in Params \cup {Nothing}
      BY <1>2 DEF Entry
    <3> QED BY <2>1, <3>1 DEF Loads
  <2> QED BY <2>2, <2>3 DEF IInv
<1>4. ASSUME NEW id \in Ids, NEW p \in Saved[id], lru_save(id, p) PROVE IInv'
  <2>1. p \in Params
    BY SavedIs
  <2>2. got' = Nothing /\ \E m : Saves(c, l, c', m, id, p)
    BY <1>1, <1>4, <2>1, SaveIs
  <2>3. \E m : Orders(c', m)
    BY <2>2 DEF Saves
  <2> QED BY <2>2, <2>3 DEF IInv
<1>5. ASSUME NEW id \in Forgets, forget(id) PROVE IInv'
  <2>1. id \in Ids
    BY SessionCacheAssumption
  <2>2. got' = Nothing /\ Drops(c, l, c', id)
    BY <1>1, <1>5, <2>1, ForgetIs
  <2>3. Orders(c', l)
    BY <2>2 DEF Drops
  <2> QED BY <2>2, <2>3 DEF IInv
<1>6. CASE UNCHANGED vars
  BY <1>6 DEF IInv, vars
<1> QED BY <1>3, <1>4, <1>5, <1>6 DEF Next

(* List and tree of lru_save(), lru_load() and forget() have the same      *)
(* entries, those in use, in every reachable state.                        *)
THEOREM CacheSound == Spec => []IInv
<1>1. Init => IInv
  BY InitInv
<1>2. IInv /\ [Next]_vars => IInv'
  BY StepInv
<1> QED BY <1>1, <1>2, PTL DEF Spec

LEMMA TypeHolds == IInv => TypeOK
<1> SUFFICES ASSUME IInv PROVE TypeOK
  OBVIOUS
<1>1. PICK l : Orders(c, l)
  BY DEF IInv
<1> DEFINE n == c.used
           U == 1..n
<1>2. /\ c.size \in Nat /\ n \in Nat /\ n <= c.size /\ Shape(c) /\ Chain(c, l, n, U) /\ Held(c, l, n, U)
      /\ \A i \in 1..n : l[i] \in U
  BY <1>1, OrdersIs
<1>3. c.head \in 0..n /\ c.tail \in 0..n
  <2>1. /\ c.head = IF n = 0 THEN Null ELSE l[1]
        /\ c.tail = IF n = 0 THEN Null ELSE l[n]
    BY <1>2 DEF Chain
  <2>2. CASE n = 0
    BY <1>2, <2>1, <2>2 DEF Null
  <2>3. CASE n # 0
    <3>1. 1 \in 1..n /\ n \in 1..n
      BY <1>2, <2>3
    <3> QED BY <1>2, <2>1, <2>3, <3>1
  <2> QED BY <2>2, <2>3
<1>4. c.root \in 0..n
  <2>1. c.root # Null => c.root \in U
    BY <1>2 DEF Held, Tree
  <2> QED BY <1>2, <2>1 DEF Null
<1>5. c.store \in [0..c.size -> Entry] /\ c.store[Null] = Blank
  BY <1>2 DEF Held, Shape
<1>6. c.size \in Sizes /\ c.used \in 0..c.size /\ c.init \in BOOLEAN
  BY <1>1 DEF Orders
<1>7. got \in Params \cup {Nothing}
  BY DEF IInv
<1> QED BY <1>3, <1>4, <1>5, <1>6, <1>7 DEF TypeOK

(* Entries of the cache link each other within the block; entry 0 is never *)
(* written.                                                                *)
THEOREM CacheTypeCorrect == Spec => []TypeOK
<1>1. IInv => TypeOK
  BY TypeHolds
<1> QED BY <1>1, CacheSound, PTL

LEMMA ListHolds == IInv => ListHasAll
<1> SUFFICES ASSUME IInv PROVE ListHasAll
  OBVIOUS
<1>1. PICK l : Orders(c, l)
  BY DEF IInv
<1>2. Chain(c, l, c.used, 1..c.used) /\ List(c) = l
  BY <1>1, OrdersIs
<1>3. {l[i] : i \in 1..c.used} = 1..c.used
  <2> DEFINE U == 1..c.used
  <2>1. \A i \in U : l[i] \in U
    BY <1>2 DEF Chain
  <2>2. \A v \in U : \E i \in U : l[i] = v
    BY <1>2 DEF Chain
  <2> HIDE DEF U
  <2>3. {l[i] : i \in U} = U
    BY <2>1, <2>2
  <2> QED BY <2>3 DEF U
<1>4. /\ \A i \in 1..c.used :
           /\ c.store[l[i]].prev = IF i = 1 THEN Null ELSE l[i - 1]
           /\ c.store[l[i]].next = IF i = c.used THEN Null ELSE l[i + 1]
      /\ c.head = IF c.used = 0 THEN Null ELSE l[1]
      /\ c.tail = IF c.used = 0 THEN Null ELSE l[c.used]
  BY <1>2 DEF Chain
<1> QED BY <1>2, <1>3, <1>4 DEF ListHasAll, Used

(* Whatever was saved, used, forgotten and evicted, the list has every     *)
(* entry in use, once, both ways: none is lost to eviction.                *)
THEOREM CacheListHasAll == Spec => []ListHasAll
<1>1. IInv => ListHasAll
  BY ListHolds
<1> QED BY <1>1, CacheSound, PTL

---------------------------------------------------------------------------
(* The links of the tree. *)

Having(s, U, sd) == {y \in U : s.store[y][sd] # Null}
Linking(s, U, sd) == {s.store[y][sd] : y \in Having(s, U, sd)}

LEMMA LinkingIs ==
    ASSUME NEW s, NEW T, NEW U, Tree(s, T, U), IsFiniteSet(U), NEW sd \in Sides
    PROVE  /\ IsFiniteSet(Linking(s, U, sd)) /\ Linking(s, U, sd) \subseteq U
           /\ Cardinality(Linking(s, U, sd)) = Cardinality(Having(s, U, sd))
<1> DEFINE H == Having(s, U, sd)
           K == Linking(s, U, sd)
           f == [y \in H |-> s.store[y][sd]]
<1>1. H \subseteq U /\ K \subseteq U
  <2>1. H \subseteq U
    BY DEF Having
  <2>2. \A y \in H : s.store[y][sd] \in U
    BY ChildIs DEF Having
  <2> QED BY <2>1, <2>2 DEF Linking
<1>2. IsFiniteSet(H)
  BY <1>1, FS_Subset
<1>3. f \in Bijection(H, K)
  <2>1. f \in [H -> K] /\ \A t \in K : \E y \in H : f[y] = t
    BY DEF Linking
  <2>2. ASSUME NEW p \in H, NEW q \in H, f[p] = f[q] PROVE p = q
    <3>1. p \in U /\ q \in U /\ s.store[p][sd] # Null /\ s.store[q][sd] = s.store[p][sd]
      BY <2>2 DEF Having
    <3> QED BY <3>1, OneParent
  <2> HIDE DEF H, K, f
  <2> QED BY <2>1, <2>2 DEF Bijection, Injection, Surjection, IsInjective
<1> HIDE DEF H, K, f
<1>4. IsFiniteSet(K) /\ Cardinality(K) = Cardinality(H)
  BY <1>2, <1>3, FS_Bijection DEF ExistsBijection
<1> QED BY <1>1, <1>4 DEF H, K

(* Every node but the root is the child of one node, on one side.          *)
LEMMA NodesAre ==
    ASSUME NEW s, s.size \in Nat, NEW T, NEW U, Tree(s, T, U)
    PROVE  /\ \A x \in U : x = s.root \/ x \in Linking(s, U, "left") \/ x \in Linking(s, U, "right")
           /\ \A x \in U : ~(x \in Linking(s, U, "left") /\ x \in Linking(s, U, "right"))
           /\ s.root \notin Linking(s, U, "left") /\ s.root \notin Linking(s, U, "right")
<1>0. "left" \in Sides /\ "right" \in Sides /\ "left" # "right" /\ Null \notin U
  BY DEF Sides, Tree, Null
<1>1. ASSUME NEW x \in U
      PROVE  x = s.root \/ x \in Linking(s, U, "left") \/ x \in Linking(s, U, "right")
  <2> DEFINE w == find_node(s, s.store[x].id)
  <2>1. w \in Places(U) /\ Linked(s, w) /\ w.x = x
    BY FindsIt
  <2> HIDE DEF w
  <2>2. CASE w.link = Root
    BY <2>1, <2>2 DEF Linked
  <2>3. CASE w.link # Root
    <3>1. w.link.node \in U /\ w.link.side \in Sides
      BY <2>1, <2>3 DEF Places
    <3>2. s.store[w.link.node][w.link.side] = x /\ x # Null
      BY <1>0, <2>1, <2>3 DEF Linked
    <3>3. x \in Linking(s, U, w.link.side)
      BY <3>1, <3>2 DEF Linking, Having
    <3> QED BY <3>1, <3>3 DEF Sides
  <2> QED BY <2>2, <2>3
<1>2. ASSUME NEW x \in U, x \in Linking(s, U, "left"), x \in Linking(s, U, "right") PROVE FALSE
  <2>1. PICK p \in U : s.store[p]["left"] # Null /\ s.store[p]["left"] = x
    BY <1>2 DEF Linking, Having
  <2>2. PICK q \in U : s.store[q]["right"] = x
    BY <1>2 DEF Linking, Having
  <2>3. s.store[q]["right"] = s.store[p]["left"]
    BY <2>1, <2>2
  <2> QED BY <1>0, <2>1, <2>3, OneParent
<1>3. ASSUME NEW sd \in Sides, s.root \in Linking(s, U, sd) PROVE FALSE
  <2>1. PICK p \in U : s.store[p][sd] = s.root
    BY <1>3 DEF Linking, Having
  <2> QED BY <2>1, RootAlone
<1> QED BY <1>0, <1>1, <1>2, <1>3

LEMMA TreeHolds == IInv => TreeFindsAll
<1> SUFFICES ASSUME IInv PROVE TreeFindsAll
  OBVIOUS
<1>1. PICK l : Orders(c, l)
  BY DEF IInv
<1> DEFINE n == c.used
           U == 1..n
           L == Linking(c, U, "left")
           R == Linking(c, U, "right")
<1>2. c.size \in Nat /\ n \in Nat /\ Held(c, l, n, U)
  BY <1>1, OrdersIs
<1>3. PICK T : Tree(c, T, U)
  BY <1>2 DEF Held
<1>4. \A x \in U : find_node(c, c.store[x].id).x = x
  BY <1>2, <1>3, FindsIt
<1>5. IsFiniteSet(U) /\ Cardinality(U) = n
  BY <1>2, FS_Interval
<1>6. "left" \in Sides /\ "right" \in Sides /\ Null \notin U
  BY DEF Sides, Null
<1>7. /\ IsFiniteSet(L) /\ L \subseteq U /\ Cardinality(L) = Cardinality(Having(c, U, "left"))
      /\ IsFiniteSet(R) /\ R \subseteq U /\ Cardinality(R) = Cardinality(Having(c, U, "right"))
  BY <1>3, <1>5, <1>6, LinkingIs
<1>8. /\ \A x \in U : x = c.root \/ x \in L \/ x \in R
      /\ \A x \in U : ~(x \in L /\ x \in R)
      /\ c.root \notin L /\ c.root \notin R
  BY <1>2, <1>3, NodesAre
<1>9. c.root # Null => c.root \in U
  BY <1>3 DEF Tree
<1>10. Children = U
  <2>1. Children = {x \in {c.root} : x # Null} \cup L \cup R
    BY DEF Children, Linking, Having, Used
  <2> HIDE DEF L, R, U
  <2> QED BY <1>6, <1>7, <1>8, <1>9, <2>1
<1>11. n > 0 => Links = n - 1
  <2>1. Links = Cardinality(L) + Cardinality(R)
    <3>1. Links = Cardinality(Having(c, U, "left")) + Cardinality(Having(c, U, "right"))
      BY DEF Links, Having, Used
    <3> QED BY <1>7, <3>1
  <2> SUFFICES ASSUME n > 0 PROVE Links = n - 1
    OBVIOUS
  <2>2. c.root \in U
    <3>1. 1 \in U
      BY <1>2
    <3> QED BY <1>3, <1>9, <3>1 DEF Tree
  <2> HIDE DEF L, R, U
  <2>3. L \cup R = U \ {c.root} /\ L \cap R = {}
    BY <1>7, <1>8
  <2>4. Cardinality(U \ {c.root}) = n - 1
    BY <1>5, <2>2, FS_RemoveElement
  <2>5. Cardinality(L \cup R) = Cardinality(L) + Cardinality(R) - Cardinality(L \cap R)
    BY <1>7, FS_Union
  <2>6. Cardinality(L \cap R) = 0
    BY <2>3, FS_EmptySet
  <2>7. Cardinality(L) \in Nat /\ Cardinality(R) \in Nat
    BY <1>7, FS_CardinalityType
  <2>8. Cardinality(L \cup R) = n - 1
    BY <2>3, <2>4
  <2>9. n - 1 = Cardinality(L) + Cardinality(R)
    BY <2>5, <2>6, <2>7, <2>8
  <2> QED BY <2>1, <2>9
<1> QED BY <1>4, <1>10, <1>11 DEF TreeFindsAll, Used

(* A search finds every entry in use; every entry but the root has one     *)
(* parent, and no link is left to an entry that was moved or removed.      *)
THEOREM CacheTreeFindsAll == Spec => []TreeFindsAll
<1>1. IInv => TreeFindsAll
  BY TreeHolds
<1> QED BY <1>1, CacheSound, PTL

---------------------------------------------------------------------------
(* The list as the abstract cache has it. *)

Items == [id : Ids \cup {0}, par : Params \cup {Nothing}, on : BOOLEAN]

Listed(s, l) == [i \in 1..s.used |-> Item(s, l[i])]

LEMMA FunctionSeq ==
    ASSUME NEW S, NEW n \in Nat, NEW f \in [1..n -> S]
    PROVE  f \in Seq(S) /\ Len(f) = n /\ DOMAIN f = 1..n
  OBVIOUS

LEMMA ItemIs ==
    ASSUME NEW s, NEW x, s.store[x] \in Entry
    PROVE  /\ Item(s, x) \in Items
           /\ Item(s, x).id = s.store[x].id /\ Item(s, x).par = s.store[x].par
<1>1. s.store[x].id \in Ids \cup {0} /\ s.store[x].par \in Params \cup {Nothing}
      /\ s.store[x].on \in BOOLEAN
  BY DEF Entry
<1> DEFINE a == s.store[x].id
           b == s.store[x].par
           d == s.store[x].on
<1>2. Item(s, x) = [id |-> a, par |-> b, on |-> d]
  BY DEF Item
<1> HIDE DEF a, b, d
<1>3. [id |-> a, par |-> b, on |-> d] \in Items /\ [id |-> a, par |-> b, on |-> d].id = a
      /\ [id |-> a, par |-> b, on |-> d].par = b
  BY <1>1 DEF Items, a, b, d
<1> QED BY <1>2, <1>3 DEF a, b, d

LEMMA ListedIs ==
    ASSUME NEW s, NEW l, Orders(s, l)
    PROVE  /\ Sessions(s) = Listed(s, l)
           /\ Listed(s, l) \in Seq(Items) /\ Len(Listed(s, l)) = s.used
           /\ DOMAIN Listed(s, l) = 1..s.used
           /\ \A i \in 1..s.used : Listed(s, l)[i] = Item(s, l[i])
<1>1. s.used \in Nat /\ List(s) = l /\ \A i \in 1..s.used : s.store[l[i]] \in Entry
  BY OrdersIs
<1>2. Sessions(s) = Listed(s, l)
  BY <1>1 DEF Sessions, Listed, Item
<1>3. \A i \in 1..s.used : Item(s, l[i]) \in Items
  BY <1>1, ItemIs
<1>4. Listed(s, l) \in [1..s.used -> Items]
  BY <1>3 DEF Listed
<1>5. \A i \in 1..s.used : Listed(s, l)[i] = Item(s, l[i])
  BY DEF Listed
<1> QED BY <1>1, <1>2, <1>4, <1>5, FunctionSeq

(* e before the sequence q. *)
LEMMA ConsIs ==
    ASSUME NEW S, NEW q \in Seq(S), NEW e \in S, NEW r \in Seq(S), Len(r) = Len(q) + 1, r[1] = e,
           \A i \in 2..(Len(q) + 1) : r[i] = q[i - 1]
    PROVE  r = << e >> \o q
<1>1. << e >> \in Seq(S) /\ Len(<< e >>) = 1 /\ << e >>[1] = e
  OBVIOUS
<1>2. /\ << e >> \o q \in Seq(S) /\ Len(<< e >> \o q) = 1 + Len(q)
      /\ \A i \in 1..(1 + Len(q)) : (<< e >> \o q)[i] = IF i <= 1 THEN << e >>[i] ELSE q[i - 1]
  BY <1>1, ConcatProperties
<1>3. Len(q) \in Nat
  OBVIOUS
<1>4. ASSUME NEW i \in 1..Len(r) PROVE r[i] = (<< e >> \o q)[i]
  <2>1. CASE i = 1
    BY <1>1, <1>2, <1>3, <2>1
  <2>2. CASE i # 1
    BY <1>2, <1>3, <2>2
  <2> QED BY <2>1, <2>2
<1> QED BY <1>2, <1>3, <1>4, SeqEqual

(* Without its last element. *)
LEMMA FrontIs ==
    ASSUME NEW S, NEW q \in Seq(S), Len(q) # 0
    PROVE  LET f == SubSeq(q, 1, Len(q) - 1)
           IN  f \in Seq(S) /\ Len(f) = Len(q) - 1 /\ \A i \in 1..(Len(q) - 1) : f[i] = q[i]
<1>1. Len(q) \in Nat /\ Len(q) > 0 /\ 1 \in Int /\ Len(q) - 1 \in Int
  OBVIOUS
<1>2. \A i \in 1..(Len(q) - 1) : q[i] \in S
  OBVIOUS
<1>3. /\ SubSeq(q, 1, Len(q) - 1) \in Seq(S)
      /\ Len(SubSeq(q, 1, Len(q) - 1)) = IF 1 <= Len(q) - 1 THEN Len(q) - 1 - 1 + 1 ELSE 0
      /\ \A i \in 1..(Len(q) - 1 - 1 + 1) : SubSeq(q, 1, Len(q) - 1)[i] = q[1 + i - 1]
  BY <1>1, <1>2, SubSeqProperties
<1> DEFINE f == SubSeq(q, 1, Len(q) - 1)
           k == Len(q) - 1
<1>4. /\ f \in Seq(S) /\ Len(f) = IF 1 <= k THEN k - 1 + 1 ELSE 0
      /\ \A i \in 1..(k - 1 + 1) : f[i] = q[1 + i - 1]
  BY <1>3
<1>5. k \in Nat
  BY <1>1
<1> HIDE DEF f, k
<1>6. Len(f) = k
  BY <1>4, <1>5
<1>7. \A i \in 1..k : f[i] = q[i]
  <2> SUFFICES ASSUME NEW i \in 1..k PROVE f[i] = q[i]
    OBVIOUS
  <2>1. i \in 1..(k - 1 + 1) /\ 1 + i - 1 = i
    BY <1>5
  <2>2. f[i] = q[1 + i - 1]
    BY <1>4, <2>1
  <2> QED BY <2>1, <2>2
<1> QED BY <1>4, <1>6, <1>7 DEF f, k

(* Element k before the others. *)
LEMMA FirstIs ==
    ASSUME NEW S, NEW q \in Seq(S), NEW k \in 1..Len(q), NEW r \in Seq(S), Len(r) = Len(q),
           \A i \in 1..Len(q) : r[i] = IF i = 1 THEN q[k] ELSE IF i <= k THEN q[i - 1] ELSE q[i]
    PROVE  r = << q[k] >> \o (SubSeq(q, 1, k - 1) \o SubSeq(q, k + 1, Len(q)))
<1> DEFINE a == SubSeq(q, 1, k - 1)
           b == SubSeq(q, k + 1, Len(q))
<1>1. Len(q) \in Nat /\ k \in Nat /\ 1 <= k /\ k <= Len(q) /\ q[k] \in S
  OBVIOUS
<1>2. a \in Seq(S) /\ Len(a) = k - 1 /\ \A i \in 1..(k - 1) : a[i] = q[i]
  <2>1. \A i \in 1..(k - 1) : q[i] \in S
    BY <1>1
  <2>2. /\ a \in Seq(S) /\ Len(a) = IF 1 <= k - 1 THEN k - 1 - 1 + 1 ELSE 0
        /\ \A i \in 1..(k - 1 - 1 + 1) : a[i] = q[1 + i - 1]
    BY <1>1, <2>1, SubSeqProperties
  <2> HIDE DEF a
  <2> QED BY <1>1, <2>2
<1>3. b \in Seq(S) /\ Len(b) = Len(q) - k /\ \A i \in 1..(Len(q) - k) : b[i] = q[k + i]
  <2>1. \A i \in (k + 1)..Len(q) : q[i] \in S
    BY <1>1
  <2>2. /\ b \in Seq(S) /\ Len(b) = IF k + 1 <= Len(q) THEN Len(q) - (k + 1) + 1 ELSE 0
        /\ \A i \in 1..(Len(q) - (k + 1) + 1) : b[i] = q[k + 1 + i - 1]
    BY <1>1, <2>1, SubSeqProperties
  <2> HIDE DEF b
  <2> QED BY <1>1, <2>2
<1> HIDE DEF a, b
<1>4. /\ a \o b \in Seq(S) /\ Len(a \o b) = Len(q) - 1
      /\ \A i \in 1..(Len(q) - 1) : (a \o b)[i] = IF i <= k - 1 THEN q[i] ELSE q[i + 1]
  <2>1. /\ a \o b \in Seq(S) /\ Len(a \o b) = Len(a) + Len(b)
        /\ \A i \in 1..(Len(a) + Len(b)) : (a \o b)[i] = IF i <= Len(a) THEN a[i] ELSE b[i - Len(a)]
    <3>1. a \in Seq(S) /\ b \in Seq(S)
      BY <1>2, <1>3
    <3> QED BY <3>1, ConcatProperties
  <2>2. Len(a) + Len(b) = Len(q) - 1
    <3> DEFINE u == Len(a)
               v == Len(b)
               n == Len(q)
    <3>1. u = k - 1 /\ v = n - k /\ n \in Nat /\ k \in Nat
      BY <1>1, <1>2, <1>3
    <3> HIDE DEF u, v, n
    <3>2. u + v = n - 1
      BY <3>1
    <3> QED BY <3>2 DEF u, v, n
  <2>3. ASSUME NEW i \in 1..(Len(q) - 1)
        PROVE  (a \o b)[i] = IF i <= k - 1 THEN q[i] ELSE q[i + 1]
    <3>1. CASE i <= k - 1
      <4>1. i \in 1..(k - 1)
        BY <1>1, <3>1
      <4> QED BY <1>2, <2>1, <2>2, <3>1, <4>1
    <3>2. CASE ~(i <= k - 1)
      <4>1. i - (k - 1) \in 1..(Len(q) - k) /\ k + (i - (k - 1)) = i + 1
        BY <1>1, <3>2
      <4>2. (a \o b)[i] = b[i - (k - 1)]
        <5>1. Len(a) = k - 1 /\ i \in 1..(Len(a) + Len(b))
          BY <1>2, <2>2
        <5>2. (a \o b)[i] = IF i <= Len(a) THEN a[i] ELSE b[i - Len(a)]
          BY <2>1, <5>1
        <5> QED BY <3>2, <5>1, <5>2
      <4>3. b[i - (k - 1)] = q[k + (i - (k - 1))]
        BY <1>3, <4>1
      <4> QED BY <3>2, <4>1, <4>2, <4>3
    <3> QED BY <3>1, <3>2
  <2> QED BY <2>1, <2>2, <2>3
<1> DEFINE d == a \o b
<1> HIDE DEF d
<1>5. d \in Seq(S) /\ Len(d) = Len(q) - 1
      /\ \A i \in 1..(Len(q) - 1) : d[i] = IF i <= k - 1 THEN q[i] ELSE q[i + 1]
  BY <1>4 DEF d
<1>6. Len(r) = Len(d) + 1 /\ r[1] = q[k]
  BY <1>1, <1>5
<1>7. \A i \in 2..(Len(d) + 1) : r[i] = d[i - 1]
  <2> SUFFICES ASSUME NEW i \in 2..(Len(d) + 1) PROVE r[i] = d[i - 1]
    OBVIOUS
  <2>1. i \in 1..Len(q) /\ i # 1 /\ i - 1 \in 1..(Len(q) - 1) /\ (i - 1 <= k - 1 <=> i <= k) /\ i - 1 + 1 = i
    BY <1>1, <1>5
  <2>2. r[i] = IF i <= k THEN q[i - 1] ELSE q[i]
    BY <2>1
  <2>3. d[i - 1] = IF i - 1 <= k - 1 THEN q[i - 1] ELSE q[i - 1 + 1]
    BY <1>5, <2>1
  <2> QED BY <2>1, <2>2, <2>3
<1>8. r = << q[k] >> \o d
  BY <1>1, <1>5, <1>6, <1>7, ConsIs
<1> QED BY <1>8 DEF a, b, d

(* An ID is in the list once. *)
LEMMA PlacedIs ==
    ASSUME NEW l, Orders(c, l), lru = Listed(c, l), NEW id
    PROVE  /\ Abstract!Has(id) <=> \E v \in 1..c.used : c.store[v].id = id
           /\ Abstract!Has(id) <=> \E k \in 1..c.used : c.store[l[k]].id = id
           /\ \A k \in 1..c.used : c.store[l[k]].id = id => Abstract!Place(id) = k
<1> DEFINE n == c.used
           U == 1..n
<1>1. /\ Chain(c, l, n, U) /\ Held(c, l, n, U) /\ n \in Nat
      /\ \A i \in 1..n : l[i] \in U /\ c.store[l[i]] \in Entry
  BY OrdersIs
<1>2. DOMAIN lru = 1..n /\ \A i \in 1..n : lru[i] = Item(c, l[i])
  BY ListedIs
<1>3. \A i \in 1..n : lru[i].id = c.store[l[i]].id
  BY <1>1, <1>2, ItemIs
<1>4. Abstract!Has(id) <=> \E k \in 1..n : c.store[l[k]].id = id
  BY <1>2, <1>3 DEF Abstract!Has
<1>5. (\E k \in 1..n : c.store[l[k]].id = id) <=> (\E v \in U : c.store[v].id = id)
  <2>1. \A v \in U : \E i \in 1..n : l[i] = v
    BY <1>1 DEF Chain
  <2> QED BY <1>1, <2>1
<1>6. ASSUME NEW k \in 1..n, c.store[l[k]].id = id PROVE Abstract!Place(id) = k
  <2>1. ASSUME NEW i \in DOMAIN lru, lru[i].id = id PROVE i = k
    <3>1. i \in 1..n /\ c.store[l[i]].id = c.store[l[k]].id
      BY <1>2, <1>3, <1>6, <2>1
    <3>2. l[i] = l[k]
      <4>1. PICK T : Tree(c, T, U)
        BY <1>1 DEF Held
      <4>2. l[i] \in U /\ l[k] \in U
        BY <1>1, <3>1
      <4> DEFINE u == l[i]
                 v == l[k]
      <4>3. u \in U /\ v \in U /\ c.store[u].id = c.store[v].id
        BY <3>1, <4>2
      <4> HIDE DEF u, v, U
      <4>4. u = v
        BY <4>1, <4>3, KeysDiffer
      <4> QED BY <4>4 DEF u, v
    <3> QED BY <1>1, <3>1, <3>2 DEF Chain
  <2>2. k \in DOMAIN lru /\ lru[k].id = id
    BY <1>2, <1>3, <1>6
  <2>3. \A i \in DOMAIN lru : lru[i].id = id <=> i = k
    BY <2>1, <2>2
  <2> QED BY <2>2, <2>3 DEF Abstract!Place
<1> QED BY <1>4, <1>5, <1>6

LEMMA SaveMaps ==
    ASSUME NEW l, Orders(c, l), NEW m, NEW id \in Ids, NEW p \in Params, Saves(c, l, c', m, id, p),
           lru = Listed(c, l), lru' = Listed(c', m), got' = Nothing
    PROVE  Abstract!Save(id, p)
<1> DEFINE n == c.used
           t == c'
           q == Listed(c, l)
           r == Listed(t, m)
           e == Session(id, p)
           Known == c.size = 0 \/ \E v \in 1..n : c.store[v].id = id
<1>1. /\ n \in Nat /\ n <= c.size /\ c.size \in Nat /\ Chain(c, l, n, 1..n)
      /\ \A i \in 1..n : l[i] \in 1..n
  BY OrdersIs
<1>2. Orders(t, m) /\ t.size = c.size
  BY DEF Saves
<1>3. q \in Seq(Items) /\ Len(q) = n /\ \A i \in 1..n : q[i] = Item(c, l[i])
  BY ListedIs
<1>4. r \in Seq(Items) /\ Len(r) = t.used /\ \A i \in 1..t.used : r[i] = Item(t, m[i])
  BY <1>2, ListedIs
<1>5. Abstract!Has(id) <=> \E v \in 1..n : c.store[v].id = id
  BY PlacedIs
<1>6. e \in Items /\ e = [id |-> id, par |-> p, on |-> TRUE]
  BY DEF Session, Items
<1>7. CASE Known
  <2>1. t.used = n /\ m = l /\ \A v \in 1..n : Item(t, v) = Item(c, v)
    BY <1>7 DEF Saves
  <2> HIDE DEF t
  <2>2. \A i \in 1..n : r[i] = q[i]
    BY <1>1, <1>3, <1>4, <2>1
  <2> HIDE DEF q, r
  <2>3. r = q
    BY <1>3, <1>4, <2>1, <2>2, SeqEqual
  <2>4. lru' = lru
    BY <2>3 DEF q, r, t
  <2> QED BY <1>2, <1>5, <1>7, <2>4 DEF Abstract!Save, t
<1>8. CASE ~Known
  <2> DEFINE k == IF n = c.size THEN SubSeq(q, 1, c.size - 1) ELSE q
  <2>1. /\ t.used = IF n = c.size THEN n ELSE n + 1
        /\ Item(t, m[1]) = e
        /\ \A i \in 2..t.used : Item(t, m[i]) = Item(c, l[i - 1])
    BY <1>8 DEF Saves
  <2> HIDE DEF t, q, r, e
  <2>2. k \in Seq(Items) /\ Len(k) = t.used - 1 /\ \A i \in 1..(t.used - 1) : k[i] = q[i]
    <3>1. CASE n = c.size
      <4>1. Len(q) # 0 /\ Len(q) = c.size
        BY <1>3, <1>8, <3>1
      <4>2. /\ SubSeq(q, 1, Len(q) - 1) \in Seq(Items) /\ Len(SubSeq(q, 1, Len(q) - 1)) = Len(q) - 1
            /\ \A i \in 1..(Len(q) - 1) : SubSeq(q, 1, Len(q) - 1)[i] = q[i]
        BY <1>3, <4>1, FrontIs
      <4>3. k = SubSeq(q, 1, Len(q) - 1) /\ t.used - 1 = Len(q) - 1
        BY <2>1, <3>1, <4>1
      <4> HIDE DEF k
      <4> QED BY <4>2, <4>3
    <3>2. CASE n # c.size
      <4>1. k = q /\ t.used - 1 = n
        BY <1>1, <2>1, <3>2
      <4> HIDE DEF k
      <4> QED BY <1>3, <4>1
    <3> QED BY <3>1, <3>2
  <2>3. t.used \in Nat /\ 1 <= t.used /\ t.used - 1 <= n
    BY <1>1, <1>8, <2>1
  <2> HIDE DEF k
  <2>4. Len(r) = Len(k) + 1 /\ r[1] = e
    BY <1>4, <2>1, <2>2, <2>3
  <2>5. \A i \in 2..(Len(k) + 1) : r[i] = k[i - 1]
    <3> SUFFICES ASSUME NEW i \in 2..(Len(k) + 1) PROVE r[i] = k[i - 1]
      OBVIOUS
    <3>1. i \in 2..t.used /\ i \in 1..t.used /\ i - 1 \in 1..(t.used - 1) /\ i - 1 \in 1..n
      BY <1>1, <2>2, <2>3
    <3>2. r[i] = Item(t, m[i]) /\ k[i - 1] = q[i - 1] /\ q[i - 1] = Item(c, l[i - 1])
      BY <1>3, <1>4, <2>2, <3>1
    <3> QED BY <2>1, <3>1, <3>2
  <2>6. r = << e >> \o k
    <3>1. k \in Seq(Items) /\ r \in Seq(Items)
      BY <1>4, <2>2
    <3> QED BY <1>6, <2>4, <2>5, <3>1, ConsIs
  <2>7. Abstract!Kept = k
    BY <1>3 DEF Abstract!Kept, k, q
  <2>8. ~(c.size = 0 \/ Abstract!Has(id))
    BY <1>5, <1>8
  <2>9. lru' = << [id |-> id, par |-> p, on |-> TRUE] >> \o Abstract!Kept
    BY <1>6, <2>6, <2>7 DEF r, t
  <2> QED BY <1>2, <2>8, <2>9 DEF Abstract!Save, t
<1> QED BY <1>7, <1>8

LEMMA ItemOn ==
    ASSUME NEW s, NEW x, s.store[x] \in Entry
    PROVE  Item(s, x).on <=> s.store[x].on
  BY DEF Item, Entry

LEMMA LoadMaps ==
    ASSUME NEW l, Orders(c, l), NEW m, NEW id \in Ids, Loads(c, l, c', m, id, got'),
           lru = Listed(c, l), lru' = Listed(c', m)
    PROVE  Abstract!Load(id)
<1> DEFINE n == c.used
           t == c'
           q == Listed(c, l)
           r == Listed(t, m)
<1>1. /\ n \in Nat /\ Chain(c, l, n, 1..n)
      /\ \A i \in 1..n : l[i] \in 1..n /\ c.store[l[i]] \in Entry
  BY OrdersIs
<1>2. Orders(t, m) /\ t.size = c.size /\ t.used = n /\ \A v \in 1..n : Item(t, v) = Item(c, v)
  BY DEF Loads
<1>3. q \in Seq(Items) /\ Len(q) = n /\ \A i \in 1..n : q[i] = Item(c, l[i])
  BY ListedIs
<1>4. r \in Seq(Items) /\ Len(r) = t.used /\ \A i \in 1..t.used : r[i] = Item(t, m[i])
  BY <1>2, ListedIs
<1>5. /\ Abstract!Has(id) <=> \E k \in 1..n : c.store[l[k]].id = id
      /\ \A k \in 1..n : c.store[l[k]].id = id => Abstract!Place(id) = k
  BY PlacedIs
<1>6. \A i \in 1..n : (q[i].on <=> c.store[l[i]].on) /\ q[i].par = c.store[l[i]].par
  BY <1>1, <1>3, ItemOn, ItemIs
<1>7. ASSUME NEW k \in 1..n, Gives(c, l, id, k), got' = c.store[l[k]].par, m = Fronted(l, n, k)
      PROVE  Abstract!Load(id)
  <2>1. Abstract!Has(id) /\ Abstract!Place(id) = k /\ q[k].on /\ got' = q[k].par
    BY <1>5, <1>6, <1>7 DEF Gives
  <2> HIDE DEF t
  <2>2. \A i \in 1..n : r[i] = IF i = 1 THEN q[k] ELSE IF i <= k THEN q[i - 1] ELSE q[i]
    <3> SUFFICES ASSUME NEW i \in 1..n
                 PROVE  r[i] = IF i = 1 THEN q[k] ELSE IF i <= k THEN q[i - 1] ELSE q[i]
      OBVIOUS
    <3>1. m[i] = IF i = 1 THEN l[k] ELSE IF i <= k THEN l[i - 1] ELSE l[i]
      BY <1>7 DEF Fronted
    <3>2. i # 1 => i - 1 \in 1..n
      BY <1>1
    <3>3. r[i] = Item(t, m[i])
      BY <1>2, <1>4
    <3> HIDE DEF q, r
    <3>4. CASE i = 1
      BY <1>1, <1>2, <1>3, <3>1, <3>3, <3>4
    <3>5. CASE i # 1 /\ i <= k
      BY <1>1, <1>2, <1>3, <3>1, <3>2, <3>3, <3>5
    <3>6. CASE i # 1 /\ ~(i <= k)
      BY <1>1, <1>2, <1>3, <3>1, <3>3, <3>6
    <3> QED BY <3>4, <3>5, <3>6
  <2> HIDE DEF q, r
  <2>3. r = << q[k] >> \o (SubSeq(q, 1, k - 1) \o SubSeq(q, k + 1, Len(q)))
    <3>1. /\ q \in Seq(Items) /\ r \in Seq(Items) /\ Len(r) = Len(q) /\ k \in 1..Len(q)
          /\ \A i \in 1..Len(q) : r[i] = IF i = 1 THEN q[k] ELSE IF i <= k THEN q[i - 1] ELSE q[i]
      BY <1>2, <1>3, <1>4, <2>2
    <3> QED BY <3>1, FirstIs
  <2>4. lru = q /\ lru' = r
    BY DEF q, r, t
  <2>5. lru' = << lru[k] >> \o Abstract!Without(k)
    BY <2>3, <2>4 DEF Abstract!Without
  <2>6. lru[k].on /\ got' = lru[k].par
    BY <2>1, <2>4
  <2>7. Abstract!Has(id) /\ lru[Abstract!Place(id)].on
    BY <2>1, <2>6
  <2>8. got' = lru[Abstract!Place(id)].par
        /\ lru' = << lru[Abstract!Place(id)] >> \o Abstract!Without(Abstract!Place(id))
    BY <2>1, <2>5, <2>6
  <2> QED BY <1>2, <2>7, <2>8 DEF Abstract!Load, t
<1>8. ASSUME got' = Nothing, m = l, \A k \in 1..n : ~Gives(c, l, id, k)
      PROVE  Abstract!Load(id)
  <2>1. ~(Abstract!Has(id) /\ lru[Abstract!Place(id)].on)
    <3> SUFFICES ASSUME Abstract!Has(id), lru[Abstract!Place(id)].on PROVE FALSE
      OBVIOUS
    <3>1. PICK k \in 1..n : c.store[l[k]].id = id
      BY <1>5
    <3>2. Abstract!Place(id) = k
      BY <1>5, <3>1
    <3>3. q[k].on
      BY <3>2
    <3>4. c.store[l[k]].on
      BY <1>6, <3>3
    <3> QED BY <1>8, <3>1, <3>4 DEF Gives
  <2> HIDE DEF t
  <2>2. \A i \in 1..n : r[i] = q[i]
    BY <1>1, <1>2, <1>3, <1>4, <1>8
  <2> HIDE DEF q, r
  <2>3. r = q
    BY <1>2, <1>3, <1>4, <2>2, SeqEqual
  <2>4. lru' = lru
    BY <2>3 DEF q, r, t
  <2> QED BY <1>2, <1>8, <2>1, <2>4 DEF Abstract!Load, t
<1> QED BY <1>7, <1>8 DEF Loads

LEMMA ForgetMaps ==
    ASSUME NEW l, Orders(c, l), NEW id \in Ids, Drops(c, l, c', id),
           lru = Listed(c, l), lru' = Listed(c', l), got' = Nothing
    PROVE  Abstract!Forget(id)
<1> DEFINE n == c.used
           t == c'
           q == Listed(c, l)
           r == Listed(t, l)
<1>1. /\ n \in Nat /\ Chain(c, l, n, 1..n)
      /\ \A i \in 1..n : l[i] \in 1..n /\ c.store[l[i]] \in Entry
  BY OrdersIs
<1>2. /\ Orders(t, l) /\ t.size = c.size /\ t.used = n
      /\ \A v \in 1..n : /\ t.store[v].id = c.store[v].id /\ t.store[v].par = c.store[v].par
                         /\ c.store[v].id # id => t.store[v].on = c.store[v].on
                         /\ c.store[v].id = id => t.store[v].on = FALSE
  BY DEF Drops
<1>3. q \in Seq(Items) /\ Len(q) = n /\ \A i \in 1..n : q[i] = Item(c, l[i])
  BY ListedIs
<1>4. r \in Seq(Items) /\ Len(r) = t.used /\ \A i \in 1..t.used : r[i] = Item(t, l[i])
  BY <1>2, ListedIs
<1>5. /\ Abstract!Has(id) <=> \E k \in 1..n : c.store[l[k]].id = id
      /\ \A k \in 1..n : c.store[l[k]].id = id => Abstract!Place(id) = k
  BY PlacedIs
<1>6. ASSUME NEW i \in 1..n, c.store[l[i]].id # id PROVE r[i] = q[i]
  <2> HIDE DEF t, q, r
  <2>1. t.store[l[i]].on = c.store[l[i]].on
    BY <1>1, <1>2, <1>6
  <2>2. Item(t, l[i]) = Item(c, l[i])
    BY <1>1, <1>2, <2>1 DEF Item
  <2> QED BY <1>2, <1>3, <1>4, <2>2
<1>7. ASSUME NEW i \in 1..n, c.store[l[i]].id = id PROVE r[i] = [q[i] EXCEPT !.on = FALSE]
  <2> HIDE DEF t, q, r
  <2> DEFINE a == c.store[l[i]].id
             b == c.store[l[i]].par
             d == c.store[l[i]].on
             f == FALSE
  <2>1. t.store[l[i]].on = f
    BY <1>1, <1>2, <1>7
  <2>2. t.store[l[i]].id = a /\ t.store[l[i]].par = b
    BY <1>1, <1>2
  <2>3. Item(c, l[i]) = [id |-> a, par |-> b, on |-> d]
    BY DEF Item
  <2> HIDE DEF a, b, d, f
  <2>4. Item(t, l[i]) = [id |-> a, par |-> b, on |-> f]
    BY <2>1, <2>2 DEF Item
  <2>5. [id |-> a, par |-> b, on |-> f] = [[id |-> a, par |-> b, on |-> d] EXCEPT !.on = f]
    OBVIOUS
  <2>6. r[i] = Item(t, l[i]) /\ q[i] = Item(c, l[i])
    BY <1>2, <1>3, <1>4
  <2>7. r[i] = [q[i] EXCEPT !.on = f]
    BY <2>3, <2>4, <2>5, <2>6
  <2> QED BY <2>7 DEF f
<1>8. CASE ~Abstract!Has(id)
  <2>1. \A i \in 1..n : r[i] = q[i]
    BY <1>5, <1>6, <1>8
  <2> HIDE DEF q, r, t
  <2>2. r = q
    BY <1>2, <1>3, <1>4, <2>1, SeqEqual
  <2>3. lru' = lru
    BY <2>2 DEF q, r, t
  <2> QED BY <1>2, <1>8, <2>3 DEF Abstract!Forget, t
<1>9. CASE Abstract!Has(id)
  <2>1. PICK k \in 1..n : c.store[l[k]].id = id
    BY <1>5, <1>9
  <2>2. Abstract!Place(id) = k
    BY <1>5, <2>1
  <2>3. ASSUME NEW i \in 1..n, i # k PROVE c.store[l[i]].id # id
    BY <1>5, <2>2, <2>3
  <2> DEFINE e == [q[k] EXCEPT !.on = FALSE]
             u == [q EXCEPT ![k] = e]
  <2>4. r[k] = e
    BY <1>7, <2>1
  <2>5. \A i \in 1..n : i # k => r[i] = q[i]
    BY <1>6, <2>3
  <2> HIDE DEF q, r, t, e
  <2>6. e \in Items
    <3>1. r[k] \in Items
      BY <1>2, <1>4
    <3> QED BY <2>4, <3>1
  <2>7. u \in Seq(Items) /\ Len(u) = n /\ \A i \in 1..n : u[i] = IF i = k THEN e ELSE q[i]
    <3>1. q \in Seq(Items) /\ k \in 1..Len(q) /\ Len(q) = n
      BY <1>3
    <3> QED BY <2>6, <3>1, ExceptSeq
  <2> HIDE DEF u
  <2>8. \A i \in 1..n : r[i] = u[i]
    BY <2>4, <2>5, <2>7
  <2>9. r = u
    BY <1>2, <1>4, <2>7, <2>8, SeqEqual
  <2>10. lru = q /\ lru' = r
    BY DEF q, r, t
  <2>11. lru' = [lru EXCEPT ![k] = [lru[k] EXCEPT !.on = FALSE]]
    BY <2>9, <2>10 DEF u, e
  <2>12. lru' = [lru EXCEPT ![Abstract!Place(id)].on = FALSE]
    BY <2>2, <2>11
  <2> QED BY <1>2, <1>9, <2>12 DEF Abstract!Forget, t
<1> QED BY <1>8, <1>9

---------------------------------------------------------------------------
(* The refinement. *)

LEMMA SessionsListed ==
    ASSUME NEW l, Orders(c, l)
    PROVE  Sessions(c) = Listed(c, l)
  BY ListedIs

LEMMA SessionsListedNext ==
    ASSUME NEW m, Orders(c', m), lru' = Sessions(c')
    PROVE  lru' = Listed(c', m)
<1> DEFINE t == c'
<1>1. Orders(t, m)
  OBVIOUS
<1> HIDE DEF t
<1>2. Sessions(t) = Listed(t, m)
  BY <1>1, ListedIs
<1> QED BY <1>2 DEF t

LEMMA CacheStarts ==
    ASSUME RInit
    PROVE  Abstract!Init
<1>1. got = Nothing /\ Orders(c, NoOrder) /\ c.used = 0
  BY InitIs DEF RInit
<1>2. c.size \in Nat
  BY <1>1, OrdersIs
<1>3. lru = Listed(c, NoOrder)
  BY <1>1, SessionsListed DEF RInit
<1>4. Listed(c, NoOrder) \in Seq(Items) /\ Len(Listed(c, NoOrder)) = 0
  BY <1>1, ListedIs
<1>5. lru = << >>
  BY <1>3, <1>4, EmptySeq
<1> QED BY <1>1, <1>2, <1>5 DEF Abstract!Init

RVars == << vars, lru >>

LEMMA CacheSteps ==
    ASSUME IInv, lru = Sessions(c), [RNext]_RVars
    PROVE  [Abstract!Next]_<< c.size, lru, got >>
<1>1. PICK l : Orders(c, l)
  BY DEF IInv
<1>2. lru = Listed(c, l)
  BY <1>1, SessionsListed
<1>3. CASE UNCHANGED RVars
  BY <1>3 DEF RVars, vars
<1>4. CASE RNext
  <2>1. lru' = Sessions(c') /\ Next
    BY <1>4 DEF RNext
  <2>2. ASSUME NEW id \in Ids, lru_load(id) PROVE Abstract!Next
    <3>1. PICK m : Loads(c, l, c', m, id, got')
      BY <1>1, <2>2, LoadIs
    <3>2. Orders(c', m)
      BY <3>1 DEF Loads
    <3>3. lru' = Listed(c', m)
      BY <2>1, <3>2, SessionsListedNext
    <3>4. Abstract!Load(id)
      BY <1>1, <1>2, <3>1, <3>3, LoadMaps
    <3> QED BY <3>4 DEF Abstract!Next
  <2>3. ASSUME NEW id \in Ids, NEW p \in Saved[id], lru_save(id, p) PROVE Abstract!Next
    <3>0. p \in Params
      BY SavedIs
    <3>1. got' = Nothing /\ \E m : Saves(c, l, c', m, id, p)
      BY <1>1, <2>3, <3>0, SaveIs
    <3>2. PICK m : Saves(c, l, c', m, id, p)
      BY <3>1
    <3>3. Orders(c', m)
      BY <3>2 DEF Saves
    <3>4. lru' = Listed(c', m)
      BY <2>1, <3>3, SessionsListedNext
    <3>5. Abstract!Save(id, p)
      BY <1>1, <1>2, <3>0, <3>1, <3>2, <3>4, SaveMaps
    <3> QED BY <3>0, <3>5 DEF Abstract!Next
  <2>4. ASSUME NEW id \in Forgets, forget(id) PROVE Abstract!Next
    <3>0. id \in Ids
      BY SessionCacheAssumption
    <3>1. got' = Nothing /\ Drops(c, l, c', id)
      BY <1>1, <2>4, <3>0, ForgetIs
    <3>2. Orders(c', l)
      BY <3>1 DEF Drops
    <3>3. lru' = Listed(c', l)
      BY <2>1, <3>2, SessionsListedNext
    <3>4. Abstract!Forget(id)
      BY <1>1, <1>2, <3>0, <3>1, <3>3, ForgetMaps
    <3> QED BY <3>0, <3>4 DEF Abstract!Next
  <2> QED BY <2>1, <2>2, <2>3, <2>4 DEF Next
<1> QED BY <1>3, <1>4

(* What lru_save(), lru_load() and forget() do to the list and the tree is *)
(* what AbstractCache does to its sequence: a load gives what was saved    *)
(* with the ID, if it was not forgotten since, and the session evicted is  *)
(* the one used longest ago.                                               *)
THEOREM CacheImplements == RSpec => ImplementsCache
<1> DEFINE All == IInv /\ lru = Sessions(c)
<1>1. RInit => All /\ Abstract!Init
  BY InitInv, CacheStarts DEF RInit
<1>2. All /\ [RNext]_RVars => All' /\ [Abstract!Next]_<< c.size, lru, got >>
  <2> SUFFICES ASSUME All, [RNext]_RVars PROVE All' /\ [Abstract!Next]_<< c.size, lru, got >>
    OBVIOUS
  <2>1. [Next]_vars
    BY DEF RNext, RVars
  <2>2. IInv'
    BY <2>1, StepInv
  <2>3. (lru = Sessions(c))'
    BY DEF RNext, RVars, vars, Sessions
  <2>4. [Abstract!Next]_<< c.size, lru, got >>
    BY CacheSteps
  <2> QED BY <2>2, <2>3, <2>4
<1> QED BY <1>1, <1>2, PTL DEF RSpec, RVars, ImplementsCache, Abstract!Spec
=============================================================================
