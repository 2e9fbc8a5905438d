-------------------------- MODULE RecordFlowProofs --------------------------
(***************************************************************************)
(* RecordFlow for every scheme, every fragment length the standard allows, *)
(* every output buffer that is large enough for it, and every payload that *)
(* fits: what encrypt() builds stays inside the buffer, and a receiver     *)
(* with the smallest legal buffer takes it.                                *)
(***************************************************************************)
EXTENDS RecordFlow, RecordLayersProofs, SequenceTheorems, WellFoundedInduction, TLAPS

(* What the receiver makes of a record. *)
LEMMA MadeIsTaken ==
    ASSUME NEW c \in Schemes, NEW fl \in 512..MaxPlain, NEW r, Made(r, c, fl)
    PROVE  /\ CheckLength(c, r.rlen) /\ r.rlen <= fl + MaxInOverhead - Header
           /\ Decrypt(c, r).ok /\ Decrypt(c, r).len \in Nat /\ Decrypt(c, r).len = r.len
<1>1. PICK type \in RecordTypes, at \in Int, len \in 0..fl : r = Sealed(c, type, at, len)
  BY DEF Made
<1>2. len \in Nat /\ len <= fl /\ fl \in Nat /\ fl <= 16384
  BY DEF MaxPlain
<1>0. r.len = len
  BY <1>1 DEF Sealed
<1>3. CASE Cbc10(c) \/ Cbc11(c)
  <2> DEFINE p == Padding(c, len)
             f == Floor(len + c.mac, c.blk)
             b == Before(c)
  <2>1. /\ IsCbc(c) /\ c.blk \in {8, 16} /\ c.blk \in Blocks /\ c.mac \in 16..48
        /\ c.kind # "clear" /\ b \in {0, c.blk}
    BY <1>3 DEF IsCbc, Cbc10, Cbc11, Blocks, Before
  <2>2. p \in 1..c.blk /\ len + c.mac + p = f + c.blk
    BY <1>2, <1>3, PaddingFills
  <2>3. r.rlen = b + len + (c.mac + p) /\ r.pad = p - 1
    BY <1>1, <2>1 DEF Sealed, Behind
  <2>4. f \in Nat
    <3>1. len + c.mac \in Nat
      BY <1>2, <2>1
    <3> QED BY <2>1, <3>1, FloorWorks
  <2>5. CheckLength(c, r.rlen) <=> /\ Floor(c.blk + c.mac, c.blk) + b <= r.rlen
                                   /\ r.rlen <= Floor(MaxPlain + MaxPad + c.mac, c.blk) + b
    BY <2>1 DEF CheckLength
  <2> HIDE DEF p, f, b
  <2>6. r.rlen = b + (f + c.blk) /\ r.rlen \in Nat
    BY <1>2, <2>1, <2>2, <2>3, <2>4
  <2>7. Floor(c.blk + c.mac, c.blk) + b <= r.rlen
    <3>1. Floor(c.blk + c.mac, c.blk) \in Int /\ Floor(c.blk + c.mac, c.blk) <= f + c.blk
      <4>1. CASE c.blk = 8
        BY <1>2, <2>1, <4>1 DEF Floor, f
      <4>2. CASE c.blk = 16
        BY <1>2, <2>1, <4>2 DEF Floor, f
      <4> QED BY <2>1, <4>1, <4>2
    <3> QED BY <2>1, <2>4, <2>6, <3>1
  <2>8. r.rlen <= Floor(MaxPlain + MaxPad + c.mac, c.blk) + b
    <3> DEFINE y == MaxPlain + MaxPad + c.mac
    <3>1. y \in Nat /\ y >= len + c.mac + 256
      BY <1>2, <2>1 DEF MaxPlain, MaxPad
    <3> HIDE DEF y
    <3>2. Floor(y, c.blk) \in Nat /\ y < Floor(y, c.blk) + c.blk
      BY <2>1, <3>1, FloorWorks
    <3> QED BY <1>2, <2>1, <2>2, <2>3, <3>1, <3>2 DEF y
  <2>9. r.rlen <= fl + MaxInOverhead - Header
    BY <1>2, <2>1, <2>2, <2>3 DEF MaxInOverhead, Header
  <2>10. Decrypt(c, r).ok /\ Decrypt(c, r).len \in Nat /\ Decrypt(c, r).len = len
    <3> DEFINE l == r.rlen - b
               min == IF c.mac + MaxPad < l THEN l - MaxPad ELSE c.mac
               max == l - 1
    <3>1. l = len + c.mac + p /\ max = (len + c.mac + p) - 1
      BY <1>2, <2>1, <2>2, <2>3
    <3>2. r.pad <= max - min
      BY <1>2, <2>1, <2>2, <2>3, <3>1 DEF MaxPad
    <3>3. max - r.pad - c.mac = len /\ len <= MaxPlain
      BY <1>2, <2>1, <2>2, <2>3, <3>1 DEF MaxPlain
    <3>4. Decrypt(c, r) = IF r.pad <= max - min /\ max - r.pad - c.mac <= MaxPlain
                          THEN [ok |-> TRUE, len |-> max - r.pad - c.mac] ELSE NoPlain
      BY <2>1 DEF Decrypt, b
    <3> HIDE DEF l, min, max
    <3> QED BY <1>2, <3>2, <3>3, <3>4
  <2> QED BY <1>0, <2>5, <2>7, <2>8, <2>9, <2>10
<1>4. CASE Unprotected(c) \/ Aead(c)
  <2> DEFINE b == Before(c)
  <2>1. /\ ~IsCbc(c) /\ b \in {0, 8} /\ c.tag \in {0, 8, 16}
        /\ c.kind = "clear" => b = 0 /\ c.tag = 0
    BY <1>4 DEF IsCbc, Unprotected, Aead, Before
  <2>2. r.rlen = b + len + c.tag
    BY <1>1, <2>1 DEF Sealed, Behind
  <2>3. CheckLength(c, r.rlen)
    BY <1>2, <2>1, <2>2 DEF CheckLength, MaxPlain
  <2>4. Decrypt(c, r) = [ok |-> TRUE, len |-> r.rlen - b - c.tag]
    BY <2>1 DEF Decrypt
  <2> HIDE DEF b
  <2>5. r.rlen - b - c.tag = len /\ r.rlen - b - c.tag \in Nat /\ r.rlen <= fl + MaxInOverhead - Header
    BY <1>2, <2>1, <2>2 DEF MaxInOverhead, Header
  <2> QED BY <1>0, <2>3, <2>4, <2>5
<1> QED BY <1>3, <1>4, SchemesAre


---------------------------------------------------------------------------
(* What is under way: sums along a sequence of records. *)

Recs == [type : RecordTypes, len : Nat, from : Int, to : Int, rlen : Nat, pad : Int]
Packets == [rec : Recs, seq : Nat]

(* f is the plaintext of the first 0, 1, ... k of w. *)
Sums(f, w, k) == f = [i \in 0..k |-> IF i = 0 THEN 0 ELSE f[i - 1] + w[i].rec.len]

(* Where a set of naturals is not empty there is a first one: the          *)
(* inductions below are about the first place where a claim fails.         *)
LEMMA FirstOf ==
    ASSUME NEW S, S \subseteq Nat, S # {}
    PROVE  \E k \in S : \A j \in S : k <= j
<1> DEFINE R == {p \in Nat \X Nat : p[1] < p[2]}
<1>1. IsWellFoundedOn(R, Nat)
  BY NatLessThanWellFounded DEF OpToRel
<1> HIDE DEF R
<1>2. PICK k \in S : \A j \in S : << j, k >> \notin R
  BY <1>1, WFMin
<1>3. \A j \in S : k <= j
  <2> SUFFICES ASSUME NEW j \in S, ~(k <= j) PROVE FALSE
    OBVIOUS
  <2>1. k \in Nat /\ j \in Nat /\ << j, k >> \notin R
    BY <1>2
  <2> QED BY <2>1 DEF R
<1> QED BY <1>2, <1>3

LEMMA SumsExist ==
    ASSUME NEW w, NEW m \in Nat, \A i \in 1..m : w[i].rec.len \in Nat
    PROVE  \E f \in [0..m -> Nat] : Sums(f, w, m)
<1> DEFINE Bad == {k \in 0..m : ~ \E f \in [0..k -> Nat] : Sums(f, w, k)}
<1> SUFFICES Bad = {}
  <2>1. m \in 0..m
    OBVIOUS
  <2> QED BY <2>1
<1>0. Bad # {} => \E k \in Bad : \A j \in Bad : k <= j
  <2>1. Bad \subseteq Nat
    OBVIOUS
  <2> HIDE DEF Bad
  <2> QED BY <2>1, FirstOf
<1> SUFFICES ASSUME NEW k \in Bad, \A j \in Bad : k <= j
             PROVE  FALSE
  BY <1>0
<1>1. CASE k = 0
  <2> DEFINE f == [i \in 0..0 |-> 0]
  <2>1. \A i \in 0..0 : i = 0
    OBVIOUS
  <2>2. f = [i \in 0..0 |-> IF i = 0 THEN 0 ELSE f[i - 1] + w[i].rec.len]
    BY <2>1
  <2>3. f \in [0..0 -> Nat] /\ Sums(f, w, 0)
    BY <2>2 DEF Sums
  <2> HIDE DEF f
  <2> QED BY <1>1, <2>3
<1>2. CASE k # 0
  <2>1. /\ k \in Nat /\ k - 1 \in 0..m /\ k \in 1..m
        /\ ~(k <= k - 1)
    BY <1>2
  <2>2. PICK g \in [0..k-1 -> Nat] : Sums(g, w, k - 1)
    BY <2>1
  <2>0. \A i \in 0..k-1 : g[i] = IF i = 0 THEN 0 ELSE g[i - 1] + w[i].rec.len
    BY <2>2 DEF Sums
  <2> DEFINE f == [i \in 0..k |-> IF i < k THEN g[i] ELSE g[k - 1] + w[k].rec.len]
  <2>3. g[k - 1] \in Nat /\ w[k].rec.len \in Nat
    BY <2>1
  <2>4. f \in [0..k -> Nat]
    BY <2>1, <2>3
  <2>5. \A i \in 0..k : f[i] = IF i = 0 THEN 0 ELSE f[i - 1] + w[i].rec.len
    <3> SUFFICES ASSUME NEW i \in 0..k
                 PROVE  f[i] = IF i = 0 THEN 0 ELSE f[i - 1] + w[i].rec.len
      OBVIOUS
    <3>1. CASE i < k
      <4>1. f[i] = g[i] /\ (i # 0 => f[i - 1] = g[i - 1])
        BY <2>1, <3>1
      <4> HIDE DEF f, Bad
      <4>2. i \in 0..k-1
        BY <2>1, <3>1
      <4>3. g[i] = IF i = 0 THEN 0 ELSE g[i - 1] + w[i].rec.len
        BY <2>0, <4>2
      <4> QED BY <4>1, <4>3
    <3>2. CASE i = k
      <4>1. f[k] = g[k - 1] + w[k].rec.len /\ f[k - 1] = g[k - 1]
        BY <2>1
      <4> QED BY <1>2, <3>2, <4>1
    <3> QED BY <2>1, <3>1, <3>2
  <2> HIDE DEF f
  <2>6. Sums(f, w, k)
    BY <2>4, <2>5 DEF Sums
  <2> QED BY <2>4, <2>6
<1> QED BY <1>1, <1>2

LEMMA SumsAreOne ==
    ASSUME NEW w, NEW m \in Nat, NEW f, Sums(f, w, m), NEW g, Sums(g, w, m)
    PROVE  f[m] = g[m]
<1> DEFINE Bad == {k \in 0..m : f[k] # g[k]}
<1>1. \A i \in 0..m : /\ f[i] = IF i = 0 THEN 0 ELSE f[i - 1] + w[i].rec.len
                      /\ g[i] = IF i = 0 THEN 0 ELSE g[i - 1] + w[i].rec.len
  BY DEF Sums
<1> SUFFICES Bad = {}
  OBVIOUS
<1>0. Bad # {} => \E k \in Bad : \A j \in Bad : k <= j
  <2>1. Bad \subseteq Nat
    OBVIOUS
  <2> HIDE DEF Bad
  <2> QED BY <2>1, FirstOf
<1> SUFFICES ASSUME NEW k \in Bad, \A j \in Bad : k <= j
             PROVE  FALSE
  BY <1>0
<1>2. k # 0
  BY <1>1
<1>3. k - 1 \in 0..m /\ k - 1 \notin Bad
  BY <1>2
<1>4. f[k - 1] = g[k - 1]
  BY <1>3
<1> QED BY <1>1, <1>2, <1>4

LEMMA CarriedIs ==
    ASSUME NEW w, Len(w) \in Nat, NEW f, Sums(f, w, Len(w))
    PROVE  Carried(w) = f[Len(w)]
<1> DEFINE g == CHOOSE g : g = [i \in 0..Len(w) |-> IF i = 0 THEN 0 ELSE g[i - 1] + w[i].rec.len]
<1>1. Carried(w) = g[Len(w)]
  BY DEF Carried
<1>2. \E h : h = [i \in 0..Len(w) |-> IF i = 0 THEN 0 ELSE h[i - 1] + w[i].rec.len]
  BY DEF Sums
<1>3. Sums(g, w, Len(w))
  BY <1>2 DEF Sums
<1> HIDE DEF g
<1> QED BY <1>1, <1>3, SumsAreOne

LEMMA CarriedNothing == Carried(<< >>) = 0
<1> DEFINE f == [i \in 0..0 |-> 0]
<1>1. Len(<< >>) = 0 /\ Sums(f, << >>, 0)
  BY DEF Sums
<1> HIDE DEF f
<1>2. f[0] = 0
  BY <1>1 DEF Sums
<1> QED BY <1>1, <1>2, CarriedIs

LEMMA LengthsOf ==
    ASSUME NEW w \in Seq(Packets)
    PROVE  Len(w) \in Nat /\ \A i \in 1..Len(w) : w[i].rec.len \in Nat
<1>1. Len(w) \in Nat /\ \A i \in 1..Len(w) : w[i] \in Packets
  OBVIOUS
<1>2. \A x \in Packets : x.rec.len \in Nat
  BY DEF Packets, Recs
<1> QED BY <1>1, <1>2

(* A record that is read takes its plaintext off what is under way. *)
LEMMA CarriedTail ==
    ASSUME NEW w \in Seq(Packets), w # << >>
    PROVE  Carried(w) = w[1].rec.len + Carried(Tail(w)) /\ Carried(Tail(w)) \in Nat
<1> DEFINE n == Len(w)
           v == Tail(w)
<1>1. /\ n \in Nat /\ n > 0 /\ v \in Seq(Packets) /\ Len(v) = n - 1
      /\ \A i \in 1..n-1 : v[i] = w[i + 1]
  OBVIOUS
<1>2. w[1].rec.len \in Nat /\ \A i \in 1..n : w[i].rec.len \in Nat
  BY <1>1, LengthsOf
<1>3. \A i \in 1..n-1 : v[i].rec.len \in Nat
  BY <1>1, LengthsOf
<1> HIDE DEF n, v
<1>4. n - 1 \in Nat
  BY <1>1
<1>5. PICK g \in [0..n-1 -> Nat] : Sums(g, v, n - 1)
  BY <1>3, <1>4, SumsExist
<1>6. \A i \in 0..n-1 : g[i] = IF i = 0 THEN 0 ELSE g[i - 1] + v[i].rec.len
  BY <1>5 DEF Sums
<1> DEFINE f == [i \in 0..n |-> IF i = 0 THEN 0 ELSE w[1].rec.len + g[i - 1]]
<1>7. \A i \in 0..n : f[i] = IF i = 0 THEN 0 ELSE f[i - 1] + w[i].rec.len
  <2> SUFFICES ASSUME NEW i \in 0..n
               PROVE  f[i] = IF i = 0 THEN 0 ELSE f[i - 1] + w[i].rec.len
    OBVIOUS
  <2>1. CASE i = 0
    BY <2>1
  <2>2. CASE i = 1
    <3>1. 0 \in 0..n /\ 1 \in 0..n /\ 0 \in 0..n-1 /\ 1 - 1 = 0
      BY <1>1
    <3>2. g[0] = 0 /\ f[0] = 0 /\ f[1] = w[1].rec.len + g[0]
      BY <1>6, <3>1
    <3> QED BY <1>2, <2>2, <3>1, <3>2
  <2>3. CASE i > 1
    <3> DEFINE j == i - 1
    <3>1. j \in 0..n-1 /\ j \in 1..n-1 /\ j - 1 \in 0..n-1 /\ j + 1 = i /\ j # 0 /\ j \in 0..n
      BY <1>1, <2>3
    <3>2. v[j] = w[i]
      BY <1>1, <3>1
    <3>3. f[i] = w[1].rec.len + g[j] /\ f[j] = w[1].rec.len + g[j - 1]
      BY <1>1, <2>3, <3>1
    <3> HIDE DEF j
    <3>4. g[j] = g[j - 1] + w[i].rec.len
      BY <1>6, <3>1, <3>2
    <3>5. g[j - 1] \in Nat /\ w[i].rec.len \in Nat
      BY <1>2, <2>3, <3>1
    <3>6. f[i] = f[j] + w[i].rec.len
      BY <1>2, <3>3, <3>4, <3>5
    <3> QED BY <2>3, <3>6 DEF j
  <2> QED BY <1>1, <2>1, <2>2, <2>3
<1>8. f[n] = w[1].rec.len + g[n - 1] /\ f = [i \in 0..n |-> f[i]]
  BY <1>1
<1> HIDE DEF f
<1>9. Sums(f, w, n)
  BY <1>7, <1>8 DEF Sums
<1>10. Carried(w) = f[n]
  BY <1>1, <1>9, CarriedIs DEF n
<1>11. Carried(v) = g[n - 1]
  BY <1>1, <1>4, <1>5, CarriedIs
<1>12. g[n - 1] \in Nat
  BY <1>1
<1> QED BY <1>8, <1>10, <1>11, <1>12 DEF v

LEMMA CarriedJoined ==
    ASSUME NEW u \in Seq(Packets), NEW v \in Seq(Packets)
    PROVE  Carried(u \o v) = Carried(u) + Carried(v)
<1> DEFINE n == Len(u)
           k == Len(v)
           w == u \o v
<1>1. /\ n \in Nat /\ k \in Nat /\ Len(w) = n + k
      /\ \A i \in 1..n : w[i] = u[i]
      /\ \A i \in 1..k : w[n + i] = v[i]
  OBVIOUS
<1>2. (\A i \in 1..n : u[i].rec.len \in Nat) /\ (\A i \in 1..k : v[i].rec.len \in Nat)
  BY LengthsOf
<1> HIDE DEF n, k, w
<1>3. PICK f \in [0..n -> Nat] : Sums(f, u, n)
  BY <1>1, <1>2, SumsExist
<1>4. PICK g \in [0..k -> Nat] : Sums(g, v, k)
  BY <1>1, <1>2, SumsExist
<1>5. /\ \A i \in 0..n : f[i] = IF i = 0 THEN 0 ELSE f[i - 1] + u[i].rec.len
      /\ \A i \in 0..k : g[i] = IF i = 0 THEN 0 ELSE g[i - 1] + v[i].rec.len
  BY <1>3, <1>4 DEF Sums
<1> DEFINE h == [i \in 0..n+k |-> IF i <= n THEN f[i] ELSE f[n] + g[i - n]]
<1>6. f[n] \in Nat /\ g[0] = 0 /\ g[k] \in Nat
  BY <1>1, <1>5
<1>7. \A i \in 0..n+k : h[i] = IF i = 0 THEN 0 ELSE h[i - 1] + w[i].rec.len
  <2> SUFFICES ASSUME NEW i \in 0..n+k
               PROVE  h[i] = IF i = 0 THEN 0 ELSE h[i - 1] + w[i].rec.len
    OBVIOUS
  <2>1. CASE i <= n
    <3>1. i \in 0..n /\ h[i] = f[i] /\ (i # 0 => h[i - 1] = f[i - 1] /\ w[i] = u[i])
      BY <1>1, <2>1
    <3> HIDE DEF h
    <3>2. f[i] = IF i = 0 THEN 0 ELSE f[i - 1] + u[i].rec.len
      BY <1>5, <3>1
    <3> QED BY <3>1, <3>2
  <2>2. CASE i > n
    <3>1. i - n \in 1..k /\ i - n \in 0..k /\ (i - n) - 1 \in 0..k /\ n + (i - n) = i /\ i # 0
      BY <1>1, <2>2
    <3>2. g[i - n] = g[(i - n) - 1] + v[i - n].rec.len /\ w[i] = v[i - n]
      BY <1>1, <1>5, <3>1
    <3>3. h[i] = f[n] + g[i - n]
      BY <1>1, <2>2
    <3>4. h[i - 1] = f[n] + g[(i - n) - 1]
      <4>1. CASE i - 1 = n
        <5>1. h[n] = f[n] /\ (i - n) - 1 = 0
          BY <1>1, <4>1
        <5> QED BY <1>6, <4>1, <5>1
      <4>2. CASE i - 1 # n
        <5>1. i - 1 \in 0..n+k /\ ~(i - 1 <= n) /\ (i - 1) - n = (i - n) - 1
          BY <1>1, <2>2, <4>2
        <5> QED BY <5>1
      <4> QED BY <4>1, <4>2
    <3>5. g[(i - n) - 1] \in Nat /\ v[i - n].rec.len \in Nat
      BY <1>2, <3>1
    <3> HIDE DEF h
    <3>6. i # 0
      BY <3>1
    <3> DEFINE a == g[(i - n) - 1]
               b == v[i - n].rec.len
    <3>7. h[i] = f[n] + (a + b) /\ h[i - 1] = f[n] + a /\ a \in Nat /\ b \in Nat
      BY <3>2, <3>3, <3>4, <3>5
    <3> HIDE DEF a
    <3>8. w[i].rec.len = b
      BY <3>2
    <3> HIDE DEF b
    <3>9. h[i] = h[i - 1] + b
      BY <1>6, <3>7
    <3> QED BY <3>6, <3>8, <3>9
  <2> QED BY <1>1, <2>1, <2>2
<1>8. h[n + k] = f[n] + g[k] /\ h = [i \in 0..n+k |-> h[i]]
  <2>1. CASE k = 0
    BY <1>1, <1>6, <2>1
  <2>2. CASE k # 0
    <3>1. n + k \in 0..n+k /\ ~(n + k <= n) /\ (n + k) - n = k
      BY <1>1, <2>2
    <3> QED BY <3>1
  <2> QED BY <2>1, <2>2
<1> HIDE DEF h
<1>9. Sums(h, w, n + k)
  BY <1>7, <1>8 DEF Sums
<1>10. Carried(w) = h[n + k] /\ Carried(u) = f[n] /\ Carried(v) = g[k]
  <2>1. Len(w) \in Nat /\ Sums(h, w, Len(w))
    BY <1>1, <1>9
  <2>2. Carried(w) = h[Len(w)]
    BY <2>1, CarriedIs
  <2>3. Carried(u) = f[n] /\ Carried(v) = g[k]
    BY <1>1, <1>3, <1>4, CarriedIs DEF n, k
  <2> QED BY <1>1, <2>2, <2>3
<1> QED BY <1>8, <1>10 DEF w

LEMMA CarriedIsInt ==
    ASSUME NEW w \in Seq(Packets)
    PROVE  Carried(w) \in Int
<1>1. PICK f \in [0..Len(w) -> Nat] : Sums(f, w, Len(w))
  BY LengthsOf, SumsExist
<1>2. Carried(w) = f[Len(w)] /\ Len(w) \in 0..Len(w)
  BY <1>1, LengthsOf, CarriedIs
<1> QED BY <1>2

(* The records encrypt() makes carry what it was handed. *)
LEMMA CarriedMade ==
    ASSUME NEW w \in Seq(Packets), NEW recs, NEW len \in Nat,
           NEW c, NEW type, NEW at, recs = Encrypt(c, type, at, len),
           Len(w) = Len(recs), \A i \in 1..Len(recs) : w[i].rec = recs[i]
    PROVE  Carried(w) = len
<1>1. \/ Len(recs) = 1 /\ recs[1].len = len
      \/ Len(recs) = 2 /\ recs[1].len = 1 /\ recs[2].len = len - 1
  BY DEF Encrypt, Sealed
<1>2. PICK f \in [0..Len(w) -> Nat] : Sums(f, w, Len(w))
  BY LengthsOf, SumsExist
<1>3. \A i \in 0..Len(w) : f[i] = IF i = 0 THEN 0 ELSE f[i - 1] + w[i].rec.len
  BY <1>2 DEF Sums
<1>4. Carried(w) = f[Len(w)]
  BY <1>2, LengthsOf, CarriedIs
<1>5. CASE Len(recs) = 1 /\ recs[1].len = len
  <2>1. f[1] = f[0] + w[1].rec.len /\ w[1].rec = recs[1] /\ f[0] = 0
    BY <1>3, <1>5
  <2> QED BY <1>4, <1>5, <2>1
<1>6. CASE Len(recs) = 2 /\ recs[1].len = 1 /\ recs[2].len = len - 1
  <2>1. /\ f[0] = 0 /\ f[1] = f[0] + w[1].rec.len /\ w[1].rec = recs[1]
        /\ f[2] = f[1] + w[2].rec.len /\ w[2].rec = recs[2]
    BY <1>3, <1>6
  <2> QED BY <1>4, <1>6, <2>1
<1> QED BY <1>1, <1>5, <1>6

---------------------------------------------------------------------------
(* The flow. *)

Fitting == \A i \in 1..Len(last) : Within(last[i], obuf) /\ (i > 1 => last[i - 1].to = last[i].from)

(* Records arrive as they were made, with the numbers the receiver counts. *)
InOrder ==
  \A i \in 1..Len(wire) : Made(wire[i].rec, s, frag) /\ wire[i].seq = inSeq + i - 1

FlowInv ==
  /\ Legal(s, frag, obuf) /\ frag \in Frags
  /\ last \in Seq(Recs) /\ wire \in Seq(Packets)
  /\ outSeq \in Nat /\ inSeq \in Nat /\ sent \in Nat /\ got \in Nat
  /\ inSeq + Len(wire) = outSeq
  /\ err = "none"
  /\ Fitting /\ InOrder
  /\ sent = got + Carried(wire)

LEMMA MadeIsRec ==
    ASSUME NEW c \in Schemes, NEW fl \in Nat, NEW r, Made(r, c, fl)
    PROVE  r \in Recs
<1>1. PICK type \in RecordTypes, at \in Int, len \in 0..fl : r = Sealed(c, type, at, len)
  BY DEF Made
<1>2. len \in Nat
  OBVIOUS
<1>3. r.from \in Int /\ r.to \in Int /\ r.rlen \in Nat
  BY <1>1, <1>2, SealedIs
<1>4. r.pad \in Int
  <2>1. CASE IsCbc(c)
    <3>1. Cbc10(c) \/ Cbc11(c)
      BY <2>1, SchemesAre DEF IsCbc, Unprotected, Aead
    <3>2. Padding(c, len) \in 1..c.blk /\ c.blk \in {8, 16}
      BY <1>2, <3>1, PaddingFills DEF Blocks
    <3> QED BY <1>1, <2>1, <3>2 DEF Sealed
  <2>2. CASE ~IsCbc(c)
    BY <1>1, <2>2 DEF Sealed
  <2> QED BY <2>1, <2>2
<1>5. /\ r.type = type /\ r.len = len
      /\ r = [type |-> r.type, len |-> r.len, from |-> r.from, to |-> r.to, rlen |-> r.rlen, pad |-> r.pad]
  BY <1>1 DEF Sealed
<1> QED BY <1>2, <1>3, <1>4, <1>5 DEF Recs

(* A sequence and what was appended to it. *)
Joins(w, u, v) ==
  /\ Len(w) = Len(u) + Len(v)
  /\ \A i \in 1..Len(w) : \/ i \in 1..Len(u) /\ w[i] = u[i]
                          \/ i - Len(u) \in 1..Len(v) /\ w[i] = v[i - Len(u)]

LEMMA Joined ==
    ASSUME NEW S, NEW u \in Seq(S), NEW v \in Seq(S)
    PROVE  u \o v \in Seq(S) /\ Joins(u \o v, u, v)
  BY DEF Joins

LEMMA FlowBegins == Init => FlowInv
<1> SUFFICES ASSUME Init PROVE FlowInv
  OBVIOUS
<1>1. /\ s \in Schemes /\ frag \in Frags /\ obuf \in {frag + MaxOutOverhead + x : x \in Slacks}
      /\ last = << >> /\ wire = << >> /\ outSeq = 0 /\ inSeq = 0 /\ sent = 0 /\ got = 0 /\ err = "none"
  BY DEF Init
<1>2. frag \in 512..MaxPlain /\ frag \in Nat
  <2>1. frag \in 512..MaxPlain
    BY <1>1, RecordFlowAssumption
  <2> QED BY <2>1 DEF MaxPlain
<1>3. PICK x \in Slacks : obuf = frag + MaxOutOverhead + x
  BY <1>1
<1>4. Legal(s, frag, obuf)
  BY <1>1, <1>2, <1>3, RecordFlowAssumption DEF Legal, MaxOutOverhead
<1>5. /\ last \in Seq(Recs) /\ wire \in Seq(Packets) /\ Len(wire) = 0
      /\ \A i \in 1..Len(last) : FALSE
      /\ \A i \in 1..Len(wire) : FALSE
  BY <1>1
<1>6. Carried(wire) = 0
  BY <1>1, CarriedNothing
<1> QED BY <1>1, <1>4, <1>5, <1>6 DEF FlowInv, Fitting, InOrder

LEMMA WriteKeeps ==
    ASSUME FlowInv, NEW type \in Types, NEW len \in Lengths, Write(type, len)
    PROVE  FlowInv'
<1> DEFINE recs == Encrypt(s, type, PayloadSpan(s, obuf, frag).a, len)
           more == [i \in 1..Len(recs) |-> [rec |-> recs[i], seq |-> outSeq + i - 1]]
<1>1. /\ last' = recs /\ wire' = wire \o more /\ outSeq' = outSeq + Len(recs) /\ sent' = sent + len
      /\ UNCHANGED << s, frag, obuf, inSeq, got, err >>
  BY DEF Write
<1>2. Legal(s, frag, obuf) /\ s \in Schemes /\ frag \in Nat
  BY DEF FlowInv, Legal, MaxPlain
<1>3. Room = Span(s, frag, obuf) /\ Room \in Nat /\ Room <= frag
  BY <1>2, SpanIs DEF Room, Span
<1>4. len \in 0..Span(s, frag, obuf) /\ len \in Nat
  <2>1. PICK c \in Cuts : c <= Room /\ (len = c \/ len = Room - c)
    BY DEF Lengths
  <2>2. c \in Nat
    BY RecordFlowAssumption
  <2> QED BY <1>3, <2>1, <2>2
<1>5. /\ Len(recs) \in {1, 2} /\ DOMAIN recs = 1..Len(recs)
      /\ \A i \in 1..Len(recs) : Within(recs[i], obuf) /\ Made(recs[i], s, frag)
      /\ Len(recs) = 2 => recs[1].to = recs[2].from
  <2>1. type \in RecordTypes
    BY DEF Types, RecordTypes
  <2>2. FitIn(recs, s, frag, obuf)
    BY <1>2, <1>4, <2>1, EncryptFits
  <2> QED BY <2>2 DEF FitIn
<1>6. recs \in Seq(Recs)
  <2>1. \A i \in 1..Len(recs) : recs[i] \in Recs
    BY <1>2, <1>5, MadeIsRec
  <2>2. recs = << recs[1] >> \/ recs = << recs[1], recs[2] >>
    BY Zenon DEF Encrypt
  <2> HIDE DEF recs
  <2>3. 1 \in 1..Len(recs) /\ (Len(recs) = 2 => 2 \in 1..Len(recs))
    BY <1>5
  <2> QED BY <1>5, <2>1, <2>2, <2>3
<1> DEFINE k == Len(recs)
           n == Len(wire)
<1>7. /\ more \in Seq(Packets) /\ Len(more) = k
      /\ \A i \in 1..k : more[i].rec = recs[i] /\ more[i].seq = outSeq + i - 1
  <2> HIDE DEF recs
  <2>1. k \in Nat /\ outSeq \in Nat
    BY <1>5 DEF FlowInv
  <2>2. \A i \in 1..k : recs[i] \in Recs /\ outSeq + i - 1 \in Nat
    BY <1>6, <2>1
  <2>3. \A i \in 1..k : [rec |-> recs[i], seq |-> outSeq + i - 1] \in Packets
    BY <2>2 DEF Packets
  <2> QED BY <2>1, <2>3
<1> HIDE DEF recs, more
<1>0. k \in {1, 2} /\ k \in Nat /\ n \in Nat
  BY <1>5 DEF FlowInv
<1>8. /\ wire' \in Seq(Packets) /\ Len(wire') = n + k /\ n \in Nat /\ k \in Nat
      /\ \A i \in 1..Len(wire') : \/ i \in 1..n /\ wire'[i] = wire[i]
                                  \/ i - n \in 1..k /\ wire'[i] = more[i - n]
  <2>1. wire \in Seq(Packets)
    BY DEF FlowInv
  <2>2. more \in Seq(Packets) /\ Len(more) = k /\ wire' = wire \o more
    BY <1>1, <1>7
  <2>3. wire \o more \in Seq(Packets) /\ Joins(wire \o more, wire, more)
    BY <2>1, <2>2, Joined
  <2>4. wire' \in Seq(Packets) /\ Joins(wire', wire, more)
    BY <2>2, <2>3
  <2> QED BY <1>0, <2>2, <2>4 DEF Joins
<1>9. InOrder'
  <2>1. SUFFICES ASSUME NEW i \in 1..Len(wire')
                 PROVE  Made(wire'[i].rec, s, frag) /\ wire'[i].seq = inSeq + i - 1
    BY <1>1 DEF InOrder
  <2>2. CASE i \in 1..n /\ wire'[i] = wire[i]
    BY <2>2 DEF FlowInv, InOrder
  <2>3. CASE i - n \in 1..k /\ wire'[i] = more[i - n]
    <3>1. wire'[i].rec = recs[i - n] /\ wire'[i].seq = outSeq + (i - n) - 1
      BY <1>7, <2>3
    <3>2. outSeq = inSeq + n /\ inSeq \in Nat
      BY DEF FlowInv
    <3>3. wire'[i].seq = inSeq + i - 1
      BY <1>8, <3>1, <3>2
    <3> QED BY <1>5, <2>3, <3>1, <3>3
  <2> QED BY <1>8, <2>2, <2>3
<1>10. Fitting'
  <2>1. SUFFICES ASSUME NEW i \in 1..k
                 PROVE  Within(recs[i], obuf) /\ (i > 1 => recs[i - 1].to = recs[i].from)
    BY <1>1 DEF Fitting
  <2>2. i > 1 => k = 2 /\ i = 2 /\ i - 1 = 1
    BY <1>5
  <2> QED BY <1>5, <2>2
<1>11. outSeq' \in Nat /\ sent' \in Nat /\ inSeq + Len(wire') = outSeq'
  <2>1. outSeq \in Nat /\ sent \in Nat /\ inSeq \in Nat /\ inSeq + n = outSeq
    BY DEF FlowInv
  <2>2. outSeq' = outSeq + k /\ sent' = sent + len /\ Len(wire') = n + k
    BY <1>1, <1>8
  <2> HIDE DEF k, n
  <2> QED BY <1>0, <1>4, <2>1, <2>2
<1>12. last' \in Seq(Recs)
  BY <1>1, <1>6
<1>13. sent' = got' + Carried(wire')
  <2>1. wire \in Seq(Packets) /\ sent = got + Carried(wire) /\ sent \in Nat /\ got \in Nat
    BY DEF FlowInv
  <2>2. Carried(wire') = Carried(wire) + Carried(more)
    BY <1>1, <1>7, <2>1, CarriedJoined
  <2>3. Carried(more) = len
    BY <1>4, <1>7, CarriedMade DEF recs
  <2>4. sent' = sent + len /\ got' = got
    BY <1>1
  <2>5. Carried(wire) \in Int
    BY <2>1, CarriedIsInt
  <2> QED BY <1>4, <2>1, <2>2, <2>3, <2>4, <2>5
<1> QED BY <1>1, <1>8, <1>9, <1>10, <1>11, <1>12, <1>13 DEF FlowInv

LEMMA ReadKeeps ==
    ASSUME FlowInv, Read
    PROVE  FlowInv'
<1> DEFINE r == Head(wire).rec
<1>1. /\ wire # << >> /\ wire' = Tail(wire) /\ err' = Verdict(r, Head(wire).seq)
      /\ IF err' = "none" THEN inSeq' = inSeq + 1 /\ got' = got + Decrypt(s, r).len
                          ELSE UNCHANGED << inSeq, got >>
      /\ UNCHANGED << s, frag, obuf, last, outSeq, sent >>
  BY DEF Read
<1>2. /\ wire \in Seq(Packets) /\ Len(wire) \in Nat /\ Len(wire) > 0 /\ Head(wire) = wire[1]
      /\ Tail(wire) \in Seq(Packets) /\ Len(Tail(wire)) = Len(wire) - 1
      /\ \A i \in 1..Len(Tail(wire)) : Tail(wire)[i] = wire[i + 1] /\ i + 1 \in 1..Len(wire)
      /\ 1 \in 1..Len(wire)
  BY <1>1 DEF FlowInv
<1>3. Made(r, s, frag) /\ Head(wire).seq = inSeq /\ inSeq \in Nat
  BY <1>2 DEF FlowInv, InOrder
<1>4. /\ CheckLength(s, r.rlen) /\ ~TooLarge(r) /\ Decrypt(s, r).ok
      /\ Decrypt(s, r).len \in Nat /\ Decrypt(s, r).len = r.len
  <2>1. s \in Schemes /\ frag \in 512..MaxPlain /\ frag \in Nat
    BY DEF FlowInv, Legal, MaxPlain
  <2>2. r.rlen \in Int
    BY <1>3, <2>1, MadeIsRec DEF Recs
  <2> HIDE DEF r
  <2>3. /\ CheckLength(s, r.rlen) /\ r.rlen <= frag + MaxInOverhead - Header
        /\ Decrypt(s, r).ok /\ Decrypt(s, r).len \in Nat /\ Decrypt(s, r).len = r.len
    BY <1>3, <2>1, MadeIsTaken
  <2> QED BY <2>1, <2>2, <2>3 DEF TooLarge, MaxInOverhead, Header
<1> HIDE DEF r
<1>5. err' = "none"
  BY <1>1, <1>3, <1>4 DEF Verdict
<1>6. inSeq' = inSeq + 1 /\ got' \in Nat /\ inSeq' + Len(wire') = outSeq'
  BY <1>1, <1>2, <1>3, <1>4, <1>5 DEF FlowInv
<1>7. InOrder'
  <2>1. SUFFICES ASSUME NEW i \in 1..Len(wire')
                 PROVE  Made(wire'[i].rec, s, frag) /\ wire'[i].seq = (inSeq + 1) + i - 1
    BY <1>1, <1>6 DEF InOrder
  <2>2. wire'[i] = wire[i + 1] /\ i + 1 \in 1..Len(wire)
    BY <1>1, <1>2
  <2>3. Made(wire[i + 1].rec, s, frag) /\ wire[i + 1].seq = inSeq + (i + 1) - 1
    BY <2>2 DEF FlowInv, InOrder
  <2> QED BY <1>3, <2>2, <2>3
<1>8. Fitting'
  BY <1>1 DEF FlowInv, Fitting
<1>9. sent' = got' + Carried(wire')
  <2>1. sent' = sent /\ got' = got + r.len /\ wire' = Tail(wire) /\ sent = got + Carried(wire) /\ got \in Nat
    BY <1>1, <1>4, <1>5 DEF FlowInv
  <2>2. Carried(wire) = wire[1].rec.len + Carried(Tail(wire)) /\ Carried(Tail(wire)) \in Nat
    BY <1>1, <1>2, CarriedTail
  <2>3. wire[1].rec.len = r.len /\ r.len \in Nat
    BY <1>2, <1>4 DEF r
  <2> QED BY <2>1, <2>2, <2>3
<1> QED BY <1>1, <1>2, <1>3, <1>5, <1>6, <1>7, <1>8, <1>9 DEF FlowInv

LEMMA FlowGoesOn == FlowInv /\ [Next]_vars => FlowInv'
<1> SUFFICES ASSUME FlowInv, [Next]_vars PROVE FlowInv'
  OBVIOUS
<1>1. CASE UNCHANGED vars
  BY <1>1 DEF vars, FlowInv, Fitting, InOrder
<1>2. CASE Next
  BY <1>2, WriteKeeps, ReadKeeps DEF Next
<1> QED BY <1>1, <1>2

(* The inductive invariant: the records under way are numbered as the      *)
(* receiver counts, and each was made of at most a fragment.               *)
THEOREM FlowSoundness == Spec => []FlowInv
  BY FlowBegins, FlowGoesOn, PTL DEF Spec

(* The variables of the flow have their types.                             *)
THEOREM FlowTypeCorrect == Spec => []TypeOK
<1>1. FlowInv => TypeOK
  <2> SUFFICES ASSUME FlowInv PROVE TypeOK
    OBVIOUS
  <2>1. s \in Schemes /\ obuf \in Nat /\ Len(wire) \in Nat /\ DOMAIN last = 1..Len(last)
    BY DEF FlowInv, Legal
  <2>2. \A i \in 1..Len(last) : last[i].from \in Nat
    <3> SUFFICES ASSUME NEW i \in 1..Len(last) PROVE last[i].from \in Nat
      OBVIOUS
    <3>1. last[i] \in Recs
      BY DEF FlowInv
    <3>2. Within(last[i], obuf)
      BY DEF FlowInv, Fitting
    <3>3. last[i].from \in Int
      BY <3>1 DEF Recs
    <3> QED BY <3>2, <3>3 DEF Within
  <2>3. inSeq \in 0..outSeq
    BY <2>1 DEF FlowInv
  <2> QED BY <2>1, <2>2, <2>3 DEF TypeOK, FlowInv
<1> QED BY <1>1, FlowSoundness, PTL

(* For every scheme, fragment length and buffer: encrypt() stays inside    *)
(* the output buffer, and the records of a split leave no gap.             *)
THEOREM FlowRecordsFit == Spec => []RecordsFit
<1>1. FlowInv => RecordsFit
  BY DEF FlowInv, Fitting, Within, RecordsFit
<1> QED BY <1>1, FlowSoundness, PTL

(* For every scheme, fragment length and buffer: no record that was made   *)
(* is refused by a receiver with the smallest legal buffer.                *)
THEOREM FlowNeverRefused == Spec => []NeverRefused
<1>1. FlowInv => NeverRefused
  BY DEF FlowInv, NeverRefused
<1> QED BY <1>1, FlowSoundness, PTL

(* For every scheme, fragment length and buffer: however encrypt() cuts    *)
(* the payload, what was handed in is under way or was handed out.         *)
THEOREM FlowPlaintextKept == Spec => []PlaintextKept
<1>1. FlowInv => PlaintextKept
  BY DEF FlowInv, PlaintextKept
<1> QED BY <1>1, FlowSoundness, PTL
=============================================================================
