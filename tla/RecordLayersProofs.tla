------------------------- MODULE RecordLayersProofs -------------------------
(***************************************************************************)
(* The record layers for every scheme, every fragment length the standard  *)
(* allows and every output buffer that is large enough for it: what        *)
(* encrypt() builds around a payload that lies in the span of              *)
(* make_ready_out() stays inside the buffer.                               *)
(***************************************************************************)
EXTENDS RecordLayers, TLAPS

Blocks == {8, 16}

(* The schemes, one by one. *)
Unprotected(c) == c.kind = "clear" /\ c.mac = 0 /\ c.tag = 0
Cbc10(c) == c.kind = "cbc10" /\ c.blk \in Blocks /\ c.mac \in {16, 20} /\ c.tag = 0
Cbc11(c) == c.kind = "cbc11" /\ c.blk \in Blocks /\ c.mac \in {20, 32, 48} /\ c.tag = 0
Aead(c) == c.kind \in {"gcm", "chapol", "ccm"} /\ c.tag \in {8, 16}

LEMMA SchemesAre ==
    ASSUME NEW c \in Schemes
    PROVE  Unprotected(c) \/ Cbc10(c) \/ Cbc11(c) \/ Aead(c)
  BY DEF Schemes, Unprotected, Cbc10, Cbc11, Aead, Blocks

(* A length rounded down to the cipher's block. *)
LEMMA FloorWorks ==
    ASSUME NEW b \in Blocks, NEW x \in Nat
    PROVE  /\ Floor(x, b) \in Nat /\ Floor(x, b) <= x /\ x < Floor(x, b) + b
           /\ x % b \in 0..(b - 1)
           /\ \A y \in Nat : y < Floor(x, b) => Floor(y, b) + b <= Floor(x, b)
<1>1. CASE b = 8
  BY <1>1 DEF Floor
<1>2. CASE b = 16
  BY <1>2 DEF Floor
<1> QED BY <1>1, <1>2 DEF Blocks

(* The padding fills the last block, and is never empty. *)
LEMMA PaddingFills ==
    ASSUME NEW c, Cbc10(c) \/ Cbc11(c), NEW len \in Nat
    PROVE  /\ c.blk \in Blocks /\ c.mac \in 16..48 /\ Padding(c, len) \in 1..c.blk
           /\ len + c.mac + Padding(c, len) = Floor(len + c.mac, c.blk) + c.blk
<1>1. c.blk \in Blocks /\ c.mac \in 16..48 /\ c.blk \in {8, 16}
  BY DEF Cbc10, Cbc11, Blocks
<1>2. len + c.mac \in Nat
  BY <1>1
<1>3. (len + c.mac) % c.blk \in 0..(c.blk - 1)
  BY <1>1, <1>2, FloorWorks
<1> DEFINE r == (len + c.mac) % c.blk
<1>4. Padding(c, len) = c.blk - r /\ Floor(len + c.mac, c.blk) = (len + c.mac) - r
  BY DEF Padding, Floor
<1> HIDE DEF r
<1> QED BY <1>1, <1>2, <1>3, <1>4 DEF r

(* The TLS 1.0 split reserves the room of a record of one byte. *)
LEMMA SplitRoomIs ==
    ASSUME NEW c, Cbc10(c)
    PROVE  SplitRoom(c) = 1 + c.mac + Padding(c, 1) /\ SplitRoom(c) \in 1..40
<1>1. CASE c.blk = 8
  BY <1>1 DEF Cbc10, SplitRoom, Floor, Padding
<1>2. CASE c.blk = 16
  BY <1>2 DEF Cbc10, SplitRoom, Floor, Padding
<1> QED BY <1>1, <1>2 DEF Cbc10, Blocks

(* Where the plaintext begins. *)
LEMMA StartIs ==
    ASSUME NEW c \in Schemes
    PROVE  /\ Before(c) \in 0..16
           /\ Start(c, Header) \in 5..49
           /\ Cbc10(c) => Before(c) = 0 /\ Start(c, Header) = 9 + SplitRoom(c)
           /\ ~Cbc10(c) => Start(c, Header) = Header + Before(c)
<1>1. CASE Cbc10(c)
  BY <1>1, SplitRoomIs DEF Cbc10, Start, Before, Header
<1>2. CASE Unprotected(c) \/ Aead(c)
  BY <1>2 DEF Unprotected, Aead, Cbc10, Start, Before, Header
<1>3. CASE Cbc11(c)
  BY <1>3 DEF Cbc10, Cbc11, Blocks, Start, Before, Header
<1> QED BY <1>1, <1>2, <1>3, SchemesAre

(* What one end may be set up with. *)
Legal(c, fl, olen) == c \in Schemes /\ fl \in 512..MaxPlain /\ olen \in Nat /\ olen >= fl + MaxOutOverhead

Span(c, fl, olen) == LET p == PayloadSpan(c, olen, fl) IN p.b - p.a

(* The room for a payload: no length wraps round, and a whole record fits. *)
LEMMA SpanIs ==
    ASSUME NEW c, NEW fl, NEW olen, Legal(c, fl, olen)
    PROVE  /\ PayloadSpan(c, olen, fl).a = Start(c, Header)
           /\ Span(c, fl, olen) \in 0..fl
           /\ LET x == olen - Header - Start(c, Header)
              IN  /\ x \in Nat
                  /\ Cbc10(c) \/ Cbc11(c) =>
                       Span(c, fl, olen) + 1 + c.mac <= Floor(x, c.blk)
                  /\ Unprotected(c) \/ Aead(c) => Span(c, fl, olen) + c.tag <= x
<1> DEFINE a == Start(c, Header)
           x == olen - Header - a
           room == PlainRoom(c, a, olen - Header)
<1>1. fl \in Nat /\ fl >= 512 /\ fl <= 16384 /\ olen \in Nat /\ olen >= fl + 85 /\ a \in 5..49 /\ x \in Nat /\ x >= 500
  BY StartIs DEF Legal, MaxPlain, MaxOutOverhead, Header
<1>2. /\ room \in Nat
      /\ Cbc10(c) \/ Cbc11(c) => room + 1 + c.mac <= Floor(x, c.blk)
      /\ Unprotected(c) \/ Aead(c) => room + c.tag <= x
  <2>1. CASE Cbc10(c) \/ Cbc11(c)
    <3>1. IsCbc(c) /\ c.blk \in Blocks /\ c.blk \in {8, 16} /\ c.mac \in 16..48 /\ ~Unprotected(c) /\ ~Aead(c)
      BY <2>1 DEF IsCbc, Cbc10, Cbc11, Blocks, Unprotected, Aead
    <3>2. Minus(olen - Header, a) = x
      BY <1>1 DEF Minus, Header
    <3> DEFINE f == Floor(x, c.blk)
    <3>3. room = Minus(f, 1 + c.mac)
      BY <3>1, <3>2 DEF PlainRoom
    <3> HIDE DEF a, x, room
    <3>4. f \in Nat /\ x < f + c.blk
      <4>1. x \in Nat /\ c.blk \in Blocks
        BY <1>1, <3>1
      <4> QED BY <4>1, FloorWorks, Zenon
    <3> HIDE DEF f
    <3>5. f \in Nat /\ f >= 1 + c.mac
      BY <1>1, <3>1, <3>4
    <3>6. room = f - (1 + c.mac)
      BY <3>1, <3>3, <3>5 DEF Minus
    <3> QED BY <3>1, <3>5, <3>6 DEF f
  <2>2. CASE Unprotected(c) \/ Aead(c)
    <3>1. ~IsCbc(c) /\ c.tag \in 0..16 /\ ~Cbc10(c) /\ ~Cbc11(c)
      BY <2>2 DEF IsCbc, Cbc10, Cbc11, Unprotected, Aead
    <3>2. room = Minus(olen - Header, a + c.tag)
      BY <3>1 DEF PlainRoom
    <3>3. room = x - c.tag
      BY <1>1, <3>1, <3>2 DEF Minus, Header
    <3> HIDE DEF a, x, room
    <3> QED BY <1>1, <3>1, <3>3
  <2> QED BY <2>1, <2>2, SchemesAre DEF Legal
<1> DEFINE n == Least(room, MaxPlain)
           m == [a |-> a, b |-> a + n]
           p == [a |-> m.a, b |-> IF m.b - m.a > fl THEN m.a + fl ELSE m.b]
<1>3. PayloadSpan(c, olen, fl) = p
  BY DEF PayloadSpan, MaxPlaintext
<1>4. n \in Nat /\ n <= room
  BY <1>2 DEF Least, MaxPlain
<1> HIDE DEF n, room
<1>5. p.a = a /\ p.b - p.a \in 0..fl /\ p.b - p.a <= n
  BY <1>1, <1>4
<1>6. Span(c, fl, olen) = p.b - p.a
  BY <1>3 DEF Span
<1> HIDE DEF p
<1> DEFINE q == p.b - p.a
<1>7. q \in Nat /\ q <= room
  BY <1>1, <1>2, <1>4, <1>5
<1> HIDE DEF q
<1>8. Cbc10(c) \/ Cbc11(c) => q + 1 + c.mac <= Floor(x, c.blk)
  <2>1. SUFFICES ASSUME Cbc10(c) \/ Cbc11(c) PROVE q + 1 + c.mac <= Floor(x, c.blk)
    OBVIOUS
  <2> HIDE DEF x
  <2>2. c.blk \in Blocks /\ c.mac \in Nat
    BY <2>1 DEF Cbc10, Cbc11
  <2>3. Floor(x, c.blk) \in Nat
    BY <1>1, <2>2, FloorWorks
  <2> QED BY <1>2, <1>7, <2>1, <2>2, <2>3
<1>9. Unprotected(c) \/ Aead(c) => q + c.tag <= x
  BY <1>1, <1>2, <1>7 DEF Unprotected, Aead
<1> QED BY <1>1, <1>3, <1>5, <1>6, <1>8, <1>9 DEF q

(* The smallest legal buffer has room for any message of the processor that *)
(* gets a record of its own.                                               *)
LEMMA SpanHasRoom ==
    ASSUME NEW c, NEW fl, NEW olen, Legal(c, fl, olen)
    PROVE  /\ Span(c, fl, olen) >= 16
           /\ PayloadSpan(c, olen, fl).b = Start(c, Header) + Span(c, fl, olen)
           /\ \A f \in 0..fl : Span(c, f, olen) = Least(Span(c, fl, olen), f)
<1> DEFINE a == Start(c, Header)
           x == olen - Header - a
           room == PlainRoom(c, a, olen - Header)
<1>1. fl \in Nat /\ fl >= 512 /\ fl <= 16384 /\ olen \in Nat /\ olen >= fl + 85 /\ a \in 5..49 /\ x \in Nat /\ x >= 500
  BY StartIs DEF Legal, MaxPlain, MaxOutOverhead, Header
<1>2. room \in Nat /\ room >= 16
  <2>1. CASE Cbc10(c) \/ Cbc11(c)
    <3>1. IsCbc(c) /\ c.blk \in Blocks /\ c.blk \in {8, 16} /\ c.mac \in 16..48
      BY <2>1 DEF IsCbc, Cbc10, Cbc11, Blocks
    <3>2. Minus(olen - Header, a) = x
      BY <1>1 DEF Minus, Header
    <3> DEFINE f == Floor(x, c.blk)
    <3>3. room = Minus(f, 1 + c.mac)
      BY <3>1, <3>2 DEF PlainRoom
    <3> HIDE DEF a, x, room
    <3>4. f \in Nat /\ x < f + c.blk
      <4>1. x \in Nat /\ c.blk \in Blocks
        BY <1>1, <3>1
      <4> QED BY <4>1, FloorWorks, Zenon
    <3> HIDE DEF f
    <3>5. f \in Nat /\ f >= 400
      BY <1>1, <3>1, <3>4
    <3>6. room = f - (1 + c.mac)
      BY <3>1, <3>3, <3>5 DEF Minus
    <3> QED BY <3>1, <3>5, <3>6
  <2>2. CASE Unprotected(c) \/ Aead(c)
    <3>1. ~IsCbc(c) /\ c.tag \in 0..16
      BY <2>2 DEF IsCbc, Unprotected, Aead
    <3>2. room = Minus(olen - Header, a + c.tag)
      BY <3>1 DEF PlainRoom
    <3>3. room = x - c.tag
      BY <1>1, <3>1, <3>2 DEF Minus, Header
    <3> HIDE DEF a, x, room
    <3> QED BY <1>1, <3>1, <3>3
  <2> QED BY <2>1, <2>2, SchemesAre DEF Legal
<1> DEFINE n == Least(room, MaxPlain)
           m == [a |-> a, b |-> a + n]
           p == [a |-> m.a, b |-> IF m.b - m.a > fl THEN m.a + fl ELSE m.b]
<1>3. PayloadSpan(c, olen, fl) = p
  BY DEF PayloadSpan, MaxPlaintext
<1>4. n \in Nat /\ n >= 16
  BY <1>2 DEF Least, MaxPlain
<1> HIDE DEF n, room
<1>5. p.b - p.a >= 16 /\ p.b = a + (p.b - p.a)
  BY <1>1, <1>4
<1>6. ASSUME NEW f \in Nat PROVE Span(c, f, olen) = Least(n, f)
  <2> DEFINE q == [a |-> m.a, b |-> IF m.b - m.a > f THEN m.a + f ELSE m.b]
  <2>1. PayloadSpan(c, olen, f) = q
    BY DEF PayloadSpan, MaxPlaintext, n, room
  <2>2. q.b - q.a = Least(n, f)
    BY <1>1, <1>4, <1>6 DEF Least
  <2> HIDE DEF q
  <2> QED BY <2>1, <2>2 DEF Span
<1>7. ASSUME NEW f \in 0..fl PROVE Span(c, f, olen) = Least(Span(c, fl, olen), f)
  <2>1. Least(n, f) = Least(Least(n, fl), f)
    BY <1>1, <1>4 DEF Least
  <2> QED BY <1>1, <1>6, <2>1
<1> QED BY <1>3, <1>5, <1>7 DEF Span

---------------------------------------------------------------------------
(* What encrypt() leaves in the buffer. *)

LEMMA SealedIs ==
    ASSUME NEW c \in Schemes, NEW type, NEW at \in Int, NEW len \in Nat
    PROVE  LET r == Sealed(c, type, at, len)
           IN  /\ Behind(c, len) \in 0..64
               /\ r.from = at - Before(c) - Header /\ r.to = at + len + Behind(c, len)
               /\ r.rlen = Before(c) + len + Behind(c, len)
               /\ r.to - r.from = Header + r.rlen
               /\ r.from \in Int /\ r.to \in Int /\ r.rlen \in Nat
<1>1. Behind(c, len) \in 0..64
  <2>1. CASE Cbc10(c) \/ Cbc11(c)
    <3>1. IsCbc(c) /\ c.mac \in 16..48 /\ Padding(c, len) \in 1..c.blk /\ c.blk \in {8, 16}
      BY <2>1, PaddingFills DEF IsCbc, Cbc10, Cbc11, Blocks
    <3> QED BY <3>1 DEF Behind
  <2>2. CASE Unprotected(c) \/ Aead(c)
    BY <2>2 DEF Behind, IsCbc, Unprotected, Aead
  <2> QED BY <2>1, <2>2, SchemesAre
<1>2. Before(c) \in 0..16 /\ Header \in Nat
  BY StartIs DEF Header
<1> DEFINE h == Behind(c, len)
           f == Before(c)
<1>3. LET r == Sealed(c, type, at, len)
      IN  r.from = at - f - Header /\ r.to = at + len + h /\ r.rlen = f + len + h
  BY DEF Sealed
<1> HIDE DEF h, f
<1>4. /\ (at + len + h) - (at - f - Header) = Header + (f + len + h)
      /\ at - f - Header \in Int /\ at + len + h \in Int /\ f + len + h \in Nat
  BY <1>1, <1>2 DEF h, f
<1> QED BY <1>1, <1>3, <1>4 DEF h, f

(* A record lies inside the buffer, its announced length is the one it has, *)
(* and it is one of those made of at most a fragment.                       *)
Within(r, olen) == 0 <= r.from /\ r.to <= olen /\ r.to - r.from = Header + r.rlen
Made(r, c, fl) == \E type \in RecordTypes, at \in Int, len \in 0..fl : r = Sealed(c, type, at, len)

LEMMA WholeFits ==
    ASSUME NEW c, NEW fl, NEW olen, Legal(c, fl, olen), NEW type \in RecordTypes,
           NEW len \in 0..Span(c, fl, olen)
    PROVE  LET r == Sealed(c, type, PayloadSpan(c, olen, fl).a, len)
           IN  Within(r, olen) /\ Made(r, c, fl)
<1> DEFINE a == Start(c, Header)
           n == Span(c, fl, olen)
           x == olen - Header - a
           r == Sealed(c, type, a, len)
<1>1. /\ PayloadSpan(c, olen, fl).a = a /\ n \in 0..fl /\ fl \in Nat /\ x \in Nat
      /\ Cbc10(c) \/ Cbc11(c) => n + 1 + c.mac <= Floor(x, c.blk)
      /\ Unprotected(c) \/ Aead(c) => n + c.tag <= x
  BY SpanIs DEF Legal
<1>2. /\ a \in 5..49 /\ Before(c) \in 0..16 /\ a >= Before(c) + Header /\ c \in Schemes
      /\ olen \in Nat
  <2>1. c \in Schemes /\ olen \in Nat
    BY DEF Legal
  <2>2. CASE Cbc10(c)
    BY <2>1, <2>2, StartIs, SplitRoomIs DEF Header
  <2>3. CASE ~Cbc10(c)
    BY <2>1, <2>3, StartIs DEF Header
  <2> QED BY <2>1, <2>2, <2>3
<1>3. /\ r.from = a - Before(c) - Header /\ r.to = a + len + Behind(c, len)
      /\ r.to - r.from = Header + r.rlen /\ Behind(c, len) \in 0..64 /\ len \in Nat
  BY <1>1, <1>2, SealedIs
<1>4. len + Behind(c, len) <= x
  <2>1. CASE Cbc10(c) \/ Cbc11(c)
    <3> HIDE DEF x, n
    <3>1. Behind(c, len) = c.mac + Padding(c, len) /\ c.blk \in {8, 16}
      BY <2>1 DEF Behind, IsCbc, Cbc10, Cbc11, Blocks
    <3>2. /\ len + c.mac + Padding(c, len) = Floor(len + c.mac, c.blk) + c.blk
          /\ c.blk \in Blocks /\ c.mac \in Nat /\ Padding(c, len) \in Nat /\ len \in Nat
      BY <1>1, <2>1, <3>1, PaddingFills
    <3>3. len + c.mac \in Nat /\ Floor(x, c.blk) \in Nat /\ Floor(x, c.blk) <= x
      BY <1>1, <3>2, FloorWorks
    <3>4. len + c.mac < Floor(x, c.blk)
      BY <1>1, <2>1, <3>2, <3>3 DEF n
    <3>5. Floor(len + c.mac, c.blk) + c.blk <= Floor(x, c.blk)
      BY <1>1, <3>2, <3>3, <3>4, FloorWorks
    <3>6. Floor(len + c.mac, c.blk) \in Nat
      BY <3>2, <3>3, FloorWorks
    <3> QED BY <1>1, <3>1, <3>2, <3>3, <3>5, <3>6
  <2>2. CASE Unprotected(c) \/ Aead(c)
    <3>1. Behind(c, len) = c.tag /\ c.tag \in Nat
      BY <2>2 DEF Behind, IsCbc, Unprotected, Aead
    <3> HIDE DEF x
    <3> QED BY <1>1, <2>2, <3>1
  <2> QED BY <1>2, <2>1, <2>2, SchemesAre
<1>5. Made(r, c, fl)
  BY <1>1, <1>2 DEF Made
<1> HIDE DEF r
<1>6. Within(r, olen)
  <2>1. 0 <= r.from /\ r.to <= olen
    BY <1>1, <1>2, <1>3, <1>4 DEF Header
  <2> QED BY <1>3, <2>1 DEF Within
<1> QED BY <1>1, <1>5, <1>6 DEF r


(* TLS 1.0: one byte, then the rest, without a gap. *)
LEMMA SplitFits ==
    ASSUME NEW c, NEW fl, NEW olen, Legal(c, fl, olen), Cbc10(c), NEW type \in RecordTypes,
           NEW len \in 0..Span(c, fl, olen), len > 1
    PROVE  LET at == PayloadSpan(c, olen, fl).a
               q == Sealed(c, type, at - 4 - SplitRoom(c), 1)
               r == Sealed(c, type, at + 1, len - 1)
           IN  Within(q, olen) /\ Within(r, olen) /\ q.to = r.from
               /\ Made(q, c, fl) /\ Made(r, c, fl)
<1> DEFINE a == Start(c, Header)
           n == Span(c, fl, olen)
           x == olen - Header - a
           q == Sealed(c, type, a - 4 - SplitRoom(c), 1)
           r == Sealed(c, type, a + 1, len - 1)
<1>1. /\ PayloadSpan(c, olen, fl).a = a /\ n \in 0..fl /\ fl \in Nat /\ x \in Nat /\ fl >= 512
      /\ n + 1 + c.mac <= Floor(x, c.blk)
      /\ c \in Schemes /\ olen \in Nat /\ len \in Nat /\ len <= n /\ len - 1 \in Nat
  BY SpanIs DEF Legal
<1>2. /\ a = 9 + SplitRoom(c) /\ Before(c) = 0 /\ a \in 5..49
      /\ SplitRoom(c) = 1 + c.mac + Padding(c, 1) /\ SplitRoom(c) \in 1..40
      /\ IsCbc(c) /\ c.blk \in {8, 16} /\ c.blk \in Blocks
  BY <1>1, StartIs, SplitRoomIs DEF Cbc10, IsCbc, Blocks
<1>3. /\ c.mac \in Nat /\ Padding(c, 1) \in Nat /\ Padding(c, len - 1) \in Nat
      /\ (len - 1) + c.mac + Padding(c, len - 1) = Floor((len - 1) + c.mac, c.blk) + c.blk
  BY <1>1, <1>2, PaddingFills
<1>4. /\ q.from = (a - 4 - SplitRoom(c)) - Before(c) - Header
      /\ q.to = (a - 4 - SplitRoom(c)) + 1 + Behind(c, 1) /\ q.to - q.from = Header + q.rlen
  BY <1>1, <1>2, SealedIs
<1>5. /\ r.from = (a + 1) - Before(c) - Header
      /\ r.to = (a + 1) + (len - 1) + Behind(c, len - 1) /\ r.to - r.from = Header + r.rlen
  BY <1>1, <1>2, SealedIs
<1>6. Behind(c, 1) = c.mac + Padding(c, 1) /\ Behind(c, len - 1) = c.mac + Padding(c, len - 1)
  BY <1>2 DEF Behind
<1>7. Made(q, c, fl) /\ Made(r, c, fl)
  <2>1. 1 \in 0..fl /\ len - 1 \in 0..fl /\ a - 4 - SplitRoom(c) \in Int /\ a + 1 \in Int
    BY <1>1, <1>2
  <2> QED BY <2>1 DEF Made
<1> HIDE DEF x, q, r, n
<1>8. (len - 1) + c.mac + Padding(c, len - 1) <= x
  <2>0. Floor(x, c.blk) \in Nat /\ Floor(x, c.blk) <= x
    BY <1>1, <1>2, FloorWorks
  <2>1. (len - 1) + c.mac \in Nat /\ Floor(x, c.blk) \in Nat /\ Floor(x, c.blk) <= x
    BY <1>1, <1>3, <2>0
  <2>2. (len - 1) + c.mac < Floor(x, c.blk)
    BY <1>1, <1>3, <2>1
  <2>3. Floor((len - 1) + c.mac, c.blk) + c.blk <= Floor(x, c.blk)
    BY <1>2, <2>1, <1>1, <2>2, FloorWorks
  <2>4. Floor((len - 1) + c.mac, c.blk) \in Nat
    BY <1>2, <2>1, FloorWorks
  <2> QED BY <1>1, <1>2, <1>3, <2>1, <2>3, <2>4
<1>9. q.from = 0 /\ q.to = a - 4 /\ r.from = a - 4
  BY <1>2, <1>3, <1>4, <1>5, <1>6 DEF Header
<1>10. r.to <= (a + 1) + x /\ (a + 1) + x <= olen
  <2>1. r.to = (a + 1) + ((len - 1) + c.mac + Padding(c, len - 1))
    BY <1>1, <1>2, <1>3, <1>5, <1>6
  <2>2. (a + 1) + x <= olen
    BY <1>1, <1>2 DEF x, Header
  <2> QED BY <1>1, <1>2, <1>3, <1>8, <2>1, <2>2
<1>11. Within(q, olen) /\ Within(r, olen)
  <2>1. a - 4 <= olen
    BY <1>1, <1>2, <1>10
  <2>2. 0 <= r.from /\ r.to <= olen
    BY <1>1, <1>2, <1>3, <1>5, <1>6, <1>9, <1>10
  <2> QED BY <1>4, <1>5, <1>9, <2>1, <2>2 DEF Within
<1> QED BY <1>1, <1>7, <1>9, <1>11 DEF q, r


(* The records a payload was sealed into are in the buffer, one after the  *)
(* other, and each of them holds a fragment of the length agreed on.       *)
FitIn(recs, c, fl, olen) ==
  /\ Len(recs) \in {1, 2} /\ DOMAIN recs = 1..Len(recs)
  /\ \A i \in 1..Len(recs) : Within(recs[i], olen) /\ Made(recs[i], c, fl)
  /\ Len(recs) = 2 => recs[1].to = recs[2].from

LEMMA EncryptFits ==
    ASSUME NEW c, NEW fl, NEW olen, Legal(c, fl, olen), NEW type \in RecordTypes,
           NEW len \in 0..Span(c, fl, olen)
    PROVE  FitIn(Encrypt(c, type, PayloadSpan(c, olen, fl).a, len), c, fl, olen)
<1> DEFINE at == PayloadSpan(c, olen, fl).a
           q == Sealed(c, type, at - 4 - SplitRoom(c), 1)
           r == Sealed(c, type, at + 1, len - 1)
           w == Sealed(c, type, at, len)
<1>1. CASE Splits(c, type, len)
  <2>1. Encrypt(c, type, at, len) = << q, r >>
    BY <1>1 DEF Encrypt
  <2>2. Cbc10(c) /\ len > 1
    BY <1>1 DEF Splits, Legal, Schemes, Cbc10, Blocks
  <2>3. Within(q, olen) /\ Within(r, olen) /\ q.to = r.from /\ Made(q, c, fl) /\ Made(r, c, fl)
    BY <2>2, SplitFits
  <2> HIDE DEF q, r
  <2> QED BY <2>1, <2>3 DEF FitIn
<1>2. CASE ~Splits(c, type, len)
  <2>1. Encrypt(c, type, at, len) = << w >>
    BY <1>2 DEF Encrypt
  <2>2. Within(w, olen) /\ Made(w, c, fl)
    BY WholeFits
  <2> HIDE DEF w
  <2> QED BY <2>1, <2>2 DEF FitIn
<1> QED BY <1>1, <1>2
=============================================================================
