---------------------------- MODULE EngineProofs ----------------------------
(***************************************************************************)
(* The engine for every buffer of the legal size or more, every scheme,    *)
(* every cut of a transfer and every behaviour of the processor, of the    *)
(* application and of the peer.                                            *)
(*                                                                         *)
(* First its registers (RegistersFit).  Then who has the buffers: in a     *)
(* shared one input and output take turns, and a record has one writer;    *)
(* this stands on the registers being sound.  OneAtATime needs that no     *)
(* empty record is forced out, TypesKept that handshakes are not begun     *)
(* again; the parts of the invariant More hold under the one or the other. *)
(*                                                                         *)
(* Last, for a peer that answers in turn, without renegotiation and forced *)
(* records, and on both of these: the engine is never stuck, reads its     *)
(* input at once (NeverStuck, InputIsRead), and implements the engine the  *)
(* model of the client is built on: what it does between two moments of    *)
(* rest is one step of AbstractEngine.                                     *)
(***************************************************************************)
EXTENDS EngineIORefines, RecordLayersProofs, TLAPS


---------------------------------------------------------------------------
(* The inductive invariant. *)

Gath(x) == x.oxc <= x.oxa /\ x.oxa < x.oxb

(* The buffers are large enough for the fragments of now. *)
Wide(x) == x.ilen >= x.frag + MaxInOverhead /\ x.olen >= x.frag + MaxOutOverhead

InOK(x) ==
  /\ x.ixa <= x.ixb /\ x.ixb <= x.ilen
  /\ x.ixa = x.ixb /\ x.ixa < Header => x.ixc = Header - x.ixa

(* len bytes behind oxc lie in a span that make_ready_out() made, for the  *)
(* fragment length in force at the time.                                   *)
Spans(x, len) ==
  /\ x.oxc = Start(x.out, Header)
  /\ \E fl \in 512..MaxPlain : Legal(x.out, fl, x.olen) /\ len <= Span(x.out, fl, x.olen)

Filled(x) == x.oxa = x.oxb /\ x.oxa < x.oxc /\ x.oxc <= x.olen

OutOK(x) ==
  \/ Gath(x) /\ x.oxb - x.oxc >= 16 /\ Spans(x, x.oxb - x.oxc)
  \/ Filled(x)

Short(x) == ~Renegotiates /\ Gath(x) => x.oxb - x.oxc <= x.frag

Sound(x) == x \in Engine /\ Wide(x) /\ InOK(x) /\ OutOK(x) /\ Short(x)

(* What the processor has in its hands are the bytes in the registers, and *)
(* it writes into an empty payload only.                                   *)
Empty(x, n) == Gath(x) /\ x.oxa = x.oxc /\ n <= x.oxb - x.oxa

Window(x, c) ==
  /\ c.put > 0 => c.run = "on" /\ c.at = "write"
  /\ c.run # "off" =>
       /\ x.io # "failed"
       /\ c.hin <= c.hin0 /\ c.hin0 <= x.ixb - x.ixa
       /\ c.put + c.hout > 0 => Empty(x, c.put + c.hout)

(* The fragment length is agreed on before there is any payload of the     *)
(* application.                                                            *)
FirstHandshake == {"read", "ccs", "rfin", "write", "wccs", "wfin"}

Early(x, c) ==
  ~Renegotiates /\ c.at \in FirstHandshake => x.app = 0 /\ (c.at = "read" => ~HasPld(x))

Inv == Sound(e) /\ cpu \in Cpu /\ Window(e, cpu) /\ Early(e, cpu)

---------------------------------------------------------------------------
(* What the operators on the registers do. *)

(* The registers of input, or of output, stay as they are. *)
KeepsIn(x, z) ==
  /\ z.ixa = x.ixa /\ z.ixb = x.ixb /\ z.app = x.app
  /\ (z.io = "failed") = (x.io = "failed")

KeepsOut(x, z) ==
  /\ z.oxa = x.oxa /\ z.oxb = x.oxb /\ z.oxc = x.oxc /\ z.app = x.app
  /\ (z.io = "failed") = (x.io = "failed")

LEMMA FragIs ==
    ASSUME NEW n \in 512..MaxPlain
    PROVE  n \in Nat /\ n >= 512 /\ n <= 16384
  BY DEF MaxPlain

LEMMA LoadIs ==
    ASSUME NEW n \in Nat, n <= MaxPlain
    PROVE  n \in 0..MaxPlain
<1>1. MaxPlain \in Nat
  BY DEF MaxPlain
<1> QED BY <1>1

LEMMA EngineTypes ==
    ASSUME NEW x \in Engine
    PROVE  /\ x.ixa \in Nat /\ x.ixb \in Nat /\ x.ixc \in Nat
           /\ x.oxa \in Nat /\ x.oxb \in Nat /\ x.oxc \in Nat
           /\ x.ilen \in Nat /\ x.olen \in Nat /\ x.frag \in 512..MaxPlain
           /\ x.frag \in Nat /\ x.frag >= 512 /\ x.frag <= 16384
           /\ x.in \in Schemes /\ x.out \in Schemes
           /\ x.typeIn \in RecordTypes /\ x.typeOut \in RecordTypes
<1>1. /\ x.ixa \in Nat /\ x.ixb \in Nat /\ x.ixc \in Nat
      /\ x.oxa \in Nat /\ x.oxb \in Nat /\ x.oxc \in Nat
      /\ x.ilen \in Nat /\ x.olen \in Nat /\ x.frag \in 512..MaxPlain
      /\ x.in \in Schemes /\ x.out \in Schemes
      /\ x.typeIn \in RecordTypes /\ x.typeOut \in RecordTypes
  BY DEF Engine
<1>2. x.frag \in Nat /\ x.frag >= 512 /\ x.frag <= 16384
  BY <1>1, FragIs
<1> QED BY <1>1, <1>2

(* A record that is sealed lies in the buffer. *)
LEMMA SealingFits ==
    ASSUME NEW x \in Engine, NEW len \in Nat, Spans(x, len)
    PROVE  LET recs == Encrypt(x.out, x.typeOut, x.oxc, len)
           IN  /\ recs[1].from \in Nat /\ recs[Len(recs)].to \in Nat
               /\ recs[1].from + Header <= recs[Len(recs)].to /\ recs[Len(recs)].to <= x.olen
<1>1. PICK fl \in 512..MaxPlain : Legal(x.out, fl, x.olen) /\ len <= Span(x.out, fl, x.olen)
  BY DEF Spans
<1>2. /\ PayloadSpan(x.out, x.olen, fl).a = x.oxc
      /\ Span(x.out, fl, x.olen) \in 0..fl
  BY <1>1, SpanIs DEF Spans
<1>3. len \in 0..Span(x.out, fl, x.olen) /\ x.typeOut \in RecordTypes
      /\ x.out \in Schemes /\ x.olen \in Nat /\ fl \in Nat
  <2>1. fl \in Nat
    BY DEF MaxPlain
  <2> QED BY <1>2, <2>1, <1>1, EngineTypes
<1> DEFINE recs == Encrypt(x.out, x.typeOut, PayloadSpan(x.out, x.olen, fl).a, len)
<1>4. /\ Len(recs) \in {1, 2} /\ DOMAIN recs = 1..Len(recs)
      /\ \A i \in 1..Len(recs) : Within(recs[i], x.olen) /\ Made(recs[i], x.out, fl)
      /\ Len(recs) = 2 => recs[1].to = recs[2].from
  <2>1. FitIn(recs, x.out, fl, x.olen)
    BY <1>1, <1>3, EncryptFits
  <2> QED BY <2>1 DEF FitIn
<1> HIDE DEF recs
<1>5. ASSUME NEW i \in 1..Len(recs)
      PROVE  /\ recs[i].from \in Nat /\ recs[i].to \in Nat
             /\ recs[i].from + Header <= recs[i].to /\ recs[i].to <= x.olen
  <2>1. PICK type \in RecordTypes, at \in Int, n \in 0..fl : recs[i] = Sealed(x.out, type, at, n)
    BY <1>4 DEF Made
  <2>2. recs[i].from \in Int /\ recs[i].to \in Int /\ recs[i].rlen \in Nat
    BY <1>3, <2>1, SealedIs
  <2>3. 0 <= recs[i].from /\ recs[i].to <= x.olen /\ recs[i].to - recs[i].from = Header + recs[i].rlen
    BY <1>4 DEF Within
  <2> QED BY <2>2, <2>3 DEF Header
<1>6. 1 \in 1..Len(recs) /\ Len(recs) \in 1..Len(recs)
  BY <1>4
<1>7. Encrypt(x.out, x.typeOut, x.oxc, len) = recs
  BY <1>2 DEF recs
<1>8. CASE Len(recs) = 1
  BY <1>5, <1>6, <1>7, <1>8
<1>9. CASE Len(recs) = 2
  <2>1. /\ recs[1].from + Header <= recs[1].to /\ recs[1].to = recs[2].from
        /\ recs[2].from + Header <= recs[2].to
        /\ recs[1].from \in Nat /\ recs[1].to \in Nat /\ recs[2].to \in Nat /\ recs[2].to <= x.olen
    BY <1>4, <1>5, <1>9
  <2>2. recs[1].from + Header <= recs[2].to
    BY <2>1 DEF Header
  <2> QED BY <1>7, <1>9, <2>1, <2>2
<1> QED BY <1>4, <1>8, <1>9

LEMMA SealSound ==
    ASSUME NEW x \in Engine, NEW force, Wide(x), InOK(x), Gath(x), Spans(x, x.oxa - x.oxc),
           x.oxa # x.oxc \/ force = TRUE, x.oxa - x.oxc <= MaxPlain
    PROVE  LET z == Seal(x, force)
           IN  /\ Sound(z) /\ Filled(z) /\ ~Gath(z) /\ KeepsIn(x, z) /\ z.oxc - z.oxa >= Header
               /\ z.load = (IF x.by = "app" THEN x.oxa - x.oxc ELSE 0)
<1> DEFINE len == x.oxa - x.oxc
           recs == Encrypt(x.out, x.typeOut, x.oxc, len)
           from == recs[1].from
           to == recs[Len(recs)].to
           by == IF x.oxa # x.oxc /\ (x.by = "app") # (x.typeOut = "app") THEN "mixed" ELSE x.by
           load == IF x.by = "app" THEN len ELSE 0
           z == [x EXCEPT !.oxa = from, !.oxb = from, !.oxc = to, !.by = by, !.load = load]
<1>1. len \in Nat /\ x.oxa # x.oxb
  BY EngineTypes DEF Gath
<1>2. from \in Nat /\ to \in Nat /\ from < to /\ to <= x.olen /\ to - from >= Header
  BY <1>1, SealingFits DEF Header
<1>3. Seal(x, force) = z
  BY <1>1 DEF Seal
<1>4. load \in 0..MaxPlain /\ by \in {"app", "hs", "mixed"}
  <2>1. x.by \in {"app", "hs", "mixed"}
    BY DEF Engine
  <2>2. len \in 0..MaxPlain /\ 0 \in 0..MaxPlain
    <3> HIDE DEF len
    <3>1. len \in Nat /\ len <= MaxPlain
      BY <1>1 DEF len
    <3>2. 0 \in 0..MaxPlain
      BY DEF MaxPlain
    <3> QED BY <3>1, <3>2, LoadIs, Zenon
  <2> QED BY <2>1, <2>2
<1> HIDE DEF from, to, by, load, recs
<1>5. z \in Engine
  BY <1>2, <1>4 DEF Engine
<1>6. /\ z.oxa = from /\ z.oxb = from /\ z.oxc = to /\ z.olen = x.olen /\ z.ilen = x.ilen /\ z.frag = x.frag
      /\ z.ixa = x.ixa /\ z.ixb = x.ixb /\ z.ixc = x.ixc /\ z.app = x.app /\ z.io = x.io
      /\ z.load = load
  BY DEF Engine
<1> HIDE DEF z
<1>7. Filled(z) /\ ~Gath(z)
  BY <1>2, <1>6 DEF Filled, Gath
<1>8. Sound(z) /\ KeepsIn(x, z)
  BY <1>5, <1>6, <1>7 DEF Sound, Wide, InOK, OutOK, Short, KeepsIn
<1> QED BY <1>2, <1>3, <1>6, <1>7, <1>8 DEF load

LEMMA ReadyOutSound ==
    ASSUME NEW x \in Engine, Wide(x), InOK(x)
    PROVE  LET z == ReadyOut(x)
           IN  Sound(z) /\ Gath(z) /\ z.oxa = z.oxc /\ KeepsIn(x, z)
<1> DEFINE span == PayloadSpan(x.out, x.olen, x.frag)
           n == Span(x.out, x.frag, x.olen)
           a == Start(x.out, Header)
           io == IF x.io = "out" THEN "inout" ELSE x.io
           z == [x EXCEPT !.oxa = a, !.oxb = a + n, !.oxc = a, !.load = 0, !.io = io]
<1>1. Legal(x.out, x.frag, x.olen)
  BY EngineTypes DEF Legal, Wide
<1>2. n \in 0..x.frag /\ n >= 16 /\ span.a = a /\ span.b = a + n /\ x.frag \in Nat
  BY <1>1, SpanIs, SpanHasRoom, EngineTypes
<1>3. a \in 5..49
  BY StartIs, EngineTypes
<1>4. n \in Nat /\ n <= x.frag /\ a \in Nat /\ a + n \in Nat
  BY <1>2, <1>3
<1>5. ReadyOut(x) = z
  BY <1>2 DEF ReadyOut
<1>6. io \in {"failed", "in", "out", "inout"} /\ (io = "failed") = (x.io = "failed")
  BY DEF Engine
<1>7. 0 \in 0..MaxPlain
  BY DEF MaxPlain
<1> HIDE DEF n, a, io, span
<1>8. z \in Engine
  BY <1>4, <1>6, <1>7 DEF Engine
<1>9. /\ z.oxa = a /\ z.oxb = a + n /\ z.oxc = a /\ z.olen = x.olen /\ z.ilen = x.ilen /\ z.frag = x.frag
      /\ z.ixa = x.ixa /\ z.ixb = x.ixb /\ z.ixc = x.ixc /\ z.app = x.app /\ z.io = io /\ z.out = x.out
  BY DEF Engine
<1> HIDE DEF z
<1>10. Gath(z) /\ z.oxb - z.oxc = n
  BY <1>2, <1>4, <1>9 DEF Gath
<1>11. Spans(z, n)
  <2>1. x.frag \in 512..MaxPlain
    BY EngineTypes
  <2>2. n <= Span(x.out, x.frag, x.olen)
    BY <1>4 DEF n
  <2> QED BY <1>1, <1>9, <2>1, <2>2 DEF Spans, a
<1>12. OutOK(z) /\ Short(z)
  BY <1>2, <1>4, <1>9, <1>10, <1>11 DEF OutOK, Short
<1>13. Wide(z) /\ InOK(z) /\ KeepsIn(x, z)
  BY <1>6, <1>9 DEF Wide, InOK, KeepsIn
<1> QED BY <1>5, <1>8, <1>9, <1>10, <1>12, <1>13 DEF Sound

LEMMA PldWrittenSound ==
    ASSUME NEW x, Sound(x), Gath(x), NEW n \in Nat, n > 0, n <= x.oxb - x.oxa, NEW who \in {"app", "hs"}
    PROVE  LET z == PldWritten(x, n, who)
           IN  /\ Sound(z) /\ KeepsIn(x, z)
               /\ \/ /\ Filled(z) /\ ~Gath(z) /\ n = x.oxb - x.oxa /\ z.oxc - z.oxa >= Header
                     /\ (HasPld(x) => x.by = who) =>
                          z.load = (IF who = "app" THEN x.oxb - x.oxc ELSE 0)
                  \/ Gath(z) /\ z.oxa = x.oxa + n /\ z.oxb = x.oxb /\ z.oxc = x.oxc
<1> DEFINE io == IF x.io = "inout" /\ x.shared THEN "out" ELSE x.io
           by == IF HasPld(x) /\ x.by # who THEN "mixed" ELSE who
           y == [x EXCEPT !.io = io, !.oxa = x.oxa + n, !.by = by]
           y1 == [y EXCEPT !.oxb = y.oxa + 1]
<1>1. x \in Engine /\ Wide(x) /\ InOK(x) /\ x.oxb - x.oxc >= 16 /\ Spans(x, x.oxb - x.oxc)
      /\ x.oxc <= x.oxa /\ x.oxa < x.oxb
  BY EngineTypes DEF Sound, OutOK, Gath, Filled
<1>2. x.oxa \in Nat /\ x.oxb \in Nat /\ x.oxc \in Nat
  BY <1>1, EngineTypes
<1>3. PldWritten(x, n, who) = IF y.oxa >= y.oxb THEN Seal(y1, FALSE) ELSE y
  BY DEF PldWritten
<1>4. io \in {"failed", "in", "out", "inout"} /\ (io = "failed") = (x.io = "failed")
      /\ by \in {"app", "hs", "mixed"}
  BY <1>1 DEF Engine
<1>5. x.oxa + n \in Nat /\ x.oxa + n + 1 \in Nat /\ x.oxa + n <= x.oxb
  BY <1>2
<1> HIDE DEF io, by
<1>6. y \in Engine
  BY <1>1, <1>4, <1>5 DEF Engine
<1>7. /\ y.oxa = x.oxa + n /\ y.oxb = x.oxb /\ y.oxc = x.oxc /\ y.olen = x.olen /\ y.ilen = x.ilen
      /\ y.ixa = x.ixa /\ y.ixb = x.ixb /\ y.ixc = x.ixc /\ y.app = x.app /\ y.io = io
      /\ y.out = x.out /\ y.frag = x.frag /\ y.by = by
  BY <1>1 DEF Engine
<1> HIDE DEF y
<1>11. y1 \in Engine
  <2>1. y.oxa + 1 \in Nat
    BY <1>5, <1>7
  <2> QED BY <1>6, <2>1 DEF Engine
<1>8. /\ y1.oxa = y.oxa /\ y1.oxb = y.oxa + 1 /\ y1.oxc = x.oxc /\ y1.olen = x.olen /\ y1.ilen = x.ilen
      /\ y1.ixa = x.ixa /\ y1.ixb = x.ixb /\ y1.ixc = x.ixc /\ y1.app = x.app /\ y1.io = io
      /\ y1.out = x.out /\ y1.frag = x.frag /\ y1.by = by
  BY <1>6, <1>7 DEF Engine
<1> HIDE DEF y1
<1>9. CASE y.oxa >= y.oxb
  <2>1. y.oxa = x.oxb
    BY <1>2, <1>5, <1>7, <1>9
  <2>2. Spans(y1, y1.oxa - y1.oxc)
    BY <1>1, <1>8, <2>1 DEF Spans
  <2>3. Gath(y1) /\ y1.oxa # y1.oxc
    BY <1>1, <1>2, <1>8, <2>1 DEF Gath
  <2>4. y1.oxa - y1.oxc <= MaxPlain
    <3>1. PICK fl \in 512..MaxPlain : Legal(x.out, fl, x.olen) /\ x.oxb - x.oxc <= Span(x.out, fl, x.olen)
      BY <1>1 DEF Spans
    <3>2. Span(x.out, fl, x.olen) \in 0..fl /\ fl \in Nat /\ fl <= MaxPlain
      BY <3>1, SpanIs DEF MaxPlain
    <3>3. x.oxb - x.oxc <= MaxPlain
      BY <1>2, <3>1, <3>2 DEF MaxPlain
    <3> QED BY <1>8, <2>1, <3>3
  <2>5. Wide(y1) /\ InOK(y1)
    BY <1>1, <1>8 DEF Wide, InOK
  <2>6. LET z == Seal(y1, FALSE)
        IN  /\ Sound(z) /\ Filled(z) /\ ~Gath(z) /\ KeepsIn(y1, z) /\ z.oxc - z.oxa >= Header
            /\ z.load = (IF y1.by = "app" THEN y1.oxa - y1.oxc ELSE 0)
    BY <1>11, <2>2, <2>3, <2>4, <2>5, SealSound
  <2>7. KeepsIn(x, Seal(y1, FALSE))
    BY <1>4, <1>8, <2>6 DEF KeepsIn
  <2>8. n = x.oxb - x.oxa
    BY <1>2, <1>7, <2>1
  <2>9. (HasPld(x) => x.by = who) => y1.by = who
    BY <1>8 DEF by
  <2> QED BY <1>3, <1>8, <1>9, <2>1, <2>6, <2>7, <2>8, <2>9
<1>10. CASE ~(y.oxa >= y.oxb)
  <2>1. Gath(y)
    BY <1>1, <1>2, <1>5, <1>7, <1>10 DEF Gath
  <2>2. Wide(y) /\ InOK(y) /\ KeepsIn(x, y)
    BY <1>1, <1>4, <1>7 DEF Wide, InOK, KeepsIn
  <2>3. OutOK(y)
    BY <1>1, <1>7, <2>1 DEF OutOK, Spans
  <2>4. Short(y)
    BY <1>7 DEF Sound, Short
  <2> QED BY <1>3, <1>6, <1>7, <1>10, <2>1, <2>2, <2>3, <2>4 DEF Sound
<1> QED BY <1>9, <1>10

LEMMA ReadyInSound ==
    ASSUME NEW x, Sound(x)
    PROVE  Sound(ReadyIn(x)) /\ KeepsOut(x, ReadyIn(x))
<1> DEFINE io == IF x.io = "in" THEN "inout" ELSE x.io
           z == [x EXCEPT !.ixa = 0, !.ixb = 0, !.ixc = 5, !.io = io]
<1>1. x \in Engine /\ io \in {"failed", "in", "out", "inout"} /\ (io = "failed") = (x.io = "failed")
  BY DEF Sound, Engine
<1>2. ReadyIn(x) = z
  BY DEF ReadyIn, Header
<1> HIDE DEF io
<1>3. z \in Engine
  BY <1>1 DEF Engine
<1>4. /\ z.ixa = 0 /\ z.ixb = 0 /\ z.ixc = 5 /\ z.io = io /\ z.olen = x.olen /\ z.ilen = x.ilen
      /\ z.frag = x.frag /\ z.app = x.app /\ z.out = x.out
      /\ z.oxa = x.oxa /\ z.oxb = x.oxb /\ z.oxc = x.oxc
  BY <1>1 DEF Engine
<1> HIDE DEF z
<1>5. InOK(z)
  BY <1>1, <1>4, EngineTypes DEF InOK, Header
<1>6. Wide(z) /\ OutOK(z) /\ Short(z) /\ KeepsOut(x, z)
  BY <1>1, <1>4 DEF Sound, Wide, OutOK, Gath, Filled, Spans, Short, KeepsOut
<1> QED BY <1>2, <1>3, <1>5, <1>6 DEF Sound

LEMMA PldReadSound ==
    ASSUME NEW x, Sound(x), NEW n \in Nat, n > 0, n <= x.ixb - x.ixa
    PROVE  Sound(PldRead(x, n)) /\ KeepsOut(x, PldRead(x, n))
<1>1. /\ x \in Engine /\ x.ixa \in Nat /\ x.ixb \in Nat /\ x.ilen \in Nat /\ x.ilen >= 837
      /\ x.ixa + n \in Nat /\ x.ixa + n <= x.ixb /\ x.ixb <= x.ilen
  <2>1. x \in Engine /\ Wide(x) /\ InOK(x)
    BY DEF Sound
  <2> QED BY <2>1, EngineTypes DEF Wide, InOK, MaxInOverhead
<1>2. CASE x.ixa + n # x.ixb
  <2> DEFINE z == [x EXCEPT !.ixa = x.ixa + n]
  <2>1. PldRead(x, n) = z
    BY <1>2 DEF PldRead
  <2>2. z \in Engine
    BY <1>1 DEF Engine
  <2>3. /\ z.ixa = x.ixa + n /\ z.ixb = x.ixb /\ z.io = x.io /\ z.olen = x.olen /\ z.ilen = x.ilen
        /\ z.frag = x.frag /\ z.app = x.app /\ z.out = x.out
        /\ z.oxa = x.oxa /\ z.oxb = x.oxb /\ z.oxc = x.oxc
    BY <1>1 DEF Engine
  <2> HIDE DEF z
  <2>4. InOK(z)
    BY <1>1, <1>2, <2>3 DEF InOK
  <2>5. Wide(z) /\ OutOK(z) /\ Short(z) /\ KeepsOut(x, z)
    BY <2>3 DEF Sound, Wide, OutOK, Gath, Filled, Spans, Short, KeepsOut
  <2> QED BY <2>1, <2>2, <2>4, <2>5 DEF Sound
<1>3. CASE x.ixa + n = x.ixb /\ x.ixc = 0
  BY <1>3, ReadyInSound DEF PldRead
<1>4. CASE x.ixa + n = x.ixb /\ x.ixc # 0
  <2> DEFINE z == [x EXCEPT !.ixa = 5, !.ixb = 5]
  <2>1. PldRead(x, n) = z
    BY <1>4 DEF PldRead, Header
  <2>2. z \in Engine
    BY <1>1 DEF Engine
  <2>3. /\ z.ixa = 5 /\ z.ixb = 5 /\ z.io = x.io /\ z.olen = x.olen /\ z.ilen = x.ilen
        /\ z.frag = x.frag /\ z.app = x.app /\ z.out = x.out
        /\ z.oxa = x.oxa /\ z.oxb = x.oxb /\ z.oxc = x.oxc
    BY <1>1 DEF Engine
  <2> HIDE DEF z
  <2>4. InOK(z)
    BY <1>1, <2>3 DEF InOK, Header
  <2>5. Wide(z) /\ OutOK(z) /\ Short(z) /\ KeepsOut(x, z)
    BY <2>3 DEF Sound, Wide, OutOK, Gath, Filled, Spans, Short, KeepsOut
  <2> QED BY <2>1, <2>2, <2>4, <2>5 DEF Sound
<1> QED BY <1>2, <1>3, <1>4

LEMMA RecWrittenSound ==
    ASSUME NEW x, Sound(x), Filled(x), NEW n \in Nat, n <= x.oxc - x.oxa
    PROVE  LET z == RecWritten(x, n)
           IN  Sound(z) /\ KeepsIn(x, z) /\ ~HasPld(z)
<1>1. /\ x \in Engine /\ Wide(x) /\ InOK(x) /\ x.oxa \in Nat /\ x.oxc \in Nat /\ x.olen \in Nat
      /\ x.oxa + n \in Nat
  BY EngineTypes DEF Sound
<1>2. CASE x.oxa + n = x.oxc
  BY <1>1, <1>2, ReadyOutSound DEF RecWritten, HasPld
<1>3. CASE x.oxa + n # x.oxc
  <2> DEFINE z == [x EXCEPT !.oxa = x.oxa + n, !.oxb = x.oxa + n]
  <2>1. RecWritten(x, n) = z
    BY <1>3 DEF RecWritten
  <2>2. z \in Engine
    BY <1>1 DEF Engine
  <2>3. /\ z.oxa = x.oxa + n /\ z.oxb = x.oxa + n /\ z.oxc = x.oxc /\ z.io = x.io /\ z.olen = x.olen
        /\ z.ilen = x.ilen /\ z.frag = x.frag /\ z.app = x.app /\ z.out = x.out
        /\ z.ixa = x.ixa /\ z.ixb = x.ixb /\ z.ixc = x.ixc
    BY <1>1 DEF Engine
  <2> HIDE DEF z
  <2>4. Filled(z) /\ ~Gath(z) /\ ~HasPld(z)
    BY <1>1, <1>3, <2>3 DEF Filled, Gath, HasPld
  <2>5. Wide(z) /\ InOK(z) /\ KeepsIn(x, z) /\ OutOK(z) /\ Short(z)
    BY <1>1, <2>3, <2>4 DEF Wide, InOK, KeepsIn, OutOK, Short
  <2> QED BY <2>1, <2>2, <2>4, <2>5 DEF Sound
<1> QED BY <1>2, <1>3

LEMMA NewFragSound ==
    ASSUME NEW x, Sound(x), NEW f \in 512..MaxPlain, f < x.frag,
           ~Renegotiates => ~HasPld(x), NEW k \in Nat
    PROVE  LET z == NewFrag(x, f)
           IN  /\ Sound(z) /\ KeepsIn(x, z) /\ (HasPld(z) => HasPld(x))
               /\ Empty(x, k) => Empty(z, Least(k, f))
<1> DEFINE nxb == x.oxc + f
           cut == x.oxa < x.oxb /\ x.oxb > nxb /\ x.oxa < nxb
           oxb == IF cut THEN nxb ELSE x.oxb
           z == [x EXCEPT !.frag = f, !.oxb = oxb]
<1>1. /\ x \in Engine /\ Wide(x) /\ InOK(x) /\ x.oxa \in Nat /\ x.oxb \in Nat /\ x.oxc \in Nat
      /\ x.frag \in Nat /\ f \in Nat /\ f >= 512
  BY EngineTypes, FragIs DEF Sound
<1>2. NewFrag(x, f) = z
  BY DEF NewFrag
<1>3. oxb \in Nat
  BY <1>1
<1> HIDE DEF oxb
<1>5. z \in Engine
  BY <1>1, <1>3 DEF Engine
<1>6. /\ z.frag = f /\ z.oxa = x.oxa /\ z.oxb = oxb /\ z.oxc = x.oxc /\ z.io = x.io /\ z.olen = x.olen
      /\ z.ilen = x.ilen /\ z.app = x.app /\ z.out = x.out
      /\ z.ixa = x.ixa /\ z.ixb = x.ixb /\ z.ixc = x.ixc
  BY <1>1 DEF Engine
<1> HIDE DEF z
<1>7. Wide(z) /\ InOK(z) /\ KeepsIn(x, z)
  <2>1. x.ilen >= x.frag + 325 /\ x.olen >= x.frag + 85 /\ x.ilen \in Nat /\ x.olen \in Nat
    BY <1>1, EngineTypes DEF Wide, MaxInOverhead, MaxOutOverhead
  <2>2. Wide(z)
    BY <1>1, <1>6, <2>1 DEF Wide, MaxInOverhead, MaxOutOverhead
  <2>3. InOK(z) /\ KeepsIn(x, z)
    BY <1>1, <1>6 DEF InOK, KeepsIn
  <2> QED BY <2>2, <2>3
<1>8. CASE Gath(x)
  <2>1. x.oxc <= x.oxa /\ x.oxa < x.oxb /\ x.oxb - x.oxc >= 16 /\ Spans(x, x.oxb - x.oxc)
    BY <1>1, <1>8 DEF Gath, Sound, OutOK, Filled
  <2>2. Gath(z) /\ oxb <= x.oxb /\ oxb - x.oxc >= 16
    BY <1>1, <1>6, <2>1 DEF oxb, Gath
  <2>3. Spans(z, oxb - x.oxc)
    <3>1. PICK fl \in 512..MaxPlain : Legal(x.out, fl, x.olen) /\ x.oxb - x.oxc <= Span(x.out, fl, x.olen)
      BY <2>1 DEF Spans
    <3>2. Span(x.out, fl, x.olen) \in 0..fl /\ fl \in Nat
      BY <3>1, SpanIs DEF MaxPlain
    <3>3. oxb - x.oxc <= Span(x.out, fl, x.olen)
      BY <1>1, <1>3, <2>2, <3>1, <3>2
    <3> QED BY <1>6, <2>1, <3>1, <3>3 DEF Spans
  <2>4. Short(z)
    <3>1. SUFFICES ASSUME ~Renegotiates PROVE oxb - x.oxc <= f
      BY <1>6 DEF Short
    <3>2. x.oxa = x.oxc
      BY <1>1, <2>1, <3>1 DEF HasPld
    <3> QED BY <1>1, <2>1, <3>2 DEF oxb
  <2>5. OutOK(z)
    BY <1>6, <2>2, <2>3 DEF OutOK
  <2>6. HasPld(z) => HasPld(x)
    BY <1>1, <1>6, <2>1 DEF HasPld
  <2>7. Empty(x, k) => Empty(z, Least(k, f))
    BY <1>1, <1>6, <2>2 DEF oxb, Empty, Least
  <2> QED BY <1>2, <1>5, <1>7, <2>4, <2>5, <2>6, <2>7 DEF Sound
<1>9. CASE ~Gath(x)
  <2>1. Filled(x)
    BY <1>9 DEF Sound, OutOK
  <2>2. oxb = x.oxb
    BY <1>1, <2>1 DEF Filled, oxb
  <2>3. Filled(z) /\ ~Gath(z) /\ ~HasPld(z) /\ ~Empty(x, k)
    BY <1>1, <1>6, <1>9, <2>1, <2>2 DEF Filled, Gath, HasPld, Empty
  <2> QED BY <1>2, <1>5, <1>7, <2>3 DEF Sound, OutOK, Short
<1> QED BY <1>8, <1>9

LEMMA ReceivedSound ==
    ASSUME Sound(e), NEW n \in Nat, n <= e.ixc, e.ixa = e.ixb, e.ixa + n <= e.ilen
    PROVE  LET z == Received(n)
           IN  /\ Sound(z) /\ KeepsOut(e, z) /\ z.ixa = e.ixa + n /\ z.ixb = e.ixa + n
               /\ z.ixc = e.ixc - n /\ z.ilen = e.ilen
<1> DEFINE io == IF e.io = "inout" /\ e.shared THEN "in" ELSE e.io
           z == [e EXCEPT !.io = io, !.ixa = e.ixa + n, !.ixb = e.ixa + n, !.ixc = e.ixc - n]
<1>1. /\ e \in Engine /\ e.ixa \in Nat /\ e.ixc \in Nat /\ e.ilen \in Nat /\ InOK(e)
      /\ e.ixa + n \in Nat /\ e.ixc - n \in Nat
      /\ io \in {"failed", "in", "out", "inout"} /\ (io = "failed") = (e.io = "failed")
  <2>1. e \in Engine /\ e.ixa \in Nat /\ e.ixc \in Nat /\ e.ilen \in Nat /\ InOK(e)
    BY EngineTypes DEF Sound
  <2>2. io \in {"failed", "in", "out", "inout"} /\ (io = "failed") = (e.io = "failed")
    BY <2>1 DEF Engine
  <2> HIDE DEF io
  <2> QED BY <2>1, <2>2
<1>2. Received(n) = z
  BY DEF Received
<1> HIDE DEF io
<1>3. z \in Engine
  BY <1>1 DEF Engine
<1>4. /\ z.ixa = e.ixa + n /\ z.ixb = e.ixa + n /\ z.ixc = e.ixc - n /\ z.io = io
      /\ z.olen = e.olen /\ z.ilen = e.ilen /\ z.frag = e.frag /\ z.app = e.app /\ z.out = e.out
      /\ z.oxa = e.oxa /\ z.oxb = e.oxb /\ z.oxc = e.oxc
  BY <1>1 DEF Engine
<1> HIDE DEF z
<1>5. InOK(z)
  BY <1>1, <1>4 DEF InOK, Header
<1>6. Wide(z) /\ OutOK(z) /\ Short(z) /\ KeepsOut(e, z)
  BY <1>1, <1>4 DEF Sound, Wide, OutOK, Gath, Filled, Spans, Short, KeepsOut
<1> QED BY <1>2, <1>3, <1>4, <1>5, <1>6 DEF Sound

LEMMA FailSound ==
    ASSUME NEW x, Sound(x)
    PROVE  Sound(Fail(x)) /\ Fail(x).app = x.app /\ Fail(x).oxa = x.oxa
           /\ Fail(x).oxb = x.oxb /\ Fail(x).oxc = x.oxc
<1> DEFINE z == [x EXCEPT !.io = "failed"]
<1>1. x \in Engine /\ Fail(x) = z
  BY DEF Sound, Fail
<1>2. z \in Engine
  BY <1>1 DEF Engine
<1>3. /\ z.ixa = x.ixa /\ z.ixb = x.ixb /\ z.ixc = x.ixc
      /\ z.olen = x.olen /\ z.ilen = x.ilen /\ z.frag = x.frag /\ z.app = x.app /\ z.out = x.out
      /\ z.oxa = x.oxa /\ z.oxb = x.oxb /\ z.oxc = x.oxc
  BY <1>1 DEF Engine
<1> HIDE DEF z
<1> QED BY <1>1, <1>2, <1>3 DEF Sound, InOK, Wide, OutOK, Gath, Filled, Spans, Short

(* Only the registers named in SameRegs decide. *)
SameRegs(x, z) ==
  /\ z.ixa = x.ixa /\ z.ixb = x.ixb /\ z.oxa = x.oxa /\ z.oxb = x.oxb /\ z.oxc = x.oxc
  /\ z.io = x.io

LEMMA SealKeeps ==
    ASSUME NEW x, Sound(x), NEW force \in BOOLEAN
    PROVE  LET z == Seal(x, force)
           IN  /\ Sound(z) /\ KeepsIn(x, z) /\ ~HasPld(z)
               /\ Gath(x) /\ x.oxa # x.oxc =>
                    /\ Filled(z) /\ ~Gath(z) /\ z.oxc - z.oxa >= Header
                    /\ z.load = (IF x.by = "app" THEN x.oxa - x.oxc ELSE 0)
<1>1. /\ x \in Engine /\ Wide(x) /\ InOK(x) /\ x.oxa \in Nat /\ x.oxb \in Nat /\ x.oxc \in Nat
  BY EngineTypes DEF Sound
<1>2. CASE Gath(x) /\ (x.oxa # x.oxc \/ force = TRUE)
  <2>1. x.oxc <= x.oxa /\ x.oxa < x.oxb /\ Spans(x, x.oxb - x.oxc)
    BY <1>1, <1>2 DEF Gath, Sound, OutOK, Filled
  <2>2. PICK fl \in 512..MaxPlain : Legal(x.out, fl, x.olen) /\ x.oxb - x.oxc <= Span(x.out, fl, x.olen)
    BY <2>1 DEF Spans
  <2>3. Span(x.out, fl, x.olen) \in 0..fl /\ fl \in Nat /\ fl <= MaxPlain
    BY <2>2, SpanIs DEF MaxPlain
  <2>4. Spans(x, x.oxa - x.oxc)
    <3>1. x.oxa - x.oxc <= Span(x.out, fl, x.olen)
      BY <1>1, <2>1, <2>2, <2>3
    <3> QED BY <2>1, <2>2, <3>1 DEF Spans
  <2>5. x.oxa - x.oxc <= MaxPlain
    BY <1>1, <2>1, <2>2, <2>3 DEF MaxPlain
  <2>6. LET z == Seal(x, force)
        IN  /\ Sound(z) /\ Filled(z) /\ ~Gath(z) /\ KeepsIn(x, z) /\ z.oxc - z.oxa >= Header
            /\ z.load = (IF x.by = "app" THEN x.oxa - x.oxc ELSE 0)
    BY <1>1, <1>2, <2>4, <2>5, SealSound
  <2> QED BY <2>6 DEF Filled, HasPld
<1>3. CASE ~(Gath(x) /\ (x.oxa # x.oxc \/ force = TRUE))
  <2>1. x.oxa = x.oxb \/ (x.oxa = x.oxc /\ force = FALSE)
    BY <1>1, <1>3 DEF Sound, OutOK, Filled
  <2>2. Seal(x, force) = x
    BY <2>1 DEF Seal
  <2> QED BY <1>1, <1>3, <2>1, <2>2 DEF KeepsIn, HasPld, Gath
<1> QED BY <1>2, <1>3

LEMMA FlushedSound ==
    ASSUME NEW x, Sound(x), cpu \in Cpu, cpu.put > 0 => Empty(x, cpu.put)
    PROVE  LET f == Flushed(x)
           IN  Sound(f) /\ KeepsIn(x, f) /\ ~HasPld(f)
<1> DEFINE w == IF cpu.put > 0 THEN PldWritten(x, cpu.put, "hs") ELSE x
<1>1. Sound(w) /\ KeepsIn(x, w)
  <2>1. CASE cpu.put > 0
    <3>1. cpu.put \in Nat /\ Gath(x) /\ cpu.put <= x.oxb - x.oxa
      BY <2>1 DEF Cpu, Empty
    <3> QED BY <2>1, <3>1, PldWrittenSound
  <2>2. CASE ~(cpu.put > 0)
    BY <2>2 DEF KeepsIn
  <2> QED BY <2>1, <2>2
<1>2. Flushed(x) = IF HasPld(w) THEN Seal(w, FALSE) ELSE w
  BY DEF Flushed
<1> HIDE DEF w
<1>3. Sound(Seal(w, FALSE)) /\ KeepsIn(w, Seal(w, FALSE)) /\ ~HasPld(Seal(w, FALSE))
  BY <1>1, SealKeeps
<1> QED BY <1>1, <1>2, <1>3 DEF KeepsIn

LEMMA MessageSound ==
    ASSUME NEW x, Sound(x), Gath(x), x.oxa = x.oxc, NEW type \in RecordTypes, NEW n \in Nat, n > 0, n <= 16
    PROVE  LET z == Message(x, type, n)
           IN  Sound(z) /\ KeepsIn(x, z) /\ Filled(z) /\ ~Gath(z)
<1> DEFINE t == [x EXCEPT !.typeOut = type]
           y == PldWritten(t, n, "hs")
<1>1. /\ x \in Engine /\ x.oxa \in Nat /\ x.oxb \in Nat /\ x.oxc \in Nat
  BY EngineTypes DEF Sound
<1>2. t \in Engine
  BY <1>1 DEF Engine
<1>3. /\ t.ixa = x.ixa /\ t.ixb = x.ixb /\ t.ixc = x.ixc /\ t.io = x.io
      /\ t.olen = x.olen /\ t.ilen = x.ilen /\ t.frag = x.frag /\ t.app = x.app /\ t.out = x.out
      /\ t.oxa = x.oxa /\ t.oxb = x.oxb /\ t.oxc = x.oxc
  BY <1>1 DEF Engine
<1>4. Message(x, type, n) = IF HasPld(y) THEN Seal(y, FALSE) ELSE y
  BY DEF Message
<1> HIDE DEF t
<1>5. Sound(t) /\ Gath(t)
  BY <1>2, <1>3 DEF Sound, InOK, Wide, OutOK, Gath, Filled, Spans, Short
<1>6. n <= t.oxb - t.oxa
  BY <1>1, <1>3 DEF Sound, OutOK, Filled, Gath
<1>7. /\ Sound(y) /\ KeepsIn(t, y)
      /\ \/ Filled(y) /\ ~Gath(y)
         \/ Gath(y) /\ y.oxa = t.oxa + n /\ y.oxc = t.oxc
  BY <1>5, <1>6, PldWrittenSound
<1> HIDE DEF y
<1>8. LET z == Seal(y, FALSE)
      IN  Sound(z) /\ KeepsIn(y, z) /\ (Gath(y) /\ y.oxa # y.oxc => Filled(z) /\ ~Gath(z))
  BY <1>7, SealKeeps
<1>9. CASE Filled(y) /\ ~Gath(y)
  <2>1. ~HasPld(y)
    BY <1>9 DEF Filled, HasPld
  <2> QED BY <1>3, <1>4, <1>7, <1>9, <2>1 DEF KeepsIn
<1>10. CASE Gath(y) /\ y.oxa = t.oxa + n /\ y.oxc = t.oxc
  <2>1. y.oxa # y.oxc
    BY <1>1, <1>3, <1>10
  <2>2. HasPld(y)
    <3>1. y.oxa \in Nat /\ y.oxb \in Nat
      BY <1>7, EngineTypes DEF Sound
    <3> QED BY <1>10, <2>1, <3>1 DEF HasPld, Gath
  <2> QED BY <1>3, <1>4, <1>7, <1>8, <1>10, <2>1, <2>2 DEF KeepsIn
<1> QED BY <1>7, <1>9, <1>10

---------------------------------------------------------------------------
(* The window of the processor. *)

LEMMA CpuTypes ==
    ASSUME NEW c \in Cpu
    PROVE  /\ c.hin0 \in Nat /\ c.hin \in Nat /\ c.hout \in Nat /\ c.put \in Nat
           /\ c.at \in Places /\ c.run \in {"off", "resume", "on"}
  BY DEF Cpu

LEMMA PiecesAre ==
    ASSUME NEW n \in Nat, n > 0, NEW k \in Pieces(n)
    PROVE  k \in Nat /\ k > 0 /\ k <= n
<1>1. CASE k = n
  BY <1>1
<1>2. CASE \E d \in Cuts : d < n /\ k = n - d
  BY <1>2, EngineAssumption
<1> QED BY <1>1, <1>2 DEF Pieces

LEMMA PldLens ==
    ASSUME NEW x, Sound(x)
    PROVE  /\ SendPldLen(x) \in Nat /\ RecvPldLen(x) \in Nat
           /\ SendPldLen(x) > 0 => Gath(x) /\ SendPldLen(x) = x.oxb - x.oxa
           /\ SendPldLen(x) > 0 /\ ~HasPld(x) => Empty(x, SendPldLen(x))
           /\ RecvPldLen(x) <= x.ixb - x.ixa
<1>1. /\ x \in Engine /\ InOK(x) /\ OutOK(x) /\ x.ixa \in Nat /\ x.ixb \in Nat
      /\ x.oxa \in Nat /\ x.oxb \in Nat /\ x.oxc \in Nat
  BY EngineTypes DEF Sound
<1>2. RecvPldLen(x) \in Nat /\ RecvPldLen(x) <= x.ixb - x.ixa
  BY <1>1 DEF RecvPldLen, InOK
<1>3. SendPldLen(x) \in Nat
  BY <1>1 DEF SendPldLen, OutOK, Gath, Filled
<1>4. ASSUME SendPldLen(x) > 0 PROVE Gath(x) /\ SendPldLen(x) = x.oxb - x.oxa
  <2>1. SendPldLen(x) = x.oxb - x.oxa
    BY <1>4 DEF SendPldLen
  <2> QED BY <1>1, <1>4, <2>1 DEF OutOK, Filled
<1>5. ASSUME SendPldLen(x) > 0, ~HasPld(x) PROVE Empty(x, SendPldLen(x))
  BY <1>1, <1>4, <1>5 DEF Empty, HasPld, Gath
<1> QED BY <1>2, <1>3, <1>4, <1>5

LEMMA EnteredOK ==
    ASSUME NEW x, Sound(x), x.io # "failed", NEW action \in 0..2, cpu \in Cpu, NEW p \in Places
    PROVE  LET c == [Entered(x, action) EXCEPT !.at = p]
           IN  /\ Entered(x, action) \in Cpu /\ Entered(x, action).at = cpu.at
               /\ Window(x, Entered(x, action))
               /\ c \in Cpu /\ c.at = p /\ Window(x, c)
<1> DEFINE hin == IF x.typeIn = "app" THEN 0 ELSE RecvPldLen(x)
           hout == IF HasPld(x) THEN 0 ELSE SendPldLen(x)
           d == [cpu EXCEPT !.run = "resume", !.act = action, !.hin0 = hin, !.hin = hin,
                            !.hout = hout, !.put = 0]
           c == [d EXCEPT !.at = p]
<1>1. Entered(x, action) = d
  BY DEF Entered
<1>2. /\ hin \in Nat /\ hin <= x.ixb - x.ixa /\ hout \in Nat /\ (hout > 0 => Empty(x, hout))
  <2>1. 0 <= x.ixb - x.ixa
    BY EngineTypes DEF Sound, InOK
  <2> QED BY <2>1, PldLens
<1> HIDE DEF hin, hout
<1>3. d \in Cpu
  BY <1>2 DEF Cpu
<1>4. /\ d.run = "resume" /\ d.hin0 = hin /\ d.hin = hin /\ d.hout = hout /\ d.put = 0 /\ d.at = cpu.at
  BY DEF Cpu
<1> HIDE DEF d
<1>5. c \in Cpu
  BY <1>3 DEF Cpu
<1>6. /\ c.run = "resume" /\ c.hin0 = hin /\ c.hin = hin /\ c.hout = hout /\ c.put = 0 /\ c.at = p
  BY <1>3, <1>4 DEF Cpu
<1> HIDE DEF c
<1>7. 0 + hout = hout
  BY <1>2
<1>8. Window(x, d) /\ Window(x, c)
  BY <1>2, <1>4, <1>6, <1>7 DEF Window
<1> QED BY <1>1, <1>3, <1>4, <1>5, <1>6, <1>8 DEF c

LEMMA EnterKeeps ==
    ASSUME Inv, NEW x, Sound(x), x.io # "failed", NEW action \in 0..2, Early(x, cpu), Enter(x, action)
    PROVE  Inv'
<1>1. e' = x /\ cpu' = Entered(x, action)
  BY DEF Enter
<1>2. cpu \in Cpu /\ cpu.at \in Places
  BY CpuTypes DEF Inv
<1>3. Entered(x, action) \in Cpu /\ Entered(x, action).at = cpu.at /\ Window(x, Entered(x, action))
  BY <1>2, EnteredOK
<1>4. Early(x, Entered(x, action))
  BY <1>3 DEF Early
<1> QED BY <1>1, <1>3, <1>4 DEF Inv

LEMMA RestKeeps ==
    ASSUME Inv, cpu.run = "off", NEW x, Sound(x), Early(x, cpu), Rest(x)
    PROVE  Inv'
<1>1. e' = x /\ cpu' = cpu
  BY DEF Rest
<1>2. Window(x, cpu)
  BY DEF Inv, Window
<1> QED BY <1>1, <1>2 DEF Inv

LEMMA StopKeeps ==
    ASSUME Inv, cpu.put = 0, Stop
    PROVE  Inv'
<1> DEFINE c == [cpu EXCEPT !.run = "off"]
<1>1. e' = Fail(e) /\ cpu' = c
  BY DEF Stop
<1>2. c \in Cpu /\ c.run = "off" /\ c.put = 0 /\ c.at = cpu.at
  BY DEF Inv, Cpu
<1> HIDE DEF c
<1>3. Sound(Fail(e)) /\ Fail(e).app = e.app /\ Fail(e).oxa = e.oxa /\ Fail(e).oxb = e.oxb /\ Fail(e).oxc = e.oxc
  BY FailSound DEF Inv
<1>4. Early(Fail(e), c)
  BY <1>2, <1>3 DEF Inv, Early, HasPld
<1>5. Window(Fail(e), c)
  BY <1>2 DEF Window
<1> QED BY <1>1, <1>2, <1>3, <1>4, <1>5 DEF Inv

(* The processor goes on with the registers as they are, and with no more  *)
(* in its hands than before.                                               *)
LEMMA MoveKeeps ==
    ASSUME Inv, cpu.run # "off", cpu.put = 0, NEW x, Sound(x), SameRegs(e, x), NEW c \in Cpu,
           c.put = 0, c.hin <= cpu.hin, c.hin0 = cpu.hin0, c.hout = cpu.hout \/ c.hout = 0,
           Early(x, c), e' = x, cpu' = c
    PROVE  Inv'
<1>1. /\ e.io # "failed" /\ cpu.hin <= cpu.hin0 /\ cpu.hin0 <= e.ixb - e.ixa
      /\ cpu.put + cpu.hout > 0 => Empty(e, cpu.put + cpu.hout)
      /\ c.hin \in Nat /\ cpu.hin \in Nat /\ cpu.hin0 \in Nat
  BY CpuTypes DEF Inv, Window
<1>2. c.hin <= c.hin0 /\ c.hin0 <= x.ixb - x.ixa /\ x.io # "failed"
  BY <1>1 DEF SameRegs
<1>3. c.put + c.hout > 0 => Empty(x, c.put + c.hout)
  BY <1>1 DEF SameRegs, Empty, Gath
<1>4. Window(x, c)
  BY <1>2, <1>3 DEF Window
<1> QED BY <1>4 DEF Inv

LEMMA GoKeeps ==
    ASSUME Inv, cpu.run # "off", cpu.put = 0, NEW x, Sound(x), SameRegs(e, x), NEW p \in Places,
           NEW h \in Nat, h <= cpu.hin, Early(x, [at |-> p]), Go(x, p, h)
    PROVE  Inv'
<1> DEFINE c == [cpu EXCEPT !.run = "on", !.at = p, !.hin = h]
<1>1. e' = x /\ cpu' = c
  BY DEF Go
<1>2. /\ c \in Cpu /\ c.put = 0 /\ c.at = p /\ c.hin = h /\ c.hin0 = cpu.hin0 /\ c.hout = cpu.hout
  BY DEF Inv, Cpu
<1> HIDE DEF c
<1>3. Early(x, c)
  BY <1>2 DEF Early
<1> QED BY <1>1, <1>2, <1>3, MoveKeeps

(* The processor has filled a record. *)
LEMMA MessageKeeps ==
    ASSUME Inv, cpu.run # "off", cpu.put = 0, NEW x, Sound(x), Filled(x),
           x.ixa = e.ixa, x.ixb = e.ixb, x.io # "failed", NEW c \in Cpu,
           c.put = 0, c.hin <= cpu.hin, c.hin0 = cpu.hin0, c.hout = 0,
           ~Renegotiates /\ c.at \in FirstHandshake => x.app = 0, e' = x, cpu' = c
    PROVE  Inv'
<1>1. /\ cpu.hin <= cpu.hin0 /\ cpu.hin0 <= e.ixb - e.ixa
      /\ c.hin \in Nat /\ cpu.hin \in Nat /\ cpu.hin0 \in Nat
  BY CpuTypes DEF Inv, Window
<1>2. c.hin <= c.hin0 /\ c.hin0 <= x.ixb - x.ixa
  BY <1>1
<1>3. ~HasPld(x)
  BY DEF Filled, HasPld
<1> QED BY <1>2, <1>3 DEF Inv, Window, Early

(* After a flush the processor has the whole of an empty payload, or none. *)
LEMMA FlushedKeeps ==
    ASSUME Inv, cpu.run # "off", NEW x, Sound(x), SameRegs(e, x), NEW c \in Cpu,
           c.put = 0, c.hin <= c.hin0, c.hin0 = cpu.hin0, c.hout = SendPldLen(Flushed(x)),
           ~Renegotiates /\ c.at \in FirstHandshake => x.app = 0,
           e' = Flushed(x), cpu' = c
    PROVE  Inv'
<1>1. /\ e.io # "failed" /\ cpu.hin0 <= e.ixb - e.ixa /\ cpu \in Cpu
      /\ cpu.put + cpu.hout > 0 => Empty(e, cpu.put + cpu.hout)
      /\ cpu.put \in Nat /\ cpu.hout \in Nat
  BY CpuTypes DEF Inv, Window
<1>2. cpu.put > 0 => Empty(x, cpu.put)
  <2>1. e \in Engine /\ e.oxa \in Nat /\ e.oxb \in Nat
    BY EngineTypes DEF Inv, Sound
  <2> QED BY <1>1, <2>1 DEF SameRegs, Empty, Gath
<1> DEFINE f == Flushed(x)
<1>3. Sound(f) /\ KeepsIn(x, f) /\ ~HasPld(f)
  BY <1>1, <1>2, FlushedSound
<1> HIDE DEF f
<1>4. c.hout \in Nat /\ c.hout = SendPldLen(f) /\ (c.hout > 0 => Empty(f, c.hout))
  BY <1>3, PldLens DEF f
<1>5. 0 + c.hout = c.hout
  BY <1>4
<1>6. f.io # "failed" /\ c.hin0 <= f.ixb - f.ixa /\ f.app = x.app
  BY <1>1, <1>3 DEF KeepsIn, SameRegs
<1>7. Window(f, c) /\ Early(f, c)
  BY <1>3, <1>4, <1>5, <1>6 DEF Window, Early
<1> QED BY <1>3, <1>7 DEF Inv, f

LEMMA GoFlushedKeeps ==
    ASSUME Inv, cpu.run # "off", NEW x, Sound(x), SameRegs(e, x), NEW p \in Places,
           NEW h \in Nat, h <= cpu.hin, ~Renegotiates /\ p \in FirstHandshake => x.app = 0,
           GoFlushed(x, p, h)
    PROVE  Inv'
<1> DEFINE n == SendPldLen(Flushed(x))
           c == [cpu EXCEPT !.run = "on", !.at = p, !.hin = h, !.put = 0, !.hout = n]
<1>1. e' = Flushed(x) /\ cpu' = c
  BY DEF GoFlushed
<1>2. cpu \in Cpu /\ cpu.hin <= cpu.hin0 /\ cpu.hin \in Nat /\ cpu.hin0 \in Nat
  BY CpuTypes DEF Inv, Window
<1>3. n \in Nat
  <2>1. cpu.put > 0 => Empty(x, cpu.put)
    <3>1. /\ cpu.put + cpu.hout > 0 => Empty(e, cpu.put + cpu.hout)
          /\ cpu.put \in Nat /\ cpu.hout \in Nat /\ e.oxa \in Nat /\ e.oxb \in Nat
      BY CpuTypes, EngineTypes DEF Inv, Window, Sound
    <3> QED BY <3>1 DEF SameRegs, Empty, Gath
  <2> QED BY <1>2, <2>1, FlushedSound, PldLens
<1> HIDE DEF n
<1>4. /\ c \in Cpu /\ c.run = "on" /\ c.put = 0 /\ c.at = p /\ c.hin = h /\ c.hin0 = cpu.hin0 /\ c.hout = n
  BY <1>2, <1>3 DEF Cpu
<1> HIDE DEF c
<1>5. c.hin <= c.hin0
  BY <1>2, <1>4
<1> QED BY <1>1, <1>4, <1>5, FlushedKeeps DEF n

LEMMA YieldKeeps ==
    ASSUME Inv, cpu.run = "on", NEW x, Sound(x), x.ixa = e.ixa, x.ixb = e.ixb,
           x.io # "failed", cpu.put > 0 => Empty(x, cpu.put), NEW p \in Places, NEW h \in Nat, h <= cpu.hin,
           cpu.put > 0 => p # "read", Early(x, [at |-> p]), Yield(x, p, h)
    PROVE  Inv'
<1> DEFINE w == IF cpu.put > 0 THEN PldWritten(x, cpu.put, "hs") ELSE x
           r == IF h # cpu.hin0 THEN PldRead(w, cpu.hin0 - h) ELSE w
           again == [Entered(r, 0) EXCEPT !.at = p]
           off == [cpu EXCEPT !.run = "off", !.at = p, !.put = 0]
<1>1. /\ cpu \in Cpu /\ cpu.hin <= cpu.hin0 /\ cpu.hin0 <= e.ixb - e.ixa /\ e.io # "failed"
      /\ cpu.hin \in Nat /\ cpu.hin0 \in Nat /\ cpu.put \in Nat
  BY CpuTypes DEF Inv, Window
<1>2. x.ixa = e.ixa /\ x.ixb = e.ixb /\ x.io # "failed"
  OBVIOUS
<1>3. e' = r /\ cpu' = IF h = 0 /\ cpu.hin0 > 0 THEN again ELSE off
  BY DEF Yield
<1>4. Sound(w) /\ KeepsIn(x, w) /\ (p = "read" => w = x)
  <2>1. CASE cpu.put > 0
    <3>1. Gath(x) /\ cpu.put <= x.oxb - x.oxa
      BY <2>1 DEF Empty
    <3> QED BY <1>1, <2>1, <3>1, PldWrittenSound
  <2>2. CASE ~(cpu.put > 0)
    BY <2>2 DEF KeepsIn
  <2> QED BY <2>1, <2>2
<1> HIDE DEF w
<1>5. Sound(r) /\ KeepsOut(w, r)
  <2>1. CASE h # cpu.hin0
    <3>1. w.ixb = e.ixb /\ w.ixa = e.ixa /\ e.ixa \in Nat /\ e.ixb \in Nat
      BY <1>2, <1>4, EngineTypes DEF KeepsIn, Inv, Sound
    <3>2. cpu.hin0 - h \in Nat /\ cpu.hin0 - h > 0 /\ cpu.hin0 - h <= e.ixb - e.ixa
      BY <1>1, <2>1, <3>1
    <3> QED BY <1>4, <2>1, <3>1, <3>2, PldReadSound
  <2>2. CASE h = cpu.hin0
    BY <1>4, <2>2 DEF KeepsOut
  <2> QED BY <2>1, <2>2
<1> HIDE DEF r
<1>6. r.io # "failed" /\ r.app = x.app /\ (p = "read" => (HasPld(r) => HasPld(x)))
  BY <1>2, <1>4, <1>5 DEF KeepsIn, KeepsOut, HasPld
<1>7. again \in Cpu /\ again.at = p /\ Window(r, again)
  BY <1>1, <1>5, <1>6, EnteredOK
<1>8. off \in Cpu /\ off.at = p /\ off.run = "off" /\ off.put = 0
  BY <1>1 DEF Cpu
<1> HIDE DEF again, off
<1>9. Window(r, off)
  BY <1>8 DEF Window
<1>10. Early(r, again) /\ Early(r, off)
  BY <1>6, <1>7, <1>8 DEF Early
<1> QED BY <1>3, <1>5, <1>7, <1>8, <1>9, <1>10 DEF Inv

---------------------------------------------------------------------------
(* The calls. *)

(* Fields that do not decide. *)
LEMMA SideSound ==
    ASSUME NEW x, Sound(x), NEW z \in Engine, SameRegs(x, z), z.ixc = x.ixc,
           z.ilen = x.ilen, z.olen = x.olen, z.frag = x.frag, z.out = x.out
    PROVE  Sound(z)
  BY DEF Sound, SameRegs, InOK, Wide, OutOK, Gath, Filled, Spans, Short

LEMMA SendAppKeeps == ASSUME Inv, SendApp PROVE Inv'
<1>1. cpu.run = "off" /\ SendAppLen(e) > 0 /\ Sound(e)
  BY DEF SendApp, Ready, Inv
<1>2. PICK n \in Pieces(SendAppLen(e)) : Rest(PldWritten(e, n, "app"))
  BY DEF SendApp
<1>3. e.app = 1 /\ SendAppLen(e) = SendPldLen(e)
  BY <1>1 DEF SendAppLen
<1>4. SendPldLen(e) \in Nat /\ Gath(e) /\ SendPldLen(e) = e.oxb - e.oxa
  BY <1>1, <1>3, PldLens
<1>5. n \in Nat /\ n > 0 /\ n <= e.oxb - e.oxa
  BY <1>1, <1>2, <1>3, <1>4, PiecesAre
<1> DEFINE z == PldWritten(e, n, "app")
<1>6. Sound(z) /\ KeepsIn(e, z)
  BY <1>1, <1>4, <1>5, PldWrittenSound
<1> HIDE DEF z
<1>7. Early(z, cpu)
  BY <1>3, <1>6 DEF Inv, Early, KeepsIn
<1> QED BY <1>1, <1>2, <1>6, <1>7, RestKeeps DEF z

LEMMA FlushAppKeeps == ASSUME Inv, FlushApp PROVE Inv'
<1>1. cpu.run = "off" /\ e.app = 1 /\ Sound(e)
  BY DEF FlushApp, Ready, Inv
<1>2. PICK force \in {FALSE, Forces} : Rest(Seal(e, force))
  BY DEF FlushApp
<1>3. force \in BOOLEAN
  BY EngineAssumption
<1> DEFINE z == Seal(e, force)
<1>4. Sound(z) /\ KeepsIn(e, z)
  BY <1>1, <1>3, SealKeeps
<1> HIDE DEF z
<1>5. Early(z, cpu)
  BY <1>1, <1>4 DEF Inv, Early, KeepsIn
<1> QED BY <1>1, <1>2, <1>4, <1>5, RestKeeps DEF z

LEMMA SendRecKeeps == ASSUME Inv, SendRec PROVE Inv'
<1>1. cpu.run = "off" /\ e.io # "failed" /\ SendRecLen(e) > 0 /\ Sound(e)
  BY DEF SendRec, Ready, Closed, Inv
<1>2. PICK n \in Pieces(SendRecLen(e)) :
        LET x == RecWritten(e, n)
        IN  IF ~HasRec(x) /\ (x.typeOut # "app" \/ x.app # 1) THEN Enter(x, 0) ELSE Rest(x)
  BY DEF SendRec
<1>3. e.oxa \in Nat /\ e.oxb \in Nat /\ e.oxc \in Nat
  BY <1>1, EngineTypes DEF Sound
<1>4. SendRecLen(e) = e.oxc - e.oxa /\ e.oxc > e.oxa /\ SendRecLen(e) \in Nat
  BY <1>1, <1>3 DEF SendRecLen
<1>5. Filled(e)
  BY <1>1, <1>3, <1>4 DEF Sound, OutOK, Gath
<1>6. n \in Nat /\ n <= e.oxc - e.oxa
  BY <1>1, <1>2, <1>4, PiecesAre
<1> DEFINE z == RecWritten(e, n)
<1>7. Sound(z) /\ KeepsIn(e, z) /\ ~HasPld(z)
  BY <1>1, <1>5, <1>6, RecWrittenSound
<1>8. Enter(z, 0) \/ Rest(z)
  BY <1>2
<1> HIDE DEF z
<1>9. Early(z, cpu) /\ z.io # "failed"
  BY <1>1, <1>7 DEF Inv, Early, KeepsIn
<1>10. CASE Enter(z, 0)
  <2>1. 0 \in 0..2
    OBVIOUS
  <2> QED BY <1>7, <1>9, <1>10, <2>1, EnterKeeps
<1>11. CASE Rest(z)
  BY <1>1, <1>7, <1>9, <1>11, RestKeeps
<1> QED BY <1>8, <1>10, <1>11

(* What was read leaves the output alone. *)
LEMMA EarlyKept ==
    ASSUME NEW x, NEW z, NEW c, Early(x, c), KeepsOut(x, z)
    PROVE  Early(z, c) /\ (x.io # "failed" => z.io # "failed")
  BY DEF Early, KeepsOut, HasPld

LEMMA RecvAppKeeps == ASSUME Inv, RecvApp PROVE Inv'
<1>1. cpu.run = "off" /\ RecvAppLen(e) > 0 /\ Sound(e) /\ Early(e, cpu)
  BY DEF RecvApp, Ready, Inv
<1>2. PICK n \in Pieces(RecvAppLen(e)) : Rest(PldRead(e, n))
  BY DEF RecvApp
<1>3. RecvAppLen(e) = RecvPldLen(e) /\ RecvPldLen(e) \in Nat /\ RecvPldLen(e) <= e.ixb - e.ixa
  BY <1>1, PldLens DEF RecvAppLen
<1>4. e.ixa \in Nat /\ e.ixb \in Nat
  BY <1>1, EngineTypes DEF Sound
<1>5. n \in Nat /\ n > 0 /\ n <= RecvPldLen(e)
  BY <1>1, <1>2, <1>3, PiecesAre
<1>6. n <= e.ixb - e.ixa
  BY <1>3, <1>4, <1>5
<1>7. Sound(PldRead(e, n)) /\ KeepsOut(e, PldRead(e, n))
  BY <1>1, <1>5, <1>6, PldReadSound
<1> QED BY <1>1, <1>2, <1>7, EarlyKept, RestKeeps

(* How much of a record may come. *)
LEMMA RecvRecIs ==
    ASSUME Sound(e), RecvRecLen(e) > 0
    PROVE  /\ e.io # "failed" /\ e.ixa = e.ixb /\ RecvRecLen(e) \in Nat
           /\ RecvRecLen(e) <= e.ixc /\ e.ixa + RecvRecLen(e) <= e.ilen
           /\ e.ixa \in Nat /\ e.ixb \in Nat /\ e.ixc \in Nat /\ e.ilen \in Nat /\ e.ilen >= 837
           /\ e.ixa < Header => e.ixc = Header - e.ixa
<1>1. /\ e.ixa \in Nat /\ e.ixb \in Nat /\ e.ixc \in Nat /\ e.ilen \in Nat /\ e.ilen >= 837
      /\ e.ixb <= e.ilen
  BY EngineTypes DEF Sound, Wide, MaxInOverhead, InOK
<1>2. CanIn(e) /\ e.ixa = e.ixb /\ RecvRecLen(e) = Least(e.ixc, e.ilen - e.ixa)
  BY DEF RecvRecLen
<1>3. e.io # "failed"
  BY <1>2 DEF CanIn
<1>4. e.ixa < Header => e.ixc = Header - e.ixa
  BY <1>2 DEF Sound, InOK
<1> QED BY <1>1, <1>2, <1>3, <1>4 DEF Least

LEMMA GetPartOfHeaderKeeps == ASSUME Inv, GetPartOfHeader PROVE Inv'
<1>1. cpu.run = "off" /\ RecvRecLen(e) > 0 /\ Sound(e) /\ Early(e, cpu)
  BY DEF GetPartOfHeader, Ready, Inv
<1>2. PICK n \in Pieces(RecvRecLen(e)) : e.ixa + n < Header /\ Rest(Received(n))
  BY DEF GetPartOfHeader
<1>3. n \in Nat /\ n <= e.ixc /\ e.ixa + n <= e.ilen /\ e.ixa = e.ixb
  <2>1. n \in Nat /\ n > 0 /\ n <= RecvRecLen(e)
    BY <1>1, <1>2, RecvRecIs, PiecesAre
  <2> QED BY <1>1, <2>1, RecvRecIs
<1>4. Sound(Received(n)) /\ KeepsOut(e, Received(n))
  BY <1>1, <1>3, ReceivedSound
<1> QED BY <1>1, <1>2, <1>4, EarlyKept, RestKeeps

(* Changes of the input registers only. *)
LEMMA InputSound ==
    ASSUME NEW x, Sound(x), NEW z \in Engine, InOK(z), KeepsOut(x, z),
           z.ilen = x.ilen, z.olen = x.olen, z.frag = x.frag, z.out = x.out
    PROVE  Sound(z)
  BY DEF Sound, KeepsOut, Wide, OutOK, Gath, Filled, Spans, Short

LEMMA EarlyFailed ==
    ASSUME NEW x, Sound(x), NEW c, Early(x, c)
    PROVE  Sound(Fail(x)) /\ Early(Fail(x), c)
  BY FailSound DEF Early, HasPld

LEMMA AnnouncedIs ==
    ASSUME Sound(e), NEW type, NEW len \in InLens
    PROVE  /\ Announced(type, len) \in Nat /\ len \in Nat /\ Before(e.in) \in Nat
           /\ e.in # Clear => Before(e.in) + len <= Announced(type, len)
<1>1. len \in Nat /\ e.in \in Schemes
  <2>1. len \in 0..MaxPlain
    BY EngineAssumption
  <2>2. len \in Nat
    BY <2>1 DEF MaxPlain
  <2> QED BY <2>2, EngineTypes DEF Sound
<1>2. Before(e.in) \in Nat
  BY <1>1, StartIs
<1>3. CASE e.in = Clear
  BY <1>1, <1>2, <1>3 DEF Announced
<1>4. CASE e.in # Clear
  <2>1. /\ Sealed(e.in, type, 0, len).rlen = Before(e.in) + len + Behind(e.in, len)
        /\ Behind(e.in, len) \in 0..64 /\ Sealed(e.in, type, 0, len).rlen \in Nat
    BY <1>1, SealedIs
  <2> QED BY <1>1, <1>2, <1>4, <2>1 DEF Announced
<1> QED BY <1>3, <1>4

LEMMA DispatchKeeps ==
    ASSUME Inv, cpu.run = "off", NEW x, Sound(x), x.io # "failed", Early(x, cpu), Dispatch(x)
    PROVE  Inv'
<1>1. CASE x.ixa = x.ixb
  <2>1. Rest(ReadyIn(x))
    BY <1>1 DEF Dispatch
  <2>2. Sound(ReadyIn(x)) /\ Early(ReadyIn(x), cpu)
    BY ReadyInSound, EarlyKept
  <2> QED BY <2>1, <2>2, RestKeeps
<1>2. CASE x.ixa # x.ixb /\ x.typeIn # "app"
  <2>1. Enter(x, 0) /\ 0 \in 0..2
    BY <1>2 DEF Dispatch
  <2> QED BY <2>1, EnterKeeps
<1>3. CASE x.ixa # x.ixb /\ x.typeIn = "app"
  <2>1. PICK z \in {x, PldRead(x, x.ixb - x.ixa), Fail(x)} : Rest(z)
    <3>1. CASE x.app = 1
      BY <1>3, <3>1 DEF Dispatch
    <3>2. CASE x.app = 2
      BY <1>3, <3>2 DEF Dispatch
    <3>3. CASE x.app # 1 /\ x.app # 2
      BY <1>3, <3>3 DEF Dispatch
    <3> QED BY <3>1, <3>2, <3>3
  <2>2. x.ixb - x.ixa \in Nat /\ x.ixb - x.ixa > 0
    BY <1>3, EngineTypes DEF Sound, InOK
  <2>3. Sound(PldRead(x, x.ixb - x.ixa)) /\ KeepsOut(x, PldRead(x, x.ixb - x.ixa))
    BY <2>2, PldReadSound
  <2>4. Sound(z) /\ Early(z, cpu)
    BY <2>1, <2>3, EarlyKept, EarlyFailed
  <2> QED BY <2>1, <2>4, RestKeeps
<1> QED BY <1>1, <1>2, <1>3

LEMMA GetHeaderKeeps == ASSUME Inv, GetHeader PROVE Inv'
<1>1. cpu.run = "off" /\ RecvRecLen(e) > 0 /\ e.ixa < Header /\ Sound(e) /\ Early(e, cpu)
  BY DEF GetHeader, Ready, Inv
<1> DEFINE k == Header - e.ixa
           y == Received(k)
<1>2. PICK type \in RecordTypes, len \in InLens :
        LET rlen == Announced(type, len)
            x    == [y EXCEPT !.typeIn = type]
        IN  Rest(IF \/ ~CheckLength(e.in, rlen)
                    \/ e.in # Clear /\ rlen > e.ilen - Header THEN Fail(x)
                 ELSE IF rlen = 0 THEN ReadyIn(x)
                 ELSE [x EXCEPT !.ixa = Header, !.ixb = Header, !.ixc = rlen])
  BY DEF GetHeader
<1> DEFINE rlen == Announced(type, len)
           x == [y EXCEPT !.typeIn = type]
           g == [x EXCEPT !.ixa = Header, !.ixb = Header, !.ixc = rlen]
<1>3. /\ k \in Nat /\ k <= e.ixc /\ e.ixa = e.ixb /\ e.ixa + k = Header /\ Header <= e.ilen
      /\ e.ilen \in Nat /\ e.ilen >= 837
  BY <1>1, RecvRecIs DEF Header
<1>4. Sound(y) /\ KeepsOut(e, y) /\ y.ilen = e.ilen
  BY <1>1, <1>3, ReceivedSound
<1>5. rlen \in Nat
  BY <1>1, AnnouncedIs
<1>6. Rest(Fail(x)) \/ Rest(ReadyIn(x)) \/ Rest(g)
  BY <1>2
<1> HIDE DEF y, rlen
<1>7. y \in Engine
  BY <1>4 DEF Sound
<1>8. x \in Engine
  BY <1>7 DEF Engine
<1>9. /\ SameRegs(y, x) /\ x.ixc = y.ixc /\ x.ilen = y.ilen /\ x.olen = y.olen /\ x.frag = y.frag
      /\ x.out = y.out /\ x.app = y.app
  BY <1>7 DEF Engine, SameRegs
<1> HIDE DEF x
<1>10. Sound(x) /\ KeepsOut(e, x)
  BY <1>4, <1>8, <1>9, SideSound DEF SameRegs, KeepsOut
<1>11. Early(x, cpu)
  BY <1>1, <1>10, EarlyKept
<1>12. g \in Engine
  BY <1>5, <1>8 DEF Engine, Header
<1>13. /\ g.ixa = Header /\ g.ixb = Header /\ g.ilen = x.ilen /\ g.olen = x.olen /\ g.frag = x.frag
       /\ g.out = x.out /\ KeepsOut(x, g)
  BY <1>8 DEF Engine, KeepsOut
<1> HIDE DEF g
<1>14. InOK(g)
  BY <1>3, <1>4, <1>9, <1>13 DEF InOK, Header
<1>15. Sound(g) /\ Early(g, cpu)
  BY <1>10, <1>11, <1>12, <1>13, <1>14, InputSound, EarlyKept
<1>16. Sound(ReadyIn(x)) /\ Early(ReadyIn(x), cpu) /\ Sound(Fail(x)) /\ Early(Fail(x), cpu)
  BY <1>10, <1>11, ReadyInSound, EarlyKept, EarlyFailed
<1> QED BY <1>1, <1>6, <1>15, <1>16, RestKeeps

(* A record's payload, wherever it lies. *)
LEMMA BodyKeeps ==
    ASSUME Inv, cpu.run = "off", NEW x, Sound(x), x.io # "failed", Early(x, cpu),
           NEW z \in Engine, Header <= z.ixa, z.ixa <= z.ixb, z.ixb <= x.ilen, KeepsOut(x, z),
           z.ilen = x.ilen, z.olen = x.olen, z.frag = x.frag, z.out = x.out, Dispatch(z)
    PROVE  Inv'
<1>1. z.ixa \in Nat
  BY EngineTypes
<1>2. InOK(z)
  BY <1>1 DEF InOK, Header
<1>3. Sound(z) /\ Early(z, cpu) /\ z.io # "failed"
  BY <1>2, InputSound, EarlyKept
<1> QED BY <1>3, DispatchKeeps

LEMMA GetBodyKeeps == ASSUME Inv, GetBody PROVE Inv'
<1>1. cpu.run = "off" /\ RecvRecLen(e) > 0 /\ e.ixa >= Header /\ Sound(e) /\ Early(e, cpu)
  BY DEF GetBody, Ready, Inv
<1>2. PICK n \in Pieces(RecvRecLen(e)) :
        LET x == Received(n)
        IN  IF e.in = Clear THEN Dispatch([x EXCEPT !.ixa = Header])
            ELSE IF x.ixc > 0 THEN Rest(x)
            ELSE \E len \in InLens :
                   /\ Announced(e.typeIn, len) = x.ixa - Header
                   /\ Dispatch([x EXCEPT !.ixa = Header + Before(e.in),
                                         !.ixb = Header + Before(e.in) + len])
  BY DEF GetBody
<1> DEFINE x == Received(n)
<1>3. /\ n \in Nat /\ n <= e.ixc /\ e.ixa = e.ixb /\ e.ixa + n <= e.ilen /\ e.io # "failed"
      /\ e.ixa \in Nat /\ e.ilen \in Nat
  <2>1. n \in Nat /\ n <= RecvRecLen(e)
    BY <1>1, RecvRecIs, PiecesAre
  <2> QED BY <1>1, <2>1, RecvRecIs
<1>4. Sound(x) /\ KeepsOut(e, x) /\ x.ilen = e.ilen /\ x.ixa = e.ixa + n /\ x.ixb = e.ixa + n
  BY <1>1, <1>3, ReceivedSound
<1>5. Early(x, cpu) /\ x.io # "failed"
  BY <1>1, <1>3, <1>4, EarlyKept
<1>6. \/ Dispatch([x EXCEPT !.ixa = Header])
      \/ Rest(x)
      \/ e.in # Clear /\ \E len \in InLens :
           /\ Announced(e.typeIn, len) = x.ixa - Header
           /\ Dispatch([x EXCEPT !.ixa = Header + Before(e.in), !.ixb = Header + Before(e.in) + len])
  BY <1>2
<1> HIDE DEF x
<1>7. x \in Engine /\ x.ixa \in Nat /\ Before(e.in) \in Nat
  BY <1>1, <1>4, EngineTypes, StartIs DEF Sound
<1>8. CASE Dispatch([x EXCEPT !.ixa = Header])
  <2> DEFINE z == [x EXCEPT !.ixa = Header]
  <2>1. z \in Engine
    BY <1>7 DEF Engine, Header
  <2>2. /\ z.ixa = Header /\ z.ixb = x.ixb /\ z.ilen = x.ilen /\ z.olen = x.olen /\ z.frag = x.frag
        /\ z.out = x.out /\ KeepsOut(x, z)
    BY <1>7 DEF Engine, KeepsOut
  <2> HIDE DEF z
  <2>3. Header <= z.ixa /\ z.ixa <= z.ixb /\ z.ixb <= x.ilen
    BY <1>1, <1>3, <1>4, <2>2 DEF Header
  <2>4. Dispatch(z)
    BY <1>8 DEF z
  <2> QED BY <1>1, <1>4, <1>5, <2>1, <2>2, <2>3, <2>4, BodyKeeps
<1>9. CASE Rest(x)
  BY <1>1, <1>4, <1>5, <1>9, RestKeeps
<1>10. ASSUME e.in # Clear, NEW len \in InLens, Announced(e.typeIn, len) = x.ixa - Header,
              Dispatch([x EXCEPT !.ixa = Header + Before(e.in), !.ixb = Header + Before(e.in) + len])
       PROVE  Inv'
  <2> DEFINE a == Header + Before(e.in)
             b == Header + Before(e.in) + len
             z == [x EXCEPT !.ixa = a, !.ixb = b]
  <2>1. len \in Nat /\ Before(e.in) \in Nat /\ Before(e.in) + len <= x.ixa - Header
    BY <1>1, <1>10, AnnouncedIs
  <2>2. a \in Nat /\ b \in Nat /\ Header <= a /\ a <= b /\ b <= x.ilen
    BY <1>3, <1>4, <2>1 DEF Header
  <2> HIDE DEF a, b
  <2>3. z \in Engine
    BY <1>7, <2>2 DEF Engine
  <2>4. /\ z.ixa = a /\ z.ixb = b /\ z.ilen = x.ilen /\ z.olen = x.olen /\ z.frag = x.frag
        /\ z.out = x.out /\ KeepsOut(x, z)
    BY <1>7 DEF Engine, KeepsOut
  <2> HIDE DEF z
  <2>5. Dispatch(z)
    BY <1>10 DEF z, a, b
  <2> QED BY <1>1, <1>4, <1>5, <2>2, <2>3, <2>4, <2>5, BodyKeeps
<1> QED BY <1>6, <1>8, <1>9, <1>10

LEMMA CloseKeeps == ASSUME Inv, Close PROVE Inv'
<1>1. e.io # "failed" /\ Sound(e) /\ Early(e, cpu)
  BY DEF Close, Ready, Closed, Inv
<1> DEFINE z == IF RecvAppLen(e) > 0 THEN PldRead(e, RecvAppLen(e)) ELSE e
<1>2. Enter(z, 1) /\ 1 \in 0..2
  BY DEF Close
<1>3. Sound(z) /\ KeepsOut(e, z)
  <2>1. CASE RecvAppLen(e) > 0
    <3>1. RecvAppLen(e) = RecvPldLen(e) /\ RecvPldLen(e) \in Nat /\ RecvPldLen(e) <= e.ixb - e.ixa
      BY <1>1, <2>1, PldLens DEF RecvAppLen
    <3> QED BY <1>1, <2>1, <3>1, PldReadSound
  <2>2. CASE ~(RecvAppLen(e) > 0)
    BY <1>1, <2>2 DEF KeepsOut
  <2> QED BY <2>1, <2>2
<1> HIDE DEF z
<1> QED BY <1>1, <1>2, <1>3, EarlyKept, EnterKeeps

LEMMA RenegotiateKeeps == ASSUME Inv, Renegotiate PROVE Inv'
<1>1. e.io # "failed" /\ Sound(e) /\ Early(e, cpu) /\ Enter(e, 2) /\ 2 \in 0..2
  BY DEF Renegotiate, Ready, Closed, Inv
<1> QED BY <1>1, EnterKeeps

LEMMA CallKeeps == ASSUME Inv, Call PROVE Inv'
  BY SendAppKeeps, FlushAppKeeps, SendRecKeeps, RecvAppKeeps, GetPartOfHeaderKeeps,
     GetHeaderKeeps, GetBodyKeeps, CloseKeeps, RenegotiateKeeps DEF Call

---------------------------------------------------------------------------
(* The processor. *)

LEMMA HandsAre ==
    ASSUME Inv, cpu.run # "off"
    PROVE  /\ Sound(e) /\ Early(e, cpu) /\ Early(e, [at |-> cpu.at]) /\ SameRegs(e, e) /\ e.io # "failed"
           /\ cpu \in Cpu /\ cpu.at \in Places /\ cpu.hin \in Nat /\ cpu.hin0 \in Nat
           /\ cpu.hout \in Nat /\ cpu.put \in Nat /\ cpu.hin <= cpu.hin0 /\ 0 <= cpu.hin
           /\ cpu.run = "resume" \/ cpu.at # "write" => cpu.put = 0
           /\ cpu.put > 0 => Empty(e, cpu.put)
           /\ cpu.put + cpu.hout > 0 => Empty(e, cpu.put + cpu.hout)
           /\ cpu.hout > 0 => Gath(e) /\ e.oxa = e.oxc
           /\ ~Renegotiates /\ cpu.at \in FirstHandshake => e.app = 0
<1>1. /\ Sound(e) /\ Early(e, cpu) /\ cpu \in Cpu /\ e.io # "failed" /\ cpu.hin <= cpu.hin0
      /\ cpu.put + cpu.hout > 0 => Empty(e, cpu.put + cpu.hout)
      /\ cpu.put > 0 => cpu.run = "on" /\ cpu.at = "write"
  BY DEF Inv, Window
<1>2. /\ cpu.at \in Places /\ cpu.hin \in Nat /\ cpu.hin0 \in Nat /\ cpu.hout \in Nat /\ cpu.put \in Nat
  BY <1>1, CpuTypes
<1>3. e.oxa \in Nat /\ e.oxb \in Nat /\ e.oxc \in Nat
  BY <1>1, EngineTypes DEF Sound
<1>4. cpu.put > 0 => Empty(e, cpu.put)
  BY <1>1, <1>2, <1>3 DEF Empty
<1>5. cpu.hout > 0 => Gath(e) /\ e.oxa = e.oxc
  BY <1>1, <1>2 DEF Empty
<1>6. cpu.run = "resume" \/ cpu.at # "write" => cpu.put = 0
  BY <1>1, <1>2
<1>7. Early(e, [at |-> cpu.at]) /\ SameRegs(e, e)
  BY <1>1 DEF Early, SameRegs
<1>8. ~Renegotiates /\ cpu.at \in FirstHandshake => e.app = 0
  BY <1>1 DEF Early
<1> QED BY <1>1, <1>2, <1>4, <1>5, <1>6, <1>7, <1>8

LEMMA FlushedLen ==
    ASSUME Inv, cpu.run # "off", NEW x, Sound(x), SameRegs(e, x)
    PROVE  SendPldLen(Flushed(x)) \in Nat
<1>1. cpu.put > 0 => Empty(x, cpu.put)
  BY HandsAre DEF SameRegs, Empty, Gath
<1> QED BY <1>1, HandsAre, FlushedSound, PldLens

LEMMA LaterIsEarly ==
    ASSUME NEW x, NEW p \in Places \ FirstHandshake
    PROVE  Early(x, [at |-> p])
  BY DEF Early

LEMMA PlacesAre ==
    /\ FirstHandshake \subseteq Places
    /\ {"idle", "hreq", "refuse", "close", "bye"} \subseteq Places \ FirstHandshake
  BY DEF Places, FirstHandshake

(* application_data, shutdown_recv, the record type and the decryption are *)
(* no concern of the registers.                                            *)
LEMMA AppSound ==
    ASSUME NEW x, Sound(x), NEW a \in 0..2
    PROVE  LET z == [x EXCEPT !.app = a]
           IN  Sound(z) /\ SameRegs(x, z) /\ z.app = a
<1> DEFINE z == [x EXCEPT !.app = a]
<1>1. x \in Engine
  BY DEF Sound
<1>2. z \in Engine
  BY <1>1 DEF Engine
<1>3. /\ SameRegs(x, z) /\ z.ixc = x.ixc /\ z.ilen = x.ilen /\ z.olen = x.olen
      /\ z.frag = x.frag /\ z.out = x.out /\ z.app = a
  BY <1>1 DEF Engine, SameRegs
<1> HIDE DEF z
<1>4. Sound(z)
  BY <1>2, <1>3, SideSound
<1> QED BY <1>3, <1>4 DEF z

LEMMA ShutSound ==
    ASSUME NEW x, Sound(x), NEW a \in 0..2, NEW b \in BOOLEAN
    PROVE  LET z == [x EXCEPT !.app = a, !.shut = b]
           IN  Sound(z) /\ SameRegs(x, z) /\ z.app = a
<1> DEFINE z == [x EXCEPT !.app = a, !.shut = b]
<1>1. x \in Engine
  BY DEF Sound
<1>2. z \in Engine
  BY <1>1 DEF Engine
<1>3. /\ SameRegs(x, z) /\ z.ixc = x.ixc /\ z.ilen = x.ilen /\ z.olen = x.olen
      /\ z.frag = x.frag /\ z.out = x.out /\ z.app = a
  BY <1>1 DEF Engine, SameRegs
<1> HIDE DEF z
<1>4. Sound(z)
  BY <1>2, <1>3, SideSound
<1> QED BY <1>3, <1>4 DEF z

LEMMA TypeSound ==
    ASSUME NEW x, Sound(x), NEW a \in 0..2, NEW t \in RecordTypes
    PROVE  LET z == [x EXCEPT !.app = a, !.typeOut = t]
           IN  Sound(z) /\ SameRegs(x, z) /\ z.app = a
<1> DEFINE z == [x EXCEPT !.app = a, !.typeOut = t]
<1>1. x \in Engine
  BY DEF Sound
<1>2. z \in Engine
  BY <1>1 DEF Engine
<1>3. /\ SameRegs(x, z) /\ z.ixc = x.ixc /\ z.ilen = x.ilen /\ z.olen = x.olen
      /\ z.frag = x.frag /\ z.out = x.out /\ z.app = a
  BY <1>1 DEF Engine, SameRegs
<1> HIDE DEF z
<1>4. Sound(z)
  BY <1>2, <1>3, SideSound
<1> QED BY <1>3, <1>4 DEF z

LEMMA DecryptionSound ==
    ASSUME NEW x, Sound(x), NEW s \in Schemes
    PROVE  LET z == [x EXCEPT !.in = s]
           IN  Sound(z) /\ SameRegs(x, z) /\ z.app = x.app
<1> DEFINE z == [x EXCEPT !.in = s]
<1>1. x \in Engine
  BY DEF Sound
<1>2. z \in Engine
  BY <1>1 DEF Engine
<1>3. /\ SameRegs(x, z) /\ z.ixc = x.ixc /\ z.ilen = x.ilen /\ z.olen = x.olen
      /\ z.frag = x.frag /\ z.out = x.out /\ z.app = x.app
  BY <1>1 DEF Engine, SameRegs
<1> HIDE DEF z
<1>4. Sound(z)
  BY <1>2, <1>3, SideSound
<1> QED BY <1>3, <1>4 DEF z

(* The encryption changes behind a record that waits to be sent. *)
LEMMA EncryptionSound ==
    ASSUME NEW x, Sound(x), Filled(x), NEW s \in Schemes
    PROVE  LET z == [x EXCEPT !.out = s]
           IN  Sound(z) /\ SameRegs(x, z) /\ Filled(z) /\ z.app = x.app
<1> DEFINE z == [x EXCEPT !.out = s]
<1>1. x \in Engine /\ x.oxa \in Nat /\ x.oxb \in Nat /\ x.oxc \in Nat
  BY EngineTypes DEF Sound
<1>2. z \in Engine
  BY <1>1 DEF Engine
<1>3. /\ SameRegs(x, z) /\ z.ixc = x.ixc /\ z.ilen = x.ilen /\ z.olen = x.olen
      /\ z.frag = x.frag /\ z.app = x.app
  BY <1>1 DEF Engine, SameRegs
<1> HIDE DEF z
<1>4. Filled(z) /\ ~Gath(z)
  BY <1>1, <1>3 DEF Filled, Gath, SameRegs
<1>5. Sound(z)
  BY <1>2, <1>3, <1>4 DEF Sound, SameRegs, Wide, InOK, OutOK, Short
<1> QED BY <1>3, <1>4, <1>5 DEF z

LEMMA ResumeKeeps == ASSUME Inv, Resume PROVE Inv'
  BY HandsAre, GoKeeps DEF Resume

LEMMA BeginCloseKeeps == ASSUME Inv, BeginClose PROVE Inv'
<1> DEFINE a == IF e.app = 1 THEN 2 ELSE 0
           x == [e EXCEPT !.app = a]
<1>1. cpu.run = "resume" /\ GoFlushed(x, "close", cpu.hin)
  BY DEF BeginClose
<1>2. a \in 0..2 /\ cpu.hin \in Nat /\ cpu.hin <= cpu.hin /\ Sound(e)
  BY <1>1, HandsAre
<1> HIDE DEF a
<1>3. Sound(x) /\ SameRegs(e, x)
  BY <1>2, AppSound
<1> HIDE DEF x
<1> QED BY <1>1, <1>2, <1>3, GoFlushedKeeps, PlacesAre

LEMMA WarningAlertKeeps == ASSUME Inv, WarningAlert PROVE Inv'
<1>1. cpu.run = "resume" /\ Go(e, cpu.at, 0) /\ 0 \in Nat
  BY DEF WarningAlert
<1> QED BY <1>1, HandsAre, GoKeeps

LEMMA FatalAlertKeeps == ASSUME Inv, FatalAlert PROVE Inv'
  BY HandsAre, StopKeeps DEF FatalAlert

LEMMA CloseAlertKeeps == ASSUME Inv, CloseAlert PROVE Inv'
<1> DEFINE x == [e EXCEPT !.app = 0, !.shut = TRUE]
           n == SendPldLen(Flushed(x))
           c == [cpu EXCEPT !.run = "on", !.at = "close", !.hin = 0, !.cnr = TRUE, !.hout = n]
<1>1. cpu.run = "resume" /\ e' = Flushed(x) /\ cpu' = c
  BY DEF CloseAlert
<1>2. Sound(e) /\ cpu \in Cpu /\ cpu.put = 0 /\ cpu.hin0 \in Nat
  BY <1>1, HandsAre
<1>0. 0 \in 0..2 /\ TRUE \in BOOLEAN
  OBVIOUS
<1>3. Sound(x) /\ SameRegs(e, x)
  BY <1>0, <1>2, ShutSound, Zenon
<1> HIDE DEF x
<1>4. n \in Nat
  BY <1>1, <1>3, FlushedLen
<1> HIDE DEF n
<1>5. /\ c \in Cpu /\ c.put = 0 /\ c.hin = 0 /\ c.hin0 = cpu.hin0 /\ c.hout = n /\ c.at = "close"
  BY <1>2, <1>4 DEF Cpu, Places
<1> HIDE DEF c
<1>6. c.hin <= c.hin0 /\ c.at \notin FirstHandshake
  BY <1>2, <1>5 DEF FirstHandshake
<1> QED BY <1>1, <1>3, <1>5, <1>6, FlushedKeeps DEF n

LEMMA WaitForCloseKeeps == ASSUME Inv, WaitForClose PROVE Inv'
<1>1. cpu.run = "resume" /\ cpu.at \in {"close", "bye"}
  BY DEF WaitForClose, Closing
<1>2. Sound(e) /\ cpu \in Cpu /\ cpu.put = 0 /\ cpu.hin \in Nat /\ cpu.hin <= cpu.hin
      /\ 0 \in Nat /\ 0 <= cpu.hin /\ cpu.at \in Places /\ Early(e, [at |-> cpu.at]) /\ SameRegs(e, e)
  BY <1>1, HandsAre
<1>3. \/ Go(e, cpu.at, cpu.hin)
      \/ Go(e, cpu.at, 0)
      \/ \E closes \in BOOLEAN :
           /\ e' = [e EXCEPT !.app = 0, !.shut = closes]
           /\ cpu' = [cpu EXCEPT !.run = "on", !.hin = 0, !.cnr = closes]
  BY DEF WaitForClose
<1>4. CASE Go(e, cpu.at, cpu.hin) \/ Go(e, cpu.at, 0)
  BY <1>1, <1>2, <1>4, GoKeeps
<1>5. ASSUME NEW closes \in BOOLEAN, e' = [e EXCEPT !.app = 0, !.shut = closes],
             cpu' = [cpu EXCEPT !.run = "on", !.hin = 0, !.cnr = closes]
      PROVE  Inv'
  <2> DEFINE x == [e EXCEPT !.app = 0, !.shut = closes]
             c == [cpu EXCEPT !.run = "on", !.hin = 0, !.cnr = closes]
  <2>0. 0 \in 0..2
    OBVIOUS
  <2>1. Sound(x) /\ SameRegs(e, x)
    BY <1>2, <2>0, ShutSound, Zenon
  <2>2. e' = x /\ cpu' = c
    BY <1>5
  <2> HIDE DEF x
  <2>3. c \in Cpu /\ c.put = 0 /\ c.hin = 0 /\ c.hin0 = cpu.hin0 /\ c.hout = cpu.hout /\ c.at = cpu.at
    BY <1>2 DEF Cpu
  <2> HIDE DEF c
  <2>4. Early(x, c) /\ c.hin <= cpu.hin
    BY <1>1, <1>2, <2>3 DEF Early, FirstHandshake
  <2> QED BY <1>1, <1>2, <2>1, <2>2, <2>3, <2>4, MoveKeeps
<1> QED BY <1>3, <1>4, <1>5

LEMMA WaitKeeps == ASSUME Inv, Wait PROVE Inv'
<1>1. cpu.run = "on" /\ Yield(e, cpu.at, cpu.hin)
  BY DEF Wait
<1>2. /\ Sound(e) /\ e.io # "failed" /\ cpu.at \in Places /\ cpu.hin \in Nat /\ cpu.hin <= cpu.hin
      /\ cpu.put > 0 => Empty(e, cpu.put)
      /\ Early(e, [at |-> cpu.at])
      /\ cpu.put > 0 => cpu.at # "read"
  BY <1>1, HandsAre
<1> QED BY <1>1, <1>2, YieldKeeps

LEMMA UnexpectedKeeps == ASSUME Inv, Unexpected PROVE Inv'
<1>1. cpu.run = "on" /\ cpu.at # "write" /\ Stop
  BY DEF Unexpected
<1> QED BY <1>1, HandsAre, StopKeeps

LEMMA ReadOnKeeps == ASSUME Inv, ReadOn PROVE Inv'
<1>1. cpu.run = "on" /\ cpu.at # "write" /\ cpu.hin > 0
  BY DEF ReadOn, Reading
<1>2. PICK n \in Pieces(cpu.hin) : Go(e, cpu.at, cpu.hin - n)
  BY DEF ReadOn
<1>3. cpu.hin - n \in Nat /\ cpu.hin - n <= cpu.hin
  BY <1>1, HandsAre, PiecesAre
<1> QED BY <1>1, <1>2, <1>3, HandsAre, GoKeeps

LEMMA ReadFlightKeeps == ASSUME Inv, ReadFlight PROVE Inv'
<1>1. cpu.run = "on" /\ cpu.at = "read" /\ cpu.hin > 0
  BY DEF ReadFlight, On
<1>2. PICK n \in Pieces(cpu.hin) : Go(e, "write", 0) \/ Stop \/ Go(e, "ccs", cpu.hin - n)
  BY DEF ReadFlight
<1>3. cpu.hin - n \in Nat /\ cpu.hin - n <= cpu.hin /\ 0 \in Nat /\ 0 <= cpu.hin
  BY <1>1, HandsAre, PiecesAre
<1>4. "write" \in Places /\ "ccs" \in Places /\ cpu.at \in FirstHandshake
  BY <1>1 DEF Places, FirstHandshake
<1>5. Early(e, [at |-> "write"]) /\ Early(e, [at |-> "ccs"])
  BY <1>1, <1>4, HandsAre DEF Early
<1>6. cpu.put = 0 /\ Sound(e) /\ SameRegs(e, e)
  BY <1>1, HandsAre
<1>7. CASE Stop
  BY <1>6, <1>7, StopKeeps
<1>8. CASE Go(e, "write", 0)
  BY <1>1, <1>3, <1>4, <1>5, <1>6, <1>8, GoKeeps
<1>9. CASE Go(e, "ccs", cpu.hin - n)
  BY <1>1, <1>3, <1>4, <1>5, <1>6, <1>9, GoKeeps
<1> QED BY <1>2, <1>7, <1>8, <1>9

LEMMA ReadFragLengthKeeps == ASSUME Inv, ReadFragLength PROVE Inv'
<1>1. cpu.run = "on" /\ cpu.at = "read"
  BY DEF ReadFragLength, On
<1>2. PICK f \in {512, 1024, 2048, 4096} :
        f < e.frag /\ e' = NewFrag(e, f) /\ cpu' = [cpu EXCEPT !.hout = Least(@, f)]
  BY DEF ReadFragLength
<1> DEFINE z == NewFrag(e, f)
           h == Least(cpu.hout, f)
           c == [cpu EXCEPT !.hout = h]
<1>3. f \in 512..MaxPlain /\ f \in Nat
  BY DEF MaxPlain
<1>4. /\ Sound(e) /\ cpu \in Cpu /\ cpu.put = 0 /\ cpu.hout \in Nat /\ cpu.hin <= cpu.hin0
      /\ cpu.put + cpu.hout > 0 => Empty(e, cpu.put + cpu.hout)
      /\ e.io # "failed" /\ cpu.hin0 <= e.ixb - e.ixa
  BY <1>1, HandsAre DEF Inv, Window
<1>5. ~Renegotiates => ~HasPld(e) /\ e.app = 0
  BY <1>1 DEF Inv, Early, FirstHandshake
<1>6. /\ Sound(z) /\ KeepsIn(e, z) /\ (HasPld(z) => HasPld(e))
      /\ Empty(e, cpu.hout) => Empty(z, h)
  BY <1>2, <1>3, <1>4, <1>5, NewFragSound
<1>7. h \in Nat /\ (h > 0 => cpu.hout > 0)
  BY <1>3, <1>4 DEF Least
<1>8. e' = z /\ cpu' = c
  BY <1>2
<1> HIDE DEF z, h
<1>9. /\ c \in Cpu /\ c.at = "read" /\ c.put = 0 /\ c.hout = h /\ c.hin = cpu.hin
      /\ c.hin0 = cpu.hin0
  BY <1>1, <1>4, <1>7 DEF Cpu
<1> HIDE DEF c
<1>10. 0 + cpu.hout = cpu.hout /\ 0 + h = h
  BY <1>4, <1>7
<1>11. c.put + c.hout > 0 => Empty(z, c.put + c.hout)
  BY <1>4, <1>6, <1>7, <1>9, <1>10
<1>12. c.hin <= c.hin0 /\ c.hin0 <= z.ixb - z.ixa /\ z.io # "failed" /\ z.app = e.app
  BY <1>4, <1>6, <1>9 DEF KeepsIn
<1>13. Window(z, c) /\ Early(z, c)
  <2>1. c.put > 0 => c.run = "on" /\ c.at = "write"
    BY <1>9
  <2>2. Early(z, c)
    BY <1>5, <1>6, <1>12 DEF Early
  <2> QED BY <1>11, <1>12, <2>1, <2>2 DEF Window
<1> QED BY <1>6, <1>8, <1>9, <1>13 DEF Inv

LEMMA WriteKeeps == ASSUME Inv, Write PROVE Inv'
<1>1. cpu.run = "on" /\ cpu.at = "write" /\ cpu.hout > 0
  BY DEF Write, On
<1>2. PICK n \in Pieces(cpu.hout) :
        cpu' = [cpu EXCEPT !.put = @ + n, !.hout = @ - n] /\ UNCHANGED e
  BY DEF Write
<1> DEFINE p == cpu.put + n
           h == cpu.hout - n
           c == [cpu EXCEPT !.put = p, !.hout = h]
<1>3. /\ Sound(e) /\ cpu \in Cpu /\ cpu.hout \in Nat /\ cpu.put \in Nat /\ Early(e, cpu) /\ Window(e, cpu)
      /\ Empty(e, cpu.put + cpu.hout)
  BY <1>1, HandsAre DEF Inv
<1>4. n \in Nat /\ n > 0 /\ n <= cpu.hout
  BY <1>1, <1>3, PiecesAre
<1>5. p \in Nat /\ h \in Nat /\ p + h = cpu.put + cpu.hout
  BY <1>3, <1>4
<1>6. e' = e /\ cpu' = c
  BY <1>2
<1> HIDE DEF p, h
<1>7. /\ c \in Cpu /\ c.at = "write" /\ c.run = "on" /\ c.put = p /\ c.hout = h /\ c.hin = cpu.hin
      /\ c.hin0 = cpu.hin0
  BY <1>1, <1>3, <1>5 DEF Cpu
<1> HIDE DEF c
<1>8. Window(e, c) /\ Early(e, c)
  BY <1>1, <1>3, <1>5, <1>7 DEF Window, Early
<1> QED BY <1>3, <1>6, <1>7, <1>8 DEF Inv

LEMMA WriteFlightKeeps == ASSUME Inv, WriteFlight PROVE Inv'
<1>1. cpu.run = "on" /\ cpu.at = "write"
  BY DEF WriteFlight, On
<1>2. PICK p \in {"read", "wccs"} : GoFlushed(e, p, cpu.hin)
  BY DEF WriteFlight
<1>3. p \in Places /\ cpu.at \in FirstHandshake
  BY <1>1 DEF Places, FirstHandshake
<1>4. /\ Sound(e) /\ SameRegs(e, e) /\ cpu.hin \in Nat /\ cpu.hin <= cpu.hin
      /\ ~Renegotiates => e.app = 0
  BY <1>1, <1>3, HandsAre
<1> QED BY <1>1, <1>2, <1>3, <1>4, GoFlushedKeeps

LEMMA ReadCCSKeeps == ASSUME Inv, ReadCCS PROVE Inv'
<1>1. cpu.run = "on" /\ cpu.at = "ccs" /\ cpu.at \in FirstHandshake
  BY DEF ReadCCS, On, FirstHandshake
<1>2. Stop \/ \E s \in (IF cpu.half THEN {e.out} ELSE Ciphers) : Go([e EXCEPT !.in = s], "rfin", 0)
  BY DEF ReadCCS
<1>3. /\ Sound(e) /\ e.out \in Schemes /\ cpu.put = 0 /\ 0 <= cpu.hin /\ 0 \in Nat
      /\ "rfin" \in Places /\ (~Renegotiates => e.app = 0)
  BY <1>1, HandsAre, EngineTypes DEF Sound, Places
<1>4. CASE Stop
  BY <1>3, <1>4, StopKeeps
<1>5. ASSUME NEW s \in (IF cpu.half THEN {e.out} ELSE Ciphers), Go([e EXCEPT !.in = s], "rfin", 0)
      PROVE  Inv'
  <2> DEFINE x == [e EXCEPT !.in = s]
  <2>1. s \in Schemes
    BY <1>3, <1>5, EngineAssumption
  <2>2. Sound(x) /\ SameRegs(e, x) /\ x.app = e.app
    BY <1>3, <2>1, DecryptionSound
  <2>3. Go(x, "rfin", 0)
    BY <1>5
  <2> HIDE DEF x
  <2>4. Early(x, [at |-> "rfin"])
    BY <1>3, <2>2 DEF Early
  <2> QED BY <1>1, <1>3, <2>2, <2>3, <2>4, GoKeeps
<1> QED BY <1>2, <1>4, <1>5

(* The end of a handshake. *)
LEMMA DoneKeeps ==
    ASSUME Inv, cpu.run = "on", cpu.put = 0, NEW x, Sound(x), x.ixa = e.ixa, x.ixb = e.ixb,
           x.io # "failed", NEW h \in Nat, h <= cpu.hin, Done(x, h)
    PROVE  Inv'
<1> DEFINE z == [x EXCEPT !.app = 1, !.typeOut = "app"]
<1>0. 1 \in 0..2 /\ "app" \in RecordTypes
  BY DEF RecordTypes
<1>1. Sound(z) /\ SameRegs(x, z)
  BY <1>0, TypeSound, Zenon
<1>2. Yield(z, "idle", h)
  BY DEF Done
<1> HIDE DEF z
<1>3. "idle" \in Places /\ Early(z, [at |-> "idle"])
  BY PlacesAre, LaterIsEarly
<1>4. z.ixa = e.ixa /\ z.ixb = e.ixb /\ z.io # "failed"
  BY <1>1 DEF SameRegs
<1> QED BY <1>1, <1>2, <1>3, <1>4, YieldKeeps

LEMMA ReadFinishedKeeps == ASSUME Inv, ReadFinished PROVE Inv'
<1>1. cpu.run = "on" /\ cpu.at = "rfin" /\ cpu.hin > 0 /\ cpu.at \in FirstHandshake
  BY DEF ReadFinished, On, FirstHandshake
<1> DEFINE m == SendPldLen(Flushed(e))
<1>2. PICK n \in Pieces(cpu.hin) :
        IF cpu.half THEN Done(e, cpu.hin - n)
        ELSE /\ e' = Flushed(e)
             /\ cpu' = [cpu EXCEPT !.at = "wccs", !.half = TRUE, !.hin = @ - n, !.hout = m]
  BY DEF ReadFinished
<1>3. /\ Sound(e) /\ SameRegs(e, e) /\ e.io # "failed" /\ cpu \in Cpu /\ cpu.put = 0 /\ cpu.hin <= cpu.hin0
      /\ cpu.hin0 \in Nat /\ cpu.hin \in Nat /\ (~Renegotiates => e.app = 0)
  BY <1>1, HandsAre
<1> DEFINE h == cpu.hin - n
<1>4. h \in Nat /\ h <= cpu.hin /\ h <= cpu.hin0
  BY <1>1, <1>3, PiecesAre
<1>5. m \in Nat
  BY <1>1, <1>3, FlushedLen
<1> HIDE DEF h, m
<1>6. CASE cpu.half
  <2>1. Done(e, h)
    BY <1>2, <1>6 DEF h
  <2> QED BY <1>1, <1>3, <1>4, <2>1, DoneKeeps
<1>7. CASE ~cpu.half
  <2> DEFINE c == [cpu EXCEPT !.at = "wccs", !.half = TRUE, !.hin = h, !.hout = m]
  <2>1. e' = Flushed(e) /\ cpu' = c
    BY <1>2, <1>7 DEF h
  <2>2. c \in Cpu /\ c.put = 0 /\ c.hin = h /\ c.hin0 = cpu.hin0 /\ c.hout = m
    BY <1>3, <1>4, <1>5 DEF Cpu, Places
  <2> HIDE DEF c
  <2>3. c.hin <= c.hin0
    BY <1>4, <2>2
  <2> QED BY <1>1, <1>3, <2>1, <2>2, <2>3, FlushedKeeps DEF m
<1> QED BY <1>6, <1>7

(* A message of the processor where it was given room. *)
LEMMA MessageHere ==
    ASSUME Inv, cpu.run = "on", cpu.at # "write", cpu.hout > 0, NEW type \in RecordTypes,
           NEW n \in {1, 2, 16}
    PROVE  LET x == Message(e, type, n)
           IN  /\ Sound(x) /\ Filled(x) /\ SendPldLen(x) = 0 /\ x.ixa = e.ixa /\ x.ixb = e.ixb
               /\ x.io # "failed" /\ x.app = e.app
<1> DEFINE x == Message(e, type, n)
<1>1. Sound(e) /\ e.io # "failed" /\ Gath(e) /\ e.oxa = e.oxc
  BY HandsAre
<1>2. n \in Nat /\ n > 0 /\ n <= 16
  OBVIOUS
<1>3. Sound(x) /\ KeepsIn(e, x) /\ Filled(x)
  BY <1>1, <1>2, MessageSound
<1> HIDE DEF x
<1>4. x.oxa \in Nat /\ x.oxa = x.oxb
  BY <1>3, EngineTypes DEF Sound, Filled
<1> QED BY <1>1, <1>3, <1>4 DEF KeepsIn, SendPldLen, x

LEMMA WriteCCSKeeps == ASSUME Inv, WriteCCS PROVE Inv'
<1>1. cpu.run = "on" /\ cpu.at = "wccs" /\ cpu.hout > 0 /\ cpu.at \in FirstHandshake
  BY DEF WriteCCS, On, FirstHandshake
<1> DEFINE y == Message(e, "ccs", 1)
<1>2. PICK s \in (IF cpu.half THEN {e.in} ELSE Ciphers) : GoWith([y EXCEPT !.out = s], "wfin")
  BY DEF WriteCCS
<1>3. "ccs" \in RecordTypes /\ "wfin" \in Places
  BY DEF RecordTypes, Places
<1>4. /\ Sound(e) /\ e.in \in Schemes /\ cpu \in Cpu /\ cpu.put = 0 /\ cpu.hin \in Nat
      /\ (~Renegotiates => e.app = 0)
  BY <1>1, HandsAre, EngineTypes DEF Sound
<1>5. s \in Schemes
  BY <1>4, EngineAssumption
<1>6. Sound(y) /\ Filled(y) /\ y.ixa = e.ixa /\ y.ixb = e.ixb /\ y.io # "failed" /\ y.app = e.app
  BY <1>1, <1>3, MessageHere
<1> HIDE DEF y
<1> DEFINE x == [y EXCEPT !.out = s]
           c == [cpu EXCEPT !.run = "on", !.at = "wfin", !.hout = SendPldLen(x)]
<1>7. Sound(x) /\ SameRegs(y, x) /\ Filled(x) /\ x.app = y.app
  BY <1>5, <1>6, EncryptionSound
<1>8. e' = x /\ cpu' = c
  BY <1>2 DEF GoWith
<1> HIDE DEF x
<1>9. SendPldLen(x) = 0
  <2>1. x.oxa \in Nat /\ x.oxb = x.oxa
    BY <1>7, EngineTypes DEF Sound, Filled
  <2> QED BY <2>1 DEF SendPldLen
<1>10. c \in Cpu /\ c.put = 0 /\ c.hin = cpu.hin /\ c.hin0 = cpu.hin0 /\ c.hout = 0 /\ c.at = "wfin"
  BY <1>3, <1>4, <1>9 DEF Cpu
<1> HIDE DEF c
<1>11. c.hin <= cpu.hin /\ x.ixa = e.ixa /\ x.ixb = e.ixb /\ x.io # "failed" /\ (~Renegotiates => x.app = 0)
  BY <1>4, <1>6, <1>7, <1>10 DEF SameRegs
<1> QED BY <1>1, <1>4, <1>7, <1>8, <1>10, <1>11, MessageKeeps

LEMMA WriteFinishedKeeps == ASSUME Inv, WriteFinished PROVE Inv'
<1>1. cpu.run = "on" /\ cpu.at = "wfin" /\ cpu.hout > 0 /\ cpu.at \in FirstHandshake
  BY DEF WriteFinished, On, FirstHandshake
<1> DEFINE x == Message(e, "hs", 16)
           c == [cpu EXCEPT !.at = "ccs", !.half = TRUE, !.hout = 0]
<1>2. IF cpu.half THEN Done(x, cpu.hin) ELSE e' = x /\ cpu' = c
  BY DEF WriteFinished
<1>3. cpu \in Cpu /\ cpu.put = 0 /\ cpu.hin \in Nat /\ cpu.hin <= cpu.hin /\ (~Renegotiates => e.app = 0)
  BY <1>1, HandsAre
<1>4. "hs" \in RecordTypes
  BY DEF RecordTypes
<1>5. Sound(x) /\ Filled(x) /\ x.ixa = e.ixa /\ x.ixb = e.ixb /\ x.io # "failed" /\ x.app = e.app
  BY <1>1, <1>4, MessageHere
<1> HIDE DEF x
<1>6. CASE cpu.half
  BY <1>1, <1>2, <1>3, <1>5, <1>6, DoneKeeps
<1>7. CASE ~cpu.half
  <2>1. c \in Cpu /\ c.put = 0 /\ c.hin = cpu.hin /\ c.hin0 = cpu.hin0 /\ c.hout = 0
    BY <1>3 DEF Cpu, Places
  <2>2. e' = x /\ cpu' = c
    BY <1>2, <1>7
  <2> HIDE DEF c
  <2> QED BY <1>1, <1>3, <1>5, <2>1, <2>2, MessageKeeps
<1> QED BY <1>6, <1>7

LEMMA ReadRequestKeeps == ASSUME Inv, ReadRequest PROVE Inv'
<1> DEFINE x == [e EXCEPT !.app = 0]
<1>1. cpu.run = "on" /\ cpu.at = "idle" /\ Go(x, "hreq", cpu.hin)
  BY DEF ReadRequest, On
<1>2. Sound(e) /\ cpu.put = 0 /\ cpu.hin \in Nat /\ cpu.hin <= cpu.hin
  BY <1>1, HandsAre
<1>3. 0 \in 0..2
  OBVIOUS
<1>4. Sound(x) /\ SameRegs(e, x)
  BY <1>2, <1>3, AppSound, Zenon
<1> HIDE DEF x
<1>5. "hreq" \in Places /\ Early(x, [at |-> "hreq"])
  BY PlacesAre, LaterIsEarly
<1> QED BY <1>1, <1>2, <1>4, <1>5, GoKeeps

LEMMA RefuseKeeps == ASSUME Inv, Refuse PROVE Inv'
<1>1. cpu.run = "on" /\ cpu.at = "hreq" /\ cpu.hin > 0
  BY DEF Refuse, On
<1>2. PICK n \in Pieces(cpu.hin) : GoFlushed(e, "refuse", cpu.hin - n)
  BY DEF Refuse
<1>3. cpu.hin - n \in Nat /\ cpu.hin - n <= cpu.hin
  BY <1>1, HandsAre, PiecesAre
<1>4. "refuse" \in Places /\ "refuse" \notin FirstHandshake /\ Sound(e) /\ SameRegs(e, e)
  BY <1>1, PlacesAre, HandsAre
<1> QED BY <1>1, <1>2, <1>3, <1>4, GoFlushedKeeps

LEMMA SendRefusalKeeps == ASSUME Inv, SendRefusal PROVE Inv'
<1> DEFINE x == Message(e, "alert", 2)
<1>1. cpu.run = "on" /\ cpu.at = "refuse" /\ cpu.hout > 0 /\ Done(x, cpu.hin)
  BY DEF SendRefusal, On
<1>2. "alert" \in RecordTypes /\ cpu.put = 0 /\ cpu.hin \in Nat /\ cpu.hin <= cpu.hin
  BY <1>1, HandsAre DEF RecordTypes
<1>3. Sound(x) /\ x.ixa = e.ixa /\ x.ixb = e.ixb /\ x.io # "failed"
  BY <1>1, <1>2, MessageHere
<1> HIDE DEF x
<1> QED BY <1>1, <1>2, <1>3, DoneKeeps

LEMMA AgainKeeps == ASSUME Inv, Again PROVE Inv'
<1> DEFINE x == [e EXCEPT !.app = 0, !.typeOut = "hs"]
           p == IF cpu.client THEN "write" ELSE "read"
           h == IF cpu.client THEN 0 ELSE cpu.hin
           c == [cpu EXCEPT !.half = FALSE, !.act = 0, !.at = p, !.hin = h]
<1>1. Renegotiates /\ cpu.run = "on" /\ cpu.at # "write" /\ e' = x /\ cpu' = c
  BY DEF Again, On
<1>2. Sound(e) /\ cpu \in Cpu /\ cpu.put = 0 /\ cpu.hin \in Nat
  BY <1>1, HandsAre
<1>3. p \in Places /\ h \in Nat /\ h <= cpu.hin
  BY <1>2 DEF Places
<1> HIDE DEF p, h
<1>4. 0 \in 0..2 /\ "hs" \in RecordTypes
  BY DEF RecordTypes
<1>5. Sound(x) /\ SameRegs(e, x)
  BY <1>2, <1>4, TypeSound, Zenon
<1> HIDE DEF x
<1>6. c \in Cpu /\ c.put = 0 /\ c.hin = h /\ c.hin0 = cpu.hin0 /\ c.hout = cpu.hout
  BY <1>2, <1>3, <1>4 DEF Cpu
<1> HIDE DEF c
<1>7. Early(x, c)
  BY <1>1 DEF Early
<1> QED BY <1>1, <1>2, <1>3, <1>5, <1>6, <1>7, MoveKeeps

LEMMA SendCloseKeeps == ASSUME Inv, SendClose PROVE Inv'
<1> DEFINE x == Message(e, "alert", 2)
           c == [cpu EXCEPT !.at = "bye", !.hout = 0]
<1>1. cpu.run = "on" /\ cpu.at = "close" /\ cpu.hout > 0 /\ e' = x /\ cpu' = c
  BY DEF SendClose, On
<1>2. "alert" \in RecordTypes /\ cpu \in Cpu /\ cpu.put = 0 /\ cpu.hin \in Nat
  BY <1>1, HandsAre DEF RecordTypes
<1>3. Sound(x) /\ Filled(x) /\ x.ixa = e.ixa /\ x.ixb = e.ixb /\ x.io # "failed"
  BY <1>1, <1>2, MessageHere
<1> HIDE DEF x
<1>4. c \in Cpu /\ c.put = 0 /\ c.hin = cpu.hin /\ c.hin0 = cpu.hin0 /\ c.hout = 0 /\ c.at = "bye"
  BY <1>2 DEF Cpu, Places
<1> HIDE DEF c
<1>5. c.at \notin FirstHandshake /\ c.hin <= cpu.hin
  BY <1>2, <1>4 DEF FirstHandshake
<1> QED BY <1>1, <1>2, <1>3, <1>4, <1>5, MessageKeeps

LEMMA CloseEndsKeeps == ASSUME Inv, CloseEnds PROVE Inv'
<1>1. cpu.run = "on" /\ cpu.at = "bye" /\ Stop
  BY DEF CloseEnds, On
<1> QED BY <1>1, HandsAre, StopKeeps

LEMMA ProcessorKeeps == ASSUME Inv, Processor PROVE Inv'
  BY ResumeKeeps, BeginCloseKeeps, WarningAlertKeeps, FatalAlertKeeps, CloseAlertKeeps,
     WaitForCloseKeeps, WaitKeeps, UnexpectedKeeps, ReadOnKeeps, ReadFlightKeeps,
     ReadFragLengthKeeps, WriteKeeps, WriteFlightKeeps, ReadCCSKeeps, ReadFinishedKeeps,
     WriteCCSKeeps, WriteFinishedKeeps, ReadRequestKeeps, RefuseKeeps, SendRefusalKeeps,
     AgainKeeps, SendCloseKeeps, CloseEndsKeeps DEF Processor

LEMMA StepKeeps == ASSUME Inv, [Next]_vars PROVE Inv'
<1>1. CASE Call
  BY <1>1, CallKeeps
<1>2. CASE Processor
  BY <1>2, ProcessorKeeps
<1>3. CASE UNCHANGED vars
  BY <1>3 DEF Inv, vars
<1> QED BY <1>1, <1>2, <1>3 DEF Next

---------------------------------------------------------------------------
(* br_ssl_engine_set_buffers_bidi() and br_ssl_engine_hs_reset(). *)

LEMMA NewSound ==
    ASSUME NEW b \in Buffers
    PROVE  LET z == New(b)
           IN  Sound(z) /\ Gath(z) /\ z.oxa = z.oxc /\ z.io # "failed" /\ z.app = 0
<1> DEFINE x == [shared |-> b.shared, ilen |-> b.ilen, olen |-> b.olen,
                 frag |-> b.frag, io |-> "inout", ixa |-> 0, ixb |-> 0, ixc |-> Header,
                 oxa |-> 0, oxb |-> 0, oxc |-> 0, in |-> Clear, out |-> Clear,
                 typeIn |-> "hs", typeOut |-> "hs", app |-> 0, shut |-> FALSE,
                 by |-> "hs", load |-> 0]
<1>1. /\ b \in [shared : BOOLEAN, ilen : Nat, olen : Nat, frag : 512..MaxPlain]
      /\ b.olen >= b.frag + MaxOutOverhead /\ b.ilen >= b.frag + MaxInOverhead
  BY EngineAssumption
<1>2. Clear \in Schemes /\ "hs" \in RecordTypes /\ 0 \in 0..MaxPlain /\ 0 \in 0..2 /\ Header \in Nat
  BY DEF Clear, Schemes, RecordTypes, MaxPlain, Header
<1>3. x \in Engine
  BY <1>1, <1>2 DEF Engine
<1>4. /\ x.ixa = 0 /\ x.ixb = 0 /\ x.ixc = Header /\ x.ilen = b.ilen /\ x.olen = b.olen
      /\ x.frag = b.frag /\ x.io = "inout" /\ x.app = 0
  OBVIOUS
<1>5. New(b) = ReadyOut(x)
  BY DEF New
<1> HIDE DEF x
<1>6. Wide(x) /\ InOK(x)
  BY <1>1, <1>3, <1>4, EngineTypes DEF Wide, InOK, Header
<1>7. LET z == ReadyOut(x) IN Sound(z) /\ Gath(z) /\ z.oxa = z.oxc /\ KeepsIn(x, z)
  BY <1>3, <1>6, ReadyOutSound
<1> QED BY <1>4, <1>5, <1>7 DEF KeepsIn

LEMMA InitInv == Init => Inv
<1> SUFFICES ASSUME Init PROVE Inv
  OBVIOUS
<1>1. PICK b \in Buffers : e = New(b)
  BY DEF Init
<1>2. PICK client \in BOOLEAN :
        cpu = [client |-> client, run |-> "on", at |-> IF client THEN "write" ELSE "read",
               cnr |-> FALSE, half |-> FALSE, act |-> 0,
               hin0 |-> 0, hin |-> 0, hout |-> SendPldLen(e), put |-> 0]
  BY DEF Init
<1>3. Sound(e) /\ Gath(e) /\ e.oxa = e.oxc /\ e.io # "failed" /\ e.app = 0
  BY <1>1, NewSound
<1>4. ~HasPld(e)
  BY <1>3 DEF HasPld
<1>5. SendPldLen(e) \in Nat /\ (SendPldLen(e) > 0 => Empty(e, SendPldLen(e)))
  BY <1>3, <1>4, PldLens
<1> DEFINE n == SendPldLen(e)
<1> HIDE DEF n
<1>6. /\ cpu \in Cpu /\ cpu.hin = 0 /\ cpu.hin0 = 0 /\ cpu.put = 0 /\ cpu.hout = n
  BY <1>2, <1>5 DEF Cpu, Places, n
<1>7. 0 <= e.ixb - e.ixa /\ 0 + n = n
  BY <1>3, <1>5, EngineTypes DEF Sound, InOK, n
<1>8. Window(e, cpu) /\ Early(e, cpu)
  <2>1. cpu.put + cpu.hout > 0 => Empty(e, cpu.put + cpu.hout)
    BY <1>5, <1>6, <1>7 DEF n
  <2>2. cpu.hin <= cpu.hin0 /\ cpu.hin0 <= e.ixb - e.ixa /\ ~(cpu.put > 0)
    BY <1>6, <1>7
  <2> QED BY <1>3, <1>4, <2>1, <2>2 DEF Window, Early
<1> QED BY <1>3, <1>6, <1>8 DEF Inv

(* What the invariant says of the buffers. *)
LEMMA InvFits == Inv => RegistersFit
<1> SUFFICES ASSUME Inv, e.io # "failed" PROVE RegistersFit
  BY DEF RegistersFit, Closed
<1>1. Sound(e) /\ cpu \in Cpu /\ Window(e, cpu)
  BY DEF Inv
<1>2. /\ e \in Engine /\ e.oxa \in Nat /\ e.oxb \in Nat /\ e.oxc \in Nat /\ e.olen \in Nat /\ e.frag \in Nat
      /\ cpu.put \in Nat /\ cpu.hout \in Nat
  BY <1>1, EngineTypes, CpuTypes DEF Sound
<1>3. e.ixa <= e.ixb /\ e.ixb <= e.ilen
  BY <1>1 DEF Sound, InOK
<1> DEFINE len == e.oxa - e.oxc + cpu.put
<1>4. CASE Gath(e)
  <2>1. e.oxc <= e.oxa /\ e.oxa < e.oxb /\ Spans(e, e.oxb - e.oxc)
    BY <1>1, <1>2, <1>4 DEF Sound, OutOK, Gath, Filled
  <2>2. cpu.put <= e.oxb - e.oxa
    BY <1>1, <1>2, <2>1 DEF Window, Empty
  <2>3. len \in Nat /\ len <= e.oxb - e.oxc
    BY <1>2, <2>1, <2>2
  <2> HIDE DEF len
  <2>4. Spans(e, len)
    <3>1. PICK fl \in 512..MaxPlain : Legal(e.out, fl, e.olen) /\ e.oxb - e.oxc <= Span(e.out, fl, e.olen)
      BY <2>1 DEF Spans
    <3>2. Span(e.out, fl, e.olen) \in 0..fl /\ fl \in Nat
      BY <3>1, SpanIs DEF MaxPlain
    <3>3. len <= Span(e.out, fl, e.olen)
      BY <1>2, <2>1, <2>3, <3>1, <3>2
    <3> QED BY <2>1, <3>1, <3>3 DEF Spans
  <2>5. Sealable(e, len)
    BY <1>2, <2>3, <2>4, SealingFits DEF Sealable
  <2>6. Renegotiates \/ len <= e.frag
    <3>1. Renegotiates \/ e.oxb - e.oxc <= e.frag
      BY <1>1, <1>4, EngineAssumption DEF Sound, Short
    <3> QED BY <1>2, <2>1, <2>3, <3>1
  <2>7. Gathering
    BY <1>4 DEF Gath, Gathering
  <2> QED BY <1>3, <2>5, <2>6, <2>7 DEF RegistersFit, len
<1>5. CASE ~Gath(e)
  <2>1. Filled(e)
    BY <1>1, <1>5 DEF Sound, OutOK
  <2> QED BY <1>3, <1>5, <2>1 DEF RegistersFit, Filled, Gath, Gathering
<1> QED BY <1>4, <1>5

---------------------------------------------------------------------------
(* The invariant holds: in every reachable state the registers are those   *)
(* of a record that comes in and of one that goes out, the span open for   *)
(* payload was made by make_ready_out() for the encryption now in force,   *)
(* and the processor writes only into an empty one.                        *)
THEOREM EngineSound == Spec => []Inv
<1>1. Inv /\ [Next]_vars => Inv'
  BY StepKeeps
<1> QED BY InitInv, <1>1, PTL DEF Spec

(* The registers and the window of jump_handshake() keep their types: no   *)
(* subtraction of the code goes below zero.                                *)
THEOREM EngineTypeCorrect == Spec => []TypeOK
<1>1. Inv => TypeOK
  BY DEF Inv, Sound, TypeOK
<1> QED BY <1>1, EngineSound, PTL

(* sendpld_flush() always has the room it needs: whatever was gathered,    *)
(* under the cipher suite of now, is sealed inside the output buffer, and, *)
(* where renegotiation is off, as a fragment no longer than agreed on.     *)
THEOREM EngineRegistersFit == Spec => []RegistersFit
<1> QED BY InvFits, EngineSound, PTL

---------------------------------------------------------------------------
(* The invariant. *)

(* iomode says whose turn it is: input that was begun has it, and so has   *)
(* output that was.                                                        *)
Turn(x) ==
  ~Forces /\ x.shared /\ x.io # "failed" =>
    /\ x.ixa # 0 \/ x.ixb # 0 => x.io = "in"
    /\ x.oxa # x.oxc => x.io = "out"

(* The processor has room for output only when output may be written.      *)
Hand(x, c) == c.run # "off" /\ c.put + c.hout > 0 => CanOut(x)

(* The payload gathered is of one writer, who fits the type of the record. *)
Clean(x) == x.by # "mixed" /\ (HasPld(x) => (x.by = "app") = (x.typeOut = "app"))

(* Whose turn it is to write, by the place of the processor. *)
AppRules(x, p) ==
  /\ x.app = 1 => x.typeOut = "app"
  /\ p \in FirstHandshake => x.typeOut # "app"
  /\ p \in {"hreq", "refuse", "close", "bye"} => x.app # 1

(* Where the processor waits with nothing written. *)
Bare == {"read", "ccs", "rfin", "wccs", "wfin", "refuse", "close", "bye"}

Typed(x, p) ==
  ~Renegotiates => Clean(x) /\ AppRules(x, p) /\ (p \in Bare => ~HasPld(x))

More == Turn(e) /\ Hand(e, cpu) /\ Typed(e, cpu.at)

---------------------------------------------------------------------------
(* What the operators on the registers do. *)

(* Nothing was written. *)
Quiet(x, z) ==
  z.by = x.by /\ z.typeOut = x.typeOut /\ z.app = x.app /\ (HasPld(z) => HasPld(x))

LEMMA QuietTyped ==
    ASSUME NEW x, NEW z, NEW p, Quiet(x, z), Typed(x, p)
    PROVE  Typed(z, p)
  BY DEF Quiet, Typed, Clean, AppRules

(* Registers that stay where they are. *)
LEMMA SideTurn ==
    ASSUME NEW x, NEW z, SameRegs(x, z), z.shared = x.shared, Turn(x)
    PROVE  Turn(z)
  BY DEF SameRegs, Turn

LEMMA ReadyInTurn ==
    ASSUME NEW x \in Engine, Turn(x)
    PROVE  Turn(ReadyIn(x)) /\ Quiet(x, ReadyIn(x))
<1> DEFINE z == ReadyIn(x)
<1>1. /\ z.ixa = 0 /\ z.ixb = 0 /\ z.io = (IF x.io = "in" THEN "inout" ELSE x.io)
      /\ z.shared = x.shared /\ z.oxa = x.oxa /\ z.oxb = x.oxb /\ z.oxc = x.oxc
      /\ z.by = x.by /\ z.typeOut = x.typeOut /\ z.app = x.app
  BY DEF ReadyIn, Engine
<1> HIDE DEF z
<1>2. Turn(z) /\ Quiet(x, z)
  BY <1>1 DEF Turn, Quiet, HasPld
<1> QED BY <1>2 DEF z

LEMMA PldReadTurn ==
    ASSUME NEW x \in Engine, Turn(x), x.ixa # x.ixb, NEW n \in Nat
    PROVE  Turn(PldRead(x, n)) /\ Quiet(x, PldRead(x, n))
<1> DEFINE z == PldRead(x, n)
<1>1. CASE x.ixa + n = x.ixb /\ x.ixc = 0
  BY <1>1, ReadyInTurn DEF PldRead
<1>2. CASE ~(x.ixa + n = x.ixb /\ x.ixc = 0)
  <2>1. /\ z.io = x.io /\ z.shared = x.shared /\ z.oxa = x.oxa /\ z.oxb = x.oxb /\ z.oxc = x.oxc
        /\ z.by = x.by /\ z.typeOut = x.typeOut /\ z.app = x.app
    BY <1>2 DEF PldRead, Engine
  <2> HIDE DEF z
  <2>2. x.ixa # 0 \/ x.ixb # 0
    OBVIOUS
  <2>3. Turn(z) /\ Quiet(x, z)
    BY <2>1, <2>2 DEF Turn, Quiet, HasPld
  <2> QED BY <2>3 DEF z
<1> QED BY <1>1, <1>2

LEMMA RecWrittenTurn ==
    ASSUME NEW x, Sound(x), Filled(x), Turn(x), NEW n \in Nat, n <= x.oxc - x.oxa
    PROVE  Turn(RecWritten(x, n)) /\ Quiet(x, RecWritten(x, n))
<1> DEFINE z == RecWritten(x, n)
<1>1. x \in Engine /\ x.oxa # x.oxc /\ ~HasPld(z) /\ Wide(x) /\ InOK(x)
  <2>1. x.oxa # x.oxc
    BY EngineTypes DEF Sound, Filled
  <2> QED BY <2>1, RecWrittenSound DEF Sound
<1>2. CASE x.oxa + n = x.oxc
  <2>1. z = ReadyOut(x)
    BY <1>2 DEF RecWritten
  <2>2. z.oxa = z.oxc
    BY <1>1, <2>1, ReadyOutSound
  <2>3. /\ z.io = (IF x.io = "out" THEN "inout" ELSE x.io) /\ z.shared = x.shared
        /\ z.ixa = x.ixa /\ z.ixb = x.ixb
        /\ z.by = x.by /\ z.typeOut = x.typeOut /\ z.app = x.app
    BY <1>1, <2>1 DEF ReadyOut, Engine
  <2> HIDE DEF z
  <2>4. Turn(z) /\ Quiet(x, z)
    BY <1>1, <2>2, <2>3 DEF Turn, Quiet
  <2> QED BY <2>4 DEF z
<1>3. CASE x.oxa + n # x.oxc
  <2>1. /\ z.io = x.io /\ z.shared = x.shared /\ z.ixa = x.ixa /\ z.ixb = x.ixb
        /\ z.by = x.by /\ z.typeOut = x.typeOut /\ z.app = x.app
    BY <1>1, <1>3 DEF RecWritten, Engine
  <2> HIDE DEF z
  <2>2. Turn(z) /\ Quiet(x, z)
    BY <1>1, <2>1 DEF Turn, Quiet
  <2> QED BY <2>2 DEF z
<1> QED BY <1>2, <1>3

LEMMA FailTurn ==
    ASSUME NEW x \in Engine
    PROVE  Turn(Fail(x)) /\ Quiet(x, Fail(x))
<1> DEFINE z == Fail(x)
<1>1. /\ z.io = "failed" /\ z.oxa = x.oxa /\ z.oxb = x.oxb /\ z.oxc = x.oxc
      /\ z.by = x.by /\ z.typeOut = x.typeOut /\ z.app = x.app
  BY DEF Fail, Engine
<1> HIDE DEF z
<1>2. Turn(z) /\ Quiet(x, z)
  BY <1>1 DEF Turn, Quiet, HasPld
<1> QED BY <1>2 DEF z

(* Input goes on, in a buffer that is its own now. *)
Taking(x) == x.shared /\ x.io # "failed" => x.io = "in"

LEMMA ReceivedTurn ==
    ASSUME e \in Engine, Turn(e), CanIn(e), NEW n \in Nat
    PROVE  LET z == Received(n) IN Turn(z) /\ Taking(z) /\ Quiet(e, z)
<1> DEFINE z == Received(n)
<1>1. /\ z.io = (IF e.io = "inout" /\ e.shared THEN "in" ELSE e.io) /\ z.shared = e.shared
      /\ z.oxa = e.oxa /\ z.oxb = e.oxb /\ z.oxc = e.oxc
      /\ z.by = e.by /\ z.typeOut = e.typeOut /\ z.app = e.app
  BY DEF Received, Engine
<1> HIDE DEF z
<1>2. Turn(z) /\ Taking(z) /\ Quiet(e, z)
  BY <1>1 DEF Turn, Taking, CanIn, Quiet, HasPld
<1> QED BY <1>2 DEF z

LEMMA InputTurn ==
    ASSUME NEW x, NEW z, Turn(x), Taking(x), z.io = x.io, z.shared = x.shared,
           z.oxa = x.oxa, z.oxb = x.oxb, z.oxc = x.oxc,
           z.by = x.by, z.typeOut = x.typeOut, z.app = x.app
    PROVE  Turn(z) /\ Quiet(x, z)
  BY DEF Turn, Taking, Quiet, HasPld

(* A record is sealed: it keeps its writer. *)
LEMMA SealTurn ==
    ASSUME NEW x \in Engine, NEW force \in BOOLEAN, force = TRUE => Forces, Turn(x)
    PROVE  LET z == Seal(x, force)
           IN  /\ Turn(z) /\ (Clean(x) => Clean(z))
               /\ z.typeOut = x.typeOut /\ z.app = x.app /\ z.io = x.io
<1>1. CASE x.oxa = x.oxb \/ (x.oxa = x.oxc /\ ~force)
  BY <1>1 DEF Seal
<1>2. CASE ~(x.oxa = x.oxb \/ (x.oxa = x.oxc /\ ~force))
  <2> DEFINE recs == Encrypt(x.out, x.typeOut, x.oxc, x.oxa - x.oxc)
             from == recs[1].from
             to == recs[Len(recs)].to
             by == IF x.oxa # x.oxc /\ (x.by = "app") # (x.typeOut = "app") THEN "mixed" ELSE x.by
             load == IF x.by = "app" THEN x.oxa - x.oxc ELSE 0
             z == [x EXCEPT !.oxa = from, !.oxb = from, !.oxc = to, !.by = by, !.load = load]
  <2>1. Seal(x, force) = z
    BY <1>2 DEF Seal
  <2> HIDE DEF recs, from, to, load
  <2>2. /\ z.oxa = from /\ z.oxb = from /\ z.oxc = to /\ z.by = by
        /\ z.typeOut = x.typeOut /\ z.app = x.app /\ z.io = x.io /\ z.shared = x.shared
        /\ z.ixa = x.ixa /\ z.ixb = x.ixb
    BY DEF Engine
  <2> HIDE DEF z
  <2>3. Turn(z)
    BY <1>2, <2>2 DEF Turn
  <2>4. Clean(x) => Clean(z)
    BY <1>2, <2>2 DEF Clean, HasPld
  <2> QED BY <2>1, <2>2, <2>3, <2>4
<1> QED BY <1>1, <1>2

(* A writer goes on with its own payload, or begins one. *)
LEMMA PldWrittenTurn ==
    ASSUME NEW x, Sound(x), Turn(x), CanOut(x), NEW n \in Nat, NEW who \in {"app", "hs"}
    PROVE  LET z == PldWritten(x, n, who)
           IN  /\ Turn(z) /\ CanOut(z) /\ z.typeOut = x.typeOut /\ z.app = x.app
               /\ (HasPld(x) => x.by = who) /\ (who = "app") = (x.typeOut = "app") => Clean(z)
<1> DEFINE io == IF x.io = "inout" /\ x.shared THEN "out" ELSE x.io
           by == IF HasPld(x) /\ x.by # who THEN "mixed" ELSE who
           y == [x EXCEPT !.io = io, !.oxa = x.oxa + n, !.by = by]
           y1 == [y EXCEPT !.oxb = y.oxa + 1]
<1>1. x \in Engine /\ x.oxa \in Nat
  BY EngineTypes DEF Sound
<1>2. PldWritten(x, n, who) = IF y.oxa >= y.oxb THEN Seal(y1, FALSE) ELSE y
  BY DEF PldWritten
<1>3. io \in {"failed", "in", "out", "inout"} /\ by \in {"app", "hs", "mixed"}
      /\ x.oxa + n \in Nat /\ x.oxa + n + 1 \in Nat
  BY <1>1 DEF Engine
<1>4. /\ x.shared /\ x.io # "failed" => io = "out"
      /\ io \in {"out", "inout"}
      /\ (HasPld(x) => x.by = who) => by = who
  BY DEF CanOut
<1> HIDE DEF io, by
<1>5. y \in Engine
  BY <1>1, <1>3 DEF Engine
<1>6. /\ y.oxa = x.oxa + n /\ y.ixa = x.ixa /\ y.ixb = x.ixb /\ y.io = io /\ y.shared = x.shared
      /\ y.by = by /\ y.typeOut = x.typeOut /\ y.app = x.app
  BY <1>1 DEF Engine
<1> HIDE DEF y
<1>7. y1 \in Engine
  <2>1. y.oxa + 1 \in Nat
    BY <1>3, <1>6
  <2> QED BY <1>5, <2>1 DEF Engine
<1>8. /\ y1.ixa = x.ixa /\ y1.ixb = x.ixb /\ y1.io = io /\ y1.shared = x.shared
      /\ y1.by = by /\ y1.typeOut = x.typeOut /\ y1.app = x.app
  BY <1>5, <1>6 DEF Engine
<1> HIDE DEF y1
<1>9. ASSUME NEW z, z.ixa = x.ixa, z.ixb = x.ixb, z.io = io, z.shared = x.shared, z.by = by,
             z.typeOut = x.typeOut
      PROVE  /\ Turn(z) /\ CanOut(z)
             /\ (HasPld(x) => x.by = who) /\ (who = "app") = (x.typeOut = "app") => Clean(z)
  <2>1. CanOut(z)
    BY <1>4, <1>9 DEF CanOut
  <2>2. Turn(z)
    BY <1>4, <1>9 DEF Turn, CanOut
  <2>3. (HasPld(x) => x.by = who) /\ (who = "app") = (x.typeOut = "app") => Clean(z)
    BY <1>4, <1>9 DEF Clean
  <2> QED BY <2>1, <2>2, <2>3
<1>10. CASE y.oxa >= y.oxb
  <2>1. FALSE \in BOOLEAN /\ Turn(y1) /\ CanOut(y1)
        /\ ((HasPld(x) => x.by = who) /\ (who = "app") = (x.typeOut = "app") => Clean(y1))
    BY <1>8, <1>9
  <2>2. LET z == Seal(y1, FALSE)
        IN  /\ Turn(z) /\ (Clean(y1) => Clean(z))
            /\ z.typeOut = y1.typeOut /\ z.app = y1.app /\ z.io = y1.io
    BY <1>7, <2>1, SealTurn
  <2> QED BY <1>2, <1>8, <1>10, <2>1, <2>2 DEF CanOut
<1>11. CASE ~(y.oxa >= y.oxb)
  BY <1>2, <1>6, <1>9, <1>11
<1> QED BY <1>10, <1>11

(* A message of the processor. *)
LEMMA MessageTurn ==
    ASSUME NEW x, Sound(x), Turn(x), CanOut(x), Gath(x), x.oxa = x.oxc,
           NEW type \in RecordTypes \ {"app"}, NEW n \in Nat, n > 0, n <= 16
    PROVE  LET z == Message(x, type, n)
           IN  Turn(z) /\ z.by # "mixed" /\ z.typeOut = type /\ z.app = x.app
<1> DEFINE t == [x EXCEPT !.typeOut = type]
           y == PldWritten(t, n, "hs")
<1>1. x \in Engine /\ type \in RecordTypes
  BY DEF Sound
<1>2. t \in Engine
  BY <1>1 DEF Engine
<1>3. /\ SameRegs(x, t) /\ t.ixc = x.ixc /\ t.ilen = x.ilen /\ t.olen = x.olen /\ t.frag = x.frag
      /\ t.out = x.out /\ t.shared = x.shared /\ t.app = x.app /\ t.typeOut = type
  BY <1>1 DEF Engine, SameRegs
<1>4. Message(x, type, n) = IF HasPld(y) THEN Seal(y, FALSE) ELSE y
  BY DEF Message
<1> HIDE DEF t
<1>5. Sound(t) /\ Turn(t) /\ CanOut(t) /\ ~HasPld(t) /\ Gath(t)
  BY <1>2, <1>3, SideSound, SideTurn DEF SameRegs, CanOut, HasPld, Gath
<1>6. Turn(y) /\ y.typeOut = type /\ y.app = x.app /\ Clean(y)
  BY <1>3, <1>5, PldWrittenTurn
<1>7. y \in Engine
  <2>1. t.oxa \in Nat /\ t.oxb \in Nat /\ t.oxc \in Nat /\ t.oxa = t.oxc
    BY <1>2, <1>3, EngineTypes DEF SameRegs
  <2>2. n <= t.oxb - t.oxa
    BY <1>5, <2>1 DEF Sound, OutOK, Filled, Gath
  <2> QED BY <1>5, <2>2, PldWrittenSound DEF Sound
<1> HIDE DEF y
<1>8. FALSE \in BOOLEAN
  OBVIOUS
<1>9. LET z == Seal(y, FALSE)
      IN  Turn(z) /\ Clean(z) /\ z.typeOut = type /\ z.app = x.app
  BY <1>6, <1>7, <1>8, SealTurn
<1> QED BY <1>4, <1>6, <1>9 DEF Clean

---------------------------------------------------------------------------
(* The steps. *)

LEMMA StateIs ==
    ASSUME Inv, More
    PROVE  /\ Sound(e) /\ e \in Engine /\ cpu \in Cpu /\ Turn(e) /\ Typed(e, cpu.at)
           /\ cpu.hin0 \in Nat /\ cpu.hin \in Nat /\ cpu.hout \in Nat /\ cpu.put \in Nat
           /\ e.ixa \in Nat /\ e.ixb \in Nat /\ Quiet(e, e)
  BY EngineTypes, CpuTypes DEF Inv, More, Sound, Quiet

LEMMA RestMore ==
    ASSUME Inv, More, cpu.run = "off", NEW x, Turn(x), Quiet(e, x), Rest(x)
    PROVE  More'
<1>1. e' = x /\ cpu' = cpu
  BY DEF Rest
<1>2. Typed(x, cpu.at)
  BY StateIs, QuietTyped
<1> QED BY <1>1, <1>2 DEF More, Hand

LEMMA EnterMore ==
    ASSUME Inv, More, NEW x, Turn(x), Quiet(e, x), NEW action \in 0..2, Enter(x, action)
    PROVE  More'
<1> DEFINE hout == IF HasPld(x) THEN 0 ELSE SendPldLen(x)
           c == Entered(x, action)
<1>1. e' = x /\ cpu' = c
  BY DEF Enter
<1>2. c.at = cpu.at /\ c.put = 0 /\ c.hout = hout
  BY StateIs DEF Entered, Cpu
<1>3. ~CanOut(x) => hout = 0
  BY DEF SendPldLen
<1> HIDE DEF hout, c
<1>4. Hand(x, c)
  BY <1>2, <1>3 DEF Hand
<1>5. Typed(x, cpu.at)
  BY StateIs, QuietTyped
<1> QED BY <1>1, <1>2, <1>4, <1>5 DEF More

LEMMA StopMore ==
    ASSUME Inv, More, Stop
    PROVE  More'
<1> DEFINE c == [cpu EXCEPT !.run = "off"]
<1>1. e' = Fail(e) /\ cpu' = c
  BY DEF Stop
<1>2. c.run = "off" /\ c.at = cpu.at
  BY StateIs DEF Cpu
<1> HIDE DEF c
<1>3. Turn(Fail(e)) /\ Quiet(e, Fail(e))
  BY StateIs, FailTurn
<1>4. Typed(Fail(e), cpu.at)
  BY <1>3, StateIs, QuietTyped
<1> QED BY <1>1, <1>2, <1>3, <1>4 DEF More, Hand

(* The processor goes on with what it has in its hands. *)
LEMMA MoveMore ==
    ASSUME Inv, More, cpu.run # "off", NEW x, x.io = e.io, Turn(x), NEW c,
           c.put + c.hout > 0 => cpu.put + cpu.hout > 0, Typed(x, c.at), e' = x, cpu' = c
    PROVE  More'
<1>1. c.put + c.hout > 0 => CanOut(x)
  BY DEF More, Hand, CanOut
<1> QED BY <1>1 DEF More, Hand

LEMMA GoMore ==
    ASSUME Inv, More, cpu.run # "off", NEW x, x.io = e.io, Turn(x), NEW p, NEW h,
           Typed(x, p), Go(x, p, h)
    PROVE  More'
<1> DEFINE c == [cpu EXCEPT !.run = "on", !.at = p, !.hin = h]
<1>1. e' = x /\ cpu' = c
  BY DEF Go
<1>2. c.put = cpu.put /\ c.hout = cpu.hout /\ c.at = p
  BY StateIs DEF Cpu
<1> HIDE DEF c
<1> QED BY <1>1, <1>2, MoveMore

(* What the processor wrote was a message of its own. *)
LEMMA OwnWritten ==
    ASSUME Inv, More, cpu.run # "off", cpu.put > 0, NEW x, Sound(x), SameRegs(e, x),
           x.by = e.by, x.typeOut = e.typeOut, Turn(x)
    PROVE  LET w == PldWritten(x, cpu.put, "hs")
           IN  /\ Turn(w) /\ w.typeOut = x.typeOut /\ w.app = x.app
               /\ ~Renegotiates => Clean(w)
<1>1. CanOut(e) /\ ~HasPld(e) /\ cpu.at = "write" /\ cpu.put \in Nat
  <2>1. Empty(e, cpu.put) /\ cpu.put \in Nat /\ cpu.hout \in Nat /\ cpu.at = "write"
    BY HandsAre
  <2>2. cpu.put + cpu.hout > 0
    BY <2>1
  <2> QED BY <2>1, <2>2 DEF More, Hand, Empty, HasPld
<1>2. CanOut(x) /\ ~HasPld(x)
  BY <1>1 DEF SameRegs, CanOut, HasPld
<1>3. ~Renegotiates => x.typeOut # "app"
  BY <1>1, StateIs DEF Typed, AppRules, FirstHandshake
<1>4. LET w == PldWritten(x, cpu.put, "hs")
      IN  /\ Turn(w) /\ w.typeOut = x.typeOut /\ w.app = x.app
          /\ (HasPld(x) => x.by = "hs") /\ ("hs" = "app") = (x.typeOut = "app") => Clean(w)
  BY <1>1, <1>2, PldWrittenTurn
<1> QED BY <1>2, <1>3, <1>4

LEMMA FlushedTurn ==
    ASSUME Inv, More, cpu.run # "off", NEW x, Sound(x), SameRegs(e, x), Turn(x),
           x.by = e.by, x.typeOut = e.typeOut
    PROVE  LET f == Flushed(x)
           IN  /\ Turn(f) /\ f.typeOut = x.typeOut /\ f.app = x.app /\ ~HasPld(f)
               /\ ~Renegotiates => Clean(f)
<1> DEFINE w == IF cpu.put > 0 THEN PldWritten(x, cpu.put, "hs") ELSE x
<1>1. cpu.put > 0 => Empty(x, cpu.put)
  BY HandsAre DEF SameRegs, Empty, Gath
<1>2. Turn(w) /\ w.typeOut = x.typeOut /\ w.app = x.app /\ (~Renegotiates => Clean(w))
  <2>1. CASE cpu.put > 0
    BY <2>1, OwnWritten
  <2>2. CASE ~(cpu.put > 0)
    <3>1. ~Renegotiates => Clean(x)
      BY StateIs DEF Typed, Clean, HasPld, SameRegs
    <3> QED BY <2>2, <3>1
  <2> QED BY <2>1, <2>2
<1>3. w \in Engine
  <2>1. CASE cpu.put > 0
    <3>1. Gath(x) /\ cpu.put \in Nat /\ cpu.put <= x.oxb - x.oxa
      BY <1>1, <2>1, StateIs DEF Empty
    <3> QED BY <2>1, <3>1, PldWrittenSound DEF Sound
  <2>2. CASE ~(cpu.put > 0)
    BY <2>2 DEF Sound
  <2> QED BY <2>1, <2>2
<1>4. Flushed(x) = IF HasPld(w) THEN Seal(w, FALSE) ELSE w
  BY DEF Flushed
<1> HIDE DEF w
<1>5. FALSE \in BOOLEAN
  OBVIOUS
<1>6. LET z == Seal(w, FALSE)
      IN  Turn(z) /\ (Clean(w) => Clean(z)) /\ z.typeOut = w.typeOut /\ z.app = w.app
  BY <1>2, <1>3, <1>5, SealTurn
<1>7. ~HasPld(Flushed(x))
  BY <1>1, StateIs, FlushedSound
<1> QED BY <1>2, <1>4, <1>6, <1>7

LEMMA FlushedMore ==
    ASSUME Inv, More, cpu.run # "off", NEW x, Sound(x), SameRegs(e, x), Turn(x),
           x.by = e.by, x.typeOut = e.typeOut, NEW c,
           c.put = 0, c.hout = SendPldLen(Flushed(x)),
           ~Renegotiates => AppRules(x, c.at), e' = Flushed(x), cpu' = c
    PROVE  More'
<1> DEFINE f == Flushed(x)
<1>1. /\ Turn(f) /\ f.typeOut = x.typeOut /\ f.app = x.app /\ ~HasPld(f)
      /\ ~Renegotiates => Clean(f)
  BY FlushedTurn
<1>2. e' = f /\ c.hout = SendPldLen(f)
  OBVIOUS
<1> HIDE DEF f
<1>3. Typed(f, c.at)
  BY <1>1 DEF Typed, AppRules
<1>4. Hand(f, c)
  BY <1>2 DEF Hand, SendPldLen
<1> QED BY <1>1, <1>2, <1>3, <1>4 DEF More

LEMMA GoFlushedMore ==
    ASSUME Inv, More, cpu.run # "off", NEW x, Sound(x), SameRegs(e, x), Turn(x),
           x.by = e.by, x.typeOut = e.typeOut, NEW p, NEW h,
           ~Renegotiates => AppRules(x, p), GoFlushed(x, p, h)
    PROVE  More'
<1> DEFINE n == SendPldLen(Flushed(x))
           c == [cpu EXCEPT !.run = "on", !.at = p, !.hin = h, !.put = 0, !.hout = n]
<1>1. e' = Flushed(x) /\ cpu' = c
  BY DEF GoFlushed
<1> HIDE DEF n
<1>2. c.put = 0 /\ c.at = p /\ c.hout = n
  BY StateIs DEF Cpu
<1> HIDE DEF c
<1> QED BY <1>1, <1>2, FlushedMore DEF n

LEMMA YieldMore ==
    ASSUME Inv, More, cpu.run = "on", NEW x, Sound(x), x.ixa = e.ixa, x.ixb = e.ixb, Turn(x),
           NEW p, Typed(x, p), NEW h \in Nat, h <= cpu.hin,
           cpu.put > 0 => x = e /\ p = cpu.at, Yield(x, p, h)
    PROVE  More'
<1> DEFINE w == IF cpu.put > 0 THEN PldWritten(x, cpu.put, "hs") ELSE x
           r == IF h # cpu.hin0 THEN PldRead(w, cpu.hin0 - h) ELSE w
           hout == IF HasPld(r) THEN 0 ELSE SendPldLen(r)
           again == [Entered(r, 0) EXCEPT !.at = p]
           off == [cpu EXCEPT !.run = "off", !.at = p, !.put = 0]
<1>1. /\ cpu \in Cpu /\ cpu.hin <= cpu.hin0 /\ cpu.hin0 <= e.ixb - e.ixa
      /\ cpu.hin \in Nat /\ cpu.hin0 \in Nat /\ cpu.put \in Nat /\ e.ixa \in Nat /\ e.ixb \in Nat
  BY StateIs DEF Inv, Window
<1>2. e' = r /\ cpu' = IF h = 0 /\ cpu.hin0 > 0 THEN again ELSE off
  BY DEF Yield
<1>3. Turn(w) /\ Typed(w, p) /\ w \in Engine /\ w.ixa = e.ixa /\ w.ixb = e.ixb
  <2>1. CASE cpu.put > 0
    <3>1. Empty(e, cpu.put) /\ cpu.at = "write" /\ SameRegs(e, e)
      BY <2>1, HandsAre
    <3>2. Gath(x) /\ cpu.put <= x.oxb - x.oxa /\ SameRegs(e, x)
      BY <2>1, <3>1 DEF Empty
    <3>3. /\ Turn(w) /\ w.typeOut = x.typeOut /\ w.app = x.app
          /\ ~Renegotiates => Clean(w)
      BY <2>1, <3>2, OwnWritten
    <3>4. Sound(w) /\ KeepsIn(x, w)
      BY <1>1, <2>1, <3>2, PldWrittenSound
    <3> HIDE DEF w
    <3>5. Typed(w, p)
      BY <2>1, <3>1, <3>3 DEF Typed, AppRules, Bare
    <3> QED BY <3>3, <3>4, <3>5 DEF Sound, KeepsIn
  <2>2. CASE ~(cpu.put > 0)
    BY <2>2 DEF Sound
  <2> QED BY <2>1, <2>2
<1> HIDE DEF w
<1>4. Turn(r) /\ Typed(r, p)
  <2>1. CASE h # cpu.hin0
    <3>1. w.ixa # w.ixb /\ cpu.hin0 - h \in Nat
      BY <1>1, <1>3, <2>1
    <3>2. Turn(PldRead(w, cpu.hin0 - h)) /\ Quiet(w, PldRead(w, cpu.hin0 - h))
      BY <1>3, <3>1, PldReadTurn
    <3> QED BY <1>3, <2>1, <3>2, QuietTyped
  <2>2. CASE h = cpu.hin0
    BY <1>3, <2>2
  <2> QED BY <2>1, <2>2
<1>5. ~CanOut(r) => hout = 0
  BY DEF SendPldLen
<1> HIDE DEF r
<1>6. again.at = p /\ again.put = 0 /\ again.hout = hout
  <2> DEFINE hin == IF r.typeIn = "app" THEN 0 ELSE RecvPldLen(r)
             d == [cpu EXCEPT !.run = "resume", !.act = 0, !.hin0 = hin, !.hin = hin,
                              !.hout = hout, !.put = 0]
  <2>1. Entered(r, 0) = d
    BY DEF Entered
  <2> HIDE DEF hin, hout
  <2> QED BY <1>1, <2>1 DEF Cpu
<1> HIDE DEF hout
<1>7. off.at = p /\ off.run = "off"
  BY <1>1 DEF Cpu
<1> HIDE DEF again, off
<1>8. Hand(r, again) /\ Hand(r, off)
  BY <1>5, <1>6, <1>7 DEF Hand
<1> QED BY <1>2, <1>4, <1>6, <1>7, <1>8 DEF More

---------------------------------------------------------------------------
(* The calls. *)

LEMMA SendAppMore == ASSUME Inv, More, SendApp PROVE More'
<1>1. cpu.run = "off" /\ SendAppLen(e) > 0
  BY DEF SendApp, Ready
<1>2. PICK n \in Pieces(SendAppLen(e)) : Rest(PldWritten(e, n, "app"))
  BY DEF SendApp
<1>3. e.app = 1 /\ SendAppLen(e) = SendPldLen(e) /\ CanOut(e)
  BY <1>1 DEF SendAppLen, SendPldLen
<1>4. n \in Nat
  BY <1>1, <1>2, <1>3, StateIs, PldLens, PiecesAre
<1> DEFINE z == PldWritten(e, n, "app")
<1>5. /\ Turn(z) /\ z.typeOut = e.typeOut /\ z.app = e.app
      /\ (HasPld(e) => e.by = "app") /\ ("app" = "app") = (e.typeOut = "app") => Clean(z)
  BY <1>3, <1>4, StateIs, PldWrittenTurn
<1>6. e' = z /\ cpu' = cpu
  BY <1>2 DEF Rest
<1> HIDE DEF z
<1>7. Typed(z, cpu.at)
  <2>1. SUFFICES ASSUME ~Renegotiates PROVE Typed(z, cpu.at)
    BY DEF Typed
  <2>2. Clean(e) /\ AppRules(e, cpu.at)
    BY <2>1, StateIs DEF Typed
  <2>3. Clean(z)
    BY <1>3, <1>5, <2>2 DEF Clean, AppRules
  <2>4. cpu.at \notin FirstHandshake
    BY <1>3, <2>1 DEF Inv, Early
  <2>5. cpu.at \notin Bare
    BY <1>3, <2>2, <2>4 DEF AppRules, Bare, FirstHandshake
  <2> QED BY <1>5, <2>2, <2>3, <2>5 DEF Typed, AppRules
<1> QED BY <1>1, <1>5, <1>6, <1>7 DEF More, Hand

LEMMA FlushAppMore == ASSUME Inv, More, FlushApp PROVE More'
<1>1. cpu.run = "off"
  BY DEF FlushApp, Ready
<1>2. PICK force \in {FALSE, Forces} : Rest(Seal(e, force))
  BY DEF FlushApp
<1>3. force \in BOOLEAN /\ (force = TRUE => Forces)
  <2>1. force = FALSE \/ force = Forces
    BY <1>2
  <2>2. Forces = TRUE \/ Forces = FALSE
    BY EngineAssumption
  <2>3. CASE force = FALSE
    BY <2>3
  <2>4. CASE force = TRUE
    BY <2>1, <2>4
  <2> QED BY <2>1, <2>2, <2>3, <2>4, Zenon
<1> DEFINE z == Seal(e, force)
<1>4. /\ Turn(z) /\ (Clean(e) => Clean(z)) /\ z.typeOut = e.typeOut /\ z.app = e.app
  BY <1>3, StateIs, SealTurn
<1>5. ~HasPld(z)
  BY <1>3, StateIs, SealKeeps
<1>6. e' = z /\ cpu' = cpu
  BY <1>2 DEF Rest
<1> HIDE DEF z
<1>7. Typed(z, cpu.at)
  BY <1>4, <1>5, StateIs DEF Typed, AppRules
<1> QED BY <1>1, <1>4, <1>6, <1>7 DEF More, Hand

LEMMA SendRecMore == ASSUME Inv, More, SendRec PROVE More'
<1>1. cpu.run = "off" /\ SendRecLen(e) > 0 /\ Sound(e) /\ Turn(e)
  BY StateIs DEF SendRec, Ready
<1>2. PICK n \in Pieces(SendRecLen(e)) :
        LET x == RecWritten(e, n)
        IN  IF ~HasRec(x) /\ (x.typeOut # "app" \/ x.app # 1) THEN Enter(x, 0) ELSE Rest(x)
  BY DEF SendRec
<1>3. e.oxa \in Nat /\ e.oxb \in Nat /\ e.oxc \in Nat
  BY <1>1, EngineTypes DEF Sound
<1>4. SendRecLen(e) = e.oxc - e.oxa /\ e.oxc > e.oxa /\ SendRecLen(e) \in Nat
  BY <1>1, <1>3 DEF SendRecLen
<1>5. Filled(e)
  BY <1>1, <1>3, <1>4 DEF Sound, OutOK, Gath
<1>6. n \in Nat /\ n <= e.oxc - e.oxa
  BY <1>1, <1>2, <1>4, PiecesAre
<1> DEFINE z == RecWritten(e, n)
<1>7. Turn(z) /\ Quiet(e, z)
  BY <1>1, <1>5, <1>6, RecWrittenTurn
<1>8. Enter(z, 0) \/ Rest(z)
  BY <1>2
<1>9. 0 \in 0..2
  OBVIOUS
<1> HIDE DEF z
<1> QED BY <1>1, <1>7, <1>8, <1>9, EnterMore, RestMore

LEMMA RecvAppMore == ASSUME Inv, More, RecvApp PROVE More'
<1>1. cpu.run = "off" /\ RecvAppLen(e) > 0
  BY DEF RecvApp, Ready
<1>2. PICK n \in Pieces(RecvAppLen(e)) : Rest(PldRead(e, n))
  BY DEF RecvApp
<1>3. RecvAppLen(e) = RecvPldLen(e) /\ RecvPldLen(e) \in Nat /\ RecvPldLen(e) <= e.ixb - e.ixa
  BY <1>1, StateIs, PldLens DEF RecvAppLen
<1>4. n \in Nat /\ e.ixa # e.ixb
  BY <1>1, <1>2, <1>3, StateIs, PiecesAre
<1>5. Turn(PldRead(e, n)) /\ Quiet(e, PldRead(e, n))
  BY <1>4, StateIs, PldReadTurn
<1> QED BY <1>1, <1>2, <1>5, RestMore

LEMMA GetPartOfHeaderMore == ASSUME Inv, More, GetPartOfHeader PROVE More'
<1>1. cpu.run = "off" /\ RecvRecLen(e) > 0
  BY DEF GetPartOfHeader, Ready
<1>2. PICK n \in Pieces(RecvRecLen(e)) : e.ixa + n < Header /\ Rest(Received(n))
  BY DEF GetPartOfHeader
<1>3. CanIn(e) /\ n \in Nat
  BY <1>1, <1>2, StateIs, RecvRecIs, PiecesAre DEF RecvRecLen
<1>4. Turn(Received(n)) /\ Quiet(e, Received(n))
  BY <1>3, StateIs, ReceivedTurn
<1> QED BY <1>1, <1>2, <1>4, RestMore

LEMMA QuietTwice ==
    ASSUME NEW x, NEW y, NEW z, Quiet(x, y), Quiet(y, z)
    PROVE  Quiet(x, z)
  BY DEF Quiet

LEMMA GetHeaderMore == ASSUME Inv, More, GetHeader PROVE More'
<1>1. cpu.run = "off" /\ RecvRecLen(e) > 0
  BY DEF GetHeader, Ready
<1> DEFINE k == Header - e.ixa
           y == Received(k)
<1>2. PICK type \in RecordTypes, len \in InLens :
        LET rlen == Announced(type, len)
            x    == [y EXCEPT !.typeIn = type]
        IN  e.ixa < Header
            /\ Rest(IF \/ ~CheckLength(e.in, rlen)
                       \/ e.in # Clear /\ rlen > e.ilen - Header THEN Fail(x)
                    ELSE IF rlen = 0 THEN ReadyIn(x)
                    ELSE [x EXCEPT !.ixa = Header, !.ixb = Header, !.ixc = rlen])
  BY DEF GetHeader
<1> DEFINE rlen == Announced(type, len)
           x == [y EXCEPT !.typeIn = type]
           g == [x EXCEPT !.ixa = Header, !.ixb = Header, !.ixc = rlen]
<1>3. CanIn(e) /\ k \in Nat /\ k <= e.ixc /\ e.ixa = e.ixb /\ e.ixa + k <= e.ilen
  <2>1. CanIn(e)
    BY <1>1 DEF RecvRecLen
  <2> QED BY <1>1, <1>2, <2>1, StateIs, RecvRecIs DEF Header
<1>4. Turn(y) /\ Taking(y) /\ Quiet(e, y) /\ y \in Engine
  BY <1>3, StateIs, ReceivedTurn, ReceivedSound DEF Sound
<1>5. Rest(Fail(x)) \/ Rest(ReadyIn(x)) \/ Rest(g)
  BY <1>2
<1> HIDE DEF y, rlen
<1>6. x \in Engine
  BY <1>4 DEF Engine
<1>7. /\ x.io = y.io /\ x.shared = y.shared /\ x.oxa = y.oxa /\ x.oxb = y.oxb /\ x.oxc = y.oxc
      /\ x.by = y.by /\ x.typeOut = y.typeOut /\ x.app = y.app
  BY <1>4 DEF Engine
<1> HIDE DEF x
<1>8. Turn(x) /\ Taking(x) /\ Quiet(e, x)
  BY <1>4, <1>7, InputTurn, QuietTwice DEF Taking
<1>9. /\ g.io = x.io /\ g.shared = x.shared /\ g.oxa = x.oxa /\ g.oxb = x.oxb /\ g.oxc = x.oxc
      /\ g.by = x.by /\ g.typeOut = x.typeOut /\ g.app = x.app
  BY <1>6 DEF Engine
<1> HIDE DEF g
<1>10. Turn(g) /\ Quiet(e, g)
  BY <1>8, <1>9, InputTurn, QuietTwice
<1>11. /\ Turn(ReadyIn(x)) /\ Quiet(e, ReadyIn(x))
       /\ Turn(Fail(x)) /\ Quiet(e, Fail(x))
  BY <1>6, <1>8, ReadyInTurn, FailTurn, QuietTwice
<1> QED BY <1>1, <1>5, <1>10, <1>11, RestMore

LEMMA DispatchMore ==
    ASSUME Inv, More, cpu.run = "off", NEW x \in Engine, Turn(x), Quiet(e, x),
           x.ixa <= x.ixb, Dispatch(x)
    PROVE  More'
<1>1. CASE x.ixa = x.ixb
  <2>1. Rest(ReadyIn(x))
    BY <1>1 DEF Dispatch
  <2> QED BY <2>1, ReadyInTurn, QuietTwice, RestMore
<1>2. CASE x.ixa # x.ixb /\ x.typeIn # "app"
  <2>1. Enter(x, 0) /\ 0 \in 0..2
    BY <1>2 DEF Dispatch
  <2> QED BY <2>1, EnterMore
<1>3. CASE x.ixa # x.ixb /\ x.typeIn = "app"
  <2>1. PICK z \in {x, PldRead(x, x.ixb - x.ixa), Fail(x)} : Rest(z)
    <3>1. CASE x.app = 1
      BY <1>3, <3>1 DEF Dispatch
    <3>2. CASE x.app = 2
      BY <1>3, <3>2 DEF Dispatch
    <3>3. CASE x.app # 1 /\ x.app # 2
      BY <1>3, <3>3 DEF Dispatch
    <3> QED BY <3>1, <3>2, <3>3
  <2>2. x.ixb - x.ixa \in Nat
    BY EngineTypes
  <2>3. Turn(PldRead(x, x.ixb - x.ixa)) /\ Quiet(e, PldRead(x, x.ixb - x.ixa))
    BY <1>3, <2>2, PldReadTurn, QuietTwice
  <2>4. Turn(z) /\ Quiet(e, z)
    BY <2>1, <2>3, FailTurn, QuietTwice
  <2> QED BY <2>1, <2>4, RestMore
<1> QED BY <1>1, <1>2, <1>3

LEMMA GetBodyMore == ASSUME Inv, More, GetBody PROVE More'
<1>1. cpu.run = "off" /\ RecvRecLen(e) > 0 /\ e.ixa >= Header /\ Sound(e)
  BY StateIs DEF GetBody, Ready
<1>2. PICK n \in Pieces(RecvRecLen(e)) :
        LET x == Received(n)
        IN  IF e.in = Clear THEN Dispatch([x EXCEPT !.ixa = Header])
            ELSE IF x.ixc > 0 THEN Rest(x)
            ELSE \E len \in InLens :
                   /\ Announced(e.typeIn, len) = x.ixa - Header
                   /\ Dispatch([x EXCEPT !.ixa = Header + Before(e.in),
                                         !.ixb = Header + Before(e.in) + len])
  BY DEF GetBody
<1> DEFINE x == Received(n)
<1>3. /\ n \in Nat /\ n <= e.ixc /\ e.ixa = e.ixb /\ e.ixa + n <= e.ilen /\ CanIn(e)
      /\ e.ixa \in Nat /\ e.ilen \in Nat
  <2>1. n \in Nat /\ n <= RecvRecLen(e)
    BY <1>1, RecvRecIs, PiecesAre
  <2>2. CanIn(e)
    BY <1>1 DEF RecvRecLen
  <2> QED BY <1>1, <2>1, <2>2, RecvRecIs
<1>4. /\ x \in Engine /\ x.ixb = e.ixa + n /\ Turn(x) /\ Taking(x) /\ Quiet(e, x)
  BY <1>1, <1>3, StateIs, ReceivedSound, ReceivedTurn DEF Sound
<1>5. \/ Dispatch([x EXCEPT !.ixa = Header])
      \/ Rest(x)
      \/ \E len \in InLens :
           Dispatch([x EXCEPT !.ixa = Header + Before(e.in), !.ixb = Header + Before(e.in) + len])
  BY <1>2
<1>6. Before(e.in) \in Nat
  BY <1>1, EngineTypes, StartIs DEF Sound
<1> HIDE DEF x
<1>7. CASE Dispatch([x EXCEPT !.ixa = Header])
  <2> DEFINE z == [x EXCEPT !.ixa = Header]
  <2>1. z \in Engine
    BY <1>4 DEF Engine, Header
  <2>2. /\ z.ixa = Header /\ z.ixb = x.ixb
        /\ z.io = x.io /\ z.shared = x.shared /\ z.oxa = x.oxa /\ z.oxb = x.oxb /\ z.oxc = x.oxc
        /\ z.by = x.by /\ z.typeOut = x.typeOut /\ z.app = x.app
    BY <1>4 DEF Engine
  <2>3. Dispatch(z)
    BY <1>7
  <2> HIDE DEF z
  <2>4. z.ixa <= z.ixb
    BY <1>1, <1>3, <1>4, <2>2 DEF Header
  <2>5. Turn(z) /\ Quiet(e, z)
    BY <1>4, <2>2, InputTurn, QuietTwice
  <2> QED BY <1>1, <2>1, <2>3, <2>4, <2>5, DispatchMore
<1>8. CASE Rest(x)
  BY <1>1, <1>4, <1>8, RestMore
<1>9. ASSUME NEW len \in InLens,
             Dispatch([x EXCEPT !.ixa = Header + Before(e.in), !.ixb = Header + Before(e.in) + len])
      PROVE  More'
  <2> DEFINE a == Header + Before(e.in)
             b == Header + Before(e.in) + len
             z == [x EXCEPT !.ixa = a, !.ixb = b]
  <2>1. len \in Nat
    BY <1>1, <1>9, AnnouncedIs
  <2>2. a \in Nat /\ b \in Nat /\ a <= b
    BY <1>6, <2>1 DEF Header
  <2>3. Dispatch(z)
    BY <1>9
  <2> HIDE DEF a, b
  <2>4. z \in Engine
    BY <1>4, <2>2 DEF Engine
  <2>5. /\ z.ixa = a /\ z.ixb = b
        /\ z.io = x.io /\ z.shared = x.shared /\ z.oxa = x.oxa /\ z.oxb = x.oxb /\ z.oxc = x.oxc
        /\ z.by = x.by /\ z.typeOut = x.typeOut /\ z.app = x.app
    BY <1>4 DEF Engine
  <2> HIDE DEF z
  <2>6. Turn(z) /\ Quiet(e, z)
    BY <1>4, <2>5, InputTurn, QuietTwice
  <2> QED BY <1>1, <2>2, <2>3, <2>4, <2>5, <2>6, DispatchMore
<1> QED BY <1>5, <1>7, <1>8, <1>9

LEMMA CloseMore == ASSUME Inv, More, Close PROVE More'
<1> DEFINE z == IF RecvAppLen(e) > 0 THEN PldRead(e, RecvAppLen(e)) ELSE e
<1>1. Enter(z, 1) /\ 1 \in 0..2
  BY DEF Close
<1>2. Turn(z) /\ Quiet(e, z)
  <2>1. CASE RecvAppLen(e) > 0
    <3>1. RecvAppLen(e) = RecvPldLen(e) /\ RecvPldLen(e) \in Nat /\ RecvPldLen(e) <= e.ixb - e.ixa
      BY <2>1, StateIs, PldLens DEF RecvAppLen
    <3>2. e.ixa # e.ixb
      BY <2>1, <3>1, StateIs
    <3> QED BY <2>1, <3>1, <3>2, StateIs, PldReadTurn
  <2>2. CASE ~(RecvAppLen(e) > 0)
    BY <2>2, StateIs
  <2> QED BY <2>1, <2>2
<1> HIDE DEF z
<1> QED BY <1>1, <1>2, EnterMore

LEMMA RenegotiateMore == ASSUME Inv, More, Renegotiate PROVE More'
<1>1. Enter(e, 2) /\ 2 \in 0..2
  BY DEF Renegotiate
<1> QED BY <1>1, StateIs, EnterMore

LEMMA CallMore == ASSUME Inv, More, Call PROVE More'
  BY SendAppMore, FlushAppMore, SendRecMore, RecvAppMore, GetPartOfHeaderMore,
     GetHeaderMore, GetBodyMore, CloseMore, RenegotiateMore DEF Call

---------------------------------------------------------------------------
(* The processor. *)

(* What a step of the processor may rely on. *)
LEMMA HandIs ==
    ASSUME Inv, More, cpu.run # "off"
    PROVE  /\ cpu.put + cpu.hout > 0 => CanOut(e)
           /\ cpu.hout > 0 => CanOut(e) /\ Gath(e) /\ e.oxa = e.oxc
  BY HandsAre DEF More, Hand

LEMMA ResumeMore == ASSUME Inv, More, Resume PROVE More'
<1>1. cpu.run # "off" /\ Go(e, cpu.at, cpu.hin)
  BY DEF Resume
<1> QED BY <1>1, StateIs, GoMore

LEMMA BeginCloseMore == ASSUME Inv, More, BeginClose PROVE More'
<1> DEFINE a == IF e.app = 1 THEN 2 ELSE 0
           x == [e EXCEPT !.app = a]
<1>1. cpu.run # "off" /\ GoFlushed(x, "close", cpu.hin)
  BY DEF BeginClose
<1>2. a \in 0..2 /\ a # 1
  OBVIOUS
<1> HIDE DEF a
<1>3. Sound(x) /\ SameRegs(e, x) /\ x.app = a
  BY <1>2, StateIs, AppSound
<1>4. x.shared = e.shared /\ x.by = e.by /\ x.typeOut = e.typeOut
  BY StateIs DEF Engine
<1> HIDE DEF x
<1>5. Turn(x) /\ AppRules(x, "close")
  BY <1>2, <1>3, <1>4, StateIs, SideTurn DEF AppRules, FirstHandshake
<1> QED BY <1>1, <1>3, <1>4, <1>5, GoFlushedMore

LEMMA WarningAlertMore == ASSUME Inv, More, WarningAlert PROVE More'
<1>1. cpu.run # "off" /\ Go(e, cpu.at, 0)
  BY DEF WarningAlert
<1> QED BY <1>1, StateIs, GoMore

LEMMA FatalAlertMore == ASSUME Inv, More, FatalAlert PROVE More'
  BY StopMore DEF FatalAlert

LEMMA CloseAlertMore == ASSUME Inv, More, CloseAlert PROVE More'
<1> DEFINE x == [e EXCEPT !.app = 0, !.shut = TRUE]
           n == SendPldLen(Flushed(x))
           c == [cpu EXCEPT !.run = "on", !.at = "close", !.hin = 0, !.cnr = TRUE, !.hout = n]
<1>1. cpu.run = "resume" /\ e' = Flushed(x) /\ cpu' = c
  BY DEF CloseAlert
<1>2. 0 \in 0..2 /\ TRUE \in BOOLEAN /\ Sound(e) /\ e \in Engine /\ cpu \in Cpu /\ cpu.put = 0
  BY <1>1, StateIs, HandsAre
<1>3. Sound(x) /\ SameRegs(e, x) /\ x.app = 0
  BY <1>2, ShutSound, Zenon
<1>4. x.shared = e.shared /\ x.by = e.by /\ x.typeOut = e.typeOut
  BY <1>2 DEF Engine
<1> HIDE DEF x, n
<1>5. c.put = 0 /\ c.hout = n /\ c.at = "close"
  BY <1>2 DEF Cpu
<1> HIDE DEF c
<1>6. Turn(x) /\ AppRules(x, c.at)
  BY <1>3, <1>4, <1>5, StateIs, SideTurn DEF AppRules, FirstHandshake
<1> QED BY <1>1, <1>3, <1>4, <1>5, <1>6, FlushedMore DEF n

LEMMA WaitForCloseMore == ASSUME Inv, More, WaitForClose PROVE More'
<1>1. cpu.run # "off" /\ cpu.at \in {"close", "bye"}
  BY DEF WaitForClose, Closing
<1>2. \/ Go(e, cpu.at, cpu.hin)
      \/ Go(e, cpu.at, 0)
      \/ \E closes \in BOOLEAN :
           /\ e' = [e EXCEPT !.app = 0, !.shut = closes]
           /\ cpu' = [cpu EXCEPT !.run = "on", !.hin = 0, !.cnr = closes]
  BY DEF WaitForClose
<1>3. CASE Go(e, cpu.at, cpu.hin) \/ Go(e, cpu.at, 0)
  BY <1>1, <1>3, StateIs, GoMore
<1>4. ASSUME NEW closes \in BOOLEAN, e' = [e EXCEPT !.app = 0, !.shut = closes],
             cpu' = [cpu EXCEPT !.run = "on", !.hin = 0, !.cnr = closes]
      PROVE  More'
  <2> DEFINE x == [e EXCEPT !.app = 0, !.shut = closes]
             c == [cpu EXCEPT !.run = "on", !.hin = 0, !.cnr = closes]
  <2>1. 0 \in 0..2 /\ Sound(e) /\ e \in Engine /\ cpu \in Cpu /\ Turn(e) /\ Typed(e, cpu.at)
    BY StateIs
  <2>2. SameRegs(e, x) /\ x.app = 0
    BY <2>1, ShutSound, Zenon
  <2>3. x.shared = e.shared /\ x.by = e.by /\ x.typeOut = e.typeOut
    BY <2>1 DEF Engine
  <2>4. c.put = cpu.put /\ c.hout = cpu.hout /\ c.at = cpu.at
    BY <2>1 DEF Cpu
  <2>5. e' = x /\ cpu' = c
    BY <1>4
  <2> HIDE DEF x, c
  <2>6. x.io = e.io /\ Turn(x)
    BY <2>1, <2>2, <2>3, SideTurn DEF SameRegs
  <2>7. Typed(x, c.at)
    BY <1>1, <2>1, <2>2, <2>3, <2>4 DEF Typed, Clean, HasPld, SameRegs, AppRules, FirstHandshake
  <2> QED BY <1>1, <2>4, <2>5, <2>6, <2>7, MoveMore
<1> QED BY <1>2, <1>3, <1>4

LEMMA WaitMore == ASSUME Inv, More, Wait PROVE More'
<1>1. cpu.run = "on" /\ Yield(e, cpu.at, cpu.hin)
  BY DEF Wait
<1> QED BY <1>1, StateIs, YieldMore

LEMMA UnexpectedMore == ASSUME Inv, More, Unexpected PROVE More'
  BY StopMore DEF Unexpected

LEMMA ReadOnMore == ASSUME Inv, More, ReadOn PROVE More'
<1>1. PICK n \in Pieces(cpu.hin) : Go(e, cpu.at, cpu.hin - n)
  BY DEF ReadOn
<1>2. cpu.run # "off"
  BY DEF ReadOn, Reading
<1> QED BY <1>1, <1>2, StateIs, GoMore

LEMMA ReadFlightMore == ASSUME Inv, More, ReadFlight PROVE More'
<1>1. cpu.run # "off" /\ cpu.at = "read"
  BY DEF ReadFlight, On
<1>2. PICK n \in Pieces(cpu.hin) : Go(e, "write", 0) \/ Stop \/ Go(e, "ccs", cpu.hin - n)
  BY DEF ReadFlight
<1>3. Typed(e, "write") /\ Typed(e, "ccs")
  BY <1>1, StateIs DEF Typed, AppRules, Bare, FirstHandshake
<1> QED BY <1>1, <1>2, <1>3, StateIs, GoMore, StopMore

LEMMA ReadFragLengthMore == ASSUME Inv, More, ReadFragLength PROVE More'
<1>1. cpu.run # "off" /\ cpu.at = "read"
  BY DEF ReadFragLength, On
<1>2. PICK f \in {512, 1024, 2048, 4096} :
        f < e.frag /\ e' = NewFrag(e, f) /\ cpu' = [cpu EXCEPT !.hout = Least(@, f)]
  BY DEF ReadFragLength
<1> DEFINE z == NewFrag(e, f)
           h == Least(cpu.hout, f)
           c == [cpu EXCEPT !.hout = h]
<1>3. f \in 512..MaxPlain /\ f \in Nat /\ 0 \in Nat
  BY DEF MaxPlain
<1>4. /\ Sound(e) /\ e \in Engine /\ cpu \in Cpu /\ Turn(e) /\ Typed(e, cpu.at)
      /\ cpu.put = 0 /\ cpu.hout \in Nat
  BY <1>1, StateIs, HandsAre
<1>5. ~Renegotiates => ~HasPld(e)
  BY <1>1, <1>4 DEF Typed, Bare
<1>6. HasPld(z) => HasPld(e)
  BY <1>2, <1>3, <1>4, <1>5, NewFragSound
<1>7. /\ z.ixa = e.ixa /\ z.ixb = e.ixb /\ z.oxa = e.oxa /\ z.oxc = e.oxc /\ z.io = e.io
      /\ z.shared = e.shared /\ z.by = e.by /\ z.typeOut = e.typeOut /\ z.app = e.app
  BY <1>4 DEF NewFrag, Engine
<1>8. h \in Nat /\ (h > 0 => cpu.hout > 0)
  BY <1>3, <1>4 DEF Least
<1>9. e' = z /\ cpu' = c
  BY <1>2
<1> HIDE DEF z, h
<1>10. Turn(z) /\ Quiet(e, z)
  BY <1>4, <1>6, <1>7 DEF Turn, Quiet
<1>11. c.put = 0 /\ c.hout = h /\ c.at = cpu.at
  BY <1>4 DEF Cpu
<1> HIDE DEF c
<1>12. c.put + c.hout > 0 => cpu.put + cpu.hout > 0
  BY <1>4, <1>8, <1>11
<1>13. Typed(z, c.at)
  BY <1>4, <1>10, <1>11, QuietTyped
<1> QED BY <1>1, <1>7, <1>9, <1>10, <1>12, <1>13, MoveMore

LEMMA WriteMore == ASSUME Inv, More, Write PROVE More'
<1>1. cpu.run # "off" /\ cpu.hout > 0
  BY DEF Write, On
<1>2. PICK n \in Pieces(cpu.hout) :
        cpu' = [cpu EXCEPT !.put = @ + n, !.hout = @ - n] /\ UNCHANGED e
  BY DEF Write
<1> DEFINE c == [cpu EXCEPT !.put = @ + n, !.hout = @ - n]
<1>3. cpu.put + cpu.hout > 0
  BY <1>1, StateIs
<1>4. c.at = cpu.at
  BY StateIs DEF Cpu
<1>5. e' = e /\ cpu' = c
  BY <1>2
<1> HIDE DEF c
<1> QED BY <1>1, <1>3, <1>4, <1>5, StateIs, MoveMore

LEMMA WriteFlightMore == ASSUME Inv, More, WriteFlight PROVE More'
<1>1. cpu.run # "off" /\ cpu.at = "write"
  BY DEF WriteFlight, On
<1>2. PICK p \in {"read", "wccs"} : GoFlushed(e, p, cpu.hin)
  BY DEF WriteFlight
<1>3. ~Renegotiates => AppRules(e, p)
  BY <1>1, StateIs DEF Typed, AppRules, FirstHandshake
<1> QED BY <1>1, <1>2, <1>3, StateIs, HandsAre, GoFlushedMore

LEMMA ReadCCSMore == ASSUME Inv, More, ReadCCS PROVE More'
<1>1. cpu.run # "off" /\ cpu.at = "ccs"
  BY DEF ReadCCS, On
<1>2. Stop \/ \E s \in (IF cpu.half THEN {e.out} ELSE Ciphers) : Go([e EXCEPT !.in = s], "rfin", 0)
  BY DEF ReadCCS
<1>3. ASSUME NEW s \in (IF cpu.half THEN {e.out} ELSE Ciphers), Go([e EXCEPT !.in = s], "rfin", 0)
      PROVE  More'
  <2> DEFINE x == [e EXCEPT !.in = s]
  <2>1. /\ SameRegs(e, x) /\ x.shared = e.shared /\ x.by = e.by /\ x.typeOut = e.typeOut
        /\ x.app = e.app
    BY StateIs DEF Engine, SameRegs
  <2>2. Go(x, "rfin", 0)
    BY <1>3
  <2> HIDE DEF x
  <2>3. Turn(x) /\ x.io = e.io
    BY <2>1, StateIs, SideTurn DEF SameRegs
  <2>4. Typed(x, "rfin")
    BY <1>1, <2>1, StateIs
    DEF Typed, Clean, HasPld, SameRegs, AppRules, Bare, FirstHandshake
  <2> QED BY <1>1, <2>2, <2>3, <2>4, GoMore
<1> QED BY <1>2, <1>3, StopMore

(* The end of a handshake: what the processor wrote last was a record. *)
LEMMA DoneMore ==
    ASSUME Inv, More, cpu.run = "on", cpu.put = 0, NEW x, Sound(x), x.ixa = e.ixa, x.ixb = e.ixb,
           Turn(x), ~Renegotiates => x.by # "mixed" /\ ~HasPld(x),
           NEW h \in Nat, h <= cpu.hin, Done(x, h)
    PROVE  More'
<1> DEFINE z == [x EXCEPT !.app = 1, !.typeOut = "app"]
<1>1. 1 \in 0..2 /\ "app" \in RecordTypes /\ x \in Engine
  BY DEF RecordTypes, Sound
<1>2. Sound(z) /\ SameRegs(x, z)
  BY <1>1, TypeSound, Zenon
<1>3. z.app = 1 /\ z.typeOut = "app" /\ z.by = x.by /\ z.shared = x.shared
  BY <1>1 DEF Engine
<1>4. Yield(z, "idle", h)
  BY DEF Done
<1> HIDE DEF z
<1>5. Turn(z) /\ z.ixa = e.ixa /\ z.ixb = e.ixb
  BY <1>2, <1>3, SideTurn DEF SameRegs
<1>6. Typed(z, "idle")
  BY <1>2, <1>3 DEF Typed, Clean, HasPld, SameRegs, AppRules, Bare, FirstHandshake
<1>7. ~(cpu.put > 0)
  OBVIOUS
<1> QED BY <1>2, <1>4, <1>5, <1>6, <1>7, YieldMore

LEMMA ReadFinishedMore == ASSUME Inv, More, ReadFinished PROVE More'
<1>1. cpu.run = "on" /\ cpu.at = "rfin" /\ cpu.hin > 0
  BY DEF ReadFinished, On
<1> DEFINE m == SendPldLen(Flushed(e))
<1>2. PICK n \in Pieces(cpu.hin) :
        IF cpu.half THEN Done(e, cpu.hin - n)
        ELSE /\ e' = Flushed(e)
             /\ cpu' = [cpu EXCEPT !.at = "wccs", !.half = TRUE, !.hin = @ - n, !.hout = m]
  BY DEF ReadFinished
<1>3. /\ Sound(e) /\ SameRegs(e, e) /\ Turn(e) /\ Typed(e, cpu.at) /\ cpu \in Cpu
      /\ cpu.put = 0 /\ cpu.hin \in Nat
  BY <1>1, StateIs, HandsAre
<1> DEFINE h == cpu.hin - n
<1>4. h \in Nat /\ h <= cpu.hin
  BY <1>1, <1>3, PiecesAre
<1> HIDE DEF h, m
<1>5. CASE cpu.half
  <2>1. Done(e, h)
    BY <1>2, <1>5 DEF h
  <2>2. ~Renegotiates => e.by # "mixed" /\ ~HasPld(e)
    BY <1>1, <1>3 DEF Typed, Clean, Bare
  <2> QED BY <1>1, <1>3, <1>4, <2>1, <2>2, DoneMore
<1>6. CASE ~cpu.half
  <2> DEFINE c == [cpu EXCEPT !.at = "wccs", !.half = TRUE, !.hin = h, !.hout = m]
  <2>1. e' = Flushed(e) /\ cpu' = c
    BY <1>2, <1>6 DEF h
  <2>2. c.put = 0 /\ c.hout = m /\ c.at = "wccs"
    BY <1>3 DEF Cpu
  <2> HIDE DEF c
  <2>3. ~Renegotiates => AppRules(e, c.at)
    BY <1>1, <1>3, <2>2 DEF Typed, AppRules, FirstHandshake
  <2>4. cpu.run # "off"
    BY <1>1
  <2> QED BY <1>3, <2>1, <2>2, <2>3, <2>4, FlushedMore DEF m
<1> QED BY <1>5, <1>6

(* A message where the processor was given room. *)
LEMMA MessageIs ==
    ASSUME Inv, More, cpu.run = "on", cpu.at # "write", cpu.hout > 0,
           NEW type \in {"hs", "ccs", "alert"}, NEW n \in {1, 2, 16}
    PROVE  LET x == Message(e, type, n)
           IN  /\ Sound(x) /\ Turn(x) /\ x.by # "mixed" /\ x.typeOut = type /\ x.app = e.app
               /\ x.ixa = e.ixa /\ x.ixb = e.ixb /\ ~HasPld(x) /\ SendPldLen(x) = 0 /\ Filled(x)
<1> DEFINE x == Message(e, type, n)
<1>1. type \in RecordTypes \ {"app"} /\ type \in RecordTypes
  BY DEF RecordTypes
<1>2. n \in Nat /\ n > 0 /\ n <= 16
  OBVIOUS
<1>3. /\ Sound(x) /\ Filled(x) /\ SendPldLen(x) = 0 /\ x.ixa = e.ixa /\ x.ixb = e.ixb
      /\ x.app = e.app
  BY <1>1, MessageHere
<1>4. CanOut(e) /\ Gath(e) /\ e.oxa = e.oxc /\ Sound(e) /\ Turn(e)
  BY HandIs, StateIs
<1>5. Turn(x) /\ x.by # "mixed" /\ x.typeOut = type
  BY <1>1, <1>2, <1>4, MessageTurn
<1> HIDE DEF x
<1> QED BY <1>3, <1>5 DEF Filled, HasPld, x

LEMMA WriteCCSMore == ASSUME Inv, More, WriteCCS PROVE More'
<1>1. cpu.run = "on" /\ cpu.at = "wccs" /\ cpu.at # "write" /\ cpu.hout > 0
      /\ cpu.at \in FirstHandshake
  BY DEF WriteCCS, On, FirstHandshake
<1> DEFINE y == Message(e, "ccs", 1)
<1>2. PICK s \in (IF cpu.half THEN {e.in} ELSE Ciphers) : GoWith([y EXCEPT !.out = s], "wfin")
  BY DEF WriteCCS
<1>3. /\ Sound(e) /\ e.in \in Schemes /\ cpu \in Cpu /\ cpu.put = 0
      /\ (~Renegotiates => e.app = 0)
  BY <1>1, HandsAre, EngineTypes DEF Sound
<1>4. s \in Schemes
  BY <1>3, EngineAssumption
<1>5. /\ Sound(y) /\ Turn(y) /\ y.by # "mixed" /\ y.typeOut = "ccs" /\ y.app = e.app
      /\ ~HasPld(y) /\ SendPldLen(y) = 0
  BY <1>1, MessageIs
<1> HIDE DEF y
<1> DEFINE x == [y EXCEPT !.out = s]
           n == SendPldLen(x)
           c == [cpu EXCEPT !.run = "on", !.at = "wfin", !.hout = n]
<1>6. /\ SameRegs(y, x) /\ x.shared = y.shared /\ x.by = y.by /\ x.typeOut = y.typeOut
      /\ x.app = y.app
  BY <1>5 DEF Sound, Engine, SameRegs
<1>7. e' = x /\ cpu' = c
  BY <1>2 DEF GoWith
<1> HIDE DEF x
<1>8. n = 0 /\ Turn(x) /\ ~HasPld(x)
  BY <1>5, <1>6, SideTurn DEF SameRegs, SendPldLen, CanOut, HasPld
<1> HIDE DEF n
<1>9. c.put = 0 /\ c.hout = 0 /\ c.at = "wfin"
  BY <1>3, <1>8 DEF Cpu
<1> HIDE DEF c
<1>10. ~Renegotiates => AppRules(x, c.at)
  BY <1>3, <1>5, <1>6, <1>9 DEF AppRules
<1> QED BY <1>5, <1>6, <1>7, <1>8, <1>9, <1>10 DEF More, Hand, Typed, Clean

LEMMA WriteFinishedMore == ASSUME Inv, More, WriteFinished PROVE More'
<1>1. cpu.run = "on" /\ cpu.at = "wfin" /\ cpu.at # "write" /\ cpu.hout > 0
      /\ cpu.at \in FirstHandshake
  BY DEF WriteFinished, On, FirstHandshake
<1> DEFINE x == Message(e, "hs", 16)
           c == [cpu EXCEPT !.at = "ccs", !.half = TRUE, !.hout = 0]
<1>2. IF cpu.half THEN Done(x, cpu.hin) ELSE e' = x /\ cpu' = c
  BY DEF WriteFinished
<1>3. cpu \in Cpu /\ cpu.put = 0 /\ cpu.hin \in Nat /\ cpu.hin <= cpu.hin
      /\ (~Renegotiates => e.app = 0)
  BY <1>1, HandsAre
<1>4. /\ Sound(x) /\ Turn(x) /\ x.by # "mixed" /\ x.typeOut = "hs" /\ x.app = e.app
      /\ x.ixa = e.ixa /\ x.ixb = e.ixb /\ ~HasPld(x)
  BY <1>1, MessageIs
<1> HIDE DEF x
<1>5. CASE cpu.half
  BY <1>1, <1>2, <1>3, <1>4, <1>5, DoneMore
<1>6. CASE ~cpu.half
  <2>1. e' = x /\ cpu' = c
    BY <1>2, <1>6
  <2>2. c.put = 0 /\ c.hout = 0 /\ c.at = "ccs"
    BY <1>3 DEF Cpu
  <2> HIDE DEF c
  <2>3. ~Renegotiates => AppRules(x, c.at)
    BY <1>3, <1>4, <2>2 DEF AppRules
  <2> QED BY <1>4, <2>1, <2>2, <2>3 DEF More, Hand, Typed, Clean
<1> QED BY <1>5, <1>6

LEMMA ReadRequestMore == ASSUME Inv, More, ReadRequest PROVE More'
<1> DEFINE x == [e EXCEPT !.app = 0]
<1>1. cpu.run # "off" /\ cpu.at = "idle" /\ Go(x, "hreq", cpu.hin)
  BY DEF ReadRequest, On
<1>2. /\ SameRegs(e, x) /\ x.shared = e.shared /\ x.by = e.by /\ x.typeOut = e.typeOut
      /\ x.app = 0
  BY StateIs DEF Engine, SameRegs
<1> HIDE DEF x
<1>3. Turn(x) /\ x.io = e.io
  BY <1>2, StateIs, SideTurn DEF SameRegs
<1>4. Typed(x, "hreq")
  BY <1>2, StateIs DEF Typed, Clean, HasPld, SameRegs, AppRules, Bare, FirstHandshake
<1> QED BY <1>1, <1>3, <1>4, GoMore

LEMMA RefuseMore == ASSUME Inv, More, Refuse PROVE More'
<1>1. cpu.run # "off" /\ cpu.at = "hreq"
  BY DEF Refuse, On
<1>2. PICK n \in Pieces(cpu.hin) : GoFlushed(e, "refuse", cpu.hin - n)
  BY DEF Refuse
<1>3. ~Renegotiates => AppRules(e, "refuse")
  BY <1>1, StateIs DEF Typed, AppRules, FirstHandshake
<1> QED BY <1>1, <1>2, <1>3, StateIs, HandsAre, GoFlushedMore

LEMMA SendRefusalMore == ASSUME Inv, More, SendRefusal PROVE More'
<1> DEFINE x == Message(e, "alert", 2)
<1>1. /\ cpu.run = "on" /\ cpu.at = "refuse" /\ cpu.at # "write" /\ cpu.hout > 0
      /\ Done(x, cpu.hin)
  BY DEF SendRefusal, On
<1>2. cpu.put = 0 /\ cpu.hin \in Nat /\ cpu.hin <= cpu.hin
  BY <1>1, HandsAre
<1>3. /\ Sound(x) /\ Turn(x) /\ x.by # "mixed" /\ x.ixa = e.ixa /\ x.ixb = e.ixb
      /\ ~HasPld(x)
  BY <1>1, MessageIs
<1> HIDE DEF x
<1> QED BY <1>1, <1>2, <1>3, DoneMore

LEMMA AgainMore == ASSUME Inv, More, Again PROVE More'
<1> DEFINE x == [e EXCEPT !.app = 0, !.typeOut = "hs"]
           c == [cpu EXCEPT !.half = FALSE, !.act = 0,
                            !.at = IF cpu.client THEN "write" ELSE "read",
                            !.hin = IF cpu.client THEN 0 ELSE @]
<1>1. Renegotiates /\ cpu.run # "off" /\ e' = x /\ cpu' = c
  BY DEF Again, On
<1>2. SameRegs(e, x) /\ x.shared = e.shared
  BY StateIs DEF Engine, SameRegs
<1>3. c.put = cpu.put /\ c.hout = cpu.hout
  BY StateIs DEF Cpu
<1> HIDE DEF x, c
<1>4. Turn(x) /\ x.io = e.io /\ Typed(x, c.at)
  BY <1>1, <1>2, StateIs, SideTurn DEF SameRegs, Typed
<1> QED BY <1>1, <1>3, <1>4, MoveMore

LEMMA SendCloseMore == ASSUME Inv, More, SendClose PROVE More'
<1> DEFINE x == Message(e, "alert", 2)
           c == [cpu EXCEPT !.at = "bye", !.hout = 0]
<1>1. /\ cpu.run = "on" /\ cpu.at = "close" /\ cpu.at # "write" /\ cpu.hout > 0
      /\ e' = x /\ cpu' = c
  BY DEF SendClose, On
<1>2. cpu \in Cpu /\ cpu.put = 0 /\ Typed(e, "close")
  BY <1>1, StateIs, HandsAre
<1>3. /\ Turn(x) /\ x.by # "mixed" /\ x.typeOut = "alert" /\ x.app = e.app /\ ~HasPld(x)
  BY <1>1, MessageIs
<1> HIDE DEF x
<1>4. c.put = 0 /\ c.hout = 0 /\ c.at = "bye"
  BY <1>2 DEF Cpu
<1> HIDE DEF c
<1>5. Typed(x, c.at)
  BY <1>2, <1>3, <1>4 DEF Typed, Clean, AppRules, FirstHandshake
<1> QED BY <1>1, <1>3, <1>4, <1>5 DEF More, Hand

LEMMA CloseEndsMore == ASSUME Inv, More, CloseEnds PROVE More'
  BY StopMore DEF CloseEnds

LEMMA ProcessorMore == ASSUME Inv, More, Processor PROVE More'
  BY ResumeMore, BeginCloseMore, WarningAlertMore, FatalAlertMore, CloseAlertMore,
     WaitForCloseMore, WaitMore, UnexpectedMore, ReadOnMore, ReadFlightMore,
     ReadFragLengthMore, WriteMore, WriteFlightMore, ReadCCSMore, ReadFinishedMore,
     WriteCCSMore, WriteFinishedMore, ReadRequestMore, RefuseMore, SendRefusalMore,
     AgainMore, SendCloseMore, CloseEndsMore DEF Processor

LEMMA StepMore == ASSUME Inv, More, [Next]_vars PROVE More'
<1>1. CASE UNCHANGED vars
  BY <1>1 DEF More, Turn, Hand, CanOut, Typed, Clean, HasPld, AppRules, vars
<1> QED BY <1>1, CallMore, ProcessorMore DEF Next

LEMMA InitMore == Init => More
<1> SUFFICES ASSUME Init PROVE More
  OBVIOUS
<1>1. PICK b \in Buffers : e = New(b)
  BY DEF Init
<1>2. cpu.put = 0 /\ cpu.hout = SendPldLen(e) /\ cpu.at \in FirstHandshake
  BY DEF Init, FirstHandshake
<1>3. Sound(e) /\ e.oxa = e.oxc /\ e.app = 0
  BY <1>1, NewSound
<1>4. e.ixa = 0 /\ e.ixb = 0 /\ e.by = "hs" /\ e.typeOut = "hs"
  BY <1>1 DEF New, ReadyOut
<1>5. Turn(e)
  BY <1>3, <1>4 DEF Turn
<1>6. Hand(e, cpu)
  BY <1>2 DEF Hand, SendPldLen
<1>7. Typed(e, cpu.at)
  BY <1>2, <1>3, <1>4 DEF Typed, Clean, HasPld, AppRules, FirstHandshake
<1> QED BY <1>5, <1>6, <1>7 DEF More

---------------------------------------------------------------------------
(* What the invariant says. *)

LEMMA TurnsAre == ASSUME ~Forces, Inv, More PROVE OneAtATime
<1>1. SUFFICES ASSUME e.shared, e.io # "failed", InLive, OutLive
               PROVE  FALSE
  BY DEF OneAtATime, Closed
<1>2. e \in Engine /\ e.ixa \in Nat /\ e.ixb \in Nat /\ cpu.put \in Nat /\ cpu.hout \in Nat
  BY StateIs
<1>3. e.io = "in"
  BY <1>1, <1>2 DEF More, Turn, InLive
<1>4. CASE e.oxa # e.oxc
  BY <1>1, <1>3, <1>4 DEF More, Turn
<1>5. CASE cpu.put > 0
  <2>1. cpu.run # "off" /\ cpu.put + cpu.hout > 0
    BY <1>2, <1>5 DEF Inv, Window
  <2> QED BY <1>3, <2>1 DEF More, Hand, CanOut
<1> QED BY <1>1, <1>4, <1>5 DEF OutLive

(* The invariant holds: input or output that was begun has the shared      *)
(* buffer, the processor has room only where output may be written, and,   *)
(* with renegotiation off, what is gathered is of one writer and of its    *)
(* type.                                                                   *)
THEOREM EngineTurns == Spec => [](Inv /\ More)
<1>1. Inv /\ More /\ [Next]_vars => (Inv /\ More)'
  BY StepKeeps, StepMore
<1>2. Init => Inv /\ More
  BY InitInv, InitMore
<1> QED BY <1>1, <1>2, PTL DEF Spec

(* In a shared buffer no byte of a record that comes in and no byte of one *)
(* that goes out are held at the same time, as long as no empty record is  *)
(* forced out (br_ssl_engine_flush(cc, 1)).                                *)
THEOREM EngineOneAtATime == ASSUME ~Forces PROVE Spec => []OneAtATime
<1>1. Inv /\ More => OneAtATime
  BY TurnsAre
<1> QED BY <1>1, EngineTurns, PTL

(* Bytes of the application never leave in a record of another type, nor   *)
(* bytes of the processor in one of application data, as long as the       *)
(* handshake is not begun again.                                           *)
THEOREM EngineTypesKept == ASSUME ~Renegotiates PROVE Spec => []TypesKept
<1>1. Inv /\ More => TypesKept
  BY DEF More, Typed, Clean, TypesKept
<1> QED BY <1>1, EngineTurns, PTL

---------------------------------------------------------------------------
(* What the engine waits for.  The peer answers in turn, handshakes are    *)
(* not begun again and nothing is forced out.                              *)

Calm == Patient /\ ~Renegotiates /\ ~Forces

Live(x) == x.io # "failed"

(* Payload came in and was not read yet. *)
Pending(x) == x.ixa # x.ixb

(* Only a shared buffer changes sides, and output that has it goes out. *)
Sides(x) ==
  /\ ~x.shared /\ Live(x) => x.io = "inout"
  /\ x.shared /\ x.io = "out" => x.oxa # x.oxc

(* Some of the record is to come, and there is room for it. *)
Incoming(x) ==
  /\ ~Pending(x) => x.ixc > 0
  /\ Pending(x) => x.ixa >= Header
  /\ x.in = Clear /\ ~Pending(x) => x.ixa <= Header
  /\ x.in # Clear /\ x.ixa >= Header => x.ixb + x.ixc <= x.ilen

(* The processor was given all there was. *)
Room(x) == IF HasPld(x) THEN 0 ELSE SendPldLen(x)

Given(x, c) ==
  c.run # "off" =>
    /\ c.hin0 = x.ixb - x.ixa
    /\ c.run = "resume" => c.hin = c.hin0
    /\ c.put + c.hout = Room(x)
    /\ Pending(x) => x.typeIn # "app"

(* A record of the handshake that has begun is awaited, or was read whole. *)
Writes == {"write", "wccs", "wfin", "refuse"}
Farewells == {"close", "bye"}

Coming(x, c) == x.ixa >= Header /\ ~(c.run = "on" /\ c.hin = 0 /\ x.ixc = 0)

Awaited(x, p) ==
  /\ x.typeIn = "hs"  => p \in {"read", "ccs", "rfin", "idle", "hreq"} \cup Farewells
  /\ x.typeIn = "ccs" => p \in {"ccs"} \cup Farewells

InTurn(x, c) ==
  /\ Coming(x, c) => Awaited(x, c.at)
  /\ c.run = "on" /\ c.hin > 0 => c.at \notin Writes

(* The payload that waits is the application's, or will be flushed. *)
Own(x, p) ==
  /\ Pending(x) /\ x.typeIn = "app" => x.app = 1
  /\ HasPld(x) /\ x.app # 1 => p = "hreq" /\ ~x.shared

(* The processor leaves no input unread. *)
AtOnce(x, c) ==
  /\ c.run = "off" /\ Pending(x) => x.typeIn = "app"
  /\ c.run = "resume" /\ c.act = 1 => c.hin = 0
  /\ c.run = "on" /\ c.at \in Farewells => c.hin = 0

(* After a close_notify nothing comes any more. *)
Ended(x, c) ==
  /\ x.shut = c.cnr
  /\ x.shut => /\ c.at \in Farewells /\ x.app # 1
               /\ IF Pending(x) THEN c.run = "on" /\ x.ixc = 0 /\ c.hin = 0 ELSE x.io # "in"
               /\ c.run = "off" => Filled(x)

Lively(x, c) ==
  Live(x) => /\ Sides(x) /\ Incoming(x) /\ Given(x, c) /\ InTurn(x, c)
             /\ Own(x, c.at) /\ AtOnce(x, c) /\ Ended(x, c)

Steady == Calm /\ Inv /\ More /\ Lively(e, cpu)

---------------------------------------------------------------------------
(* What the operators leave of the input. *)

Inward(x, z) ==
  /\ z.ixa = x.ixa /\ z.ixb = x.ixb /\ z.ixc = x.ixc /\ z.typeIn = x.typeIn /\ z.in = x.in
  /\ z.ilen = x.ilen /\ z.shared = x.shared /\ z.shut = x.shut

Outward(x, z) ==
  /\ z.oxa = x.oxa /\ z.oxb = x.oxb /\ z.oxc = x.oxc /\ z.olen = x.olen
  /\ z.shared = x.shared /\ z.shut = x.shut /\ z.app = x.app

LEMMA InwardTwice ==
    ASSUME NEW x, NEW y, NEW z, Inward(x, y), Inward(y, z)
    PROVE  Inward(x, z)
  BY DEF Inward

LEMMA SealInward ==
    ASSUME NEW x, Sound(x)
    PROVE  LET z == Seal(x, FALSE)
           IN  Inward(x, z) /\ z.io = x.io /\ z.app = x.app /\ (z = x \/ Filled(z))
<1>1. x \in Engine /\ x.oxa \in Nat /\ x.oxb \in Nat /\ x.oxc \in Nat
  BY EngineTypes DEF Sound
<1>2. CASE x.oxa = x.oxb \/ x.oxa = x.oxc
  BY <1>2 DEF Seal, Inward
<1>3. CASE ~(x.oxa = x.oxb \/ x.oxa = x.oxc)
  <2> DEFINE recs == Encrypt(x.out, x.typeOut, x.oxc, x.oxa - x.oxc)
             from == recs[1].from
             to == recs[Len(recs)].to
             by == IF x.oxa # x.oxc /\ (x.by = "app") # (x.typeOut = "app") THEN "mixed" ELSE x.by
             load == IF x.by = "app" THEN x.oxa - x.oxc ELSE 0
             z == [x EXCEPT !.oxa = from, !.oxb = from, !.oxc = to, !.by = by, !.load = load]
  <2>1. Seal(x, FALSE) = z
    BY <1>3 DEF Seal
  <2> HIDE DEF recs, from, to, load, by
  <2>2. Inward(x, z) /\ z.io = x.io /\ z.app = x.app
    BY <1>1 DEF Engine, Inward
  <2> HIDE DEF z
  <2>3. Gath(x)
    BY <1>1, <1>3 DEF Sound, OutOK, Filled
  <2>4. FALSE \in BOOLEAN
    OBVIOUS
  <2>5. Filled(Seal(x, FALSE))
    BY <1>3, <2>3, <2>4, SealKeeps
  <2> QED BY <2>1, <2>2, <2>5
<1> QED BY <1>2, <1>3

LEMMA PldWrittenInward ==
    ASSUME NEW x, Sound(x), Gath(x), CanOut(x), Sides(x),
           NEW n \in Nat, n > 0, n <= x.oxb - x.oxa, NEW who \in {"app", "hs"}
    PROVE  LET z == PldWritten(x, n, who)
           IN  /\ Inward(x, z) /\ Sides(z) /\ z.app = x.app /\ CanOut(z)
               /\ n = x.oxb - x.oxa => Filled(z)
<1> DEFINE io == IF x.io = "inout" /\ x.shared THEN "out" ELSE x.io
           by == IF HasPld(x) /\ x.by # who THEN "mixed" ELSE who
           y == [x EXCEPT !.io = io, !.oxa = x.oxa + n, !.by = by]
           y1 == [y EXCEPT !.oxb = y.oxa + 1]
           w == PldWritten(x, n, who)
<1>1. x \in Engine /\ x.oxa \in Nat /\ x.oxb \in Nat /\ x.oxc \in Nat /\ x.oxc <= x.oxa
  BY EngineTypes DEF Sound, Gath
<1>2. PldWritten(x, n, who) = IF y.oxa >= y.oxb THEN Seal(y1, FALSE) ELSE y
  BY DEF PldWritten
<1>3. /\ Sound(w)
      /\ \/ Filled(w) /\ ~Gath(w)
         \/ Gath(w) /\ w.oxa = x.oxa + n /\ w.oxb = x.oxb /\ w.oxc = x.oxc
  BY PldWrittenSound
<1>4. /\ io \in {"failed", "in", "out", "inout"} /\ by \in {"app", "hs", "mixed"}
      /\ x.oxa + n \in Nat /\ x.oxa + n + 1 \in Nat
      /\ io \in {"out", "inout"} /\ (~x.shared => io = x.io)
  BY <1>1 DEF CanOut, Engine
<1> HIDE DEF io, by
<1>5. y \in Engine
  BY <1>1, <1>4 DEF Engine
<1>6. Inward(x, y) /\ y.io = io /\ y.app = x.app /\ y.oxa = x.oxa + n
  BY <1>1 DEF Engine, Inward
<1> HIDE DEF y
<1>7. y1 \in Engine
  <2>1. y.oxa + 1 \in Nat
    BY <1>4, <1>6
  <2> QED BY <1>5, <2>1 DEF Engine
<1>8. Inward(x, y1) /\ y1.io = io /\ y1.app = x.app
  BY <1>5, <1>6 DEF Engine, Inward
<1>9. Inward(x, w) /\ w.io = io /\ w.app = x.app
  <2>1. CASE y.oxa >= y.oxb
    <3> DEFINE recs == Encrypt(y1.out, y1.typeOut, y1.oxc, y1.oxa - y1.oxc)
               from == recs[1].from
               to == recs[Len(recs)].to
               b1 == IF y1.oxa # y1.oxc /\ (y1.by = "app") # (y1.typeOut = "app") THEN "mixed" ELSE y1.by
               load == IF y1.by = "app" THEN y1.oxa - y1.oxc ELSE 0
               z == [y1 EXCEPT !.oxa = from, !.oxb = from, !.oxc = to, !.by = b1, !.load = load]
    <3>1. Seal(y1, FALSE) \in {y1, z}
      <4> HIDE DEF recs, from, to, load, b1, y1
      <4> QED BY DEF Seal, recs, from, to, load, b1
    <3> HIDE DEF y1, recs, from, to, load, b1
    <3>2. Inward(y1, z) /\ z.io = y1.io /\ z.app = y1.app
      BY <1>7 DEF Engine, Inward
    <3> HIDE DEF z
    <3>3. w \in {y1, z}
      BY <1>2, <2>1, <3>1
    <3> QED BY <1>8, <3>2, <3>3, InwardTwice
  <2>2. CASE ~(y.oxa >= y.oxb)
    BY <1>2, <1>6, <2>2
  <2> QED BY <2>1, <2>2
<1> HIDE DEF w
<1>10. w.oxa # w.oxc
  <2>1. w.oxa \in Nat /\ w.oxc \in Nat
    BY <1>3, EngineTypes DEF Sound
  <2> QED BY <1>1, <1>3, <2>1 DEF Filled
<1>11. Sides(w) /\ CanOut(w)
  BY <1>4, <1>9, <1>10 DEF Sides, CanOut, Inward, Live
<1>12. n = x.oxb - x.oxa => Filled(w)
  BY <1>1, <1>3 DEF Gath
<1> QED BY <1>9, <1>11, <1>12 DEF w

LEMMA ReadyInInward ==
    ASSUME NEW x \in Engine, Sides(x)
    PROVE  LET z == ReadyIn(x)
           IN  /\ Outward(x, z) /\ Incoming(z) /\ Sides(z) /\ z.in = x.in /\ z.typeIn = x.typeIn
               /\ z.ixa = 0 /\ z.ixb = 0 /\ z.io = (IF x.io = "in" THEN "inout" ELSE x.io)
<1> DEFINE z == ReadyIn(x)
<1>1. /\ Outward(x, z) /\ z.in = x.in /\ z.typeIn = x.typeIn
      /\ z.ixa = 0 /\ z.ixb = 0 /\ z.ixc = 5 /\ z.io = (IF x.io = "in" THEN "inout" ELSE x.io)
  BY DEF ReadyIn, Engine, Outward, Header
<1> HIDE DEF z
<1>2. Incoming(z)
  BY <1>1 DEF Incoming, Pending, Header
<1>3. Sides(z)
  BY <1>1 DEF Sides, Outward, Live
<1> QED BY <1>1, <1>2, <1>3 DEF z

LEMMA PldReadInward ==
    ASSUME NEW x, Sound(x), Sides(x), Incoming(x), NEW n \in Nat, n > 0, n <= x.ixb - x.ixa
    PROVE  LET z == PldRead(x, n)
           IN  /\ Outward(x, z) /\ Incoming(z) /\ Sides(z) /\ z.in = x.in /\ z.typeIn = x.typeIn
               /\ Pending(z) <=> n # x.ixb - x.ixa
               /\ z.io = x.io \/ z.io = "inout"
               /\ n = x.ixb - x.ixa => IF x.ixc = 0 THEN z.ixa = 0 /\ z.io # "in" ELSE z.ixc = x.ixc
<1> DEFINE z == PldRead(x, n)
<1>1. /\ x \in Engine /\ x.ixa \in Nat /\ x.ixb \in Nat /\ x.ixc \in Nat /\ x.ilen \in Nat
      /\ Pending(x) /\ x.ixa >= 5 /\ x.ixb <= x.ilen
      /\ x.in # Clear => x.ixb + x.ixc <= x.ilen
  BY EngineTypes DEF Sound, InOK, Incoming, Pending, Header
<1>2. CASE x.ixa + n # x.ixb
  <2>1. /\ Outward(x, z) /\ z.in = x.in /\ z.typeIn = x.typeIn /\ z.io = x.io
        /\ z.ixa = x.ixa + n /\ z.ixb = x.ixb /\ z.ixc = x.ixc /\ z.ilen = x.ilen
    BY <1>1, <1>2 DEF PldRead, Engine, Outward
  <2> HIDE DEF z
  <2>2. Pending(z) /\ n # x.ixb - x.ixa
    BY <1>1, <1>2, <2>1 DEF Pending
  <2>3. Incoming(z)
    BY <1>1, <2>1, <2>2 DEF Incoming, Header
  <2>4. Sides(z)
    BY <2>1 DEF Sides, Outward, Live
  <2> QED BY <2>1, <2>2, <2>3, <2>4 DEF z
<1>3. CASE x.ixa + n = x.ixb /\ x.ixc = 0
  <2>1. z = ReadyIn(x) /\ n = x.ixb - x.ixa
    BY <1>1, <1>3 DEF PldRead
  <2>2. /\ Outward(x, z) /\ Incoming(z) /\ Sides(z) /\ z.in = x.in /\ z.typeIn = x.typeIn
        /\ z.ixa = 0 /\ z.ixb = 0 /\ z.io = (IF x.io = "in" THEN "inout" ELSE x.io)
    BY <1>1, <2>1, ReadyInInward
  <2> HIDE DEF z
  <2> QED BY <1>3, <2>1, <2>2 DEF Pending, z
<1>4. CASE x.ixa + n = x.ixb /\ x.ixc # 0
  <2>1. /\ Outward(x, z) /\ z.in = x.in /\ z.typeIn = x.typeIn /\ z.io = x.io
        /\ z.ixa = 5 /\ z.ixb = 5 /\ z.ixc = x.ixc /\ z.ilen = x.ilen
    BY <1>1, <1>4 DEF PldRead, Engine, Outward, Header
  <2> HIDE DEF z
  <2>2. ~Pending(z) /\ n = x.ixb - x.ixa
    BY <1>1, <1>4, <2>1 DEF Pending
  <2>3. Incoming(z)
    BY <1>1, <1>4, <2>1, <2>2 DEF Incoming, Header
  <2>4. Sides(z)
    BY <2>1 DEF Sides, Outward, Live
  <2>5. Pending(z) <=> n # x.ixb - x.ixa
    BY <2>2
  <2> QED BY <1>4, <2>1, <2>3, <2>4, <2>5 DEF z
<1> QED BY <1>2, <1>3, <1>4

LEMMA RecWrittenInward ==
    ASSUME NEW x, Sound(x), Filled(x), Sides(x), NEW n \in Nat, n <= x.oxc - x.oxa
    PROVE  LET z == RecWritten(x, n)
           IN  /\ Inward(x, z) /\ Sides(z) /\ z.app = x.app /\ z.typeOut = x.typeOut
               /\ ~HasPld(z) /\ (HasRec(z) => Filled(z)) /\ (z.io = x.io \/ z.io = "inout")
<1> DEFINE z == RecWritten(x, n)
<1>1. Sound(z) /\ ~HasPld(z) /\ x \in Engine /\ x.oxa \in Nat /\ x.oxc \in Nat
  BY RecWrittenSound, EngineTypes DEF Sound
<1>2. HasRec(z) => Filled(z)
  <2>1. z.oxa \in Nat /\ z.oxb \in Nat
    BY <1>1, EngineTypes DEF Sound
  <2> HIDE DEF z
  <2> QED BY <1>1, <2>1 DEF HasRec, Sound, OutOK, Gath
<1>3. CASE x.oxa + n = x.oxc
  <2>0. z = ReadyOut(x)
    BY <1>3 DEF RecWritten
  <2>1. /\ Inward(x, z) /\ z.app = x.app /\ z.typeOut = x.typeOut
        /\ z.io = (IF x.io = "out" THEN "inout" ELSE x.io)
    BY <1>1, <2>0 DEF ReadyOut, Engine, Inward
  <2> HIDE DEF z
  <2>2. Sides(z)
    BY <2>1 DEF Sides, Inward, Live
  <2> QED BY <1>1, <1>2, <2>1, <2>2 DEF z
<1>4. CASE x.oxa + n # x.oxc
  <2>1. /\ Inward(x, z) /\ z.app = x.app /\ z.typeOut = x.typeOut /\ z.io = x.io
        /\ z.oxa = x.oxa + n /\ z.oxc = x.oxc
    BY <1>1, <1>4 DEF RecWritten, Engine, Inward
  <2> HIDE DEF z
  <2>2. Sides(z)
    BY <1>4, <2>1 DEF Sides, Inward, Live
  <2> QED BY <1>1, <1>2, <2>1, <2>2 DEF z
<1> QED BY <1>3, <1>4

LEMMA ReceivedOutward ==
    ASSUME e \in Engine, Sides(e), NEW n \in Nat
    PROVE  LET z == Received(n)
           IN  /\ Outward(e, z) /\ Sides(z) /\ z.in = e.in /\ z.typeIn = e.typeIn
               /\ (Live(z) => Live(e))
<1> DEFINE z == Received(n)
<1>1. /\ Outward(e, z) /\ z.in = e.in /\ z.typeIn = e.typeIn
      /\ z.io = (IF e.io = "inout" /\ e.shared THEN "in" ELSE e.io)
  BY DEF Received, Engine, Outward
<1> HIDE DEF z
<1>2. Sides(z) /\ (Live(z) => Live(e))
  BY <1>1 DEF Sides, Outward, Live
<1> QED BY <1>1, <1>2 DEF z

(* Input that waits can be read, and a record that waits can be sent. *)
LEMMA PendingIn ==
    ASSUME Calm, NEW x, Sound(x), Turn(x), Sides(x), Live(x), Pending(x)
    PROVE  CanIn(x) /\ RecvPldLen(x) = x.ixb - x.ixa /\ RecvPldLen(x) \in Nat /\ RecvPldLen(x) > 0
<1>1. x.ixa \in Nat /\ x.ixb \in Nat /\ x.ixa <= x.ixb /\ x.ixa # x.ixb
  BY EngineTypes DEF Sound, InOK, Pending
<1>2. CanIn(x)
  BY <1>1 DEF Calm, Turn, Sides, Live, CanIn
<1> QED BY <1>1, <1>2 DEF RecvPldLen

LEMMA FilledOut ==
    ASSUME Calm, NEW x, Sound(x), Turn(x), Sides(x), Live(x), Filled(x)
    PROVE  CanOut(x) /\ SendRecLen(x) \in Nat /\ SendRecLen(x) > 0
<1>1. x.oxa \in Nat /\ x.oxc \in Nat /\ x.oxa < x.oxc
  BY EngineTypes DEF Sound, Filled
<1>2. CanOut(x)
  BY <1>1 DEF Calm, Turn, Sides, Live, CanOut
<1> QED BY <1>1, <1>2 DEF SendRecLen

(* Where nothing may be written though the turn is not the input's, a      *)
(* record waits.                                                           *)
LEMMA NoRoomFilled ==
    ASSUME NEW x, Sound(x), ~HasPld(x), Live(x), x.io # "in", Room(x) = 0
    PROVE  Filled(x)
<1>1. x.oxa \in Nat /\ x.oxb \in Nat /\ x.io \in {"failed", "in", "out", "inout"}
  BY EngineTypes DEF Sound, Engine
<1>2. CanOut(x)
  BY <1>1 DEF Live, CanOut
<1>3. x.oxb - x.oxa = 0
  BY <1>2 DEF Room, SendPldLen
<1> QED BY <1>1, <1>3 DEF Sound, OutOK, Gath

LEMMA FilledRoom ==
    ASSUME NEW x, Sound(x), Filled(x)
    PROVE  ~HasPld(x) /\ Room(x) = 0 /\ ~Gath(x)
<1>1. x.oxa \in Nat /\ x.oxa = x.oxb
  BY EngineTypes DEF Sound, Filled
<1> QED BY <1>1 DEF HasPld, Room, SendPldLen, Gath

---------------------------------------------------------------------------
(* The state the steps begin in. *)

LEMMA SteadyIs ==
    ASSUME Steady
    PROVE  /\ Calm /\ Patient /\ ~Renegotiates /\ ~Forces /\ Inv /\ More
           /\ Sound(e) /\ e \in Engine /\ cpu \in Cpu /\ Turn(e)
           /\ Clean(e) /\ AppRules(e, cpu.at) /\ (cpu.at \in Bare => ~HasPld(e))
           /\ cpu.hin0 \in Nat /\ cpu.hin \in Nat /\ cpu.hout \in Nat /\ cpu.put \in Nat
           /\ e.ixa \in Nat /\ e.ixb \in Nat /\ e.ixc \in Nat /\ e.ilen \in Nat
           /\ e.ixa <= e.ixb /\ e.ixb <= e.ilen /\ e.ilen >= 837
           /\ e.oxa \in Nat /\ e.oxb \in Nat /\ e.oxc \in Nat
           /\ Live(e) => /\ Sides(e) /\ Incoming(e) /\ Given(e, cpu) /\ InTurn(e, cpu)
                         /\ Own(e, cpu.at) /\ AtOnce(e, cpu) /\ Ended(e, cpu)
           /\ Live(e) /\ Pending(e) => CanIn(e) /\ RecvPldLen(e) = e.ixb - e.ixa /\ RecvPldLen(e) > 0
           /\ Inward(e, e)
<1>1. Calm /\ Patient /\ ~Renegotiates /\ ~Forces /\ Inv /\ More
  BY DEF Steady, Calm
<1>2. /\ Sound(e) /\ e \in Engine /\ cpu \in Cpu /\ Turn(e) /\ Typed(e, cpu.at)
      /\ cpu.hin0 \in Nat /\ cpu.hin \in Nat /\ cpu.hout \in Nat /\ cpu.put \in Nat
      /\ e.ixa \in Nat /\ e.ixb \in Nat
  BY <1>1, StateIs
<1>3. /\ e.ixc \in Nat /\ e.ilen \in Nat /\ e.oxa \in Nat /\ e.oxb \in Nat /\ e.oxc \in Nat
      /\ e.ixa <= e.ixb /\ e.ixb <= e.ilen /\ e.ilen >= 837
  BY <1>2, EngineTypes DEF Sound, InOK, Wide, MaxInOverhead
<1>4. Clean(e) /\ AppRules(e, cpu.at) /\ (cpu.at \in Bare => ~HasPld(e))
  BY <1>1, <1>2 DEF Typed
<1>5. Live(e) => /\ Sides(e) /\ Incoming(e) /\ Given(e, cpu) /\ InTurn(e, cpu)
                 /\ Own(e, cpu.at) /\ AtOnce(e, cpu) /\ Ended(e, cpu)
  BY DEF Steady, Lively
<1>6. Live(e) /\ Pending(e) => CanIn(e) /\ RecvPldLen(e) = e.ixb - e.ixa /\ RecvPldLen(e) > 0
  BY <1>1, <1>2, <1>5, PendingIn
<1> QED BY <1>1, <1>2, <1>3, <1>4, <1>5, <1>6 DEF Inward

(* The processor runs: it was given the input whole. *)
LEMMA RunningIs ==
    ASSUME Steady, cpu.run # "off"
    PROVE  /\ Live(e) /\ cpu.hin <= cpu.hin0 /\ cpu.hin0 = e.ixb - e.ixa
           /\ cpu.hin > 0 => Pending(e)
           /\ Pending(e) => cpu.hin0 > 0 /\ e.ixa >= Header /\ e.typeIn # "app"
           /\ cpu.hout > 0 => CanOut(e) /\ Gath(e) /\ e.oxa = e.oxc
           /\ cpu.put + cpu.hout = Room(e)
<1>1. cpu.hin <= cpu.hin0 /\ Live(e)
  BY SteadyIs, HandsAre DEF Live
<1>2. /\ cpu.hin0 = e.ixb - e.ixa /\ cpu.put + cpu.hout = Room(e)
      /\ Pending(e) => e.typeIn # "app" /\ e.ixa >= Header
  BY <1>1, SteadyIs DEF Given, Incoming
<1>3. cpu.hout > 0 => CanOut(e) /\ Gath(e) /\ e.oxa = e.oxc
  BY SteadyIs, HandIs
<1>4. (cpu.hin > 0 => Pending(e)) /\ (Pending(e) => cpu.hin0 > 0)
  BY <1>1, <1>2, SteadyIs DEF Pending
<1> QED BY <1>1, <1>2, <1>3, <1>4

---------------------------------------------------------------------------
(* The states the steps end in. *)

(* No run of the processor: a call is over, or the processor yielded. *)
LEMMA OffLively ==
    ASSUME NEW x, NEW c, c.run = "off", Sides(x), Incoming(x),
           x.ixa >= Header => Awaited(x, c.at), Own(x, c.at),
           Pending(x) => x.typeIn = "app", x.shut = c.cnr,
           x.shut => c.at \in Farewells /\ x.app # 1 /\ ~Pending(x) /\ x.io # "in" /\ Filled(x)
    PROVE  Lively(x, c)
  BY DEF Lively, Given, InTurn, Coming, AtOnce, Ended

(* The processor is to begin. *)
LEMMA EnteredLively ==
    ASSUME Calm, NEW x, Sound(x), Turn(x), Sides(x), Incoming(x),
           NEW c, c.run = "resume", c.hin = (IF x.typeIn = "app" THEN 0 ELSE RecvPldLen(x)),
           c.hin0 = c.hin, c.put = 0, c.hout = Room(x),
           x.ixa >= Header => Awaited(x, c.at), Own(x, c.at), Pending(x) => x.typeIn # "app",
           c.act = 1 => ~Pending(x), x.shut = c.cnr,
           x.shut => c.at \in Farewells /\ x.app # 1 /\ ~Pending(x) /\ x.io # "in"
    PROVE  Lively(x, c)
<1> SUFFICES ASSUME Live(x) PROVE Lively(x, c)
  BY DEF Lively
<1>1. x.ixa \in Nat /\ x.ixb \in Nat /\ Room(x) \in Nat
  BY EngineTypes, PldLens DEF Sound, Room
<1>2. c.hin = x.ixb - x.ixa
  <2>1. CASE Pending(x)
    BY <2>1, PendingIn
  <2>2. CASE ~Pending(x)
    BY <1>1, <2>2 DEF Pending, RecvPldLen
  <2> QED BY <2>1, <2>2
<1>3. Given(x, c)
  BY <1>1, <1>2 DEF Given
<1>4. InTurn(x, c)
  BY DEF InTurn, Coming
<1>5. ~Pending(x) => c.hin = 0
  BY <1>1, <1>2 DEF Pending
<1>6. AtOnce(x, c)
  BY <1>5 DEF AtOnce
<1>7. Ended(x, c)
  BY DEF Ended
<1> QED BY <1>3, <1>4, <1>6, <1>7 DEF Lively

LEMMA EnteredIs ==
    ASSUME Steady, NEW x, NEW act, NEW p
    PROVE  LET c == Entered(x, act)
               d == [Entered(x, act) EXCEPT !.at = p]
               hin == IF x.typeIn = "app" THEN 0 ELSE RecvPldLen(x)
           IN  /\ c.run = "resume" /\ c.hin = hin /\ c.hin0 = hin /\ c.put = 0 /\ c.hout = Room(x)
               /\ c.act = act /\ c.at = cpu.at /\ c.cnr = cpu.cnr /\ c.half = cpu.half
               /\ d.run = "resume" /\ d.hin = hin /\ d.hin0 = hin /\ d.put = 0 /\ d.hout = Room(x)
               /\ d.act = act /\ d.at = p /\ d.cnr = cpu.cnr /\ d.half = cpu.half
<1> DEFINE hin == IF x.typeIn = "app" THEN 0 ELSE RecvPldLen(x)
           hout == IF HasPld(x) THEN 0 ELSE SendPldLen(x)
           c == [cpu EXCEPT !.run = "resume", !.act = act, !.hin0 = hin, !.hin = hin,
                            !.hout = hout, !.put = 0]
           d == [c EXCEPT !.at = p]
<1>1. Entered(x, act) = c /\ hout = Room(x)
  BY DEF Entered, Room
<1> HIDE DEF hin, hout
<1>2. cpu \in Cpu
  BY SteadyIs
<1>3. /\ c.run = "resume" /\ c.hin = hin /\ c.hin0 = hin /\ c.put = 0 /\ c.hout = hout
      /\ c.act = act /\ c.at = cpu.at /\ c.cnr = cpu.cnr /\ c.half = cpu.half
  BY <1>2 DEF Cpu
<1>4. /\ d.run = "resume" /\ d.hin = hin /\ d.hin0 = hin /\ d.put = 0 /\ d.hout = hout
      /\ d.act = act /\ d.at = p /\ d.cnr = cpu.cnr /\ d.half = cpu.half
  BY <1>2 DEF Cpu
<1> HIDE DEF c
<1> QED BY <1>1, <1>3, <1>4 DEF hin

LEMMA EnterLively ==
    ASSUME Steady, NEW x, Sound(x), Turn(x), Sides(x), Incoming(x), NEW act,
           x.ixa >= Header => Awaited(x, cpu.at), Own(x, cpu.at), Pending(x) => x.typeIn # "app",
           act = 1 => ~Pending(x), x.shut = cpu.cnr,
           x.shut => cpu.at \in Farewells /\ x.app # 1 /\ ~Pending(x) /\ x.io # "in",
           Enter(x, act)
    PROVE  Lively(e, cpu)'
<1> DEFINE c == Entered(x, act)
<1>1. e' = x /\ cpu' = c
  BY DEF Enter
<1>2. /\ c.run = "resume" /\ c.hin = (IF x.typeIn = "app" THEN 0 ELSE RecvPldLen(x))
      /\ c.hin0 = c.hin /\ c.put = 0 /\ c.hout = Room(x)
      /\ c.act = act /\ c.at = cpu.at /\ c.cnr = cpu.cnr
  BY EnteredIs
<1> HIDE DEF c
<1>3. Lively(x, c)
  BY <1>2, SteadyIs, EnteredLively
<1> QED BY <1>1, <1>3

LEMMA RestLively ==
    ASSUME NEW x, Lively(x, cpu), Rest(x)
    PROVE  Lively(e, cpu)'
<1>1. e' = x /\ cpu' = cpu
  BY DEF Rest
<1> QED BY <1>1

LEMMA FailLively ==
    ASSUME NEW x \in Engine, NEW c
    PROVE  Lively(Fail(x), c)
<1>1. Fail(x).io = "failed"
  BY DEF Fail, Engine
<1> QED BY <1>1 DEF Lively, Live

LEMMA StopLively == ASSUME Steady, Stop PROVE Lively(e, cpu)'
<1> DEFINE c == [cpu EXCEPT !.run = "off"]
<1>1. e' = Fail(e) /\ cpu' = c
  BY DEF Stop
<1> HIDE DEF c
<1>2. Lively(Fail(e), c)
  BY SteadyIs, FailLively
<1> QED BY <1>1, <1>2

(* The processor goes on, with the input that it has. *)
LEMMA OnLively ==
    ASSUME Steady, cpu.run # "off", NEW x, x.ixa = e.ixa, x.ixb = e.ixb, x.typeIn = e.typeIn,
           Sides(x), Incoming(x), NEW c, c.run = "on", c.hin0 = cpu.hin0,
           c.put + c.hout = Room(x), InTurn(x, c), HasPld(x) /\ x.app # 1 => c.at = "hreq" /\ ~x.shared,
           c.at \in Farewells => c.hin = 0, x.shut = c.cnr,
           x.shut => /\ c.at \in Farewells /\ x.app # 1
                     /\ IF Pending(x) THEN x.ixc = 0 /\ c.hin = 0 ELSE x.io # "in"
    PROVE  Lively(x, c)
<1>1. c.hin0 = x.ixb - x.ixa /\ (Pending(x) => x.typeIn # "app")
  BY RunningIs DEF Pending
<1>2. Given(x, c)
  BY <1>1 DEF Given
<1>3. Own(x, c.at) /\ AtOnce(x, c) /\ Ended(x, c)
  BY <1>1 DEF Own, AtOnce, Ended
<1> QED BY <1>2, <1>3 DEF Lively

(* What was still to be read before is no less than what is now. *)
LEMMA StillComing ==
    ASSUME Steady, cpu.run = "on", NEW x, x.ixa = e.ixa, x.ixc = e.ixc, NEW c, c.run = "on",
           c.hin \in Nat, c.hin <= cpu.hin, Coming(x, c)
    PROVE  Coming(e, cpu)
<1>1. cpu.hin \in Nat
  BY SteadyIs
<1> QED BY <1>1 DEF Coming

LEMMA FlushedInward ==
    ASSUME Steady, cpu.run # "off", NEW x, Sound(x), SameRegs(e, x), Sides(x)
    PROVE  LET f == Flushed(x)
           IN  /\ Inward(x, f) /\ Sides(f) /\ f.app = x.app /\ Sound(f) /\ ~HasPld(f)
               /\ Filled(x) => Filled(f)
<1> DEFINE w == IF cpu.put > 0 THEN PldWritten(x, cpu.put, "hs") ELSE x
           f == Flushed(x)
<1>1. cpu.put > 0 => Empty(x, cpu.put) /\ CanOut(x)
  <2>1. SUFFICES ASSUME cpu.put > 0 PROVE Empty(x, cpu.put) /\ CanOut(x)
    OBVIOUS
  <2>2. Empty(e, cpu.put) /\ cpu.put + cpu.hout > 0
    BY <2>1, SteadyIs, HandsAre
  <2>3. CanOut(e)
    BY <2>2, SteadyIs DEF More, Hand
  <2> QED BY <2>2, <2>3 DEF SameRegs, Empty, Gath, CanOut
<1>2. Sound(w) /\ Inward(x, w) /\ Sides(w) /\ w.app = x.app /\ (Filled(x) => w = x)
  <2>1. CASE cpu.put > 0
    <3>1. Gath(x) /\ cpu.put <= x.oxb - x.oxa /\ cpu.put \in Nat /\ CanOut(x)
      BY <1>1, <2>1, SteadyIs DEF Empty
    <3>2. ~Filled(x)
      BY <3>1, FilledRoom
    <3> QED BY <2>1, <3>1, <3>2, PldWrittenInward, PldWrittenSound
  <2>2. CASE ~(cpu.put > 0)
    BY <2>2 DEF Inward
  <2> QED BY <2>1, <2>2
<1>3. f = IF HasPld(w) THEN Seal(w, FALSE) ELSE w
  BY DEF Flushed
<1> HIDE DEF w
<1>4. LET z == Seal(w, FALSE) IN Inward(w, z) /\ z.io = w.io /\ z.app = w.app /\ (z = w \/ Filled(z))
  BY <1>2, SealInward
<1>5. Sound(f) /\ ~HasPld(f)
  BY <1>1, SteadyIs, FlushedSound
<1>6. Inward(x, f) /\ f.app = x.app /\ f.io = w.io /\ (f = w \/ Filled(f))
  BY <1>2, <1>3, <1>4, InwardTwice DEF Inward
<1> HIDE DEF f
<1>7. Filled(f) => f.oxa # f.oxc
  BY <1>5, EngineTypes DEF Sound, Filled
<1>8. Sides(f)
  BY <1>2, <1>6, <1>7 DEF Sides, Inward, Live
<1>9. Filled(x) => Filled(f)
  BY <1>2, <1>6
<1> QED BY <1>5, <1>6, <1>8, <1>9 DEF f

LEMMA MessageInward ==
    ASSUME Steady, cpu.run = "on", cpu.at # "write", cpu.hout > 0,
           NEW type \in {"hs", "ccs", "alert"}, NEW n \in {1, 2, 16}
    PROVE  LET x == Message(e, type, n)
           IN  Inward(e, x) /\ Sides(x) /\ Live(x) /\ CanOut(x)
<1> DEFINE t == [e EXCEPT !.typeOut = type]
           y == PldWritten(t, n, "hs")
           x == Message(e, type, n)
<1>1. /\ e \in Engine /\ Sound(e) /\ Sides(e) /\ CanOut(e) /\ Gath(e) /\ e.oxa = e.oxc
      /\ type \in RecordTypes /\ n \in Nat /\ n > 0 /\ n <= 16 /\ Live(e)
  BY SteadyIs, RunningIs DEF RecordTypes
<1>2. t \in Engine
  BY <1>1 DEF Engine
<1>3. /\ SameRegs(e, t) /\ t.ixc = e.ixc /\ t.ilen = e.ilen /\ t.olen = e.olen /\ t.frag = e.frag
      /\ t.out = e.out /\ Inward(e, t)
  BY <1>1 DEF Engine, SameRegs, Inward
<1>4. x = IF HasPld(y) THEN Seal(y, FALSE) ELSE y
  BY DEF Message
<1> HIDE DEF t
<1>5. Sound(t) /\ CanOut(t) /\ Gath(t) /\ Sides(t)
  BY <1>1, <1>2, <1>3, SideSound DEF SameRegs, CanOut, Gath, Sides, Inward, Live
<1>6. n <= t.oxb - t.oxa
  BY <1>1, <1>3, <1>5, SteadyIs DEF Sound, OutOK, Filled, Gath, SameRegs
<1>7. Sound(y) /\ Inward(t, y) /\ Sides(y) /\ CanOut(y)
  BY <1>1, <1>5, <1>6, PldWrittenInward, PldWrittenSound
<1> HIDE DEF y
<1>8. LET z == Seal(y, FALSE) IN Inward(y, z) /\ z.io = y.io /\ (z = y \/ Filled(z))
  BY <1>7, SealInward
<1>9. Filled(x) /\ Sound(x)
  BY <1>1, SteadyIs, MessageHere
<1>10. Inward(e, x) /\ x.io = y.io
  BY <1>3, <1>4, <1>7, <1>8, InwardTwice
<1> HIDE DEF x
<1>11. x.oxa # x.oxc
  BY <1>9, EngineTypes DEF Sound, Filled
<1>12. Sides(x) /\ Live(x) /\ CanOut(x)
  <2>1. x.shared = y.shared
    BY <1>3, <1>7, <1>10 DEF Inward
  <2> QED BY <1>7, <1>10, <1>11, <2>1 DEF Sides, CanOut, Live
<1> QED BY <1>10, <1>12 DEF x

(* The processor yields at p with h bytes of input left: what it wrote     *)
(* filled its record, and what it leaves waits for one that is in the way. *)
LEMMA YieldLively ==
    ASSUME Steady, cpu.run = "on", NEW x, Sound(x), Turn(x), Live(x), Sides(x), Inward(e, x), NEW p,
           cpu.put > 0 => x = e /\ cpu.hout = 0 /\ p = "write",
           NEW h, h = 0, HasPld(x) /\ x.app # 1 => p = "hreq" /\ ~x.shared,
           x.ixa >= Header /\ x.ixc # 0 => Awaited(x, p),
           x.shut => /\ p \in Farewells /\ x.app # 1
                     /\ IF Pending(x) THEN x.ixc = 0 ELSE x.io # "in" /\ Filled(x),
           Yield(x, p, h)
    PROVE  Lively(e, cpu)'
<1> DEFINE w == IF cpu.put > 0 THEN PldWritten(x, cpu.put, "hs") ELSE x
           r == IF h # cpu.hin0 THEN PldRead(w, cpu.hin0 - h) ELSE w
           again == [Entered(r, 0) EXCEPT !.at = p]
           off == [cpu EXCEPT !.run = "off", !.at = p, !.put = 0]
<1>1. /\ cpu \in Cpu /\ cpu.put \in Nat /\ cpu.hout \in Nat /\ cpu.hin \in Nat /\ cpu.hin0 \in Nat
      /\ cpu.hin <= cpu.hin0 /\ cpu.hin0 = e.ixb - e.ixa /\ e.ixa \in Nat /\ e.ixb \in Nat
      /\ Live(e) /\ Incoming(e) /\ e.ixa <= e.ixb /\ Calm
      /\ Pending(e) => cpu.hin0 > 0 /\ e.ixa >= Header /\ e.typeIn # "app"
      /\ e.shut = cpu.cnr /\ Turn(e)
  BY SteadyIs, RunningIs DEF Ended
<1>2. e' = r /\ cpu' = IF h = 0 /\ cpu.hin0 > 0 THEN again ELSE off
  BY DEF Yield
<1>3. /\ Sound(w) /\ Inward(e, w) /\ Sides(w) /\ w.app = x.app /\ Turn(w)
      /\ (HasPld(w) /\ w.app # 1 => p = "hreq" /\ ~x.shared)
      /\ (Filled(x) => Filled(w)) /\ (~(cpu.put > 0) => w = x)
  <2>1. CASE cpu.put > 0
    <3>1. Empty(e, cpu.put) /\ cpu.put + cpu.hout > 0 /\ cpu.put + cpu.hout = Room(e)
      BY <1>1, <2>1, SteadyIs, HandsAre, RunningIs
    <3>2. CanOut(e) /\ Gath(e) /\ cpu.put <= e.oxb - e.oxa /\ x = e
      BY <2>1, <3>1, SteadyIs DEF More, Hand, Empty
    <3>3. cpu.put = e.oxb - e.oxa
      BY <1>1, <2>1, <3>1, <3>2 DEF Room, SendPldLen
    <3>4. Filled(w) /\ Inward(x, w) /\ Sides(w) /\ w.app = x.app /\ Sound(w)
      BY <1>1, <2>1, <3>2, <3>3, PldWrittenInward, PldWrittenSound
    <3>5. Turn(w)
      BY <1>1, <2>1, <3>2, PldWrittenTurn
    <3> HIDE DEF w
    <3>6. ~HasPld(w)
      BY <3>4, FilledRoom
    <3> QED BY <2>1, <3>2, <3>4, <3>5, <3>6
  <2>2. CASE ~(cpu.put > 0)
    BY <2>2
  <2> QED BY <2>1, <2>2
<1>4. x.shut => ~(cpu.put > 0)
  BY DEF Farewells
<1> HIDE DEF w
<1>5. /\ w.ixa = e.ixa /\ w.ixb = e.ixb /\ w.ixc = e.ixc /\ w.typeIn = e.typeIn /\ w.shut = e.shut
      /\ w.shared = e.shared /\ x.ixa = e.ixa /\ x.ixb = e.ixb /\ x.ixc = e.ixc
      /\ x.typeIn = e.typeIn /\ x.shut = e.shut /\ x.shared = e.shared
  BY <1>3 DEF Inward
<1>6. Incoming(w)
  BY <1>1, <1>3, <1>5 DEF Incoming, Pending, Inward
<1>7. /\ off.run = "off" /\ off.at = p /\ off.cnr = cpu.cnr
  BY <1>1 DEF Cpu
<1> HIDE DEF off
<1>8. CASE ~Pending(e)
  <2>1. h = 0 /\ cpu.hin0 = 0 /\ r = w
    BY <1>1, <1>8 DEF Pending
  <2>2. ~Pending(w)
    BY <1>5, <1>8 DEF Pending
  <2>3. w.ixa >= Header => Awaited(w, p)
    BY <1>5, <1>6, <2>2 DEF Incoming, Awaited
  <2>4. Own(w, p)
    BY <1>3, <1>5, <2>2 DEF Own
  <2>5. w.shut => p \in Farewells /\ w.app # 1 /\ ~Pending(w) /\ w.io # "in" /\ Filled(w)
    BY <1>3, <1>4, <1>5, <2>2 DEF Pending
  <2>6. Lively(w, off)
    BY <1>1, <1>3, <1>5, <1>6, <1>7, <2>2, <2>3, <2>4, <2>5, OffLively
  <2> QED BY <1>1, <1>2, <2>1, <2>6
<1>9. CASE Pending(e)
  <2>1. w.ixa # w.ixb /\ cpu.hin0 - h \in Nat /\ cpu.hin0 - h <= w.ixb - w.ixa /\ cpu.hin0 > 0
    BY <1>1, <1>5, <1>9 DEF Pending
  <2> DEFINE n == cpu.hin0 - h
  <2>2. n = w.ixb - w.ixa /\ n > 0 /\ n \in Nat /\ r = PldRead(w, n) /\ n <= w.ixb - w.ixa
    BY <1>1, <1>5, <2>1
  <2> HIDE DEF n
  <2>3. /\ Outward(w, r) /\ Incoming(r) /\ Sides(r) /\ r.typeIn = w.typeIn /\ ~Pending(r)
        /\ IF w.ixc = 0 THEN r.ixa = 0 /\ r.io # "in" ELSE r.ixc = w.ixc
    BY <1>3, <1>6, <2>2, PldReadInward
  <2>4. Sound(r) /\ Turn(r)
    BY <1>3, <2>1, <2>2, PldReadSound, PldReadTurn DEF Sound
  <2> HIDE DEF r
  <2>5. /\ again.run = "resume" /\ again.hin = (IF r.typeIn = "app" THEN 0 ELSE RecvPldLen(r))
        /\ again.hin0 = again.hin /\ again.put = 0 /\ again.hout = Room(r)
        /\ again.act = 0 /\ again.at = p /\ again.cnr = cpu.cnr
    BY EnteredIs
  <2> HIDE DEF again
  <2>6. r.ixa >= Header => Awaited(r, p)
    <3>1. CASE w.ixc = 0
      BY <2>3, <3>1 DEF Header
    <3>2. CASE w.ixc # 0
      BY <1>1, <1>5, <1>9, <2>3, <3>2 DEF Awaited
    <3> QED BY <3>1, <3>2
  <2>7. Own(r, p)
    BY <1>3, <1>5, <2>3 DEF Own, Outward, HasPld
  <2>8. r.shut => p \in Farewells /\ r.app # 1 /\ ~Pending(r) /\ r.io # "in"
    BY <1>3, <1>5, <1>9, <2>3 DEF Outward, Pending
  <2>9. r.shut = again.cnr
    BY <1>1, <1>5, <2>3, <2>5 DEF Outward
  <2>10. Lively(r, again)
    BY <1>1, <2>3, <2>4, <2>5, <2>6, <2>7, <2>8, <2>9, EnteredLively
  <2> QED BY <1>2, <2>1, <2>10
<1> QED BY <1>8, <1>9

---------------------------------------------------------------------------
(* The calls. *)

(* Between two calls. *)
LEMMA ReadyIs ==
    ASSUME Steady, Ready
    PROVE  /\ cpu.run = "off" /\ Live(e) /\ Sides(e) /\ Incoming(e) /\ Own(e, cpu.at)
           /\ e.ixa >= Header => Awaited(e, cpu.at)
           /\ Pending(e) => e.typeIn = "app"
           /\ e.shut = cpu.cnr
           /\ e.shut => /\ cpu.at \in Farewells /\ e.app # 1 /\ ~Pending(e) /\ e.io # "in"
                        /\ Filled(e)
           /\ Pending(e) /\ e.typeIn = "app" => e.app = 1
           /\ e.app = 1 => e.typeOut = "app"
<1>1. cpu.run = "off" /\ Live(e)
  BY DEF Ready, Closed, Live
<1>2. e.ixa >= Header => Awaited(e, cpu.at)
  BY <1>1, SteadyIs DEF InTurn, Coming
<1>3. Pending(e) => e.typeIn = "app"
  BY <1>1, SteadyIs DEF AtOnce
<1>4. e.shut => cpu.at \in Farewells /\ e.app # 1 /\ ~Pending(e) /\ e.io # "in" /\ Filled(e)
  BY <1>1, SteadyIs DEF Ended
<1> QED BY <1>1, <1>2, <1>3, <1>4, SteadyIs DEF Own, Ended, AppRules

(* The application wrote: no close is under way. *)
LEMMA WrittenLively ==
    ASSUME Steady, Ready, e.app = 1, NEW x, Sides(x), Inward(e, x), x.app = 1, Rest(x)
    PROVE  Lively(e, cpu)'
<1>1. /\ x.ixa = e.ixa /\ x.ixb = e.ixb /\ x.ixc = e.ixc /\ x.typeIn = e.typeIn /\ x.in = e.in
      /\ x.ilen = e.ilen /\ x.shut = e.shut
  BY DEF Inward
<1>2. Incoming(x) /\ (x.ixa >= Header => Awaited(x, cpu.at))
  BY <1>1, ReadyIs DEF Incoming, Pending, Awaited
<1>3. Own(x, cpu.at) /\ ~(Pending(x) /\ x.typeIn # "app") /\ ~x.shut /\ x.shut = cpu.cnr
  BY <1>1, ReadyIs DEF Own, Pending
<1>4. Lively(x, cpu)
  BY <1>2, <1>3, ReadyIs, OffLively
<1> QED BY <1>4, RestLively

LEMMA SendAppLively == ASSUME Steady, SendApp PROVE Lively(e, cpu)'
<1>1. Ready /\ SendAppLen(e) > 0
  BY DEF SendApp
<1>2. PICK n \in Pieces(SendAppLen(e)) : Rest(PldWritten(e, n, "app"))
  BY DEF SendApp
<1>3. e.app = 1 /\ SendAppLen(e) = SendPldLen(e) /\ CanOut(e)
  BY <1>1 DEF SendAppLen, SendPldLen
<1>4. Gath(e) /\ SendPldLen(e) = e.oxb - e.oxa /\ SendPldLen(e) \in Nat
  BY <1>1, <1>3, SteadyIs, PldLens
<1>5. n \in Nat /\ n > 0 /\ n <= e.oxb - e.oxa
  BY <1>1, <1>2, <1>3, <1>4, PiecesAre
<1>6. LET z == PldWritten(e, n, "app") IN Inward(e, z) /\ Sides(z) /\ z.app = e.app
  BY <1>1, <1>3, <1>4, <1>5, SteadyIs, ReadyIs, PldWrittenInward
<1> QED BY <1>1, <1>2, <1>3, <1>6, WrittenLively

LEMMA FlushAppLively == ASSUME Steady, FlushApp PROVE Lively(e, cpu)'
<1>1. Ready /\ e.app = 1
  BY DEF FlushApp
<1>2. PICK force \in {FALSE, Forces} : Rest(Seal(e, force))
  BY DEF FlushApp
<1>3. force = FALSE
  BY SteadyIs, EngineAssumption
<1> DEFINE z == Seal(e, FALSE)
<1>4. Inward(e, z) /\ z.io = e.io /\ z.app = e.app /\ (z = e \/ Filled(z)) /\ Sound(z)
  BY SteadyIs, SealInward, SealKeeps
<1>5. Rest(z)
  BY <1>2, <1>3
<1> HIDE DEF z
<1>6. Filled(z) => z.oxa # z.oxc
  BY <1>4, EngineTypes DEF Sound, Filled
<1>7. Sides(z)
  BY <1>1, <1>4, <1>6, ReadyIs DEF Sides, Inward, Live
<1> QED BY <1>1, <1>4, <1>5, <1>7, WrittenLively

LEMMA SendRecLively == ASSUME Steady, SendRec PROVE Lively(e, cpu)'
<1>1. Ready /\ SendRecLen(e) > 0 /\ Sound(e) /\ Turn(e)
  BY SteadyIs DEF SendRec
<1>2. PICK n \in Pieces(SendRecLen(e)) :
        LET x == RecWritten(e, n)
        IN  IF ~HasRec(x) /\ (x.typeOut # "app" \/ x.app # 1) THEN Enter(x, 0) ELSE Rest(x)
  BY DEF SendRec
<1>3. SendRecLen(e) = e.oxc - e.oxa /\ e.oxc > e.oxa /\ SendRecLen(e) \in Nat
  BY <1>1, SteadyIs DEF SendRecLen
<1>4. Filled(e)
  BY <1>1, <1>3, SteadyIs DEF Sound, OutOK, Gath
<1>5. n \in Nat /\ n <= e.oxc - e.oxa
  BY <1>1, <1>2, <1>3, PiecesAre
<1> DEFINE z == RecWritten(e, n)
<1>6. /\ Inward(e, z) /\ Sides(z) /\ z.app = e.app /\ z.typeOut = e.typeOut
      /\ ~HasPld(z) /\ (HasRec(z) => Filled(z)) /\ (z.io = e.io \/ z.io = "inout")
      /\ Sound(z) /\ Turn(z)
  BY <1>1, <1>4, <1>5, ReadyIs, RecWrittenInward, RecWrittenSound, RecWrittenTurn
<1>7. IF ~HasRec(z) /\ (z.typeOut # "app" \/ z.app # 1) THEN Enter(z, 0) ELSE Rest(z)
  BY <1>2
<1> HIDE DEF z
<1>8. /\ z.ixa = e.ixa /\ z.ixb = e.ixb /\ z.ixc = e.ixc /\ z.typeIn = e.typeIn /\ z.in = e.in
      /\ z.ilen = e.ilen /\ z.shut = e.shut
  BY <1>6 DEF Inward
<1>9. Incoming(z) /\ (z.ixa >= Header => Awaited(z, cpu.at)) /\ Own(z, cpu.at) /\ z.shut = cpu.cnr
  BY <1>1, <1>6, <1>8, ReadyIs DEF Incoming, Pending, Awaited, Own
<1>10. z.shut => cpu.at \in Farewells /\ z.app # 1 /\ ~Pending(z) /\ z.io # "in"
  BY <1>1, <1>6, <1>8, ReadyIs DEF Pending
<1>11. CASE ~HasRec(z) /\ z.app # 1
  <2>1. Enter(z, 0)
    BY <1>7, <1>11
  <2>2. Pending(z) => z.typeIn # "app"
    BY <1>1, <1>6, <1>8, <1>11, ReadyIs DEF Pending
  <2> QED BY <1>6, <1>9, <1>10, <2>1, <2>2, EnterLively
<1>12. CASE HasRec(z) \/ z.app = 1
  <2>1. Rest(z)
    BY <1>1, <1>6, <1>7, <1>12, ReadyIs
  <2>2. (Pending(z) => z.typeIn = "app") /\ (z.shut => Filled(z))
    BY <1>1, <1>6, <1>8, <1>12, ReadyIs DEF Pending
  <2>3. Lively(z, cpu)
    BY <1>1, <1>6, <1>9, <1>10, <2>2, ReadyIs, OffLively
  <2> QED BY <2>1, <2>3, RestLively
<1> QED BY <1>11, <1>12

(* Application data is read. *)
LEMMA AppRead ==
    ASSUME Steady, Ready, RecvAppLen(e) > 0, NEW n \in Nat, n > 0, n <= RecvAppLen(e)
    PROVE  LET z == PldRead(e, n)
           IN  /\ Outward(e, z) /\ Incoming(z) /\ Sides(z) /\ z.typeIn = "app" /\ e.app = 1
               /\ Sound(z) /\ Turn(z) /\ (Pending(z) <=> n # RecvAppLen(e))
<1>1. /\ e.app = 1 /\ e.typeIn = "app" /\ RecvAppLen(e) = RecvPldLen(e)
      /\ RecvPldLen(e) = e.ixb - e.ixa
  BY DEF RecvAppLen, RecvPldLen
<1>2. e.ixa # e.ixb /\ n <= e.ixb - e.ixa
  BY <1>1, SteadyIs
<1> QED BY <1>1, <1>2, SteadyIs, ReadyIs, PldReadInward, PldReadSound, PldReadTurn

LEMMA RecvAppLively == ASSUME Steady, RecvApp PROVE Lively(e, cpu)'
<1>1. Ready /\ RecvAppLen(e) > 0
  BY DEF RecvApp
<1>2. PICK n \in Pieces(RecvAppLen(e)) : Rest(PldRead(e, n))
  BY DEF RecvApp
<1>3. RecvAppLen(e) \in Nat
  BY <1>1, SteadyIs, PldLens DEF RecvAppLen
<1>4. n \in Nat /\ n > 0 /\ n <= RecvAppLen(e)
  BY <1>1, <1>2, <1>3, PiecesAre
<1> DEFINE z == PldRead(e, n)
<1>5. Outward(e, z) /\ Incoming(z) /\ Sides(z) /\ z.typeIn = "app" /\ e.app = 1
  BY <1>1, <1>4, AppRead
<1>6. Rest(z)
  BY <1>2
<1> HIDE DEF z
<1>7. z.app = 1 /\ ~z.shut /\ z.shut = cpu.cnr
  BY <1>1, <1>5, ReadyIs DEF Outward
<1>8. Awaited(z, cpu.at) /\ Own(z, cpu.at)
  BY <1>5, <1>7 DEF Awaited, Own
<1>9. Lively(z, cpu)
  BY <1>1, <1>5, <1>7, <1>8, ReadyIs, OffLively
<1> QED BY <1>6, <1>9, RestLively

LEMMA CloseLively == ASSUME Steady, Close PROVE Lively(e, cpu)'
<1> DEFINE z == IF RecvAppLen(e) > 0 THEN PldRead(e, RecvAppLen(e)) ELSE e
<1>1. Ready /\ Enter(z, 1)
  BY DEF Close
<1>2. CASE RecvAppLen(e) > 0
  <2> DEFINE n == RecvAppLen(e)
  <2>1. n \in Nat /\ n > 0 /\ n <= RecvAppLen(e) /\ z = PldRead(e, n) /\ n = RecvAppLen(e)
    BY <1>2, SteadyIs, PldLens DEF RecvAppLen
  <2> HIDE DEF n
  <2>2. /\ Outward(e, z) /\ Incoming(z) /\ Sides(z) /\ z.typeIn = "app" /\ e.app = 1
        /\ Sound(z) /\ Turn(z) /\ ~Pending(z)
    BY <1>1, <1>2, <2>1, AppRead
  <2> HIDE DEF z
  <2>3. z.app = 1 /\ ~z.shut /\ z.shut = cpu.cnr
    BY <1>1, <2>2, ReadyIs DEF Outward
  <2>4. Awaited(z, cpu.at) /\ Own(z, cpu.at)
    BY <2>2, <2>3 DEF Awaited, Own
  <2> QED BY <1>1, <2>2, <2>3, <2>4, EnterLively
<1>3. CASE ~(RecvAppLen(e) > 0)
  <2>1. z = e
    BY <1>3
  <2>2. Pending(e) => e.typeIn = "app" /\ e.app = 1
    BY <1>1, ReadyIs
  <2>3. Pending(e) => RecvAppLen(e) > 0
    BY <1>1, <2>2, SteadyIs, ReadyIs DEF RecvAppLen
  <2>4. ~Pending(e)
    BY <1>3, <2>3
  <2> QED BY <1>1, <2>1, <2>4, SteadyIs, ReadyIs, EnterLively
<1> QED BY <1>2, <1>3

(* A record may be taken. *)
LEMMA TakingIs ==
    ASSUME Steady, Ready, RecvRecLen(e) > 0
    PROVE  /\ ~e.shut /\ CanIn(e) /\ ~Pending(e) /\ RecvRecLen(e) \in Nat
           /\ RecvRecLen(e) <= e.ixc /\ e.ixa + RecvRecLen(e) <= e.ilen
           /\ e.ixa < Header => e.ixc = Header - e.ixa
<1>1. CanIn(e) /\ ~e.shut
  BY DEF RecvRecLen
<1> QED BY <1>1, SteadyIs, RecvRecIs DEF Pending

(* What was taken leaves no payload yet. *)
LEMMA TakenLively ==
    ASSUME Steady, Ready, ~e.shut, NEW x, Outward(e, x), Sides(x), Incoming(x), ~Pending(x),
           x.ixa >= Header => Awaited(x, cpu.at), Rest(x)
    PROVE  Lively(e, cpu)'
<1>1. Own(x, cpu.at) /\ ~x.shut /\ x.shut = cpu.cnr
  BY ReadyIs DEF Own, Outward, HasPld
<1>2. Lively(x, cpu)
  BY <1>1, ReadyIs, OffLively
<1> QED BY <1>2, RestLively

LEMMA GetPartOfHeaderLively == ASSUME Steady, GetPartOfHeader PROVE Lively(e, cpu)'
<1>1. Ready /\ RecvRecLen(e) > 0
  BY DEF GetPartOfHeader
<1>2. PICK n \in Pieces(RecvRecLen(e)) : e.ixa + n < Header /\ Rest(Received(n))
  BY DEF GetPartOfHeader
<1>3. n \in Nat /\ n <= e.ixc /\ e.ixa + n <= e.ilen /\ e.ixa = e.ixb /\ n > 0
  <2>1. n \in Nat /\ n > 0 /\ n <= RecvRecLen(e)
    BY <1>1, <1>2, TakingIs, PiecesAre
  <2> QED BY <1>1, <2>1, TakingIs, SteadyIs DEF Pending
<1> DEFINE x == Received(n)
<1>4. /\ x.ixa = e.ixa + n /\ x.ixb = e.ixa + n /\ x.ixc = e.ixc - n
      /\ Outward(e, x) /\ Sides(x)
  BY <1>1, <1>3, SteadyIs, ReadyIs, ReceivedSound, ReceivedOutward
<1>5. Rest(x)
  BY <1>2
<1> HIDE DEF x
<1>6. x.ixa < Header /\ x.ixc = Header - x.ixa /\ ~Pending(x)
  BY <1>1, <1>2, <1>3, <1>4, TakingIs, SteadyIs DEF Pending, Header
<1>7. x.ixa \in Nat
  BY <1>3, <1>4, SteadyIs
<1>8. Incoming(x)
  BY <1>6, <1>7 DEF Incoming, Header
<1>9. ~(x.ixa >= Header)
  BY <1>6, <1>7 DEF Header
<1> QED BY <1>1, <1>4, <1>5, <1>6, <1>8, <1>9, TakingIs, TakenLively

LEMMA GetHeaderLively == ASSUME Steady, GetHeader PROVE Lively(e, cpu)'
<1>1. Ready /\ RecvRecLen(e) > 0 /\ e.ixa < Header /\ ~e.shut
  BY TakingIs DEF GetHeader
<1> DEFINE k == Header - e.ixa
           y == Received(k)
<1>2. PICK type \in RecordTypes, len \in InLens :
        LET rlen == Announced(type, len)
            x    == [y EXCEPT !.typeIn = type]
        IN  /\ Comes(type)
            /\ Rest(IF \/ ~CheckLength(e.in, rlen)
                       \/ e.in # Clear /\ rlen > e.ilen - Header THEN Fail(x)
                    ELSE IF rlen = 0 THEN ReadyIn(x)
                    ELSE [x EXCEPT !.ixa = Header, !.ixb = Header, !.ixc = rlen])
  BY DEF GetHeader
<1> DEFINE rlen == Announced(type, len)
           x == [y EXCEPT !.typeIn = type]
           g == [x EXCEPT !.ixa = Header, !.ixb = Header, !.ixc = rlen]
<1>3. k \in Nat /\ k <= e.ixc /\ e.ixa = e.ixb /\ e.ixa + k <= e.ilen /\ Sides(e)
  BY <1>1, SteadyIs, ReadyIs, RecvRecIs DEF Header
<1>4. y \in Engine /\ y.ilen = e.ilen /\ Outward(e, y) /\ Sides(y) /\ y.in = e.in
  BY <1>3, SteadyIs, ReceivedSound, ReceivedOutward DEF Sound
<1>5. rlen \in Nat
  BY SteadyIs, AnnouncedIs
<1>6. \/ Rest(Fail(x)) \/ Rest(ReadyIn(x))
      \/ Rest(g) /\ rlen # 0 /\ (e.in # Clear => ~(rlen > e.ilen - Header))
  BY <1>2
<1> HIDE DEF y, rlen
<1>7. x \in Engine
  BY <1>4 DEF Engine
<1>8. x.typeIn = type /\ x.ilen = e.ilen /\ x.in = e.in /\ Outward(e, x) /\ x.io = y.io
  BY <1>4 DEF Engine, Outward
<1> HIDE DEF x
<1>9. Sides(x)
  BY <1>4, <1>8 DEF Sides, Outward, Live
<1>10. CASE Rest(Fail(x))
  BY <1>7, <1>10, FailLively, RestLively
<1>11. CASE Rest(ReadyIn(x))
  <2> DEFINE z == ReadyIn(x)
  <2>1. Outward(x, z) /\ Incoming(z) /\ Sides(z) /\ z.ixa = 0 /\ z.ixb = 0
    BY <1>7, <1>9, ReadyInInward
  <2>2. Rest(z)
    BY <1>11
  <2> HIDE DEF z
  <2>3. Outward(e, z) /\ ~Pending(z) /\ ~(z.ixa >= Header)
    BY <1>8, <2>1 DEF Outward, Pending, Header
  <2> QED BY <1>1, <2>1, <2>2, <2>3, TakenLively
<1>12. CASE Rest(g) /\ rlen # 0 /\ (e.in # Clear => ~(rlen > e.ilen - Header))
  <2>1. /\ g.ixa = Header /\ g.ixb = Header /\ g.ixc = rlen /\ g.typeIn = type /\ g.in = e.in
        /\ g.ilen = e.ilen /\ Outward(e, g) /\ g.io = x.io
    BY <1>7, <1>8 DEF Engine, Outward
  <2> HIDE DEF g
  <2>2. Sides(g) /\ ~Pending(g)
    BY <1>8, <1>9, <2>1 DEF Sides, Outward, Live, Pending
  <2>3. e.in # Clear => Header + rlen <= e.ilen
    BY <1>5, <1>12, SteadyIs DEF Header
  <2>4. Incoming(g)
    BY <1>5, <1>12, <2>1, <2>2, <2>3 DEF Incoming, Header
  <2>5. Awaited(g, cpu.at)
    BY <1>2, <2>1, SteadyIs DEF Comes, Awaited, Farewells
  <2> QED BY <1>1, <1>12, <2>1, <2>2, <2>4, <2>5, TakenLively
<1> QED BY <1>6, <1>10, <1>11, <1>12

LEMMA DispatchLively ==
    ASSUME Steady, Ready, ~e.shut, NEW x, Sound(x), Turn(x), Outward(e, x), Sides(x),
           x.ixa >= Header, Pending(x) => Incoming(x), Awaited(x, cpu.at), Dispatch(x)
    PROVE  Lively(e, cpu)'
<1>1. x.ixa \in Nat /\ x.ixb \in Nat /\ x.ixa <= x.ixb /\ x \in Engine
  BY EngineTypes DEF Sound, InOK
<1>2. ~x.shut /\ x.shut = cpu.cnr /\ x.app = e.app /\ (HasPld(x) <=> HasPld(e)) /\ x.shared = e.shared
  BY ReadyIs DEF Outward, HasPld
<1>3. CASE ~Pending(x)
  <2> DEFINE z == ReadyIn(x)
  <2>1. Outward(x, z) /\ Incoming(z) /\ Sides(z) /\ z.ixa = 0 /\ z.ixb = 0
    BY <1>1, ReadyInInward
  <2>2. Rest(z)
    BY <1>3 DEF Dispatch, Pending
  <2> HIDE DEF z
  <2>3. Outward(e, z) /\ ~Pending(z) /\ ~(z.ixa >= Header)
    BY <2>1 DEF Outward, Pending, Header
  <2> QED BY <2>1, <2>2, <2>3, TakenLively
<1>4. CASE Pending(x) /\ x.typeIn # "app"
  <2>1. Enter(x, 0)
    BY <1>4 DEF Dispatch, Pending
  <2>2. Own(x, cpu.at)
    BY <1>2, <1>4, ReadyIs DEF Own
  <2> QED BY <1>2, <1>4, <2>1, <2>2, EnterLively
<1>5. CASE Pending(x) /\ x.typeIn = "app" /\ x.app = 1
  <2>1. Rest(x)
    BY <1>5 DEF Dispatch, Pending
  <2>2. Own(x, cpu.at)
    BY <1>5 DEF Own
  <2>3. Lively(x, cpu)
    BY <1>2, <1>5, <2>2, ReadyIs, OffLively
  <2> QED BY <2>1, <2>3, RestLively
<1>6. CASE Pending(x) /\ x.typeIn = "app" /\ x.app = 2
  <2> DEFINE n == x.ixb - x.ixa
             z == PldRead(x, n)
  <2>1. Rest(z)
    BY <1>6 DEF Dispatch, Pending
  <2>2. n \in Nat /\ n > 0 /\ n <= x.ixb - x.ixa /\ n = x.ixb - x.ixa
    BY <1>1, <1>6 DEF Pending
  <2> HIDE DEF n
  <2>3. Outward(x, z) /\ Incoming(z) /\ Sides(z) /\ z.typeIn = "app" /\ ~Pending(z)
    BY <1>6, <2>2, PldReadInward
  <2> HIDE DEF z
  <2>4. Outward(e, z) /\ Awaited(z, cpu.at)
    BY <2>3 DEF Outward, Awaited
  <2> QED BY <2>1, <2>3, <2>4, TakenLively
<1>7. CASE Pending(x) /\ x.typeIn = "app" /\ x.app # 1 /\ x.app # 2
  <2>1. Rest(Fail(x))
    BY <1>7 DEF Dispatch, Pending
  <2> QED BY <1>1, <2>1, FailLively, RestLively
<1> QED BY <1>3, <1>4, <1>5, <1>6, <1>7

LEMMA GetBodyLively == ASSUME Steady, GetBody PROVE Lively(e, cpu)'
<1>1. Ready /\ RecvRecLen(e) > 0 /\ e.ixa >= Header /\ ~e.shut /\ Sound(e) /\ CanIn(e)
  BY SteadyIs, TakingIs DEF GetBody
<1>2. PICK n \in Pieces(RecvRecLen(e)) :
        LET x == Received(n)
        IN  IF e.in = Clear THEN Dispatch([x EXCEPT !.ixa = Header])
            ELSE IF x.ixc > 0 THEN Rest(x)
            ELSE \E len \in InLens :
                   /\ Announced(e.typeIn, len) = x.ixa - Header
                   /\ Dispatch([x EXCEPT !.ixa = Header + Before(e.in),
                                         !.ixb = Header + Before(e.in) + len])
  BY DEF GetBody
<1> DEFINE x == Received(n)
<1>3. /\ n \in Nat /\ n > 0 /\ n <= e.ixc /\ e.ixa = e.ixb /\ e.ixa + n <= e.ilen
      /\ e.ixa \in Nat /\ e.ixc \in Nat /\ e.ilen \in Nat /\ Sides(e) /\ Incoming(e)
      /\ Awaited(e, cpu.at) /\ ~Pending(e) /\ Turn(e)
  <2>1. n \in Nat /\ n > 0 /\ n <= RecvRecLen(e)
    BY <1>1, RecvRecIs, PiecesAre
  <2> QED BY <1>1, <2>1, TakingIs, SteadyIs, ReadyIs, RecvRecIs
<1>4. /\ Sound(x) /\ KeepsOut(e, x) /\ x.ilen = e.ilen /\ x.ixa = e.ixa + n /\ x.ixb = e.ixa + n
      /\ x.ixc = e.ixc - n
  BY <1>1, <1>3, ReceivedSound
<1>5. Outward(e, x) /\ Sides(x) /\ x.in = e.in /\ x.typeIn = e.typeIn /\ Turn(x) /\ Taking(x)
  BY <1>1, <1>3, SteadyIs, ReceivedOutward, ReceivedTurn
<1>6. \/ e.in = Clear /\ Dispatch([x EXCEPT !.ixa = Header])
      \/ e.in # Clear /\ x.ixc > 0 /\ Rest(x)
      \/ e.in # Clear /\ ~(x.ixc > 0) /\ \E len \in InLens :
           /\ Announced(e.typeIn, len) = x.ixa - Header
           /\ Dispatch([x EXCEPT !.ixa = Header + Before(e.in), !.ixb = Header + Before(e.in) + len])
  BY <1>2
<1> HIDE DEF x
<1>7. x \in Engine /\ x.ixa \in Nat /\ x.ixc \in Nat /\ Before(e.in) \in Nat
  BY <1>1, <1>4, EngineTypes, StartIs DEF Sound
<1>8. Awaited(x, cpu.at)
  BY <1>3, <1>5 DEF Awaited
(* Wherever the payload lies. *)
<1>9. ASSUME NEW a \in Nat, NEW b \in Nat, Header <= a, a <= b, b <= x.ilen,
             e.in # Clear => b + x.ixc <= x.ilen, Dispatch([x EXCEPT !.ixa = a, !.ixb = b])
      PROVE  Lively(e, cpu)'
  <2> DEFINE z == [x EXCEPT !.ixa = a, !.ixb = b]
  <2>1. Dispatch(z)
    BY <1>9
  <2>2. z \in Engine
    BY <1>7 DEF Engine
  <2>3. /\ z.ixa = a /\ z.ixb = b /\ z.ixc = x.ixc /\ z.in = x.in /\ z.typeIn = x.typeIn
        /\ z.ilen = x.ilen /\ z.olen = x.olen /\ z.frag = x.frag /\ z.out = x.out
        /\ KeepsOut(x, z) /\ Outward(x, z) /\ z.io = x.io /\ z.by = x.by /\ z.typeOut = x.typeOut
    BY <1>7 DEF Engine, KeepsOut, Outward
  <2> HIDE DEF z
  <2>4. InOK(z)
    BY <1>9, <2>3 DEF InOK, Header
  <2>5. Sound(z) /\ Turn(z)
    BY <1>4, <1>5, <2>2, <2>3, <2>4, InputSound, InputTurn DEF KeepsOut, Outward
  <2>6. Outward(e, z) /\ Sides(z) /\ Awaited(z, cpu.at)
    BY <1>5, <1>8, <2>3 DEF Outward, Sides, Live, Awaited
  <2>7. Pending(z) => Incoming(z)
    BY <1>5, <1>9, <2>3 DEF Incoming, Header
  <2>8. z.ixa >= Header
    BY <1>9, <2>3 DEF Header
  <2> QED BY <1>1, <2>1, <2>5, <2>6, <2>7, <2>8, DispatchLively
<1>10. CASE e.in = Clear /\ Dispatch([x EXCEPT !.ixa = Header])
  <2>1. [x EXCEPT !.ixa = Header] = [x EXCEPT !.ixa = Header, !.ixb = x.ixb]
    BY <1>7 DEF Engine
  <2>2. /\ Header \in Nat /\ x.ixb \in Nat /\ Header <= Header /\ Header <= x.ixb /\ x.ixb <= x.ilen
    BY <1>1, <1>3, <1>4 DEF Header
  <2>3. Dispatch([x EXCEPT !.ixa = Header, !.ixb = x.ixb])
    BY <1>10, <2>1
  <2> QED BY <1>9, <1>10, <2>2, <2>3
<1>11. CASE e.in # Clear /\ x.ixc > 0 /\ Rest(x)
  <2>1. ~Pending(x) /\ x.ixb + x.ixc = e.ixb + e.ixc
    BY <1>3, <1>4 DEF Pending
  <2>2. Incoming(x)
    BY <1>1, <1>3, <1>4, <1>5, <1>11, <2>1 DEF Incoming
  <2> QED BY <1>1, <1>5, <1>8, <1>11, <2>1, <2>2, TakenLively
<1>12. ASSUME e.in # Clear, ~(x.ixc > 0), NEW len \in InLens, Announced(e.typeIn, len) = x.ixa - Header,
              Dispatch([x EXCEPT !.ixa = Header + Before(e.in), !.ixb = Header + Before(e.in) + len])
       PROVE  Lively(e, cpu)'
  <2> DEFINE a == Header + Before(e.in)
             b == Header + Before(e.in) + len
  <2>1. len \in Nat /\ Before(e.in) + len <= x.ixa - Header
    BY <1>1, <1>12, AnnouncedIs
  <2>2. /\ a \in Nat /\ b \in Nat /\ Header <= a /\ a <= b /\ b <= x.ilen /\ b + x.ixc <= x.ilen
    BY <1>3, <1>4, <1>7, <1>12, <2>1 DEF Header
  <2>3. Dispatch([x EXCEPT !.ixa = a, !.ixb = b])
    BY <1>12
  <2> HIDE DEF a, b
  <2> QED BY <1>9, <2>2, <2>3
<1> QED BY <1>6, <1>10, <1>11, <1>12

LEMMA CallLively == ASSUME Steady, Call PROVE Lively(e, cpu)'
<1>1. ~Renegotiate
  BY SteadyIs DEF Renegotiate
<1> QED BY <1>1, SendAppLively, FlushAppLively, SendRecLively, RecvAppLively,
           GetPartOfHeaderLively, GetHeaderLively, GetBodyLively, CloseLively DEF Call

---------------------------------------------------------------------------
(* The processor. *)

LEMMA NotShut ==
    ASSUME Steady, cpu.run # "off", cpu.at \notin Farewells
    PROVE  ~e.shut /\ e.shut = cpu.cnr
  BY RunningIs, SteadyIs DEF Ended

(* What the processor was given has come whole. *)
LEMMA WholeIs ==
    ASSUME Steady, cpu.run # "off", cpu.hin > 0, RecFinished(e)
    PROVE  e.ixc = 0 /\ Pending(e)
<1>1. Pending(e) /\ CanIn(e) /\ e.ixa >= Header /\ Live(e)
  BY RunningIs, SteadyIs
<1>2. ~(e.ixa < Header)
  BY <1>1, SteadyIs DEF Header
<1> QED BY <1>1, <1>2 DEF RecFinished

(* A patient peer ends a flight with its record. *)
LEMMA EndsIs ==
    ASSUME Steady, cpu.run # "off", cpu.hin > 0, NEW n, Ends(n)
    PROVE  NothingMore(n) /\ cpu.hin - n = 0 /\ e.ixc = 0 /\ Pending(e) /\ ~(e.typeIn = "app")
<1>1. NothingMore(n)
  BY SteadyIs DEF Ends
<1>2. n = cpu.hin /\ RecFinished(e)
  BY <1>1 DEF NothingMore
<1>3. cpu.hin - n = 0
  BY <1>2, SteadyIs
<1> QED BY <1>1, <1>2, <1>3, WholeIs, RunningIs

(* The processor goes on, and does not close. *)
LEMMA AheadLively ==
    ASSUME Steady, cpu.run # "off", cpu.at \notin Farewells, NEW x, Inward(e, x), Sides(x),
           NEW c, c.run = "on", c.at \notin Farewells, c.hin \in Nat, c.hin0 = cpu.hin0, c.cnr = cpu.cnr,
           c.put + c.hout = Room(x), c.hin > 0 => c.at \notin Writes,
           e.ixa >= Header /\ ~(c.hin = 0 /\ e.ixc = 0) => Awaited(e, c.at),
           HasPld(x) /\ x.app # 1 => c.at = "hreq" /\ ~e.shared
    PROVE  Lively(x, c)
<1>1. /\ x.ixa = e.ixa /\ x.ixb = e.ixb /\ x.ixc = e.ixc /\ x.typeIn = e.typeIn /\ x.in = e.in
      /\ x.ilen = e.ilen /\ x.shut = e.shut /\ x.shared = e.shared
  BY DEF Inward
<1>2. Incoming(x)
  BY <1>1, RunningIs, SteadyIs DEF Incoming, Pending
<1>3. InTurn(x, c)
  BY <1>1 DEF InTurn, Coming, Awaited
<1>4. ~x.shut /\ x.shut = c.cnr
  BY <1>1, NotShut
<1> QED BY <1>1, <1>2, <1>3, <1>4, OnLively

LEMMA GoLively ==
    ASSUME Steady, cpu.run # "off", cpu.put = 0, cpu.at \notin Farewells,
           NEW p, p \notin Farewells, NEW h \in Nat, h > 0 => p \notin Writes,
           e.ixa >= Header /\ ~(h = 0 /\ e.ixc = 0) => Awaited(e, p),
           HasPld(e) /\ e.app # 1 => p = "hreq" /\ ~e.shared, Go(e, p, h)
    PROVE  Lively(e, cpu)'
<1> DEFINE c == [cpu EXCEPT !.run = "on", !.at = p, !.hin = h]
<1>1. e' = e /\ cpu' = c
  BY DEF Go
<1>2. /\ c.run = "on" /\ c.at = p /\ c.hin = h /\ c.hin0 = cpu.hin0 /\ c.cnr = cpu.cnr
      /\ c.put = cpu.put /\ c.hout = cpu.hout
  BY SteadyIs DEF Cpu
<1> HIDE DEF c
<1>3. Lively(e, c)
  BY <1>2, SteadyIs, RunningIs, AheadLively
<1> QED BY <1>1, <1>3

LEMMA GoFlushedLively ==
    ASSUME Steady, cpu.run # "off", cpu.at \notin Farewells,
           NEW p, p \notin Farewells, NEW h \in Nat, h > 0 => p \notin Writes,
           e.ixa >= Header /\ ~(h = 0 /\ e.ixc = 0) => Awaited(e, p),
           NEW c, c.run = "on", c.at = p, c.hin = h, c.hin0 = cpu.hin0, c.cnr = cpu.cnr,
           c.put = 0, c.hout = SendPldLen(Flushed(e)), e' = Flushed(e), cpu' = c
    PROVE  Lively(e, cpu)'
<1> DEFINE f == Flushed(e)
<1>1. Inward(e, f) /\ Sides(f) /\ Sound(f) /\ ~HasPld(f)
  BY SteadyIs, RunningIs, HandsAre, FlushedInward
<1>2. c.put + c.hout = Room(f)
  <2>1. SendPldLen(f) \in Nat
    BY <1>1, PldLens
  <2> QED BY <1>1, <2>1 DEF Room
<1> HIDE DEF f
<1>3. Lively(f, c)
  BY <1>1, <1>2, AheadLively
<1> QED BY <1>3 DEF f

LEMMA ResumeLively == ASSUME Steady, Resume PROVE Lively(e, cpu)'
<1>1. /\ cpu.run = "resume" /\ cpu.at \notin Farewells /\ ~Alert /\ Go(e, cpu.at, cpu.hin)
      /\ cpu.put = 0
  BY SteadyIs, HandsAre DEF Resume, Closing, Farewells
<1>2. Live(e) /\ InTurn(e, cpu) /\ Own(e, cpu.at) /\ e.typeIn \in RecordTypes
  BY <1>1, RunningIs, SteadyIs, EngineTypes
<1>3. e.ixa >= Header => Awaited(e, cpu.at)
  BY <1>1, <1>2 DEF InTurn, Coming
<1>4. cpu.hin > 0 => cpu.at \notin Writes
  <2>1. SUFFICES ASSUME cpu.hin > 0 PROVE cpu.at \notin Writes
    OBVIOUS
  <2>2. Awaited(e, cpu.at) /\ e.typeIn # "app" /\ e.typeIn # "alert"
    BY <1>1, <1>3, <2>1, RunningIs DEF Alert
  <2> QED BY <1>1, <1>2, <2>2 DEF Awaited, Writes, RecordTypes, Farewells
<1> QED BY <1>1, <1>2, <1>3, <1>4, SteadyIs, GoLively DEF Own

LEMMA WarningAlertLively == ASSUME Steady, WarningAlert PROVE Lively(e, cpu)'
<1>1. /\ cpu.run = "resume" /\ cpu.at \notin Farewells /\ Go(e, cpu.at, 0) /\ e.typeIn = "alert"
      /\ cpu.put = 0
  BY SteadyIs, HandsAre DEF WarningAlert, Closing, Farewells, Alert
<1>2. Own(e, cpu.at) /\ Awaited(e, cpu.at)
  BY <1>1, RunningIs, SteadyIs DEF Awaited
<1> QED BY <1>1, <1>2, GoLively DEF Own

LEMMA ReadOnLively == ASSUME Steady, ReadOn PROVE Lively(e, cpu)'
<1>1. cpu.run = "on" /\ cpu.at \in {"read", "rfin", "hreq"} /\ cpu.hin > 0 /\ cpu.put = 0
  BY SteadyIs, HandsAre DEF ReadOn, Reading
<1>2. PICK n \in Pieces(cpu.hin) : Go(e, cpu.at, cpu.hin - n)
  BY DEF ReadOn
<1> DEFINE h == cpu.hin - n
<1>3. h \in Nat /\ h <= cpu.hin
  <2>1. n \in Nat /\ n > 0 /\ n <= cpu.hin
    BY <1>1, <1>2, SteadyIs, PiecesAre
  <2> QED BY <2>1, SteadyIs
<1> HIDE DEF h
<1>4. Own(e, cpu.at) /\ InTurn(e, cpu)
  BY <1>1, RunningIs, SteadyIs
<1>5. e.ixa >= Header /\ ~(h = 0 /\ e.ixc = 0) => Awaited(e, cpu.at)
  BY <1>1, <1>4 DEF InTurn, Coming
<1>6. cpu.at \notin Farewells /\ cpu.at \notin Writes
  BY <1>1 DEF Farewells, Writes
<1>7. Go(e, cpu.at, h)
  BY <1>2 DEF h
<1> QED BY <1>1, <1>3, <1>4, <1>5, <1>6, <1>7, GoLively DEF Own

LEMMA ReadFlightLively == ASSUME Steady, ReadFlight PROVE Lively(e, cpu)'
<1>1. cpu.run = "on" /\ cpu.at = "read" /\ cpu.hin > 0 /\ cpu.put = 0
  BY SteadyIs, HandsAre DEF ReadFlight, On
<1>2. PICK n \in Pieces(cpu.hin) :
        Ends(n) /\ \/ IF NothingMore(n) THEN Go(e, "write", 0) ELSE Stop
                   \/ Go(e, "ccs", cpu.hin - n)
  BY DEF ReadFlight
<1>3. NothingMore(n) /\ cpu.hin - n = 0 /\ e.ixc = 0
  BY <1>1, <1>2, EndsIs
<1>4. PICK p \in {"write", "ccs"} : Go(e, p, 0)
  BY <1>2, <1>3
<1>5. ~HasPld(e) /\ cpu.at \notin Farewells /\ p \notin Farewells
  BY <1>1, <1>4, SteadyIs DEF Bare, Farewells
<1> QED BY <1>1, <1>3, <1>4, <1>5, GoLively

LEMMA WriteFlightLively == ASSUME Steady, WriteFlight PROVE Lively(e, cpu)'
<1>1. cpu.run = "on" /\ cpu.at = "write"
  BY DEF WriteFlight, On
<1>2. PICK p \in {"read", "wccs"} : GoFlushed(e, p, cpu.hin)
  BY DEF WriteFlight
<1>3. InTurn(e, cpu)
  BY <1>1, RunningIs, SteadyIs
<1>4. cpu.hin = 0
  BY <1>1, <1>3, SteadyIs DEF InTurn, Writes
<1>5. e.ixa >= Header /\ ~(cpu.hin = 0 /\ e.ixc = 0) => Awaited(e, p)
  BY <1>1, <1>3 DEF InTurn, Coming, Awaited, Farewells
<1>6. cpu.at \notin Farewells /\ p \notin Farewells
  BY <1>1, <1>2 DEF Farewells
<1> DEFINE f == Flushed(e)
           c == [cpu EXCEPT !.run = "on", !.at = p, !.hin = cpu.hin, !.put = 0, !.hout = SendPldLen(f)]
<1>7. e' = f /\ cpu' = c
  BY <1>2 DEF GoFlushed
<1>8. /\ c.run = "on" /\ c.at = p /\ c.hin = cpu.hin /\ c.hin0 = cpu.hin0 /\ c.cnr = cpu.cnr
      /\ c.put = 0 /\ c.hout = SendPldLen(f)
  <2> HIDE DEF f
  <2> QED BY SteadyIs DEF Cpu
<1> HIDE DEF c
<1> QED BY <1>1, <1>4, <1>5, <1>6, <1>7, <1>8, SteadyIs, GoFlushedLively

LEMMA RefuseLively == ASSUME Steady, Refuse PROVE Lively(e, cpu)'
<1>1. cpu.run = "on" /\ cpu.at = "hreq" /\ cpu.hin > 0
  BY DEF Refuse, On
<1>2. PICK n \in Pieces(cpu.hin) : Ends(n) /\ GoFlushed(e, "refuse", cpu.hin - n)
  BY DEF Refuse
<1>3. cpu.hin - n = 0 /\ e.ixc = 0
  BY <1>1, <1>2, EndsIs
<1> DEFINE f == Flushed(e)
           c == [cpu EXCEPT !.run = "on", !.at = "refuse", !.hin = 0, !.put = 0, !.hout = SendPldLen(f)]
<1>4. e' = f /\ cpu' = c
  BY <1>2, <1>3 DEF GoFlushed
<1>5. /\ c.run = "on" /\ c.at = "refuse" /\ c.hin = 0 /\ c.hin0 = cpu.hin0 /\ c.cnr = cpu.cnr
      /\ c.put = 0 /\ c.hout = SendPldLen(f)
  <2> HIDE DEF f
  <2> QED BY SteadyIs DEF Cpu
<1> HIDE DEF c
<1>6. cpu.at \notin Farewells /\ "refuse" \notin Farewells
  BY <1>1 DEF Farewells
<1> QED BY <1>1, <1>3, <1>4, <1>5, <1>6, GoFlushedLively

LEMMA ReadRequestLively == ASSUME Steady, ReadRequest PROVE Lively(e, cpu)'
<1> DEFINE x == [e EXCEPT !.app = 0]
           c == [cpu EXCEPT !.run = "on", !.at = "hreq", !.hin = cpu.hin]
<1>1. /\ cpu.run = "on" /\ cpu.at = "idle" /\ e.typeIn = "hs" /\ cpu.hin > 0 /\ e' = x /\ cpu' = c
  BY DEF ReadRequest, On, Go
<1>2. cpu.put = 0 /\ Pending(e) /\ Live(e) /\ Sides(e) /\ Turn(e) /\ ~Forces /\ InTurn(e, cpu)
  BY <1>1, HandsAre, RunningIs, SteadyIs
<1>3. /\ x.oxa = e.oxa /\ x.oxb = e.oxb /\ x.oxc = e.oxc /\ x.io = e.io /\ Inward(e, x)
      /\ HasPld(x) = HasPld(e) /\ Room(x) = Room(e)
  BY SteadyIs DEF Engine, Inward, HasPld, Room, SendPldLen, CanOut
<1>4. /\ c.run = "on" /\ c.at = "hreq" /\ c.hin = cpu.hin /\ c.hin0 = cpu.hin0 /\ c.cnr = cpu.cnr
      /\ c.put = cpu.put /\ c.hout = cpu.hout
  BY SteadyIs DEF Cpu
<1> HIDE DEF x, c
<1>5. Sides(x)
  BY <1>2, <1>3 DEF Sides, Live, Inward
(* A shared buffer that holds input holds no output. *)
<1>6. e.shared => ~HasPld(e)
  <2>1. e.ixa # 0 \/ e.ixb # 0
    BY <1>2, SteadyIs DEF Pending
  <2> QED BY <1>2, <2>1 DEF Turn, Live, HasPld
<1>7. cpu.at \notin Farewells /\ c.at \notin Farewells /\ c.at \notin Writes
  BY <1>1, <1>4 DEF Farewells, Writes
<1>8. e.ixa >= Header => Awaited(e, c.at)
  BY <1>1, <1>4 DEF Awaited
<1>9. HasPld(x) => ~e.shared
  BY <1>3, <1>6
<1>10. Lively(x, c)
  BY <1>1, <1>3, <1>4, <1>5, <1>7, <1>8, <1>9, SteadyIs, RunningIs, AheadLively
<1> QED BY <1>1, <1>10

LEMMA ReadCCSLively == ASSUME Steady, ReadCCS PROVE Lively(e, cpu)'
<1>1. cpu.run = "on" /\ cpu.at = "ccs" /\ cpu.hin > 0
  BY DEF ReadCCS, On
<1>2. CASE ~NothingMore(1)
  <2>1. Stop
    BY <1>2 DEF ReadCCS
  <2> QED BY <2>1, StopLively
<1>3. CASE NothingMore(1)
  <2>1. PICK s \in Schemes : Go([e EXCEPT !.in = s], "rfin", 0)
    <3>1. e.out \in Schemes
      BY SteadyIs, EngineTypes
    <3> QED BY <1>3, <3>1, EngineAssumption DEF ReadCCS
  <2> DEFINE x == [e EXCEPT !.in = s]
             c == [cpu EXCEPT !.run = "on", !.at = "rfin", !.hin = 0]
  <2>2. e' = x /\ cpu' = c
    BY <2>1 DEF Go
  <2>3. e.ixc = 0 /\ Pending(e) /\ e.ixa >= Header /\ ~HasPld(e) /\ Sides(e) /\ cpu.put = 0 /\ ~e.shut
        /\ e.shut = cpu.cnr
    <3>1. RecFinished(e)
      BY <1>3 DEF NothingMore
    <3>2. cpu.at \in Bare /\ cpu.at \notin Farewells
      BY <1>1 DEF Bare, Farewells
    <3> QED BY <1>1, <3>1, <3>2, WholeIs, RunningIs, SteadyIs, HandsAre, NotShut
  <2>4. /\ x.ixa = e.ixa /\ x.ixb = e.ixb /\ x.ixc = 0 /\ x.typeIn = e.typeIn /\ x.ilen = e.ilen
        /\ x.shut = e.shut /\ x.shared = e.shared /\ x.io = e.io /\ x.app = e.app
        /\ x.oxa = e.oxa /\ x.oxb = e.oxb /\ x.oxc = e.oxc
    BY <2>3, SteadyIs DEF Engine
  <2>5. /\ c.run = "on" /\ c.at = "rfin" /\ c.hin = 0 /\ c.hin0 = cpu.hin0 /\ c.cnr = cpu.cnr
        /\ c.put = cpu.put /\ c.hout = cpu.hout
    BY SteadyIs DEF Cpu
  <2> HIDE DEF x, c
  <2>6. Sides(x) /\ ~HasPld(x) /\ Room(x) = Room(e) /\ Pending(x)
    BY <2>3, <2>4 DEF Sides, Live, HasPld, Room, SendPldLen, CanOut, Pending
  <2>7. Incoming(x)
    BY <2>3, <2>4, <2>6, SteadyIs DEF Incoming
  <2>8. InTurn(x, c) /\ c.at \notin Farewells
    BY <2>4, <2>5 DEF InTurn, Coming, Farewells
  <2>9. Lively(x, c)
    BY <1>1, <2>3, <2>4, <2>5, <2>6, <2>7, <2>8, RunningIs, OnLively
  <2> QED BY <2>2, <2>9
<1> QED BY <1>2, <1>3

LEMMA ReadFragLengthLively == ASSUME Steady, ReadFragLength PROVE Lively(e, cpu)'
<1>1. cpu.run = "on" /\ cpu.at = "read"
  BY DEF ReadFragLength, On
<1>2. PICK f \in {512, 1024, 2048, 4096} :
        e' = NewFrag(e, f) /\ cpu' = [cpu EXCEPT !.hout = Least(@, f)]
  BY DEF ReadFragLength
<1> DEFINE x == NewFrag(e, f)
           c == [cpu EXCEPT !.hout = Least(cpu.hout, f)]
           nxb == e.oxc + f
           oxb == IF e.oxa < e.oxb /\ e.oxb > nxb /\ e.oxa < nxb THEN nxb ELSE e.oxb
<1>3. /\ cpu.put = 0 /\ ~HasPld(e) /\ Sides(e) /\ Own(e, cpu.at) /\ InTurn(e, cpu) /\ Sound(e)
      /\ cpu.put + cpu.hout = Room(e) /\ cpu.at \notin Farewells /\ cpu.hout \in Nat
  <2>1. cpu.at \in Bare /\ cpu.at \notin Farewells
    BY <1>1 DEF Bare, Farewells
  <2> QED BY <1>1, <2>1, HandsAre, RunningIs, SteadyIs
<1>4. /\ Inward(e, x) /\ x.io = e.io /\ x.oxa = e.oxa /\ x.oxc = e.oxc /\ x.oxb = oxb /\ x.app = e.app
  BY SteadyIs DEF NewFrag, Engine, Inward
<1>5. /\ c.run = "on" /\ c.at = "read" /\ c.hin = cpu.hin /\ c.hin0 = cpu.hin0 /\ c.cnr = cpu.cnr
      /\ c.put = 0 /\ c.hout = Least(cpu.hout, f)
  BY <1>1, <1>3, SteadyIs DEF Cpu
<1>6. e' = x /\ cpu' = c
  BY <1>2
<1> HIDE DEF x, c
<1>7. Sides(x)
  BY <1>3, <1>4 DEF Sides, Live, Inward
<1>8. f \in Nat /\ f > 0 /\ e.oxa \in Nat /\ e.oxb \in Nat /\ e.oxc \in Nat
  BY SteadyIs
<1>9. Room(x) = Least(Room(e), f) /\ ~HasPld(x)
  <2>1. CASE e.oxa = e.oxb
    BY <1>4, <1>8, <2>1 DEF HasPld, Room, SendPldLen, CanOut, Least
  <2>2. CASE e.oxa # e.oxb
    <3>1. e.oxa = e.oxc /\ e.oxa < e.oxb
      BY <1>3, <1>8, <2>2 DEF HasPld, Sound, OutOK, Gath, Filled
    <3>2. oxb - e.oxa = Least(e.oxb - e.oxa, f)
      BY <1>8, <3>1 DEF Least
    <3> QED BY <1>3, <1>4, <1>8, <3>1, <3>2 DEF HasPld, Room, SendPldLen, CanOut, Least
  <2> QED BY <2>1, <2>2
<1>10. c.put + c.hout = Room(x)
  BY <1>3, <1>5, <1>8, <1>9 DEF Least
<1>11. e.ixa >= Header /\ ~(c.hin = 0 /\ e.ixc = 0) => Awaited(e, c.at)
  BY <1>1, <1>3, <1>5 DEF InTurn, Coming
<1>12. c.at \notin Writes /\ c.at \notin Farewells
  BY <1>5 DEF Writes, Farewells
<1>13. Lively(x, c)
  BY <1>1, <1>3, <1>4, <1>5, <1>7, <1>9, <1>10, <1>11, <1>12, SteadyIs, AheadLively
<1> QED BY <1>6, <1>13

LEMMA WriteLively == ASSUME Steady, Write PROVE Lively(e, cpu)'
<1>1. cpu.run = "on" /\ cpu.at = "write" /\ cpu.hout > 0
  BY DEF Write, On
<1>2. PICK n \in Pieces(cpu.hout) :
        cpu' = [cpu EXCEPT !.put = @ + n, !.hout = @ - n] /\ e' = e
  BY DEF Write, vars
<1>3. n \in Nat /\ n <= cpu.hout
  BY <1>1, <1>2, SteadyIs, PiecesAre
<1> DEFINE c == [cpu EXCEPT !.put = cpu.put + n, !.hout = cpu.hout - n]
<1>4. /\ c.run = "on" /\ c.at = "write" /\ c.hin = cpu.hin /\ c.hin0 = cpu.hin0 /\ c.cnr = cpu.cnr
      /\ c.put = cpu.put + n /\ c.hout = cpu.hout - n
  BY <1>1, SteadyIs DEF Cpu
<1>5. e' = e /\ cpu' = c
  BY <1>2
<1> HIDE DEF c
<1>6. c.put + c.hout = Room(e)
  BY <1>1, <1>3, <1>4, RunningIs, SteadyIs
<1>7. InTurn(e, cpu) /\ Own(e, cpu.at) /\ Sides(e)
  BY <1>1, RunningIs, SteadyIs
<1>8. e.ixa >= Header /\ ~(c.hin = 0 /\ e.ixc = 0) => Awaited(e, c.at)
  BY <1>1, <1>4, <1>7 DEF InTurn, Coming
<1>9. cpu.at \notin Farewells /\ c.at \notin Farewells
  BY <1>1, <1>4 DEF Farewells
<1>10. c.hin > 0 => c.at \notin Writes
  BY <1>1, <1>4, <1>7 DEF InTurn
<1>11. Lively(e, c)
  BY <1>1, <1>4, <1>6, <1>7, <1>8, <1>9, <1>10, SteadyIs, AheadLively DEF Own
<1> QED BY <1>5, <1>11

LEMMA WaitLively == ASSUME Steady, Wait PROVE Lively(e, cpu)'
<1>1. cpu.run = "on" /\ Yield(e, cpu.at, cpu.hin)
  BY DEF Wait
<1>2. /\ Sound(e) /\ Turn(e) /\ Live(e) /\ Sides(e) /\ Inward(e, e) /\ cpu.hin \in Nat /\ cpu.hin <= cpu.hin
      /\ InTurn(e, cpu) /\ Own(e, cpu.at) /\ AtOnce(e, cpu) /\ Ended(e, cpu)
      /\ cpu.put + cpu.hout = Room(e) /\ cpu.hout \in Nat /\ cpu.put \in Nat
      /\ (cpu.at # "write" => cpu.put = 0) /\ cpu.at \in Places
  BY <1>1, RunningIs, SteadyIs, HandsAre
<1>3. CASE cpu.at \in Farewells
  <2>1. cpu.at # "write" /\ cpu.at \in Bare /\ (e.shut => cpu.hout = 0)
    <3>1. cpu.at # "write" /\ cpu.at \in Bare
      BY <1>3 DEF Farewells, Bare
    <3>2. CASE cpu.at = "close"
      BY <3>1, <3>2 DEF Wait
    <3>3. CASE cpu.at = "bye"
      BY <1>2, <3>1, <3>3 DEF Wait, Ended
    <3> QED BY <1>3, <3>1, <3>2, <3>3 DEF Farewells
  <2>2. e.shut /\ ~Pending(e) => Filled(e)
    <3>1. SUFFICES ASSUME e.shut, ~Pending(e) PROVE Filled(e)
      OBVIOUS
    <3>2. e.io # "in" /\ Room(e) = 0 /\ ~HasPld(e)
      BY <1>2, <2>1, <3>1, SteadyIs DEF Ended
    <3> QED BY <1>2, <3>2, NoRoomFilled
  <2>3. Awaited(e, cpu.at) /\ ~(cpu.put > 0)
    BY <1>2, <1>3, <2>1 DEF Awaited
  <2> QED BY <1>1, <1>2, <1>3, <2>2, <2>3, YieldLively DEF Own, AtOnce, Ended
<1>4. CASE cpu.at \notin Farewells
  <2>1. cpu.hin = 0
    <3>1. CASE cpu.at \in Writes
      BY <1>1, <1>2, <3>1 DEF InTurn
    <3>2. CASE cpu.at \in {"read", "rfin", "hreq", "ccs", "idle"}
      BY <3>2 DEF Wait
    <3> QED BY <1>2, <1>4, <3>1, <3>2 DEF Places, Writes, Farewells
  <2>2. cpu.put > 0 => cpu.hout = 0 /\ cpu.at = "write"
    <3>1. SUFFICES ASSUME cpu.put > 0 PROVE cpu.hout = 0 /\ cpu.at = "write"
      OBVIOUS
    <3>2. cpu.at = "write"
      BY <1>2, <3>1
    <3> QED BY <3>2 DEF Wait
  <2>3. ~e.shut /\ (e.ixa >= Header /\ ~(cpu.hin = 0 /\ e.ixc = 0) => Awaited(e, cpu.at))
    BY <1>1, <1>2, <1>4 DEF Ended, InTurn, Coming
  <2>4. ~(cpu.hin > 0) /\ (HasPld(e) /\ e.app # 1 => cpu.at = "hreq" /\ ~e.shared)
    BY <1>2, <2>1 DEF Own
  <2> QED BY <1>1, <1>2, <2>2, <2>3, <2>4, YieldLively
<1> QED BY <1>3, <1>4

(* A handshake is over. *)
LEMMA DoneLively ==
    ASSUME Steady, cpu.run = "on", cpu.put = 0, cpu.at \notin Farewells, NEW x, Sound(x), Turn(x), Live(x), Sides(x),
           Inward(e, x), NEW h, h = 0,
           e.ixa >= Header /\ e.ixc # 0 => Awaited(e, "idle"), Done(x, h)
    PROVE  Lively(e, cpu)'
<1> DEFINE z == [x EXCEPT !.app = 1, !.typeOut = "app"]
<1>1. Yield(z, "idle", h)
  BY DEF Done
<1>2. "app" \in RecordTypes /\ 1 \in 0..2
  BY DEF RecordTypes
<1>3. Sound(z)
  BY <1>2, TypeSound
<1>4. /\ z.app = 1 /\ z.io = x.io /\ z.oxa = x.oxa /\ z.oxc = x.oxc /\ SameRegs(x, z) /\ Inward(x, z)
      /\ z.shared = x.shared
  BY DEF Sound, Engine, SameRegs, Inward
<1> HIDE DEF z
<1>5. Turn(z) /\ Live(z) /\ Sides(z) /\ Inward(e, z)
  BY <1>4, SideTurn, InwardTwice DEF Live, Sides
<1>6. ~z.shut /\ z.ixa = e.ixa /\ z.ixc = e.ixc
  BY <1>5, NotShut DEF Inward
<1>7. z.ixa >= Header /\ ~(h = 0 /\ z.ixc = 0) => Awaited(z, "idle")
  BY <1>5, <1>6 DEF Awaited, Inward
<1>8. h \in Nat /\ h <= cpu.hin /\ ~(h > 0) /\ ~(cpu.put > 0)
  BY SteadyIs
<1> QED BY <1>1, <1>3, <1>4, <1>5, <1>6, <1>7, <1>8, YieldLively

LEMMA ReadFinishedLively == ASSUME Steady, ReadFinished PROVE Lively(e, cpu)'
<1>1. /\ cpu.run = "on" /\ cpu.at = "rfin" /\ cpu.hin > 0 /\ cpu.put = 0
      /\ cpu.at \notin Farewells
  BY SteadyIs, HandsAre DEF ReadFinished, On, Farewells
<1> DEFINE f == Flushed(e)
<1>2. PICK n \in Pieces(cpu.hin) :
        /\ Ends(n)
        /\ IF cpu.half THEN Done(e, cpu.hin - n)
           ELSE e' = f /\ cpu' = [cpu EXCEPT !.at = "wccs", !.half = TRUE,
                                  !.hin = @ - n, !.hout = SendPldLen(f)]
  BY DEF ReadFinished
<1>3. cpu.hin - n = 0 /\ e.ixc = 0
  BY <1>1, <1>2, EndsIs
<1>4. CASE cpu.half
  <2>1. Done(e, 0)
    BY <1>2, <1>3, <1>4
  <2>2. Sound(e) /\ Turn(e) /\ Live(e) /\ Sides(e) /\ Inward(e, e)
    BY <1>1, RunningIs, SteadyIs
  <2> QED BY <1>1, <1>3, <2>1, <2>2, DoneLively
<1>5. CASE ~cpu.half
  <2> DEFINE c == [cpu EXCEPT !.at = "wccs", !.half = TRUE, !.hin = 0, !.hout = SendPldLen(f)]
  <2>1. e' = f /\ cpu' = c
    BY <1>2, <1>3, <1>5
  <2>2. /\ c.run = "on" /\ c.at = "wccs" /\ c.hin = 0 /\ c.hin0 = cpu.hin0 /\ c.cnr = cpu.cnr
        /\ c.put = 0 /\ c.hout = SendPldLen(f)
    <3> HIDE DEF f
    <3> QED BY <1>1, SteadyIs DEF Cpu
  <2> HIDE DEF c
  <2>3. "wccs" \notin Farewells
    BY DEF Farewells
  <2> QED BY <1>1, <1>3, <2>1, <2>2, <2>3, GoFlushedLively
<1> QED BY <1>4, <1>5

(* Where the processor has something to write no input is left. *)
LEMMA WritingIs ==
    ASSUME Steady, cpu.run = "on", cpu.at \in {"wccs", "wfin", "refuse"}
    PROVE  /\ cpu.hin = 0 /\ cpu.put = 0 /\ cpu.at # "write" /\ cpu.at \notin Farewells
           /\ e.ixa >= Header /\ e.ixc # 0 => \A p : Awaited(e, p)
<1>1. InTurn(e, cpu) /\ cpu.at \in Writes /\ cpu.at # "write" /\ cpu.at \notin Farewells
  BY RunningIs, SteadyIs DEF Writes, Farewells
<1>2. cpu.hin = 0
  BY <1>1, SteadyIs DEF InTurn
<1>3. e.ixa >= Header /\ e.ixc # 0 => Awaited(e, cpu.at)
  BY <1>1 DEF InTurn, Coming
<1>4. e.ixa >= Header /\ e.ixc # 0 => e.typeIn # "hs" /\ e.typeIn # "ccs"
  BY <1>1, <1>3 DEF Awaited, Farewells
<1> QED BY <1>1, <1>2, <1>4, SteadyIs, HandsAre DEF Awaited

(* Messages. *)
LEMMA WriteCCSLively == ASSUME Steady, WriteCCS PROVE Lively(e, cpu)'
<1>1. cpu.run = "on" /\ cpu.at = "wccs" /\ cpu.hout > 0
  BY DEF WriteCCS, On
<1> DEFINE m == Message(e, "ccs", 1)
<1>2. PICK s \in Schemes : GoWith([m EXCEPT !.out = s], "wfin")
  <2>1. e.in \in Schemes
    BY SteadyIs, EngineTypes
  <2> QED BY <2>1, EngineAssumption DEF WriteCCS
<1> DEFINE x == [m EXCEPT !.out = s]
           c == [cpu EXCEPT !.run = "on", !.at = "wfin", !.hout = SendPldLen(x)]
<1>3. e' = x /\ cpu' = c
  BY <1>2 DEF GoWith
<1>4. Inward(e, m) /\ Sides(m) /\ Live(m) /\ Sound(m) /\ Filled(m)
  BY <1>1, SteadyIs, MessageInward, MessageIs
<1> HIDE DEF m
<1>5. Sound(x) /\ Filled(x)
  BY <1>4, EncryptionSound
<1>6. Inward(m, x) /\ x.io = m.io /\ x.oxa = m.oxa /\ x.oxc = m.oxc
  BY <1>4 DEF Sound, Engine, Inward
<1>7. Inward(e, x) /\ Sides(x)
  BY <1>4, <1>6, InwardTwice DEF Sides, Live, Inward
<1>8. ~HasPld(x) /\ Room(x) = 0 /\ SendPldLen(x) = 0
  BY <1>5, FilledRoom DEF Room
<1>9. /\ c.run = "on" /\ c.at = "wfin" /\ c.hin = cpu.hin /\ c.hin0 = cpu.hin0 /\ c.cnr = cpu.cnr
      /\ c.put = cpu.put /\ c.hout = SendPldLen(x)
  <2> HIDE DEF x
  <2> QED BY SteadyIs DEF Cpu
<1> HIDE DEF x, c
<1>10. /\ cpu.hin = 0 /\ cpu.put = 0 /\ cpu.at \notin Farewells
       /\ e.ixa >= Header /\ e.ixc # 0 => \A p : Awaited(e, p)
  BY <1>1, WritingIs
<1>11. c.at \notin Farewells
  BY <1>9 DEF Farewells
<1>12. Lively(x, c)
  BY <1>1, <1>7, <1>8, <1>9, <1>10, <1>11, AheadLively
<1> QED BY <1>3, <1>12

LEMMA WriteFinishedLively == ASSUME Steady, WriteFinished PROVE Lively(e, cpu)'
<1>1. cpu.run = "on" /\ cpu.at = "wfin" /\ cpu.hout > 0
  BY DEF WriteFinished, On
<1> DEFINE x == Message(e, "hs", 16)
           c == [cpu EXCEPT !.at = "ccs", !.half = TRUE, !.hout = 0]
<1>2. IF cpu.half THEN Done(x, cpu.hin) ELSE e' = x /\ cpu' = c
  BY DEF WriteFinished
<1>3. Inward(e, x) /\ Sides(x) /\ Live(x) /\ Sound(x) /\ Filled(x) /\ Turn(x)
  BY <1>1, SteadyIs, MessageInward, MessageIs
<1>4. /\ cpu.hin = 0 /\ cpu.put = 0 /\ cpu.at \notin Farewells
      /\ e.ixa >= Header /\ e.ixc # 0 => \A p : Awaited(e, p)
  BY <1>1, WritingIs
<1>5. c.run = "on" /\ c.at = "ccs" /\ c.hin = cpu.hin /\ c.hin0 = cpu.hin0 /\ c.cnr = cpu.cnr
      /\ c.put = cpu.put /\ c.hout = 0 /\ c.at \notin Farewells
  BY <1>1, SteadyIs DEF Cpu, Farewells
<1> HIDE DEF x, c
<1>6. CASE cpu.half
  BY <1>1, <1>2, <1>3, <1>4, <1>6, DoneLively
<1>7. CASE ~cpu.half
  <2>1. ~HasPld(x) /\ Room(x) = 0
    BY <1>3, FilledRoom
  <2>2. Lively(x, c)
    BY <1>1, <1>3, <1>4, <1>5, <2>1, AheadLively
  <2> QED BY <1>2, <1>7, <2>2
<1> QED BY <1>6, <1>7

LEMMA SendRefusalLively == ASSUME Steady, SendRefusal PROVE Lively(e, cpu)'
<1>1. cpu.run = "on" /\ cpu.at = "refuse" /\ cpu.hout > 0 /\ Done(Message(e, "alert", 2), cpu.hin)
  BY DEF SendRefusal, On
<1> DEFINE x == Message(e, "alert", 2)
<1>2. Inward(e, x) /\ Sides(x) /\ Live(x) /\ Sound(x) /\ Turn(x) /\ Done(x, cpu.hin)
  BY <1>1, WritingIs, SteadyIs, MessageInward, MessageIs
<1> HIDE DEF x
<1> QED BY <1>1, <1>2, WritingIs, DoneLively

(* The closure. *)
LEMMA SendCloseLively == ASSUME Steady, SendClose PROVE Lively(e, cpu)'
<1>1. cpu.run = "on" /\ cpu.at = "close" /\ cpu.hout > 0
  BY DEF SendClose, On
<1> DEFINE x == Message(e, "alert", 2)
           c == [cpu EXCEPT !.at = "bye", !.hout = 0]
<1>2. e' = x /\ cpu' = c
  BY DEF SendClose
<1>3. Inward(e, x) /\ Sides(x) /\ CanOut(x) /\ Filled(x) /\ x.app = e.app /\ Sound(x)
  BY <1>1, SteadyIs, MessageInward, MessageIs
<1>4. c.run = "on" /\ c.at = "bye" /\ c.hin = cpu.hin /\ c.hin0 = cpu.hin0 /\ c.cnr = cpu.cnr
      /\ c.put = cpu.put /\ c.hout = 0
  BY <1>1, SteadyIs DEF Cpu
<1> HIDE DEF x, c
<1>5. cpu.put = 0 /\ Ended(e, cpu) /\ Incoming(e) /\ cpu.at \in Farewells
  BY <1>1, SteadyIs, RunningIs, HandsAre DEF Farewells
<1>6. /\ x.ixa = e.ixa /\ x.ixb = e.ixb /\ x.ixc = e.ixc /\ x.typeIn = e.typeIn /\ x.in = e.in
      /\ x.ilen = e.ilen /\ x.shut = e.shut
  BY <1>3 DEF Inward
<1>7. Incoming(x) /\ ~HasPld(x) /\ Room(x) = 0 /\ x.io # "in"
  BY <1>3, <1>5, <1>6, FilledRoom DEF Incoming, Pending, CanOut
<1>8. c.at \in Farewells /\ c.at \notin Writes
  BY <1>4 DEF Farewells, Writes
<1>9. InTurn(x, c)
  BY <1>8 DEF InTurn, Awaited
<1>10. /\ x.shut = c.cnr
       /\ x.shut => /\ c.at \in Farewells /\ x.app # 1
                    /\ IF Pending(x) THEN x.ixc = 0 /\ c.hin = 0 ELSE x.io # "in"
  BY <1>1, <1>3, <1>4, <1>5, <1>6, <1>7, <1>8 DEF Ended, Pending
<1>11. c.hin = 0
  BY <1>1, <1>4, <1>5, SteadyIs, RunningIs DEF AtOnce
<1>12. Lively(x, c)
  BY <1>1, <1>3, <1>4, <1>5, <1>6, <1>7, <1>9, <1>10, <1>11, OnLively
<1> QED BY <1>2, <1>12

(* The application closes. *)
LEMMA BeginCloseLively == ASSUME Steady, BeginClose PROVE Lively(e, cpu)'
<1> DEFINE a == IF e.app = 1 THEN 2 ELSE 0
           x == [e EXCEPT !.app = a]
           f == Flushed(x)
           c == [cpu EXCEPT !.run = "on", !.at = "close", !.hin = cpu.hin, !.put = 0, !.hout = SendPldLen(f)]
<1>1. /\ cpu.run = "resume" /\ cpu.at \notin Farewells /\ cpu.act = 1 /\ e' = f /\ cpu' = c
  BY DEF BeginClose, Closing, Farewells, GoFlushed
<1>2. /\ Sound(e) /\ Sides(e) /\ Incoming(e) /\ AtOnce(e, cpu) /\ ~e.shut /\ e.shut = cpu.cnr
      /\ cpu.hin = cpu.hin0 /\ Live(e)
  BY <1>1, SteadyIs, RunningIs, NotShut DEF Given
<1>3. a \in 0..2 /\ a # 1
  OBVIOUS
<1> HIDE DEF a
<1>4. Sound(x) /\ SameRegs(e, x) /\ x.app = a
  BY <1>2, <1>3, AppSound
<1>5. Inward(e, x) /\ x.io = e.io /\ x.olen = e.olen
  BY SteadyIs DEF Engine, Inward
<1>6. /\ c.run = "on" /\ c.at = "close" /\ c.hin = cpu.hin /\ c.hin0 = cpu.hin0 /\ c.cnr = cpu.cnr
      /\ c.put = 0 /\ c.hout = SendPldLen(f)
  <2> HIDE DEF f
  <2> QED BY SteadyIs DEF Cpu
<1> HIDE DEF x, c
<1>7. Sides(x) /\ (Filled(e) => Filled(x))
  BY <1>2, <1>4, <1>5 DEF Sides, Live, Inward, SameRegs, Filled
<1>8. Inward(x, f) /\ Sides(f) /\ f.app = x.app /\ Sound(f) /\ ~HasPld(f) /\ (Filled(x) => Filled(f))
  BY <1>1, <1>4, <1>7, FlushedInward
<1>9. SendPldLen(f) \in Nat
  BY <1>8, PldLens
<1> HIDE DEF f
<1>10. /\ f.ixa = e.ixa /\ f.ixb = e.ixb /\ f.ixc = e.ixc /\ f.typeIn = e.typeIn /\ f.in = e.in
       /\ f.ilen = e.ilen /\ f.shut = e.shut
  BY <1>5, <1>8 DEF Inward
<1>11. Incoming(f) /\ c.put + c.hout = Room(f)
  BY <1>2, <1>6, <1>8, <1>9, <1>10 DEF Incoming, Pending, Room
<1>12. InTurn(f, c)
  BY <1>6 DEF InTurn, Awaited, Farewells, Writes
<1>13. c.hin = 0
  BY <1>1, <1>2, <1>6 DEF AtOnce
<1>14. Lively(f, c)
  BY <1>1, <1>2, <1>6, <1>8, <1>10, <1>11, <1>12, <1>13, OnLively
<1> QED BY <1>1, <1>14

(* The peer closes: its close_notify was the last it sent. *)
LEMMA CloseAlertLively == ASSUME Steady, CloseAlert PROVE Lively(e, cpu)'
<1> DEFINE x == [e EXCEPT !.app = 0, !.shut = TRUE]
           f == Flushed(x)
           c == [cpu EXCEPT !.run = "on", !.at = "close", !.hin = 0, !.cnr = TRUE, !.hout = SendPldLen(f)]
<1>1. /\ cpu.run = "resume" /\ cpu.hin > 0 /\ RecFinished(e) /\ e' = f /\ cpu' = c
  BY SteadyIs DEF CloseAlert, Alert, AlertEnds
<1>2. Sound(e) /\ Sides(e) /\ Incoming(e) /\ cpu.put = 0 /\ e.ixc = 0 /\ Pending(e)
  BY <1>1, SteadyIs, RunningIs, HandsAre, WholeIs
<1>3. Sound(x) /\ SameRegs(e, x) /\ x.app = 0
  <2>1. 0 \in 0..2 /\ TRUE \in BOOLEAN
    OBVIOUS
  <2> QED BY <1>2, <2>1, ShutSound
<1>4. /\ x.shut = TRUE /\ x.io = e.io /\ x.shared = e.shared /\ x.ixa = e.ixa /\ x.ixb = e.ixb
      /\ x.ixc = e.ixc /\ x.typeIn = e.typeIn /\ x.in = e.in /\ x.ilen = e.ilen
  BY SteadyIs DEF Engine
<1>5. /\ c.run = "on" /\ c.at = "close" /\ c.hin = 0 /\ c.hin0 = cpu.hin0 /\ c.cnr = TRUE
      /\ c.put = cpu.put /\ c.hout = SendPldLen(f)
  <2> HIDE DEF f
  <2> QED BY SteadyIs DEF Cpu
<1> HIDE DEF x, c
<1>6. Sides(x)
  BY <1>2, <1>3, <1>4 DEF Sides, Live, SameRegs
<1>7. Inward(x, f) /\ Sides(f) /\ f.app = x.app /\ Sound(f) /\ ~HasPld(f)
  BY <1>1, <1>3, <1>6, FlushedInward
<1>8. SendPldLen(f) \in Nat
  BY <1>7, PldLens
<1> HIDE DEF f
<1>9. /\ f.ixa = e.ixa /\ f.ixb = e.ixb /\ f.ixc = e.ixc /\ f.typeIn = e.typeIn /\ f.in = e.in
      /\ f.ilen = e.ilen /\ f.shut = TRUE
  BY <1>4, <1>7 DEF Inward
<1>10. Incoming(f) /\ c.put + c.hout = Room(f) /\ Pending(f)
  BY <1>2, <1>5, <1>7, <1>8, <1>9 DEF Incoming, Pending, Room
<1>11. InTurn(f, c) /\ c.at \in Farewells
  BY <1>5 DEF InTurn, Awaited, Farewells, Writes
<1>12. /\ f.shut = c.cnr /\ ~(c.hin > 0) /\ f.app # 1
       /\ IF Pending(f) THEN f.ixc = 0 /\ c.hin = 0 ELSE f.io # "in"
  <2>1. f.shut = c.cnr
    BY <1>5, <1>9
  <2>2. ~(c.hin > 0) /\ c.hin = 0
    BY <1>5
  <2>3. f.app # 1
    BY <1>3, <1>7
  <2>4. f.ixc = 0
    BY <1>2, <1>9
  <2> QED BY <1>10, <2>1, <2>2, <2>3, <2>4
<1>13. Lively(f, c)
  BY <1>1, <1>5, <1>7, <1>9, <1>10, <1>11, <1>12, OnLively
<1> QED BY <1>1, <1>13

LEMMA WaitForCloseLively == ASSUME Steady, WaitForClose PROVE Lively(e, cpu)'
<1>1. /\ cpu.run = "resume" /\ cpu.at \in Farewells /\ cpu.put = 0 /\ ~HasPld(e) /\ Live(e) /\ cpu.at \notin Writes
      /\ Sides(e) /\ Incoming(e) /\ AtOnce(e, cpu) /\ Ended(e, cpu) /\ cpu.put + cpu.hout = Room(e)
      /\ cpu.hin = cpu.hin0 /\ cpu.hin \in Nat /\ Sound(e) /\ (cpu.hin > 0 => Pending(e))
  <2>1. cpu.run = "resume" /\ cpu.at \in Farewells
    BY DEF WaitForClose, Closing, Farewells
  <2>2. cpu.at \in Bare /\ cpu.at \notin Writes
    BY <2>1 DEF Farewells, Bare, Writes
  <2> QED BY <2>1, <2>2, SteadyIs, RunningIs, HandsAre DEF Given
<1>2. CASE Go(e, cpu.at, cpu.hin) /\ (cpu.cnr \/ cpu.hin = 0)
  <2> DEFINE c == [cpu EXCEPT !.run = "on", !.at = cpu.at, !.hin = cpu.hin]
  <2>1. e' = e /\ cpu' = c
    BY <1>2 DEF Go
  <2>2. /\ c.run = "on" /\ c.at = cpu.at /\ c.hin = cpu.hin /\ c.hin0 = cpu.hin0 /\ c.cnr = cpu.cnr
        /\ c.put = cpu.put /\ c.hout = cpu.hout
    BY SteadyIs DEF Cpu
  <2> HIDE DEF c
  <2>3. e.shut = cpu.cnr /\ (e.shut => ~Pending(e) /\ e.io # "in" /\ e.app # 1)
    BY <1>1 DEF Ended
  <2>4. ~(cpu.hin > 0)
    BY <1>1, <1>2, <2>3
  <2>5. InTurn(e, c)
    BY <1>1, <2>2 DEF InTurn, Awaited
  <2>6. Lively(e, c)
    BY <1>1, <2>2, <2>3, <2>4, <2>5, OnLively
  <2> QED BY <2>1, <2>6
<1>3. CASE Go(e, cpu.at, 0) /\ ~cpu.cnr
  <2> DEFINE c == [cpu EXCEPT !.run = "on", !.at = cpu.at, !.hin = 0]
  <2>1. e' = e /\ cpu' = c
    BY <1>3 DEF Go
  <2>2. /\ c.run = "on" /\ c.at = cpu.at /\ c.hin = 0 /\ c.hin0 = cpu.hin0 /\ c.cnr = cpu.cnr
        /\ c.put = cpu.put /\ c.hout = cpu.hout
    BY SteadyIs DEF Cpu
  <2> HIDE DEF c
  <2>3. e.shut = cpu.cnr /\ ~e.shut /\ ~(c.hin > 0)
    BY <1>1, <1>3, <2>2 DEF Ended
  <2>4. InTurn(e, c)
    BY <1>1, <2>2 DEF InTurn, Awaited
  <2>5. Lively(e, c)
    BY <1>1, <2>2, <2>3, <2>4, OnLively
  <2> QED BY <2>1, <2>5
<1>4. ASSUME NEW closes \in BOOLEAN, closes => RecFinished(e), cpu.hin > 0,
             e' = [e EXCEPT !.app = 0, !.shut = closes],
             cpu' = [cpu EXCEPT !.run = "on", !.hin = 0, !.cnr = closes]
      PROVE  Lively(e, cpu)'
  <2> DEFINE x == [e EXCEPT !.app = 0, !.shut = closes]
             c == [cpu EXCEPT !.run = "on", !.hin = 0, !.cnr = closes]
  <2>1. e' = x /\ cpu' = c
    BY <1>4
  <2>2. /\ x.shut = closes /\ x.app = 0 /\ x.io = e.io /\ x.shared = e.shared /\ x.ixa = e.ixa
        /\ x.ixb = e.ixb /\ x.ixc = e.ixc /\ x.typeIn = e.typeIn /\ x.in = e.in /\ x.ilen = e.ilen
        /\ x.oxa = e.oxa /\ x.oxb = e.oxb /\ x.oxc = e.oxc
    BY SteadyIs DEF Engine
  <2>3. /\ c.run = "on" /\ c.at = cpu.at /\ c.hin = 0 /\ c.hin0 = cpu.hin0 /\ c.cnr = closes
        /\ c.put = cpu.put /\ c.hout = cpu.hout
    BY <1>1, SteadyIs DEF Cpu
  <2> HIDE DEF x, c
  <2>4. closes => e.ixc = 0
    BY <1>1, <1>4, WholeIs
  <2>5. Sides(x) /\ Incoming(x) /\ ~HasPld(x) /\ Room(x) = Room(e) /\ Pending(x)
    BY <1>1, <1>4, <2>2 DEF Sides, Live, Incoming, HasPld, Room, SendPldLen, CanOut, Pending
  <2>6. InTurn(x, c)
    BY <1>1, <2>3 DEF InTurn, Awaited
  <2>7. /\ x.shut = c.cnr /\ ~(c.hin > 0) /\ x.app # 1
        /\ x.shut => IF Pending(x) THEN x.ixc = 0 /\ c.hin = 0 ELSE x.io # "in"
    BY <2>2, <2>3, <2>4, <2>5
  <2>8. Lively(x, c)
    BY <1>1, <2>2, <2>3, <2>5, <2>6, <2>7, OnLively
  <2> QED BY <2>1, <2>8
<1>5. CASE cpu.cnr \/ cpu.hin = 0
  <2>1. Go(e, cpu.at, cpu.hin)
    BY <1>5 DEF WaitForClose
  <2> QED BY <1>2, <1>5, <2>1
<1>6. CASE ~(cpu.cnr \/ cpu.hin = 0) /\ ~Alert
  <2>1. Go(e, cpu.at, 0)
    BY <1>6 DEF WaitForClose
  <2> QED BY <1>3, <1>6, <2>1
<1>7. CASE ~(cpu.cnr \/ cpu.hin = 0) /\ Alert
  <2>1. PICK closes \in BOOLEAN : /\ closes => AlertEnds
                                  /\ e' = [e EXCEPT !.app = 0, !.shut = closes]
                                  /\ cpu' = [cpu EXCEPT !.run = "on", !.hin = 0, !.cnr = closes]
    BY <1>7 DEF WaitForClose
  <2>2. closes => RecFinished(e)
    BY <2>1, SteadyIs DEF AlertEnds
  <2>3. cpu.hin > 0
    BY <1>7 DEF Alert
  <2> QED BY <1>4, <2>1, <2>2, <2>3
<1> QED BY <1>5, <1>6, <1>7

LEMMA ProcessorLively == ASSUME Steady, Processor PROVE Lively(e, cpu)'
<1>1. ~Again
  BY SteadyIs DEF Again
<1>2. (FatalAlert => Stop) /\ (Unexpected => Stop) /\ (CloseEnds => Stop)
  BY DEF FatalAlert, Unexpected, CloseEnds
<1> QED BY <1>1, <1>2, StopLively, ResumeLively, BeginCloseLively, WarningAlertLively, CloseAlertLively,
           WaitForCloseLively, WaitLively, ReadOnLively, ReadFlightLively, ReadFragLengthLively,
           WriteLively, WriteFlightLively, ReadCCSLively, ReadFinishedLively, WriteCCSLively,
           WriteFinishedLively, ReadRequestLively, RefuseLively, SendRefusalLively, SendCloseLively
        DEF Processor

LEMMA StepLively == ASSUME Steady, [Next]_vars PROVE Lively(e, cpu)'
<1>1. CASE UNCHANGED vars
  <2>1. e' = e /\ cpu' = cpu
    BY <1>1 DEF vars
  <2>2. Lively(e, cpu)
    BY DEF Steady
  <2> QED BY <2>1, <2>2
<1> QED BY <1>1, CallLively, ProcessorLively DEF Next

LEMMA InitLively == Init => Lively(e, cpu)
<1> SUFFICES ASSUME Init PROVE Lively(e, cpu)
  OBVIOUS
<1>1. PICK b \in Buffers : e = New(b)
  BY DEF Init
<1>2. /\ cpu.run = "on" /\ cpu.hin = 0 /\ cpu.hin0 = 0 /\ cpu.put = 0 /\ cpu.hout = SendPldLen(e)
      /\ cpu.cnr = FALSE
  BY DEF Init
<1>3. Sound(e) /\ e.oxa = e.oxc /\ e.app = 0
  BY <1>1, NewSound
<1>4. e.ixa = 0 /\ e.ixb = 0 /\ e.ixc = 5 /\ e.io = "inout" /\ e.shut = FALSE
  BY <1>1 DEF New, ReadyOut, Header
<1>5. ~Pending(e) /\ ~HasPld(e) /\ SendPldLen(e) \in Nat
  BY <1>3, <1>4, PldLens DEF Pending, HasPld
<1>6. Sides(e) /\ Incoming(e)
  BY <1>4, <1>5 DEF Sides, Incoming, Header
<1>7. Given(e, cpu)
  BY <1>2, <1>4, <1>5 DEF Given, Room
<1>8. InTurn(e, cpu) /\ Own(e, cpu.at) /\ AtOnce(e, cpu)
  BY <1>2, <1>4, <1>5 DEF InTurn, Coming, Header, Own, AtOnce
<1>9. Ended(e, cpu)
  BY <1>2, <1>4 DEF Ended
<1> QED BY <1>6, <1>7, <1>8, <1>9 DEF Lively

---------------------------------------------------------------------------
(* What the invariant says. *)

LEMMA SteadyMoves == ASSUME Steady PROVE NeverStuck
<1> SUFFICES ASSUME Ready
             PROVE  RecvRecLen(e) + SendRecLen(e) + SendAppLen(e) + RecvAppLen(e) > 0
  BY DEF NeverStuck
<1>1. /\ Live(e) /\ Sides(e) /\ Incoming(e) /\ Own(e, cpu.at) /\ Sound(e) /\ Turn(e)
      /\ e.io \in {"failed", "in", "out", "inout"}
  BY ReadyIs, SteadyIs DEF Engine
<1>2. /\ RecvRecLen(e) \in Nat /\ SendRecLen(e) \in Nat /\ SendAppLen(e) \in Nat /\ RecvAppLen(e) \in Nat
  <2>1. SendPldLen(e) \in Nat /\ RecvPldLen(e) \in Nat
    BY <1>1, PldLens
  <2>2. RecvRecLen(e) \in Nat
    BY SteadyIs DEF RecvRecLen, Least
  <2>3. SendRecLen(e) \in Nat
    BY SteadyIs DEF SendRecLen
  <2> QED BY <2>1, <2>2, <2>3 DEF SendAppLen, RecvAppLen
<1>3. CASE Filled(e)
  <2>1. SendRecLen(e) > 0
    BY <1>1, <1>3, SteadyIs, FilledOut
  <2> QED BY <1>2, <2>1
<1>4. CASE ~Filled(e) /\ Pending(e)
  <2>1. e.typeIn = "app" /\ e.app = 1
    BY <1>4, ReadyIs
  <2>2. RecvPldLen(e) > 0
    BY <1>1, <1>4, SteadyIs
  <2>3. RecvAppLen(e) > 0
    BY <2>1, <2>2 DEF RecvAppLen
  <2> QED BY <1>2, <2>3
<1>5. CASE ~Filled(e) /\ ~Pending(e) /\ CanIn(e)
  <2>1. ~e.shut /\ e.ixa = e.ixb /\ e.ixc > 0
    BY <1>1, <1>5, ReadyIs DEF Pending, Incoming
  <2>2. e.ilen - e.ixa > 0
    BY <1>1, <1>5, <2>1, SteadyIs DEF Incoming, Header
  <2>3. RecvRecLen(e) > 0
    BY <1>5, <2>1, <2>2, SteadyIs DEF RecvRecLen, Least
  <2> QED BY <1>2, <2>3
<1>6. CASE ~Filled(e) /\ ~CanIn(e)
  <2>1. e.io = "out" /\ e.shared /\ e.oxa # e.oxc
    BY <1>1, <1>6 DEF Live, CanIn, Sides
  <2>2. Gath(e) /\ e.oxb - e.oxa > 0
    BY <1>1, <1>6, SteadyIs DEF Sound, OutOK, Gath
  <2>3. HasPld(e)
    BY <2>1, <2>2, SteadyIs DEF HasPld
  <2>4. e.app = 1
    BY <1>1, <2>1, <2>3 DEF Own
  <2>5. SendAppLen(e) > 0
    BY <2>1, <2>2, <2>4 DEF SendAppLen, SendPldLen, CanOut
  <2> QED BY <1>2, <2>5
<1> QED BY <1>3, <1>4, <1>5, <1>6

LEMMA SteadyReads == ASSUME Steady PROVE InputIsRead
<1> SUFFICES ASSUME Ready, e.typeIn # "app"
             PROVE  RecvPldLen(e) = 0
  BY DEF InputIsRead
<1>1. ~Pending(e)
  BY ReadyIs
<1> QED BY <1>1, SteadyIs DEF RecvPldLen, Pending

(* The invariant holds: with a peer that answers in turn, without          *)
(* renegotiation and forced records, some of the record that comes in is   *)
(* still to come and has room, and the processor leaves no input unread.   *)
THEOREM EngineLively == ASSUME Calm PROVE Spec => [](Inv /\ More /\ Lively(e, cpu))
<1>1. Inv /\ More /\ Lively(e, cpu) /\ [Next]_vars => (Inv /\ More /\ Lively(e, cpu))'
  BY StepKeeps, StepMore, StepLively DEF Steady
<1>2. Init => Inv /\ More /\ Lively(e, cpu)
  BY InitInv, InitMore, InitLively
<1> QED BY <1>1, <1>2, PTL DEF Spec

(* Between two calls the engine offers something to do: it never waits for *)
(* a thing that nobody can give it.                                        *)
THEOREM EngineNeverStuck ==
    ASSUME Patient, ~Renegotiates, ~Forces
    PROVE  Spec => []NeverStuck
<1>1. Calm
  BY DEF Calm
<1>2. Inv /\ More /\ Lively(e, cpu) => NeverStuck
  BY <1>1, SteadyMoves DEF Steady
<1> QED BY <1>1, <1>2, EngineLively, PTL

(* Handshake data and alerts that came in are read at once: what is left   *)
(* between two calls is the application's.                                 *)
THEOREM EngineInputIsRead ==
    ASSUME Patient, ~Renegotiates, ~Forces
    PROVE  Spec => []InputIsRead
<1>1. Calm
  BY DEF Calm
<1>2. Inv /\ More /\ Lively(e, cpu) => InputIsRead
  BY <1>1, SteadyReads DEF Steady
<1> QED BY <1>1, <1>2, EngineLively, PTL

---------------------------------------------------------------------------
(* What the engine of the client is told apart by: the constants of        *)
(* AbstractEngine are large enough for the buffers and records there are.  *)
Fits ==
  /\ Cap \in Nat /\ Parts \in 1..Header /\ InLens \subseteq 0..Cap
  /\ \A b \in Buffers : b.frag <= Cap

(* The room for a record is that of the scheme and fragment length of now. *)
Fresh(x) ==
  /\ x.frag <= Cap
  /\ Gath(x) => x.oxb - x.oxc = Span(x.out, x.frag, x.olen)

(* Where the processor is, encryption is on; application data flows where  *)
(* it is idle and nowhere else.                                            *)
Keyed(x, p, half) ==
  /\ p \in {"rfin", "idle", "hreq", "refuse"} => x.in # Clear
  /\ half /\ p \in {"wccs", "wfin"} => x.in # Clear
  /\ p = "wfin" \/ (half /\ p = "ccs") => x.out # Clear
  /\ half => p \notin {"read", "write"}
  /\ p \in {"idle", "hreq"} => x.typeOut = "app"
  /\ (p = "idle") <=> (x.app = 1)
  /\ x.in # Clear /\ Pending(x) => x.ixc = 0

Tuned(x, c) == Live(x) => Fresh(x) /\ Keyed(x, c.at, c.half)

---------------------------------------------------------------------------
(* What the operators do to the output, as the abstract engine counts it.  *)

Acc(x)  == IF Sending(x) THEN 0 ELSE x.oxa - x.oxc
Rec(x)  == IF Sending(x) THEN x.load ELSE 0
Left(x) == IF Sending(x) THEN Least(Parts, x.oxc - x.oxa) ELSE 0

Shows(x, acc, rec, left) == Acc(x) = acc /\ Rec(x) = rec /\ Left(x) = left

Rated(x, z) == z.frag = x.frag /\ z.out = x.out /\ z.olen = x.olen

Kept(x, z) ==
  Rated(x, z) /\ (Gath(z) => Gath(x) /\ z.oxb = x.oxb /\ z.oxc = x.oxc)

LEMMA KeptTwice ==
    ASSUME NEW x, NEW y, NEW z, Kept(x, y), Kept(y, z)
    PROVE  Kept(x, z)
  BY DEF Kept, Rated

LEMMA KeptFresh ==
    ASSUME NEW x, NEW z, Kept(x, z), Fresh(x)
    PROVE  Fresh(z)
  BY DEF Kept, Rated, Fresh

(* Registers of output that stay. *)
LEMMA SameKept ==
    ASSUME NEW x, NEW z, Rated(x, z), z.oxa = x.oxa, z.oxb = x.oxb, z.oxc = x.oxc
    PROVE  Kept(x, z)
  BY DEF Kept, Gath

LEMMA SameShows ==
    ASSUME NEW x, NEW z, z.oxa = x.oxa, z.oxb = x.oxb, z.oxc = x.oxc, z.load = x.load
    PROVE  Shows(z, Acc(x), Rec(x), Left(x))
  BY DEF Shows, Acc, Rec, Left, Sending

(* A record that lies ready: all of it is to be sent. *)
LEMMA WholeShows ==
    ASSUME Fits, NEW z, z \in Engine, Filled(z), z.oxc - z.oxa >= Header
    PROVE  Shows(z, 0, z.load, Parts)
<1>1. z.oxa \in Nat /\ z.oxc \in Nat /\ z.oxc - z.oxa >= 5 /\ Parts \in 1..5
  BY EngineTypes DEF Fits, Header
<1>2. Least(Parts, z.oxc - z.oxa) = Parts
  BY <1>1 DEF Least
<1> QED BY <1>2 DEF Shows, Acc, Rec, Left, Sending, Filled

LEMMA SealRated ==
    ASSUME NEW x \in Engine, NEW force
    PROVE  LET z == Seal(x, force)
           IN  Rated(x, z) /\ z.shared = x.shared /\ z.typeOut = x.typeOut
<1> DEFINE recs == Encrypt(x.out, x.typeOut, x.oxc, x.oxa - x.oxc)
           from == recs[1].from
           to == recs[Len(recs)].to
           by == IF x.oxa # x.oxc /\ (x.by = "app") # (x.typeOut = "app") THEN "mixed" ELSE x.by
           load == IF x.by = "app" THEN x.oxa - x.oxc ELSE 0
           z == [x EXCEPT !.oxa = from, !.oxb = from, !.oxc = to, !.by = by, !.load = load]
<1>1. Seal(x, force) \in {x, z}
  <2> HIDE DEF recs, from, to, load, by
  <2> QED BY DEF Seal, recs, from, to, load, by
<1> HIDE DEF recs, from, to, load, by
<1>2. Rated(x, z) /\ z.shared = x.shared /\ z.typeOut = x.typeOut
  BY DEF Engine, Rated
<1>3. Rated(x, x)
  BY DEF Rated
<1> HIDE DEF z
<1> QED BY <1>1, <1>2, <1>3

(* What was gathered becomes a record. *)
LEMMA SealShows ==
    ASSUME Fits, NEW x, Sound(x), HasPld(x)
    PROVE  LET z == Seal(x, FALSE)
           IN  /\ Kept(x, z) /\ Shows(z, 0, IF x.by = "app" THEN x.oxa - x.oxc ELSE 0, Parts)
               /\ Shows(x, x.oxa - x.oxc, 0, 0) /\ Gath(x) /\ Filled(z)
<1> DEFINE z == Seal(x, FALSE)
<1>1. x \in Engine /\ x.oxa # x.oxb /\ x.oxa # x.oxc /\ Gath(x) /\ FALSE \in BOOLEAN
  <2>1. x.oxa \in Nat /\ x.oxb \in Nat /\ x.oxc \in Nat
    BY EngineTypes DEF Sound
  <2> QED BY <2>1 DEF HasPld, Sound, OutOK, Filled
<1>2. /\ Sound(z) /\ Filled(z) /\ ~Gath(z) /\ z.oxc - z.oxa >= Header
      /\ z.load = (IF x.by = "app" THEN x.oxa - x.oxc ELSE 0)
  BY <1>1, SealKeeps
<1>3. Kept(x, z)
  BY <1>1, <1>2, SealRated DEF Kept
<1> HIDE DEF z
<1>4. Shows(z, 0, z.load, Parts)
  BY <1>2, WholeShows DEF Sound
<1>5. Shows(x, x.oxa - x.oxc, 0, 0)
  BY <1>1 DEF Shows, Acc, Rec, Left, Sending
<1> QED BY <1>1, <1>2, <1>3, <1>4, <1>5 DEF z

LEMMA PldWrittenRated ==
    ASSUME NEW x \in Engine, NEW n \in Nat, NEW who \in {"app", "hs"}, HasPld(x) => x.by = who
    PROVE  LET z == PldWritten(x, n, who)
           IN  /\ Rated(x, z) /\ z.shared = x.shared /\ z.typeOut = x.typeOut
               /\ x.oxa + n < x.oxb => z.by = who
<1> DEFINE io == IF x.io = "inout" /\ x.shared THEN "out" ELSE x.io
           by == IF HasPld(x) /\ x.by # who THEN "mixed" ELSE who
           y == [x EXCEPT !.io = io, !.oxa = x.oxa + n, !.by = by]
           y1 == [y EXCEPT !.oxb = y.oxa + 1]
<1>1. PldWritten(x, n, who) = IF y.oxa >= y.oxb THEN Seal(y1, FALSE) ELSE y
  BY DEF PldWritten
<1>2. /\ x.oxa \in Nat /\ x.oxb \in Nat /\ x.oxa + n \in Nat
      /\ io \in {"failed", "in", "out", "inout"} /\ by \in {"app", "hs", "mixed"}
  BY EngineTypes DEF Engine
<1>9. by = who
  OBVIOUS
<1> HIDE DEF io, by
<1>3. y \in Engine
  BY <1>2 DEF Engine
<1>4. Rated(x, y) /\ y.shared = x.shared /\ y.typeOut = x.typeOut /\ y.by = who /\ y.oxa = x.oxa + n /\ y.oxb = x.oxb
  BY <1>2, <1>9 DEF Engine, Rated
<1> HIDE DEF y
<1>5. y1 \in Engine
  <2>1. y.oxa + 1 \in Nat
    BY <1>2, <1>4
  <2> QED BY <1>3, <2>1 DEF Engine
<1>6. Rated(y, y1) /\ y1.shared = y.shared /\ y1.typeOut = y.typeOut
  BY <1>3 DEF Engine, Rated
<1> HIDE DEF y1
<1>7. LET z == Seal(y1, FALSE) IN Rated(y1, z) /\ z.shared = y1.shared /\ z.typeOut = y1.typeOut
  BY <1>5, SealRated
<1>8. x.oxa + n < x.oxb => ~(y.oxa >= y.oxb)
  BY <1>2, <1>4
<1> QED BY <1>1, <1>4, <1>6, <1>7, <1>8 DEF Rated

(* Payload is written: the record it fills lies ready. *)
LEMMA PldWrittenShows ==
    ASSUME Fits, NEW x, Sound(x), Gath(x), NEW n \in Nat, n > 0, n <= x.oxb - x.oxa,
           NEW who \in {"app", "hs"}, HasPld(x) => x.by = who
    PROVE  LET z == PldWritten(x, n, who)
           IN  /\ Kept(x, z) /\ Shows(x, x.oxa - x.oxc, 0, 0) /\ z.shared = x.shared
               /\ IF n = x.oxb - x.oxa
                    THEN Filled(z) /\ Shows(z, 0, IF who = "app" THEN x.oxb - x.oxc ELSE 0, Parts)
                    ELSE /\ Gath(z) /\ z.oxa = x.oxa + n /\ z.oxb = x.oxb /\ z.oxc = x.oxc
                         /\ Shows(z, z.oxa - x.oxc, 0, 0) /\ z.by = who
<1> DEFINE z == PldWritten(x, n, who)
<1>1. x \in Engine /\ x.oxa \in Nat /\ x.oxb \in Nat /\ x.oxc \in Nat /\ x.oxa < x.oxb
  BY EngineTypes DEF Sound, Gath
<1>2. /\ Sound(z)
      /\ \/ /\ Filled(z) /\ ~Gath(z) /\ n = x.oxb - x.oxa /\ z.oxc - z.oxa >= Header
            /\ z.load = (IF who = "app" THEN x.oxb - x.oxc ELSE 0)
         \/ Gath(z) /\ z.oxa = x.oxa + n /\ z.oxb = x.oxb /\ z.oxc = x.oxc
  BY PldWrittenSound
<1>3. Rated(x, z) /\ z.shared = x.shared /\ (x.oxa + n < x.oxb => z.by = who)
  BY <1>1, PldWrittenRated
<1> HIDE DEF z
<1>4. z.oxa \in Nat /\ z.oxb \in Nat /\ z \in Engine
  BY <1>2, EngineTypes DEF Sound
<1>5. Kept(x, z)
  BY <1>2, <1>3 DEF Kept
<1>6. Shows(x, x.oxa - x.oxc, 0, 0)
  BY <1>1 DEF Shows, Acc, Rec, Left, Sending
<1>7. CASE n = x.oxb - x.oxa
  <2>1. ~Gath(z) \/ z.oxa = z.oxb
    BY <1>1, <1>2, <1>7
  <2>2. Filled(z) /\ z.oxc - z.oxa >= Header /\ z.load = (IF who = "app" THEN x.oxb - x.oxc ELSE 0)
    BY <1>2, <1>4, <2>1 DEF Gath
  <2>3. Shows(z, 0, z.load, Parts)
    BY <1>4, <2>2, WholeShows
  <2> QED BY <1>3, <1>5, <1>6, <1>7, <2>2, <2>3 DEF z
<1>8. CASE n # x.oxb - x.oxa
  <2>1. Gath(z) /\ z.oxa = x.oxa + n /\ z.oxb = x.oxb /\ z.oxc = x.oxc /\ z.by = who
    BY <1>1, <1>2, <1>3, <1>8
  <2>2. Shows(z, z.oxa - x.oxc, 0, 0)
    BY <1>1, <1>8, <2>1 DEF Shows, Acc, Rec, Left, Sending
  <2> QED BY <1>3, <1>5, <1>6, <1>8, <2>1, <2>2 DEF z
<1> QED BY <1>7, <1>8

(* What the processor wrote becomes a record of its own. *)
LEMMA OwnShows ==
    ASSUME Fits, NEW x, Sound(x), Gath(x), x.oxa = x.oxc, NEW n \in Nat, n > 0, n <= x.oxb - x.oxa
    PROVE  LET y == PldWritten(x, n, "hs")
               z == IF HasPld(y) THEN Seal(y, FALSE) ELSE y
           IN  /\ Kept(x, z) /\ Shows(x, 0, 0, 0) /\ Shows(z, 0, 0, Parts) /\ z.shared = x.shared
               /\ n = x.oxb - x.oxa => Shows(y, 0, 0, Parts) /\ Kept(x, y) /\ ~HasPld(y)
<1> DEFINE y == PldWritten(x, n, "hs")
           s == Seal(y, FALSE)
           z == IF HasPld(y) THEN s ELSE y
<1>1. x \in Engine /\ x.oxa \in Nat /\ x.oxb \in Nat /\ x.oxc \in Nat /\ "hs" \in {"app", "hs"}
  BY EngineTypes DEF Sound
<1>2. ~HasPld(x) /\ x.oxa - x.oxc = 0
  BY <1>1 DEF HasPld
<1>3. /\ Kept(x, y) /\ Shows(x, 0, 0, 0) /\ y.shared = x.shared
      /\ IF n = x.oxb - x.oxa
           THEN Filled(y) /\ Shows(y, 0, 0, Parts)
           ELSE Gath(y) /\ y.oxa = x.oxa + n /\ y.oxc = x.oxc /\ y.by = "hs"
  BY <1>1, <1>2, PldWrittenShows
<1>4. Sound(y)
  BY <1>1, PldWrittenSound
<1>5. Filled(y) => ~HasPld(y)
  BY <1>4, FilledRoom
<1> HIDE DEF y
<1>6. CASE HasPld(y)
  <2>1. y.by = "hs"
    BY <1>3, <1>5, <1>6
  <2>2. Kept(y, s) /\ Shows(s, 0, 0, Parts)
    BY <1>4, <1>6, <2>1, SealShows
  <2>3. s.shared = y.shared
    BY <1>4, SealRated DEF Sound
  <2> HIDE DEF s
  <2>4. Kept(x, s)
    BY <1>3, <2>2, KeptTwice
  <2> QED BY <1>3, <1>5, <1>6, <2>2, <2>3, <2>4 DEF s, y
<1>7. CASE ~HasPld(y)
  <2>1. Shows(y, 0, 0, Parts)
    <3>1. y.oxa \in Nat /\ y.oxb \in Nat
      BY <1>4, EngineTypes DEF Sound
    <3>2. Gath(y) /\ y.oxa = x.oxa + n /\ y.oxc = x.oxc => HasPld(y)
      BY <1>1, <3>1 DEF Gath, HasPld
    <3> QED BY <1>3, <1>7, <3>2
  <2> QED BY <1>3, <1>7, <2>1 DEF y
<1> QED BY <1>6, <1>7

(* A message, in a record of its own. *)
LEMMA MessageShows ==
    ASSUME Fits, NEW x, Sound(x), Gath(x), x.oxa = x.oxc,
           NEW type \in RecordTypes, NEW n \in Nat, n > 0, n <= 16
    PROVE  LET z == Message(x, type, n)
           IN  /\ Kept(x, z) /\ Shows(x, 0, 0, 0) /\ Shows(z, 0, 0, Parts) /\ z.shared = x.shared
<1> DEFINE t == [x EXCEPT !.typeOut = type]
           y == PldWritten(t, n, "hs")
           z == Message(x, type, n)
<1>1. x \in Engine /\ x.oxa \in Nat /\ x.oxb \in Nat /\ x.oxc \in Nat
  BY EngineTypes DEF Sound
<1>2. t \in Engine
  BY <1>1 DEF Engine
<1>3. /\ SameRegs(x, t) /\ t.ixc = x.ixc /\ t.ilen = x.ilen /\ t.olen = x.olen /\ t.frag = x.frag
      /\ t.out = x.out /\ t.shared = x.shared /\ t.load = x.load
  BY <1>1 DEF Engine, SameRegs
<1>4. z = IF HasPld(y) THEN Seal(y, FALSE) ELSE y
  BY DEF Message
<1> HIDE DEF t
<1>5. Sound(t) /\ Gath(t) /\ t.oxa = t.oxc
  BY <1>2, <1>3, SideSound DEF SameRegs, Gath
<1>6. n <= t.oxb - t.oxa
  BY <1>1, <1>3, <1>5 DEF Sound, OutOK, Filled, Gath, SameRegs
<1>7. Kept(t, z) /\ Shows(t, 0, 0, 0) /\ Shows(z, 0, 0, Parts) /\ z.shared = t.shared
  BY <1>4, <1>5, <1>6, OwnShows
<1> HIDE DEF y, z
<1>8. Kept(x, t) /\ Shows(x, 0, 0, 0)
  <2>1. Kept(x, t)
    BY <1>3, SameKept DEF Rated, SameRegs
  <2>2. x.oxa - x.oxc = 0
    BY <1>1
  <2> QED BY <1>1, <2>1, <2>2 DEF Shows, Acc, Rec, Left, Sending, Gath
<1> QED BY <1>3, <1>7, <1>8, KeptTwice DEF z

(* The next record, when one was sent whole, has all the room there is. *)
LEMMA RecWrittenShows ==
    ASSUME Fits, NEW x, Sound(x), Filled(x), NEW n \in Nat, n > 0, n <= x.oxc - x.oxa
    PROVE  LET z == RecWritten(x, n)
           IN  /\ Rated(x, z) /\ z.shared = x.shared /\ Rec(x) = x.load
               /\ x.frag <= Cap => Fresh(z)
               /\ IF x.oxa + n = x.oxc
                    THEN Shows(z, 0, 0, 0) /\ ~HasRec(z)
                    ELSE /\ Shows(z, 0, x.load, Least(Parts, x.oxc - (x.oxa + n)))
                         /\ HasRec(z)
<1> DEFINE z == RecWritten(x, n)
<1>1. /\ x \in Engine /\ Wide(x) /\ InOK(x) /\ x.oxa \in Nat /\ x.oxc \in Nat /\ x.olen \in Nat
      /\ x.oxa + n \in Nat /\ x.oxa = x.oxb
  BY EngineTypes DEF Sound, Filled
<1>2. Rec(x) = x.load
  BY <1>1 DEF Rec, Sending
<1>3. CASE x.oxa + n = x.oxc
  <2> DEFINE span == PayloadSpan(x.out, x.olen, x.frag)
             a == span.a
             b == span.b
             io == IF x.io = "out" THEN "inout" ELSE x.io
             r == [x EXCEPT !.oxa = a, !.oxb = b, !.oxc = a, !.load = 0, !.io = io]
  <2>1. z = r
    BY <1>3 DEF RecWritten, ReadyOut
  <2>2. Span(x.out, x.frag, x.olen) = b - a
    BY DEF Span
  <2>3. Sound(z) /\ Gath(z) /\ z.oxa = z.oxc
    BY <1>1, <1>3, ReadyOutSound DEF RecWritten
  <2> HIDE DEF a, b, io
  <2>4. /\ r.oxa = a /\ r.oxb = b /\ r.oxc = a /\ Rated(x, r) /\ r.shared = x.shared
    BY <1>1 DEF Engine, Rated
  <2> HIDE DEF z, r
  <2>5. z.oxa \in Nat /\ z.oxb \in Nat /\ z.oxc \in Nat
    BY <2>3, EngineTypes DEF Sound
  <2>6. Shows(z, 0, 0, 0) /\ ~HasRec(z)
    BY <2>3, <2>5 DEF Shows, Acc, Rec, Left, Sending, Gath, HasRec
  <2>7. x.frag <= Cap => Fresh(z)
    BY <2>1, <2>2, <2>4 DEF Fresh, Rated
  <2> QED BY <1>2, <1>3, <2>1, <2>4, <2>6, <2>7 DEF z
<1>4. CASE x.oxa + n # x.oxc
  <2> DEFINE r == [x EXCEPT !.oxa = x.oxa + n, !.oxb = x.oxa + n]
  <2>1. z = r
    BY <1>4 DEF RecWritten
  <2>2. /\ r.oxa = x.oxa + n /\ r.oxb = x.oxa + n /\ r.oxc = x.oxc /\ r.load = x.load
        /\ Rated(x, r) /\ r.shared = x.shared
    BY <1>1 DEF Engine, Rated
  <2> HIDE DEF z, r
  <2>3. ~Gath(z) /\ HasRec(z)
    BY <1>1, <1>4, <2>1, <2>2 DEF Gath, HasRec
  <2>4. Shows(z, 0, x.load, Least(Parts, x.oxc - (x.oxa + n)))
    BY <2>1, <2>2 DEF Shows, Acc, Rec, Left, Sending
  <2>5. x.frag <= Cap => Fresh(z)
    BY <2>1, <2>2, <2>3 DEF Fresh, Rated
  <2> QED BY <1>2, <1>4, <2>1, <2>2, <2>3, <2>4, <2>5 DEF z
<1> QED BY <1>3, <1>4

---------------------------------------------------------------------------
(* What they do to the input. *)

(* Nothing but the input changes. *)
Stays(x, z) ==
  /\ Rated(x, z) /\ z.oxa = x.oxa /\ z.oxb = x.oxb /\ z.oxc = x.oxc /\ z.load = x.load
  /\ z.shared = x.shared /\ z.shut = x.shut /\ z.in = x.in /\ z.app = x.app
  /\ z.typeOut = x.typeOut

(* A record that comes in is not complete, apart from payload that waits.  *)
Parting(x) == IF Pending(x) THEN x.ixc > 0 ELSE x.ixa > 0

LEMMA StaysIs ==
    ASSUME NEW x, NEW z, Stays(x, z)
    PROVE  Kept(x, z) /\ Shows(z, Acc(x), Rec(x), Left(x)) /\ Rated(x, z)
           /\ (Fresh(x) => Fresh(z))
<1>1. Kept(x, z) /\ Shows(z, Acc(x), Rec(x), Left(x))
  BY SameKept, SameShows DEF Stays
<1> QED BY <1>1, KeptFresh DEF Stays

LEMMA ReadyInStays ==
    ASSUME NEW x \in Engine
    PROVE  LET z == ReadyIn(x)
           IN  Stays(x, z) /\ z.ixa = 0 /\ z.ixb = 0 /\ ~Pending(z) /\ ~Parting(z)
                 /\ z.typeIn = x.typeIn /\ (Live(z) <=> Live(x))
<1> DEFINE io == IF x.io = "in" THEN "inout" ELSE x.io
           z == [x EXCEPT !.ixa = 0, !.ixb = 0, !.ixc = 5, !.io = io]
<1>1. ReadyIn(x) = z
  BY DEF ReadyIn, Header
<1>2. io = "failed" <=> x.io = "failed"
  OBVIOUS
<1> HIDE DEF io
<1>3. Stays(x, z) /\ z.ixa = 0 /\ z.ixb = 0 /\ z.typeIn = x.typeIn /\ z.io = io
  BY DEF Engine, Stays, Rated
<1> HIDE DEF z
<1> QED BY <1>1, <1>2, <1>3 DEF Pending, Parting, Live

LEMMA PldReadStays ==
    ASSUME NEW x \in Engine, NEW n \in Nat
    PROVE  LET z == PldRead(x, n)
           IN  /\ Stays(x, z) /\ z.typeIn = x.typeIn /\ (Live(z) <=> Live(x))
               /\ IF x.ixa + n # x.ixb
                    THEN z.ixa = x.ixa + n /\ z.ixb = x.ixb /\ z.ixc = x.ixc
                    ELSE ~Pending(z) /\ (Parting(z) <=> x.ixc > 0)
<1> DEFINE z == PldRead(x, n)
<1>1. x.ixa \in Nat /\ x.ixb \in Nat /\ x.ixc \in Nat /\ x.ixa + n \in Nat
  BY EngineTypes
<1>2. CASE x.ixa + n # x.ixb
  <2> DEFINE r == [x EXCEPT !.ixa = x.ixa + n]
  <2>1. z = r
    BY <1>2 DEF PldRead
  <2>2. Stays(x, r) /\ r.typeIn = x.typeIn /\ r.io = x.io /\ r.ixa = x.ixa + n /\ r.ixb = x.ixb /\ r.ixc = x.ixc
    BY DEF Engine, Stays, Rated
  <2> HIDE DEF r, z
  <2> QED BY <1>2, <2>1, <2>2 DEF z, Live
<1>3. CASE x.ixa + n = x.ixb /\ x.ixc = 0
  BY <1>3, ReadyInStays DEF PldRead
<1>4. CASE x.ixa + n = x.ixb /\ x.ixc # 0
  <2> DEFINE r == [x EXCEPT !.ixa = 5, !.ixb = 5]
  <2>1. z = r
    BY <1>4 DEF PldRead, Header
  <2>2. Stays(x, r) /\ r.typeIn = x.typeIn /\ r.io = x.io /\ r.ixa = 5 /\ r.ixb = 5
    BY DEF Engine, Stays, Rated
  <2> HIDE DEF r, z
  <2> QED BY <1>1, <1>4, <2>1, <2>2 DEF z, Live, Pending, Parting
<1> QED BY <1>2, <1>3, <1>4

LEMMA ReceivedStays ==
    ASSUME e \in Engine, NEW n \in Nat
    PROVE  LET z == Received(n)
           IN  /\ Stays(e, z) /\ z.typeIn = e.typeIn /\ z.ilen = e.ilen /\ (Live(z) <=> Live(e))
               /\ z.ixa = e.ixa + n /\ z.ixb = e.ixa + n /\ z.ixc = e.ixc - n
<1> DEFINE io == IF e.io = "inout" /\ e.shared THEN "in" ELSE e.io
           z == [e EXCEPT !.io = io, !.ixa = e.ixa + n, !.ixb = e.ixa + n, !.ixc = e.ixc - n]
<1>1. Received(n) = z
  BY DEF Received
<1>2. io = "failed" <=> e.io = "failed"
  OBVIOUS
<1> HIDE DEF io
<1>3. /\ Stays(e, z) /\ z.typeIn = e.typeIn /\ z.ilen = e.ilen /\ z.io = io
      /\ z.ixa = e.ixa + n /\ z.ixb = e.ixa + n /\ z.ixc = e.ixc - n
  BY DEF Engine, Stays, Rated
<1> HIDE DEF z
<1> QED BY <1>1, <1>2, <1>3 DEF Live

---------------------------------------------------------------------------
(* The states the steps begin in. *)

Running == Fits /\ Steady /\ Tuned(e, cpu)

(* Payload that waits is the application's. *)
LEMMA OwnIs ==
    ASSUME Running, Live(e), HasPld(e)
    PROVE  e.by = "app" /\ e.typeOut = "app"
<1>1. e.app = 1 \/ cpu.at = "hreq"
  BY SteadyIs DEF Running, Own
<1>2. e.typeOut = "app"
  BY <1>1, SteadyIs, EngineTypes DEF Running, Tuned, Keyed
<1> QED BY <1>2, SteadyIs DEF Running, Clean

(* In a shared buffer output and a record that comes in exclude each other. *)
LEMMA OutAlone ==
    ASSUME Steady, CanOut(e), e.shared
    PROVE  e.ixa = 0 /\ e.ixb = 0 /\ ~Pending(e) /\ ~Parting(e)
<1>1. e.ixa = 0 /\ e.ixb = 0
  BY SteadyIs DEF Turn, CanOut
<1> QED BY <1>1 DEF Pending, Parting

SameOut(x, z) == Shows(z, Acc(x), Rec(x), Left(x))

LEMMA FlushedShows ==
    ASSUME Running, cpu.run # "off", NEW x, Sound(x), SameRegs(e, x), Rated(e, x),
           x.by = e.by, x.load = e.load
    PROVE  LET f == Flushed(x)
           IN  /\ Kept(e, f)
               /\ \/ cpu.put = 0 /\ ~HasPld(e) /\ SameOut(e, f)
                  \/ cpu.put = 0 /\ HasPld(e) /\ Acc(e) > 0 /\ Rec(e) = 0 /\ Left(e) = 0
                       /\ Shows(f, 0, Acc(e), Parts)
                  \/ cpu.put > 0 /\ CanOut(e) /\ Shows(e, 0, 0, 0) /\ Shows(f, 0, 0, Parts)
<1> DEFINE w == IF cpu.put > 0 THEN PldWritten(x, cpu.put, "hs") ELSE x
           f == Flushed(x)
<1>1. /\ Live(e) /\ cpu.put \in Nat /\ Kept(e, x) /\ SameOut(e, x) /\ (HasPld(x) <=> HasPld(e))
      /\ e.oxa \in Nat /\ e.oxb \in Nat /\ e.oxc \in Nat
  BY SteadyIs, RunningIs, SameKept, SameShows DEF Running, SameRegs, SameOut, HasPld
<1>2. f = IF HasPld(w) THEN Seal(w, FALSE) ELSE w
  BY DEF Flushed
<1>3. CASE cpu.put > 0
  <2>1. Empty(e, cpu.put) /\ cpu.put + cpu.hout > 0
    BY <1>3, SteadyIs, HandsAre DEF Running
  <2>2. CanOut(e) /\ Gath(x) /\ x.oxa = x.oxc /\ cpu.put <= x.oxb - x.oxa
    BY <2>1, SteadyIs DEF Running, More, Hand, Empty, SameRegs, Gath
  <2>3. Kept(x, f) /\ Shows(x, 0, 0, 0) /\ Shows(f, 0, 0, Parts)
    BY <1>1, <1>2, <1>3, <2>2, OwnShows DEF Running
  <2> HIDE DEF f
  <2>4. Shows(e, 0, 0, 0)
    BY <1>1, <2>3 DEF Shows, SameOut
  <2> QED BY <1>1, <1>3, <2>2, <2>3, <2>4, KeptTwice DEF f
<1>4. CASE ~(cpu.put > 0) /\ HasPld(e)
  <2>1. w = x /\ f = Seal(x, FALSE) /\ cpu.put = 0
    <3>1. cpu.put = 0
      BY <1>1, <1>4
    <3>2. w = x
      BY <1>4
    <3> HIDE DEF w, f
    <3>3. HasPld(w)
      BY <1>1, <1>4, <3>2
    <3> QED BY <1>2, <3>1, <3>2, <3>3, Zenon
  <2>2. x.by = "app"
    BY <1>1, <1>4, OwnIs
  <2>3. Kept(x, f) /\ Shows(f, 0, x.oxa - x.oxc, Parts) /\ Shows(x, x.oxa - x.oxc, 0, 0) /\ Gath(x)
    BY <1>1, <1>4, <2>1, <2>2, SealShows DEF Running
  <2> HIDE DEF f, w
  <2>4. Acc(e) = x.oxa - x.oxc /\ Rec(e) = 0 /\ Left(e) = 0
    BY <1>1, <2>3 DEF Shows, SameOut
  <2>5. Acc(e) > 0
    BY <1>1, <1>4, <2>3, <2>4 DEF SameRegs, Gath, HasPld
  <2> QED BY <1>1, <1>4, <2>1, <2>3, <2>4, <2>5, KeptTwice DEF f
<1>5. CASE ~(cpu.put > 0) /\ ~HasPld(e)
  <2>1. f = x /\ cpu.put = 0
    <3>1. cpu.put = 0
      BY <1>1, <1>5
    <3>2. w = x
      BY <1>5
    <3> HIDE DEF w, f
    <3>3. ~HasPld(w)
      BY <1>1, <1>5, <3>2
    <3> QED BY <1>2, <3>1, <3>2, <3>3, Zenon
  <2> QED BY <1>1, <1>5, <2>1
<1> QED BY <1>3, <1>4, <1>5

---------------------------------------------------------------------------
(* What the processor does until it waits. *)

(* The places application data has been stopped at, or may be, and those   *)
(* where what the application wrote has been flushed.                      *)
Later == {"idle", "hreq", "refuse", "close", "bye"}
Last == {"refuse", "close", "bye"}

(* Registers x at place p become z at place q: the output is what it was,  *)
(* or holds a record of the application's payload, or one of the           *)
(* processor's own.                                                        *)
Follows(x, z, p, q) ==
  /\ z.shared = x.shared /\ (Parting(z) <=> Parting(x)) /\ (x.shut => z.shut)
  /\ p \in Later => q \in Later /\ Rated(x, z)
  /\ p \in Last => q \in Last \/ Shows(x, 0, 0, 0)
  /\ \/ SameOut(x, z)
     \/ q \in Last /\ Acc(x) > 0 /\ Rec(x) = 0 /\ Left(x) = 0 /\ Shows(z, 0, Acc(x), Parts)
     \/ Shows(x, 0, 0, 0) /\ Shows(z, 0, 0, Parts) /\ (x.shared => ~Parting(x))

(* It goes on, it waits, or it fails, which nothing but input brings about. *)
Proceeds(z, d) ==
  \/ d.run = "off" /\ z = Fail(e) /\ (cpu.hin0 > 0 \/ cpu.cnr)
  \/ /\ Follows(e, z, cpu.at, d.at) /\ Live(z) /\ Fresh(z) /\ Keyed(z, d.at, d.half)
     /\ cpu.hin0 = 0 /\ ~cpu.cnr => d.hin0 = 0 /\ ~d.cnr
     /\ d.run = "off" => ~Pending(z)

LEMMA SameFollows ==
    ASSUME NEW x, NEW z, Rated(x, z), z.ixa = x.ixa, z.ixb = x.ixb, z.ixc = x.ixc,
           z.shared = x.shared, x.shut => z.shut,
           z.oxa = x.oxa, z.oxb = x.oxb, z.oxc = x.oxc, z.load = x.load, NEW p, NEW q,
           p \in Later => q \in Later, p \in Last => q \in Last \/ Shows(x, 0, 0, 0)
    PROVE  Follows(x, z, p, q)
  BY SameShows DEF Follows, SameOut, Parting, Pending

LEMMA FollowsThen ==
    ASSUME NEW x, NEW y, NEW z, NEW p, NEW q, Follows(x, y, p, q), Stays(y, z), Parting(z) <=> Parting(y)
    PROVE  Follows(x, z, p, q)
<1>1. Shows(z, Acc(y), Rec(y), Left(y)) /\ Rated(y, z)
  BY StaysIs
<1>2. Rated(x, y) => Rated(x, z)
  BY <1>1 DEF Rated
<1> QED BY <1>1, <1>2 DEF Follows, Stays, SameOut, Shows

(* Encryption and places, when output was written. *)
LEMMA InwardKeyed ==
    ASSUME NEW x, NEW z, Inward(x, z), z.out = x.out, z.app = x.app, NEW p, NEW half,
           z.typeOut = x.typeOut \/ p \notin {"idle", "hreq"}, Keyed(x, p, half)
    PROVE  Keyed(z, p, half)
  BY DEF Inward, Keyed, Pending

LEMMA FlushedFollows ==
    ASSUME Running, cpu.run # "off", NEW x, Sound(x), SameRegs(e, x), Rated(e, x), Sides(x),
           x.by = e.by, x.load = e.load, x.ixc = e.ixc, x.shared = e.shared, e.shut => x.shut,
           NEW q, HasPld(e) => q \in Last, cpu.at \in Later => q \in Later, cpu.at \in Last => q \in Last
    PROVE  LET f == Flushed(x)
           IN  /\ Follows(e, f, cpu.at, q) /\ Live(f) /\ Fresh(f) /\ Inward(x, f)
               /\ f.app = x.app /\ f.out = x.out
<1> DEFINE f == Flushed(x)
<1>1. Live(e) /\ Fresh(e)
  BY RunningIs DEF Running, Tuned
<1>2. Inward(x, f) /\ f.app = x.app /\ Sides(f) /\ Sound(f)
  BY FlushedInward DEF Running
<1>3. /\ Kept(e, f)
      /\ \/ cpu.put = 0 /\ ~HasPld(e) /\ SameOut(e, f)
         \/ cpu.put = 0 /\ HasPld(e) /\ Acc(e) > 0 /\ Rec(e) = 0 /\ Left(e) = 0
              /\ Shows(f, 0, Acc(e), Parts)
         \/ cpu.put > 0 /\ CanOut(e) /\ Shows(e, 0, 0, 0) /\ Shows(f, 0, 0, Parts)
  BY FlushedShows
<1>4. Live(f)
  <2>1. cpu.put > 0 => Empty(e, cpu.put)
    BY SteadyIs, HandsAre DEF Running
  <2>2. KeepsIn(x, f)
    BY <2>1, SteadyIs, FlushedSound DEF Running, SameRegs, Empty, Gath
  <2> HIDE DEF f
  <2> QED BY <1>1, <2>2 DEF KeepsIn, SameRegs, Live
<1> HIDE DEF f
<1>5. /\ f.shared = e.shared /\ (Parting(f) <=> Parting(e)) /\ (e.shut => f.shut)
      /\ Rated(e, f) /\ Fresh(f) /\ f.out = x.out
  BY <1>1, <1>2, <1>3, KeptFresh DEF Kept, Rated, Inward, SameRegs, Parting, Pending
<1>6. CanOut(e) /\ e.shared => ~Parting(e)
  BY OutAlone DEF Running
<1>7. Follows(e, f, cpu.at, q)
  BY <1>3, <1>5, <1>6 DEF Follows
<1> QED BY <1>2, <1>4, <1>5, <1>7 DEF f

LEMMA MessageFollows ==
    ASSUME Running, cpu.run = "on", cpu.at # "write", cpu.hout > 0,
           NEW type \in {"hs", "ccs", "alert"}, NEW n \in {1, 2, 16},
           NEW q, cpu.at \in Later => q \in Later
    PROVE  LET x == Message(e, type, n)
           IN  /\ Follows(e, x, cpu.at, q) /\ Live(x) /\ Fresh(x) /\ Inward(e, x) /\ Rated(e, x)
               /\ x.app = e.app /\ x.typeOut = type /\ ~HasPld(x)
<1> DEFINE x == Message(e, type, n)
<1>1. Live(e) /\ Fresh(e) /\ Sound(e) /\ CanOut(e) /\ Gath(e) /\ e.oxa = e.oxc
  BY RunningIs, SteadyIs DEF Running, Tuned
<1>2. type \in RecordTypes /\ n \in Nat /\ n > 0 /\ n <= 16
  BY DEF RecordTypes
<1>3. Kept(e, x) /\ Shows(e, 0, 0, 0) /\ Shows(x, 0, 0, Parts) /\ x.shared = e.shared
  BY <1>1, <1>2, MessageShows DEF Running
<1>4. Inward(e, x) /\ Live(x)
  BY MessageInward DEF Running
<1>5. x.app = e.app /\ x.typeOut = type /\ ~HasPld(x)
  BY SteadyIs, MessageIs DEF Running
<1>6. e.shared => ~Parting(e)
  BY <1>1, OutAlone DEF Running
<1> HIDE DEF x
<1>7. Follows(e, x, cpu.at, q)
  BY <1>3, <1>4, <1>6 DEF Follows, Inward, Parting, Pending, Kept
<1> QED BY <1>1, <1>3, <1>4, <1>5, <1>7, KeptFresh DEF x, Kept

LEMMA StopProceeds ==
    ASSUME Running, cpu.run # "off", cpu.hin0 > 0 \/ cpu.cnr, Stop
    PROVE  Proceeds(e', cpu')
<1>1. e' = Fail(e) /\ cpu'.run = "off"
  BY SteadyIs DEF Running, Stop, Cpu
<1> QED BY <1>1 DEF Proceeds

(* Nothing of the buffers changes. *)
LEMMA GoProceeds ==
    ASSUME Running, cpu.run # "off", e' = e, cpu'.run # "off", cpu'.hin0 = cpu.hin0, cpu'.cnr = cpu.cnr,
           Keyed(e, cpu'.at, cpu'.half), cpu.at \in Later => cpu'.at \in Later,
           cpu.at \in Last => cpu'.at \in Last
    PROVE  Proceeds(e', cpu')
<1>1. Live(e) /\ Fresh(e)
  BY RunningIs DEF Running, Tuned
<1>2. Follows(e, e, cpu.at, cpu'.at)
  BY SameFollows DEF Rated
<1> QED BY <1>1, <1>2 DEF Proceeds

LEMMA YieldProceeds ==
    ASSUME Running, cpu.run = "on", NEW x, x \in Engine, Inward(e, x), Live(x), Fresh(x),
           NEW p, Follows(e, x, cpu.at, p), Keyed(x, p, cpu.half),
           cpu.put > 0 => x = e /\ cpu.hout = 0 /\ cpu.at = "write" /\ p = "write",
           NEW h, h = 0, Yield(x, p, h)
    PROVE  Proceeds(e', cpu')
<1> DEFINE w == IF cpu.put > 0 THEN PldWritten(x, cpu.put, "hs") ELSE x
           r == IF h # cpu.hin0 THEN PldRead(w, cpu.hin0 - h) ELSE w
           again == [Entered(r, 0) EXCEPT !.at = p]
           off == [cpu EXCEPT !.run = "off", !.at = p, !.put = 0]
<1>1. /\ cpu \in Cpu /\ cpu.put \in Nat /\ cpu.hout \in Nat /\ cpu.hin0 \in Nat
      /\ cpu.hin0 = e.ixb - e.ixa /\ e.ixa \in Nat /\ e.ixb \in Nat /\ e.ixa <= e.ixb
      /\ Pending(e) => cpu.hin0 > 0
      /\ Sound(e)
  BY SteadyIs, RunningIs DEF Running
<1>2. e' = r /\ cpu' = IF h = 0 /\ cpu.hin0 > 0 THEN again ELSE off
  BY DEF Yield
<1>3. /\ w \in Engine /\ Inward(e, w) /\ Live(w) /\ Fresh(w) /\ Follows(e, w, cpu.at, p)
      /\ Keyed(w, p, cpu.half)
  <2>1. CASE cpu.put > 0
    <3>1. Empty(e, cpu.put) /\ cpu.put + cpu.hout > 0 /\ cpu.put + cpu.hout = Room(e)
      BY <1>1, <2>1, SteadyIs, HandsAre, RunningIs DEF Running
    <3>2. CanOut(e) /\ Gath(e) /\ cpu.put <= e.oxb - e.oxa /\ e.oxa = e.oxc /\ x = e /\ Sides(e)
      BY <2>1, <3>1, SteadyIs, RunningIs DEF Running, More, Hand, Empty
    <3>3. cpu.put = e.oxb - e.oxa
      BY <1>1, <2>1, <3>1, <3>2 DEF Room, SendPldLen
    <3> DEFINE y == PldWritten(e, cpu.put, "hs")
    <3>4. Shows(e, 0, 0, 0) /\ Shows(y, 0, 0, Parts) /\ Kept(e, y)
      BY <1>1, <2>1, <3>2, <3>3, OwnShows DEF Running
    <3>5. Inward(e, y) /\ y.app = e.app /\ Sound(y) /\ CanOut(y)
      BY <1>1, <2>1, <3>2, PldWrittenInward, PldWrittenSound
    <3>6. w = y
      BY <2>1, <3>2
    <3>7. e.shared => ~Parting(e)
      BY <3>2, OutAlone DEF Running
    <3> HIDE DEF y, w
    <3>8. Follows(e, y, cpu.at, p)
      BY <2>1, <3>4, <3>5, <3>7 DEF Follows, Inward, Parting, Pending, Later, Last
    <3>9. Keyed(y, p, cpu.half) /\ Fresh(y)
      BY <2>1, <3>2, <3>4, <3>5, InwardKeyed, KeptFresh DEF Kept, Rated
    <3> QED BY <3>5, <3>6, <3>8, <3>9 DEF Sound, CanOut, Live
  <2>2. CASE ~(cpu.put > 0)
    BY <2>2
  <2> QED BY <2>1, <2>2
<1> HIDE DEF w
<1>4. w.ixa = e.ixa /\ w.ixb = e.ixb
  BY <1>3 DEF Inward
<1>5. CASE ~Pending(e)
  <2>1. h = 0 /\ cpu.hin0 = 0 /\ r = w /\ ~Pending(w)
    BY <1>1, <1>4, <1>5 DEF Pending
  <2>2. off.run = "off" /\ off.at = p /\ off.cnr = cpu.cnr /\ off.half = cpu.half /\ off.hin0 = cpu.hin0
    BY <1>1 DEF Cpu
  <2>3. e' = w /\ cpu' = off
    BY <1>2, <2>1
  <2> HIDE DEF off
  <2> QED BY <1>3, <2>1, <2>2, <2>3 DEF Proceeds
<1>6. CASE Pending(e)
  <2>1. cpu.hin0 > 0 /\ h = 0 /\ r = PldRead(w, cpu.hin0) /\ w.ixa + cpu.hin0 = w.ixb
    BY <1>1, <1>4, <1>6
  <2>2. Stays(w, r) /\ Live(r) /\ ~Pending(r) /\ (Parting(r) <=> w.ixc > 0)
    BY <1>1, <1>3, <2>1, PldReadStays
  <2>3. again.run = "resume" /\ again.at = p /\ again.half = cpu.half
    BY EnteredIs DEF Running
  <2>4. e' = r /\ cpu' = again
    BY <1>2, <2>1
  <2> HIDE DEF r, again
  <2>5. Pending(w)
    BY <1>4, <1>6 DEF Pending
  <2>6. Follows(e, r, cpu.at, p)
    BY <1>3, <2>2, <2>5, FollowsThen DEF Parting
  <2>7. Fresh(r)
    BY <1>3, <2>2, StaysIs
  <2>8. Keyed(r, p, cpu.half)
    BY <1>3, <2>2 DEF Keyed, Stays, Rated
  <2> QED BY <2>1, <2>2, <2>3, <2>4, <2>6, <2>7, <2>8 DEF Proceeds
<1> QED BY <1>5, <1>6

(* The handshake is over, or the refusal of another one. *)
LEMMA DoneProceeds ==
    ASSUME Running, cpu.run = "on", NEW x, Sound(x), Inward(e, x), Live(x), Fresh(x),
           Follows(e, x, cpu.at, "idle"), x.in # Clear, x.ixc = 0 \/ ~Pending(x),
           cpu.put = 0, NEW h, h = 0, Done(x, h)
    PROVE  Proceeds(e', cpu')
<1> DEFINE y == [x EXCEPT !.app = 1, !.typeOut = "app"]
<1>1. Yield(y, "idle", h)
  BY DEF Done
<1>2. /\ y.app = 1 /\ y.typeOut = "app" /\ Inward(x, y) /\ Rated(x, y) /\ y.io = x.io
      /\ y.oxa = x.oxa /\ y.oxb = x.oxb /\ y.oxc = x.oxc /\ y.load = x.load
  BY DEF Sound, Engine, Inward, Rated
<1>3. y \in Engine
  <2>1. 1 \in 0..2 /\ "app" \in RecordTypes
    BY DEF RecordTypes
  <2>2. Sound(y)
    BY <2>1, TypeSound
  <2> QED BY <2>2 DEF Sound
<1> HIDE DEF y
<1>5. Fresh(y) /\ Shows(y, Acc(x), Rec(x), Left(x)) /\ Live(y) /\ Inward(e, y)
  BY <1>2, SameKept, SameShows, KeptFresh, InwardTwice DEF Live
<1>6. Follows(e, y, cpu.at, "idle")
  BY <1>2, <1>5 DEF Follows, SameOut, Shows, Inward, Parting, Pending, Rated
<1>7. Keyed(y, "idle", cpu.half)
  BY <1>2 DEF Keyed, Inward, Pending
<1> QED BY <1>1, <1>3, <1>5, <1>6, <1>7, YieldProceeds

(* What Running says where an action begins. *)
LEMMA NowIs ==
    ASSUME Running, cpu.run # "off"
    PROVE  /\ Live(e) /\ Fresh(e) /\ Keyed(e, cpu.at, cpu.half) /\ cpu \in Cpu /\ e \in Engine
           /\ cpu.hin > 0 => cpu.hin0 > 0 /\ Pending(e)
           /\ HasPld(e) /\ e.app # 1 => cpu.at = "hreq"
           /\ cpu.at \in Bare => ~HasPld(e)
  BY SteadyIs, RunningIs DEF Running, Tuned, Own

LEMMA GoIs ==
    ASSUME Running, NEW x, NEW p, NEW h, Go(x, p, h)
    PROVE  /\ e' = x /\ cpu'.run = "on" /\ cpu'.at = p /\ cpu'.hin0 = cpu.hin0 /\ cpu'.cnr = cpu.cnr
           /\ cpu'.half = cpu.half
  BY SteadyIs DEF Running, Go, Cpu

LEMMA ResumeProceeds == ASSUME Running, Resume PROVE Proceeds(e', cpu')
<1>1. cpu.run = "resume" /\ Go(e, cpu.at, cpu.hin)
  BY DEF Resume
<1> QED BY <1>1, GoIs, NowIs, GoProceeds

LEMMA WarningAlertProceeds == ASSUME Running, WarningAlert PROVE Proceeds(e', cpu')
<1>1. cpu.run = "resume" /\ Go(e, cpu.at, 0)
  BY DEF WarningAlert
<1> QED BY <1>1, GoIs, NowIs, GoProceeds

LEMMA ReadOnProceeds == ASSUME Running, ReadOn PROVE Proceeds(e', cpu')
<1>1. PICK n \in Pieces(cpu.hin) : Go(e, cpu.at, cpu.hin - n)
  BY DEF ReadOn
<1>2. cpu.run = "on"
  BY DEF ReadOn, Reading
<1> QED BY <1>1, <1>2, GoIs, NowIs, GoProceeds

LEMMA FatalProceeds == ASSUME Running, FatalAlert \/ Unexpected \/ CloseEnds PROVE Proceeds(e', cpu')
<1>1. cpu.run # "off" /\ Stop
  BY DEF FatalAlert, Unexpected, CloseEnds, On
<1>2. cpu.hin0 > 0 \/ cpu.cnr
  BY <1>1, NowIs DEF FatalAlert, Unexpected, CloseEnds, Alert
<1> QED BY <1>1, <1>2, StopProceeds

LEMMA ReadFlightProceeds == ASSUME Running, ReadFlight PROVE Proceeds(e', cpu')
<1>1. cpu.run = "on" /\ cpu.at = "read" /\ cpu.hin > 0
  BY DEF ReadFlight, On
<1>2. PICK n \in Pieces(cpu.hin) :
        Ends(n) /\ \/ IF NothingMore(n) THEN Go(e, "write", 0) ELSE Stop
                   \/ Go(e, "ccs", cpu.hin - n)
  BY DEF ReadFlight
<1>3. NothingMore(n) /\ cpu.hin - n = 0
  BY <1>1, <1>2, EndsIs DEF Running
<1>4. PICK p \in {"write", "ccs"} : Go(e, p, 0)
  BY <1>2, <1>3
<1>5. Keyed(e, p, cpu.half)
  BY <1>1, NowIs DEF Keyed
<1> QED BY <1>1, <1>4, <1>5, GoIs, NowIs, GoProceeds DEF Later, Last

LEMMA WriteProceeds == ASSUME Running, Write PROVE Proceeds(e', cpu')
<1>1. cpu.run = "on" /\ cpu.at = "write"
  BY DEF Write, On
<1>2. PICK n \in Pieces(cpu.hout) :
        cpu' = [cpu EXCEPT !.put = @ + n, !.hout = @ - n] /\ e' = e
  BY DEF Write, vars
<1>3. /\ cpu'.run = "on" /\ cpu'.at = cpu.at /\ cpu'.hin0 = cpu.hin0 /\ cpu'.cnr = cpu.cnr
      /\ cpu'.half = cpu.half
  BY <1>1, <1>2, NowIs DEF Cpu
<1> QED BY <1>1, <1>2, <1>3, NowIs, GoProceeds

LEMMA WaitProceeds == ASSUME Running, Wait PROVE Proceeds(e', cpu')
<1>1. cpu.run = "on" /\ Yield(e, cpu.at, cpu.hin)
  BY DEF Wait
<1>2. Sound(e) /\ Inward(e, e) /\ cpu.hin \in Nat /\ cpu.put \in Nat /\ InTurn(e, cpu) /\ AtOnce(e, cpu)
  BY <1>1, RunningIs, SteadyIs DEF Running
<1>3. Follows(e, e, cpu.at, cpu.at)
  BY SameFollows DEF Rated
<1>4. cpu.put > 0 => cpu.at = "write" /\ cpu.hout = 0
  <2>1. cpu.put > 0 => cpu.at = "write"
    BY <1>1, <1>2, SteadyIs, HandsAre DEF Running
  <2> QED BY <2>1 DEF Wait
<1>5. cpu.hin = 0
  <2>1. CASE cpu.at \in Writes \cup Farewells
    BY <1>1, <1>2, <2>1 DEF InTurn, AtOnce
  <2>2. CASE cpu.at \in {"read", "rfin", "hreq", "ccs", "idle"}
    BY <2>2 DEF Wait
  <2>3. cpu.at \in Places
    BY <1>1, NowIs DEF Cpu
  <2> QED BY <2>1, <2>2, <2>3 DEF Places, Writes, Farewells
<1> QED BY <1>1, <1>2, <1>3, <1>4, <1>5, NowIs, YieldProceeds

LEMMA WriteFlightProceeds == ASSUME Running, WriteFlight PROVE Proceeds(e', cpu')
<1>1. cpu.run = "on" /\ cpu.at = "write"
  BY DEF WriteFlight, On
<1> DEFINE f == Flushed(e)
<1>2. PICK p \in {"read", "wccs"} : GoFlushed(e, p, cpu.hin)
  BY DEF WriteFlight
<1>3. /\ e' = f /\ cpu'.run = "on" /\ cpu'.at = p /\ cpu'.hin0 = cpu.hin0 /\ cpu'.cnr = cpu.cnr
      /\ cpu'.half = cpu.half
  BY <1>2, <1>1, NowIs DEF GoFlushed, Cpu
<1>4. Follows(e, f, cpu.at, p) /\ Live(f) /\ Fresh(f) /\ Inward(e, f) /\ f.app = e.app /\ f.out = e.out
  <2>1. ~HasPld(e)
    BY <1>1, NowIs DEF Keyed
  <2>2. Sound(e) /\ SameRegs(e, e) /\ Rated(e, e) /\ Sides(e)
    BY <1>1, NowIs, SteadyIs DEF Running, SameRegs, Rated
  <2> QED BY <1>1, <2>1, <2>2, FlushedFollows DEF Later, Last
<1> HIDE DEF f
<1>5. Keyed(e, p, cpu.half)
  BY <1>1, <1>2, NowIs DEF Keyed
<1>6. Keyed(f, p, cpu.half)
  BY <1>2, <1>4, <1>5, InwardKeyed
<1> QED BY <1>3, <1>4, <1>6 DEF Proceeds

LEMMA FlushedProceeds ==
    ASSUME Running, cpu.run # "off", NEW x, Sound(x), SameRegs(e, x), Rated(e, x), Sides(x),
           x.by = e.by, x.load = e.load, x.ixc = e.ixc, x.shared = e.shared, e.shut => x.shut,
           NEW q, q \notin {"idle", "hreq"},
           HasPld(e) => q \in Last, cpu.at \in Later => q \in Later, cpu.at \in Last => q \in Last,
           e' = Flushed(x), cpu'.run # "off", cpu'.at = q, Keyed(x, q, cpu'.half),
           cpu.hin0 > 0 \/ (cpu'.hin0 = cpu.hin0 /\ cpu'.cnr = cpu.cnr)
    PROVE  Proceeds(e', cpu')
<1> DEFINE f == Flushed(x)
<1>1. /\ Follows(e, f, cpu.at, q) /\ Live(f) /\ Fresh(f) /\ Inward(x, f) /\ f.app = x.app
      /\ f.out = x.out
  BY FlushedFollows
<1>2. e' = f
  OBVIOUS
<1> HIDE DEF f
<1>3. Keyed(f, q, cpu'.half)
  BY <1>1, InwardKeyed
<1>4. cpu.hin0 = 0 /\ ~cpu.cnr => cpu'.hin0 = 0 /\ ~cpu'.cnr
  OBVIOUS
<1> QED BY <1>1, <1>2, <1>3, <1>4 DEF Proceeds

LEMMA RefuseProceeds == ASSUME Running, Refuse PROVE Proceeds(e', cpu')
<1>1. cpu.run = "on" /\ cpu.at = "hreq"
  BY DEF Refuse, On
<1>2. PICK n \in Pieces(cpu.hin) : GoFlushed(e, "refuse", cpu.hin - n)
  BY DEF Refuse
<1>3. /\ e' = Flushed(e) /\ cpu'.run = "on" /\ cpu'.at = "refuse" /\ cpu'.hin0 = cpu.hin0
      /\ cpu'.cnr = cpu.cnr /\ cpu'.half = cpu.half
  BY <1>1, <1>2, NowIs DEF GoFlushed, Cpu
<1>4. Sound(e) /\ SameRegs(e, e) /\ Rated(e, e) /\ Sides(e) /\ Keyed(e, "hreq", cpu.half)
  BY <1>1, NowIs, SteadyIs DEF Running, SameRegs, Rated
<1>5. Keyed(e, "refuse", cpu.half)
  BY <1>4 DEF Keyed
<1> QED BY <1>1, <1>3, <1>4, <1>5, FlushedProceeds DEF Later, Last

LEMMA BeginCloseProceeds == ASSUME Running, BeginClose PROVE Proceeds(e', cpu')
<1> DEFINE a == IF e.app = 1 THEN 2 ELSE 0
           x == [e EXCEPT !.app = a]
<1>1. cpu.run = "resume" /\ GoFlushed(x, "close", cpu.hin)
  BY DEF BeginClose
<1>2. /\ e' = Flushed(x) /\ cpu'.run = "on" /\ cpu'.at = "close" /\ cpu'.hin0 = cpu.hin0
      /\ cpu'.cnr = cpu.cnr /\ cpu'.half = cpu.half
  BY <1>1, NowIs DEF GoFlushed, Cpu
<1>3. Sound(e) /\ Sides(e) /\ Keyed(e, cpu.at, cpu.half)
  BY <1>1, NowIs, SteadyIs DEF Running
<1>4. a \in 0..2 /\ a # 1
  OBVIOUS
<1> HIDE DEF a
<1>5. Sound(x) /\ SameRegs(e, x) /\ x.app = a
  BY <1>3, <1>4, AppSound
<1>6. /\ Inward(e, x) /\ x.io = e.io /\ Rated(e, x) /\ x.by = e.by /\ x.load = e.load /\ x.ixc = e.ixc
      /\ x.shared = e.shared /\ x.shut = e.shut /\ x.oxa = e.oxa /\ x.oxc = e.oxc
  BY SteadyIs DEF Running, Engine, Inward, Rated
<1> HIDE DEF x
<1>7. Sides(x)
  BY <1>3, <1>6 DEF Sides, Live
<1>8. Keyed(x, "close", cpu.half)
  BY <1>3, <1>4, <1>5, <1>6 DEF Keyed, Inward, Pending
<1> QED BY <1>1, <1>2, <1>5, <1>6, <1>7, <1>8, FlushedProceeds DEF Later, Last

LEMMA CloseAlertProceeds == ASSUME Running, CloseAlert PROVE Proceeds(e', cpu')
<1> DEFINE x == [e EXCEPT !.app = 0, !.shut = TRUE]
           f == Flushed(x)
<1>1. /\ cpu.run = "resume" /\ cpu.hin > 0 /\ e' = f
      /\ cpu' = [cpu EXCEPT !.run = "on", !.at = "close", !.hin = 0, !.cnr = TRUE, !.hout = SendPldLen(f)]
  BY DEF CloseAlert, Alert
<1>2. cpu'.run = "on" /\ cpu'.at = "close" /\ cpu'.half = cpu.half /\ cpu.hin0 > 0
  <2> HIDE DEF f
  <2> QED BY <1>1, NowIs DEF Cpu
<1>3. Sound(e) /\ Sides(e) /\ Keyed(e, cpu.at, cpu.half)
  BY <1>1, NowIs, SteadyIs DEF Running
<1>4. Sound(x) /\ SameRegs(e, x) /\ x.app = 0
  <2>1. 0 \in 0..2 /\ TRUE \in BOOLEAN
    OBVIOUS
  <2> QED BY <1>3, <2>1, ShutSound
<1>5. /\ x.in = e.in /\ x.ixa = e.ixa /\ x.ixb = e.ixb /\ x.io = e.io /\ Rated(e, x) /\ x.by = e.by
      /\ x.load = e.load /\ x.ixc = e.ixc /\ x.shared = e.shared /\ x.shut = TRUE
      /\ x.oxa = e.oxa /\ x.oxc = e.oxc
  BY SteadyIs DEF Running, Engine, Rated
<1> HIDE DEF x
<1>6. Sides(x)
  BY <1>3, <1>5 DEF Sides, Live
<1>7. Keyed(x, "close", cpu.half)
  BY <1>3, <1>4, <1>5 DEF Keyed, Pending
<1>8. "close" \in Last /\ "close" \in Later /\ "close" \notin {"idle", "hreq"}
  BY DEF Last, Later
<1>9. (e.shut => x.shut) /\ Keyed(x, "close", cpu'.half) /\ cpu'.run # "off" /\ cpu.run # "off"
  BY <1>1, <1>2, <1>5, <1>7
<1>10. cpu.hin0 > 0 \/ (cpu'.hin0 = cpu.hin0 /\ cpu'.cnr = cpu.cnr)
  BY <1>2
<1>11. cpu'.at = "close" /\ e' = f
  BY <1>1, <1>2
<1> QED BY <1>4, <1>5, <1>6, <1>8, <1>9, <1>10, <1>11, FlushedProceeds

(* The registers of output stay, those of input too. *)
LEMMA SideProceeds ==
    ASSUME Running, cpu.run # "off", NEW x, Rated(e, x), x.ixa = e.ixa, x.ixb = e.ixb, x.ixc = e.ixc,
           x.oxa = e.oxa, x.oxb = e.oxb, x.oxc = e.oxc, x.load = e.load, x.io = e.io,
           x.shared = e.shared, e.shut => x.shut, e' = x, cpu'.run # "off",
           Keyed(x, cpu'.at, cpu'.half), cpu.at \in Later => cpu'.at \in Later,
           cpu.at \in Last => cpu'.at \in Last,
           cpu.hin0 > 0 \/ (cpu'.hin0 = cpu.hin0 /\ cpu'.cnr = cpu.cnr)
    PROVE  Proceeds(e', cpu')
<1>1. Live(x) /\ Fresh(x)
  BY NowIs, SameKept, KeptFresh DEF Live
<1>2. Follows(e, x, cpu.at, cpu'.at)
  BY SameFollows
<1>3. cpu.hin0 = 0 /\ ~cpu.cnr => cpu'.hin0 = 0 /\ ~cpu'.cnr
  OBVIOUS
<1> QED BY <1>1, <1>2, <1>3 DEF Proceeds

LEMMA WaitForCloseProceeds == ASSUME Running, WaitForClose PROVE Proceeds(e', cpu')
<1>1. cpu.run = "resume" /\ cpu.at \in {"close", "bye"}
  BY DEF WaitForClose, Closing
<1>2. CASE \E h : Go(e, cpu.at, h)
  BY <1>1, <1>2, GoIs, NowIs, GoProceeds
<1>3. CASE ~\E h : Go(e, cpu.at, h)
  <2>1. PICK closes \in BOOLEAN : /\ e' = [e EXCEPT !.app = 0, !.shut = closes]
                                  /\ cpu' = [cpu EXCEPT !.run = "on", !.hin = 0, !.cnr = closes]
    BY <1>3 DEF WaitForClose
  <2>2. ~cpu.cnr /\ cpu.hin > 0
    BY <1>3, NowIs, <1>1 DEF WaitForClose, Cpu, Alert
  <2>3. cpu'.run = "on" /\ cpu'.at = cpu.at /\ cpu'.half = cpu.half /\ cpu.hin0 > 0 /\ ~e.shut
    BY <1>1, <2>1, <2>2, NowIs, SteadyIs DEF Running, Cpu, Ended
  <2> DEFINE x == [e EXCEPT !.app = 0, !.shut = closes]
  <2>4. /\ x.in = e.in /\ x.ixa = e.ixa /\ x.ixb = e.ixb /\ x.io = e.io /\ Rated(e, x) /\ x.app = 0
        /\ x.load = e.load /\ x.ixc = e.ixc /\ x.shared = e.shared /\ x.out = e.out
        /\ x.oxa = e.oxa /\ x.oxb = e.oxb /\ x.oxc = e.oxc
    BY SteadyIs DEF Running, Engine, Rated
  <2>5. e' = x
    BY <2>1
  <2> HIDE DEF x
  <2>6. Keyed(x, cpu.at, cpu.half)
    BY <1>1, <2>4, NowIs DEF Keyed, Pending
  <2>7. (e.shut => x.shut) /\ (cpu.at \in Last => cpu'.at \in Last) /\ (cpu.at \in Later => cpu'.at \in Later)
    BY <2>3
  <2>8. Keyed(x, cpu'.at, cpu'.half)
    BY <2>3, <2>6
  <2>9. cpu.hin0 > 0 \/ (cpu'.hin0 = cpu.hin0 /\ cpu'.cnr = cpu.cnr)
    BY <2>3
  <2>10. cpu.run # "off" /\ cpu'.run # "off"
    BY <1>1, <2>3
  <2> QED BY <2>4, <2>5, <2>7, <2>8, <2>9, <2>10, SideProceeds, Zenon
<1> QED BY <1>2, <1>3

LEMMA ReadRequestProceeds == ASSUME Running, ReadRequest PROVE Proceeds(e', cpu')
<1> DEFINE x == [e EXCEPT !.app = 0]
<1>1. cpu.run = "on" /\ cpu.at = "idle" /\ Go(x, "hreq", cpu.hin)
  BY DEF ReadRequest, On
<1>2. /\ x.in = e.in /\ x.ixa = e.ixa /\ x.ixb = e.ixb /\ x.io = e.io /\ Rated(e, x) /\ x.app = 0
      /\ x.load = e.load /\ x.ixc = e.ixc /\ x.shared = e.shared /\ x.out = e.out
      /\ x.oxa = e.oxa /\ x.oxb = e.oxb /\ x.oxc = e.oxc /\ x.shut = e.shut /\ x.typeOut = e.typeOut
  BY SteadyIs DEF Running, Engine, Rated
<1> HIDE DEF x
<1>3. Keyed(x, "hreq", cpu.half)
  BY <1>1, <1>2, NowIs DEF Keyed, Pending
<1> QED BY <1>1, <1>2, <1>3, GoIs, SideProceeds DEF Later, Last

LEMMA ReadFragLengthProceeds == ASSUME Running, ReadFragLength PROVE Proceeds(e', cpu')
<1>1. cpu.run = "on" /\ cpu.at = "read"
  BY DEF ReadFragLength, On
<1>2. PICK f \in {512, 1024, 2048, 4096} :
        f < e.frag /\ e' = NewFrag(e, f) /\ cpu' = [cpu EXCEPT !.hout = Least(@, f)]
  BY DEF ReadFragLength
<1>3. /\ cpu'.run = "on" /\ cpu'.at = "read" /\ cpu'.hin0 = cpu.hin0 /\ cpu'.cnr = cpu.cnr
      /\ cpu'.half = cpu.half
  BY <1>1, <1>2, NowIs DEF Cpu
<1> DEFINE nxb == e.oxc + f
           oxb == IF e.oxa < e.oxb /\ e.oxb > nxb /\ e.oxa < nxb THEN nxb ELSE e.oxb
           x == [e EXCEPT !.frag = f, !.oxb = oxb]
<1>4. e' = x
  BY <1>2 DEF NewFrag
<1>5. /\ Sound(e) /\ Fresh(e) /\ Keyed(e, "read", cpu.half) /\ ~HasPld(e) /\ Live(e)
      /\ e.oxa \in Nat /\ e.oxb \in Nat /\ e.oxc \in Nat /\ e.frag \in Nat /\ f \in Nat /\ f > 0
      /\ e.frag <= Cap /\ Cap \in Nat
  BY <1>1, NowIs, SteadyIs, EngineTypes, FragIs DEF Running, Bare, Fresh, Fits
<1> HIDE DEF oxb
<1>6. /\ Inward(e, x) /\ x.io = e.io /\ x.oxa = e.oxa /\ x.oxc = e.oxc /\ x.oxb = oxb /\ x.load = e.load
      /\ x.app = e.app /\ x.frag = f /\ x.out = e.out /\ x.olen = e.olen /\ x.typeOut = e.typeOut
  BY NowIs, <1>1 DEF Engine, Inward
<1> HIDE DEF x
<1>7. f <= Cap /\ f \in 0..e.frag
  BY <1>2, <1>5
<1>8. Gath(e) => Fresh(x) /\ SameOut(e, x)
  <2> SUFFICES ASSUME Gath(e) PROVE Fresh(x) /\ SameOut(e, x)
    OBVIOUS
  <2>1. e.oxa = e.oxc /\ e.oxa < e.oxb
    BY <1>5 DEF Gath, HasPld
  <2>2. e.oxb - e.oxc = Span(e.out, e.frag, e.olen)
    BY <1>5 DEF Fresh
  <2>3. Legal(e.out, e.frag, e.olen)
    BY <1>5, NowIs, <1>1 DEF Legal, Sound, Wide, Engine
  <2>4. Span(e.out, f, e.olen) = Least(e.oxb - e.oxc, f)
    BY <1>7, <2>2, <2>3, SpanHasRoom
  <2>5. oxb - e.oxc = Least(e.oxb - e.oxc, f) /\ oxb > e.oxa
    BY <1>5, <2>1 DEF oxb, Least
  <2>6. Fresh(x)
    BY <1>6, <1>7, <2>4, <2>5 DEF Fresh
  <2>7. SameOut(e, x)
    BY <1>5, <1>6, <2>1, <2>5 DEF SameOut, Shows, Acc, Rec, Left, Sending
  <2> QED BY <2>6, <2>7
<1>9. ~Gath(e) => Fresh(x) /\ SameOut(e, x)
  <2> SUFFICES ASSUME ~Gath(e) PROVE Fresh(x) /\ SameOut(e, x)
    OBVIOUS
  <2>1. Filled(e)
    BY <1>5 DEF Sound, OutOK
  <2>2. oxb = e.oxb
    BY <1>5, <2>1 DEF oxb, Filled
  <2>3. Fresh(x)
    BY <1>6, <1>7, <2>2 DEF Fresh, Gath
  <2>4. SameOut(e, x)
    BY <1>6, <2>2, SameShows DEF SameOut
  <2> QED BY <2>3, <2>4
<1>10. Follows(e, x, "read", "read") /\ Live(x)
  BY <1>5, <1>6, <1>8, <1>9 DEF Follows, Inward, Parting, Pending, Later, Last, Live
<1>11. Keyed(x, "read", cpu.half)
  BY <1>5, <1>6, InwardKeyed
<1> QED BY <1>1, <1>3, <1>4, <1>8, <1>9, <1>10, <1>11 DEF Proceeds

LEMMA ReadCCSProceeds == ASSUME Running, ReadCCS PROVE Proceeds(e', cpu')
<1>1. cpu.run = "on" /\ cpu.at = "ccs" /\ cpu.hin > 0
  BY DEF ReadCCS, On
<1>2. CASE ~NothingMore(1)
  <2>1. Stop
    BY <1>2 DEF ReadCCS
  <2> QED BY <1>1, <2>1, NowIs, StopProceeds
<1>3. CASE NothingMore(1)
  <2>1. Keyed(e, "ccs", cpu.half) /\ e.ixc = 0
    BY <1>1, <1>3, NowIs, WholeIs DEF NothingMore, Running
  <2>2. PICK s \in Schemes \ {Clear} : Go([e EXCEPT !.in = s], "rfin", 0)
    <3>1. e.out \in Schemes /\ (cpu.half => e.out # Clear)
      BY <1>1, <2>1, NowIs, EngineTypes DEF Keyed
    <3>2. PICK s \in IF cpu.half THEN {e.out} ELSE Ciphers : Go([e EXCEPT !.in = s], "rfin", 0)
      BY <1>3 DEF ReadCCS
    <3>3. s \in Schemes \ {Clear}
      BY <3>1, <3>2, EngineAssumption
    <3> QED BY <3>2, <3>3
  <2> DEFINE x == [e EXCEPT !.in = s]
  <2>3. /\ x.in = s /\ x.ixa = e.ixa /\ x.ixb = e.ixb /\ x.ixc = e.ixc /\ x.io = e.io /\ Rated(e, x)
        /\ x.oxa = e.oxa /\ x.oxb = e.oxb /\ x.oxc = e.oxc /\ x.load = e.load
        /\ x.shared = e.shared /\ x.shut = e.shut /\ x.app = e.app /\ x.out = e.out
    BY NowIs, <1>1 DEF Engine, Rated
  <2>4. Go(x, "rfin", 0)
    BY <2>2
  <2> HIDE DEF x
  <2>5. s # Clear
    BY <2>2
  <2>6. Keyed(x, "rfin", cpu.half)
    BY <2>1, <2>3, <2>5 DEF Keyed
  <2> QED BY <1>1, <2>3, <2>4, <2>6, GoIs, SideProceeds DEF Later, Last
<1> QED BY <1>2, <1>3

LEMMA ReadFinishedProceeds == ASSUME Running, ReadFinished PROVE Proceeds(e', cpu')
<1>1. cpu.run = "on" /\ cpu.at = "rfin" /\ cpu.hin > 0
  BY DEF ReadFinished, On
<1> DEFINE f == Flushed(e)
<1>2. PICK n \in Pieces(cpu.hin) :
        /\ Ends(n)
        /\ IF cpu.half THEN Done(e, cpu.hin - n)
           ELSE e' = f /\ cpu' = [cpu EXCEPT !.at = "wccs", !.half = TRUE,
                                  !.hin = @ - n, !.hout = SendPldLen(f)]
  BY DEF ReadFinished
<1>3. cpu.hin - n = 0 /\ e.ixc = 0
  BY <1>1, <1>2, EndsIs DEF Running
<1>4. /\ Sound(e) /\ Inward(e, e) /\ Keyed(e, "rfin", cpu.half) /\ Live(e) /\ Fresh(e) /\ ~HasPld(e)
      /\ cpu.put = 0 /\ Sides(e) /\ SameRegs(e, e) /\ Rated(e, e)
  BY <1>1, NowIs, SteadyIs, HandsAre DEF Running, Bare, SameRegs, Rated
<1>5. CASE cpu.half
  <2>1. Done(e, 0)
    BY <1>2, <1>3, <1>5
  <2>2. Follows(e, e, cpu.at, "idle")
    BY <1>1, SameFollows DEF Rated, Later, Last
  <2>3. e.in # Clear
    BY <1>4 DEF Keyed
  <2> QED BY <1>1, <1>3, <1>4, <2>1, <2>2, <2>3, DoneProceeds
<1>6. CASE ~cpu.half
  <2>1. /\ e' = f /\ cpu'.run = "on" /\ cpu'.at = "wccs" /\ cpu'.half = TRUE /\ cpu'.hin0 = cpu.hin0
        /\ cpu'.cnr = cpu.cnr
    <3> HIDE DEF f
    <3> QED BY <1>1, <1>2, <1>6, NowIs DEF Cpu
  <2>2. Keyed(e, "wccs", TRUE)
    BY <1>4 DEF Keyed
  <2> QED BY <1>1, <1>4, <2>1, <2>2, FlushedProceeds DEF Later, Last
<1> QED BY <1>5, <1>6

(* Where the processor has a message to write no input is left. *)
LEMMA WritingNow ==
    ASSUME Running, cpu.run = "on", cpu.at \in {"wccs", "wfin", "refuse"}
    PROVE  cpu.hin = 0 /\ cpu.put = 0
  BY WritingIs DEF Running

LEMMA WriteCCSProceeds == ASSUME Running, WriteCCS PROVE Proceeds(e', cpu')
<1>1. cpu.run = "on" /\ cpu.at = "wccs" /\ cpu.hout > 0
  BY DEF WriteCCS, On
<1> DEFINE m == Message(e, "ccs", 1)
<1>2. Keyed(e, "wccs", cpu.half) /\ e.in \in Schemes
  BY <1>1, NowIs, EngineTypes
<1>3. PICK s \in Schemes \ {Clear} : GoWith([m EXCEPT !.out = s], "wfin")
  <2>1. PICK s \in IF cpu.half THEN {e.in} ELSE Ciphers : GoWith([m EXCEPT !.out = s], "wfin")
    BY DEF WriteCCS
  <2>2. s \in Schemes \ {Clear}
    BY <1>2, <2>1, EngineAssumption DEF Keyed
  <2> QED BY <2>1, <2>2
<1> DEFINE x == [m EXCEPT !.out = s]
<1>4. /\ Follows(e, m, "wccs", "wfin") /\ Live(m) /\ Fresh(m) /\ Inward(e, m) /\ Rated(e, m)
      /\ m.app = e.app
  BY <1>1, MessageFollows DEF Later
<1>5. m \in Engine /\ Filled(m) /\ Sound(m)
  BY <1>1, SteadyIs, MessageIs DEF Running, Sound
<1>6. e' = x /\ cpu' = [cpu EXCEPT !.run = "on", !.at = "wfin", !.hout = SendPldLen(x)]
  BY <1>3 DEF GoWith
<1>7. /\ cpu'.run = "on" /\ cpu'.at = "wfin" /\ cpu'.half = cpu.half /\ cpu'.hin0 = cpu.hin0
      /\ cpu'.cnr = cpu.cnr
  <2> HIDE DEF x
  <2> QED BY <1>1, <1>6, NowIs DEF Cpu
<1> HIDE DEF m
<1>8. /\ Inward(m, x) /\ x.io = m.io /\ x.app = m.app /\ x.oxa = m.oxa /\ x.oxb = m.oxb
      /\ x.oxc = m.oxc /\ x.load = m.load /\ x.out = s /\ x.frag = m.frag
  BY <1>5 DEF Engine, Inward
<1>9. s # Clear
  BY <1>3
<1> HIDE DEF x
<1>10. Live(x) /\ ~Gath(x) /\ Fresh(x)
  <2>1. ~Gath(m)
    BY <1>5, FilledRoom
  <2> QED BY <1>4, <1>8, <2>1 DEF Live, Gath, Fresh
<1>11. Follows(e, x, "wccs", "wfin")
  <2>1. Shows(x, Acc(m), Rec(m), Left(m))
    BY <1>8, SameShows
  <2> QED BY <1>4, <1>8, <2>1 DEF Follows, SameOut, Shows, Inward, Parting, Pending, Later, Last
<1>12. Keyed(x, "wfin", cpu.half)
  BY <1>2, <1>4, <1>8, <1>9 DEF Keyed, Inward, Pending
<1> QED BY <1>1, <1>6, <1>7, <1>10, <1>11, <1>12 DEF Proceeds

LEMMA WriteFinishedProceeds == ASSUME Running, WriteFinished PROVE Proceeds(e', cpu')
<1>1. cpu.run = "on" /\ cpu.at = "wfin" /\ cpu.hout > 0
  BY DEF WriteFinished, On
<1> DEFINE x == Message(e, "hs", 16)
<1>2. IF cpu.half THEN Done(x, cpu.hin)
      ELSE e' = x /\ cpu' = [cpu EXCEPT !.at = "ccs", !.half = TRUE, !.hout = 0]
  BY DEF WriteFinished
<1>3. \A q : /\ Follows(e, x, "wfin", q) /\ Live(x) /\ Fresh(x) /\ Inward(e, x) /\ Rated(e, x)
             /\ x.app = e.app
  BY <1>1, MessageFollows DEF Later
<1>4. Sound(x)
  BY <1>1, SteadyIs, MessageIs DEF Running
<1>5. Keyed(e, "wfin", cpu.half) /\ cpu.hin = 0 /\ cpu.put = 0
  BY <1>1, NowIs, WritingNow
<1> HIDE DEF x
<1>6. CASE cpu.half
  <2>1. x.in # Clear /\ (x.ixc = 0 \/ ~Pending(x))
    BY <1>3, <1>5, <1>6 DEF Keyed, Inward, Pending
  <2> QED BY <1>1, <1>2, <1>3, <1>4, <1>5, <1>6, <2>1, DoneProceeds
<1>7. CASE ~cpu.half
  <2>1. /\ e' = x /\ cpu'.run = "on" /\ cpu'.at = "ccs" /\ cpu'.half = TRUE /\ cpu'.hin0 = cpu.hin0
        /\ cpu'.cnr = cpu.cnr
    BY <1>1, <1>2, <1>7, NowIs DEF Cpu
  <2>2. Keyed(x, "ccs", TRUE)
    BY <1>3, <1>5 DEF Keyed, Inward, Pending, Rated
  <2> QED BY <1>1, <1>3, <2>1, <2>2 DEF Proceeds
<1> QED BY <1>6, <1>7

LEMMA SendRefusalProceeds == ASSUME Running, SendRefusal PROVE Proceeds(e', cpu')
<1>1. cpu.run = "on" /\ cpu.at = "refuse" /\ cpu.hout > 0 /\ Done(Message(e, "alert", 2), cpu.hin)
  BY DEF SendRefusal, On
<1> DEFINE x == Message(e, "alert", 2)
<1>2. Follows(e, x, "refuse", "idle") /\ Live(x) /\ Fresh(x) /\ Inward(e, x)
  BY <1>1, MessageFollows DEF Later
<1>3. Sound(x)
  BY <1>1, SteadyIs, MessageIs DEF Running
<1>4. Keyed(e, "refuse", cpu.half) /\ cpu.hin = 0 /\ cpu.put = 0
  BY <1>1, NowIs, WritingNow
<1>5. Done(x, cpu.hin)
  BY <1>1
<1> HIDE DEF x
<1>6. x.in # Clear /\ (x.ixc = 0 \/ ~Pending(x))
  BY <1>2, <1>4 DEF Keyed, Inward, Pending
<1> QED BY <1>1, <1>2, <1>3, <1>4, <1>5, <1>6, DoneProceeds

LEMMA SendCloseProceeds == ASSUME Running, SendClose PROVE Proceeds(e', cpu')
<1>1. cpu.run = "on" /\ cpu.at = "close" /\ cpu.hout > 0
  BY DEF SendClose, On
<1> DEFINE x == Message(e, "alert", 2)
<1>2. e' = x /\ cpu' = [cpu EXCEPT !.at = "bye", !.hout = 0]
  BY DEF SendClose
<1>3. /\ Follows(e, x, "close", "bye") /\ Live(x) /\ Fresh(x) /\ Inward(e, x) /\ Rated(e, x)
      /\ x.app = e.app
  BY <1>1, MessageFollows DEF Later
<1> HIDE DEF x
<1>4. /\ cpu'.run = "on" /\ cpu'.at = "bye" /\ cpu'.half = cpu.half /\ cpu'.hin0 = cpu.hin0
      /\ cpu'.cnr = cpu.cnr
  BY <1>1, <1>2, NowIs DEF Cpu
<1>5. Keyed(x, "bye", cpu.half)
  BY <1>1, <1>3, NowIs DEF Keyed, Inward, Pending
<1> QED BY <1>1, <1>2, <1>3, <1>4, <1>5 DEF Proceeds

LEMMA ProcessorProceeds == ASSUME Running, Processor PROVE Proceeds(e', cpu')
<1>1. ~Again
  BY SteadyIs DEF Again, Running
<1> QED BY <1>1, ResumeProceeds, BeginCloseProceeds, WarningAlertProceeds, FatalProceeds,
           CloseAlertProceeds, WaitForCloseProceeds, WaitProceeds, ReadOnProceeds,
           ReadFlightProceeds, ReadFragLengthProceeds, WriteProceeds, WriteFlightProceeds,
           ReadCCSProceeds, ReadFinishedProceeds, WriteCCSProceeds, WriteFinishedProceeds,
           ReadRequestProceeds, RefuseProceeds, SendRefusalProceeds, SendCloseProceeds
        DEF Processor

---------------------------------------------------------------------------
(* The abstract engine. *)

Held ==
  [ shared : BOOLEAN, cap : Nat, closed : BOOLEAN, app : BOOLEAN, shut : BOOLEAN,
    acc : Nat, rec : Nat, left : Nat, part : BOOLEAN, plain : Nat ]

LEMMA HeldEqual ==
    ASSUME NEW h \in Held, NEW k \in Held, h.shared = k.shared, h.cap = k.cap,
           h.closed = k.closed, h.app = k.app, h.shut = k.shut, h.acc = k.acc, h.rec = k.rec,
           h.left = k.left, h.part = k.part, h.plain = k.plain
    PROVE  h = k
  BY DEF Held

(* One call of the engine, and what the processor does in it. *)
Effect(h, k) ==
  \/ Abstract!SENDAPP(h) /\ \E n \in 1..Abstract!Room(h) : k = Abstract!Acked(h, n)
  \/ ~h.closed /\ h.app /\ k = Abstract!Flushed(h)
  \/ Abstract!SENDREC(h) /\ \E n \in 1..h.left : k \in Abstract!Sent(h, n)
  \/ Abstract!RECVREC(h) /\ k \in Abstract!Received(h)
  \/ Abstract!RECVAPP(h) /\ \E n \in 1..h.plain : k = Abstract!ReadBytes(h, n)
  \/ ~h.closed /\ k \in Abstract!Closing(h)
  \/ ~h.app /\ k \in Abstract!Processed(h) \cup {Abstract!Failed(h)}

Moves(h, k) ==
  /\ k.cap \in IF h.app THEN {h.cap} ELSE 1..Cap
  /\ Effect(h, [k EXCEPT !.cap = h.cap])

LEMMA MovesStep ==
    ASSUME Moves(held, held') \/ held' = held
    PROVE  [Abstract!Step]_held
  BY DEF Moves, Effect, Abstract!Step, Abstract!Becomes

(* The abstraction, field by field. *)
LEMMA AbstractionIs ==
    ASSUME Fits, NEW x, Sound(x), x.frag <= Cap
    PROVE  LET a == Abstraction(x)
           IN  /\ a.shared = x.shared /\ a.cap = Span(x.out, x.frag, x.olen)
               /\ a.closed = ~Live(x) /\ a.app = (x.app = 1) /\ a.shut = x.shut
               /\ a.acc = Acc(x) /\ a.rec = Rec(x) /\ a.left = Left(x)
               /\ a.part = (x.ixa > 0 /\ x.ixa = x.ixb)
               /\ a.plain = (IF x.typeIn = "app" THEN x.ixb - x.ixa ELSE 0)
               /\ a \in Held /\ a.cap \in 1..Cap
               /\ a.left = 0 => a.rec = 0
               /\ a.left > 0 <=> Filled(x)
<1> DEFINE a == Abstraction(x)
<1>1. /\ x \in Engine /\ x.oxa \in Nat /\ x.oxb \in Nat /\ x.oxc \in Nat /\ x.ixa \in Nat /\ x.ixb \in Nat
      /\ x.ixa <= x.ixb /\ OutOK(x) /\ x.shared \in BOOLEAN /\ x.shut \in BOOLEAN
  BY EngineTypes DEF Sound, InOK, Engine
<1>2. Span(x.out, x.frag, x.olen) \in 1..Cap
  <2>1. Legal(x.out, x.frag, x.olen) /\ x.frag \in Nat
    BY <1>1, FragIs DEF Legal, Sound, Wide, Engine
  <2> QED BY <2>1, SpanIs, SpanHasRoom DEF Fits
<1>3. /\ a.shared = x.shared /\ a.cap = Span(x.out, x.frag, x.olen)
      /\ a.closed = ~Live(x) /\ a.app = (x.app = 1) /\ a.shut = x.shut
      /\ a.acc = Acc(x) /\ a.rec = Rec(x) /\ a.left = Left(x)
      /\ a.part = (x.ixa > 0 /\ x.ixa = x.ixb)
      /\ a.plain = (IF x.typeIn = "app" THEN x.ixb - x.ixa ELSE 0)
  BY DEF Abstraction, Span, Live, Acc, Rec, Left
<1>4. Acc(x) \in Nat /\ Left(x) \in Nat /\ (Left(x) > 0 <=> Filled(x)) /\ (~Filled(x) => Rec(x) = 0)
  <2>1. CASE Filled(x)
    BY <1>1, <2>1 DEF Fits, Header, Filled, Acc, Left, Sending, Least
  <2>2. CASE ~Filled(x)
    <3>1. Gath(x)
      BY <2>2, <1>1 DEF OutOK
    <3> QED BY <1>1, <2>2, <3>1 DEF Gath, Acc, Left, Rec, Sending
  <2> QED BY <2>1, <2>2
<1>5. Rec(x) \in Nat
  <2>1. x.load \in 0..MaxPlain
    BY <1>1 DEF Engine
  <2> QED BY <2>1 DEF Rec
<1>6. a \in Held
  <2>1. a = [ shared |-> a.shared, cap |-> a.cap, closed |-> a.closed, app |-> a.app, shut |-> a.shut,
              acc |-> a.acc, rec |-> a.rec, left |-> a.left, part |-> a.part, plain |-> a.plain ]
    BY DEF Abstraction
  <2>2. /\ a.shared \in BOOLEAN /\ a.cap \in Nat /\ a.closed \in BOOLEAN /\ a.app \in BOOLEAN
        /\ a.shut \in BOOLEAN /\ a.part \in BOOLEAN
    BY <1>1, <1>2, <1>3
  <2>3. a.acc \in Nat /\ a.rec \in Nat /\ a.left \in Nat /\ a.plain \in Nat
    BY <1>1, <1>3, <1>4, <1>5
  <2> HIDE DEF a
  <2> QED BY <2>1, <2>2, <2>3 DEF Held
<1> HIDE DEF a
<1>7. (a.left = 0 => a.rec = 0) /\ (a.left > 0 <=> Filled(x))
  BY <1>3, <1>4
<1> QED BY <1>2, <1>3, <1>6, <1>7 DEF a

---------------------------------------------------------------------------
(* Where the engine is, seen from where it last rested. *)

(* Registers x at place p come from b by what the processor did. *)
Reached(x, p, b) ==
  /\ ~b.closed /\ b.plain = 0 /\ b.shared = x.shared /\ (b.part <=> Parting(x)) /\ (b.shut => x.shut)
  /\ b.app => Span(x.out, x.frag, x.olen) = b.cap /\ p \in Later
  /\ b.left = 0 => b.rec = 0
  /\ \/ Shows(x, b.acc, b.rec, b.left)
     \/ p \in Last /\ b.acc > 0 /\ b.left = 0 /\ Shows(x, 0, b.acc, Parts)
     \/ b.acc = 0 /\ b.left = 0 /\ (b.shared => ~b.part) /\ Shows(x, 0, 0, Parts)

(* What a call makes of h before the processor is entered. *)
Base(h, b) ==
  \/ b = h /\ ~h.app
  \/ b = Abstract!SentPart(h, h.left) /\ ~h.app /\ Abstract!SENDREC(h)
  \/ b = [h EXCEPT !.part = FALSE] /\ Abstract!RECVREC(h)
  \/ b = [h EXCEPT !.plain = 0]

(* The processor ends the connection only where a call may. *)
MayFail(h, c) == ~h.app \/ Abstract!RECVREC(h) \/ (c.hin0 = 0 /\ ~c.cnr)

Stands(h, x, c) ==
  IF c.run = "off" THEN h = Abstraction(x)
  ELSE MayFail(h, c) /\ \E b \in Held : Base(h, b) /\ Reached(x, c.at, b)

Tracks(h, x, c) ==
  Live(x) => h \in Held /\ h.cap \in 1..Cap /\ ~h.closed /\ (h.left = 0 => h.rec = 0) /\ Stands(h, x, c)

LEMMA ReachedFollows ==
    ASSUME Fits, NEW x, NEW z, NEW p, NEW q, NEW b \in Held, Reached(x, p, b), Follows(x, z, p, q)
    PROVE  Reached(z, q, b)
<1>1. Parts \in Nat /\ Parts > 0 /\ b.acc \in Nat /\ b.left \in Nat /\ b.rec \in Nat
  BY DEF Fits, Header, Held
<1>2. /\ ~b.closed /\ b.plain = 0 /\ b.shared = z.shared /\ (b.part <=> Parting(z)) /\ (b.shut => z.shut)
      /\ b.app => Span(z.out, z.frag, z.olen) = b.cap /\ q \in Later
      /\ b.left = 0 => b.rec = 0
  BY DEF Reached, Follows, Rated
<1>3. CASE Shows(x, b.acc, b.rec, b.left)
  BY <1>1, <1>2, <1>3 DEF Reached, Follows, SameOut, Shows
<1>4. CASE p \in Last /\ b.acc > 0 /\ b.left = 0 /\ Shows(x, 0, b.acc, Parts)
  <2>1. q \in Last /\ SameOut(x, z)
    BY <1>1, <1>4 DEF Follows, Shows
  <2> QED BY <1>2, <1>4, <2>1 DEF Reached, SameOut, Shows
<1>5. CASE b.acc = 0 /\ b.left = 0 /\ (b.shared => ~b.part) /\ Shows(x, 0, 0, Parts)
  <2>1. SameOut(x, z)
    BY <1>1, <1>5 DEF Follows, Shows
  <2> QED BY <1>2, <1>5, <2>1 DEF Reached, SameOut, Shows
<1> QED BY <1>3, <1>4, <1>5 DEF Reached

LEMMA BaseIs ==
    ASSUME NEW h \in Held, ~h.closed, NEW b, Base(h, b)
    PROVE  /\ b \in Held /\ b.cap = h.cap /\ b.app = h.app
           /\ \A k \in Abstract!Processed(b) : Effect(h, k)
<1>1. CASE b = h /\ ~h.app
  BY <1>1 DEF Effect
<1>2. CASE b = Abstract!SentPart(h, h.left) /\ ~h.app /\ Abstract!SENDREC(h)
  <2>1. b = [h EXCEPT !.rec = 0, !.left = 0]
    BY <1>2 DEF Abstract!SentPart
  <2>2. b \in Held /\ b.cap = h.cap /\ b.app = h.app
    BY <2>1 DEF Held
  <2>3. h.left \in 1..h.left
    BY <1>2 DEF Held, Abstract!SENDREC
  <2>4. \A k \in Abstract!Processed(b) : k \in Abstract!Sent(h, h.left)
    BY <1>2 DEF Abstract!Sent
  <2> QED BY <1>2, <2>2, <2>3, <2>4 DEF Effect
<1>3. CASE b = [h EXCEPT !.part = FALSE] /\ Abstract!RECVREC(h)
  <2>1. b \in Held /\ b.cap = h.cap /\ b.app = h.app
    BY <1>3 DEF Held
  <2>2. \A k \in Abstract!Processed(b) : k \in Abstract!Received(h)
    BY <1>3 DEF Abstract!Received
  <2> QED BY <1>3, <2>1, <2>2 DEF Effect
<1>4. CASE b = [h EXCEPT !.plain = 0]
  <2>1. b \in Held /\ b.cap = h.cap /\ b.app = h.app
    BY <1>4 DEF Held
  <2>2. \A k \in Abstract!Processed(b) : k \in Abstract!Closing(h)
    BY <1>4 DEF Abstract!Closing
  <2> QED BY <2>1, <2>2 DEF Effect
<1> QED BY <1>1, <1>2, <1>3, <1>4 DEF Base

(* What halts, or flows again. *)
LEMMA HaltingIs ==
    ASSUME NEW c \in Held, NEW a \in Held, a.shared = c.shared, a.cap = c.cap, a.closed = c.closed,
           ~a.app, a.acc = c.acc, a.rec = c.rec, a.part = c.part, a.plain = c.plain,
           c.shut => a.shut, a.left \in Abstract!Messages(c)
    PROVE  a \in Abstract!Halted(c)
<1> DEFINE k == [c EXCEPT !.left = a.left, !.app = FALSE, !.shut = a.shut]
<1>1. /\ k \in Held /\ k.shared = c.shared /\ k.cap = c.cap /\ k.closed = c.closed /\ k.app = FALSE
      /\ k.shut = a.shut /\ k.acc = c.acc /\ k.rec = c.rec /\ k.left = a.left /\ k.part = c.part
      /\ k.plain = c.plain
  BY DEF Held
<1>2. a.app = FALSE /\ a.shut \in BOOLEAN /\ c.shut \in BOOLEAN
  BY DEF Held
<1>3. a = k
  <2> HIDE DEF k
  <2> QED BY <1>1, <1>2, HeldEqual
<1>4. a \in Abstract!Halting(c, a.shut)
  BY <1>3 DEF Abstract!Halting
<1>5. a.shut = c.shut \/ a.shut = TRUE
  BY <1>2
<1> HIDE DEF k
<1> QED BY <1>4, <1>5 DEF Abstract!Halted

LEMMA ResumedIs ==
    ASSUME NEW c \in Held, NEW a \in Held, a.shared = c.shared, a.cap = c.cap, a.closed = c.closed,
           a.app, a.acc = c.acc, a.rec = c.rec, a.part = c.part, a.plain = c.plain,
           ~c.shut, ~a.shut, a.left \in Abstract!Messages(c)
    PROVE  a \in Abstract!Resumed(c)
<1> DEFINE k == [c EXCEPT !.left = a.left, !.app = TRUE]
<1>1. /\ k \in Held /\ k.shared = c.shared /\ k.cap = c.cap /\ k.closed = c.closed /\ k.app = TRUE
      /\ k.shut = c.shut /\ k.acc = c.acc /\ k.rec = c.rec /\ k.left = a.left /\ k.part = c.part
      /\ k.plain = c.plain
  BY DEF Held
<1>2. a.app = TRUE /\ a.shut = c.shut
  BY DEF Held
<1>3. a = k
  <2> HIDE DEF k
  <2> QED BY <1>1, <1>2, HeldEqual
<1> QED BY <1>3 DEF Abstract!Resumed

(* Where the processor waits, it has done what the abstract one may. *)
LEMMA ReachedProcessed ==
    ASSUME Fits, NEW b \in Held, NEW z, Sound(z), z.frag <= Cap, Live(z), ~Pending(z),
           NEW p, Reached(z, p, b), (p = "idle") <=> (z.app = 1), z.app = 1 => ~z.shut,
           NEW a \in Held, a = [Abstraction(z) EXCEPT !.cap = b.cap]
    PROVE  a \in Abstract!Processed(b)
<1>1. /\ Parts \in Nat /\ Parts > 0 /\ b.acc \in Nat /\ b.left \in Nat /\ b.rec \in Nat
      /\ z.ixa \in Nat /\ z.ixb \in Nat /\ z.ixa = z.ixb
  BY EngineTypes DEF Fits, Header, Held, Sound, Pending
<1>2. /\ a.shared = z.shared /\ a.cap = b.cap /\ a.closed = ~Live(z) /\ a.app = (z.app = 1)
      /\ a.shut = z.shut /\ a.acc = Acc(z) /\ a.rec = Rec(z) /\ a.left = Left(z)
      /\ a.part = (z.ixa > 0 /\ z.ixa = z.ixb)
      /\ a.plain = (IF z.typeIn = "app" THEN z.ixb - z.ixa ELSE 0)
  BY AbstractionIs DEF Held
<1>3. /\ a.shared = b.shared /\ a.closed = b.closed /\ a.part = b.part /\ a.plain = b.plain
      /\ b.shut => a.shut
  BY <1>1, <1>2 DEF Reached, Parting, Pending, Held
<1>4. CASE \/ Shows(z, b.acc, b.rec, b.left)
           \/ b.acc = 0 /\ b.left = 0 /\ (b.shared => ~b.part) /\ Shows(z, 0, 0, Parts)
  <2>1. a.acc = b.acc /\ a.rec = b.rec /\ a.left \in Abstract!Messages(b)
    BY <1>1, <1>2, <1>4 DEF Shows, Reached, Abstract!Messages
  <2>2. CASE z.app = 1
    BY <1>2, <1>3, <2>1, <2>2, ResumedIs DEF Abstract!Processed
  <2>3. CASE z.app # 1
    BY <1>2, <1>3, <2>1, <2>3, HaltingIs DEF Abstract!Processed
  <2> QED BY <2>2, <2>3
<1>5. CASE p \in Last /\ b.acc > 0 /\ b.left = 0 /\ Shows(z, 0, b.acc, Parts)
  <2> DEFINE f == [b EXCEPT !.rec = b.acc, !.acc = 0, !.left = Parts]
  <2>1. /\ f \in Held /\ f.shared = b.shared /\ f.cap = b.cap /\ f.closed = b.closed /\ f.acc = 0
        /\ f.rec = b.acc /\ f.left = Parts /\ f.part = b.part /\ f.plain = b.plain /\ f.shut = b.shut
    BY <1>1 DEF Held
  <2>2. f = Abstract!Flushed(b)
    BY <1>5 DEF Abstract!Flushed
  <2> HIDE DEF f
  <2>3. a.left \in Abstract!Messages(f)
    BY <1>1, <1>2, <1>5, <2>1 DEF Shows, Abstract!Messages
  <2>4. ~a.app
    BY <1>2, <1>5 DEF Last
  <2>5. a \in Abstract!Halted(f)
    BY <1>2, <1>3, <1>5, <2>1, <2>3, <2>4, HaltingIs DEF Shows
  <2> QED BY <2>2, <2>5 DEF Abstract!Processed
<1> QED BY <1>4, <1>5 DEF Reached

LEMMA ArrivesMoves ==
    ASSUME Fits, NEW h \in Held, ~h.closed, NEW b \in Held, Base(h, b),
           NEW z, Sound(z), z.frag <= Cap, Live(z), ~Pending(z),
           NEW p, Reached(z, p, b), (p = "idle") <=> (z.app = 1), z.app = 1 => ~z.shut
    PROVE  Moves(h, Abstraction(z))
<1> DEFINE k == Abstraction(z)
           a == [k EXCEPT !.cap = h.cap]
<1>1. b.cap = h.cap /\ b.app = h.app /\ \A s \in Abstract!Processed(b) : Effect(h, s)
  BY BaseIs
<1>2. k \in Held /\ k.cap \in 1..Cap /\ k.cap = Span(z.out, z.frag, z.olen)
  BY AbstractionIs
<1>3. a \in Held
  BY <1>2 DEF Held
<1>4. k.cap \in IF h.app THEN {h.cap} ELSE 1..Cap
  BY <1>1, <1>2 DEF Reached
<1>5. a = [Abstraction(z) EXCEPT !.cap = b.cap]
  BY <1>1
<1>6. a \in Abstract!Processed(b)
  <2> HIDE DEF a, k
  <2> QED BY <1>3, <1>5, ReachedProcessed
<1>7. Effect(h, a)
  BY <1>1, <1>6
<1> QED BY <1>4, <1>7 DEF Moves

---------------------------------------------------------------------------
(* What one step does, seen from where the engine last rested: k is what   *)
(* is held then, z and c what the step leaves.                             *)
Seen(h, z, c) ==
  IF c.run # "off" THEN h ELSE IF ~Live(z) THEN Abstract!Failed(h) ELSE Abstraction(z)

Answers(h, z, c) ==
  Tracks(Seen(h, z, c), z, c) /\ (Moves(h, Seen(h, z, c)) \/ Seen(h, z, c) = h)

LEMMA EffectMoves ==
    ASSUME NEW h \in Held, h.cap \in 1..Cap, NEW k \in Held, k.cap = h.cap, Effect(h, k)
    PROVE  Moves(h, k)
<1>1. [k EXCEPT !.cap = h.cap] = k
  BY DEF Held
<1> QED BY <1>1 DEF Moves

(* The connection ends. *)
LEMMA FailMoves ==
    ASSUME NEW h \in Held, h.cap \in 1..Cap, ~h.closed, ~h.app \/ Abstract!RECVREC(h)
    PROVE  Moves(h, Abstract!Failed(h))
<1> DEFINE k == Abstract!Failed(h)
<1>1. k \in Held /\ k.cap = h.cap
  BY DEF Abstract!Failed, Held
<1>2. Effect(h, k)
  <2> HIDE DEF k
  <2>1. CASE ~h.app
    BY <2>1 DEF Effect, k
  <2>2. CASE Abstract!RECVREC(h)
    BY <2>2 DEF Effect, Abstract!Received, k
  <2> QED BY <2>1, <2>2
<1> QED BY <1>1, <1>2, EffectMoves

LEMMA FailAnswers ==
    ASSUME NEW h \in Held, h.cap \in 1..Cap, ~h.closed, ~h.app \/ Abstract!RECVREC(h),
           NEW z, ~Live(z), NEW c, c.run = "off"
    PROVE  Answers(h, z, c)
<1>1. Seen(h, z, c) = Abstract!Failed(h)
  BY DEF Seen
<1>2. Moves(h, Abstract!Failed(h))
  BY FailMoves
<1> QED BY <1>1, <1>2 DEF Answers, Tracks

(* The engine rests. *)
LEMMA RestAnswers ==
    ASSUME Fits, NEW h, NEW z, Sound(z), z.frag <= Cap, Live(z), NEW c, c.run = "off",
           Moves(h, Abstraction(z)) \/ Abstraction(z) = h
    PROVE  Answers(h, z, c)
<1>1. Seen(h, z, c) = Abstraction(z)
  BY DEF Seen
<1>2. Tracks(Abstraction(z), z, c)
  BY AbstractionIs DEF Tracks, Stands
<1> QED BY <1>1, <1>2 DEF Answers

LEMMA ProcessorAnswers ==
    ASSUME Running, cpu.run # "off", Tracks(held, e, cpu), NEW z, Sound(z), NEW c, Proceeds(z, c),
           c.run = "off" /\ Live(z) /\ z.app = 1 => ~z.shut
    PROVE  Answers(held, z, c)
<1>1. /\ held \in Held /\ held.cap \in 1..Cap /\ ~held.closed /\ (held.left = 0 => held.rec = 0)
      /\ MayFail(held, cpu)
  BY NowIs DEF Tracks, Stands
<1>2. PICK b \in Held : Base(held, b) /\ Reached(e, cpu.at, b)
  BY NowIs DEF Tracks, Stands
<1>3. CASE c.run = "off" /\ z = Fail(e) /\ (cpu.hin0 > 0 \/ cpu.cnr)
  <2>1. ~Live(z)
    BY <1>3, NowIs DEF Fail, Engine, Live
  <2>2. ~held.app \/ Abstract!RECVREC(held)
    BY <1>1, <1>3 DEF MayFail
  <2> QED BY <1>1, <1>3, <2>1, <2>2, FailAnswers
<1>4. CASE /\ Follows(e, z, cpu.at, c.at) /\ Live(z) /\ Fresh(z) /\ Keyed(z, c.at, c.half)
           /\ cpu.hin0 = 0 /\ ~cpu.cnr => c.hin0 = 0 /\ ~c.cnr
           /\ c.run = "off" => ~Pending(z)
  <2>1. Reached(z, c.at, b)
    BY <1>2, <1>4, ReachedFollows DEF Running
  <2>2. CASE c.run # "off"
    <3>1. Seen(held, z, c) = held
      BY <2>2 DEF Seen
    <3>2. MayFail(held, c)
      BY <1>1, <1>4 DEF MayFail
    <3> QED BY <1>1, <1>2, <2>1, <2>2, <3>1, <3>2 DEF Answers, Tracks, Stands
  <2>3. CASE c.run = "off"
    <3>1. ~Pending(z) /\ z.frag <= Cap /\ ((c.at = "idle") <=> (z.app = 1))
      BY <1>4, <2>3 DEF Fresh, Keyed
    <3>2. Moves(held, Abstraction(z))
      BY <1>1, <1>2, <1>4, <2>1, <2>3, <3>1, ArrivesMoves DEF Running
    <3> QED BY <1>4, <2>3, <3>1, <3>2, RestAnswers DEF Running
  <2> QED BY <2>2, <2>3
<1> QED BY <1>3, <1>4 DEF Proceeds

---------------------------------------------------------------------------
(* The calls, made where the engine rests. *)

Resting == Running /\ Ready /\ Tracks(held, e, cpu)

LEMMA RestingIs ==
    ASSUME Resting
    PROVE  /\ cpu.run = "off" /\ Live(e) /\ Fresh(e) /\ Keyed(e, cpu.at, cpu.half) /\ Sound(e) /\ e.frag <= Cap
           /\ held \in Held /\ held.cap \in 1..Cap /\ ~held.closed /\ held = Abstraction(e)
           /\ held.shared = e.shared /\ held.cap = Span(e.out, e.frag, e.olen)
           /\ held.app = (e.app = 1) /\ held.shut = e.shut
           /\ held.acc = Acc(e) /\ held.rec = Rec(e) /\ held.left = Left(e)
           /\ held.part = (e.ixa > 0 /\ ~Pending(e))
           /\ held.plain = (IF Pending(e) THEN e.ixb - e.ixa ELSE 0)
           /\ held.plain = (IF e.typeIn = "app" THEN e.ixb - e.ixa ELSE 0)
           /\ held.left = 0 => held.rec = 0
           /\ held.left > 0 <=> Filled(e)
           /\ Pending(e) => e.typeIn = "app" /\ e.app = 1 /\ e.ixc = 0
           /\ e.app = 1 => e.in # Clear /\ cpu.at = "idle" /\ e.typeOut = "app" /\ ~e.shut
           /\ e.app # 1 => cpu.at # "idle"
<1>1. /\ cpu.run = "off" /\ Live(e) /\ Sound(e) /\ Fresh(e) /\ Keyed(e, cpu.at, cpu.half) /\ e.frag <= Cap
      /\ e.ixa \in Nat /\ e.ixb \in Nat
  BY ReadyIs, SteadyIs DEF Resting, Running, Tuned, Fresh
<1>2. Pending(e) => e.typeIn = "app" /\ e.app = 1
  BY ReadyIs DEF Resting, Running
<1>3. /\ e.app = 1 => e.in # Clear /\ cpu.at = "idle" /\ e.typeOut = "app" /\ ~e.shut
      /\ e.app # 1 => cpu.at # "idle"
      /\ Pending(e) => e.ixc = 0
  BY <1>1, <1>2, ReadyIs DEF Resting, Running, Keyed
<1>4. /\ held \in Held /\ held.cap \in 1..Cap /\ ~held.closed /\ held = Abstraction(e)
      /\ held.left = 0 => held.rec = 0
  BY <1>1 DEF Resting, Tracks, Stands
<1>5. /\ held.shared = e.shared /\ held.cap = Span(e.out, e.frag, e.olen)
      /\ held.app = (e.app = 1) /\ held.shut = e.shut
      /\ held.acc = Acc(e) /\ held.rec = Rec(e) /\ held.left = Left(e)
      /\ held.part = (e.ixa > 0 /\ e.ixa = e.ixb)
      /\ held.plain = (IF e.typeIn = "app" THEN e.ixb - e.ixa ELSE 0)
      /\ held.left > 0 <=> Filled(e)
  BY <1>1, <1>4, AbstractionIs DEF Resting, Running
<1>6. held.plain = (IF Pending(e) THEN e.ixb - e.ixa ELSE 0)
  BY <1>1, <1>2, <1>5 DEF Pending
<1> QED BY <1>1, <1>2, <1>3, <1>4, <1>5, <1>6 DEF Pending

(* What a call leaves is what the abstract one leaves. *)
LEMMA CallRests ==
    ASSUME Resting, NEW z, Sound(z), Live(z), Rated(e, z), NEW k \in Held, k.cap = held.cap,
           ~k.closed, k.shared = z.shared, k.app = (z.app = 1), k.shut = z.shut,
           k.acc = Acc(z), k.rec = Rec(z), k.left = Left(z),
           k.part = (z.ixa > 0 /\ ~Pending(z)),
           k.plain = (IF z.typeIn = "app" THEN z.ixb - z.ixa ELSE 0),
           Effect(held, k) \/ k = held,
           NEW c, c.run = "off"
    PROVE  Answers(held, z, c)
<1>1. z.frag <= Cap /\ Fits /\ held.cap = Span(z.out, z.frag, z.olen) /\ held \in Held /\ held.cap \in 1..Cap
  BY RestingIs DEF Rated, Resting, Running
<1> DEFINE a == Abstraction(z)
<1>2. /\ a.shared = z.shared /\ a.cap = Span(z.out, z.frag, z.olen)
      /\ a.closed = ~Live(z) /\ a.app = (z.app = 1) /\ a.shut = z.shut
      /\ a.acc = Acc(z) /\ a.rec = Rec(z) /\ a.left = Left(z)
      /\ a.part = (z.ixa > 0 /\ z.ixa = z.ixb)
      /\ a.plain = (IF z.typeIn = "app" THEN z.ixb - z.ixa ELSE 0)
      /\ a \in Held
  BY <1>1, AbstractionIs
<1> HIDE DEF a
<1>3. a.closed = k.closed
  BY <1>2 DEF Held
<1>4. a = k
  BY <1>1, <1>2, <1>3, HeldEqual DEF Pending
<1>5. Moves(held, a) \/ a = held
  BY <1>1, <1>4, EffectMoves
<1> QED BY <1>1, <1>5, RestAnswers DEF a

(* A call enters the processor. *)
LEMMA CallEnters ==
    ASSUME Resting, NEW z, Live(z), NEW act, MayFail(held, Entered(z, act)),
           NEW b, Base(held, b), Reached(z, cpu.at, b)
    PROVE  Answers(held, z, Entered(z, act))
<1> DEFINE c == Entered(z, act)
<1>1. c.run # "off" /\ c.at = cpu.at
  BY EnteredIs DEF Resting, Running
<1>2. held \in Held /\ held.cap \in 1..Cap /\ ~held.closed /\ (held.left = 0 => held.rec = 0)
  BY RestingIs
<1>3. b \in Held
  BY <1>2, BaseIs
<1>4. Seen(held, z, c) = held
  BY <1>1 DEF Seen
<1> HIDE DEF c
<1>5. Stands(held, z, c)
  BY <1>1, <1>3 DEF Stands, c
<1> QED BY <1>2, <1>4, <1>5 DEF Answers, Tracks, c

(* What is to be shown of a call. *)
Answered == Tuned(e', cpu') /\ Answers(held, e', cpu')

LEMMA SendAppAnswers == ASSUME Resting, SendApp PROVE Answered
<1>1. SendAppLen(e) > 0
  BY DEF SendApp
<1>2. PICK n \in Pieces(SendAppLen(e)) : Rest(PldWritten(e, n, "app"))
  BY DEF SendApp
<1> DEFINE z == PldWritten(e, n, "app")
<1>3. e.app = 1 /\ SendAppLen(e) = SendPldLen(e) /\ CanOut(e)
  BY <1>1 DEF SendAppLen, SendPldLen
<1>4. Gath(e) /\ SendPldLen(e) = e.oxb - e.oxa /\ SendPldLen(e) \in Nat
  BY <1>1, <1>3, RestingIs, PldLens
<1>5. n \in Nat /\ n > 0 /\ n <= e.oxb - e.oxa
  BY <1>1, <1>2, <1>3, <1>4, PiecesAre
<1>6. Sound(e) /\ Sides(e) /\ (HasPld(e) => e.by = "app")
  BY RestingIs, ReadyIs, OwnIs DEF Resting, Running
<1>7. Inward(e, z) /\ CanOut(z) /\ z.app = 1 /\ Sound(z)
  BY <1>3, <1>4, <1>5, <1>6, PldWrittenInward, PldWrittenSound
<1>8. /\ Kept(e, z) /\ Shows(e, e.oxa - e.oxc, 0, 0)
      /\ IF n = e.oxb - e.oxa THEN Shows(z, 0, e.oxb - e.oxc, Parts)
         ELSE z.oxa = e.oxa + n /\ Shows(z, z.oxa - e.oxc, 0, 0)
  <2>1. Fits
    BY DEF Resting, Running
  <2> QED BY <1>4, <1>5, <1>6, <2>1, PldWrittenShows
<1>9. z.typeOut = e.typeOut
  BY <1>5, <1>6, PldWrittenRated DEF Sound
<1>10. e' = z /\ cpu' = cpu
  BY <1>2 DEF Rest
<1> HIDE DEF z
<1>11. Live(z) /\ Rated(e, z) /\ Fresh(z) /\ Keyed(z, cpu.at, cpu.half)
  BY <1>3, <1>7, <1>8, <1>9, RestingIs, KeptFresh, InwardKeyed DEF Kept, Rated, CanOut, Live
<1>12. Tuned(z, cpu)
  BY <1>11 DEF Tuned
<1>13. /\ e.oxa \in Nat /\ e.oxb \in Nat /\ e.oxc \in Nat /\ e.oxc <= e.oxa /\ e.oxa < e.oxb
       /\ Parts \in Nat /\ Parts > 0 /\ z.ixa = e.ixa /\ z.ixb = e.ixb /\ z.typeIn = e.typeIn
       /\ z.shared = e.shared /\ z.shut = e.shut
  BY <1>4, <1>6, <1>7, EngineTypes DEF Sound, Resting, Running, Fits, Header, Gath, Inward
<1>14. /\ held.acc = e.oxa - e.oxc /\ held.cap = e.oxb - e.oxc /\ held.left = 0 /\ held.rec = 0
       /\ held \in Held /\ ~held.closed /\ held.app /\ held.shared = e.shared
       /\ held.shared => held.plain = 0 /\ ~held.part
  <2>1. e.shared => ~Pending(e) /\ e.ixa = 0
    BY <1>3, OutAlone DEF Resting, Running
  <2>2. held.acc = e.oxa - e.oxc /\ held.left = 0 /\ held.rec = 0
    BY <1>8, RestingIs DEF Shows
  <2>3. held.cap = e.oxb - e.oxc
    BY <1>4, RestingIs DEF Fresh
  <2>4. held \in Held /\ ~held.closed /\ held.app /\ held.shared = e.shared
    BY <1>3, RestingIs
  <2>5. ASSUME e.shared PROVE held.plain = 0 /\ ~held.part
    <3>1. ~Pending(e) /\ ~(e.ixa > 0)
      BY <2>1, <2>5
    <3>2. held.plain = 0
      BY <3>1, RestingIs
    <3>3. held.part = (e.ixa > 0 /\ ~Pending(e))
      BY RestingIs
    <3> QED BY <3>1, <3>2, <3>3
  <2> QED BY <2>2, <2>3, <2>4, <2>5
<1>15. Abstract!SENDAPP(held) /\ n \in 1..Abstract!Room(held)
  BY <1>5, <1>13, <1>14 DEF Abstract!SENDAPP, Abstract!Room
<1> DEFINE more == [held EXCEPT !.acc = held.acc + n]
           full == [more EXCEPT !.rec = more.acc, !.acc = 0, !.left = Parts]
           k == Abstract!Acked(held, n)
<1>16. /\ more \in Held /\ more.acc = e.oxa - e.oxc + n /\ more.cap = held.cap /\ more.left = 0 /\ more.rec = 0
       /\ more.closed = held.closed /\ more.shared = held.shared /\ more.app = held.app
       /\ more.shut = held.shut /\ more.part = held.part /\ more.plain = held.plain
  <2>1. held.acc + n \in Nat /\ held.acc + n = e.oxa - e.oxc + n
    BY <1>5, <1>13, <1>14
  <2> QED BY <1>14, <2>1 DEF Held
<1>17. k = IF more.acc >= held.cap THEN Abstract!Flushed(more) ELSE more
  BY DEF Abstract!Acked
<1> HIDE DEF more, k
<1>18. /\ full \in Held /\ full.acc = 0 /\ full.cap = held.cap /\ full.left = Parts /\ full.rec = more.acc
       /\ full.closed = held.closed /\ full.shared = held.shared /\ full.app = held.app
       /\ full.shut = held.shut /\ full.part = held.part /\ full.plain = held.plain
  BY <1>13, <1>16 DEF Held
<1>19. Abstract!Flushed(more) = full
  BY <1>5, <1>13, <1>16 DEF Abstract!Flushed
<1> HIDE DEF full
<1>20. Effect(held, k)
  BY <1>15 DEF Effect, k
<1>21. /\ k \in Held /\ k.cap = held.cap /\ k.closed = held.closed /\ k.shared = held.shared
       /\ k.app = held.app /\ k.shut = held.shut /\ k.part = held.part /\ k.plain = held.plain
       /\ k.acc = Acc(z) /\ k.rec = Rec(z) /\ k.left = Left(z)
  <2>1. CASE n = e.oxb - e.oxa
    <3>1. more.acc >= held.cap /\ more.acc = e.oxb - e.oxc
      BY <1>13, <1>14, <1>16, <2>1
    <3>2. k = full
      BY <1>17, <1>19, <3>1
    <3> QED BY <1>8, <1>18, <2>1, <3>1, <3>2 DEF Shows
  <2>2. CASE n # e.oxb - e.oxa
    <3>1. ~(more.acc >= held.cap) /\ more.acc = e.oxa + n - e.oxc
      BY <1>5, <1>13, <1>14, <1>16, <2>2
    <3>2. k = more
      BY <1>17, <3>1
    <3>3. z.oxa = e.oxa + n /\ Shows(z, z.oxa - e.oxc, 0, 0)
      BY <1>8, <2>2
    <3>4. Acc(z) = more.acc /\ Rec(z) = 0 /\ Left(z) = 0
      <4>1. Acc(z) = z.oxa - e.oxc /\ Rec(z) = 0 /\ Left(z) = 0
        BY <3>3 DEF Shows
      <4>2. z.oxa = e.oxa + n
        BY <3>3
      <4>3. z.oxa - e.oxc = e.oxa + n - e.oxc
        BY <1>5, <1>13, <4>2
      <4> QED BY <3>1, <4>1, <4>3
    <3> QED BY <1>16, <3>2, <3>4
  <2> QED BY <2>1, <2>2
<1>22. Answers(held, z, cpu)
  <2>1. k.part = (z.ixa > 0 /\ ~Pending(z)) /\ k.plain = (IF z.typeIn = "app" THEN z.ixb - z.ixa ELSE 0)
    BY <1>13, <1>21, RestingIs DEF Pending
  <2>2. k.shared = z.shared /\ k.app = (z.app = 1) /\ k.shut = z.shut /\ ~k.closed
    BY <1>7, <1>13, <1>14, <1>21, RestingIs
  <2> QED BY <1>7, <1>11, <1>20, <1>21, <2>1, <2>2, RestingIs, CallRests
<1> QED BY <1>10, <1>12, <1>22 DEF Answered

LEMMA FlushAppAnswers == ASSUME Resting, FlushApp PROVE Answered
<1>1. e.app = 1
  BY DEF FlushApp
<1>2. PICK force \in {FALSE, Forces} : Rest(Seal(e, force))
  BY DEF FlushApp
<1>3. force = FALSE
  BY SteadyIs, EngineAssumption DEF Resting, Running
<1> DEFINE z == Seal(e, FALSE)
<1>4. e' = z /\ cpu' = cpu
  BY <1>2, <1>3 DEF Rest
<1>5. Sound(e) /\ Sound(z) /\ Inward(e, z) /\ z.io = e.io /\ z.app = e.app
  BY RestingIs, SealInward, SealKeeps
<1>6. z.typeOut = e.typeOut /\ Rated(e, z)
  BY <1>5, SealRated DEF Sound
<1>7. /\ held \in Held /\ ~held.closed /\ held.app /\ held.shared = e.shared /\ held.shut = e.shut
      /\ held.part = (e.ixa > 0 /\ ~Pending(e))
      /\ held.plain = (IF e.typeIn = "app" THEN e.ixb - e.ixa ELSE 0)
      /\ held.acc = Acc(e) /\ held.rec = Rec(e) /\ held.left = Left(e)
  BY <1>1, RestingIs
<1>8. CASE ~HasPld(e)
  <2>1. z = e
    BY <1>8 DEF Seal, HasPld
  <2> HIDE DEF z
  <2>2. Tuned(e, cpu)
    BY DEF Resting, Running
  <2>3. held = Abstraction(e) /\ cpu.run = "off" /\ e.frag <= Cap /\ Live(e)
    BY RestingIs
  <2>4. Answers(held, e, cpu)
    BY <1>5, <2>3, RestAnswers DEF Resting, Running
  <2> QED BY <1>4, <2>1, <2>2, <2>4 DEF Answered
<1>9. CASE HasPld(e)
  <2>1. e.by = "app" /\ Fits
    BY <1>9, RestingIs, OwnIs DEF Resting, Running
  <2>2. Kept(e, z) /\ Shows(z, 0, e.oxa - e.oxc, Parts) /\ Shows(e, e.oxa - e.oxc, 0, 0) /\ Gath(e)
    BY <1>5, <1>9, <2>1, SealShows
  <2> HIDE DEF z
  <2>3. Live(z) /\ Fresh(z) /\ Keyed(z, cpu.at, cpu.half)
    BY <1>5, <1>6, <2>2, RestingIs, KeptFresh, InwardKeyed DEF Live, Rated
  <2>4. e.oxa - e.oxc \in Nat /\ e.oxa - e.oxc > 0
    BY <1>9, <2>2, SteadyIs DEF Resting, Running, Gath, HasPld
  <2>5. held.acc = e.oxa - e.oxc /\ held.rec = 0 /\ held.left = 0
    BY <1>7, <2>2 DEF Shows
  <2> DEFINE k == [held EXCEPT !.rec = held.acc, !.acc = 0, !.left = Parts]
  <2>6. /\ k \in Held /\ k.acc = 0 /\ k.rec = held.acc /\ k.left = Parts /\ k.cap = held.cap
        /\ k.closed = held.closed /\ k.shared = held.shared /\ k.app = held.app
        /\ k.shut = held.shut /\ k.part = held.part /\ k.plain = held.plain
    <3>1. Parts \in Nat /\ held.acc \in Nat
      BY <1>7, <2>1 DEF Held, Fits, Header
    <3> QED BY <1>7, <3>1 DEF Held
  <2>7. Abstract!Flushed(held) = k
    BY <2>4, <2>5 DEF Abstract!Flushed
  <2> HIDE DEF k
  <2>8. Effect(held, k)
    BY <1>7, <2>7 DEF Effect
  <2>9. k.acc = Acc(z) /\ k.rec = Rec(z) /\ k.left = Left(z)
    BY <2>2, <2>5, <2>6 DEF Shows
  <2>10. k.part = (z.ixa > 0 /\ ~Pending(z)) /\ k.plain = (IF z.typeIn = "app" THEN z.ixb - z.ixa ELSE 0)
    BY <1>5, <1>7, <2>6 DEF Inward, Pending
  <2>11. k.shared = z.shared /\ k.app = (z.app = 1) /\ k.shut = z.shut /\ ~k.closed
    BY <1>1, <1>5, <1>7, <2>6 DEF Inward
  <2>12. Answers(held, z, cpu)
    BY <1>5, <1>6, <2>3, <2>6, <2>8, <2>9, <2>10, <2>11, RestingIs, CallRests
  <2> QED BY <1>4, <2>3, <2>12 DEF Answered, Tuned
<1> QED BY <1>8, <1>9

LEMMA SendRecAnswers == ASSUME Resting, SendRec PROVE Answered
<1>1. SendRecLen(e) > 0 /\ Sound(e) /\ Fits /\ Sides(e) /\ Live(e) /\ e.frag <= Cap
  BY RestingIs, ReadyIs DEF SendRec, Resting, Running
<1>2. PICK n \in Pieces(SendRecLen(e)) :
        LET x == RecWritten(e, n)
        IN  IF ~HasRec(x) /\ (x.typeOut # "app" \/ x.app # 1) THEN Enter(x, 0) ELSE Rest(x)
  BY DEF SendRec
<1>3. /\ SendRecLen(e) = e.oxc - e.oxa /\ e.oxc > e.oxa /\ SendRecLen(e) \in Nat
      /\ e.oxa \in Nat /\ e.oxc \in Nat
  BY <1>1, SteadyIs DEF SendRecLen, Resting, Running
<1>4. Filled(e)
  BY <1>1, <1>3, SteadyIs DEF Sound, OutOK, Gath, Resting, Running
<1>5. n \in Nat /\ n > 0 /\ n <= e.oxc - e.oxa
  BY <1>1, <1>2, <1>3, PiecesAre
<1> DEFINE z == RecWritten(e, n)
<1>6. /\ Inward(e, z) /\ z.app = e.app /\ z.typeOut = e.typeOut /\ (z.io = e.io \/ z.io = "inout") /\ Sound(z)
  BY <1>1, <1>4, <1>5, RecWrittenInward, RecWrittenSound
<1>7. /\ Rated(e, z) /\ Rec(e) = e.load /\ Fresh(z)
      /\ IF e.oxa + n = e.oxc
           THEN Shows(z, 0, 0, 0) /\ ~HasRec(z)
           ELSE Shows(z, 0, e.load, Least(Parts, e.oxc - (e.oxa + n))) /\ HasRec(z)
  BY <1>1, <1>4, <1>5, RecWrittenShows
<1>8. IF ~HasRec(z) /\ (z.typeOut # "app" \/ z.app # 1) THEN Enter(z, 0) ELSE Rest(z)
  BY <1>2
<1> HIDE DEF z
<1>9. /\ z.ixa = e.ixa /\ z.ixb = e.ixb /\ z.ixc = e.ixc /\ z.typeIn = e.typeIn /\ z.shared = e.shared
      /\ z.shut = e.shut
  BY <1>6 DEF Inward
<1>10. Live(z) /\ Keyed(z, cpu.at, cpu.half)
  BY <1>1, <1>6, <1>7, RestingIs, InwardKeyed DEF Live, Rated
<1>11. /\ held \in Held /\ ~held.closed /\ held.app = (e.app = 1) /\ held.shared = e.shared /\ held.shut = e.shut
       /\ held.part = (e.ixa > 0 /\ ~Pending(e))
       /\ held.plain = (IF e.typeIn = "app" THEN e.ixb - e.ixa ELSE 0)
       /\ held.rec = e.load /\ held.left > 0
  BY <1>4, <1>7, RestingIs
<1>12. held.acc = 0 /\ held.left = Least(Parts, e.oxc - e.oxa)
  <2>1. Sending(e)
    BY <1>4 DEF Filled, Sending
  <2> QED BY <2>1, RestingIs DEF Acc, Left
<1>13. Abstract!SENDREC(held) /\ held.left \in Nat
  BY <1>11 DEF Abstract!SENDREC, Held
<1>14. held.part = (z.ixa > 0 /\ ~Pending(z))
       /\ held.plain = (IF z.typeIn = "app" THEN z.ixb - z.ixa ELSE 0)
  BY <1>9, <1>11 DEF Pending
<1>15. held.shared = z.shared /\ held.app = (z.app = 1) /\ held.shut = z.shut
  BY <1>6, <1>9, <1>11
(* The record is sent in part. *)
<1>16. CASE e.oxa + n # e.oxc
  <2> DEFINE left == Least(Parts, e.oxc - (e.oxa + n))
  <2>1. Rest(z) /\ Shows(z, 0, e.load, left)
    BY <1>7, <1>8, <1>16
  <2>2. left \in Nat /\ left > 0 /\ left <= held.left
    BY <1>1, <1>3, <1>5, <1>12, <1>16 DEF Least, Fits, Header
  <2> HIDE DEF left
  <2> DEFINE k == IF left = held.left THEN held ELSE [held EXCEPT !.left = left]
  <2>3. /\ k \in Held /\ k.left = left /\ k.acc = held.acc /\ k.rec = held.rec /\ k.cap = held.cap
        /\ k.closed = held.closed /\ k.shared = held.shared /\ k.app = held.app
        /\ k.shut = held.shut /\ k.part = held.part /\ k.plain = held.plain
    BY <1>11, <2>2 DEF Held
  <2>4. left # held.left => Effect(held, k)
    <3> SUFFICES ASSUME left # held.left PROVE Effect(held, k)
      OBVIOUS
    <3> DEFINE m == held.left - left
    <3>1. m \in 1..held.left /\ m # held.left /\ held.left - m = left
      BY <1>13, <2>2
    <3> HIDE DEF m
    <3>2. k = Abstract!SentPart(held, m)
      BY <3>1 DEF Abstract!SentPart
    <3>3. k \in Abstract!Sent(held, m)
      BY <3>1, <3>2 DEF Abstract!Sent
    <3> HIDE DEF k
    <3> QED BY <1>13, <3>1, <3>3 DEF Effect
  <2>5. left = held.left => k = held
    OBVIOUS
  <2> HIDE DEF k
  <2>6. k.acc = Acc(z) /\ k.rec = Rec(z) /\ k.left = Left(z)
    BY <1>11, <1>12, <2>1, <2>3 DEF Shows
  <2>7. Answers(held, z, cpu)
    BY <1>6, <1>7, <1>10, <1>11, <1>14, <1>15, <2>3, <2>4, <2>5, <2>6, RestingIs, CallRests
  <2> QED BY <1>7, <1>10, <2>1, <2>7 DEF Answered, Tuned, Rest
(* All of it is sent. *)
<1>17. CASE e.oxa + n = e.oxc
  <2> DEFINE k == [held EXCEPT !.rec = 0, !.left = 0]
  <2>1. Shows(z, 0, 0, 0) /\ ~HasRec(z)
    BY <1>7, <1>17
  <2>2. /\ k \in Held /\ k.left = 0 /\ k.acc = held.acc /\ k.rec = 0 /\ k.cap = held.cap
        /\ k.closed = held.closed /\ k.shared = held.shared /\ k.app = held.app
        /\ k.shut = held.shut /\ k.part = held.part /\ k.plain = held.plain
    BY <1>11 DEF Held
  <2>3. k = Abstract!SentPart(held, held.left)
    BY DEF Abstract!SentPart
  <2> HIDE DEF k
  <2>4. held.left \in 1..held.left
    BY <1>11, <1>13
  <2>5. k \in Abstract!Sent(held, held.left)
    BY <2>3 DEF Abstract!Sent, Abstract!Processed
  <2>6. Effect(held, k)
    BY <1>13, <2>4, <2>5 DEF Effect
  <2>7. k.acc = Acc(z) /\ k.rec = Rec(z) /\ k.left = Left(z)
    BY <1>12, <2>1, <2>2 DEF Shows
  <2>8. CASE e.app = 1
    <3>1. Rest(z)
      BY <1>6, <1>8, <2>8, RestingIs
    <3>2. Answers(held, z, cpu)
      BY <1>6, <1>7, <1>10, <1>11, <1>14, <1>15, <2>2, <2>6, <2>7, RestingIs, CallRests
    <3> QED BY <1>7, <1>10, <3>1, <3>2 DEF Answered, Tuned, Rest
  <2>9. CASE e.app # 1
    <3> DEFINE c == Entered(z, 0)
    <3>1. e' = z /\ cpu' = c
      BY <1>6, <1>8, <2>1, <2>9 DEF Enter
    <3>2. ~held.app /\ MayFail(held, c)
      BY <1>11, <2>9 DEF MayFail
    <3>3. Base(held, k)
      BY <1>13, <2>3, <3>2 DEF Base
    <3>4. ~Pending(z)
      BY <1>9, <2>9, RestingIs DEF Pending
    <3>5. held.plain = 0 /\ (held.part <=> Parting(z))
      BY <2>9, <1>9, <3>4, RestingIs DEF Parting, Pending
    <3>6. Shows(z, k.acc, k.rec, k.left)
      BY <1>12, <2>1, <2>2
    <3>7. Reached(z, cpu.at, k)
      BY <1>11, <1>15, <2>2, <3>2, <3>5, <3>6 DEF Reached
    <3>8. Answers(held, z, c)
      BY <1>10, <3>2, <3>3, <3>7, CallEnters
    <3>9. c.at = cpu.at /\ c.half = cpu.half
      BY EnteredIs DEF Resting, Running
    <3> HIDE DEF c
    <3> QED BY <1>7, <1>10, <3>1, <3>8, <3>9 DEF Answered, Tuned
  <2> QED BY <2>8, <2>9
<1> QED BY <1>16, <1>17

LEMMA RecvAppAnswers == ASSUME Resting, RecvApp PROVE Answered
<1>1. RecvAppLen(e) > 0 /\ Ready /\ Steady
  BY DEF RecvApp, Resting, Running
<1>2. PICK n \in Pieces(RecvAppLen(e)) : Rest(PldRead(e, n))
  BY DEF RecvApp
<1>3. RecvAppLen(e) \in Nat
  BY <1>1, SteadyIs, PldLens DEF RecvAppLen
<1>4. n \in Nat /\ n > 0 /\ n <= RecvAppLen(e)
  BY <1>1, <1>2, <1>3, PiecesAre
<1>5. RecvAppLen(e) = e.ixb - e.ixa /\ e.typeIn = "app" /\ e.app = 1
  BY <1>1 DEF RecvAppLen, RecvPldLen
<1>6. Pending(e) /\ e.ixa \in Nat /\ e.ixb \in Nat /\ e \in Engine
  BY <1>1, <1>5, SteadyIs DEF Pending
<1> DEFINE z == PldRead(e, n)
           k == Abstract!ReadBytes(held, n)
<1>7. e' = z /\ cpu' = cpu
  BY <1>2 DEF Rest
<1>8. Sound(z)
  BY <1>1, <1>4, AppRead
<1>9. /\ Stays(e, z) /\ z.typeIn = e.typeIn /\ (Live(z) <=> Live(e))
      /\ IF e.ixa + n # e.ixb
           THEN z.ixa = e.ixa + n /\ z.ixb = e.ixb /\ z.ixc = e.ixc
           ELSE ~Pending(z) /\ (Parting(z) <=> e.ixc > 0)
  BY <1>4, <1>6, PldReadStays
<1> HIDE DEF z
<1>10. /\ held \in Held /\ ~held.closed /\ held.app = (e.app = 1) /\ held.shared = e.shared
       /\ held.shut = e.shut /\ held.plain = e.ixb - e.ixa /\ held.part = (e.ixa > 0 /\ ~Pending(e))
       /\ held.acc = Acc(e) /\ held.rec = Rec(e) /\ held.left = Left(e)
       /\ e.ixc = 0 /\ cpu.at = "idle" /\ e.in # Clear /\ e.typeOut = "app"
  BY <1>5, <1>6, RestingIs
<1>11. /\ k \in Held /\ k.plain = e.ixb - e.ixa - n /\ k.cap = held.cap /\ k.closed = held.closed
       /\ k.shared = held.shared /\ k.app = held.app /\ k.shut = held.shut /\ k.part = held.part
       /\ k.acc = held.acc /\ k.rec = held.rec /\ k.left = held.left
  <2>1. held.plain - n \in Nat /\ held.plain - n = e.ixb - e.ixa - n
    BY <1>3, <1>4, <1>5, <1>6, <1>10
  <2> QED BY <1>10, <2>1 DEF Abstract!ReadBytes, Held
<1>12. Effect(held, k)
  <2>1. n \in 1..held.plain
    BY <1>4, <1>5, <1>6, <1>10
  <2>2. Abstract!RECVAPP(held)
    BY <1>1, <1>5, <1>10 DEF Abstract!RECVAPP
  <2> QED BY <2>1, <2>2 DEF Effect
<1> HIDE DEF k
<1>13. (z.ixa > 0 /\ ~Pending(z)) = FALSE /\ z.ixb - z.ixa = e.ixb - e.ixa - n /\ (Pending(z) => z.ixc = 0)
  <2>1. z.ixa \in Nat /\ z.ixb \in Nat
    BY <1>8, EngineTypes DEF Sound
  <2>2. CASE e.ixa + n # e.ixb
    BY <1>4, <1>6, <1>9, <1>10, <2>2 DEF Pending
  <2>3. CASE e.ixa + n = e.ixb
    BY <1>4, <1>6, <1>9, <1>10, <2>1, <2>3 DEF Pending, Parting
  <2> QED BY <2>2, <2>3
<1>14. Shows(z, Acc(e), Rec(e), Left(e)) /\ Rated(e, z) /\ Fresh(z) /\ Live(z)
  BY <1>9, RestingIs, StaysIs
<1>15. Keyed(z, cpu.at, cpu.half)
  BY <1>5, <1>9, <1>10, <1>13 DEF Keyed, Stays
<1>16. k.part = (z.ixa > 0 /\ ~Pending(z)) /\ k.plain = (IF z.typeIn = "app" THEN z.ixb - z.ixa ELSE 0)
  <2>1. k.part = FALSE
    BY <1>6, <1>10, <1>11
  <2> QED BY <1>5, <1>9, <1>11, <1>13, <2>1
<1>17. k.shared = z.shared /\ k.app = (z.app = 1) /\ k.shut = z.shut /\ ~k.closed
  BY <1>9, <1>10, <1>11 DEF Stays
<1>18. k.acc = Acc(z) /\ k.rec = Rec(z) /\ k.left = Left(z)
  BY <1>10, <1>11, <1>14 DEF Shows
<1>19. Answers(held, z, cpu)
  BY <1>8, <1>11, <1>12, <1>14, <1>16, <1>17, <1>18, RestingIs, CallRests
<1> QED BY <1>7, <1>14, <1>15, <1>19 DEF Answered, Tuned

LEMMA CloseAnswers == ASSUME Resting, Close PROVE Answered
<1> DEFINE z == IF RecvAppLen(e) > 0 THEN PldRead(e, RecvAppLen(e)) ELSE e
           c == Entered(z, 1)
           b == [held EXCEPT !.plain = 0]
<1>1. e' = z /\ cpu' = c /\ Ready /\ Steady
  BY DEF Close, Enter, Resting, Running
<1>2. /\ held \in Held /\ ~held.closed /\ held.app = (e.app = 1) /\ held.shared = e.shared
      /\ held.cap = Span(e.out, e.frag, e.olen) /\ (held.left = 0 => held.rec = 0)
      /\ held.shut = e.shut /\ held.part = (e.ixa > 0 /\ ~Pending(e))
      /\ held.acc = Acc(e) /\ held.rec = Rec(e) /\ held.left = Left(e)
      /\ Keyed(e, cpu.at, cpu.half) /\ Fresh(e) /\ Live(e)
      /\ Pending(e) => e.typeIn = "app" /\ e.app = 1 /\ e.ixc = 0
      /\ e.app = 1 => cpu.at = "idle" /\ ~e.shut
  BY RestingIs
<1>3. /\ z \in Engine /\ Stays(e, z) /\ Live(z) /\ ~Pending(z) /\ (Parting(z) <=> held.part)
  <2>1. CASE Pending(e)
    <3> DEFINE n == e.ixb - e.ixa
    <3>1. RecvAppLen(e) = n /\ n > 0 /\ n \in Nat /\ e.ixa + n = e.ixb
      BY <1>1, <1>2, <2>1, SteadyIs DEF RecvAppLen
    <3>2. z = PldRead(e, n)
      BY <3>1
    <3> HIDE DEF n, z
    <3>3. Sound(z)
      BY <1>1, <3>1, <3>2, AppRead
    <3>4. Stays(e, z) /\ Live(z) /\ ~Pending(z) /\ (Parting(z) <=> e.ixc > 0)
      BY <1>1, <1>2, <3>1, <3>2, SteadyIs, PldReadStays
    <3>5. ~held.part
      BY <1>2, <2>1
    <3>6. ~(e.ixc > 0)
      BY <1>2, <2>1
    <3> QED BY <3>3, <3>4, <3>5, <3>6 DEF Sound
  <2>2. CASE ~Pending(e)
    <3>1. ~(RecvAppLen(e) > 0)
      BY <1>1, <2>2, SteadyIs DEF RecvAppLen, RecvPldLen, Pending
    <3>2. z = e
      BY <3>1
    <3> HIDE DEF z
    <3> QED BY <1>1, <1>2, <2>2, <3>2, SteadyIs DEF Stays, Rated, Parting
  <2> QED BY <2>1, <2>2
<1> HIDE DEF z
<1>4. /\ b \in Held /\ b.plain = 0 /\ b.cap = held.cap /\ b.closed = held.closed
      /\ b.shared = held.shared /\ b.app = held.app /\ b.shut = held.shut /\ b.part = held.part
      /\ b.acc = held.acc /\ b.rec = held.rec /\ b.left = held.left
  BY <1>2 DEF Held
<1>5. Base(held, b)
  BY DEF Base
<1> HIDE DEF b
<1>6. Shows(z, Acc(e), Rec(e), Left(e)) /\ Rated(e, z) /\ Fresh(z)
  BY <1>2, <1>3, StaysIs
<1>7. Reached(z, cpu.at, b)
  BY <1>2, <1>3, <1>4, <1>6 DEF Reached, Stays, Rated, Later
<1>8. c.at = cpu.at /\ c.half = cpu.half /\ c.cnr = cpu.cnr /\ c.hin0 = 0
  <2>1. RecvPldLen(z) = 0
    BY <1>3, EngineTypes DEF RecvPldLen, Pending
  <2> QED BY <1>1, <2>1, EnteredIs
<1>9. MayFail(held, c)
  BY <1>1, <1>2, <1>8, ReadyIs DEF MayFail
<1>10. Answers(held, z, c)
  BY <1>3, <1>5, <1>7, <1>9, CallEnters
<1>11. Keyed(z, cpu.at, cpu.half)
  BY <1>2, <1>3 DEF Keyed, Stays, Rated
<1> HIDE DEF c
<1> QED BY <1>1, <1>6, <1>8, <1>10, <1>11 DEF Answered, Tuned

LEMMA StaysTwice ==
    ASSUME NEW x, NEW y, NEW z, Stays(x, y), Stays(y, z)
    PROVE  Stays(x, z)
  BY DEF Stays, Rated

(* Where input may come. *)
LEMMA ComingIs ==
    ASSUME Resting, RecvRecLen(e) > 0
    PROVE  /\ Abstract!RECVREC(held) /\ ~Pending(e) /\ held.plain = 0 /\ Ready /\ Steady
           /\ held.part = (e.ixa > 0)
<1>1. Ready /\ Steady /\ Sound(e) /\ Fits
  BY RestingIs DEF Resting, Running
<1>2. CanIn(e) /\ ~Pending(e) /\ ~e.shut
  BY <1>1, TakingIs
<1>3. /\ ~held.closed /\ held.shut = e.shut /\ held.shared = e.shared /\ held.acc = Acc(e) /\ held.left = Left(e)
      /\ held.plain = (IF Pending(e) THEN e.ixb - e.ixa ELSE 0)
      /\ held.part = (e.ixa > 0 /\ ~Pending(e))
  BY RestingIs
<1>4. e.shared => held.acc = 0 /\ held.left = 0
  <2> SUFFICES ASSUME e.shared PROVE held.acc = 0 /\ held.left = 0
    OBVIOUS
  <2>1. e.oxa = e.oxc
    BY <1>1, <1>2, SteadyIs DEF Turn, CanIn
  <2>2. ~Filled(e) /\ e.oxa \in Nat /\ e.oxb \in Nat
    BY <1>1, <2>1, SteadyIs DEF Filled
  <2>3. e.oxa # e.oxb
    BY <1>1, <2>2 DEF Sound, OutOK, Gath
  <2> QED BY <1>3, <2>1, <2>2, <2>3 DEF Acc, Left, Sending
<1>5. held.plain = 0
  BY <1>2, <1>3
<1>6. held.part = (e.ixa > 0)
  BY <1>2, <1>3
<1>7. Abstract!RECVREC(held)
  BY <1>2, <1>3, <1>4, <1>5 DEF Abstract!RECVREC
<1> QED BY <1>1, <1>2, <1>5, <1>6, <1>7

LEMMA TakenAnswers ==
    ASSUME Resting, RecvRecLen(e) > 0, NEW z, Sound(z), Stays(e, z), Live(z), ~Pending(z), Rest(z)
    PROVE  Answered
<1> DEFINE part == z.ixa > 0
           k == [held EXCEPT !.part = part]
<1>1. /\ held \in Held /\ ~held.closed /\ held.app = (e.app = 1) /\ held.shared = e.shared
      /\ held.shut = e.shut /\ held.acc = Acc(e) /\ held.rec = Rec(e) /\ held.left = Left(e)
      /\ held.plain = 0 /\ Keyed(e, cpu.at, cpu.half) /\ Abstract!RECVREC(held)
  BY RestingIs, ComingIs
<1>2. z.ixa \in Nat /\ z.ixb \in Nat /\ z.ixa = z.ixb /\ part \in BOOLEAN
  BY EngineTypes DEF Sound, Pending
<1>3. /\ k \in Held /\ k.part = part /\ k.plain = 0 /\ k.cap = held.cap /\ k.closed = held.closed
      /\ k.shared = held.shared /\ k.app = held.app /\ k.shut = held.shut
      /\ k.acc = held.acc /\ k.rec = held.rec /\ k.left = held.left
  <2> HIDE DEF part
  <2> QED BY <1>1, <1>2 DEF Held
<1>4. Effect(held, k)
  <2>1. part = TRUE \/ part = FALSE
    BY <1>2
  <2>2. k \in {[held EXCEPT !.part = TRUE], [held EXCEPT !.part = FALSE]}
    BY <2>1
  <2>3. k \in Abstract!Received(held)
    <3> HIDE DEF k
    <3> QED BY <2>2 DEF Abstract!Received, Abstract!Processed
  <2> HIDE DEF k
  <2> QED BY <1>1, <2>3 DEF Effect
<1> HIDE DEF k
<1>5. Shows(z, Acc(e), Rec(e), Left(e)) /\ Rated(e, z) /\ Fresh(z)
  BY RestingIs, StaysIs
<1>6. k.acc = Acc(z) /\ k.rec = Rec(z) /\ k.left = Left(z)
  BY <1>1, <1>3, <1>5 DEF Shows
<1>7. k.part = (z.ixa > 0 /\ ~Pending(z)) /\ k.plain = (IF z.typeIn = "app" THEN z.ixb - z.ixa ELSE 0)
  BY <1>2, <1>3
<1>8. k.shared = z.shared /\ k.app = (z.app = 1) /\ k.shut = z.shut /\ ~k.closed
  BY <1>1, <1>3 DEF Stays
<1>9. Answers(held, z, cpu)
  BY <1>3, <1>4, <1>5, <1>6, <1>7, <1>8, RestingIs, CallRests
<1>10. Keyed(z, cpu.at, cpu.half)
  BY <1>1 DEF Keyed, Stays, Rated
<1> QED BY <1>5, <1>9, <1>10 DEF Answered, Tuned, Rest

(* Application data that is there to be read. *)
LEMMA PayloadAnswers ==
    ASSUME Resting, RecvRecLen(e) > 0, NEW z, Sound(z), Stays(e, z), Live(z), Pending(z), z.typeIn = "app",
           z.app = 1, z.ixc = 0, z.ixb - z.ixa <= Cap, Rest(z)
    PROVE  Answered
<1> DEFINE n == z.ixb - z.ixa
           k == [held EXCEPT !.part = FALSE, !.plain = n]
<1>1. /\ held \in Held /\ ~held.closed /\ held.app = (e.app = 1) /\ held.shared = e.shared
      /\ held.shut = e.shut /\ held.acc = Acc(e) /\ held.rec = Rec(e) /\ held.left = Left(e)
      /\ Keyed(e, cpu.at, cpu.half) /\ Abstract!RECVREC(held)
  BY RestingIs, ComingIs
<1>2. n \in Nat /\ n \in 1..Cap
  BY EngineTypes DEF Sound, InOK, Pending, Resting, Running, Fits
<1> HIDE DEF n
<1>3. /\ k \in Held /\ k.part = FALSE /\ k.plain = n /\ k.cap = held.cap /\ k.closed = held.closed
      /\ k.shared = held.shared /\ k.app = held.app /\ k.shut = held.shut
      /\ k.acc = held.acc /\ k.rec = held.rec /\ k.left = held.left
  BY <1>1, <1>2 DEF Held
<1>4. Effect(held, k)
  <2>1. held.app
    BY <1>1 DEF Stays
  <2>2. k \in Abstract!Received(held)
    BY <1>2, <2>1 DEF Abstract!Received
  <2> QED BY <1>1, <2>2 DEF Effect
<1> HIDE DEF k
<1>5. Shows(z, Acc(e), Rec(e), Left(e)) /\ Rated(e, z) /\ Fresh(z)
  BY RestingIs, StaysIs
<1>6. k.acc = Acc(z) /\ k.rec = Rec(z) /\ k.left = Left(z)
  BY <1>1, <1>3, <1>5 DEF Shows
<1>7. k.part = (z.ixa > 0 /\ ~Pending(z)) /\ k.plain = (IF z.typeIn = "app" THEN z.ixb - z.ixa ELSE 0)
  BY <1>3 DEF n
<1>8. k.shared = z.shared /\ k.app = (z.app = 1) /\ k.shut = z.shut /\ ~k.closed
  BY <1>1, <1>3 DEF Stays
<1>9. Answers(held, z, cpu)
  BY <1>3, <1>4, <1>5, <1>6, <1>7, <1>8, RestingIs, CallRests
<1>10. Keyed(z, cpu.at, cpu.half)
  BY <1>1 DEF Keyed, Stays, Rated
<1> QED BY <1>5, <1>9, <1>10 DEF Answered, Tuned, Rest

(* A record of the processor's. *)
LEMMA RecordAnswers ==
    ASSUME Resting, RecvRecLen(e) > 0, e.ixa >= Header, NEW z, Stays(e, z), Live(z), Pending(z),
           z.in # Clear => z.ixc = 0, z.ixc \in Nat, Enter(z, 0)
    PROVE  Answered
<1> DEFINE c == Entered(z, 0)
           b == IF z.ixc > 0 THEN held ELSE [held EXCEPT !.part = FALSE]
<1>1. /\ held \in Held /\ ~held.closed /\ held.app = (e.app = 1) /\ held.shared = e.shared
      /\ held.cap = Span(e.out, e.frag, e.olen) /\ (held.left = 0 => held.rec = 0)
      /\ held.shut = e.shut /\ held.acc = Acc(e) /\ held.rec = Rec(e) /\ held.left = Left(e)
      /\ held.plain = 0 /\ held.part = (e.ixa > 0)
      /\ Keyed(e, cpu.at, cpu.half) /\ Abstract!RECVREC(held)
      /\ e.app = 1 => e.in # Clear /\ cpu.at = "idle"
  BY RestingIs, ComingIs
<1>2. e' = z /\ cpu' = c
  BY DEF Enter
<1>3. /\ b \in Held /\ b.plain = 0 /\ b.cap = held.cap /\ b.closed = held.closed
      /\ b.shared = held.shared /\ b.app = held.app /\ b.shut = held.shut
      /\ b.acc = held.acc /\ b.rec = held.rec /\ b.left = held.left /\ (b.part <=> z.ixc > 0)
  <2>1. CASE z.ixc > 0
    <3>1. e.ixa > 0
      BY SteadyIs DEF Header, Resting, Running
    <3> QED BY <1>1, <2>1, <3>1
  <2>2. CASE ~(z.ixc > 0)
    <3> DEFINE y == [held EXCEPT !.part = FALSE]
    <3>1. b = y
      BY <2>2
    <3>2. /\ y \in Held /\ y.plain = held.plain /\ y.cap = held.cap /\ y.closed = held.closed
          /\ y.shared = held.shared /\ y.app = held.app /\ y.shut = held.shut
          /\ y.acc = held.acc /\ y.rec = held.rec /\ y.left = held.left /\ y.part = FALSE
      BY <1>1 DEF Held
    <3> HIDE DEF y, b
    <3> QED BY <1>1, <2>2, <3>1, <3>2
  <2> QED BY <2>1, <2>2
<1>4. Base(held, b)
  <2>1. z.ixc > 0 => e.in = Clear
    BY DEF Stays
  <2>2. e.in = Clear => ~held.app
    BY <1>1
  <2> QED BY <1>1, <2>1, <2>2 DEF Base
<1> HIDE DEF b
<1>5. Shows(z, Acc(e), Rec(e), Left(e)) /\ Rated(e, z) /\ Fresh(z)
  BY RestingIs, StaysIs
<1>6. Reached(z, cpu.at, b)
  BY <1>1, <1>3, <1>5 DEF Reached, Stays, Rated, Later, Parting
<1>7. MayFail(held, c)
  BY <1>1 DEF MayFail
<1>8. Answers(held, z, c)
  BY <1>4, <1>6, <1>7, CallEnters
<1>9. c.at = cpu.at /\ c.half = cpu.half
  BY EnteredIs DEF Resting, Running
<1>10. Keyed(z, cpu.at, cpu.half)
  BY <1>1 DEF Keyed, Stays, Rated
<1> HIDE DEF c
<1> QED BY <1>2, <1>5, <1>8, <1>9, <1>10 DEF Answered, Tuned

(* A record that is refused. *)
LEMMA RefusedAnswers ==
    ASSUME Resting, RecvRecLen(e) > 0, NEW z \in Engine, Rest(Fail(z))
    PROVE  Answered
<1>1. ~Live(Fail(z))
  BY DEF Fail, Engine, Live
<1>2. e' = Fail(z) /\ cpu' = cpu
  BY DEF Rest
<1>3. Answers(held, Fail(z), cpu)
  BY <1>1, RestingIs, ComingIs, FailAnswers
<1> QED BY <1>1, <1>2, <1>3 DEF Answered, Tuned

LEMMA DispatchAnswers ==
    ASSUME Resting, RecvRecLen(e) > 0, e.ixa >= Header, NEW z, Sound(z), Stays(e, z), Live(z),
           z.in # Clear => z.ixc = 0, z.app = 1 => z.ixb - z.ixa <= Cap, Dispatch(z)
    PROVE  Answered
<1>1. z \in Engine /\ z.ixa \in Nat /\ z.ixb \in Nat /\ z.ixc \in Nat /\ z.ixa <= z.ixb
  BY EngineTypes DEF Sound, InOK
<1>2. CASE ~Pending(z)
  <2>1. Rest(ReadyIn(z))
    BY <1>2 DEF Dispatch, Pending
  <2>2. Stays(z, ReadyIn(z)) /\ ~Pending(ReadyIn(z)) /\ Live(ReadyIn(z)) /\ Sound(ReadyIn(z))
    BY <1>1, ReadyInStays, ReadyInSound
  <2>3. Stays(e, ReadyIn(z))
    BY <2>2, StaysTwice
  <2> QED BY <2>1, <2>2, <2>3, TakenAnswers
<1>3. CASE Pending(z) /\ z.typeIn # "app"
  <2>1. Enter(z, 0)
    BY <1>3 DEF Dispatch, Pending
  <2> QED BY <1>1, <1>3, <2>1, RecordAnswers
<1>4. CASE Pending(z) /\ z.typeIn = "app" /\ z.app = 1
  <2>1. Rest(z)
    BY <1>4 DEF Dispatch, Pending
  <2>2. z.ixc = 0
    BY <1>4, RestingIs DEF Stays
  <2> QED BY <1>4, <2>1, <2>2, PayloadAnswers
<1>5. CASE Pending(z) /\ z.typeIn = "app" /\ z.app = 2
  <2> DEFINE n == z.ixb - z.ixa
             r == PldRead(z, n)
  <2>1. Rest(r)
    BY <1>5 DEF Dispatch, Pending
  <2>2. n \in Nat /\ n > 0 /\ n <= z.ixb - z.ixa /\ z.ixa + n = z.ixb
    BY <1>1, <1>5 DEF Pending
  <2> HIDE DEF n
  <2>3. Sound(r) /\ Stays(z, r) /\ Live(r) /\ ~Pending(r)
    BY <1>1, <2>2, PldReadSound, PldReadStays
  <2> HIDE DEF r
  <2>4. Stays(e, r)
    BY <2>3, StaysTwice
  <2> QED BY <2>1, <2>3, <2>4, TakenAnswers
<1>6. CASE Pending(z) /\ z.typeIn = "app" /\ z.app # 1 /\ z.app # 2
  <2>1. Rest(Fail(z))
    BY <1>6 DEF Dispatch, Pending
  <2> QED BY <1>1, <2>1, RefusedAnswers
<1> QED BY <1>2, <1>3, <1>4, <1>5, <1>6

LEMMA GetPartOfHeaderAnswers == ASSUME Resting, GetPartOfHeader PROVE Answered
<1>1. RecvRecLen(e) > 0 /\ Ready /\ Steady /\ Sound(e) /\ Live(e) /\ e \in Engine
  BY RestingIs DEF GetPartOfHeader, Resting, Running, Sound
<1>2. PICK n \in Pieces(RecvRecLen(e)) : Rest(Received(n))
  BY DEF GetPartOfHeader
<1>3. n \in Nat /\ n <= e.ixc /\ e.ixa + n <= e.ilen /\ e.ixa = e.ixb
  <2>1. n \in Nat /\ n > 0 /\ n <= RecvRecLen(e)
    BY <1>1, <1>2, TakingIs, PiecesAre
  <2> QED BY <1>1, <2>1, RecvRecIs
<1> DEFINE z == Received(n)
<1>4. Sound(z) /\ Stays(e, z) /\ Live(z) /\ z.ixa = z.ixb
  BY <1>1, <1>3, ReceivedSound, ReceivedStays
<1>5. Rest(z)
  BY <1>2
<1> HIDE DEF z
<1> QED BY <1>1, <1>4, <1>5, TakenAnswers DEF Pending

LEMMA GetHeaderAnswers == ASSUME Resting, GetHeader PROVE Answered
<1>1. RecvRecLen(e) > 0 /\ Ready /\ Steady /\ Sound(e) /\ Live(e) /\ e \in Engine
  BY RestingIs DEF GetHeader, Resting, Running, Sound
<1> DEFINE k == Header - e.ixa
           y == Received(k)
<1>2. PICK type \in RecordTypes, len \in InLens :
        LET rlen == Announced(type, len)
            x    == [y EXCEPT !.typeIn = type]
        IN  Rest(IF \/ ~CheckLength(e.in, rlen)
                    \/ e.in # Clear /\ rlen > e.ilen - Header THEN Fail(x)
                 ELSE IF rlen = 0 THEN ReadyIn(x)
                 ELSE [x EXCEPT !.ixa = Header, !.ixb = Header, !.ixc = rlen])
  BY DEF GetHeader
<1> DEFINE rlen == Announced(type, len)
           x == [y EXCEPT !.typeIn = type]
           g == [x EXCEPT !.ixa = Header, !.ixb = Header, !.ixc = rlen]
<1>3. k \in Nat /\ k <= e.ixc /\ e.ixa = e.ixb /\ e.ixa + k <= e.ilen
  BY <1>1, RecvRecIs DEF Header, GetHeader
<1>4. y \in Engine /\ Stays(e, y) /\ Live(y)
  BY <1>1, <1>3, ReceivedSound, ReceivedStays DEF Sound
<1>5. \/ Rest(Fail(x)) \/ Rest(ReadyIn(x)) \/ Rest(g)
  BY <1>2
<1>6. Sound(e')
  <2>1. Inv'
    BY <1>1, SteadyIs, CallKeeps DEF Call
  <2> QED BY <2>1 DEF Inv
<1> HIDE DEF y, rlen, k
<1>7. x \in Engine /\ Stays(y, x) /\ x.io = y.io
  BY <1>4 DEF Engine, Stays, Rated
<1>8. Stays(e, x) /\ Live(x)
  BY <1>4, <1>7, StaysTwice DEF Live
<1>9. CASE Rest(Fail(x))
  <2> HIDE DEF x
  <2> QED BY <1>1, <1>7, <1>9, RefusedAnswers
<1>10. CASE Rest(ReadyIn(x))
  <2> HIDE DEF x
  <2> DEFINE z == ReadyIn(x)
  <2>1. Stays(x, z) /\ ~Pending(z) /\ Live(z)
    BY <1>7, <1>8, ReadyInStays
  <2>2. Rest(z) /\ Sound(z)
    BY <1>6, <1>10 DEF Rest
  <2> HIDE DEF z
  <2> QED BY <1>1, <1>8, <2>1, <2>2, StaysTwice, TakenAnswers
<1>11. CASE Rest(g)
  <2>1. Stays(x, g) /\ g.ixa = g.ixb /\ g.io = x.io
    <3> HIDE DEF x
    <3> QED BY <1>7 DEF Engine, Stays, Rated
  <2>2. Sound(g)
    BY <1>6, <1>11 DEF Rest
  <2> HIDE DEF g, x
  <2> QED BY <1>1, <1>8, <1>11, <2>1, <2>2, StaysTwice, TakenAnswers DEF Pending, Live
<1> QED BY <1>5, <1>9, <1>10, <1>11

LEMMA GetBodyAnswers == ASSUME Resting, GetBody PROVE Answered
<1>1. RecvRecLen(e) > 0 /\ e.ixa >= Header /\ Ready /\ Steady /\ Sound(e) /\ Live(e) /\ e \in Engine
  BY RestingIs DEF GetBody, Resting, Running, Sound
<1>2. PICK n \in Pieces(RecvRecLen(e)) :
        LET x == Received(n)
        IN  IF e.in = Clear THEN Dispatch([x EXCEPT !.ixa = Header])
            ELSE IF x.ixc > 0 THEN Rest(x)
            ELSE \E len \in InLens :
                   /\ Announced(e.typeIn, len) = x.ixa - Header
                   /\ Dispatch([x EXCEPT !.ixa = Header + Before(e.in),
                                         !.ixb = Header + Before(e.in) + len])
  BY DEF GetBody
<1> DEFINE x == Received(n)
<1>3. n \in Nat /\ n > 0 /\ n <= e.ixc /\ e.ixa = e.ixb /\ e.ixa + n <= e.ilen
  <2>1. n \in Nat /\ n > 0 /\ n <= RecvRecLen(e)
    BY <1>1, <1>2, RecvRecIs, PiecesAre
  <2> QED BY <1>1, <2>1, RecvRecIs
<1>4. /\ Sound(x) /\ KeepsOut(e, x) /\ x.ilen = e.ilen /\ x.ixa = e.ixa + n /\ x.ixb = e.ixa + n
      /\ x.ixc = e.ixc - n /\ Stays(e, x) /\ Live(x)
  BY <1>1, <1>3, ReceivedSound, ReceivedStays
<1>5. \/ e.in = Clear /\ Dispatch([x EXCEPT !.ixa = Header])
      \/ e.in # Clear /\ x.ixc > 0 /\ Rest(x)
      \/ e.in # Clear /\ ~(x.ixc > 0) /\ \E len \in InLens :
           /\ Announced(e.typeIn, len) = x.ixa - Header
           /\ Dispatch([x EXCEPT !.ixa = Header + Before(e.in), !.ixb = Header + Before(e.in) + len])
  BY <1>2
<1> HIDE DEF x
<1>6. /\ x \in Engine /\ x.ixa \in Nat /\ x.ixc \in Nat /\ Before(e.in) \in Nat /\ e.ixa \in Nat
      /\ e.ilen \in Nat /\ x.ilen \in Nat
  BY <1>1, <1>4, EngineTypes, StartIs DEF Sound
(* Wherever the payload lies. *)
<1>7. ASSUME NEW a \in Nat, NEW b \in Nat, Header <= a, a <= b, b <= x.ilen, e.in # Clear => x.ixc = 0,
             e.in # Clear => b - a <= Cap, Dispatch([x EXCEPT !.ixa = a, !.ixb = b])
      PROVE  Answered
  <2> DEFINE z == [x EXCEPT !.ixa = a, !.ixb = b]
  <2>1. Dispatch(z)
    BY <1>7
  <2>2. z \in Engine
    BY <1>6 DEF Engine
  <2>3. /\ z.ixa = a /\ z.ixb = b /\ z.ixc = x.ixc /\ z.ilen = x.ilen /\ z.olen = x.olen
        /\ z.frag = x.frag /\ z.out = x.out /\ z.io = x.io /\ KeepsOut(x, z) /\ Stays(x, z)
    BY <1>6 DEF Engine, KeepsOut, Stays, Rated
  <2> HIDE DEF z
  <2>4. InOK(z)
    BY <1>7, <2>3 DEF InOK, Header
  <2>5. Sound(z)
    BY <1>4, <2>2, <2>3, <2>4, InputSound
  <2>6. Stays(e, z) /\ Live(z) /\ z.in = e.in /\ z.app = e.app
    BY <1>4, <2>3, StaysTwice DEF Live, Stays
  <2>7. z.in # Clear => z.ixc = 0
    BY <1>7, <2>3, <2>6
  <2>8. z.app = 1 => z.ixb - z.ixa <= Cap
    BY <1>7, <2>3, <2>6, RestingIs
  <2> QED BY <1>1, <2>1, <2>5, <2>6, <2>7, <2>8, DispatchAnswers
<1>8. CASE e.in = Clear /\ Dispatch([x EXCEPT !.ixa = Header])
  <2>1. [x EXCEPT !.ixa = Header] = [x EXCEPT !.ixa = Header, !.ixb = x.ixb]
    BY <1>6 DEF Engine
  <2>2. /\ Header \in Nat /\ x.ixb \in Nat /\ Header <= Header /\ Header <= x.ixb /\ x.ixb <= x.ilen
    BY <1>1, <1>3, <1>4, <1>6 DEF Header
  <2>3. Dispatch([x EXCEPT !.ixa = Header, !.ixb = x.ixb])
    BY <1>8, <2>1
  <2> QED BY <1>7, <1>8, <2>2, <2>3
<1>9. CASE e.in # Clear /\ x.ixc > 0 /\ Rest(x)
  BY <1>1, <1>4, <1>9, TakenAnswers DEF Pending
<1>10. ASSUME e.in # Clear, ~(x.ixc > 0), NEW len \in InLens, Announced(e.typeIn, len) = x.ixa - Header,
              Dispatch([x EXCEPT !.ixa = Header + Before(e.in), !.ixb = Header + Before(e.in) + len])
       PROVE  Answered
  <2> DEFINE a == Header + Before(e.in)
             b == Header + Before(e.in) + len
  <2>1. len \in Nat /\ Before(e.in) + len <= x.ixa - Header
    BY <1>1, <1>10, AnnouncedIs
  <2>2. len <= Cap /\ Cap \in Nat
    BY <1>10 DEF Resting, Running, Fits
  <2>3. /\ a \in Nat /\ b \in Nat /\ Header <= a /\ a <= b /\ b <= x.ilen /\ x.ixc = 0 /\ b - a <= Cap
    BY <1>3, <1>4, <1>6, <1>10, <2>1, <2>2 DEF Header
  <2>4. Dispatch([x EXCEPT !.ixa = a, !.ixb = b])
    BY <1>10
  <2> HIDE DEF a, b
  <2> QED BY <1>7, <2>3, <2>4
<1> QED BY <1>5, <1>8, <1>9, <1>10

LEMMA CallAnswers == ASSUME Resting, Call PROVE Answered
<1>1. ~Renegotiate
  BY SteadyIs DEF Renegotiate, Resting, Running
<1> QED BY <1>1, SendAppAnswers, FlushAppAnswers, SendRecAnswers, RecvAppAnswers,
           GetPartOfHeaderAnswers, GetHeaderAnswers, GetBodyAnswers, CloseAnswers DEF Call

---------------------------------------------------------------------------
(* The whole: a step, and the beginning. *)

Refining == Fits /\ Steady /\ Tuned(e, cpu) /\ Tracks(held, e, cpu)

LEMMA StepAnswers ==
    ASSUME Refining, Next, Steady'
    PROVE  Answered
<1>1. CASE Processor
  <2>1. cpu.run # "off"
    <3>1. CASE \/ Resume \/ BeginClose \/ WarningAlert \/ FatalAlert \/ CloseAlert \/ WaitForClose
      BY <3>1 DEF Resume, BeginClose, WarningAlert, FatalAlert, CloseAlert, WaitForClose
    <3>2. CASE \/ Wait \/ Unexpected \/ ReadOn \/ ReadFlight
      BY <3>2 DEF Wait, Unexpected, ReadOn, Reading, ReadFlight, On
    <3>3. CASE \/ ReadFragLength \/ Write \/ WriteFlight \/ ReadCCS \/ ReadFinished
      <4>1. (Write \/ WriteFlight) => On("write")
        BY DEF Write, WriteFlight
      <4>2. ReadFragLength => On("read")
        BY DEF ReadFragLength
      <4>3. ReadCCS => On("ccs")
        BY DEF ReadCCS
      <4>4. ReadFinished => On("rfin")
        BY DEF ReadFinished
      <4> QED BY <3>3, <4>1, <4>2, <4>3, <4>4 DEF On
    <3>4. CASE \/ WriteCCS \/ WriteFinished \/ ReadRequest \/ Refuse \/ SendRefusal \/ SendClose \/ CloseEnds
      BY <3>4 DEF WriteCCS, WriteFinished, ReadRequest, Refuse, SendRefusal, SendClose, CloseEnds, On
    <3>5. ~Again
      BY SteadyIs DEF Again, Refining
    <3> QED BY <1>1, <3>1, <3>2, <3>3, <3>4, <3>5 DEF Processor
  <2>2. Running
    BY DEF Refining, Running
  <2>3. Proceeds(e', cpu')
    BY <1>1, <2>2, ProcessorProceeds
  <2>4. Sound(e') /\ (cpu'.run = "off" /\ Live(e') /\ e'.app = 1 => ~e'.shut)
    BY DEF Steady, Inv, Lively, Ended, Live
  <2>5. Answers(held, e', cpu')
    BY <2>1, <2>2, <2>3, <2>4, ProcessorAnswers DEF Refining
  <2>6. Tuned(e', cpu')
    BY <2>2, <2>3, NowIs, <2>1 DEF Proceeds, Tuned, Fail, Live, Engine
  <2> QED BY <2>5, <2>6 DEF Answered
<1>2. CASE Call
  <2>1. Ready
    BY <1>2 DEF Call, SendApp, FlushApp, SendRec, RecvApp, GetPartOfHeader, GetHeader, GetBody,
                Close, Renegotiate
  <2> QED BY <1>2, <2>1, CallAnswers DEF Resting, Running, Refining
<1> QED BY <1>1, <1>2 DEF Next

LEMMA InitTracks ==
    ASSUME Fits, RInit
    PROVE  Tuned(e, cpu) /\ Tracks(held, e, cpu) /\ Abstract!EngineInit
<1>1. Init /\ held = NoRest(e)
  BY DEF RInit
<1>2. PICK b \in Buffers : e = New(b)
  BY <1>1 DEF Init
<1>3. /\ cpu.run = "on" /\ cpu.half = FALSE /\ cpu.at \in {"write", "read"}
  BY <1>1 DEF Init
<1>4. Sound(e) /\ Gath(e) /\ e.oxa = e.oxc /\ Live(e) /\ e.app = 0
  BY <1>2, NewSound DEF Live
<1>5. /\ e.ixa = 0 /\ e.ixb = 0 /\ e.shut = FALSE /\ e.typeOut = "hs" /\ e.shared = b.shared /\ e.frag = b.frag
      /\ e.oxb - e.oxc = Span(e.out, e.frag, e.olen)
  BY <1>2 DEF New, ReadyOut, Span
<1>6. e.frag \in Nat /\ e.frag > 0 /\ e.frag <= Cap /\ e.shared \in BOOLEAN /\ e.frag \in 1..Cap
  BY <1>4, <1>5, EngineTypes DEF Fits, Sound, Engine
<1>7. ~Pending(e) /\ ~Parting(e)
  BY <1>5 DEF Pending, Parting
<1>8. Tuned(e, cpu)
  BY <1>3, <1>4, <1>5, <1>6, <1>7 DEF Tuned, Fresh, Keyed
<1>9. Shows(e, 0, 0, 0)
  <2>1. e.oxa # e.oxb
    BY <1>4, EngineTypes DEF Gath, Sound
  <2>2. e.oxa - e.oxc = 0
    BY <1>4, EngineTypes DEF Sound
  <2> QED BY <2>1, <2>2 DEF Shows, Acc, Rec, Left, Sending
<1>10. /\ held \in Held /\ held.shared = e.shared /\ held.cap = e.frag /\ held.closed = FALSE /\ held.app = FALSE
       /\ held.shut = FALSE /\ held.acc = 0 /\ held.rec = 0 /\ held.left = 0 /\ held.part = FALSE
       /\ held.plain = 0
  BY <1>1, <1>6 DEF NoRest, Held
<1>11. Base(held, held) /\ Reached(e, cpu.at, held) /\ MayFail(held, cpu)
  BY <1>7, <1>9, <1>10 DEF Base, Reached, MayFail
<1>12. Tracks(held, e, cpu)
  BY <1>3, <1>6, <1>10, <1>11 DEF Tracks, Stands
<1>13. Abstract!EngineInit
  <2> DEFINE n == Abstract!NewEngine(e.shared)
             r == [n EXCEPT !.app = FALSE, !.cap = e.frag]
  <2>1. n = [shared |-> e.shared, cap |-> Cap, closed |-> FALSE, app |-> TRUE, shut |-> FALSE,
             acc |-> 0, rec |-> 0, left |-> 0, part |-> FALSE, plain |-> 0]
    BY DEF Abstract!NewEngine
  <2>2. /\ n \in Held /\ n.shared = e.shared /\ n.closed = FALSE /\ n.shut = FALSE /\ n.acc = 0
        /\ n.rec = 0 /\ n.left = 0 /\ n.part = FALSE /\ n.plain = 0
    <3> HIDE DEF n
    <3>1. Cap \in Nat
      BY DEF Fits
    <3> QED BY <1>6, <2>1, <3>1 DEF Held
  <2>3. /\ r \in Held /\ r.shared = e.shared /\ r.cap = e.frag /\ r.closed = FALSE /\ r.app = FALSE
        /\ r.shut = FALSE /\ r.acc = 0 /\ r.rec = 0 /\ r.left = 0 /\ r.part = FALSE /\ r.plain = 0
    <3> HIDE DEF n
    <3> QED BY <1>6, <2>2 DEF Held
  <2>4. held = r
    <3> HIDE DEF r
    <3> QED BY <1>10, <2>3, HeldEqual
  <2> QED BY <1>6, <2>4 DEF Abstract!EngineInit
<1> QED BY <1>8, <1>12, <1>13

LEMMA StepTracks ==
    ASSUME Refining, [RNext]_<<vars, held>>, Steady'
    PROVE  (Tuned(e, cpu) /\ Tracks(held, e, cpu))' /\ [Abstract!Step]_held
<1>1. CASE RNext
  <2>1. Next
    BY <1>1 DEF RNext
  <2>2. Tuned(e', cpu') /\ Answers(held, e', cpu')
    BY <2>1, StepAnswers DEF Answered
  <2>3. ~Closed' <=> Live(e')
    BY DEF Closed, Live
  <2>4. held' = Seen(held, e', cpu')
    BY <1>1, <2>3 DEF RNext, Seen, Abstract!Failed
  <2>5. Tracks(held', e', cpu') /\ (Moves(held, held') \/ held' = held)
    BY <2>2, <2>4 DEF Answers
  <2> QED BY <2>2, <2>5, MovesStep
<1>2. CASE UNCHANGED <<vars, held>>
  <2>1. e' = e /\ cpu' = cpu /\ held' = held
    BY <1>2 DEF vars
  <2>2. Tuned(e', cpu') /\ Tracks(held', e', cpu')
    BY <2>1 DEF Refining
  <2> QED BY <2>1, <2>2
<1> QED BY <1>1, <1>2

(* The engine of the code does, from one moment at which it rests to the   *)
(* next, what the engine does that the client's model is built on: a call, *)
(* and all the handshake processor does in it, has the effect on the four  *)
(* buffers that the abstract call has.                                     *)
THEOREM EngineImplements ==
    ASSUME Fits, Patient, ~Renegotiates, ~Forces
    PROVE  RSpec => ImplementsEngine
<1> DEFINE All == Inv /\ More /\ Lively(e, cpu) /\ Tuned(e, cpu) /\ Tracks(held, e, cpu)
<1>1. Calm
  BY DEF Calm
<1>2. RInit => All /\ Abstract!EngineInit
  BY InitInv, InitMore, InitLively, InitTracks, <1>1 DEF RInit
<1>3. All /\ [RNext]_<<vars, held>> => All' /\ [Abstract!Step]_held
  <2> SUFFICES ASSUME All, [RNext]_<<vars, held>> PROVE All' /\ [Abstract!Step]_held
    OBVIOUS
  <2>1. [Next]_vars
    BY DEF RNext, vars
  <2>2. Steady
    BY <1>1 DEF Steady
  <2>3. (Inv /\ More /\ Lively(e, cpu))'
    BY <2>1, <2>2, StepKeeps, StepMore, StepLively
  <2>4. Steady'
    BY <1>1, <2>3 DEF Steady, Calm
  <2>5. (Tuned(e, cpu) /\ Tracks(held, e, cpu))' /\ [Abstract!Step]_held
    BY <2>2, <2>4, StepTracks DEF Refining
  <2> QED BY <2>3, <2>5
<1> QED BY <1>2, <1>3, PTL DEF RSpec, ImplementsEngine, Abstract!EngineSpec
=============================================================================
