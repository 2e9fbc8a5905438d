----------------------------- MODULE RecordFlow -----------------------------
(***************************************************************************)
(* Records from the output buffer of one end to the input buffer of the    *)
(* other, under one encryption scheme: the sender takes its payload span   *)
(* from max_plaintext() and cuts it at max_frag_len (make_ready_out), the  *)
(* record layer seals what was gathered in place, the receiver checks the  *)
(* announced length against the scheme and its buffer (recvrec_ack) and    *)
(* opens the record with its own sequence number.                          *)
(***************************************************************************)
EXTENDS RecordLayers

CONSTANTS
  Frags,      \* maximum fragment lengths both ends agreed on
  Slacks,     \* bytes the output buffer holds beyond the smallest legal size
  Cuts,       \* payload lengths, from nothing up and from the room down
  MaxWire,    \* bound: records under way
  MaxSeq      \* bound: records sealed

ASSUME RecordFlowAssumption ==
  /\ Frags \subseteq 512..MaxPlain
  /\ Slacks \subseteq Nat /\ Cuts \subseteq Nat
  /\ MaxWire \in Nat \ {0} /\ MaxSeq \in Nat \ {0}

Types == {"hs", "app"}

VARIABLES
  s,          \* the scheme in force
  frag,       \* max_frag_len
  obuf,       \* obuf_len of the sender
  last,       \* the records the last encrypt() left in the output buffer
  wire,       \* records under way, each with its sequence number
  outSeq,     \* cc->seq of the sender
  inSeq,      \* cc->seq of the receiver
  sent, got,  \* plaintext bytes handed in, and handed out
  err         \* what the receiver fails with

vars == << s, frag, obuf, last, wire, outSeq, inSeq, sent, got, err >>

Init ==
  /\ s \in Schemes
  /\ frag \in Frags
  /\ obuf \in {frag + MaxOutOverhead + x : x \in Slacks}
  /\ last = << >> /\ wire = << >>
  /\ outSeq = 0 /\ inSeq = 0
  /\ sent = 0 /\ got = 0
  /\ err = "none"

Room == LET span == PayloadSpan(s, obuf, frag) IN span.b - span.a

Lengths == LET small == {c \in Cuts : c <= Room}
           IN  small \cup {Room - c : c \in small}

\* Mutant: a split takes one sequence number.
WriteCountingOnce(type, len) ==
  LET recs == Encrypt(s, type, PayloadSpan(s, obuf, frag).a, len)
  IN  /\ Len(wire) < MaxWire /\ outSeq < MaxSeq
      /\ last' = recs
      /\ wire' = wire \o [i \in 1..Len(recs) |->
                            [rec |-> recs[i], seq |-> outSeq + i - 1]]
      /\ outSeq' = outSeq + 1
      /\ sent' = sent + len
      /\ UNCHANGED << s, frag, obuf, inSeq, got, err >>

(* sendpld_ack() and sendpld_flush(): what was gathered leaves, sealed.    *)
Write(type, len) ==
  LET recs == Encrypt(s, type, PayloadSpan(s, obuf, frag).a, len)
  IN  /\ Len(wire) < MaxWire /\ outSeq < MaxSeq
      /\ last' = recs
      /\ wire' = wire \o [i \in 1..Len(recs) |->
                            [rec |-> recs[i], seq |-> outSeq + i - 1]]
      /\ outSeq' = outSeq + Len(recs)
      /\ sent' = sent + len
      /\ UNCHANGED << s, frag, obuf, inSeq, got, err >>

(* recvrec_ack(): a whole record came in.                                  *)
TooLarge(r) == s.kind # "clear" /\ r.rlen > frag + MaxInOverhead - Header

Verdict(r, seq) ==
  CASE ~CheckLength(s, r.rlen) -> "BAD_LENGTH"
    [] CheckLength(s, r.rlen) /\ TooLarge(r) -> "TOO_LARGE"
    [] OTHER -> IF seq = inSeq /\ Decrypt(s, r).ok THEN "none" ELSE "BAD_MAC"

Read ==
  /\ wire # << >> /\ err = "none"
  /\ wire' = Tail(wire)
  /\ LET r == Head(wire).rec
     IN  /\ err' = Verdict(r, Head(wire).seq)
         /\ IF err' = "none"
              THEN inSeq' = inSeq + 1 /\ got' = got + Decrypt(s, r).len
              ELSE UNCHANGED << inSeq, got >>
  /\ UNCHANGED << s, frag, obuf, last, outSeq, sent >>

Next == Read \/ \E type \in Types : \E len \in Lengths : Write(type, len)

Spec == Init /\ [][Next]_vars

---------------------------------------------------------------------------
TypeOK ==
  /\ s \in Schemes /\ frag \in Frags /\ obuf \in Nat
  /\ \A i \in DOMAIN last : last[i].from \in Nat
  /\ Len(wire) \in Nat /\ outSeq \in Nat /\ inSeq \in 0..outSeq
  /\ sent \in Nat /\ got \in Nat
  /\ err \in {"none", "BAD_LENGTH", "TOO_LARGE", "BAD_MAC"}

(* What encrypt() builds around the payload it was handed stays inside the *)
(* output buffer, although max_plaintext() only reserved room for one      *)
(* record and the TLS 1.0 split makes two; and the two are one span of     *)
(* bytes, because sendpld_flush() sends from the first to the last byte.   *)
RecordsFit ==
  \A i \in DOMAIN last :
    /\ 0 <= last[i].from /\ last[i].to <= obuf
    /\ last[i].to - last[i].from = Header + last[i].rlen
    /\ i > 1 => last[i - 1].to = last[i].from

(* A receiver with the same scheme and a buffer for the agreed fragment    *)
(* length takes every record a sender makes: neither the length bounds of  *)
(* the scheme nor the buffer nor the padding rules nor the sequence number *)
(* (two for a split) refuse it.                                            *)
NeverRefused == err = "none"

(* The plaintext bytes handed to the sender are those under way and those  *)
(* handed out, however the record layer cut them.                          *)
Carried(w) ==
  LET sum[i \in 0..Len(w)] == IF i = 0 THEN 0 ELSE sum[i - 1] + w[i].rec.len
  IN  sum[Len(w)]

PlaintextKept == err = "none" => sent = got + Carried(wire)
=============================================================================
