---------------------------- MODULE RecordLayers ----------------------------
(***************************************************************************)
(* The record encryption schemes of the engine, as arithmetic on offsets   *)
(* in the output buffer and on record lengths: no encryption               *)
(* (ssl_engine.c), CBC with HMAC (ssl_rec_cbc.c), GCM (ssl_rec_gcm.c), CCM *)
(* (ssl_rec_ccm.c) and ChaCha20 with Poly1305 (ssl_rec_chapol.c).  Bytes   *)
(* are not modelled: a record is the span it fills and what the receiver   *)
(* reads of it.                                                            *)
(***************************************************************************)
EXTENDS Integers, Sequences

Header == 5             \* bytes of a record header
MaxPlain == 16384       \* longest fragment of the standard
MaxPad == 256           \* longest CBC padding, its length byte included

(* What a buffer has to hold beyond a fragment. *)
MaxOutOverhead == 85
MaxInOverhead == 325

RecordTypes == {"hs", "ccs", "alert", "app"}

(* A scheme: blk is the cipher's block (CBC), mac the length of the HMAC   *)
(* output (CBC), tag the authentication tag (CCM; 16 for the other AEAD).  *)
(* "cbc10" is CBC with the implicit IV of TLS 1.0, "cbc11" with an         *)
(* explicit one.                                                           *)
Schemes ==
  [kind : {"clear"}, blk : {1}, mac : {0}, tag : {0}]
    \cup [kind : {"cbc10"}, blk : {8, 16}, mac : {16, 20}, tag : {0}]
    \cup [kind : {"cbc11"}, blk : {8, 16}, mac : {20, 32, 48}, tag : {0}]
    \cup [kind : {"gcm", "chapol"}, blk : {1}, mac : {0}, tag : {16}]
    \cup [kind : {"ccm"}, blk : {1}, mac : {0}, tag : {8, 16}]

IsCbc(s) == s.kind \in {"cbc10", "cbc11"}

(* x & ~(b - 1), for a power of two b. *)
Floor(x, b) == x - (x % b)

(* Lengths are size_t: a difference below zero is a huge one. *)
Minus(x, y) == IF x >= y THEN x - y ELSE 2 * MaxPlain + 1

(* The room a one-byte CBC record body takes: what the split leaves free. *)
SplitRoom(s) == Floor(s.mac + s.blk + 1, s.blk)

(* What a scheme puts in front of the plaintext, after the header ... *)
Before(s) == CASE s.kind = "cbc11" -> s.blk
               [] s.kind \in {"gcm", "ccm"} -> 8
               [] OTHER -> 0

(* ... and behind it. *)
Padding(s, len) == s.blk - ((len + s.mac) % s.blk)
Behind(s, len) == IF IsCbc(s) THEN s.mac + Padding(s, len) ELSE s.tag

---------------------------------------------------------------------------
\* Mutant: no room is left for the header of the second part.
StartTight(s, a) == a + (IF s.kind = "cbc10" THEN SplitRoom(s) ELSE Before(s))

(* max_plaintext(): from the free span [a, b) to the plaintext's span. *)
Start(s, a) == a + (IF s.kind = "cbc10" THEN 4 + SplitRoom(s) ELSE Before(s))

PlainRoom(s, a, b) ==
  IF IsCbc(s) THEN Minus(Floor(Minus(b, a), s.blk), 1 + s.mac)
              ELSE Minus(b, a + s.tag)

Least(x, y) == IF x < y THEN x ELSE y

MaxPlaintext(s, a, b) ==
  LET at == Start(s, a)
  IN  [a |-> at, b |-> at + Least(PlainRoom(s, at, b), MaxPlain)]

(* make_ready_out(): the payload span of a new record, in a buffer of olen *)
(* bytes, with fragments of at most frag bytes.                            *)
PayloadSpan(s, olen, frag) ==
  LET m == MaxPlaintext(s, Header, olen - Header)
  IN  [a |-> m.a, b |-> IF m.b - m.a > frag THEN m.a + frag ELSE m.b]

---------------------------------------------------------------------------
(* encrypt(): the records made of len plaintext bytes at offset `at'.      *)
(* A record fills [from, to) of the buffer; rlen is the length its header  *)
(* announces, pad its padding-length byte.                                 *)
Sealed(s, type, at, len) ==
  [type |-> type, len |-> len,
   from |-> at - Before(s) - Header,
   to   |-> at + len + Behind(s, len),
   rlen |-> Before(s) + len + Behind(s, len),
   pad  |-> IF IsCbc(s) THEN Padding(s, len) - 1 ELSE 0]

(* TLS 1.0 CBC cuts application data in 1 and n - 1 bytes. *)
Splits(s, type, len) == s.kind = "cbc10" /\ len > 1 /\ type = "app"

\* Mutant: the first byte is sent twice.
EncryptTwice(s, type, at, len) ==
  IF Splits(s, type, len)
    THEN << Sealed(s, type, at - 4 - SplitRoom(s), 1),
            Sealed(s, type, at + 1, len) >>
    ELSE << Sealed(s, type, at, len) >>

Encrypt(s, type, at, len) ==
  IF Splits(s, type, len)
    THEN << Sealed(s, type, at - 4 - SplitRoom(s), 1),
            Sealed(s, type, at + 1, len - 1) >>
    ELSE << Sealed(s, type, at, len) >>

---------------------------------------------------------------------------
\* Mutant: the padding is not reckoned with.
CheckLengthUnpadded(s, rlen) ==
  LET over == Before(s) + s.tag
      iv   == Before(s)
  IN  CASE s.kind = "clear" -> rlen <= MaxPlain
        [] IsCbc(s) -> /\ Floor(s.blk + s.mac, s.blk) + iv <= rlen
                       /\ rlen <= Floor(MaxPlain + s.mac, s.blk) + iv
        [] OTHER -> over <= rlen /\ rlen <= MaxPlain + over

(* check_length(): the announced lengths the receiver takes. *)
CheckLength(s, rlen) ==
  LET over == Before(s) + s.tag
      iv   == Before(s)
  IN  CASE s.kind = "clear" -> rlen <= MaxPlain
        [] IsCbc(s) -> /\ Floor(s.blk + s.mac, s.blk) + iv <= rlen
                       /\ rlen <= Floor(MaxPlain + MaxPad + s.mac, s.blk) + iv
        [] OTHER -> over <= rlen /\ rlen <= MaxPlain + over

(* decrypt(): the plaintext length of a record whose bytes are intact, and *)
(* whether the padding and length rules let it pass.                       *)
NoPlain == [ok |-> FALSE, len |-> 0]

Decrypt(s, r) ==
  IF ~IsCbc(s)
    THEN [ok |-> TRUE, len |-> r.rlen - Before(s) - s.tag]
    ELSE LET len == r.rlen - Before(s)
             min == IF s.mac + MaxPad < len THEN len - MaxPad ELSE s.mac
             max == len - 1
         IN  IF r.pad <= max - min /\ max - r.pad - s.mac <= MaxPlain
               THEN [ok |-> TRUE, len |-> max - r.pad - s.mac]
               ELSE NoPlain
=============================================================================
