--------------------------- MODULE AbstractEngine ---------------------------
(* The BearSSL engine as the client sees it between two calls               *)
(* (src/src/bssl/ssl_engine.c): what each of the four buffers holds and     *)
(* which of them br_ssl_engine_current_state offers.  Bytes are counted, a  *)
(* record travels in Parts pieces at most, and of the handshake processor   *)
(* only the effect is kept: it takes the output from the application and    *)
(* gives it back, and sends records of its own.                             *)
(*                                                                          *)
(* SSLPump drives this engine; EngineIO is the one of the code, and is      *)
(* shown to implement it.                                                   *)
EXTENDS Naturals

CONSTANTS
    Cap,            \* payload bytes of a record at most
    Parts           \* how many writes of the transport a record takes at most

ASSUME AbstractEngineConstants == {Cap, Parts} \subseteq Nat \ {0}

VARIABLE eng

Engine ==
    [ shared: BOOLEAN,      \* ibuf = obuf
      cap: 1..Cap,          \* payload bytes of a full record
      closed: BOOLEAN,
      app: BOOLEAN,         \* application_data = 1
      shut: BOOLEAN,        \* shutdown_recv: the peer closed
      acc: 0..Cap,          \* oxa - oxc: bytes of the record being filled
      rec: 0..Cap,          \* application bytes in the record being sent
      left: 0..Parts,       \* what of this record is still to send
      part: BOOLEAN,        \* an incoming record is not complete
      plain: 0..Cap ]       \* ixb - ixa: decrypted bytes not acknowledged

NewEngine(shared) ==
    [ shared |-> shared, cap |-> Cap, closed |-> FALSE, app |-> TRUE, shut |-> FALSE,
      acc |-> 0, rec |-> 0, left |-> 0, part |-> FALSE, plain |-> 0 ]

--------------------------------------------------------------------------------
(* The bits of br_ssl_engine_current_state.  A shared buffer that holds input  *)
(* takes no output, and the other way round.                                   *)

SENDREC(e) == ~e.closed /\ e.left > 0
SENDAPP(e) == ~e.closed /\ e.app /\ e.left = 0 /\ (e.shared => e.plain = 0 /\ ~e.part)
RECVREC(e) == ~e.closed /\ ~e.shut /\ e.plain = 0 /\ (e.shared => e.acc = 0 /\ e.left = 0)
RECVAPP(e) == ~e.closed /\ e.app /\ e.plain > 0

\* The length br_ssl_engine_sendapp_buf returns.
Room(e) == IF SENDAPP(e) THEN e.cap - e.acc ELSE 0

\* The length br_ssl_engine_recvapp_buf returns.
Readable(e) == IF RECVAPP(e) THEN e.plain ELSE 0

\* The state is neither BR_SSL_CLOSED nor 0.
Offers(e) == SENDREC(e) \/ SENDAPP(e) \/ RECVREC(e) \/ RECVAPP(e)

--------------------------------------------------------------------------------
(* The calls.                                                                  *)

\* br_ssl_engine_flush: what was gathered becomes a record.
Flushed(e) ==
    IF e.acc > 0 /\ e.left = 0 THEN [e EXCEPT !.rec = e.acc, !.acc = 0, !.left = Parts] ELSE e

\* br_ssl_engine_sendapp_ack: a full record is closed at once.
Acked(e, n) ==
    LET more == [e EXCEPT !.acc = e.acc + n]
    IN  IF more.acc >= e.cap THEN Flushed(more) ELSE more

\* A fatal alert, a record refused, or the end of the closure: the engine is
\* closed, and what the buffers held is lost.
Failed(e) == [e EXCEPT !.closed = TRUE]

\* The handshake processor ran.  It takes the output, when nothing of the
\* application is in the way, for a record of its own; it stops application
\* data, which flushes what was gathered, or lets it flow again.
Messages(e) == IF e.left = 0 /\ e.acc = 0 /\ (e.shared => ~e.part) THEN {0, Parts} ELSE {e.left}

Halting(e, shut) == {[e EXCEPT !.left = l, !.app = FALSE, !.shut = shut] : l \in Messages(e)}
Halted(e) == Halting(e, e.shut) \cup Halting(e, TRUE)

Resumed(e) == IF e.shut THEN {} ELSE {[e EXCEPT !.left = l, !.app = TRUE] : l \in Messages(e)}

Processed(e) == {e} \cup Halted(e) \cup Halted(Flushed(e)) \cup Resumed(e)

\* br_ssl_engine_sendrec_ack: after its last piece the next record begins.
SentPart(e, n) ==
    IF n = e.left THEN [e EXCEPT !.rec = 0, !.left = 0] ELSE [e EXCEPT !.left = e.left - n]

Sent(e, n) ==
    IF n = e.left THEN Processed(SentPart(e, n)) \cup {Failed(SentPart(e, n))}
                  ELSE {SentPart(e, n)}

\* br_ssl_engine_recvrec_ack: a piece of a record, a whole one for the processor,
\* or a whole one of application data.
Received(e) ==
    {[e EXCEPT !.part = TRUE], Failed(e)}
    \cup Processed([e EXCEPT !.part = FALSE])
    \cup {[e EXCEPT !.part = FALSE, !.plain = n] : n \in IF e.app THEN 1..Cap ELSE {}}

\* br_ssl_engine_recvapp_ack.
ReadBytes(e, n) == [e EXCEPT !.plain = @ - n]

--------------------------------------------------------------------------------
\* br_ssl_engine_close: unread input is dropped, the closure begins.
Closing(e) == Processed([e EXCEPT !.plain = 0])

--------------------------------------------------------------------------------
(* Any sequence of calls, in the states that allow them.  While application   *)
(* data is stopped a new fragment length, or a new encryption scheme, may      *)
(* change how much payload a record takes.                                     *)

Becomes(es) ==
    /\ eng'.cap \in IF eng.app THEN {eng.cap} ELSE 1..Cap
    /\ [eng' EXCEPT !.cap = eng.cap] \in es

Step ==
    \/ SENDAPP(eng) /\ \E n \in 1..Room(eng) : Becomes({Acked(eng, n)})
    \/ ~eng.closed /\ eng.app /\ Becomes({Flushed(eng)})
    \/ SENDREC(eng) /\ \E n \in 1..eng.left : Becomes(Sent(eng, n))
    \/ RECVREC(eng) /\ Becomes(Received(eng))
    \/ RECVAPP(eng) /\ \E n \in 1..eng.plain : Becomes({ReadBytes(eng, n)})
    \/ ~eng.closed /\ Becomes(Closing(eng))
    \/ ~eng.app /\ Becomes(Processed(eng) \cup {Failed(eng)})

EngineInit ==
    \E shared \in BOOLEAN, c \in 1..Cap : eng = [NewEngine(shared) EXCEPT !.app = FALSE, !.cap = c]

EngineSpec == EngineInit /\ [][Step]_eng
================================================================================
