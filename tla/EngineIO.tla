------------------------------ MODULE EngineIO ------------------------------
(***************************************************************************)
(* The buffers of the BearSSL engine (ssl_engine.c) at the level of its    *)
(* registers: ixa, ixb, ixc for the record that comes in, oxa, oxb, oxc    *)
(* for the one that goes out, iomode, and the handshake processor, a       *)
(* coroutine that the calls enter and that reads and writes the payload of *)
(* every record but application data.  Offsets and lengths are the real    *)
(* ones; the bytes are not modelled.                                       *)
(*                                                                         *)
(* e is the engine context.  cpu is the coroutine: where it waits (at),    *)
(* whether it runs, and the window on the buffers that jump_handshake()    *)
(* gave it.  A call of the engine that enters the processor goes on until  *)
(* the processor yields, and no other call begins before.                  *)
(*                                                                         *)
(* What the processor does is kept as far as the buffers are concerned:    *)
(* when it reads, writes, flushes, changes the record type, the encryption *)
(* or application_data, and what it waits for (ssl_hs_common.t0,           *)
(* ssl_hs_client.t0, ssl_hs_server.t0).  Which messages it reads and       *)
(* writes is the matter of module Handshake.                               *)
(***************************************************************************)
EXTENDS RecordLayers, FiniteSets

CONSTANTS
  Buffers,        \* [shared, ilen, olen, frag]: what set_buffers_bidi was given
  Ciphers,        \* schemes a handshake may end with
  InLens,         \* plaintext lengths of incoming records
  Cuts,           \* how far short of the whole a partial transfer stops
  Closes,         \* br_ssl_engine_close() is called
  Renegotiates,   \* BR_OPT_NO_RENEGOTIATION is not set
  Forces,         \* br_ssl_engine_flush(cc, 1) is called, not only (cc, 0)
  Patient         \* the peer answers in turn: a flight ends with its record,
                  \* and after a HelloRequest it waits for the answer

Clear == [kind |-> "clear", blk |-> 1, mac |-> 0, tag |-> 0]

ASSUME EngineAssumption ==
  /\ Buffers \subseteq [shared : BOOLEAN, ilen : Nat, olen : Nat, frag : 512..MaxPlain]
  /\ \A b \in Buffers : /\ b.olen >= b.frag + MaxOutOverhead
                        /\ b.ilen >= b.frag + MaxInOverhead
                        /\ b.shared => b.olen = b.ilen
  /\ Ciphers \subseteq Schemes \ {Clear}
  /\ InLens \subseteq 0..MaxPlain
  /\ Cuts \subseteq Nat
  /\ {Closes, Renegotiates, Forces, Patient} \subseteq BOOLEAN

VARIABLES e, cpu

vars == << e, cpu >>

Engine ==
  [ shared : BOOLEAN, ilen : Nat, olen : Nat,   \* ibuf = obuf; the lengths
    frag : 512..MaxPlain,                       \* max_frag_len
    io : {"failed", "in", "out", "inout"},      \* iomode
    ixa : Nat, ixb : Nat, ixc : Nat,
    oxa : Nat, oxb : Nat, oxc : Nat,
    in : Schemes, out : Schemes,                \* in.vtable, out.vtable
    typeIn : RecordTypes, typeOut : RecordTypes,
    app : 0..2,                                 \* application_data
    shut : BOOLEAN,                             \* shutdown_recv
    by : {"app", "hs", "mixed"},    \* who wrote the payload; a record of another
                                    \* type than its payload is mixed
    load : 0..MaxPlain ]        \* bytes of the application in the record sent

Places == {"read", "ccs", "rfin", "write", "wccs", "wfin", "idle", "hreq",
           "refuse", "close", "bye"}

Cpu ==
  [ run : {"off", "resume", "on"},
    client : BOOLEAN,               \* ssl_hs_client, or ssl_hs_server
    at : Places,
    cnr : BOOLEAN,                  \* do-close: close_notify was received
    half : BOOLEAN,                 \* one side's Finished is done
    act : 0..2,                     \* action: 1 close, 2 renegotiate
    hin0 : Nat, hin : Nat,          \* hlen_in at entry, and what is left
    hout : Nat, put : Nat ]         \* hlen_out, and what was written of it

---------------------------------------------------------------------------
(* The buffers the engine offers. *)

Closed == e.io = "failed"
CanIn(x)  == x.io \in {"in", "inout"}
CanOut(x) == x.io \in {"out", "inout"}

\* Mutant: the rest of the buffer is offered, not what is left of the record.
RecvRecLenOfBuffer(x) ==
  IF CanIn(x) /\ ~x.shut /\ x.ixa = x.ixb THEN x.ilen - x.ixa ELSE 0

RecvRecLen(x) ==
  IF CanIn(x) /\ ~x.shut /\ x.ixa = x.ixb THEN Least(x.ixc, x.ilen - x.ixa) ELSE 0
RecvPldLen(x) == IF CanIn(x) THEN x.ixb - x.ixa ELSE 0
SendPldLen(x) == IF CanOut(x) THEN x.oxb - x.oxa ELSE 0
SendRecLen(x) == IF CanOut(x) /\ x.oxc > x.oxa THEN x.oxc - x.oxa ELSE 0
SendAppLen(x) == IF x.app = 1 THEN SendPldLen(x) ELSE 0
RecvAppLen(x) == IF x.app = 1 /\ x.typeIn = "app" THEN RecvPldLen(x) ELSE 0

HasPld(x)  == x.oxa # x.oxb /\ x.oxa # x.oxc        \* has_pld_to_send
HasRec(x)  == x.oxa = x.oxb /\ x.oxa # x.oxc        \* has_rec_tosend
RecFinished(x) == CanIn(x) => x.ixc = 0 \/ x.ixa < Header

(* Registers for a new record. *)
ReadyIn(x) ==
  [x EXCEPT !.ixa = 0, !.ixb = 0, !.ixc = Header,
            !.io = IF @ = "in" THEN "inout" ELSE @]

ReadyOut(x) ==
  LET span == PayloadSpan(x.out, x.olen, x.frag)
  IN  [x EXCEPT !.oxa = span.a, !.oxb = span.b, !.oxc = span.a, !.load = 0,
                !.io = IF @ = "out" THEN "inout" ELSE @]

(* sendpld_flush(): what was gathered becomes a record, in place. *)
Seal(x, force) ==
  IF x.oxa = x.oxb \/ (x.oxa = x.oxc /\ ~force) THEN x
  ELSE LET recs == Encrypt(x.out, x.typeOut, x.oxc, x.oxa - x.oxc)
           from == recs[1].from
       IN  [x EXCEPT !.oxa = from, !.oxb = from, !.oxc = recs[Len(recs)].to,
                     !.by = IF x.oxa # x.oxc /\ (@ = "app") # (x.typeOut = "app")
                              THEN "mixed" ELSE @,
                     !.load = IF x.by = "app" THEN x.oxa - x.oxc ELSE 0]

\* Mutant: a shared buffer is not taken for output.
PldWrittenInOut(x, n, who) ==
  LET y == [x EXCEPT !.oxa = @ + n]
  IN  IF y.oxa >= y.oxb THEN Seal([y EXCEPT !.oxb = y.oxa + 1], FALSE) ELSE y

(* sendpld_ack(), by the application or the processor. *)
PldWritten(x, n, who) ==
  LET y == [x EXCEPT !.io = IF @ = "inout" /\ x.shared THEN "out" ELSE @,
                     !.oxa = @ + n,
                     !.by = IF HasPld(x) /\ @ # who THEN "mixed" ELSE who]
  IN  IF y.oxa >= y.oxb THEN Seal([y EXCEPT !.oxb = y.oxa + 1], FALSE) ELSE y

\* Mutant: the end of the record is not noticed.
PldReadOn(x, n) ==
  IF x.ixa + n # x.ixb THEN [x EXCEPT !.ixa = @ + n] ELSE [x EXCEPT !.ixa = Header, !.ixb = Header]

(* recvpld_ack(). *)
PldRead(x, n) ==
  IF x.ixa + n # x.ixb THEN [x EXCEPT !.ixa = @ + n]
  ELSE IF x.ixc = 0 THEN ReadyIn(x)
  ELSE [x EXCEPT !.ixa = Header, !.ixb = Header]

(* sendrec_ack(). *)
RecWritten(x, n) ==
  IF x.oxa + n = x.oxc THEN ReadyOut(x)
                       ELSE [x EXCEPT !.oxa = @ + n, !.oxb = x.oxa + n]

(* br_ssl_engine_new_max_frag_len(). *)
NewFrag(x, f) ==
  LET nxb == x.oxc + f
  IN  [x EXCEPT !.frag = f,
                !.oxb = IF x.oxa < x.oxb /\ x.oxb > nxb /\ x.oxa < nxb THEN nxb ELSE @]

Fail(x) == [x EXCEPT !.io = "failed"]

(* How many of n bytes a transfer moves: all, or short of all by a cut. *)
Pieces(n) == {n} \cup {n - c : c \in {d \in Cuts : d < n}}

---------------------------------------------------------------------------
(* jump_handshake(): the processor is given the input, unless it is        *)
(* application data, and the output, unless application data waits there.  *)

Entered(x, action) ==
  LET hin == IF x.typeIn = "app" THEN 0 ELSE RecvPldLen(x)
  IN  [cpu EXCEPT !.run = "resume", !.act = action, !.hin0 = hin, !.hin = hin,
                  !.hout = IF HasPld(x) THEN 0 ELSE SendPldLen(x), !.put = 0]

Enter(x, action) == e' = x /\ cpu' = Entered(x, action)

Rest(x) == e' = x /\ UNCHANGED cpu

(* The processor goes on with registers x at place p, h bytes of input    *)
(* left; a fatal error, or the end, returns from jump_handshake() at once. *)
Go(x, p, h) == e' = x /\ cpu' = [cpu EXCEPT !.run = "on", !.at = p, !.hin = h]
Stop == e' = Fail(e) /\ cpu' = [cpu EXCEPT !.run = "off"]

(* T0_CO() at place p with h bytes of input left, and the rest of          *)
(* jump_handshake(): what was written and read is acknowledged; when all   *)
(* input was read, which may have freed a shared buffer, the processor is  *)
(* entered again.                                                          *)
Yield(x, p, h) ==
  LET w == IF cpu.put > 0 THEN PldWritten(x, cpu.put, "hs") ELSE x
      r == IF h # cpu.hin0 THEN PldRead(w, cpu.hin0 - h) ELSE w
  IN  /\ e' = r
      /\ cpu' = IF h = 0 /\ cpu.hin0 > 0
                  THEN [Entered(r, 0) EXCEPT !.at = p]
                  ELSE [cpu EXCEPT !.run = "off", !.at = p, !.put = 0]

\* Mutant: only what the processor wrote is flushed.
FlushedOwn(x) ==
  IF cpu.put > 0 THEN Seal(PldWritten(x, cpu.put, "hs"), FALSE) ELSE x

(* flush-record: the registers after it, and the processor going on. *)
Flushed(x) ==
  LET w == IF cpu.put > 0 THEN PldWritten(x, cpu.put, "hs") ELSE x
  IN  IF HasPld(w) THEN Seal(w, FALSE) ELSE w

GoFlushed(x, p, h) ==
  LET f == Flushed(x)
  IN  e' = f /\ cpu' = [cpu EXCEPT !.run = "on", !.at = p, !.hin = h,
                                   !.put = 0, !.hout = SendPldLen(f)]

(* A message of n bytes in a record of its own, as the processor writes    *)
(* one when it has waited for an empty buffer.                             *)
Message(x, type, n) ==
  LET y == PldWritten([x EXCEPT !.typeOut = type], n, "hs")
  IN  IF HasPld(y) THEN Seal(y, FALSE) ELSE y

GoWith(x, p) == e' = x /\ cpu' = [cpu EXCEPT !.run = "on", !.at = p,
                                             !.hout = SendPldLen(x)]

---------------------------------------------------------------------------
(* The calls of the engine, made between two runs of the processor.        *)

Ready == cpu.run = "off" /\ ~Closed

SendApp ==
  /\ Ready /\ SendAppLen(e) > 0
  /\ \E n \in Pieces(SendAppLen(e)) : Rest(PldWritten(e, n, "app"))

(* br_ssl_engine_flush(). *)
FlushApp ==
  /\ Ready /\ e.app = 1
  /\ \E force \in {FALSE, Forces} : Rest(Seal(e, force))

SendRec ==
  /\ Ready /\ SendRecLen(e) > 0
  /\ \E n \in Pieces(SendRecLen(e)) :
       LET x == RecWritten(e, n)
       IN  IF ~HasRec(x) /\ (x.typeOut # "app" \/ x.app # 1) THEN Enter(x, 0)
                                                            ELSE Rest(x)

RecvApp ==
  /\ Ready /\ RecvAppLen(e) > 0
  /\ \E n \in Pieces(RecvAppLen(e)) : Rest(PldRead(e, n))

(* recvrec_ack(): n bytes came from the transport. *)
Received(n) ==
  [e EXCEPT !.io = IF @ = "inout" /\ e.shared THEN "in" ELSE @,
            !.ixa = @ + n, !.ixb = e.ixa + n, !.ixc = @ - n]

GetPartOfHeader ==
  /\ Ready /\ RecvRecLen(e) > 0
  /\ \E n \in Pieces(RecvRecLen(e)) : e.ixa + n < Header /\ Rest(Received(n))

(* What the peer may send now. *)
Comes(type) ==
  Patient => CASE type = "hs"  -> cpu.at \in {"read", "ccs", "rfin", "idle", "bye"}
               [] type = "app" -> cpu.at \in {"idle", "close", "bye"}
               [] type = "ccs" -> cpu.at = "ccs"
               [] OTHER -> TRUE

Announced(type, len) == IF e.in = Clear THEN len ELSE Sealed(e.in, type, 0, len).rlen

GetHeader ==
  /\ Ready /\ RecvRecLen(e) > 0 /\ e.ixa < Header
  /\ \E type \in RecordTypes, len \in InLens :
       LET rlen == Announced(type, len)
           x    == [Received(Header - e.ixa) EXCEPT !.typeIn = type]
       IN  /\ Comes(type)
           /\ Rest(IF \/ ~CheckLength(e.in, rlen)
                      \/ e.in # Clear /\ rlen > e.ilen - Header THEN Fail(x)
                   ELSE IF rlen = 0 THEN ReadyIn(x)
                   ELSE [x EXCEPT !.ixa = Header, !.ixb = Header, !.ixc = rlen])

\* Mutant: application data that comes during the closure is kept.
DispatchKeeping(x) ==
  IF x.ixa = x.ixb THEN Rest(ReadyIn(x))
  ELSE IF x.typeIn # "app" THEN Enter(x, 0)
  ELSE Rest(IF x.app > 0 THEN x ELSE Fail(x))

\* Mutant: the case of alerts is missing.
DispatchWithoutAlerts(x) ==
  IF x.ixa = x.ixb THEN Rest(ReadyIn(x))
  ELSE IF x.typeIn \in {"hs", "ccs"} THEN Enter(x, 0)
  ELSE Rest(CASE x.typeIn = "alert" \/ x.app = 1 -> x
              [] x.app = 2 -> PldRead(x, x.ixb - x.ixa)
              [] OTHER -> Fail(x))

(* Payload came up: the processor, or the application, is to read it. *)
Dispatch(x) ==
  IF x.ixa = x.ixb THEN Rest(ReadyIn(x))
  ELSE IF x.typeIn # "app" THEN Enter(x, 0)
  ELSE Rest(CASE x.app = 1 -> x
              [] x.app = 2 -> PldRead(x, x.ixb - x.ixa)
              [] OTHER -> Fail(x))

(* Without encryption payload is read as it comes; else the record must be *)
(* complete, and is decrypted.                                             *)
GetBody ==
  /\ Ready /\ RecvRecLen(e) > 0 /\ e.ixa >= Header
  /\ \E n \in Pieces(RecvRecLen(e)) :
       LET x == Received(n)
       IN  IF e.in = Clear THEN Dispatch([x EXCEPT !.ixa = Header])
           ELSE IF x.ixc > 0 THEN Rest(x)
           ELSE \E len \in InLens :
                  /\ Announced(e.typeIn, len) = x.ixa - Header
                  /\ Dispatch([x EXCEPT !.ixa = Header + Before(e.in),
                                        !.ixb = Header + Before(e.in) + len])

Close ==
  /\ Ready /\ Closes
  /\ Enter(IF RecvAppLen(e) > 0 THEN PldRead(e, RecvAppLen(e)) ELSE e, 1)

Renegotiate ==
  /\ Ready /\ Renegotiates /\ cpu.client /\ RecvAppLen(e) = 0
  /\ Enter(e, 2)

Call == SendApp \/ FlushApp \/ SendRec \/ RecvApp \/ GetPartOfHeader
          \/ GetHeader \/ GetBody \/ Close \/ Renegotiate

---------------------------------------------------------------------------
(* The processor resumes.  wait-co deals with a close asked for, and with  *)
(* alerts; wait-for-close drops input until a close_notify comes.          *)

Closing == cpu.at \in {"close", "bye"}
Alert == cpu.hin > 0 /\ e.typeIn = "alert"
AlertEnds == Patient => RecFinished(e)

Resume ==
  /\ cpu.run = "resume" /\ ~Closing /\ cpu.act # 1 /\ ~Alert
  /\ Go(e, cpu.at, cpu.hin)

BeginClose ==
  /\ cpu.run = "resume" /\ ~Closing /\ cpu.act = 1
  /\ GoFlushed([e EXCEPT !.app = IF @ = 1 THEN 2 ELSE 0], "close", cpu.hin)

WarningAlert ==
  /\ cpu.run = "resume" /\ ~Closing /\ cpu.act # 1 /\ Alert
  /\ Go(e, cpu.at, 0)

FatalAlert ==
  /\ cpu.run = "resume" /\ Alert /\ (Closing => ~cpu.cnr) /\ cpu.act # 1
  /\ Stop

CloseAlert ==
  /\ cpu.run = "resume" /\ ~Closing /\ cpu.act # 1 /\ Alert /\ AlertEnds
  /\ LET f == Flushed([e EXCEPT !.app = 0, !.shut = TRUE])
     IN  e' = f /\ cpu' = [cpu EXCEPT !.run = "on", !.at = "close", !.hin = 0,
                                      !.cnr = TRUE, !.hout = SendPldLen(f)]

WaitForClose ==
  /\ cpu.run = "resume" /\ Closing
  /\ IF cpu.cnr \/ cpu.hin = 0 THEN Go(e, cpu.at, cpu.hin)
     ELSE IF ~Alert THEN Go(e, cpu.at, 0)
     ELSE \E closes \in BOOLEAN :
            /\ closes => AlertEnds
            /\ e' = [e EXCEPT !.app = 0, !.shut = closes]
            /\ cpu' = [cpu EXCEPT !.run = "on", !.hin = 0, !.cnr = closes]

---------------------------------------------------------------------------
(* The processor runs. *)

On(p) == cpu.run = "on" /\ cpu.at = p
Reading == cpu.run = "on" /\ cpu.at \in {"read", "rfin", "hreq"}

(* read8-nc without input, write8 or wait-rectype-out without room, main   *)
(* without a request: back to the caller.                                  *)
Wait ==
  /\ cpu.run = "on"
  /\ CASE cpu.at \in {"read", "rfin", "hreq", "ccs"} -> cpu.hin = 0
       [] cpu.at \in {"write", "wccs", "wfin", "refuse", "close"} -> cpu.hout = 0
       [] cpu.at = "idle" -> cpu.hin = 0 /\ ~(cpu.act = 2 /\ e.app = 1)
       [] cpu.at = "bye" -> ~(cpu.cnr /\ cpu.hout > 0)
  /\ Yield(e, cpu.at, cpu.hin)

(* Input of another type than what is read ends the connection. *)
Unexpected ==
  /\ cpu.run = "on" /\ cpu.hin > 0
  /\ \/ e.typeIn # "hs" /\ cpu.at \in {"read", "rfin", "hreq", "idle"}
     \/ e.typeIn # "ccs" /\ cpu.at = "ccs"
  /\ Stop

(* Bytes of a message that is not complete yet. *)
ReadOn ==
  /\ Reading /\ e.typeIn = "hs" /\ cpu.hin > 0
  /\ \E n \in Pieces(cpu.hin) : Go(e, cpu.at, cpu.hin - n)

(* The bytes, n of them, that end a flight. *)
NothingMore(n) == n = cpu.hin /\ RecFinished(e)     \* ~more-incoming-bytes?

Ends(n) == n \in Pieces(cpu.hin) /\ (Patient => NothingMore(n))

ReadFlight ==
  /\ On("read") /\ e.typeIn = "hs" /\ cpu.hin > 0
  /\ \E n \in Pieces(cpu.hin) :
       /\ Ends(n)
       /\ \/ IF NothingMore(n) THEN Go(e, "write", 0) ELSE Stop
          \/ Go(e, "ccs", cpu.hin - n)

\* Mutant: the room the processor was given stays what it was.
ReadFragLengthOnly ==
  /\ On("read") /\ ~cpu.client /\ e.typeIn = "hs" /\ cpu.hin > 0
  /\ \E f \in {512, 1024, 2048, 4096} :
       f < e.frag /\ Go(NewFrag(e, f), "read", cpu.hin)

(* The server takes the fragment length the client asks for, also for the  *)
(* room it has in its hands.                                               *)
ReadFragLength ==
  /\ On("read") /\ ~cpu.client /\ e.typeIn = "hs" /\ cpu.hin > 0
  /\ \E f \in {512, 1024, 2048, 4096} :
       /\ f < e.frag
       /\ e' = NewFrag(e, f)
       /\ cpu' = [cpu EXCEPT !.hout = Least(@, f)]

(* write8, write-blob: as much as there is room for. *)
Write ==
  /\ On("write") /\ cpu.hout > 0
  /\ \E n \in Pieces(cpu.hout) :
       /\ cpu' = [cpu EXCEPT !.put = @ + n, !.hout = @ - n]
       /\ UNCHANGED e

WriteFlight ==
  /\ On("write")
  /\ \E p \in {"read", "wccs"} : GoFlushed(e, p, cpu.hin)

(* read-CCS-Finished: the decryption changes between two records.  Both    *)
(* directions get the suite of the handshake.                              *)
ReadCCS ==
  /\ On("ccs") /\ cpu.hin > 0 /\ e.typeIn = "ccs"
  /\ IF NothingMore(1)
       THEN \E s \in IF cpu.half THEN {e.out} ELSE Ciphers :
              Go([e EXCEPT !.in = s], "rfin", 0)
       ELSE Stop

(* The last lines of do-handshake; main then waits at once. *)
Done(x, h) == Yield([x EXCEPT !.app = 1, !.typeOut = "app"], "idle", h)

ReadFinished ==
  /\ On("rfin") /\ e.typeIn = "hs" /\ cpu.hin > 0
  /\ \E n \in Pieces(cpu.hin) :
       /\ Ends(n)
       /\ IF cpu.half THEN Done(e, cpu.hin - n)
          ELSE LET f == Flushed(e)
               IN  e' = f /\ cpu' = [cpu EXCEPT !.at = "wccs", !.half = TRUE,
                                     !.hin = @ - n, !.hout = SendPldLen(f)]

(* write-CCS-Finished: the encryption changes right behind the record. *)
WriteCCS ==
  /\ On("wccs") /\ cpu.hout > 0
  /\ \E s \in IF cpu.half THEN {e.in} ELSE Ciphers :
       GoWith([Message(e, "ccs", 1) EXCEPT !.out = s], "wfin")

WriteFinished ==
  /\ On("wfin") /\ cpu.hout > 0
  /\ LET x == Message(e, "hs", 16)
     IN  IF cpu.half THEN Done(x, cpu.hin)
         ELSE e' = x /\ cpu' = [cpu EXCEPT !.at = "ccs", !.half = TRUE, !.hout = 0]

(* main, on a HelloRequest, or a ClientHello: application data stops.      *)
ReadRequest ==
  /\ On("idle") /\ e.typeIn = "hs" /\ cpu.hin > 0
  /\ Go([e EXCEPT !.app = 0], "hreq", cpu.hin)

Refuse ==
  /\ On("hreq") /\ e.typeIn = "hs" /\ cpu.hin > 0
  /\ \E n \in Pieces(cpu.hin) : Ends(n) /\ GoFlushed(e, "refuse", cpu.hin - n)

SendRefusal ==
  /\ On("refuse") /\ cpu.hout > 0
  /\ Done(Message(e, "alert", 2), cpu.hin)

(* do-handshake again: asked for by a call, or by the peer. *)
Again ==
  /\ Renegotiates
  /\ \/ On("idle") /\ cpu.hin = 0 /\ cpu.act = 2 /\ e.app = 1
     \/ On("hreq") /\ e.typeIn = "hs" /\ cpu.hin > 0 /\ Ends(cpu.hin)
  /\ e' = [e EXCEPT !.app = 0, !.typeOut = "hs"]
  /\ cpu' = [cpu EXCEPT !.half = FALSE, !.act = 0,
                        !.at = IF cpu.client THEN "write" ELSE "read",
                        !.hin = IF cpu.client THEN 0 ELSE @]

(* do-close: close_notify, when there is room. *)
SendClose ==
  /\ On("close") /\ cpu.hout > 0
  /\ LET x == Message(e, "alert", 2)
     IN  e' = x /\ cpu' = [cpu EXCEPT !.at = "bye", !.hout = 0]

CloseEnds ==
  /\ On("bye") /\ cpu.cnr /\ cpu.hout > 0
  /\ Stop

Processor == Resume \/ BeginClose \/ WarningAlert \/ FatalAlert \/ CloseAlert
  \/ WaitForClose \/ Wait \/ Unexpected \/ ReadOn \/ ReadFlight \/ ReadFragLength
  \/ Write \/ WriteFlight \/ ReadCCS \/ ReadFinished \/ WriteCCS \/ WriteFinished
  \/ ReadRequest \/ Refuse \/ SendRefusal \/ Again \/ SendClose \/ CloseEnds

---------------------------------------------------------------------------
(* br_ssl_engine_set_buffers_bidi() and br_ssl_engine_hs_reset(): the      *)
(* processor begins; a client writes first, a server reads.                *)
New(b) ==
  ReadyOut([shared |-> b.shared, ilen |-> b.ilen, olen |-> b.olen,
            frag |-> b.frag, io |-> "inout", ixa |-> 0, ixb |-> 0, ixc |-> Header,
            oxa |-> 0, oxb |-> 0, oxc |-> 0, in |-> Clear, out |-> Clear,
            typeIn |-> "hs", typeOut |-> "hs", app |-> 0, shut |-> FALSE,
            by |-> "hs", load |-> 0])

Init ==
  /\ \E b \in Buffers : e = New(b)
  /\ \E client \in BOOLEAN :
       cpu = [client |-> client, run |-> "on",
              at |-> IF client THEN "write" ELSE "read",
              cnr |-> FALSE, half |-> FALSE, act |-> 0,
              hin0 |-> 0, hin |-> 0, hout |-> SendPldLen(e), put |-> 0]

Next == Call \/ Processor

Spec == Init /\ [][Next]_vars

---------------------------------------------------------------------------
TypeOK ==
  /\ e \in Engine /\ cpu \in Cpu

(* The registers stay in their order and inside the buffers, and whatever  *)
(* payload is gathered could be sealed where it lies: the record that the  *)
(* scheme now in force makes of it, header, initialisation vector, split   *)
(* and tag included, does not leave the output buffer, also when the       *)
(* scheme has changed since the registers were set.  Nor is it longer than *)
(* the fragment length agreed on, which may have been lowered since.       *)
Sealable(x, len) ==
  LET recs == Encrypt(x.out, x.typeOut, x.oxc, len)
  IN  recs[1].from >= 0 /\ recs[Len(recs)].to <= x.olen

Gathering == e.oxc <= e.oxa /\ e.oxa < e.oxb

RegistersFit ==
  Closed \/
    /\ e.ixa <= e.ixb /\ e.ixb <= e.ilen
    /\ IF Gathering THEN /\ Sealable(e, e.oxa - e.oxc + cpu.put)
                         /\ Renegotiates \/ e.oxa - e.oxc + cpu.put <= e.frag
                    ELSE e.oxa = e.oxb /\ e.oxa < e.oxc /\ e.oxc <= e.olen

(* In a shared buffer no byte of a record that comes in and no byte of one *)
(* that goes out are held at the same time.                                *)
InLive  == e.ixa > 0 \/ e.ixb > 0
OutLive == e.oxa # e.oxc \/ cpu.put > 0

OneAtATime == e.shared /\ ~Closed => ~(InLive /\ OutLive)

(* Bytes of the application never leave in a record of another type, nor   *)
(* bytes of the processor in one of application data.                      *)
TypesKept == ~Closed => e.by # "mixed"

(* Between two calls the engine offers something to do: it never waits for *)
(* a thing that nobody can give it.                                        *)
NeverStuck ==
  Ready => RecvRecLen(e) + SendRecLen(e) + SendAppLen(e) + RecvAppLen(e) > 0

(* Handshake data and alerts that came in are read at once: what is left   *)
(* between two calls is the application's.                                 *)
InputIsRead == Ready /\ e.typeIn # "app" => RecvPldLen(e) = 0
=============================================================================
