------------------------------- MODULE SSLPump -------------------------------
(* The inside of the calls of BSSL_SSLClient on a secure connection: the loops  *)
(* mRunUntil and mUpdateEngine that move bytes between the application, the     *)
(* BearSSL engine and the transport, with the handshake of mConnectSSL, write,  *)
(* available, read, flush and stop around them (src/src/client/SSLClient.h).    *)
(* The engine is the one of AbstractEngine.                                     *)
(*                                                                              *)
(* Every iteration of a loop is a step, so that records, a lost connection and  *)
(* the passing of time come in between.  The calls in progress are the frames   *)
(* of stack, the innermost first: stop() is called from inside the loops, and   *)
(* calls them again.                                                            *)
(*                                                                              *)
(* Abstracted: bytes are counted, and a record travels in Parts pieces.         *)
EXTENDS AbstractEngine, Sequences

CONSTANTS
    Builds,         \* FALSE: two buffers; TRUE: SSLCLIENT_HALF_DUPLEX, a shared one
    SilentWrites,   \* the transport may write nothing, stay connected and
                    \* report no error
    MaxWrite,       \* bytes in one write() at most
    MaxTaken,       \* bytes written on one connection at most
    MaxIn,          \* records received on one connection at most
    MaxOwn          \* records the handshake processor sends on one at most

ASSUME PumpConstants ==
    /\ Builds \subseteq BOOLEAN /\ Builds # {}
    /\ SilentWrites \in BOOLEAN
    /\ MaxWrite \in Nat \ {0}
    /\ {MaxTaken, MaxIn, MaxOwn} \subseteq Nat

VARIABLES
    open, inbox,    \* the transport is connected; records it holds for us
    live,           \* the engine and its buffers are allocated
    secure,         \* _secure, _is_connected: the handshake is done
    writeError,     \* getWriteError() # esp_ssl_ok
    idx,            \* _write_idx
    recvLen,        \* _recvapp_len
    late,           \* the deadline of the innermost mRunUntil has passed
    stack, ret,     \* the calls in progress; what the last one returned
    taken, sent,    \* bytes write() copied; bytes in records that left whole
    fed, own        \* records the peer sent so far, and the processor

transport == <<open, inbox, fed, own>>
client    == <<live, secure, writeError, idx, recvLen>>
control   == <<late, stack, ret>>
bytes     == <<taken, sent>>
vars      == <<eng, transport, client, control, bytes>>

--------------------------------------------------------------------------------
(* The calls in progress.                                                       *)

Frame ==
    [ at: {"update", "updateStopped", "run", "ran", "runStopped", "flushed", "stop",
           "stopping", "write", "writing", "available", "connect"},
      target: {"SENDAPP", "RECVAPP"},     \* of mRunUntil
      n: 0..MaxWrite ]                    \* of write: bytes still to copy

At(place) == [at |-> place, target |-> "SENDAPP", n |-> 0]
RunUntil(target) == [at |-> "run", target |-> target, n |-> 0]

Top == Head(stack)
In(place) == stack # <<>> /\ Top.at = place

\* Go on at another place of the innermost call.
Goto(place) == stack' = <<[Top EXCEPT !.at = place]>> \o Tail(stack) /\ UNCHANGED <<ret, late>>

\* Call f from there; when f is mRunUntil its clock starts now.
Call(f, place) ==
    /\ stack' = <<f, [Top EXCEPT !.at = place]>> \o Tail(stack)
    /\ late' = IF f.at = "run" THEN FALSE ELSE late
    /\ UNCHANGED ret

Return(v) == stack' = Tail(stack) /\ ret' = v /\ UNCHANGED late

\* setWriteError(), then stop().
FailAndStop(place) ==
    /\ writeError' = TRUE /\ UNCHANGED <<live, secure, idx, recvLen>>
    /\ Call(At("stop"), place)

--------------------------------------------------------------------------------
(* mUpdateEngine(): an iteration of its loop.                                   *)

UpdateClosed ==
    /\ In("update") /\ live /\ eng.closed
    /\ Return("closed")
    /\ UNCHANGED <<eng, transport, client, bytes>>

\* A record the processor began by itself is counted.
Began(whole) == own' = IF whole /\ eng'.left > 0 /\ eng'.rec = 0 THEN own + 1 ELSE own

SendRecord ==
    /\ In("update") /\ live /\ SENDREC(eng) /\ open
    /\ \E n \in 1..eng.left :
          /\ eng' \in Sent(eng, n)
          /\ Began(n = eng.left) /\ own' <= MaxOwn
          /\ sent' = IF n = eng.left THEN sent + eng.rec ELSE sent
    /\ UNCHANGED <<open, inbox, fed, client, control, taken>>

\* The transport wrote nothing.
SendFails ==
    /\ In("update") /\ live /\ SENDREC(eng)
    /\ \/ FailAndStop("updateStopped")
       \/ SilentWrites /\ open /\ UNCHANGED client /\ Call(At("stop"), "updateStopped")
    /\ UNCHANGED <<eng, transport, bytes>>

\* Mutant: _write_idx is not reset.
TakeWrittenTwice ==
    /\ In("update") /\ live /\ ~eng.closed /\ ~SENDREC(eng) /\ idx > 0
    /\ IF idx <= Room(eng)
       THEN eng' = Acked(eng, idx) /\ UNCHANGED <<client, control>>
       ELSE FailAndStop("updateStopped") /\ UNCHANGED eng
    /\ UNCHANGED <<transport, bytes>>

\* What write() left behind goes to the engine, before any input is processed.
TakeWritten ==
    /\ In("update") /\ live /\ ~eng.closed /\ ~SENDREC(eng) /\ idx > 0
    /\ IF idx <= Room(eng)
       THEN /\ eng' = Acked(eng, idx)
            /\ idx' = 0
            /\ UNCHANGED <<live, secure, writeError, recvLen, control>>
       ELSE FailAndStop("updateStopped") /\ UNCHANGED eng
    /\ UNCHANGED <<transport, bytes>>

\* Mutant: input is looked at before what write() left.
QuietTooEarly == In("update") /\ live /\ ~eng.closed /\ ~SENDREC(eng)

\* Nothing to send: input, if there is some, or else back to the caller.
Quiet == In("update") /\ live /\ ~eng.closed /\ ~SENDREC(eng) /\ idx = 0

ReceiveRecord ==
    /\ Quiet /\ RECVREC(eng) /\ inbox > 0
    /\ \/ /\ eng' \in Received(eng) /\ inbox' = inbox - 1
          /\ Began(TRUE) /\ own' <= MaxOwn
          /\ UNCHANGED <<client, control>>
       \/ FailAndStop("updateStopped") /\ UNCHANGED <<eng, inbox, own>>
    /\ UNCHANGED <<open, fed, bytes>>

\* Mutant: the loop goes on until there is input.
UpdateWaits ==
    /\ Quiet /\ ~RECVREC(eng)
    /\ Return("state")
    /\ UNCHANGED <<eng, transport, client, bytes>>

UpdateDone ==
    /\ Quiet /\ ~(RECVREC(eng) /\ inbox > 0)
    /\ Return("state")
    /\ UNCHANGED <<eng, transport, client, bytes>>

\* Mutant: the state read before the stop() is returned instead of 0.
UpdateStoppedStale ==
    /\ In("updateStopped")
    /\ Return("state")
    /\ UNCHANGED <<eng, transport, client, bytes>>

UpdateStopped ==
    /\ In("updateStopped")
    /\ Return("stopped")
    /\ UNCHANGED <<eng, transport, client, bytes>>

mUpdateEngine ==
    UpdateClosed \/ SendRecord \/ SendFails \/ TakeWritten \/ ReceiveRecord
    \/ UpdateDone \/ UpdateStopped

--------------------------------------------------------------------------------
(* mRunUntil(target).                                                           *)

Run ==
    /\ In("run")
    /\ Call(At("update"), "ran")
    /\ UNCHANGED <<eng, transport, client, bytes>>

RunFails ==
    /\ In("ran") /\ (ret = "closed" \/ writeError)
    /\ Return("fail")
    /\ UNCHANGED <<eng, transport, client, bytes>>

RunTimesOut ==
    /\ In("ran") /\ ~(ret = "closed" \/ writeError) /\ late
    /\ FailAndStop("runStopped")
    /\ UNCHANGED <<eng, transport, bytes>>

RunStopped ==
    /\ In("runStopped")
    /\ Return("fail")
    /\ UNCHANGED <<eng, transport, client, bytes>>

InTime == In("ran") /\ ~(ret = "closed" \/ writeError) /\ ~late

\* The state mUpdateEngine returned has a bit of the target, or input waits that
\* the application must read first.
RunArrives ==
    /\ InTime /\ ret = "state"
    /\ IF (Top.target = "SENDAPP" /\ SENDAPP(eng)) \/ (Top.target = "RECVAPP" /\ RECVAPP(eng))
       THEN UNCHANGED recvLen
       ELSE RECVAPP(eng) /\ recvLen' = eng.plain
    /\ Return("ok")
    /\ UNCHANGED <<eng, transport, live, secure, writeError, idx, bytes>>

\* Once more: without the bytes written if that is what they wait for, with a
\* record of what was gathered if the answer to it is.
RunAgain ==
    /\ InTime
    /\ ret = "state" => ~RECVAPP(eng) /\ ~(Top.target = "SENDAPP" /\ SENDAPP(eng))
    /\ IF Top.target = "SENDAPP" THEN idx' = 0 /\ UNCHANGED eng
       ELSE eng' = (IF ret = "state" /\ SENDAPP(eng) THEN Flushed(eng) ELSE eng) /\ UNCHANGED idx
    /\ Goto("run")
    /\ UNCHANGED <<transport, live, secure, writeError, recvLen, bytes>>

mRunUntil == Run \/ RunFails \/ RunTimesOut \/ RunStopped \/ RunArrives \/ RunAgain

--------------------------------------------------------------------------------
(* stop(), as the application or a loop calls it.                               *)

\* The state and connected() are looked at, unread input is dropped, and what
\* is left of write() is flushed.
StopBegins ==
    /\ In("stop") /\ secure
    /\ IF Offers(eng) /\ open
       THEN /\ recvLen' = Readable(eng)
            /\ eng' = IF RECVAPP(eng) THEN ReadBytes(eng, eng.plain) ELSE eng
            /\ IF idx > 0 THEN Call(RunUntil("RECVAPP"), "stopping") ELSE Goto("stopping")
            /\ UNCHANGED writeError
       ELSE /\ writeError' \in {writeError} \cup (IF Offers(eng) THEN {TRUE} ELSE {})
            /\ Goto("stopping")
            /\ UNCHANGED <<eng, recvLen>>
    /\ UNCHANGED <<transport, live, secure, idx, bytes>>

\* The transport is closed, and mFreeSSL() called.
StopEnds ==
    /\ In("stopping")
    /\ open' = FALSE /\ live' = FALSE /\ secure' = FALSE /\ recvLen' = 0
    /\ Return("none")
    /\ UNCHANGED <<eng, inbox, fed, own, writeError, idx, bytes>>

\* During the handshake, too, stop() returns at once.
StopAgain ==
    /\ In("stop") /\ ~secure
    /\ Return("none")
    /\ UNCHANGED <<eng, transport, client, bytes>>

stop == StopBegins \/ StopEnds \/ StopAgain

--------------------------------------------------------------------------------
(* write(), available(), flush() and mConnectSSL(), after the loop they called   *)
(* returned.                                                                    *)

\* Mutant: write() does not ask how much room there is.
CopyAll ==
    /\ taken' = taken + Top.n
    /\ idx' = idx + Top.n
    /\ Return("ok")
    /\ UNCHANGED <<eng, live, secure, writeError, recvLen, sent>>

\* write() copies what fits; a full buffer is handed over and run at once.
Copy ==
    LET room == Room(eng)
        k == IF Top.n >= room - idx THEN room - idx ELSE Top.n
        full == idx + k = room
    IN  /\ taken' = taken + k
        /\ idx' = IF full THEN 0 ELSE idx + k
        /\ eng' = IF full THEN Acked(eng, idx + k) ELSE eng
        /\ IF full
           THEN /\ stack' = <<RunUntil("SENDAPP"), [Top EXCEPT !.at = "writing", !.n = @ - k]>>
                            \o Tail(stack)
                /\ late' = FALSE
                /\ UNCHANGED ret
           ELSE Return("ok")
        /\ UNCHANGED <<live, secure, writeError, recvLen, sent>>

WriteCopies ==
    /\ ret = "ok" /\ \/ In("write") /\ Room(eng) > 0
                     \/ In("writing") /\ Top.n > 0
    /\ Copy
    /\ UNCHANGED transport

WriteReturns ==
    /\ \/ In("write") /\ (ret = "fail" \/ Room(eng) = 0)
       \/ In("writing") /\ (ret = "fail" \/ Top.n = 0)
    /\ Return(IF In("writing") /\ ret = "ok" THEN "ok" ELSE "fail")
    /\ UNCHANGED <<eng, transport, client, bytes>>

\* available(): input is shown; without any, what was gathered becomes a record.
AvailableReturns ==
    /\ In("available")
    /\ IF ret = "state" /\ RECVAPP(eng) THEN recvLen' = eng.plain ELSE UNCHANGED recvLen
    /\ eng' = IF ret = "state" /\ ~RECVAPP(eng) /\ SENDAPP(eng) THEN Flushed(eng) ELSE eng
    /\ Return("none")
    /\ UNCHANGED <<transport, live, secure, writeError, idx, bytes>>

FlushReturns ==
    /\ In("flushed")
    /\ Return("none")
    /\ UNCHANGED <<eng, transport, client, bytes>>

\* mConnectSSL() after the handshake; a failure frees the engine, and the
\* transport stays as it is.
ConnectReturns ==
    /\ In("connect")
    /\ IF ret = "ok"
       THEN secure' = TRUE /\ taken' = 0 /\ sent' = 0 /\ UNCHANGED <<live, recvLen>>
       ELSE live' = FALSE /\ recvLen' = 0 /\ UNCHANGED <<secure, bytes>>
    /\ Return("none")
    /\ UNCHANGED <<eng, transport, writeError, idx>>

--------------------------------------------------------------------------------
(* The application, which makes one call at a time, and the network.            *)

\* br_ssl_client_reset().
Begun(shared) == [NewEngine(shared) EXCEPT !.app = FALSE, !.left = Parts]

Start(frames) == stack' = frames /\ late' = FALSE /\ UNCHANGED ret
SoftConnected == ~writeError /\ ~eng.closed

Write(n) ==
    /\ stack = <<>> /\ secure /\ SoftConnected /\ taken + n <= MaxTaken
    /\ Start(<<RunUntil("SENDAPP"), [at |-> "write", target |-> "SENDAPP", n |-> n]>>)
    /\ UNCHANGED <<eng, transport, client, bytes>>

Available ==
    /\ stack = <<>> /\ secure /\ recvLen = 0 /\ SoftConnected
    /\ Start(<<At("update"), At("available")>>)
    /\ UNCHANGED <<eng, transport, client, bytes>>

\* Mutant: the bytes read are not acknowledged.
ReadWithoutAck(n) ==
    /\ stack = <<>> /\ secure /\ n <= recvLen
    /\ recvLen' = recvLen - n
    /\ UNCHANGED <<eng, transport, live, secure, writeError, idx, control, bytes>>

\* read() after available(): bytes are copied and acknowledged.
Read(n) ==
    /\ stack = <<>> /\ secure /\ n <= recvLen
    /\ recvLen' = recvLen - n
    /\ eng' = ReadBytes(eng, n)
    /\ UNCHANGED <<transport, live, secure, writeError, idx, control, bytes>>

Flush ==
    /\ stack = <<>> /\ secure /\ idx > 0
    /\ Start(<<RunUntil("RECVAPP"), At("flushed")>>)
    /\ UNCHANGED <<eng, transport, client, bytes>>

\* stop() may also be called again.
Stop ==
    /\ stack = <<>>
    /\ Start(<<At("stop")>>)
    /\ UNCHANGED <<eng, transport, client, bytes>>

\* Mutant: mConnectBasicClient() leaves _write_idx.
ConnectWithIndex ==
    /\ stack = <<>> /\ ~live
    /\ eng' = Begun(eng.shared)
    /\ open' = TRUE /\ inbox' = 0 /\ fed' = 0 /\ own' = 0
    /\ live' = TRUE /\ writeError' = FALSE /\ recvLen' = 0
    /\ Start(<<RunUntil("SENDAPP"), At("connect")>>)
    /\ UNCHANGED <<secure, idx, bytes>>

\* connectSSL() on a new transport: mConnectBasicClient() resets _write_idx, and
\* mConnectSSL() has a new engine, whose processor wrote a ClientHello, no write
\* error, and waits for the handshake.
Connect ==
    /\ stack = <<>> /\ ~live
    /\ eng' = Begun(eng.shared)
    /\ open' = TRUE /\ inbox' = 0 /\ fed' = 0 /\ own' = 0
    /\ live' = TRUE /\ writeError' = FALSE /\ idx' = 0 /\ recvLen' = 0
    /\ Start(<<RunUntil("SENDAPP"), At("connect")>>)
    /\ UNCHANGED <<secure, bytes>>

PeerSends ==
    /\ open /\ fed < MaxIn
    /\ inbox' = inbox + 1 /\ fed' = fed + 1
    /\ UNCHANGED <<eng, open, own, client, control, bytes>>

PeerCloses ==
    /\ open
    /\ open' = FALSE
    /\ UNCHANGED <<eng, inbox, fed, own, client, control, bytes>>

TimePasses ==
    /\ stack # <<>> /\ ~late
    /\ late' = TRUE
    /\ UNCHANGED <<eng, transport, client, stack, ret, bytes>>

--------------------------------------------------------------------------------

Init ==
    /\ \E shared \in Builds : eng = NewEngine(shared)
    /\ open = FALSE /\ inbox = 0 /\ fed = 0 /\ own = 0
    /\ live = FALSE /\ secure = FALSE /\ writeError = FALSE /\ idx = 0 /\ recvLen = 0
    /\ late = FALSE /\ stack = <<>> /\ ret = "none"
    /\ taken = 0 /\ sent = 0

\* The thread inside a call.
Thread ==
    mUpdateEngine \/ mRunUntil \/ stop \/ WriteCopies \/ WriteReturns
    \/ AvailableReturns \/ FlushReturns \/ ConnectReturns

Application ==
    \/ \E n \in 1..MaxWrite : Write(n)
    \/ \E n \in 1..Cap : Read(n)
    \/ Available \/ Flush \/ Stop \/ Connect

Network == PeerSends \/ PeerCloses \/ TimePasses

Next == Thread \/ Application \/ Network

\* The processor runs the thread and time passes; nobody owes anything else.
Spec == Init /\ [][Next]_vars /\ WF_vars(Thread) /\ WF_vars(TimePasses)

--------------------------------------------------------------------------------

TypeOK ==
    /\ eng \in Engine
    /\ {open, live, secure, writeError, late} \subseteq BOOLEAN
    /\ inbox \in 0..MaxIn /\ fed \in 0..MaxIn /\ own \in 0..MaxOwn
    /\ idx \in 0..Cap /\ recvLen \in 0..Cap
    /\ stack \in Seq(Frame)
    /\ ret \in {"none", "closed", "stopped", "state", "ok", "fail"}
    /\ taken \in 0..MaxTaken /\ sent \in 0..MaxTaken

\* No loop goes on with an engine that a stop() further in has freed.
EngineAlive ==
    stack # <<>> =>
        /\ Top.at = "update" => live
        /\ Top.at \in {"write", "writing", "connect"} /\ ret = "ok" => live
        /\ Top.at = "available" /\ ret = "state" => live

\* Every byte write() took is in exactly one place: on the wire, in the record
\* being sent, in the one being filled, or behind _write_idx.
NoByteLost == secure /\ ~eng.closed => taken = sent + eng.rec + eng.acc + idx

\* The bytes behind _write_idx lie in room the engine still offers: nothing was
\* sent or received over them since write() put them there.
WrittenIsSafe == secure /\ ~eng.closed /\ idx > 0 => SENDAPP(eng) /\ idx < Room(eng)

\* Between calls, what read() will copy is what the engine still holds.
ReadsWhatIsThere == stack = <<>> /\ secure /\ recvLen > 0 => recvLen = eng.plain

\* stop() is called from inside the loops and runs them again, but no deeper
\* than once: the stack of a small device is bounded.
StopNestsOnce ==
    \A i, j, k \in 1..Len(stack) :
        i < j /\ j < k => ~({stack[i].at, stack[j].at, stack[k].at} \subseteq {"stop", "stopping"})

\* The pump implements the channel its callers count on.
Channel == INSTANCE ByteChannel WITH up <- secure
ChannelSpec == Channel!Spec

\* Every call returns.
CallsReturn == stack # <<>> ~> stack = <<>>

\* With two buffers every call returns.
FullDuplexReturns == ~eng.shared => CallsReturn
==============================================================================
