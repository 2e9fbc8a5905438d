----------------------------- MODULE ClientProofs -----------------------------
(* Proofs, for all hosts, addresses, ports and sockets.                         *)
(*                                                                              *)
(* SSLClient: its four invariants.  Their conjunction Sound is inductive as it  *)
(* stands: every method, called in a sound world, leaves a sound world in each  *)
(* outcome.  One lemma says so of each method, from the methods that call       *)
(* nothing (mFreeSSL) up to connect and write; the step lemma then names one    *)
(* per action.                                                                  *)
(*                                                                              *)
(* TCPClient: the types of everything it keeps, for any habits of the           *)
(* application; and, when it sets no session timeout, that TLS stays TLS and    *)
(* that bytes reach the target.  No call but a connect opens the transport,     *)
(* moves it to another peer, or takes TLS off a connection that stays open      *)
(* (Kept, below); the probe moves it, but closes it.                            *)
EXTENDS TCPClient, TLAPS

--------------------------------------------------------------------------------
(* SSLClient.                                                                   *)

\* The inductive invariant.
Sound(x) == x \in World /\ Owned(x) /\ HandshakeHere(x) /\ ErrorEndsConnection(x)

\* The members the invariant looks at beside World: who changes none of them,
\* and keeps the types, keeps it.
Watched(x) ==
    <<x.open, x.secure, x.isConnected, x.handshakeDone, x.recv, x.sc, x.bufs, x.x509,
      x.engHere, x.writeError>>

LEMMA SameSound ==
    ASSUME NEW x, Sound(x), NEW y \in World, Watched(y) = Watched(x)
    PROVE  Sound(y)
  BY DEF Watched, Sound, Owned, HandshakeHere, ErrorEndsConnection

--------------------------------------------------------------------------------
(* Memory and the transport.                                                    *)

\* Whatever the world was, mFreeSSL leaves nothing to misuse.
LEMMA FreeSound ==
    ASSUME NEW x \in World
    PROVE  Sound(mFreeSSL(x))
  BY DEF mFreeSSL, World, Sound, Owned, HandshakeHere, ErrorEndsConnection

\* A transport may be closed at any time.
LEMMA CloseSound ==
    ASSUME NEW x, Sound(x)
    PROVE  Sound(CloseSocket(x))
  BY DEF CloseSocket, World, Sound, Owned, HandshakeHere, ErrorEndsConnection

\* stop() also repairs a world in which an I/O error was just noted: this is
\* what makes a write error final.
LEMMA StopSound ==
    ASSUME NEW x \in World, Owned(x), HandshakeHere(x), NEW y \in stop(x),
           x.secure \/ Sound(x)
    PROVE  Sound(y)
<1>1. CASE ~x.secure
  BY <1>1 DEF stop
<1>2. CASE x.secure
  <2> DEFINE L == {x.pending} \cup When(x.open /\ Usable(x), {FALSE})
             E == {x.writeError} \cup When(Usable(x), {TRUE})
  <2>3. y \in {Ended(x, left, error) : left \in L, error \in E}
    BY <1>2 DEF stop
  <2>4. L \subseteq BOOLEAN /\ E \subseteq BOOLEAN
    BY DEF World, When
  <2> HIDE DEF L, E
  <2>5. PICK p \in L, e \in E : y = Ended(x, p, e)
    BY <2>3
  <2>1. p \in BOOLEAN /\ e \in BOOLEAN /\ y = Ended(x, p, e)
    BY <2>4, <2>5
  <2>2. CloseSocket([x EXCEPT !.pending = p, !.writeError = e]) \in World
    BY <2>1 DEF World, CloseSocket
  <2> QED BY <2>1, <2>2, FreeSound DEF Ended
<1> QED BY <1>1, <1>2

\* stop() after a failed read or write of the engine.
LEMMA StopFailedSound ==
    ASSUME NEW x, Sound(x), x.secure, NEW y \in stop(Failed(x))
    PROVE  Sound(y)
<1>1. Failed(x) \in World /\ Owned(Failed(x)) /\ HandshakeHere(Failed(x)) /\ Failed(x).secure
  BY DEF Failed, Sound, World, Owned, HandshakeHere
<1> QED BY <1>1, StopSound

--------------------------------------------------------------------------------
(* The engine.                                                                  *)

\* mUpdateEngine: unless it stopped the connection, the client is still secure.
LEMMA UpdateSound ==
    ASSUME NEW x, Sound(x), x.secure, NEW r \in mUpdateEngine(x)
    PROVE  Sound(r.w) /\ (r.st # "stopped" => r.w.secure)
<1>1. /\ Sound(Moved(x)) /\ Moved(x).secure
      /\ Sound([x EXCEPT !.engOpen = FALSE]) /\ [x EXCEPT !.engOpen = FALSE].secure
      /\ Sound([Moved(x) EXCEPT !.engOpen = FALSE])
      /\ [Moved(x) EXCEPT !.engOpen = FALSE].secure
  BY DEF Moved, Sound, World, Owned, HandshakeHere, ErrorEndsConnection
<1>2. \/ r \in {EngineClosed(x), EngineClosed(Moved(x)), State("ready", Moved(x)),
                State("data", Moved(x))}
      \/ \E y \in stop(Failed(x)) : r = State("stopped", y)
  BY DEF mUpdateEngine, When
<1>3. CASE r \in {EngineClosed(x), EngineClosed(Moved(x)), State("ready", Moved(x)),
                  State("data", Moved(x))}
  <2>1. r.w \in {Moved(x), [x EXCEPT !.engOpen = FALSE],
                 [Moved(x) EXCEPT !.engOpen = FALSE]}
    BY <1>3 DEF EngineClosed, State
  <2> QED BY <1>1, <2>1
<1>4. CASE \E y \in stop(Failed(x)) : r = State("stopped", y)
  BY <1>4, StopFailedSound DEF State
<1> QED BY <1>2, <1>3, <1>4

\* What the engine holds lies in the buffers of a secure client.
LEMMA EngineDataSound ==
    ASSUME NEW x, Sound(x), x.secure
    PROVE  Sound(EngineData(x)) /\ EngineData(x).secure
  BY DEF EngineData, Sound, World, Owned, HandshakeHere, ErrorEndsConnection

\* mRunUntil: it succeeds only with the client still secure.
LEMMA RunSound ==
    ASSUME NEW x, Sound(x), x.secure, NEW q \in mRunUntil(x)
    PROVE  Sound(q.w) /\ (q.ret = TRUE => q.w.secure)
<1>1. PICK r \in mUpdateEngine(x) : q \in Looked(x, r)
  BY DEF mRunUntil
<1>2. Sound(r.w) /\ (r.st # "stopped" => r.w.secure)
  BY UpdateSound
<1>3. CASE r.st \in {"stopped", "closed"} \/ x.writeError
  BY <1>1, <1>2, <1>3 DEF Looked, Outcome
<1>4. CASE ~(r.st \in {"stopped", "closed"} \/ x.writeError)
  <2>1. r.w.secure
    BY <1>2, <1>4
  <2>2. \/ q \in {Outcome(TRUE, r.w), Outcome(TRUE, EngineData(r.w))}
        \/ \E y \in stop(Failed(r.w)) : q = Outcome(FALSE, y)
    BY <1>1, <1>4 DEF Looked, When
  <2>3. CASE q \in {Outcome(TRUE, r.w), Outcome(TRUE, EngineData(r.w))}
    BY <1>2, <2>1, <2>3, EngineDataSound DEF Outcome
  <2>4. CASE \E y \in stop(Failed(r.w)) : q = Outcome(FALSE, y)
    BY <1>2, <2>1, <2>4, StopFailedSound DEF Outcome
  <2> QED BY <2>2, <2>3, <2>4
<1> QED BY <1>3, <1>4

LEMMA FlushSound ==
    ASSUME NEW x, Sound(x), NEW y \in flush(x)
    PROVE  Sound(y)
  BY RunSound DEF flush

\* connected(): the error it may set is that of a transport that is gone.
LEMMA ConnectedSound ==
    ASSUME NEW x, Sound(x), NEW r \in connected(x)
    PROVE  Sound(r.w) /\ r.w.secure = x.secure
<1>1. PICK e \in BOOLEAN : /\ r.w = [x EXCEPT !.writeError = e]
                           /\ e = x.writeError \/ ~x.open
  <2> DEFINE N == IF x.secure /\ Usable(x) /\ ~x.open THEN {x.writeError, TRUE}
                                                     ELSE {x.writeError}
             v == IF x.secure THEN x.open /\ Usable(x) ELSE x.open
  <2>1. r \in {Outcome(v, [x EXCEPT !.writeError = e]) : e \in N}
    BY DEF connected
  <2>2. \A e \in N : e \in BOOLEAN /\ (e = x.writeError \/ ~x.open)
    BY DEF Sound, World
  <2> HIDE DEF N, v
  <2>3. PICK e \in N : r = Outcome(v, [x EXCEPT !.writeError = e])
    BY <2>1
  <2> QED BY <2>2, <2>3 DEF Outcome
<1> QED BY <1>1 DEF Sound, World, Owned, HandshakeHere, ErrorEndsConnection

--------------------------------------------------------------------------------
(* Connecting.                                                                  *)

\* mConnectSSL: a handshake that fails anywhere leaves no engine behind; one
\* that succeeds belongs to the connection that is open.
LEMMA HandshakeSound ==
    ASSUME NEW x \in World, NEW r \in mConnectSSL(x)
    PROVE  Sound(r.w)
<1>1. \/ \E got \in Allocations : r.w = OutOfMemory(x, got)
      \/ \E end \in Ends(x) : r.w = Refused(x, end)
      \/ r.w \in {Secured(x), EngineData(Secured(x))}
  <2> DEFINE A == {Outcome(FALSE, OutOfMemory(x, got)) : got \in Allocations \ {Everything}}
             B == {Outcome(FALSE, Refused(x, end)) : end \in Ends(x)}
             C == {Outcome(TRUE, y) : y \in {Secured(x), EngineData(Secured(x))}}
  <2>1. r \in A \cup B \cup When(x.open /\ ~x.pending, C)
    BY DEF mConnectSSL
  <2>2. ASSUME r \in A
        PROVE  \E got \in Allocations : r.w = OutOfMemory(x, got)
    BY <2>2 DEF Outcome
  <2>3. ASSUME r \in B
        PROVE  \E end \in Ends(x) : r.w = Refused(x, end)
    BY <2>3 DEF Outcome
  <2>4. ASSUME r \in C
        PROVE  r.w \in {Secured(x), EngineData(Secured(x))}
    BY <2>4 DEF Outcome
  <2> HIDE DEF A, B, C
  <2> QED BY <2>1, <2>2, <2>3, <2>4 DEF When
<1>2. Cleared(x) \in World
  BY DEF Cleared, mFreeSSL, World
<1>3. \A got \in Allocations : Sound(OutOfMemory(x, got))
  <2> SUFFICES ASSUME NEW got \in Allocations
               PROVE  Sound(OutOfMemory(x, got))
    OBVIOUS
  <2>1. Allocated(x, got) \in World
    BY <1>2 DEF Allocated, Allocations, World
  <2>2. Sound(mFreeSSL(Allocated(x, got)))
    BY <2>1, FreeSound
  <2> QED BY <2>2 DEF OutOfMemory, Sound, World, Owned, HandshakeHere, ErrorEndsConnection
<1>4. Started(x) \in World
  <2>1. Allocated(x, Everything) \in World
    BY <1>2 DEF Allocated, Everything, World
  <2> QED BY <2>1 DEF Started, World
<1>5. \A end \in Ends(x) : Sound(Refused(x, end))
  <2> SUFFICES ASSUME NEW end \in Ends(x)
               PROVE  Sound(Refused(x, end))
    OBVIOUS
  <2>1. end.open \in BOOLEAN /\ end.engOpen \in BOOLEAN /\ end.writeError \in BOOLEAN
    BY DEF Ends, World
  <2>2. [Started(x) EXCEPT !.open = end.open, !.engOpen = end.engOpen,
                           !.writeError = end.writeError] \in World
    BY <1>4, <2>1 DEF World
  <2> QED BY <2>2, FreeSound DEF Refused
<1>6. Sound(Secured(x)) /\ Secured(x).secure
  <2>1. /\ Started(x).sc /\ Started(x).bufs /\ Started(x).engHere
        /\ ~Started(x).writeError
    BY <1>2 DEF Started, Allocated, Everything, World
  <2>2. Secured(x) \in World
    BY <1>4 DEF Secured, World
  <2>3. /\ Secured(x).sc /\ Secured(x).bufs = Secured(x).sc /\ ~Secured(x).x509
        /\ Secured(x).isConnected /\ Secured(x).handshakeDone
        /\ Secured(x).engHere /\ ~Secured(x).writeError /\ Secured(x).secure
    BY <1>4, <2>1 DEF Secured, World
  <2> QED BY <2>2, <2>3 DEF Sound, Owned, HandshakeHere, ErrorEndsConnection
<1> QED BY <1>1, <1>3, <1>5, <1>6, EngineDataSound

\* mConnectBasicClient: the new connection is plain; a failure frees the engine.
LEMMA OpenPlainSound ==
    ASSUME NEW x, Sound(x), NEW t \in AnyTarget, NEW r \in OpenPlain(x, t)
    PROVE  Sound(r.w)
<1>1. PICK q \in SocketConnect(x, t) : r = Opened(q)
  BY DEF OpenPlain
<1>2. CASE q = Outcome(FALSE, CloseSocket(x))
  <2>1. Failed(CloseSocket(x)) \in World
    BY DEF Failed, CloseSocket, Sound, World
  <2> QED BY <1>1, <1>2, <2>1, FreeSound DEF Opened, Outcome
<1>3. CASE q = Outcome(TRUE, [x EXCEPT !.open = TRUE, !.peer = t, !.engHere = FALSE,
                                 !.recv = IF @ = "none" THEN "none" ELSE "old"])
  <2> DEFINE z == [x EXCEPT !.open = TRUE, !.peer = t, !.engHere = FALSE,
                            !.recv = IF @ = "none" THEN "none" ELSE "old"]
  <2>1. z \in World /\ Owned(z)
    BY DEF Sound, World, Owned
  <2>2. r.w = [z EXCEPT !.secure = FALSE, !.pending = FALSE]
    BY <1>1, <1>3 DEF Opened, Outcome
  <2> HIDE DEF z
  <2>3. r.w \in World /\ ~r.w.secure
    BY <2>1, <2>2 DEF World
  <2>4. Owned(r.w)
    BY <2>1, <2>2 DEF Owned, World
  <2> QED BY <2>3, <2>4 DEF Sound, HandshakeHere, ErrorEndsConnection
<1> QED BY <1>1, <1>2, <1>3 DEF SocketConnect, When

\* Storing a target touches nothing else.
LEMMA RememberSound ==
    ASSUME NEW x, Sound(x), NEW t \in AnyTarget
    PROVE  Sound(Remember(x, t))
<1>1. t.addr \in ByHost \cup ByIp /\ t.port \in Ports \cup {NoPort}
  BY DEF AnyTarget
<1> QED BY <1>1 DEF Remember, Sound, World, Owned, HandshakeHere, ErrorEndsConnection

LEMMA ConnectSSLSound ==
    ASSUME NEW x, Sound(x), NEW t \in AnyTarget, NEW q \in connectSSL(x, t)
    PROVE  Sound(q.w)
<1>1. PICK r \in Based(x, t) : q \in IF r.ret THEN mConnectSSL(Remember(r.w, t)) ELSE {r}
  BY DEF connectSSL
<1>2. Sound(r.w)
  BY <1>1, OpenPlainSound DEF Based, Outcome
<1>3. Remember(r.w, t) \in World
  BY <1>2, RememberSound DEF Sound
<1> QED BY <1>1, <1>2, <1>3, HandshakeSound

LEMMA ConnectPlainSound ==
    ASSUME NEW x, Sound(x), NEW t \in AnyTarget, NEW q \in ConnectPlain(x, t)
    PROVE  Sound(q.w)
<1>1. PICK r \in OpenPlain(x, t) : q = Plain(r, t)
  BY DEF ConnectPlain
<1>2. Sound(r.w)
  BY OpenPlainSound
<1> DEFINE i == t.addr \in ByIp
<1>4. i \in BOOLEAN
  OBVIOUS
<1> HIDE DEF i
<1>3. Sound([r.w EXCEPT !.withIp = i, !.ts = "fresh"])
  <2> DEFINE y == [r.w EXCEPT !.withIp = i, !.ts = "fresh"]
  <2>1. y \in World
    BY <1>2, <1>4 DEF Sound, World
  <2>2. Watched(y) = Watched(r.w)
    BY <1>2 DEF Watched, Sound, World
  <2> QED BY <1>2, <2>1, <2>2, SameSound
<1> QED BY <1>1, <1>2, <1>3 DEF Plain, Outcome, i

LEMMA ConnectClosedSound ==
    ASSUME NEW x, Sound(x), NEW t \in AnyTarget, NEW q \in ConnectClosed(x, t)
    PROVE  Sound(q.w)
  BY ConnectSSLSound, ConnectPlainSound DEF ConnectClosed

LEMMA StoredTyped ==
    ASSUME NEW x, Sound(x)
    PROVE  Stored(x) \in AnyTarget
  BY DEF Stored, Sound, World, AnyTarget

\* mCheckSessionTimeout: replacing an idle connection, TLS or plain.
LEMMA TimeoutSound ==
    ASSUME NEW x, Sound(x), NEW r \in mCheckSessionTimeout(x)
    PROVE  Sound(r.w)
<1>1. CASE ~TimedOut(x)
  BY <1>1 DEF mCheckSessionTimeout, Outcome
<1>2. CASE TimedOut(x) /\ x.secure
  <2>1. PICK y \in stop(x) : r \in connectSSL(y, Stored(y))
    BY <1>2 DEF mCheckSessionTimeout
  <2>2. Sound(y)
    BY StopSound DEF Sound
  <2> QED BY <2>1, <2>2, StoredTyped, ConnectSSLSound
<1>3. CASE TimedOut(x) /\ ~x.secure
  <2>1. r \in ConnectClosed(CloseSocket(x), Stored(x))
    BY <1>3 DEF mCheckSessionTimeout
  <2> QED BY <2>1, CloseSound, StoredTyped, ConnectClosedSound
<1> QED BY <1>1, <1>2, <1>3

LEMMA ValidateSound ==
    ASSUME NEW x, Sound(x), NEW t, NEW y \in mConnectionValidate(x, t)
    PROVE  Sound(y)
<1>1. Sound(IF Matches(x, t) THEN x ELSE CloseSocket(x))
  BY CloseSound
<1> QED BY <1>1, TimeoutSound DEF mConnectionValidate

LEMMA ConnectSound ==
    ASSUME NEW x, Sound(x), NEW t \in AnyTarget, NEW r \in connect(x, t)
    PROVE  Sound(r.w)
<1>1. CASE IsSecure(x, t)
  BY <1>1, ConnectSSLSound DEF connect
<1>2. CASE ~IsSecure(x, t)
  <2>1. PICK y \in mConnectionValidate(x, t) : r \in ConnectPlain(y, t)
    BY <1>2 DEF connect
  <2> QED BY <2>1, ValidateSound, ConnectPlainSound
<1> QED BY <1>1, <1>2

--------------------------------------------------------------------------------
(* Data, probes and settings.                                                   *)

LEMMA AvailableSound ==
    ASSUME NEW x, Sound(x), NEW q \in available(x)
    PROVE  Sound(q.w)
<1>1. CASE x.recv # "none" \/ ~x.secure \/ ~mSoftConnected(x)
  BY <1>1 DEF available, Outcome
<1>2. CASE ~(x.recv # "none" \/ ~x.secure \/ ~mSoftConnected(x))
  <2>1. PICK r \in mUpdateEngine(x) : q = Found(r)
    BY <1>2 DEF available
  <2>2. Sound(r.w) /\ (r.st # "stopped" => r.w.secure)
    BY <1>2, UpdateSound
  <2> QED BY <2>1, <2>2, EngineDataSound DEF Found, Outcome
<1> QED BY <1>1, <1>2

LEMMA ConsumeSound ==
    ASSUME NEW x, Sound(x)
    PROVE  Sound(peekConsume(x))
  BY DEF peekConsume, Sound, World, Owned, HandshakeHere, ErrorEndsConnection

LEMMA ReadSound ==
    ASSUME NEW x, Sound(x), NEW q \in read(x)
    PROVE  Sound(q.w)
  BY AvailableSound, ConsumeSound DEF read, Outcome

\* write(): also when it replaced an idle connection first.
LEMMA WriteSound ==
    ASSUME NEW x, Sound(x), NEW q \in write(x)
    PROVE  Sound(q.w)
<1>1. PICK r \in mCheckSessionTimeout(x) : q \in Sent(r)
  BY DEF write
<1>2. Sound(r.w)
  BY TimeoutSound
<1> DEFINE z == Stamped(r.w)
<1>3. Sound(z) /\ z.secure = r.w.secure
  BY <1>2 DEF Stamped, Sound, World, Owned, HandshakeHere, ErrorEndsConnection
<1> HIDE DEF z
<1>4. CASE q.w = r.w
  BY <1>2, <1>4
<1>5. CASE q \in WritePlain(z)
  BY <1>3, <1>5 DEF WritePlain, Via, When
<1>6. CASE q \in WriteTls(z) /\ z.secure
  <2>1. CASE ~mSoftConnected(z)
    BY <1>3, <1>6, <2>1 DEF WriteTls, Via
  <2>2. CASE mSoftConnected(z)
    <3>1. PICK c \in mRunUntil(z) : q \in Filled(c)
      BY <1>6, <2>2 DEF WriteTls
    <3>2. Sound(c.w)
      BY <1>3, <1>6, RunSound
    <3>3. \A p \in BOOLEAN : Sound([c.w EXCEPT !.pending = p])
      BY <3>2 DEF Sound, World, Owned, HandshakeHere, ErrorEndsConnection
    <3>4. q.w = c.w \/ \E p \in BOOLEAN : q.w = [c.w EXCEPT !.pending = p]
      BY <3>1 DEF Filled, Via, When
    <3> QED BY <3>2, <3>3, <3>4
  <2> QED BY <2>1, <2>2
<1>7. q.w = r.w \/ q \in WritePlain(z) \/ (q \in WriteTls(z) /\ z.secure)
  BY <1>1, <1>3 DEF Sent, Via, z
<1> QED BY <1>4, <1>5, <1>6, <1>7

LEMMA RoomSound ==
    ASSUME NEW x, Sound(x), NEW q \in availableForWrite(x)
    PROVE  Sound(q.w)
<1>1. CASE ~x.secure
  BY <1>1 DEF availableForWrite, Outcome
<1>2. CASE x.secure
  <2>1. PICK c \in connected(x) : q \in Room(x, c)
    BY <1>2 DEF availableForWrite
  <2>2. Sound(c.w) /\ c.w.secure
    BY <1>2, ConnectedSound
  <2> QED BY <2>1, <2>2, RunSound DEF Room
<1> QED BY <1>1, <1>2

\* mProbeMaxFragmentLength: whatever it connected to is closed again.
LEMMA ProbeSound ==
    ASSUME NEW x, Sound(x), NEW t \in AnyTarget, NEW q \in mProbeMaxFragmentLength(x, t)
    PROVE  Sound(q.w)
<1> DEFINE y == CloseSocket(x)
<1>1. PICK r \in SocketConnect(y, t) : q.w = CloseSocket(r.w)
  BY DEF mProbeMaxFragmentLength, Outcome
<1>2. Sound(y)
  BY CloseSound
<1> HIDE DEF y
<1>3. CASE r = Outcome(FALSE, CloseSocket(y))
  BY <1>1, <1>2, <1>3, CloseSound DEF Outcome
<1>4. CASE r = Outcome(TRUE, [y EXCEPT !.open = TRUE, !.peer = t, !.engHere = FALSE,
                                 !.recv = IF @ = "none" THEN "none" ELSE "old"])
  <2>1. q.w = [y EXCEPT !.open = FALSE, !.peer = t, !.engHere = FALSE,
                        !.recv = IF @ = "none" THEN "none" ELSE "old"]
    BY <1>1, <1>4, <1>2 DEF Outcome, CloseSocket, Sound, World
  <2> DEFINE d == IF y.recv = "none" THEN "none" ELSE "old"
  <2>4. d \in {"none", "this", "old"} /\ y \in World
    BY <1>2 DEF Sound
  <2>5. q.w = [y EXCEPT !.open = FALSE, !.peer = t, !.engHere = FALSE, !.recv = d]
    BY <2>1
  <2> HIDE DEF d
  <2>2. q.w \in World /\ ~q.w.open
    BY <2>4, <2>5 DEF World
  <2>3. Owned(q.w) /\ (q.w.secure => q.w.isConnected /\ q.w.handshakeDone)
    BY <1>2, <2>1 DEF Sound, World, Owned, HandshakeHere
  <2> QED BY <2>2, <2>3 DEF Sound, HandshakeHere, ErrorEndsConnection
<1> QED BY <1>1, <1>3, <1>4 DEF SocketConnect, When

LEMMA SettingsSound ==
    ASSUME NEW x, Sound(x), NEW b \in BOOLEAN
    PROVE  /\ Sound(setTimeout(x)) /\ Sound(setSessionTimeout(x, b))
           /\ Sound(enableSSL(x, b)) /\ Sound(setClient(x, b))
<1>1. /\ setTimeout(x) \in World /\ Watched(setTimeout(x)) = Watched(x)
      /\ setSessionTimeout(x, b) \in World /\ Watched(setSessionTimeout(x, b)) = Watched(x)
  BY DEF setTimeout, setSessionTimeout, Watched, Sound, World
<1>2. /\ enableSSL(x, b) \in World /\ Watched(enableSSL(x, b)) = Watched(x)
  BY DEF enableSSL, Watched, Sound, World
<1>3. /\ setClient(x, b) \in World /\ Watched(setClient(x, b)) = Watched(CloseSocket(x))
  BY DEF setClient, CloseSocket, Watched, Sound, World
<1> QED BY <1>1, <1>2, <1>3, CloseSound, SameSound

--------------------------------------------------------------------------------
(* The specification.                                                           *)

LEMMA NewWorldSound == Sound(NewWorld)
<1>1. NoTarget \in AnyTarget
  BY DEF NoTarget, AnyTarget, ByHost
<1>2. NewWorld \in World
  BY <1>1 DEF NewWorld, World, ByHost, ByIp
<1> QED BY <1>2 DEF NewWorld, Sound, Owned, HandshakeHere, ErrorEndsConnection

LEMMA StepSound ==
    ASSUME Sound(w), [Next]_w
    PROVE  Sound(w')
<1>1. ASSUME NEW t \in Targets, Connect(t) \/ ConnectSSL(t) \/ Validate(t) \/ Probe(t)
      PROVE  Sound(w')
  <2>1. t \in AnyTarget
    BY DEF Targets, AnyTarget, ByHost, ByIp
  <2> QED BY <1>1, <2>1, ConnectSound, ConnectSSLSound, ValidateSound, ProbeSound
          DEF Connect, ConnectSSL, Validate, Probe
<1>2. CASE Stop
  BY <1>2, StopSound DEF Stop, Sound
<1>3. CASE Write
  BY <1>3, WriteSound DEF Write
<1>4. CASE Available \/ Read
  BY <1>4, AvailableSound, ReadSound DEF Available, Read
<1>5. CASE Flush \/ PeekConsume
  BY <1>5, FlushSound, ConsumeSound DEF Flush, PeekConsume
<1>6. CASE Connected \/ AvailableForWrite
  BY <1>6, ConnectedSound, RoomSound DEF Connected, AvailableForWrite
<1>7. ASSUME NEW b \in BOOLEAN, SetTimeout \/ SetSessionTimeout(b) \/ EnableSSL(b) \/ SetClient(b)
      PROVE  Sound(w')
  BY <1>7, SettingsSound DEF SetTimeout, SetSessionTimeout, EnableSSL, SetClient
<1>8. CASE PeerCloses
  BY <1>8, CloseSound DEF PeerCloses
<1>9. CASE IdleTooLong
  BY <1>9 DEF IdleTooLong, Sound, World, Owned, HandshakeHere, ErrorEndsConnection
<1>10. CASE UNCHANGED w
  BY <1>10
<1> QED BY <1>1, <1>2, <1>3, <1>4, <1>5, <1>6, <1>7, <1>8, <1>9, <1>10 DEF Next

\* Every reachable world is sound.
THEOREM Soundness == Spec => []Sound(w)
<1>1. Init => Sound(w)
  BY NewWorldSound DEF Init
<1>2. Sound(w) /\ [Next]_w => Sound(w)'
  BY StepSound
<1> QED BY <1>1, <1>2, PTL DEF Spec

\* Every member of the client stays within its range.
THEOREM TypeCorrect == Spec => []TypeOK
<1>1. Sound(w) => TypeOK
  BY DEF Sound, TypeOK
<1> QED BY <1>1, Soundness, PTL

\* No call that tests _secure or _recvapp_len and then uses the engine or its
\* buffers finds them freed, and no failed mConnectSSL leaks one of them.
THEOREM EngineStaysOwned == Spec => []EngineOwned
<1>1. Sound(w) => EngineOwned
  BY DEF Sound, EngineOwned
<1> QED BY <1>1, Soundness, PTL

\* No reconnection of the transport leaves an engine in use whose handshake ran
\* on another TCP connection.
THEOREM EngineKeepsItsConnection == Spec => []EngineOnItsConnection
<1>1. Sound(w) => EngineOnItsConnection
  BY DEF Sound, EngineOnItsConnection
<1> QED BY <1>1, Soundness, PTL

\* No secure connection stays open after a write error.
THEOREM WriteErrorsAreFinal == Spec => []WriteErrorIsFinal
<1>1. Sound(w) => WriteErrorIsFinal
  BY DEF Sound, WriteErrorIsFinal
<1> QED BY <1>1, Soundness, PTL

--------------------------------------------------------------------------------
(* TCPClient, which calls it.                                                   *)

Kept(x, y) ==
    /\ y.limit = x.limit /\ y.peer = x.peer
    /\ y.open => x.open
    /\ y.open /\ x.secure => y.secure

LEMMA KeptTwice ==
    ASSUME NEW x, NEW y, NEW z, Kept(x, y), Kept(y, z)
    PROVE  Kept(x, z)
  BY DEF Kept

LEMMA KeptSame ==
    ASSUME NEW x
    PROVE  Kept(x, x)
  BY DEF Kept

LEMMA OutcomeParts ==
    ASSUME NEW v \in BOOLEAN, NEW x
    PROVE  Outcome(v, x).ret \in BOOLEAN /\ Outcome(v, x).ret = v /\ Outcome(v, x).w = x
  BY DEF Outcome

--------------------------------------------------------------------------------
(* The calls that do not connect.                                               *)

\* stop() closes the transport of a secure client.
LEMMA StopKeeps ==
    ASSUME NEW x \in World, NEW y \in stop(x)
    PROVE  Kept(x, y) /\ (x.secure => ~y.open)
<1>1. CASE ~x.secure
  BY <1>1, KeptSame DEF stop
<1>2. CASE x.secure
  <2> DEFINE L == {x.pending} \cup When(x.open /\ Usable(x), {FALSE})
             E == {x.writeError} \cup When(Usable(x), {TRUE})
  <2>1. y \in {Ended(x, left, error) : left \in L, error \in E}
    BY <1>2 DEF stop
  <2> HIDE DEF L, E
  <2>2. PICK p \in L, e \in E : y = Ended(x, p, e)
    BY <2>1
  <2> QED BY <2>2 DEF Ended, mFreeSSL, CloseSocket, World, Kept
<1> QED BY <1>1, <1>2

LEMMA StopFailedKeeps ==
    ASSUME NEW x \in World, NEW y \in stop(Failed(x))
    PROVE  Kept(x, y)
<1>1. Failed(x) \in World /\ Kept(x, Failed(x))
  BY DEF Failed, World, Kept
<1> QED BY <1>1, StopKeeps, KeptTwice

LEMMA UpdateKeeps ==
    ASSUME NEW x \in World, NEW r \in mUpdateEngine(x)
    PROVE  Kept(x, r.w)
<1>1. /\ Kept(x, Moved(x)) /\ Kept(x, [x EXCEPT !.engOpen = FALSE])
      /\ Kept(x, [Moved(x) EXCEPT !.engOpen = FALSE])
  BY DEF Moved, World, Kept
<1>2. \/ r.w \in {Moved(x), [x EXCEPT !.engOpen = FALSE], [Moved(x) EXCEPT !.engOpen = FALSE]}
      \/ r.w \in stop(Failed(x))
  BY DEF mUpdateEngine, When, EngineClosed, State
<1> QED BY <1>1, <1>2, StopFailedKeeps

LEMMA EngineDataKeeps ==
    ASSUME NEW x \in World
    PROVE  Kept(x, EngineData(x))
  BY DEF EngineData, World, Kept

LEMMA RunKeeps ==
    ASSUME NEW x, Sound(x), x.secure, NEW q \in mRunUntil(x)
    PROVE  Kept(x, q.w) /\ q.ret \in BOOLEAN
<1>1. PICK r \in mUpdateEngine(x) : q \in Looked(x, r)
  BY DEF mRunUntil
<1>2. Kept(x, r.w) /\ r.w \in World
  BY UpdateKeeps, UpdateSound DEF Sound
<1>3. \/ q \in {Outcome(FALSE, r.w), Outcome(TRUE, r.w), Outcome(TRUE, EngineData(r.w))}
      \/ \E y \in stop(Failed(r.w)) : q = Outcome(FALSE, y)
  BY <1>1 DEF Looked, When
<1>4. CASE q \in {Outcome(FALSE, r.w), Outcome(TRUE, r.w), Outcome(TRUE, EngineData(r.w))}
  <2>1. q.ret \in BOOLEAN /\ q.w \in {r.w, EngineData(r.w)}
    BY <1>4, OutcomeParts, Zenon
  <2>2. Kept(x, EngineData(r.w))
    BY <1>2, EngineDataKeeps, KeptTwice
  <2> QED BY <1>2, <2>1, <2>2
<1>5. CASE \E y \in stop(Failed(r.w)) : q = Outcome(FALSE, y)
  BY <1>2, <1>5, StopFailedKeeps, KeptTwice DEF Outcome
<1> QED BY <1>3, <1>4, <1>5

\* connected() says no when the transport is gone.
LEMMA ConnectedKeeps ==
    ASSUME NEW x, Sound(x), NEW r \in connected(x)
    PROVE  Kept(x, r.w) /\ r.ret \in BOOLEAN /\ (r.ret => r.w.open)
<1> DEFINE N == IF x.secure /\ Usable(x) /\ ~x.open THEN {x.writeError, TRUE}
                                                   ELSE {x.writeError}
           v == IF x.secure THEN x.open /\ Usable(x) ELSE x.open
<1>1. r \in {Outcome(v, [x EXCEPT !.writeError = e]) : e \in N}
  BY DEF connected
<1>2. v \in BOOLEAN /\ (v => x.open)
  BY DEF Sound, World, Usable
<1> HIDE DEF N, v
<1>3. PICK e \in N : r = Outcome(v, [x EXCEPT !.writeError = e])
  BY <1>1
<1> QED BY <1>2, <1>3 DEF Outcome, Sound, World, Kept

LEMMA AvailableKeeps ==
    ASSUME NEW x, Sound(x), NEW q \in available(x)
    PROVE  Kept(x, q.w) /\ q.ret \in BOOLEAN
<1>1. CASE x.recv # "none" \/ ~x.secure \/ ~mSoftConnected(x)
  <2>1. \E v \in BOOLEAN : q = Outcome(v, x)
    BY <1>1 DEF available
  <2>2. q.ret \in BOOLEAN /\ q.w = x
    BY <2>1, OutcomeParts
  <2> QED BY <2>2, KeptSame
<1>2. CASE ~(x.recv # "none" \/ ~x.secure \/ ~mSoftConnected(x))
  <2>1. PICK r \in mUpdateEngine(x) : q = Found(r)
    BY <1>2 DEF available
  <2>2. r.w \in World /\ Kept(x, r.w)
    BY <1>2, UpdateSound, UpdateKeeps DEF Sound
  <2> QED BY <2>1, <2>2, EngineDataKeeps, KeptTwice DEF Found, Outcome
<1> QED BY <1>1, <1>2

LEMMA ConsumeKeeps ==
    ASSUME NEW x, Sound(x)
    PROVE  Kept(x, peekConsume(x))
  BY DEF peekConsume, Sound, World, Kept

LEMMA ReadKeeps ==
    ASSUME NEW x, Sound(x), NEW q \in read(x)
    PROVE  Kept(x, q.w) /\ q.ret \in BOOLEAN
<1>1. CASE q \in available(x)
  BY <1>1, AvailableKeeps
<1>2. ASSUME NEW r \in available(x), q = Outcome(TRUE, peekConsume(r.w))
      PROVE  Kept(x, q.w) /\ q.ret \in BOOLEAN
  BY <1>2, AvailableKeeps, AvailableSound, ConsumeKeeps, KeptTwice DEF Outcome
<1> QED BY <1>1, <1>2 DEF read

LEMMA RoomKeeps ==
    ASSUME NEW x, Sound(x), NEW q \in availableForWrite(x)
    PROVE  Kept(x, q.w) /\ q.ret \in BOOLEAN
<1>1. CASE ~x.secure
  <2>1. q = Outcome(FALSE, x)
    BY <1>1 DEF availableForWrite
  <2> QED BY <2>1, OutcomeParts, KeptSame, Zenon
<1>2. CASE x.secure
  <2>1. PICK c \in connected(x) : q \in Room(x, c)
    BY <1>2 DEF availableForWrite
  <2>2. Sound(c.w) /\ c.w.secure /\ Kept(x, c.w) /\ c.ret \in BOOLEAN
    BY <1>2, ConnectedSound, ConnectedKeeps
  <2> QED BY <2>1, <2>2, RunKeeps, KeptTwice DEF Room
<1> QED BY <1>1, <1>2

LEMMA SettingsKeep ==
    ASSUME NEW x, Sound(x), NEW b \in BOOLEAN
    PROVE  Kept(x, setTimeout(x)) /\ Kept(x, enableSSL(x, b)) /\ Kept(x, CloseSocket(x))
  BY DEF setTimeout, enableSSL, CloseSocket, Sound, World, Kept

--------------------------------------------------------------------------------
(* Connecting.                                                                  *)

LEMMA OpenPlainLeads ==
    ASSUME NEW x, Sound(x), NEW t \in AnyTarget, NEW r \in OpenPlain(x, t)
    PROVE  /\ r.ret \in BOOLEAN
           /\ r.w.limit = x.limit
           /\ r.ret => r.w.open /\ r.w.peer = t
<1> DEFINE z == [x EXCEPT !.open = TRUE, !.peer = t, !.engHere = FALSE,
                          !.recv = IF @ = "none" THEN "none" ELSE "old"]
<1>1. PICK q \in SocketConnect(x, t) : r = Opened(q)
  BY DEF OpenPlain
<1>2. z.open /\ z.peer = t /\ z.limit = x.limit /\ z \in World
  BY DEF Sound, World
<1>3. q \in {Outcome(FALSE, CloseSocket(x)), Outcome(TRUE, z)}
  BY <1>1 DEF SocketConnect, When
<1> HIDE DEF z
<1>4. CASE q = Outcome(FALSE, CloseSocket(x))
  BY <1>1, <1>4 DEF Outcome, Opened, mFreeSSL, Failed, CloseSocket, Sound, World
<1>5. CASE q = Outcome(TRUE, z)
  BY <1>1, <1>2, <1>5 DEF Outcome, Opened, World
<1> QED BY <1>3, <1>4, <1>5

\* The engine set up changes nothing of the connection.
LEMMA EngineStarts ==
    ASSUME NEW y \in World
    PROVE  LET z == [y EXCEPT !.engOpen = TRUE, !.engHere = TRUE, !.writeError = FALSE]
           IN  z \in World /\ z.limit = y.limit /\ z.peer = y.peer
<1> DEFINE z == [y EXCEPT !.engOpen = TRUE, !.engHere = TRUE, !.writeError = FALSE]
<1>1. z \in World
  BY DEF World
<1>2. z.limit = y.limit /\ z.peer = y.peer
  BY DEF World
<1> QED BY <1>1, <1>2

LEMMA HandshakeKeeps ==
    ASSUME NEW x \in World, NEW r \in mConnectSSL(x)
    PROVE  /\ r.ret \in BOOLEAN
           /\ r.w.limit = x.limit
           /\ r.ret => r.w.secure /\ r.w.peer = x.peer
<1> DEFINE A == {Outcome(FALSE, OutOfMemory(x, got)) : got \in Allocations \ {Everything}}
           B == {Outcome(FALSE, Refused(x, end)) : end \in Ends(x)}
           C == {Outcome(TRUE, y) : y \in {Secured(x), EngineData(Secured(x))}}
<1>1. r \in A \cup B \cup When(x.open /\ ~x.pending, C)
  BY DEF mConnectSSL
<1>2. Cleared(x) \in World /\ Cleared(x).limit = x.limit /\ Cleared(x).peer = x.peer
  BY DEF Cleared, mFreeSSL, World
<1>3. ASSUME NEW got \in Allocations
      PROVE  /\ Allocated(x, got) \in World
             /\ Allocated(x, got).limit = x.limit /\ Allocated(x, got).peer = x.peer
  BY <1>2 DEF Allocated, Allocations, World
<1>4. /\ Started(x) \in World
      /\ Started(x).limit = x.limit /\ Started(x).peer = x.peer
  <2>1. Everything \in Allocations
    BY DEF Everything, Allocations
  <2> DEFINE y == Allocated(x, Everything)
  <2>2. y \in World /\ y.limit = x.limit /\ y.peer = x.peer
    BY <2>1, <1>3
  <2>3. Started(x) = [y EXCEPT !.engOpen = TRUE, !.engHere = TRUE, !.writeError = FALSE]
    BY DEF Started
  <2> HIDE DEF y
  <2> QED BY <2>2, <2>3, EngineStarts
<1>5. ASSUME NEW got \in Allocations
      PROVE  OutOfMemory(x, got).limit = x.limit
  BY <1>3 DEF OutOfMemory, mFreeSSL, World
<1>6. ASSUME NEW end \in Ends(x)
      PROVE  Refused(x, end).limit = x.limit
  BY <1>4 DEF Refused, mFreeSSL, World
<1>7. ASSUME NEW y \in {Secured(x), EngineData(Secured(x))}
      PROVE  y.limit = x.limit /\ y.peer = x.peer /\ y.secure
  <2>1. /\ Secured(x) \in World
        /\ Secured(x).limit = x.limit /\ Secured(x).peer = x.peer /\ Secured(x).secure
    BY <1>4 DEF Secured, World
  <2> QED BY <2>1 DEF EngineData, World
<1>8. ASSUME r \in A
      PROVE  r.ret = FALSE /\ r.w.limit = x.limit
  BY <1>5, <1>8 DEF Outcome
<1>9. ASSUME r \in B
      PROVE  r.ret = FALSE /\ r.w.limit = x.limit
  BY <1>6, <1>9 DEF Outcome
<1>10. ASSUME r \in C
       PROVE  r.ret = TRUE /\ r.w \in {Secured(x), EngineData(Secured(x))}
  BY <1>10 DEF Outcome
<1> HIDE DEF A, B, C
<1> QED BY <1>1, <1>7, <1>8, <1>9, <1>10 DEF When

\* connectSSL(): granted, it is TLS; to the peer of an open transport, or to t.
LEMMA ConnectSSLLeads ==
    ASSUME NEW x, Sound(x), NEW t \in AnyTarget, NEW q \in connectSSL(x, t)
    PROVE  /\ q.ret \in BOOLEAN
           /\ q.w.limit = x.limit
           /\ q.ret => q.w.secure /\ q.w.peer = IF x.open THEN x.peer ELSE t
<1>1. PICK r \in Based(x, t) : q \in IF r.ret THEN mConnectSSL(Remember(r.w, t)) ELSE {r}
  BY DEF connectSSL
<1>2. /\ Sound(r.w) /\ r.ret \in BOOLEAN /\ r.w.limit = x.limit
      /\ r.ret => r.w.peer = IF x.open THEN x.peer ELSE t
  <2>1. CASE x.open
    <3>1. r = Outcome(TRUE, x)
      BY <1>1, <2>1 DEF Based
    <3>2. r.ret \in BOOLEAN /\ r.w = x
      BY <3>1, OutcomeParts, Zenon
    <3> QED BY <2>1, <3>2
  <2>2. CASE ~x.open
    BY <1>1, <2>2, OpenPlainSound, OpenPlainLeads DEF Based
  <2> QED BY <2>1, <2>2
<1>3. /\ Remember(r.w, t) \in World
      /\ Remember(r.w, t).peer = r.w.peer /\ Remember(r.w, t).limit = r.w.limit
  <2>1. Remember(r.w, t) \in World
    BY <1>2, RememberSound DEF Sound
  <2> QED BY <2>1, <1>2 DEF Remember, Sound, World
<1> QED BY <1>1, <1>2, <1>3, HandshakeKeeps

LEMMA ConnectPlainLeads ==
    ASSUME NEW x, Sound(x), NEW t \in AnyTarget, NEW q \in ConnectPlain(x, t)
    PROVE  /\ q.ret \in BOOLEAN
           /\ q.w.limit = x.limit
           /\ q.ret => q.w.peer = t
<1>1. PICK r \in OpenPlain(x, t) : q = Plain(r, t)
  BY DEF ConnectPlain
<1>2. Sound(r.w) /\ r.ret \in BOOLEAN /\ r.w.limit = x.limit /\ (r.ret => r.w.peer = t)
  BY OpenPlainSound, OpenPlainLeads
<1> QED BY <1>1, <1>2 DEF Plain, Outcome, Sound, World

LEMMA TimeoutTyped ==
    ASSUME NEW x, Sound(x), NEW r \in mCheckSessionTimeout(x)
    PROVE  r.ret \in BOOLEAN
<1>1. CASE ~TimedOut(x)
  <2>1. r = Outcome(TRUE, x)
    BY <1>1 DEF mCheckSessionTimeout
  <2> QED BY <2>1, OutcomeParts, Zenon
<1>2. CASE TimedOut(x) /\ x.secure
  <2>1. PICK y \in stop(x) : r \in connectSSL(y, Stored(y))
    BY <1>2 DEF mCheckSessionTimeout
  <2>2. Sound(y)
    BY StopSound DEF Sound
  <2> QED BY <2>1, <2>2, StoredTyped, ConnectSSLLeads
<1>3. CASE TimedOut(x) /\ ~x.secure
  <2>1. r \in ConnectClosed(CloseSocket(x), Stored(x))
    BY <1>3 DEF mCheckSessionTimeout
  <2>2. Sound(CloseSocket(x)) /\ Stored(x) \in AnyTarget
    BY CloseSound, StoredTyped
  <2> QED BY <2>1, <2>2, ConnectSSLLeads, ConnectPlainLeads DEF ConnectClosed
<1> QED BY <1>1, <1>2, <1>3

\* Without a session limit nothing is ever reconnected.
LEMMA NoTimeout ==
    ASSUME NEW x, ~x.limit, NEW r \in mCheckSessionTimeout(x)
    PROVE  r = Outcome(TRUE, x)
  BY DEF mCheckSessionTimeout, TimedOut

LEMMA ValidateKeeps ==
    ASSUME NEW x, Sound(x), ~x.limit, NEW t, NEW y \in mConnectionValidate(x, t)
    PROVE  Kept(x, y)
<1> DEFINE z == IF Matches(x, t) THEN x ELSE CloseSocket(x)
<1>1. Kept(x, z) /\ ~z.limit
  BY KeptSame, SettingsKeep DEF Kept
<1>2. PICK r \in mCheckSessionTimeout(z) : y = r.w
  BY DEF mConnectionValidate
<1> HIDE DEF z
<1>3. r = Outcome(TRUE, z)
  BY <1>1, <1>2, NoTimeout
<1> QED BY <1>1, <1>2, <1>3 DEF Outcome

\* connect(): also after whatever the validation did.
LEMMA ConnectTyped ==
    ASSUME NEW x, Sound(x), NEW t \in AnyTarget, NEW r \in connect(x, t)
    PROVE  r.ret \in BOOLEAN
<1>1. CASE IsSecure(x, t)
  BY <1>1, ConnectSSLLeads DEF connect
<1>2. CASE ~IsSecure(x, t)
  <2>1. PICK y \in mConnectionValidate(x, t) : r \in ConnectPlain(y, t)
    BY <1>2 DEF connect
  <2> QED BY <2>1, ValidateSound, ConnectPlainLeads
<1> QED BY <1>1, <1>2

LEMMA ConnectLeads ==
    ASSUME NEW x, Sound(x), ~x.limit, NEW t \in AnyTarget, NEW r \in connect(x, t)
    PROVE  ~r.w.limit /\ (r.ret /\ ~x.open => r.w.peer = t)
<1>1. CASE IsSecure(x, t)
  BY <1>1, ConnectSSLLeads DEF connect
<1>2. CASE ~IsSecure(x, t)
  <2>1. PICK y \in mConnectionValidate(x, t) : r \in ConnectPlain(y, t)
    BY <1>2 DEF connect
  <2> QED BY <2>1, ValidateSound, ValidateKeeps, ConnectPlainLeads DEF Kept
<1> QED BY <1>1, <1>2

LEMMA ProbeCloses ==
    ASSUME NEW x, Sound(x), NEW t, NEW q \in mProbeMaxFragmentLength(x, t)
    PROVE  q.ret \in BOOLEAN /\ q.w.limit = x.limit /\ ~q.w.open
<1>1. PICK r \in SocketConnect(CloseSocket(x), t), v \in BOOLEAN : q = Outcome(v, CloseSocket(r.w))
  BY DEF mProbeMaxFragmentLength
<1> DEFINE y == CloseSocket(x)
           d == IF y.recv = "none" THEN "none" ELSE "old"
<1>2. y.limit = x.limit
  BY DEF CloseSocket, Sound, World
<1>3. r.w \in {CloseSocket(y), [y EXCEPT !.open = TRUE, !.peer = t, !.engHere = FALSE, !.recv = d]}
  BY <1>1 DEF SocketConnect, When, Outcome
<1>4. y \in World
  BY CloseSound DEF Sound
<1> HIDE DEF y, d
<1>5. CloseSocket(r.w).limit = x.limit /\ ~CloseSocket(r.w).open
  BY <1>2, <1>3, <1>4 DEF CloseSocket, World
<1> QED BY <1>1, <1>5, OutcomeParts

LEMMA ViaParts ==
    ASSUME NEW v \in BOOLEAN, NEW x, NEW how \in {"none", "plain", "tls"}
    PROVE  /\ Via(v, x, how).ret \in BOOLEAN /\ Via(v, x, how).via \in {"none", "plain", "tls"}
           /\ Via(v, x, how).w = x /\ Via(v, x, how).via = how
  BY DEF Via

\* What a secure client writes leaves in TLS records, to the peer it has.
LEMMA WriteTlsKeeps ==
    ASSUME NEW x, Sound(x), x.secure, NEW q \in WriteTls(x)
    PROVE  q.ret \in BOOLEAN /\ q.via \in {"none", "tls"} /\ Kept(x, q.w)
<1>1. CASE ~mSoftConnected(x)
  <2>1. q = Via(FALSE, x, "none")
    BY <1>1 DEF WriteTls
  <2> QED BY <2>1, ViaParts, KeptSame
<1>2. CASE mSoftConnected(x)
  <2>1. PICK c \in mRunUntil(x) : q \in Filled(c)
    BY <1>2 DEF WriteTls
  <2>2. Kept(x, c.w) /\ c.w \in World
    BY RunKeeps, RunSound DEF Sound
  <2>3. \A p \in BOOLEAN : Kept(c.w, [c.w EXCEPT !.pending = p])
    BY <2>2 DEF World, Kept
  <2>4. q = Via(FALSE, c.w, "none")
        \/ \E p \in BOOLEAN : q = Via(TRUE, [c.w EXCEPT !.pending = p], "tls")
    BY <2>1 DEF Filled, When
  <2>5. CASE q = Via(FALSE, c.w, "none")
    <3>1. q.ret \in BOOLEAN /\ q.via = "none" /\ q.w = c.w
      BY <2>5, ViaParts, Zenon
    <3> QED BY <2>2, <3>1
  <2>6. ASSUME NEW p \in BOOLEAN, q = Via(TRUE, [c.w EXCEPT !.pending = p], "tls")
        PROVE  q.ret \in BOOLEAN /\ q.via \in {"none", "tls"} /\ Kept(x, q.w)
    <3>1. q.ret \in BOOLEAN /\ q.via = "tls" /\ q.w = [c.w EXCEPT !.pending = p]
      BY <2>6, ViaParts
    <3> QED BY <2>2, <2>3, <3>1, KeptTwice
  <2> QED BY <2>4, <2>5, <2>6
<1> QED BY <1>1, <1>2

LEMMA WritePlainKeeps ==
    ASSUME NEW x, NEW q \in WritePlain(x)
    PROVE  q.ret \in BOOLEAN /\ q.via \in {"none", "plain"} /\ q.w = x
<1>1. q = Via(FALSE, x, "none") \/ q = Via(TRUE, x, "plain")
  BY DEF WritePlain, When
<1>2. CASE q = Via(FALSE, x, "none")
  BY <1>2, ViaParts, Zenon
<1>3. CASE q = Via(TRUE, x, "plain")
  BY <1>3, ViaParts, Zenon
<1> QED BY <1>1, <1>2, <1>3

\* After the session timeout was looked at.
LEMMA SentKeeps ==
    ASSUME NEW r, Sound(r.w), NEW q \in Sent(r)
    PROVE  /\ q.ret \in BOOLEAN /\ q.via \in {"none", "plain", "tls"}
           /\ Kept(r.w, q.w)
           /\ r.w.secure => q.via # "plain"
<1>1. Sound(Stamped(r.w)) /\ Kept(r.w, Stamped(r.w)) /\ Stamped(r.w).secure = r.w.secure
  BY DEF Stamped, Sound, World, Owned, HandshakeHere, ErrorEndsConnection, Kept
<1>2. CASE ~r.ret
  <2>1. q = Via(FALSE, r.w, "none")
    BY <1>2 DEF Sent
  <2> QED BY <2>1, ViaParts, KeptSame
<1>3. CASE r.ret /\ r.w.secure
  <2>1. q \in WriteTls(Stamped(r.w))
    BY <1>3 DEF Sent
  <2> QED BY <1>1, <1>3, <2>1, WriteTlsKeeps, KeptTwice
<1>4. CASE r.ret /\ ~r.w.secure
  <2>1. q \in WritePlain(Stamped(r.w))
    BY <1>4 DEF Sent
  <2> QED BY <1>1, <1>4, <2>1, WritePlainKeeps
<1> QED BY <1>2, <1>3, <1>4

LEMMA WriteTyped ==
    ASSUME NEW x, Sound(x), NEW q \in write(x)
    PROVE  q.ret \in BOOLEAN /\ q.via \in {"none", "plain", "tls"}
  BY TimeoutSound, SentKeeps DEF write

LEMMA WriteKeeps ==
    ASSUME NEW x, Sound(x), ~x.limit, NEW q \in write(x)
    PROVE  Kept(x, q.w) /\ (x.secure => q.via # "plain")
<1>1. PICK r \in mCheckSessionTimeout(x) : q \in Sent(r)
  BY DEF write
<1>2. r.w = x
  BY <1>1, NoTimeout, OutcomeParts
<1> QED BY <1>1, <1>2, SentKeeps

--------------------------------------------------------------------------------
(* The types.                                                                   *)

LEMMA TargetsTyped == Targets \subseteq AnyTarget /\ NoTarget \in AnyTarget
  BY DEF Targets, AnyTarget, NoTarget, ByHost, ByIp

\* The inductive invariant for the types.
TInv ==
    /\ Sound(w)
    /\ thost \in ByHost /\ tport \in Ports \cup {NoPort}
    /\ call \in Calls
    /\ asked \in Asked

LEMMA TInitTyped == TInit => TInv
<1> SUFFICES ASSUME TInit PROVE TInv
  OBVIOUS
<1>1. Sound(w)
  BY NewWorldSound, SettingsSound DEF TInit
<1>2. thost \in ByHost /\ tport \in Ports \cup {NoPort}
  BY DEF TInit, ByHost
<1>3. call \in Calls /\ asked \in Asked
  BY TargetsTyped DEF TInit, Calls, Called, Asked, Nothing
<1> QED BY <1>1, <1>2, <1>3 DEF TInv

\* A call that leaves the target and the wish alone needs a sound world.
LEMMA ReturnsTyped ==
    ASSUME TInv, NEW y, Sound(y), Returns(y)
    PROVE  TInv'
<1>1. w' = y /\ UNCHANGED <<thost, tport, asked>>
  BY DEF Returns
<1>2. call' \in Calls
  BY DEF Returns, Calls, Called
<1> QED BY <1>1, <1>2 DEF TInv

\* A wish that was granted or dropped.
LEMMA GrantTyped ==
    ASSUME NEW to \in AnyTarget, NEW tls \in BOOLEAN, NEW op \in {"connect", "connectSSL"}
    PROVE  /\ Called(op) \in Calls
           /\ [on |-> TRUE, to |-> to, tls |-> tls] \in Asked
           /\ Nothing \in Asked
  BY TargetsTyped DEF Calls, Called, Asked, Nothing

LEMMA ConnectsTyped ==
    ASSUME NEW x, Sound(x), NEW t \in Targets, Connects(x, t)
    PROVE  Sound(w') /\ call' \in Calls /\ asked' \in Asked
<1>2. PICK r \in connect(x, t) :
         /\ w' = r.w
         /\ call' = Called("connect")
         /\ asked' = IF r.ret THEN [on |-> TRUE, to |-> t, tls |-> r.w.secure] ELSE Nothing
  BY DEF Connects
<1>3. t \in AnyTarget
  BY TargetsTyped
<1>4. Sound(r.w) /\ r.ret \in BOOLEAN
  BY <1>3, ConnectSound, ConnectTyped
<1>5. r.w.secure \in BOOLEAN
  BY <1>4 DEF Sound, World
<1>6. call' \in Calls /\ asked' \in Asked
  BY <1>2, <1>3, <1>4, <1>5, GrantTyped
<1> QED BY <1>2, <1>4, <1>6

LEMMA TConnectTyped ==
    ASSUME TInv, NEW t \in Targets,
           TConnectWithCertificates(t) \/ \E b \in BOOLEAN : TConnect(t, b)
    PROVE  TInv'
<1>1. Sound(w) /\ Sound(setTimeout(w))
  BY SettingsSound DEF TInv
<1>2. Connects(w, t) \/ Connects(setTimeout(w), t)
  BY DEF TConnect, TConnectWithCertificates
<1>3. Sound(w') /\ call' \in Calls /\ asked' \in Asked
  BY <1>1, <1>2, ConnectsTyped
<1>4. thost' \in ByHost /\ tport' \in Ports \cup {NoPort}
  BY DEF TConnect, TConnectWithCertificates, TInv, Targets
<1> QED BY <1>3, <1>4 DEF TInv

LEMMA TConnectSSLTyped ==
    ASSUME TInv, TConnectSSL
    PROVE  TInv'
<1> DEFINE t == [addr |-> thost, port |-> tport]
           to == IF w.open THEN w.peer ELSE t
<1>1. t \in AnyTarget /\ to \in AnyTarget
  BY DEF TInv, AnyTarget, Sound, World
<1>2. /\ \E r \in connectSSL(w, t) :
            /\ IF r.ret THEN w' = r.w ELSE w' \in stop(r.w)
            /\ call' = Called("connectSSL")
            /\ asked' = IF r.ret THEN [on |-> TRUE, to |-> to, tls |-> TRUE] ELSE Nothing
      /\ UNCHANGED <<thost, tport>>
  BY DEF TConnectSSL
<1> HIDE DEF t, to
<1>3. PICK r \in connectSSL(w, t) :
         /\ IF r.ret THEN w' = r.w ELSE w' \in stop(r.w)
         /\ call' = Called("connectSSL")
         /\ asked' = IF r.ret THEN [on |-> TRUE, to |-> to, tls |-> TRUE] ELSE Nothing
  BY <1>2
<1>4. Sound(r.w) /\ r.ret \in BOOLEAN
  BY <1>1, ConnectSSLSound, ConnectSSLLeads DEF TInv
<1>5. Sound(w')
  BY <1>3, <1>4, StopSound DEF Sound
<1>6. call' \in Calls /\ asked' \in Asked
  BY <1>1, <1>3, <1>4, GrantTyped
<1> QED BY <1>2, <1>5, <1>6 DEF TInv

\* flush() is one or more available(), each after the bytes found were dropped.
LEMMA TFlushFinds ==
    ASSUME Sound(w), TFlush
    PROVE  \E y, q : Sound(y) /\ Kept(w, y) /\ q \in available(y)
                     /\ Returns(q.w)
<1> DEFINE y0 == peekConsume(w)
<1>1. Sound(y0) /\ Kept(w, y0)
  BY ConsumeSound, ConsumeKeeps
<1>2. PICK r \in UNION {available(y) : y \in {y0} \cup {peekConsume(q.w) : q \in available(y0)}} :
         Returns(r.w)
  BY DEF TFlush
<1> HIDE DEF y0
<1>3. PICK y \in {y0} \cup {peekConsume(q.w) : q \in available(y0)} : r \in available(y)
  BY <1>2
<1>4. Sound(y) /\ Kept(w, y)
  <2>1. CASE y = y0
    BY <1>1, <2>1
  <2>2. ASSUME NEW q \in available(y0), y = peekConsume(q.w)
        PROVE  Sound(y) /\ Kept(w, y)
    <3>1. Sound(q.w) /\ Kept(y0, q.w)
      BY <1>1, AvailableSound, AvailableKeeps
    <3> QED BY <1>1, <2>2, <3>1, ConsumeSound, ConsumeKeeps, KeptTwice
  <2> QED BY <1>3, <2>1, <2>2
<1> QED BY <1>2, <1>3, <1>4

LEMMA WriteCallTyped ==
    ASSUME NEW how \in {"none", "plain", "tls"}
    PROVE  [op |-> "write", via |-> how] \in Calls /\ Called("write") \in Calls
  BY DEF Calls, Called

\* One step of the client or the environment.
LEMMA TStepTyped == TInv /\ [TNext]_tvars => TInv'
<1> SUFFICES ASSUME TInv, [TNext]_tvars
             PROVE  TInv'
  OBVIOUS
<1>0. Sound(w)
  BY DEF TInv
<1>1. ASSUME NEW t \in Targets,
             TConnectWithCertificates(t) \/ \E b \in BOOLEAN : TConnect(t, b)
      PROVE  TInv'
  BY <1>1, TConnectTyped
<1>2. CASE TConnectSSL
  BY <1>2, TConnectSSLTyped
<1>3. CASE TStop
  <2>1. Sound(w')
    BY <1>0, <1>3, StopSound DEF TStop, Sound
  <2>2. call' \in Calls /\ asked' \in Asked
    BY <1>3, TargetsTyped DEF TStop, Calls, Called, Asked, Nothing
  <2> QED BY <1>3, <2>1, <2>2 DEF TStop, TInv
<1>4. CASE TWrite
  <2>1. PICK c \in connected(w) :
           \/ w' = c.w /\ call' = Called("write")
           \/ \E r \in write(c.w) : w' = r.w /\ call' = [op |-> "write", via |-> r.via]
    BY <1>4 DEF TWrite
  <2>2. Sound(c.w)
    BY <1>0, ConnectedSound
  <2>3. \A r \in write(c.w) : Sound(r.w) /\ r.ret \in BOOLEAN /\ r.via \in {"none", "plain", "tls"}
    BY <2>2, WriteSound, WriteTyped
  <2>4. Sound(w')
    BY <2>1, <2>2, <2>3
  <2>5. call' \in Calls
    BY <2>1, <2>3, WriteCallTyped
  <2> QED BY <1>4, <2>4, <2>5 DEF TWrite, TInv
<1>5. CASE TAvailable \/ TRead
  BY <1>0, <1>5, AvailableSound, AvailableKeeps, ReadSound, ReadKeeps, ReturnsTyped
     DEF TAvailable, TRead
<1>6. CASE TConnected \/ TAvailableForWrite
  BY <1>0, <1>6, ConnectedSound, ConnectedKeeps, RoomSound, RoomKeeps, ReturnsTyped
     DEF TConnected, TAvailableForWrite
<1>7. CASE TFlush
  <2>1. PICK y, q : Sound(y) /\ q \in available(y) /\ Returns(q.w)
    BY <1>0, <1>7, TFlushFinds
  <2>2. Sound(q.w)
    BY <2>1, AvailableSound
  <2> QED BY <2>1, <2>2, ReturnsTyped
<1>9. CASE TConfigure
  BY <1>0, <1>9, SettingsSound, ReturnsTyped DEF TConfigure
<1>10. CASE TPeek
  <2>1. ASSUME NEW t \in Targets, NEW y \in mConnectionValidate(w, t),
               Returns(y)
        PROVE  TInv'
    BY <1>0, <2>1, ValidateSound, ReturnsTyped
  <2>2. ASSUME NEW t \in Targets, NEW r \in mProbeMaxFragmentLength(w, t), Returns(r.w)
        PROVE  TInv'
    <3>1. t \in AnyTarget
      BY TargetsTyped
    <3> QED BY <1>0, <2>2, <3>1, ProbeSound, ReturnsTyped
  <2>3. ASSUME Returns(peekConsume(w))
        PROVE  TInv'
    BY <1>0, <2>3, ConsumeSound, ReturnsTyped
  <2> QED BY <1>10, <2>1, <2>2, <2>3 DEF TPeek
<1>11. CASE Environment
  <2>1. [Next]_w
    BY <1>11 DEF Environment, Next
  <2> QED BY <1>11, <2>1, StepSound DEF Environment, TInv
<1>12. CASE UNCHANGED tvars
  BY <1>12 DEF tvars, TInv
<1> QED BY <1>1, <1>2, <1>3, <1>4, <1>5, <1>6, <1>7, <1>9, <1>10, <1>11, <1>12 DEF TNext

\* The facade keeps the client below it sound, whatever habits the application
\* has: the four invariants of SSLClient hold under BSSL_TCPClient, too.
THEOREM FacadeSoundness == TSpec => []TInv
  BY TInitTyped, TStepTyped, PTL DEF TSpec

\* Everything the facade keeps has its type.
THEOREM FacadeTypeCorrect == TSpec => []TTypeOK
<1>1. TInv => TTypeOK
  BY DEF TInv, TTypeOK, TypeOK, Sound
<1> QED BY <1>1, FacadeSoundness, PTL

--------------------------------------------------------------------------------
(* What the application is entitled to, when it sets no session timeout.        *)

\* A connect that was granted, over a client with the transport of now.
Granted ==
    /\ ~w'.limit /\ call'.op = "connect"
    /\ asked'.on => asked'.tls = w'.secure
    /\ asked'.on /\ "over" \notin Uses => w'.peer = asked'.to

LEMMA ConnectsLeads ==
    ASSUME NEW x, Sound(x), ~x.limit, x.open = w.open, NEW t \in Targets, Connects(x, t)
    PROVE  Granted
<1>2. PICK r \in connect(x, t) :
         /\ w' = r.w
         /\ call' = Called("connect")
         /\ asked' = IF r.ret THEN [on |-> TRUE, to |-> t, tls |-> r.w.secure] ELSE Nothing
  BY DEF Connects
<1>3. t \in AnyTarget
  BY TargetsTyped
<1>4. ~r.w.limit /\ (r.ret /\ ~x.open => r.w.peer = t)
  BY <1>3, ConnectLeads
<1>5. "over" \notin Uses => ~w.open
  BY DEF Connects
<1>6. CASE r.ret
  <2>1. asked' = [on |-> TRUE, to |-> t, tls |-> r.w.secure]
    BY <1>2, <1>6
  <2> DEFINE v == r.w.secure
  <2> HIDE DEF v
  <2>2. asked'.tls = v /\ asked'.to = t
    <3>1. asked' = [on |-> TRUE, to |-> t, tls |-> v]
      BY <2>1 DEF v
    <3>2. [on |-> TRUE, to |-> t, tls |-> v].tls = v /\ [on |-> TRUE, to |-> t, tls |-> v].to = t
      BY Zenon
    <3> QED BY <3>1, <3>2, Zenon
  <2>3. w'.secure = v
    BY <1>2 DEF v
  <2> QED BY <1>2, <1>4, <1>5, <1>6, <2>2, <2>3 DEF Granted, Called
<1>7. CASE ~r.ret
  BY <1>2, <1>4, <1>7 DEF Nothing, Granted, Called
<1> QED BY <1>6, <1>7

LEMMA TConnectLeads ==
    ASSUME TInv, ~w.limit, NEW t \in Targets,
           TConnectWithCertificates(t) \/ \E b \in BOOLEAN : TConnect(t, b)
    PROVE  Granted
<1>1. Sound(w) /\ Sound(setTimeout(w))
  BY SettingsSound DEF TInv
<1>2. setTimeout(w).open = w.open /\ ~setTimeout(w).limit
  BY <1>1 DEF setTimeout, Sound, World
<1>3. Connects(w, t) \/ Connects(setTimeout(w), t)
  BY DEF TConnect, TConnectWithCertificates
<1> QED BY <1>1, <1>2, <1>3, ConnectsLeads

LEMMA TConnectSSLLeads ==
    ASSUME TInv, ~w.limit, TConnectSSL
    PROVE  /\ ~w'.limit /\ call'.op = "connectSSL"
           /\ asked'.on => w'.secure /\ w'.peer = asked'.to
<1> DEFINE t == [addr |-> thost, port |-> tport]
           to == IF w.open THEN w.peer ELSE t
<1>1. t \in AnyTarget
  BY DEF TInv, AnyTarget
<1>2. PICK r \in connectSSL(w, t) :
         /\ IF r.ret THEN w' = r.w ELSE w' \in stop(r.w)
         /\ call' = Called("connectSSL")
         /\ asked' = IF r.ret THEN [on |-> TRUE, to |-> to, tls |-> TRUE] ELSE Nothing
  BY DEF TConnectSSL
<1> HIDE DEF t
<1>3. /\ Sound(r.w) /\ ~r.w.limit
      /\ r.ret => r.w.secure /\ r.w.peer = to
  BY <1>1, ConnectSSLSound, ConnectSSLLeads DEF TInv
<1> HIDE DEF to
<1>4. CASE r.ret
  BY <1>2, <1>3, <1>4 DEF Called
<1>5. CASE ~r.ret
  <2>1. Kept(r.w, w')
    BY <1>2, <1>3, <1>5, StopKeeps DEF Sound
  <2> QED BY <1>2, <1>3, <1>5, <2>1 DEF Kept, Nothing, Called
<1> QED BY <1>4, <1>5

\* Bytes leave only while the transport is open, in the mode it is in.
LEMMA TWriteKeeps ==
    ASSUME TInv, ~w.limit, TWrite
    PROVE  /\ Kept(w, w') /\ asked' = asked
           /\ call'.via # "none" => w.open
           /\ call'.via = "plain" => ~w.secure
<1>1. PICK c \in connected(w) :
         \/ ~c.ret /\ w' = c.w /\ call' = Called("write")
         \/ c.ret /\ \E r \in write(c.w) : w' = r.w /\ call' = [op |-> "write", via |-> r.via]
  BY DEF TWrite
<1>2. Sound(c.w) /\ c.w.secure = w.secure /\ Kept(w, c.w) /\ (c.ret => c.w.open)
  BY ConnectedSound, ConnectedKeeps DEF TInv
<1>3. asked' = asked
  BY DEF TWrite
<1>4. CASE w' = c.w /\ call'.via = "none"
  BY <1>2, <1>3, <1>4
<1>5. CASE c.ret /\ \E r \in write(c.w) : w' = r.w /\ call'.via = r.via
  <2>1. PICK r \in write(c.w) : w' = r.w /\ call'.via = r.via
    BY <1>5
  <2>2. Kept(c.w, r.w) /\ (c.w.secure => r.via # "plain")
    BY <1>2, WriteKeeps DEF Kept
  <2>3. w.open
    BY <1>2, <1>5 DEF Kept
  <2> QED BY <1>2, <1>3, <2>1, <2>2, <2>3, KeptTwice
<1> QED BY <1>1, <1>4, <1>5 DEF Called

\* What any other step may do: it writes nothing.
Silent ==
    /\ call'.op # "write" \/ (call' = call /\ asked' = asked /\ w'.peer = w.peer)
    /\ asked' = asked \/ asked' = Nothing
    /\ w'.limit = w.limit
    /\ Kept(w, w') \/ ~w'.open

LEMMA OthersSilent ==
    ASSUME TInv, ~w.limit, "idle" \notin Uses, [TNext]_tvars
    PROVE  \/ \E t \in Targets : TConnectWithCertificates(t) \/ \E b \in BOOLEAN : TConnect(t, b)
           \/ TConnectSSL
           \/ TWrite
           \/ Silent
<1>0. Sound(w)
  BY DEF TInv
<1>1. ASSUME NEW y, Returns(y), Kept(w, y)
      PROVE  Silent
  BY <1>1 DEF Returns, Called, Silent, Kept
<1>2. CASE TStop
  <2>1. Kept(w, w')
    BY <1>0, <1>2, StopKeeps DEF TStop, Sound
  <2> QED BY <1>2, <2>1 DEF TStop, Called, Silent, Kept
<1>3. CASE TAvailable \/ TRead
  BY <1>0, <1>1, <1>3, AvailableKeeps, ReadKeeps DEF TAvailable, TRead
<1>4. CASE TConnected \/ TAvailableForWrite
  BY <1>0, <1>1, <1>4, ConnectedKeeps, RoomKeeps DEF TConnected, TAvailableForWrite
<1>5. CASE TFlush
  <2>1. PICK y, q : /\ Sound(y) /\ Kept(w, y) /\ q \in available(y)
                    /\ Returns(q.w)
    BY <1>0, <1>5, TFlushFinds
  <2>2. Kept(w, q.w)
    BY <2>1, AvailableKeeps, KeptTwice
  <2> QED BY <1>1, <2>1, <2>2
<1>7. CASE TConfigure
  BY <1>0, <1>1, <1>7, SettingsKeep DEF TConfigure
<1>8. CASE TPeek
  <2>1. ASSUME NEW t \in Targets, NEW y \in mConnectionValidate(w, t),
               Returns(y)
        PROVE  Silent
    BY <1>0, <1>1, <2>1, ValidateKeeps
  <2>2. ASSUME NEW t \in Targets, NEW r \in mProbeMaxFragmentLength(w, t), Returns(r.w)
        PROVE  Silent
    <3>1. r.w.limit = w.limit /\ ~r.w.open
      BY <1>0, <2>2, ProbeCloses
    <3> QED BY <2>2, <3>1 DEF Returns, Called, Silent
  <2>3. ASSUME Returns(peekConsume(w))
        PROVE  Silent
    BY <1>0, <1>1, <2>3, ConsumeKeeps
  <2> QED BY <1>8, <2>1, <2>2, <2>3 DEF TPeek
<1>9. CASE Environment
  <2>1. CASE PeerCloses
    <3>1. Kept(w, w')
      BY <1>0, <2>1, SettingsKeep DEF PeerCloses
    <3> QED BY <1>9, <3>1 DEF Environment, Silent, Kept
  <2>2. CASE IdleTooLong
    BY <2>2 DEF IdleTooLong
  <2> QED BY <1>9, <2>1, <2>2 DEF Environment
<1>10. CASE UNCHANGED tvars
  <2>1. Kept(w, w')
    BY <1>10, KeptSame DEF tvars
  <2> QED BY <1>10, <2>1 DEF tvars, Silent
<1> QED BY <1>2, <1>3, <1>4, <1>5, <1>7, <1>8, <1>9, <1>10 DEF TNext

\* The wish, and what became of the last write, for the mode.
ModeKept ==
    /\ TInv /\ ~w.limit
    /\ asked.on /\ asked.tls /\ w.open => w.secure
    /\ call.op = "write" /\ call.via = "plain" => ~(asked.on /\ asked.tls)

LEMMA ModeStep ==
    ASSUME ModeKept, "idle" \notin Uses, [TNext]_tvars
    PROVE  /\ ModeKept'
           /\ call'.op = "write" /\ call'.via = "plain" => ~(asked.on /\ asked.tls)
<1>0. TInv /\ ~w.limit /\ TInv'
  BY TStepTyped DEF ModeKept
<1>1. ASSUME NEW t \in Targets,
             TConnectWithCertificates(t) \/ \E b \in BOOLEAN : TConnect(t, b)
      PROVE  ModeKept' /\ call'.op # "write"
  BY <1>0, <1>1, TConnectLeads DEF ModeKept, Granted
<1>2. CASE TConnectSSL
  BY <1>0, <1>2, TConnectSSLLeads DEF ModeKept
<1>3. CASE TWrite
  <2>1. /\ Kept(w, w') /\ asked' = asked
        /\ call'.via # "none" => w.open
        /\ call'.via = "plain" => ~w.secure
    BY <1>0, <1>3, TWriteKeeps
  <2> QED BY <1>0, <2>1 DEF ModeKept, Kept
<1>4. CASE Silent
  BY <1>0, <1>4 DEF Silent, ModeKept, Kept, Nothing
<1> QED BY <1>0, <1>1, <1>2, <1>3, <1>4, OthersSilent

\* The same for the target.
TargetKept ==
    /\ TInv /\ ~w.limit
    /\ asked.on /\ w.open => w.peer = asked.to
    /\ call.op = "write" /\ call.via # "none" /\ asked.on => w.peer = asked.to

LEMMA TargetStep ==
    ASSUME TargetKept, "idle" \notin Uses, "over" \notin Uses, [TNext]_tvars
    PROVE  /\ TargetKept'
           /\ call'.op = "write" /\ call'.via # "none" /\ asked.on => w'.peer = asked.to
<1>0. TInv /\ ~w.limit /\ TInv'
  BY TStepTyped DEF TargetKept
<1>1. ASSUME NEW t \in Targets,
             TConnectWithCertificates(t) \/ \E b \in BOOLEAN : TConnect(t, b)
      PROVE  TargetKept' /\ call'.op # "write"
  BY <1>0, <1>1, TConnectLeads DEF TargetKept, Granted
<1>2. CASE TConnectSSL
  BY <1>0, <1>2, TConnectSSLLeads DEF TargetKept
<1>3. CASE TWrite
  <2>1. /\ Kept(w, w') /\ asked' = asked
        /\ call'.via # "none" => w.open
    BY <1>0, <1>3, TWriteKeeps
  <2> QED BY <1>0, <2>1 DEF TargetKept, Kept
<1>4. CASE Silent
  BY <1>0, <1>4 DEF Silent, TargetKept, Kept, Nothing
<1> QED BY <1>0, <1>1, <1>2, <1>3, <1>4, OthersSilent

LEMMA TInitKept == TInit => ModeKept /\ TargetKept
  BY TInitTyped DEF TInit, ModeKept, TargetKept, Nothing, setClient, setTimeout, NewWorld,
                    CloseSocket

\* An application without session timeouts that was granted TLS never sees a
\* write leave in the clear, whatever it switches, upgrades or connects to.
THEOREM TlsKept ==
    ASSUME "idle" \notin Uses
    PROVE  TSpec => TlsStaysTls
<1>1. TInit => ModeKept
  BY TInitKept
<1>2. ModeKept /\ [TNext]_tvars =>
        /\ ModeKept'
        /\ [call'.op = "write" /\ call'.via = "plain" => ~(asked.on /\ asked.tls)]_tvars
  BY ModeStep
<1> QED BY <1>1, <1>2, PTL DEF TSpec, TlsStaysTls

\* An application that moreover closes a connection before it makes another one
\* has every byte written to the target it last connected to.
THEOREM TargetReached ==
    ASSUME "idle" \notin Uses, "over" \notin Uses
    PROVE  TSpec => WritesReachTarget
<1>1. TInit => TargetKept
  BY TInitKept
<1>2. TargetKept /\ [TNext]_tvars =>
        /\ TargetKept'
        /\ [call'.op = "write" /\ call'.via # "none" /\ asked.on => w'.peer = asked.to]_tvars
  BY TargetStep
<1> QED BY <1>1, <1>2, PTL DEF TSpec, WritesReachTarget
==============================================================================
