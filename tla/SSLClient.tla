------------------------------ MODULE SSLClient ------------------------------
(* The connection life cycle of BSSL_SSLClient (src/src/client/SSLClient.h):    *)
(* which TCP connection is open, whether a TLS engine runs on it, who owns the  *)
(* memory of that engine, and what connect, connectSSL, stop, write, read, ...  *)
(* and the session timeout do to these.                                         *)
(*                                                                              *)
(* The client runs in one thread: a call is one atomic step.  What the network  *)
(* does during a call is a choice between the call's outcomes; what it does     *)
(* between two calls are the steps PeerCloses and IdleTooLong.                  *)
(*                                                                              *)
(* All members are fields of one record, w ("world").  A C++ method M is the    *)
(* operator M(w) that gives the world after it, or, when the network or malloc  *)
(* decide between several outcomes, the set of these, each a record with the    *)
(* world and the value returned.  Methods are then composed as in the code.     *)
(*                                                                              *)
(* Assumed of the transport (an Arduino Client, external): stop() closes it,    *)
(* and write() returns no more than 0 only when the connection is lost or the   *)
(* write error of the transport is set.                                         *)

CONSTANTS
    Hosts,          \* host names the application connects to
    Ips,            \* IP addresses the application connects to
    SecurePorts,    \* ports of the _secure_ports table
    PlainPorts,     \* any other port
    NoHost,         \* _host before any host name is stored
    NoIp,           \* _ip before any address is stored
    NoPort          \* _port before any port is stored

ByHost == Hosts \cup {NoHost}
ByIp   == Ips \cup {NoIp}
Ports  == SecurePorts \cup PlainPorts

ASSUME AddressesDistinct ==
    /\ ByHost \cap ByIp = {}
    /\ NoHost \notin Hosts
    /\ NoIp \notin Ips
    /\ NoPort \notin Ports
    /\ SecurePorts \cap PlainPorts = {}

\* What the application passes to connect, and what the client may store.
Targets    == [addr: Hosts \cup Ips, port: Ports]
AnyTarget  == [addr: ByHost \cup ByIp, port: Ports \cup {NoPort}]
NoTarget   == [addr |-> NoHost, port |-> NoPort]

World ==
    [ \* the transport, _basic_client
      open: BOOLEAN,                        \* connected()
      peer: AnyTarget,                      \* whom it was last connected to
      \* BSSL_SSLClient
      sslEnabled: BOOLEAN,                  \* _isSSLEnabled
      secure: BOOLEAN,                      \* _secure
      isConnected: BOOLEAN,                 \* _is_connected
      handshakeDone: BOOLEAN,               \* _handshake_done
      pending: BOOLEAN,                     \* _write_idx > 0
      recv: {"none", "this", "old"},        \* _recvapp_len = 0; else the TCP
                                            \* connection its bytes came from
      sc: BOOLEAN,                          \* _sc is allocated
      bufs: BOOLEAN,                        \* _iobuf_in and _iobuf_out are
      x509: BOOLEAN,                        \* a validator context is
      engOpen: BOOLEAN,                     \* the engine is not BR_SSL_CLOSED
      engHere: BOOLEAN,                     \* the engine's handshake ran on the
                                            \* TCP connection that is open now
      writeError: BOOLEAN,                  \* getWriteError() != esp_ssl_ok
      oom: BOOLEAN,                         \* _oom_err
      timeout: {"default", "user"},         \* _timeout_ms: 15000 or setTimeout's
      limit: BOOLEAN,                       \* _tcp_session_timeout >= 60
      ts: {"unset", "fresh", "expired"},    \* _session_ts: 0, within the limit, past
      host: ByHost, ip: ByIp,               \* _host, _ip
      port: Ports \cup {NoPort},            \* _port
      withIp: BOOLEAN ]                     \* _connect_with_ip

NewWorld ==
    [ open |-> FALSE, peer |-> NoTarget, sslEnabled |-> FALSE, secure |-> FALSE,
      isConnected |-> FALSE, handshakeDone |-> FALSE, pending |-> FALSE,
      recv |-> "none", sc |-> FALSE, bufs |-> FALSE, x509 |-> FALSE,
      engOpen |-> FALSE, engHere |-> FALSE, writeError |-> FALSE, oom |-> FALSE,
      timeout |-> "default", limit |-> FALSE, ts |-> "unset",
      host |-> NoHost, ip |-> NoIp, port |-> NoPort, withIp |-> FALSE ]

\* An outcome of a method: its value (TRUE: success, or something to read) and
\* the world it leaves.
Outcome(v, x) == [ret |-> v, w |-> x]

\* The outcomes S, possible only when the condition holds.
When(condition, S) == IF condition THEN S ELSE {}

VARIABLE w          \* the world, above

--------------------------------------------------------------------------------
(* Memory, the transport, and the state of the engine.                          *)

\* Mutant: the bytes in _recvapp_buf are not forgotten.
mFreeSSLKeepingInput(x) ==
    [x EXCEPT !.sc = FALSE, !.bufs = FALSE, !.x509 = FALSE,
              !.handshakeDone = FALSE, !.timeout = "default",
              !.secure = FALSE, !.isConnected = FALSE]

\* Release the engine, its buffers and validator; forget the connection flags.
\* _eng, _write_idx and the write error keep their values.
mFreeSSL(x) ==
    [x EXCEPT !.sc = FALSE, !.bufs = FALSE, !.x509 = FALSE, !.recv = "none",
              !.handshakeDone = FALSE, !.timeout = "default",
              !.secure = FALSE, !.isConnected = FALSE]

CloseSocket(x) == [x EXCEPT !.open = FALSE]

\* _basic_client->connect(t): a connection opened before is dropped either way.
\* Without an address or a port there is nobody to connect to.
SocketConnect(x, t) ==
    {Outcome(FALSE, CloseSocket(x))}
    \cup When(t.addr \notin {NoHost, NoIp} /\ t.port # NoPort,
              {Outcome(TRUE, [x EXCEPT !.open = TRUE, !.peer = t, !.engHere = FALSE,
                                  !.recv = IF @ = "none" THEN "none" ELSE "old"])})

\* The plaintext the engine holds now comes from the connection it ran on.
EngineData(x) == [x EXCEPT !.recv = IF x.engHere THEN "this" ELSE "old"]

\* connected() as the engine sees it, and mSoftConnected().
Usable(x) == x.engOpen /\ x.isConnected
mSoftConnected(x) == ~x.writeError /\ Usable(x)

\* connected(): a dropped transport is noticed and may set the write error.
connected(x) ==
    LET noticed == IF x.secure /\ Usable(x) /\ ~x.open THEN {x.writeError, TRUE}
                                                      ELSE {x.writeError}
        value == IF x.secure THEN x.open /\ Usable(x) ELSE x.open
    IN  {Outcome(value, [x EXCEPT !.writeError = e]) : e \in noticed}

\* Mutant: the engine is freed, the transport stays open.
EndedOpen(x, left, error) == mFreeSSL([x EXCEPT !.pending = left, !.writeError = error])

\* The end of stop(): the transport is closed and the engine freed, whatever
\* the run of the engine left in _write_idx and in the write error.
Ended(x, left, error) ==
    mFreeSSL(CloseSocket([x EXCEPT !.pending = left, !.writeError = error]))

\* stop(): of a plain connection it does nothing.  Of a secure one it runs the
\* engine over what is pending, while both ends are up; that run may fail.
stop(x) ==
    IF ~x.secure THEN {x}
    ELSE {Ended(x, left, error) :
             left \in {x.pending} \cup When(x.open /\ Usable(x), {FALSE}),
             error \in {x.writeError} \cup When(Usable(x), {TRUE})}

--------------------------------------------------------------------------------
(* Running the engine of a secure connection.                                   *)

\* mUpdateEngine(): "ready" and "data" hand the pending bytes to the engine;
\* a closed engine is left alone; an I/O error stops the connection.
Moved(x)  == [x EXCEPT !.pending = FALSE]
Failed(x) == [x EXCEPT !.writeError = TRUE]
State(s, x) == [st |-> s, w |-> x]
EngineClosed(x) == State("closed", [x EXCEPT !.engOpen = FALSE])

mUpdateEngine(x) ==
    {EngineClosed(x)}
    \cup When(x.engOpen,
              {State("ready", Moved(x)), State("data", Moved(x)), EngineClosed(Moved(x))}
              \cup {State("stopped", y) : y \in stop(Failed(x))})

\* Mutant: a timeout sets the write error but does not stop.
LookedWithoutStop(x, r) ==
    IF r.st \in {"stopped", "closed"} \/ x.writeError THEN {Outcome(FALSE, r.w)}
    ELSE {Outcome(TRUE, r.w), Outcome(FALSE, Failed(r.w))}

\* mRunUntil() on a secure connection: one look at the state the engine is in.
\* It may leave data of the engine in _recvapp_buf, fails on a latched write
\* error, and stops on a timeout.
Looked(x, r) ==
    IF r.st \in {"stopped", "closed"} \/ x.writeError THEN {Outcome(FALSE, r.w)}
    ELSE {Outcome(TRUE, r.w)}
         \cup When(r.st = "data", {Outcome(TRUE, EngineData(r.w))})
         \cup {Outcome(FALSE, y) : y \in stop(Failed(r.w))}

mRunUntil(x) == UNION {Looked(x, r) : r \in mUpdateEngine(x)}

\* flush() of a secure connection runs the engine only when bytes are pending.
flush(x) ==
    IF x.secure /\ x.pending THEN {r.w : r \in mRunUntil(x)} ELSE {x}

--------------------------------------------------------------------------------
(* Connecting.                                                                  *)

\* mConnectSSL(): a TLS handshake on the transport as it is.  Everything of an
\* earlier engine goes first; then the context, the buffers and the validator
\* are allocated, all of them or none.
Cleared(x) == [mFreeSSL(x) EXCEPT !.oom = FALSE]
Allocated(x, got) == [Cleared(x) EXCEPT !.sc = got.sc, !.bufs = got.bufs, !.x509 = got.x509]
Allocations == [sc: BOOLEAN, bufs: BOOLEAN, x509: BOOLEAN]
Everything  == [sc |-> TRUE, bufs |-> TRUE, x509 |-> TRUE]
OutOfMemory(x, got) == [mFreeSSL(Allocated(x, got)) EXCEPT !.oom = TRUE]

Started(x) ==
    [Allocated(x, Everything) EXCEPT
        !.engOpen = TRUE, !.engHere = TRUE, !.writeError = FALSE]

\* The reset of the engine or the handshake failed, and left the transport, the
\* engine and the write error like this.
Ends(x) == [open: {FALSE, x.open}, engOpen: BOOLEAN, writeError: BOOLEAN]
Refused(x, end) ==
    mFreeSSL([Started(x) EXCEPT !.open = end.open, !.engOpen = end.engOpen,
                                !.writeError = end.writeError])

Secured(x) ==
    [Started(x) EXCEPT !.handshakeDone = TRUE, !.isConnected = TRUE, !.secure = TRUE,
                       !.ts = "fresh", !.x509 = FALSE]

\* An index left in _write_idx makes the handshake fail: the engine takes no
\* application data yet.  With a shared buffer the handshake may end because the
\* server's first data is there: mRunUntil has then left it in _recvapp_buf.
mConnectSSL(x) ==
    {Outcome(FALSE, OutOfMemory(x, got)) : got \in Allocations \ {Everything}}
    \cup {Outcome(FALSE, Refused(x, end)) : end \in Ends(x)}
    \cup When(x.open /\ ~x.pending,
              {Outcome(TRUE, y) : y \in {Secured(x), EngineData(Secured(x))}})

\* Mutant: the new transport is not marked as plain.
OpenedStillSecure(r) ==
    IF r.ret THEN Outcome(TRUE, [r.w EXCEPT !.pending = FALSE])
             ELSE Outcome(FALSE, mFreeSSL(Failed(r.w)))

\* mConnectBasicClient() after the validation: a new plain connection.
Opened(r) ==
    IF r.ret THEN Outcome(TRUE, [r.w EXCEPT !.secure = FALSE, !.pending = FALSE])
             ELSE Outcome(FALSE, mFreeSSL(Failed(r.w)))

OpenPlain(x, t) == {Opened(r) : r \in SocketConnect(x, t)}

\* Mutants: an IP address is stored as a host name; only the first target is kept.
RememberAsHost(x, t) == [x EXCEPT !.host = t.addr, !.port = t.port, !.withIp = FALSE]
RememberFirst(x, t) ==
    IF x.port # NoPort THEN x
    ELSE [x EXCEPT !.host = t.addr, !.port = t.port, !.withIp = FALSE]

\* Store the target of connectSSL.
Remember(x, t) ==
    IF t.addr \in ByHost
    THEN [x EXCEPT !.host = t.addr, !.port = t.port, !.withIp = FALSE]
    ELSE [x EXCEPT !.ip = t.addr, !.port = t.port, !.withIp = TRUE]

\* connectSSL(t): an open transport is used as it is, whomever it leads to.
\* (With a closed one mConnectBasicClient's validation has nothing to do.)
Based(x, t) == IF x.open THEN {Outcome(TRUE, x)} ELSE OpenPlain(x, t)

connectSSL(x, t) ==
    UNION {IF r.ret THEN mConnectSSL(Remember(r.w, t)) ELSE {r} : r \in Based(x, t)}

\* A plain connection made: connect() stamps the session, and stores of the
\* target only whether it was an IP address.
Plain(r, t) ==
    IF r.ret THEN Outcome(TRUE, [r.w EXCEPT !.withIp = (t.addr \in ByIp), !.ts = "fresh"])
             ELSE r

ConnectPlain(x, t) == {Plain(r, t) : r \in OpenPlain(x, t)}

IsSecure(x, t) == x.sslEnabled /\ t.port \in SecurePorts

\* connect(t) when the transport is closed.
ConnectClosed(x, t) == IF IsSecure(x, t) THEN connectSSL(x, t) ELSE ConnectPlain(x, t)

Stored(x) == [addr |-> IF x.withIp THEN x.ip ELSE x.host, port |-> x.port]

TimedOut(x) == x.limit /\ x.ts = "expired" /\ x.open

\* Mutant: an idle TLS connection is replaced by a plain one.
CheckSessionTimeoutPlain(x) ==
    IF ~TimedOut(x) THEN {Outcome(TRUE, x)}
    ELSE UNION {ConnectPlain(y, Stored(y)) : y \in stop(x)}

\* mCheckSessionTimeout(): an idle connection is closed and opened again, to
\* the target that is stored and in the mode it is found in.
mCheckSessionTimeout(x) ==
    IF ~TimedOut(x) THEN {Outcome(TRUE, x)}
    ELSE IF x.secure THEN UNION {connectSSL(y, Stored(y)) : y \in stop(x)}
    ELSE ConnectClosed(CloseSocket(x), Stored(x))

\* mConnectionValidate(t): a transport that is open to another target than the
\* one stored is closed; then the session timeout is looked at.
Matches(x, t) ==
    t.port = x.port /\ t.addr = IF t.addr \in ByHost THEN x.host ELSE x.ip

mConnectionValidate(x, t) ==
    {r.w : r \in mCheckSessionTimeout(IF Matches(x, t) THEN x ELSE CloseSocket(x))}

connect(x, t) ==
    IF IsSecure(x, t) THEN connectSSL(x, t)
    ELSE UNION {ConnectPlain(y, t) : y \in mConnectionValidate(x, t)}

--------------------------------------------------------------------------------
(* Moving data.                                                                 *)

\* available(): first what _recvapp_buf still holds, whatever connection it is
\* from; then the transport of a plain connection; then one run of the engine.
Found(r) == IF r.st = "data" THEN Outcome(TRUE, EngineData(r.w)) ELSE Outcome(FALSE, r.w)

available(x) ==
    IF x.recv # "none" THEN {Outcome(TRUE, x)}
    ELSE IF ~x.secure THEN {Outcome(v, x) : v \in BOOLEAN}
    ELSE IF ~mSoftConnected(x) THEN {Outcome(FALSE, x)}
    ELSE {Found(r) : r \in mUpdateEngine(x)}

\* peekConsume(): the bytes peekBuffer() showed are acknowledged; whatever is
\* left is asked for again.
peekConsume(x) == [x EXCEPT !.recv = "none"]

\* read(): takes some or all of what available() found in _recvapp_buf.
read(x) ==
    available(x) \cup {Outcome(TRUE, peekConsume(r.w)) :
                          r \in {q \in available(x) : q.ret /\ q.w.recv # "none"}}

\* write(): how the bytes leave is part of the outcome.  In a secure connection
\* they stay in the engine's buffer (pending) until it fills or runs again.
Via(v, x, how) == [ret |-> v, w |-> x, via |-> how]

Filled(r) ==
    {Via(FALSE, r.w, "none")}
    \cup When(r.ret, {Via(TRUE, [r.w EXCEPT !.pending = p], "tls") : p \in BOOLEAN})

WriteTls(x) ==
    IF mSoftConnected(x) THEN UNION {Filled(r) : r \in mRunUntil(x)}
                         ELSE {Via(FALSE, x, "none")}

WritePlain(x) == {Via(FALSE, x, "none")} \cup When(x.open, {Via(TRUE, x, "plain")})

Stamped(x) == [x EXCEPT !.ts = "fresh"]

Sent(r) ==
    IF ~r.ret THEN {Via(FALSE, r.w, "none")}
    ELSE IF r.w.secure THEN WriteTls(Stamped(r.w))
    ELSE WritePlain(Stamped(r.w))

write(x) == UNION {Sent(r) : r \in mCheckSessionTimeout(x)}

\* availableForWrite(): nothing on a plain connection.
Room(x, c) == IF c.ret /\ x.handshakeDone THEN mRunUntil(c.w) ELSE {c}

availableForWrite(x) ==
    IF x.secure THEN UNION {Room(x, c) : c \in connected(x)} ELSE {Outcome(FALSE, x)}

\* Mutant: the connection of the probe stays open.
ProbeLeavesOpen(x, t) ==
    {Outcome(v, r.w) : r \in SocketConnect(CloseSocket(x), t), v \in BOOLEAN}

\* mProbeMaxFragmentLength(): another connection, opened and closed again.
mProbeMaxFragmentLength(x, t) ==
    {Outcome(v, CloseSocket(r.w)) :
        r \in SocketConnect(CloseSocket(x), t), v \in BOOLEAN}

\* The settings: setTimeout(), setSessionTimeout(), enableSSL(), setClient()
\* (to another transport, which is not connected yet).
setTimeout(x)           == [x EXCEPT !.timeout = "user"]
setSessionTimeout(x, b) == [x EXCEPT !.limit = b]
enableSSL(x, b)         == [x EXCEPT !.sslEnabled = b]
setClient(x, b)         == [CloseSocket(x) EXCEPT !.sslEnabled = b]

--------------------------------------------------------------------------------
(* The client: the application makes one call at a time.                        *)

Init == w = NewWorld

Connect(t)    == \E r \in connect(w, t) : w' = r.w
ConnectSSL(t) == \E r \in connectSSL(w, t) : w' = r.w
Stop          == \E y \in stop(w) : w' = y
Write         == \E r \in write(w) : w' = r.w
Available     == \E r \in available(w) : w' = r.w
Read          == \E r \in read(w) : w' = r.w
Flush         == \E y \in flush(w) : w' = y
Connected     == \E r \in connected(w) : w' = r.w
Validate(t)   == \E y \in mConnectionValidate(w, t) : w' = y

\* probeMaxFragmentLength() of an address; that of a host name calls itself and
\* reaches no connection.
Probe(t) == t.addr \in Ips /\ \E r \in mProbeMaxFragmentLength(w, t) : w' = r.w

AvailableForWrite == \E r \in availableForWrite(w) : w' = r.w

\* The peek calls are made after peekAvailable() found bytes in _recvapp_buf.
PeekConsume == w.recv # "none" /\ w' = peekConsume(w)

SetTimeout           == w' = setTimeout(w)
SetSessionTimeout(b) == w' = setSessionTimeout(w, b)
EnableSSL(b)         == w' = enableSSL(w, b)
SetClient(b)         == w' = setClient(w, b)

\* The environment: the connection is lost; a session limit that is set passes
\* without a write.
PeerCloses  == w.open /\ w' = CloseSocket(w)
IdleTooLong == w.limit /\ w.ts = "fresh" /\ w' = [w EXCEPT !.ts = "expired"]

Next ==
    \/ \E t \in Targets : Connect(t) \/ ConnectSSL(t) \/ Validate(t) \/ Probe(t)
    \/ Stop \/ Write \/ Available \/ Read \/ Flush \/ Connected
    \/ AvailableForWrite \/ PeekConsume \/ SetTimeout
    \/ \E b \in BOOLEAN : SetSessionTimeout(b) \/ EnableSSL(b) \/ SetClient(b)
    \/ PeerCloses \/ IdleTooLong

Spec == Init /\ [][Next]_w

--------------------------------------------------------------------------------
(* What the client keeps true.                                                  *)

\* Every member stays within its range.
TypeOK == w \in World

\* Whoever may still touch the engine finds it allocated: the methods that test
\* _secure before they use _eng, and those that hand out _recvapp_buf, which
\* points into _iobuf_in.  Allocation is all or nothing between calls, so no
\* failure in the middle of mConnectSSL leaks a context or a buffer.
Owned(x) ==
    /\ x.secure \/ x.recv # "none" \/ x.isConnected => x.sc
    /\ x.bufs = x.sc
    /\ ~x.x509

\* A secure client went through a whole handshake, on the very TCP connection
\* that is open: reconnecting the transport, by a timeout or a new connect,
\* never leaves the old keys in use.
HandshakeHere(x) ==
    x.secure => /\ x.isConnected /\ x.handshakeDone
                /\ x.open => x.engHere

\* After a write error no secure connection is used: the error is set together
\* with stop(), or because the transport is gone already.
ErrorEndsConnection(x) == x.secure /\ x.writeError => ~x.open

EngineOwned     == Owned(w)
EngineOnItsConnection == HandshakeHere(w)
WriteErrorIsFinal == ErrorEndsConnection(w)
==============================================================================
