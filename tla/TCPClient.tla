------------------------------ MODULE TCPClient ------------------------------
(* BSSL_TCPClient (src/src/client/TCPClient.h), the class applications use, on  *)
(* top of BSSL_SSLClient (module SSLClient): it stores the host and the port    *)
(* once more, for the TLS upgrade, and otherwise delegates.  This module adds   *)
(* what the application is entitled to: it remembers what the application last  *)
(* asked for and compares with it where the bytes really go.                    *)
EXTENDS SSLClient

CONSTANT
    Uses            \* the optional habits of the application:
                    \*   "idle"    it sets a session timeout
                    \*   "switch"  it enables and disables SSL as it goes
                    \*   "over"    it connects while a connection is open
                    \*   "peek"    it uses validate(), probe and peek calls
                    \*   "certs"   it gives certificates as arguments of connect()

ASSUME UsesKnown == Uses \subseteq {"idle", "switch", "over", "peek", "certs"}

VARIABLES
    thost, tport,   \* _host and _port of the TCPClient
    call,           \* the last call, see Calls
    asked           \* what the application last asked for and was granted

tvars == <<w, thost, tport, call, asked>>

Calls ==
    [ op: {"none", "connect", "connectSSL", "stop", "write", "other"},
      via: {"none", "plain", "tls"} ]   \* how the bytes of a write left

Called(op) == [op |-> op, via |-> "none"]

Asked == [on: BOOLEAN, to: AnyTarget, tls: BOOLEAN]
Nothing == [on |-> FALSE, to |-> NoTarget, tls |-> FALSE]

TTypeOK ==
    /\ TypeOK
    /\ thost \in ByHost /\ tport \in Ports \cup {NoPort}
    /\ call \in Calls
    /\ asked \in Asked

\* A call that leaves the stored target and the application's wish alone.
Returns(y) ==
    /\ w' = y
    /\ call' = Called("other")
    /\ UNCHANGED <<thost, tport, asked>>

\* The constructor sets its own timeout; setClient() enables SSL by default.
TInit ==
    /\ w = setClient(setTimeout(NewWorld), TRUE)
    /\ thost = NoHost /\ tport = NoPort
    /\ call = Called("none")
    /\ asked = Nothing

\* What every connect of the facade comes to: connect(t) of the client x.
Connects(x, t) ==
    /\ "over" \in Uses \/ ~w.open
    /\ \E r \in connect(x, t) :
          /\ w' = r.w
          /\ call' = Called("connect")
          /\ asked' = IF r.ret THEN [on |-> TRUE, to |-> t, tls |-> r.w.secure] ELSE Nothing

\* connect(host | ip, port, timeout): only a host name is stored.
TConnect(t, withTimeout) ==
    /\ thost' = IF t.addr \in ByHost THEN t.addr ELSE thost
    /\ tport' = t.port
    /\ Connects(IF withTimeout THEN setTimeout(w) ELSE w, t)

\* connect(host | ip, port, rootCA, cert, key): the target is not stored, so that
\* a later connectSSL() has the one of an earlier connect.
TConnectWithCertificates(t) ==
    "certs" \in Uses /\ Connects(w, t) /\ UNCHANGED <<thost, tport>>

\* connectSSL(): upgrade the connection that is open, or open one to what is
\* stored; a failure is followed by stop().
TConnectSSL ==
    LET t == [addr |-> thost, port |-> tport]
        to == IF w.open THEN w.peer ELSE t
    IN  /\ \E r \in connectSSL(w, t) :
              /\ IF r.ret THEN w' = r.w ELSE w' \in stop(r.w)
              /\ call' = Called("connectSSL")
              /\ asked' = IF r.ret THEN [on |-> TRUE, to |-> to, tls |-> TRUE] ELSE Nothing
        /\ UNCHANGED <<thost, tport>>

TStop ==
    /\ w' \in stop(w)
    /\ call' = Called("stop")
    /\ asked' = Nothing
    /\ UNCHANGED <<thost, tport>>

\* write(): asks connected() first.
TWrite ==
    /\ \E c \in connected(w) :
          \/ ~c.ret /\ w' = c.w /\ call' = Called("write")
          \/ c.ret /\ \E r \in write(c.w) : w' = r.w /\ call' = [op |-> "write", via |-> r.via]
    /\ UNCHANGED <<thost, tport, asked>>

TAvailable == \E r \in available(w) : Returns(r.w)
TRead      == \E r \in read(w) : Returns(r.w)
TConnected == \E r \in connected(w) : Returns(r.w)
TAvailableForWrite == \E r \in availableForWrite(w) : Returns(r.w)

\* flush() reads and drops what there is: until available() finds nothing.
TFlush ==
    \E r \in UNION {available(y) : y \in {peekConsume(w)}
                        \cup {peekConsume(q.w) : q \in available(peekConsume(w))}} :
        ~r.ret /\ Returns(r.w)

TConfigure ==
    \/ Returns(setTimeout(w))
    \/ "idle" \in Uses /\ Returns(setSessionTimeout(w, TRUE))
    \/ "switch" \in Uses /\ \E b \in BOOLEAN : Returns(enableSSL(w, b))

\* validate(), the probe, which only an address reaches (see Probe), and the
\* acknowledgement of bytes that were peeked at.
TPeek ==
    /\ "peek" \in Uses
    /\ \/ \E t \in Targets :
             \/ \E y \in mConnectionValidate(w, t) : Returns(y)
             \/ t.addr \in Ips /\ \E r \in mProbeMaxFragmentLength(w, t) : Returns(r.w)
       \/ w.recv # "none" /\ Returns(peekConsume(w))

Environment == (PeerCloses \/ IdleTooLong) /\ UNCHANGED <<thost, tport, call, asked>>

TNext ==
    \/ \E t \in Targets : TConnectWithCertificates(t) \/ \E b \in BOOLEAN : TConnect(t, b)
    \/ TConnectSSL \/ TStop \/ TWrite \/ TAvailable \/ TRead \/ TConnected
    \/ TAvailableForWrite \/ TFlush \/ TConfigure \/ TPeek
    \/ Environment

TSpec == TInit /\ [][TNext]_tvars

--------------------------------------------------------------------------------
(* What the application is entitled to.                                         *)

\* An application that asked for TLS, by a secure port or by connectSSL(), and
\* was granted it never sees a write leave in the clear, whatever timeouts,
\* failed reconnections and lost connections came in between.
TlsStaysTls ==
    [][call'.op = "write" /\ call'.via = "plain" => ~(asked.on /\ asked.tls)]_tvars

\* The bytes of a write go to the target the application last connected to,
\* also when an idle connection was silently replaced.
WritesReachTarget ==
    [][call'.op = "write" /\ call'.via # "none" /\ asked.on => w'.peer = asked.to]_tvars
==============================================================================
