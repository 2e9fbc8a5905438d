------------------------------ MODULE Handshake ------------------------------
(***************************************************************************)
(* The TLS handshake between the two automata of the engine: the client    *)
(* (ssl_hs_client.t0) and the server (ssl_hs_server.t0), with what they    *)
(* share (ssl_hs_common.t0).  Connections follow one another.  The client  *)
(* keeps the session of the last one (BSSL_SSLClient::_session), the       *)
(* server its cache, which is the one of AbstractCache; in between the     *)
(* client may be set up differently, and the server may be restarted.      *)
(*                                                                         *)
(* A message is its type, the keys it is protected with, and what of its   *)
(* contents decides.  The hash over all messages (mhash) is abstracted to  *)
(* the messages this side read damaged: the two hashes are equal when both *)
(* sides read what the other one wrote.  Secrets, randoms and session IDs  *)
(* are the number of the connection they were drawn for.                   *)
(***************************************************************************)
EXTENDS Integers, SequencesExt

CONSTANTS
  Suites,         \* cipher suites
  Tls12Only,      \* those that need TLS 1.2
  Signed,         \* those with a ServerKeyExchange
  ClientConfigs,  \* [min, max, suites, cert]: versions, list, own certificate
  ServerConfigs,  \* [min, max, suites, cert, asks, lenient]
  Rooms,          \* sessions the server's cache may have room for
  NotFound,       \* what load() gives when there is no session
  MaxConns,       \* bound: connections
  Damages         \* the wire may damage one message of a connection

Versions == 1..3        \* TLS 1.0, 1.1, 1.2

ASSUME HandshakeAssumption ==
  /\ Tls12Only \subseteq Suites /\ Signed \subseteq Suites
  /\ ClientConfigs \subseteq [min : Versions, max : Versions, suites : Seq(Suites),
                              cert : {"empty", "good", "bad"}]
  /\ ServerConfigs \subseteq [min : Versions, max : Versions, suites : SUBSET Suites,
                              cert : {"good", "bad"}, asks : BOOLEAN, lenient : BOOLEAN]
  /\ Rooms \subseteq Nat /\ MaxConns \in Nat /\ Damages \in BOOLEAN

VARIABLES
  n,              \* connections so far
  up,             \* the transport is connected
  cl, sv,         \* the two engines
  c2s, s2c,       \* messages under way
  session,        \* what the client stored
  room, cache, loaded,  \* the server's cache, and what load() gave last
  damaged         \* a message of this connection was damaged

wire == << up, c2s, s2c, damaged >>
store == << room, cache, loaded >>
vars == << n, wire, cl, sv, session, store >>

None == 0               \* no session ID, no version
Clear == << >>          \* no keys yet
NoSession == [id |-> None, ver |-> None, suite |-> "none", ms |-> 0, auth |-> "none"]

Params == [ver : Versions, suite : Suites, ms : Int, auth : {"none", "empty", "good", "bad"}]

Cache == INSTANCE AbstractCache WITH
  Ids <- 0..MaxConns, Nothing <- NotFound, lru <- cache, got <- loaded

Least(x, y) == IF x < y THEN x ELSE y

---------------------------------------------------------------------------
(* The two ends.  at is what they wait for.                                *)

Engine(cfg) ==
  [ at |-> "off", cfg |-> cfg, err |-> "none",
    id |-> None, ver |-> None, suite |-> "none", ms |-> 0,  \* session
    auth |-> "none",              \* who the peer proved to be in it
    resumed |-> FALSE,
    random |-> << 0, 0 >>,        \* client_random, server_random
    in |-> Clear, out |-> Clear,  \* keys in force
    odd |-> {},                   \* messages read damaged
    asked |-> FALSE,              \* a CertificateRequest came
    said |-> FALSE ]              \* application data was sent

\* What the keys are computed from (compute_key_block).
Keys(x) == << x.ms, x.random, x.ver, x.suite >>

Fails(x, err) == [x EXCEPT !.at = "failed", !.err = err]

Message(type, key, v) == [type |-> type, key |-> key, odd |-> FALSE, v |-> v]

\* write-CCS-Finished, by an engine with the keys to come.
CCSFinished(x) ==
  << Message("CCS", x.out, 0), Message("Fin", Keys(x), << x.ms, x.odd >>) >>

\* The engine after it read this message.
Took(x, m) == IF m.odd THEN [x EXCEPT !.odd = @ \cup {m.type}] ELSE x

---------------------------------------------------------------------------
(* The client.                                                             *)

ToClient(type) == up /\ s2c # << >> /\ Head(s2c).type = type /\ Head(s2c).key = cl.in

\* It read the message, becomes x, and writes these messages.
ClientGoes(x, messages) ==
  /\ cl' = x
  /\ s2c' = Tail(s2c) /\ c2s' = c2s \o messages
  /\ UNCHANGED << n, up, damaged, sv, store >>

Reads == Head(s2c).v
Client == Took(cl, Head(s2c))

\* The server resumes when it answers with the session ID it was sent.
Resumes(h) == h.id # None /\ h.id = cl.id

\* The version and the suite must be allowed, and those of a session resumed.
HelloError(h) ==
  IF h.ver \notin cl.cfg.min..cl.cfg.max THEN "UNSUPPORTED_VERSION"
  ELSE IF Resumes(h) /\ h.ver # cl.ver THEN "RESUME_MISMATCH"
  ELSE IF h.suite \notin ToSet(cl.cfg.suites) \/ (h.suite \in Tls12Only /\ h.ver < 3)
    THEN "BAD_CIPHER_SUITE"
  ELSE IF Resumes(h) /\ h.suite # cl.suite THEN "RESUME_MISMATCH"
  ELSE "none"

ReadServerHello ==
  /\ cl.at = "SH" /\ ToClient("SH")
  /\ UNCHANGED session
  /\ LET h == Reads
     IN  ClientGoes(
           IF HelloError(h) # "none" THEN Fails(Client, HelloError(h))
           ELSE [Client EXCEPT
                  !.ver = h.ver, !.suite = h.suite, !.id = h.id, !.random = << @[1], h.random >>,
                  !.resumed = Resumes(h), !.at = IF Resumes(h) THEN "CCS" ELSE "Cert"],
           << >>)

\* Mutant: the verdict of the X.509 validator is ignored.
ReadCertificateAnyway ==
  /\ cl.at = "Cert" /\ ToClient("Cert")
  /\ UNCHANGED session
  /\ ClientGoes([Client EXCEPT !.auth = Reads,
                               !.at = IF cl.suite \in Signed THEN "SKE" ELSE "CR"], << >>)

ReadCertificate ==
  /\ cl.at = "Cert" /\ ToClient("Cert")
  /\ UNCHANGED session
  /\ ClientGoes(IF Reads = "good"
                  THEN [Client EXCEPT !.auth = Reads,
                                      !.at = IF cl.suite \in Signed THEN "SKE" ELSE "CR"]
                  ELSE Fails(Client, "X509"), << >>)

\* The signature is over both randoms and the server's point.
ReadServerKeyExchange ==
  /\ cl.at = "SKE" /\ ToClient("SKE")
  /\ UNCHANGED session
  /\ ClientGoes(IF Reads = cl.random THEN [Client EXCEPT !.at = "CR"]
                                     ELSE Fails(Client, "BAD_SIGNATURE"), << >>)

ReadCertificateRequest ==
  /\ cl.at = "CR" /\ ToClient("CR")
  /\ UNCHANGED session
  /\ ClientGoes([Client EXCEPT !.at = "SHD", !.asked = TRUE], << >>)

\* The client's flight: [Certificate] ClientKeyExchange [CertificateVerify],
\* ChangeCipherSpec, Finished.
ReadServerHelloDone ==
  /\ cl.at \in {"CR", "SHD"} /\ ToClient("SHD")
  /\ UNCHANGED session
  /\ LET x == [Client EXCEPT !.ms = n, !.at = "CCS"]
         own == IF x.asked THEN << Message("Cert", Clear, x.cfg.cert) >> ELSE << >>
         proof == IF x.asked /\ x.cfg.cert # "empty" THEN << Message("CV", Clear, x.odd) >> ELSE << >>
     IN  ClientGoes([x EXCEPT !.out = Keys(x)],
                    own \o << Message("CKE", Clear, n) >> \o proof \o CCSFinished(x))

ClientReadsCCS ==
  /\ cl.at = "CCS" /\ ToClient("CCS")
  /\ UNCHANGED session
  /\ ClientGoes([cl EXCEPT !.in = Keys(cl), !.at = "Fin"], << >>)

\* Mutant: the contents of a Finished are not compared.
VerifiedByKeys(x, v) == TRUE

\* read-Finished: the hash over all messages, under the master secret.
Verified(x, v) == v = << x.ms, x.odd >>

\* Mutant: the client does not answer to a resumption.
AnswersNever(x) == << >>

\* After a resumption the client sends its Finished last.
Answers(x) == IF x.resumed THEN CCSFinished(x) ELSE << >>

\* read-Finished.  mConnectSSL stores the session.
ClientReadsFinished ==
  /\ cl.at = "Fin" /\ ToClient("Fin")
  /\ IF Verified(cl, Reads)
       THEN /\ session' = [id |-> cl.id, ver |-> cl.ver, suite |-> cl.suite, ms |-> cl.ms,
                           auth |-> cl.auth]
            /\ ClientGoes([cl EXCEPT !.at = "app", !.out = Keys(cl)],
                          Answers(cl))
       ELSE /\ UNCHANGED session
            /\ ClientGoes(Fails(cl, "BAD_FINISHED"), << >>)

ClientReadsData ==
  /\ cl.at = "app" /\ ToClient("app")
  /\ UNCHANGED session
  /\ ClientGoes(cl, << >>)

\* BR_OPT_NO_RENEGOTIATION: a warning, and everything goes on.
RefuseRenegotiation ==
  /\ cl.at = "app" /\ ToClient("HR")
  /\ UNCHANGED session
  /\ ClientGoes(cl, << Message("no_renegotiation", cl.out, 0) >>)

\* A fatal alert, a message out of turn, or one that the keys do not open.
ClientAwaits ==
  CASE cl.at = "CR"  -> {"CR", "SHD"}
    [] cl.at = "app" -> {"app", "HR"}
    [] OTHER -> {cl.at}

ClientRefuses ==
  /\ up /\ s2c # << >> /\ cl.at # "failed"
  /\ \/ Head(s2c).key # cl.in
     \/ Head(s2c).type \notin ClientAwaits
  /\ UNCHANGED session
  /\ ClientGoes(Fails(cl, IF Head(s2c).key # cl.in THEN "BAD_MAC"
                         ELSE IF Head(s2c).type = "alert" THEN "ALERT" ELSE "UNEXPECTED"), << >>)

ClientStep ==
  ReadServerHello \/ ReadCertificate \/ ReadServerKeyExchange \/ ReadCertificateRequest
  \/ ReadServerHelloDone \/ ClientReadsCCS \/ ClientReadsFinished \/ ClientReadsData
  \/ RefuseRenegotiation \/ ClientRefuses

---------------------------------------------------------------------------
(* The server.                                                             *)

ToServer(type) == up /\ c2s # << >> /\ Head(c2s).type = type /\ Head(c2s).key = sv.in

ServerGoes(x, messages) ==
  /\ sv' = x
  /\ c2s' = Tail(c2s) /\ s2c' = s2c \o messages
  /\ UNCHANGED << n, up, damaged, cl, session >>

Got == Head(c2s).v
Server == Took(sv, Head(c2s))

\* fail-alert: a fatal alert, then the end.
Alerts(x, err) == ServerGoes(Fails(x, err), << Message("alert", sv.out, err) >>)

ServerHello(x) ==
  Message("SH", Clear, [ver |-> x.ver, id |-> x.id, suite |-> x.suite, random |-> n])

\* Mutant: a session of a version above the client's is resumed.
ResumableAnyVersion(p, h) == p # NotFound /\ p.suite \in ToSet(h.suites)

\* A session found is resumed when the client still lists its suite and its
\* version is not above what the client speaks.
Resumable(p, h) == p # NotFound /\ p.suite \in ToSet(h.suites) /\ p.ver <= h.max

Resume(x, p, h) ==
  LET y == [x EXCEPT !.id = h.id, !.ver = p.ver, !.suite = p.suite, !.ms = p.ms,
                     !.auth = p.auth, !.resumed = TRUE, !.at = "CCS"]
  IN  ServerGoes([y EXCEPT !.out = Keys(y)], << ServerHello(y) >> \o CCSFinished(y))

\* The places in the client's list of the suites that both have and the
\* version allows; the suite at the first one is taken.
Usable(x, h) ==
  {i \in DOMAIN h.suites : h.suites[i] \in x.cfg.suites /\ (h.suites[i] \in Tls12Only => x.ver = 3)}

\* Mutant: no new session ID is drawn.
FullSameId(x, h) ==
  LET usable == Usable(x, h)
      y == [x EXCEPT !.suite = h.suites[Min(usable)],
                     !.at = IF x.cfg.asks THEN "Cert" ELSE "CKE"]
      signed == IF y.suite \in Signed THEN << Message("SKE", Clear, y.random) >> ELSE << >>
      request == IF x.cfg.asks THEN << Message("CR", Clear, 0) >> ELSE << >>
  IN  IF usable = {} THEN Alerts(x, "handshake_failure")
      ELSE ServerGoes(y, << ServerHello(y), Message("Cert", Clear, x.cfg.cert) >>
                           \o signed \o request \o << Message("SHD", Clear, 0) >>)

\* A full handshake, the flight of the server up to ServerHelloDone.
Full(x, h) ==
  LET usable == Usable(x, h)
      y == [x EXCEPT !.id = n, !.suite = h.suites[Min(usable)],
                     !.at = IF x.cfg.asks THEN "Cert" ELSE "CKE"]
      signed == IF y.suite \in Signed THEN << Message("SKE", Clear, y.random) >> ELSE << >>
      request == IF x.cfg.asks THEN << Message("CR", Clear, 0) >> ELSE << >>
  IN  IF usable = {} THEN Alerts(x, "handshake_failure")
      ELSE ServerGoes(y, << ServerHello(y), Message("Cert", Clear, x.cfg.cert) >>
                           \o signed \o request \o << Message("SHD", Clear, 0) >>)

ReadClientHello ==
  /\ sv.at = "CH" /\ ToServer("CH")
  /\ IF Got.id # None THEN Cache!Load(Got.id) ELSE loaded' = NotFound /\ UNCHANGED << room, cache >>
  /\ LET x == [Server EXCEPT !.random = << Got.random, n >>,
                             !.ver = Least(sv.cfg.max, Got.max)]
     IN  IF Got.max < sv.cfg.min THEN Alerts(x, "protocol_version")
         ELSE IF Resumable(loaded', Got) THEN Resume(x, loaded', Got)
         ELSE Full(x, Got)

\* read-Certificate: a chain that fails, or none, only passes a lenient server.
ReadClientCertificate ==
  /\ sv.at = "Cert" /\ ToServer("Cert")
  /\ UNCHANGED store
  /\ ServerGoes(IF Got = "good" \/ sv.cfg.lenient
                  THEN [Server EXCEPT !.auth = Got, !.at = "CKE"]
                  ELSE Fails(Server, IF Got = "bad" THEN "X509" ELSE "NO_CLIENT_AUTH"), << >>)

ReadClientKeyExchange ==
  /\ sv.at = "CKE" /\ ToServer("CKE")
  /\ UNCHANGED store
  /\ ServerGoes([Server EXCEPT !.ms = Got,
                   !.at = IF sv.auth \in {"good", "bad"} THEN "CV" ELSE "CCS"], << >>)

\* The signature over all messages so far; skipped for a chain that failed.
ReadCertificateVerify ==
  /\ sv.at = "CV" /\ ToServer("CV")
  /\ UNCHANGED store
  /\ ServerGoes(IF sv.auth = "bad" \/ Got = sv.odd THEN [Server EXCEPT !.at = "CCS"]
                                                   ELSE Fails(Server, "BAD_SIGNATURE"), << >>)

ServerReadsCCS ==
  /\ sv.at = "CCS" /\ ToServer("CCS")
  /\ UNCHANGED store
  /\ ServerGoes([sv EXCEPT !.in = Keys(sv), !.at = "Fin"], << >>)

\* read-Finished; in a full handshake the server answers and saves the session.
ServerReadsFinished ==
  /\ sv.at = "Fin" /\ ToServer("Fin")
  /\ LET done == [sv EXCEPT !.at = "app", !.out = Keys(sv)]
     IN  IF ~Verified(sv, Got)
           THEN ServerGoes(Fails(sv, "BAD_FINISHED"), << >>) /\ UNCHANGED store
         ELSE IF sv.resumed
           THEN ServerGoes(done, << >>) /\ UNCHANGED store
         ELSE /\ ServerGoes(done, CCSFinished(sv))
              /\ Cache!Save(sv.id, [ver |-> sv.ver, suite |-> sv.suite, ms |-> sv.ms, auth |-> sv.auth])

ServerReadsData ==
  /\ sv.at = "app" /\ ToServer("app")
  /\ UNCHANGED store
  /\ ServerGoes(sv, << >>)

ServerRefuses ==
  /\ up /\ c2s # << >> /\ sv.at # "failed"
  /\ Head(c2s).key # sv.in \/ Head(c2s).type # sv.at
  /\ UNCHANGED store
  /\ ServerGoes(Fails(sv, IF Head(c2s).key # sv.in THEN "BAD_MAC"
                         ELSE IF Head(c2s).type = "no_renegotiation" THEN "ALERT"
                         ELSE "UNEXPECTED"), << >>)

ServerStep ==
  ReadClientHello \/ ReadClientCertificate \/ ReadClientKeyExchange \/ ReadCertificateVerify
  \/ ServerReadsCCS \/ ServerReadsFinished \/ ServerReadsData \/ ServerRefuses

---------------------------------------------------------------------------
(* The applications on both sides, and the wire.                           *)

\* connectSSL(): br_ssl_client_reset with the session stored, ClientHello.
Connect ==
  /\ ~up /\ n < MaxConns
  /\ n' = n + 1 /\ up' = TRUE
  /\ \E cfg \in ClientConfigs :
       /\ cl' = [Engine(cfg) EXCEPT !.at = "SH", !.id = session.id, !.ver = session.ver,
                   !.suite = session.suite, !.ms = session.ms, !.auth = session.auth,
                   !.random = << n + 1, 0 >>]
       /\ c2s' = << Message("CH", Clear, [max |-> cfg.max, id |-> session.id,
                                          suites |-> cfg.suites, random |-> n + 1]) >>
  /\ sv' = [Engine(sv.cfg) EXCEPT !.at = "CH"]
  /\ UNCHANGED << s2c, damaged, session, store >>

\* Nothing of the two engines is read again before the next reset.
Hangup ==
  /\ up /\ up' = FALSE
  /\ cl' = Engine(cl.cfg) /\ sv' = Engine(sv.cfg)
  /\ c2s' = << >> /\ s2c' = << >> /\ damaged' = FALSE
  /\ UNCHANGED << n, session, store >>

ClientSays ==
  /\ up /\ cl.at = "app" /\ ~cl.said
  /\ cl' = [cl EXCEPT !.said = TRUE]
  /\ c2s' = Append(c2s, Message("app", cl.out, 0))
  /\ UNCHANGED << n, up, damaged, sv, s2c, session, store >>

ServerSays ==
  /\ up /\ sv.at = "app" /\ ~sv.said
  /\ sv' = [sv EXCEPT !.said = TRUE]
  /\ s2c' = Append(s2c, Message("app", sv.out, 0))
  /\ UNCHANGED << n, up, damaged, cl, c2s, session, store >>

\* br_ssl_engine_renegotiate() of the server: it takes no application data any
\* more, and waits for a ClientHello.
RequestRenegotiation ==
  /\ up /\ sv.at = "app"
  /\ sv' = [sv EXCEPT !.at = "CH again"]
  /\ s2c' = Append(s2c, Message("HR", sv.out, 0))
  /\ UNCHANGED << n, up, damaged, cl, c2s, session, store >>

\* Between connections.
Restart ==
  /\ ~up
  /\ \E cfg \in ServerConfigs : sv' = Engine(cfg)
  /\ cache' = << >> /\ loaded' = NotFound /\ room' = room
  /\ UNCHANGED << n, wire, cl, session >>

ForgetInCache ==
  /\ ~up /\ session.id # None /\ Cache!Forget(session.id)
  /\ UNCHANGED << n, wire, cl, sv, session >>

SetSession ==
  /\ ~up /\ session' = NoSession
  /\ UNCHANGED << n, wire, cl, sv, store >>

\* What a message may have become on the way; a version that was damaged is
\* that of the record header as well.
Damaged(m) ==
  {m.v} \cup
  CASE m.type = "CH" ->
         {[m.v EXCEPT !.max = x] : x \in 1..(m.v.max - 1)}
           \cup {[m.v EXCEPT !.id = None], [m.v EXCEPT !.suites = SubSeq(@, 2, Len(@))],
                 [m.v EXCEPT !.random = -1]}
    [] m.type = "SH" ->
         {[m.v EXCEPT !.ver = x] : x \in Versions}
           \cup {[m.v EXCEPT !.id = x] : x \in 0..MaxConns}
           \cup {[m.v EXCEPT !.suite = s] : s \in Suites}
           \cup {[m.v EXCEPT !.random = -1]}
    [] m.type = "Cert" -> {"bad"}
    [] m.type = "SKE" -> {<< -1, -1 >>}
    [] m.type = "CKE" -> {-1}
    [] m.type = "CV" -> {{"CV"}}
    [] OTHER -> {}

Damage ==
  /\ Damages /\ up /\ ~damaged /\ damaged' = TRUE
  /\ \/ /\ c2s # << >> /\ Head(c2s).key = Clear /\ Head(c2s).type # "CCS"
        /\ \E v \in Damaged(Head(c2s)) :
             c2s' = << [Head(c2s) EXCEPT !.v = v, !.odd = TRUE] >> \o Tail(c2s)
        /\ UNCHANGED s2c
     \/ /\ s2c # << >> /\ Head(s2c).key = Clear /\ Head(s2c).type # "CCS"
        /\ \E v \in Damaged(Head(s2c)) :
             s2c' = << [Head(s2c) EXCEPT !.v = v, !.odd = TRUE] >> \o Tail(s2c)
        /\ UNCHANGED c2s
  /\ UNCHANGED << n, up, cl, sv, session, store >>

---------------------------------------------------------------------------
Init ==
  /\ n = 0 /\ up = FALSE /\ damaged = FALSE
  /\ c2s = << >> /\ s2c = << >>
  /\ \E cfg \in ClientConfigs : cl = Engine(cfg)
  /\ \E cfg \in ServerConfigs : sv = Engine(cfg)
  /\ session = NoSession /\ room \in Rooms /\ cache = << >> /\ loaded = NotFound

Applications == Connect \/ Hangup \/ ClientSays \/ ServerSays \/ RequestRenegotiation
  \/ Restart \/ ForgetInCache \/ SetSession

Next == ClientStep \/ ServerStep \/ Applications \/ Damage

\* Each side runs its engine on what has come; nobody else owes anything.
Spec == Init /\ [][Next]_vars /\ WF_vars(ClientStep) /\ WF_vars(ServerStep)

---------------------------------------------------------------------------
States == {"off", "failed", "app", "SH", "Cert", "SKE", "CR", "SHD", "CCS", "Fin",
           "CH", "CKE", "CV", "CH again"}

TypeOK ==
  /\ n \in 0..MaxConns /\ {up, damaged} \subseteq BOOLEAN
  /\ \A x \in {cl, sv} :
       /\ x.at \in States /\ x.ver \in Versions \cup {None}
       /\ x.suite \in Suites \cup {"none"} /\ x.id \in 0..MaxConns /\ x.ms \in -1..MaxConns
  /\ session.id \in 0..n
  /\ Len(cache) <= room
  /\ \A i \in DOMAIN cache : cache[i].id \in 1..n /\ cache[i].par \in Params
  /\ loaded \in Params \cup {NotFound}

Session(x) == << x.id, x.ver, x.suite, x.ms, x.resumed >>

\* What the two would agree on if nothing came in between.
Best(c, s) ==
  LET ver == Least(c.max, s.max)
      both == {i \in DOMAIN c.suites : c.suites[i] \in s.suites /\ (c.suites[i] \in Tls12Only => ver = 3)}
  IN  << ver, c.suites[Min(both)] >>

(* Whoever goes over to application data has the same session as the other *)
(* side, also when the server refused to resume or when one of them was    *)
(* set up differently; no message damaged on the way makes them take a     *)
(* lower version or another suite than they would have taken; and the      *)
(* cache only has sessions that both sides agreed on.                      *)
Agreement ==
  /\ up /\ (cl.at = "app" \/ sv.at \in {"app", "CH again"}) =>
       /\ Session(cl) = Session(sv)
       /\ ~cl.resumed => << cl.ver, cl.suite >> = Best(cl.cfg, sv.cfg)
  /\ \A i \in DOMAIN cache :
       /\ cache[i].par.ms = cache[i].id
       /\ cache[i].id = session.id =>
            /\ cache[i].par.ver = session.ver /\ cache[i].par.suite = session.suite
            /\ cache[i].par.ms = session.ms

(* Application data only flows between ends that proved who they are, now  *)
(* or in the handshake whose session they resume: the server to the        *)
(* client, and the client to a server that insists.                        *)
Authenticated ==
  /\ up /\ cl.at = "app" => cl.auth = "good"
  /\ up /\ sv.at \in {"app", "CH again"} /\ sv.cfg.asks /\ ~sv.cfg.lenient => sv.auth = "good"

(* Two ends that have something in common come together, whatever session  *)
(* the client offers: a session that cannot be resumed is no failure, but  *)
(* one of a version the client does not speak any more is.  Nothing that   *)
(* follows makes the client fail, not even a request to renegotiate.       *)
Compatible ==
  LET c == cl.cfg
      s == sv.cfg
      ver == Least(c.max, s.max)
  IN  /\ c.min <= ver /\ s.min <= ver /\ s.cert = "good"
      /\ \E suite \in ToSet(c.suites) \cap s.suites : suite \in Tls12Only => ver = 3
      /\ s.asks => s.lenient \/ c.cert = "good"
      /\ session.id # None => session.ver >= c.min

CompatibleSucceeds ==
  up /\ ~damaged /\ Compatible =>
    /\ cl.at # "failed"
    /\ sv.at = "failed" => cl.at = "app"

(* A handshake comes to an end: nobody waits for the other for ever.       *)
Settled == ~up \/ "failed" \in {cl.at, sv.at} \/ (cl.at = "app" /\ sv.at \in {"app", "CH again"})

HandshakeEnds == ~Settled ~> Settled
=============================================================================
