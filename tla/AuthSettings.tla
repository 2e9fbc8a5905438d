---------------------------- MODULE AuthSettings ----------------------------
(* The authentication settings of BSSL_SSLClient (src/src/client/SSLClient.h)  *)
(* and what a handshake makes of them: which validator mConnectSSL installs,   *)
(* which servers it lets pass, which client certificate is offered, and what a *)
(* stored TLS session lets skip (src/src/client/Helper.h, class bssl).         *)
(*                                                                             *)
(* A server is what the settings can tell of it: its CA, its key, the          *)
(* fingerprint of its certificate, whether it signed that itself.  Dates and   *)
(* host names always match, the clock is set, malloc succeeds.  The cipher     *)
(* list and the TLS versions are left out.                                     *)

CONSTANTS
    Ids,            \* CAs, keys and fingerprints, told apart by their use
    None,           \* a null pointer
    Servers,        \* the servers there are, see Server
    IssuerHashed    \* BSSL_BUILD_PLATFORM_CORE: the decoder reports the issuer

Maybe  == Ids \cup {None}
Server == [ca: Ids, key: Ids, print: Ids, selfSigned: BOOLEAN]

ASSUME AuthConstants ==
    None \notin Ids /\ Servers \subseteq Server /\ IssuerHashed \in BOOLEAN

VARIABLES
    s,          \* the settings, members of BSSL_SSLClient
    engine,     \* the TLS session of the connection, see Session; or NoSession
    session,    \* whether _session is set, and what the object it points to holds
    asked,      \* the check of the server the application last asked for
    given       \* the halves of a client pair given since they were last cleared

vars == <<s, engine, session, asked, given>>

Settings ==
    [ insecure: BOOLEAN, useFingerprint: BOOLEAN, useSelfSigned: BOOLEAN,
      fingerprint: Maybe,                       \* survives useFingerprint
      knownkey: Maybe, ta: Maybe,
      caCert: Maybe,                            \* _esp32_ta
      cert: BOOLEAN, privateKey: BOOLEAN,       \* _esp32_chain, _esp32_sk
      chain: BOOLEAN, sk: BOOLEAN,              \* _chain, _sk
      store: Maybe ]                            \* _certStore: the CA in it

NewSettings ==
    [ insecure |-> FALSE, useFingerprint |-> FALSE, useSelfSigned |-> FALSE,
      fingerprint |-> None, knownkey |-> None, ta |-> None, caCert |-> None,
      cert |-> FALSE, privateKey |-> FALSE, chain |-> FALSE, sk |-> FALSE,
      store |-> None ]

\* What an application may ask to be checked of a server.
Checks == [kind: {"nobody", "anybody", "selfSigned", "print", "key", "ca"}, of: Maybe]
Check(kind, of) == [kind |-> kind, of |-> of]

Admits(check, store, srv) ==
    \/ check.kind = "anybody"
    \/ check.kind = "selfSigned" /\ srv.selfSigned
    \/ check.kind = "print" /\ srv.print = check.of
    \/ check.kind = "key" /\ srv.key = check.of
    \/ check.kind = "ca" /\ srv.ca = check.of
    \/ check.kind \in {"nobody", "ca"} /\ srv.ca = store

\* A TLS session: with whom, and whether the check and the store at the time of
\* its full handshake admit that server.
Session   == [with: Servers, admitted: BOOLEAN]
NoSession == [with |-> None]

--------------------------------------------------------------------------------
(* The settings.                                                               *)

\* Mutant: the CA of setCACert survives.
ClearKeepingCA(x) ==
    [x EXCEPT !.insecure = FALSE, !.useFingerprint = FALSE, !.useSelfSigned = FALSE,
              !.knownkey = None, !.ta = None, !.cert = FALSE, !.privateKey = FALSE]

\* The client pair of setClientRSACert and setClientECCert, the store and the
\* bytes of the fingerprint stay.
mClearAuthenticationSettings(x) ==
    [x EXCEPT !.insecure = FALSE, !.useFingerprint = FALSE, !.useSelfSigned = FALSE,
              !.knownkey = None, !.ta = None,
              !.caCert = None, !.cert = FALSE, !.privateKey = FALSE]

setInsecure(x)          == [mClearAuthenticationSettings(x) EXCEPT !.insecure = TRUE]

\* Mutant: the flag and the bytes are swapped.
SwappedFingerprint(x, id) == [mClearAuthenticationSettings(x) EXCEPT !.useFingerprint = id,
                                                                     !.fingerprint = TRUE]
setFingerprint(x, id)   == [mClearAuthenticationSettings(x) EXCEPT !.useFingerprint = TRUE,
                                                                  !.fingerprint = id]
allowSelfSignedCerts(x) == [mClearAuthenticationSettings(x) EXCEPT !.useSelfSigned = TRUE]
setKnownKey(x, id)      == [mClearAuthenticationSettings(x) EXCEPT !.knownkey = id]

\* Mutant: what was set before is not cleared.
AddTrustAnchors(x, id)  == [x EXCEPT !.ta = id]
setTrustAnchors(x, id)  == [mClearAuthenticationSettings(x) EXCEPT !.ta = id]
setCACert(x, id)        == [mClearAuthenticationSettings(x) EXCEPT !.caCert = id]
setCertificate(x)       == [mClearAuthenticationSettings(x) EXCEPT !.cert = TRUE]
setPrivateKey(x)        == [mClearAuthenticationSettings(x) EXCEPT !.privateKey = TRUE]
setClientCert(x, c, k)  == [x EXCEPT !.cert = FALSE, !.privateKey = FALSE, !.chain = c, !.sk = k]
setCertStore(x, id)     == [x EXCEPT !.store = id]

\* setSecure(): the root CA is stored as a client certificate.
setSecure(x, root, pair) ==
    LET x0 == mClearAuthenticationSettings(x)
        x1 == IF root # None THEN setCertificate(x0) ELSE x0
    IN  IF pair THEN setPrivateKey(setCertificate(x1)) ELSE x1

--------------------------------------------------------------------------------
(* The handshake.                                                              *)

\* insecure_end_chain(): "no check at all" and the two it may make.
InsecurePasses(x, srv) ==
    /\ x.useFingerprint => srv.print = x.fingerprint
    /\ x.useSelfSigned => IssuerHashed /\ srv.selfSigned

\* br_x509_minimal: the chain ends in a trust anchor, or in a CA of the store.
MinimalPasses(x, srv) ==
    \/ srv.ca = IF x.caCert # None THEN x.caCert ELSE x.ta
    \/ srv.ca = x.store

\* mInstallClientX509Validator() and the validator it installs.
Passes(x, srv) ==
    IF x.insecure \/ x.useFingerprint \/ x.useSelfSigned THEN InsecurePasses(x, srv)
    ELSE IF x.knownkey # None THEN srv.key = x.knownkey
    ELSE MinimalPasses(x, srv)

\* The client certificate mConnectSSL() gives the engine: a key is needed, and
\* of the pair of setCertificate and setPrivateKey both halves.
OffersCertificate(x) == x.sk \/ (x.privateKey /\ x.cert)

NewSession(srv) == [with |-> srv, admitted |-> Admits(asked, s.store, srv)]

\* A full handshake: the session is stored when the server passed.
Full(srv) ==
    \/ /\ Passes(s, srv)
       /\ engine' = NewSession(srv)
       /\ session' = IF session.set THEN [session EXCEPT !.has = NewSession(srv)] ELSE session
    \/ ~Passes(s, srv) /\ engine' = NoSession /\ UNCHANGED session

\* The server of the stored session takes it up: no certificate is looked at.
Resumed(srv) ==
    /\ session.set /\ session.has.with = srv
    /\ engine' = session.has
    /\ UNCHANGED session

--------------------------------------------------------------------------------
(* The application.                                                            *)

\* Ask for a check of the server.  The halves given before are forgotten with
\* the check asked before.  (setFingerprint with a malformed text and the load
\* functions with a stream that ends early return before they set anything.)
Asks(x, check) ==
    s' = x /\ asked' = check /\ given' = {} /\ UNCHANGED <<engine, session>>

SetInsecure          == Asks(setInsecure(s), Check("anybody", None))
AllowSelfSignedCerts == Asks(allowSelfSignedCerts(s), Check("selfSigned", None))
ClearSettings        == Asks(mClearAuthenticationSettings(s), Check("nobody", None))
SetFingerprint(id)   == Asks(setFingerprint(s, id), Check("print", id))
SetKnownKey(id)      == Asks(setKnownKey(s, id), Check("key", id))
SetTrustAnchors(id)  == Asks(setTrustAnchors(s, id), Check("ca", id))
SetCACert(id)        == Asks(setCACert(s, id), Check("ca", id))

SetSecure(root, pair) ==
    /\ s' = setSecure(s, root, pair)
    /\ asked' = IF root = None THEN Check("nobody", None) ELSE Check("ca", root)
    /\ given' = IF pair THEN {"cert", "key"} ELSE {}
    /\ UNCHANGED <<engine, session>>

\* A half of the client pair.  Whatever check was asked for is gone, too.
Gives(x, half) ==
    /\ s' = x /\ given' = given \cup {half}
    /\ asked' = Check("nobody", None)
    /\ UNCHANGED <<engine, session>>

SetCertificate == Gives(setCertificate(s), "cert")
SetPrivateKey  == Gives(setPrivateKey(s), "key")

SetClientCert(c, k) ==
    s' = setClientCert(s, c, k) /\ given' = {} /\ UNCHANGED <<engine, session, asked>>

SetCertStore(id) == s' = setCertStore(s, id) /\ UNCHANGED <<engine, session, asked, given>>

\* setSession(): none, the object used before, or a new one.
SetSession(on, fresh) ==
    /\ session' = [set |-> on, has |-> IF fresh THEN NoSession ELSE session.has]
    /\ UNCHANGED <<s, engine, asked, given>>

\* connectSSL() to a server; whatever was up before is gone.
Handshake(srv) == (Full(srv) \/ Resumed(srv)) /\ UNCHANGED <<s, asked, given>>

\* stop() stores the session once more, in the object set by now.
Stop ==
    /\ engine # NoSession
    /\ session' = IF session.set THEN [session EXCEPT !.has = engine] ELSE session
    /\ engine' = NoSession
    /\ UNCHANGED <<s, asked, given>>

Init ==
    /\ s = NewSettings
    /\ engine = NoSession
    /\ session = [set |-> FALSE, has |-> NoSession]
    /\ asked = Check("nobody", None)
    /\ given = {}

Next ==
    \/ SetInsecure \/ AllowSelfSignedCerts \/ ClearSettings
    \/ \E id \in Ids : SetFingerprint(id) \/ SetKnownKey(id) \/ SetTrustAnchors(id) \/ SetCACert(id)
    \/ \E id \in Maybe, b \in BOOLEAN : SetSecure(id, b)
    \/ SetCertificate \/ SetPrivateKey
    \/ \E b, c \in BOOLEAN : SetClientCert(b, c) \/ SetSession(b, c)
    \/ \E id \in Maybe : SetCertStore(id)
    \/ \E srv \in Servers : Handshake(srv)
    \/ Stop

Spec == Init /\ [][Next]_vars

-----------------------------------------------------------------------------

\* Every setting stays within its range.
TypeOK ==
    /\ s \in Settings
    /\ engine \in Session \cup {NoSession}
    /\ session \in [set: BOOLEAN, has: Session \cup {NoSession}]
    /\ asked \in Checks
    /\ given \subseteq {"cert", "key"}

\* At most one way to check the server is in force: mInstallClientX509Validator
\* tests them one after the other, and an older one must not hide a newer one.
InForce(x) ==
    {how \in {"anybody", "print", "selfSigned", "key", "anchors", "CA"} :
        \/ how = "anybody" /\ x.insecure
        \/ how = "print" /\ x.useFingerprint
        \/ how = "selfSigned" /\ x.useSelfSigned
        \/ how = "key" /\ x.knownkey # None
        \/ how = "anchors" /\ x.ta # None
        \/ how = "CA" /\ x.caCert # None}

OneMode == \A how, other \in InForce(s) : how = other

\* No sequence of setters leaves a check weaker than the last one asked for:
\* every server the client is connected to, and every one whose stored session
\* lets a later handshake skip the check, passed a full handshake under a check
\* that admits it.  (A setter of half a client pair counts as asking for none.)
OnlyAdmittedServers ==
    \A x \in {engine, session.has} : x # NoSession => x.admitted

\* The certificate and the private key set for mutual authentication are offered.
MutualAuthentication == given = {"cert", "key"} => OffersCertificate(s)

=============================================================================
