------------------------- MODULE AuthSettingsProofs -------------------------
(* AuthSettings: for every set of identities and of servers, the settings are  *)
(* never weaker than the check the application asked for last.                 *)
EXTENDS AuthSettings, TLAPS

\* The settings x carry out the check c, or a stricter one.
CarriesOut(x, c) ==
    /\ x.insecure => c.kind = "anybody"
    /\ x.useFingerprint => c.kind = "print" /\ c.of = x.fingerprint
    /\ x.useSelfSigned => c.kind = "selfSigned"
    /\ x.knownkey # None => c.kind = "key" /\ c.of = x.knownkey
    /\ x.ta # None => c.kind = "ca" /\ c.of = x.ta /\ x.caCert = None
    /\ x.caCert # None => c.kind = "ca" /\ c.of = x.caCert
    /\ ~x.insecure /\ ~x.useFingerprint /\ ~x.useSelfSigned /\ x.knownkey = None
         => c.kind \in {"nobody", "ca"}

\* The inductive invariant.
IInv == TypeOK /\ CarriesOut(s, asked) /\ OnlyAdmittedServers

\* A server the installed validator lets pass is one the check admits.
LEMMA PassedIsAdmitted ==
    ASSUME NEW x \in Settings, NEW c \in Checks, NEW srv \in Server,
           CarriesOut(x, c), Passes(x, srv)
    PROVE  Admits(c, x.store, srv)
<1>1. None \notin Ids
  BY AuthConstants
<1>2. srv.ca \in Ids
  BY DEF Server
<1>3. CASE x.insecure
  BY <1>3 DEF CarriesOut, Admits
<1>4. CASE ~x.insecure /\ x.useFingerprint
  BY <1>4 DEF CarriesOut, Admits, Passes, InsecurePasses
<1>5. CASE ~x.insecure /\ ~x.useFingerprint /\ x.useSelfSigned
  BY <1>5 DEF CarriesOut, Admits, Passes, InsecurePasses
<1>6. CASE ~x.insecure /\ ~x.useFingerprint /\ ~x.useSelfSigned /\ x.knownkey # None
  BY <1>6 DEF CarriesOut, Admits, Passes
<1>7. CASE ~x.insecure /\ ~x.useFingerprint /\ ~x.useSelfSigned /\ x.knownkey = None
  BY <1>1, <1>2, <1>7 DEF CarriesOut, Admits, Passes, MinimalPasses
<1>8. QED
  BY <1>3, <1>4, <1>5, <1>6, <1>7

\* What the setters leave in force: nothing, or the one thing that was set.
LEMMA ClearedSettings ==
    ASSUME NEW x \in Settings
    PROVE  /\ mClearAuthenticationSettings(x) \in Settings
           /\ LET y == mClearAuthenticationSettings(x)
              IN  /\ ~y.insecure /\ ~y.useFingerprint /\ ~y.useSelfSigned
                  /\ y.knownkey = None /\ y.ta = None /\ y.caCert = None
BY DEF mClearAuthenticationSettings, Settings, Maybe

\* Asking for a check carries it out.
LEMMA SetterCarriesOut ==
    ASSUME NEW x \in Settings
    PROVE  /\ setInsecure(x) \in Settings
           /\ CarriesOut(setInsecure(x), Check("anybody", None))
           /\ allowSelfSignedCerts(x) \in Settings
           /\ CarriesOut(allowSelfSignedCerts(x), Check("selfSigned", None))
           /\ CarriesOut(mClearAuthenticationSettings(x), Check("nobody", None))
           /\ \A id \in Ids :
                 /\ setFingerprint(x, id) \in Settings
                 /\ CarriesOut(setFingerprint(x, id), Check("print", id))
                 /\ setKnownKey(x, id) \in Settings
                 /\ CarriesOut(setKnownKey(x, id), Check("key", id))
                 /\ setTrustAnchors(x, id) \in Settings
                 /\ CarriesOut(setTrustAnchors(x, id), Check("ca", id))
                 /\ setCACert(x, id) \in Settings
                 /\ CarriesOut(setCACert(x, id), Check("ca", id))
<1> DEFINE y == mClearAuthenticationSettings(x)
<1>1. /\ y \in Settings
      /\ ~y.insecure /\ ~y.useFingerprint /\ ~y.useSelfSigned
      /\ y.knownkey = None /\ y.ta = None /\ y.caCert = None
  BY ClearedSettings
<1>2. None \notin Ids
  BY AuthConstants
<1>3. CarriesOut(y, Check("nobody", None))
  BY <1>1 DEF CarriesOut, Check
<1>4. [y EXCEPT !.insecure = TRUE] \in Settings
      /\ CarriesOut([y EXCEPT !.insecure = TRUE], Check("anybody", None))
  BY <1>1 DEF CarriesOut, Check, Settings
<1>5. [y EXCEPT !.useSelfSigned = TRUE] \in Settings
      /\ CarriesOut([y EXCEPT !.useSelfSigned = TRUE], Check("selfSigned", None))
  BY <1>1 DEF CarriesOut, Check, Settings
<1>6. ASSUME NEW id \in Ids
      PROVE  /\ [y EXCEPT !.useFingerprint = TRUE, !.fingerprint = id] \in Settings
             /\ CarriesOut([y EXCEPT !.useFingerprint = TRUE, !.fingerprint = id],
                           Check("print", id))
  BY <1>1 DEF CarriesOut, Check, Settings, Maybe
<1>7. ASSUME NEW id \in Ids
      PROVE  /\ [y EXCEPT !.knownkey = id] \in Settings
             /\ CarriesOut([y EXCEPT !.knownkey = id], Check("key", id))
  BY <1>1, <1>2 DEF CarriesOut, Check, Settings, Maybe
<1>8. ASSUME NEW id \in Ids
      PROVE  /\ [y EXCEPT !.ta = id] \in Settings
             /\ CarriesOut([y EXCEPT !.ta = id], Check("ca", id))
  BY <1>1, <1>2 DEF CarriesOut, Check, Settings, Maybe
<1>9. ASSUME NEW id \in Ids
      PROVE  /\ [y EXCEPT !.caCert = id] \in Settings
             /\ CarriesOut([y EXCEPT !.caCert = id], Check("ca", id))
  BY <1>1, <1>2 DEF CarriesOut, Check, Settings, Maybe
<1>10. QED
  BY <1>3, <1>4, <1>5, <1>6, <1>7, <1>8, <1>9
  DEF setInsecure, allowSelfSignedCerts, setFingerprint, setKnownKey, setTrustAnchors, setCACert

\* Half a client pair leaves no check in force, and so does setSecure().
LEMMA PairCarriesOut ==
    ASSUME NEW x \in Settings
    PROVE  /\ setCertificate(x) \in Settings /\ setPrivateKey(x) \in Settings
           /\ \A c \in Checks : c.kind \in {"nobody", "ca"} =>
                 CarriesOut(setCertificate(x), c) /\ CarriesOut(setPrivateKey(x), c)
BY ClearedSettings DEF setCertificate, setPrivateKey, CarriesOut, Settings

LEMMA SetSecureCarriesOut ==
    ASSUME NEW x \in Settings, NEW root \in Maybe, NEW pair \in BOOLEAN,
           NEW c \in Checks, c.kind \in {"nobody", "ca"}
    PROVE  setSecure(x, root, pair) \in Settings /\ CarriesOut(setSecure(x, root, pair), c)
<1> DEFINE x0 == mClearAuthenticationSettings(x)
           x1 == IF root # None THEN setCertificate(x0) ELSE x0
<1>1. x0 \in Settings /\ CarriesOut(x0, c)
  BY ClearedSettings DEF CarriesOut
<1>2. x1 \in Settings /\ CarriesOut(x1, c)
  BY <1>1, PairCarriesOut
<1>3. setPrivateKey(setCertificate(x1)) \in Settings
      /\ CarriesOut(setPrivateKey(setCertificate(x1)), c)
  BY <1>2, PairCarriesOut
<1>4. QED
  BY <1>2, <1>3 DEF setSecure

\* The settings of a new client carry out that nobody is to be let pass.
LEMMA Start == Init => IInv
BY DEF Init, IInv, TypeOK, CarriesOut, OnlyAdmittedServers, NewSettings, Settings, Check,
       Checks, Session, NoSession, Maybe

\* A setter that asks for a check preserves the invariant.
LEMMA AskedPreserves ==
    ASSUME IInv, NEW x \in Settings, NEW c \in Checks, CarriesOut(x, c),
           s' = x, asked' = c, given' \subseteq {"cert", "key"},
           UNCHANGED <<engine, session>>
    PROVE  IInv'
BY DEF IInv, TypeOK, OnlyAdmittedServers, CarriesOut

\* So does a handshake: the validator in force lets only admitted servers pass.
LEMMA HandshakePreserves ==
    ASSUME IInv, NEW srv \in Servers, Handshake(srv)
    PROVE  IInv'
<1>1. s' = s /\ asked' = asked /\ given' = given
  BY DEF Handshake
<1>2. CASE Resumed(srv)
  BY <1>1, <1>2 DEF IInv, TypeOK, CarriesOut, OnlyAdmittedServers, Resumed
<1>3. CASE Passes(s, srv) /\ engine' = NewSession(srv)
           /\ session' = IF session.set THEN [session EXCEPT !.has = NewSession(srv)] ELSE session
  <2>1. srv \in Server
    BY AuthConstants
  <2>2. Admits(asked, s.store, srv)
    BY <1>3, <2>1, PassedIsAdmitted DEF IInv, TypeOK
  <2>3. NewSession(srv) \in Session /\ NewSession(srv).admitted
    BY <2>2 DEF NewSession, Session
  <2>4. session'.has \in {session.has, NewSession(srv)}
        /\ session' \in [set: BOOLEAN, has: Session \cup {NoSession}]
    BY <1>3, <2>3 DEF IInv, TypeOK
  <2>5. QED
    BY <1>1, <1>3, <2>3, <2>4 DEF IInv, TypeOK, CarriesOut, OnlyAdmittedServers
<1>4. CASE engine' = NoSession /\ session' = session
  BY <1>1, <1>4 DEF IInv, TypeOK, CarriesOut, OnlyAdmittedServers
<1>5. QED
  BY <1>2, <1>3, <1>4 DEF Handshake, Full

LEMMA StepPreserves == IInv /\ [Next]_vars => IInv'
<1> SUFFICES ASSUME IInv, [Next]_vars PROVE IInv'
  OBVIOUS
<1> USE DEF IInv
<1>1. s \in Settings /\ asked \in Checks /\ given \subseteq {"cert", "key"}
  BY DEF TypeOK
<1>2. /\ Check("anybody", None) \in Checks /\ Check("selfSigned", None) \in Checks
      /\ Check("nobody", None) \in Checks
      /\ \A id \in Ids : /\ Check("print", id) \in Checks /\ Check("key", id) \in Checks
                         /\ Check("ca", id) \in Checks
  BY DEF Check, Checks, Maybe
<1>3. Check("nobody", None).kind = "nobody" /\ \A id \in Ids : Check("ca", id).kind = "ca"
  BY DEF Check
<1>4. CASE SetInsecure
  BY <1>1, <1>2, <1>4, SetterCarriesOut, AskedPreserves DEF SetInsecure, Asks
<1>5. CASE AllowSelfSignedCerts
  BY <1>1, <1>2, <1>5, SetterCarriesOut, AskedPreserves DEF AllowSelfSignedCerts, Asks
<1>6. CASE ClearSettings
  BY <1>1, <1>2, <1>6, SetterCarriesOut, ClearedSettings, AskedPreserves DEF ClearSettings, Asks
<1>7. ASSUME NEW id \in Ids, SetFingerprint(id) PROVE IInv'
  BY <1>1, <1>2, <1>7, SetterCarriesOut, AskedPreserves DEF SetFingerprint, Asks
<1>8. ASSUME NEW id \in Ids, SetKnownKey(id) PROVE IInv'
  BY <1>1, <1>2, <1>8, SetterCarriesOut, AskedPreserves DEF SetKnownKey, Asks
<1>9. ASSUME NEW id \in Ids, SetTrustAnchors(id) PROVE IInv'
  BY <1>1, <1>2, <1>9, SetterCarriesOut, AskedPreserves DEF SetTrustAnchors, Asks
<1>10. ASSUME NEW id \in Ids, SetCACert(id) PROVE IInv'
  BY <1>1, <1>2, <1>10, SetterCarriesOut, AskedPreserves DEF SetCACert, Asks
<1>11. ASSUME NEW root \in Maybe, NEW pair \in BOOLEAN, SetSecure(root, pair) PROVE IInv'
  <2> DEFINE c == IF root = None THEN Check("nobody", None) ELSE Check("ca", root)
  <2>1. c \in Checks /\ c.kind \in {"nobody", "ca"}
    BY <1>2, <1>3 DEF Maybe
  <2>2. setSecure(s, root, pair) \in Settings /\ CarriesOut(setSecure(s, root, pair), c)
    BY <1>1, <2>1, SetSecureCarriesOut
  <2>3. s' = setSecure(s, root, pair) /\ asked' = c
        /\ given' \subseteq {"cert", "key"} /\ UNCHANGED <<engine, session>>
    BY <1>11 DEF SetSecure
  <2> HIDE DEF c
  <2>4. QED
    BY <2>1, <2>2, <2>3, AskedPreserves
<1>12. CASE SetCertificate
  BY <1>1, <1>2, <1>3, <1>12, PairCarriesOut, AskedPreserves DEF SetCertificate, Gives
<1>13. CASE SetPrivateKey
  BY <1>1, <1>2, <1>3, <1>13, PairCarriesOut, AskedPreserves DEF SetPrivateKey, Gives
<1>14. ASSUME NEW c \in BOOLEAN, NEW k \in BOOLEAN, SetClientCert(c, k) PROVE IInv'
  <2>1. setClientCert(s, c, k) \in Settings /\ CarriesOut(setClientCert(s, c, k), asked)
    BY <1>1 DEF setClientCert, Settings, CarriesOut
  <2>2. QED
    BY <1>1, <1>14, <2>1, AskedPreserves DEF SetClientCert
<1>15. ASSUME NEW id \in Maybe, SetCertStore(id) PROVE IInv'
  <2>1. setCertStore(s, id) \in Settings /\ CarriesOut(setCertStore(s, id), asked)
    BY <1>1 DEF setCertStore, Settings, CarriesOut
  <2>2. QED
    BY <1>1, <1>15, <2>1, AskedPreserves DEF SetCertStore
<1>16. ASSUME NEW on \in BOOLEAN, NEW fresh \in BOOLEAN, SetSession(on, fresh) PROVE IInv'
  BY <1>16 DEF SetSession, TypeOK, CarriesOut, OnlyAdmittedServers
<1>17. ASSUME NEW srv \in Servers, Handshake(srv) PROVE IInv'
  BY <1>17, HandshakePreserves
<1>18. CASE Stop
  BY <1>18 DEF Stop, TypeOK, CarriesOut, OnlyAdmittedServers
<1>19. CASE UNCHANGED vars
  BY <1>19 DEF vars, TypeOK, CarriesOut, OnlyAdmittedServers
<1>20. QED
  BY <1>4, <1>5, <1>6, <1>7, <1>8, <1>9, <1>10, <1>11, <1>12, <1>13, <1>14, <1>15, <1>16,
     <1>17, <1>18, <1>19 DEF Next

\* The settings always carry out the check asked for last, or a stricter one.
THEOREM SettingsCarryOut == Spec => []IInv
<1>1. Init => IInv
  BY Start
<1>2. IInv /\ [Next]_vars => IInv'
  BY StepPreserves
<1>3. QED
  BY <1>1, <1>2, PTL DEF Spec

\* Every setting stays within its range.
THEOREM AuthTypeCorrect == Spec => []TypeOK
<1>1. IInv => TypeOK
  BY DEF IInv
<1>2. QED
  BY <1>1, SettingsCarryOut, PTL

\* At most one way to check the server is in force, whatever was set before.
THEOREM OneModeInForce == Spec => []OneMode
<1>1. IInv => OneMode
  BY DEF IInv, TypeOK, CarriesOut, OneMode, InForce
<1>2. QED
  BY <1>1, SettingsCarryOut, PTL

\* No connection and no stored session is with a server that the check in force
\* at its full handshake does not admit.
THEOREM ServersAdmitted == Spec => []OnlyAdmittedServers
<1>1. IInv => OnlyAdmittedServers
  BY DEF IInv
<1>2. QED
  BY <1>1, SettingsCarryOut, PTL

=============================================================================
