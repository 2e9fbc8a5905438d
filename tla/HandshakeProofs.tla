--------------------------- MODULE HandshakeProofs ---------------------------
(***************************************************************************)
(* The handshake for every set of suites, every configuration of the two   *)
(* ends, every room of the cache, any number of connections and any        *)
(* message damaged: what the two ends agree on, and who they know they     *)
(* talk to.                                                                *)
(***************************************************************************)
EXTENDS Handshake, SequenceTheorems, WellFoundedInduction, TLAPS

---------------------------------------------------------------------------
(* The inductive invariant.  Types first. *)

Auths == {"none", "empty", "good", "bad"}
Versions0 == Versions \cup {None}
Suites0 == Suites \cup {"none"}

Types == {"CH", "SH", "Cert", "SKE", "CR", "SHD", "CKE", "CV", "CCS", "Fin", "app", "HR",
          "alert", "no_renegotiation"}
Errors == {"none", "UNSUPPORTED_VERSION", "RESUME_MISMATCH", "BAD_CIPHER_SUITE", "X509",
           "BAD_SIGNATURE", "BAD_FINISHED", "BAD_MAC", "ALERT", "UNEXPECTED",
           "handshake_failure", "protocol_version", "NO_CLIENT_AUTH"}

(* A session ID is the number of the connection it was drawn in, up to n,  *)
(* unless it was damaged: the master secret of a damaged ClientKeyExchange *)
(* is one nobody else has.                                                 *)
KeySets == {Clear} \cup ((-1..MaxConns) \X (Int \X Int) \X Versions0 \X Suites0)

Engines(Cfgs) ==
  [ at : States, cfg : Cfgs, err : Errors,
    id : 0..MaxConns, ver : Versions0, suite : Suites0, ms : -1..MaxConns,
    auth : Auths, resumed : BOOLEAN, random : Int \X Int,
    in : KeySets, out : KeySets,
    odd : SUBSET Types, asked : BOOLEAN, said : BOOLEAN ]

Typed ==
  /\ n \in 0..MaxConns /\ up \in BOOLEAN /\ damaged \in BOOLEAN
  /\ cl \in Engines(ClientConfigs) /\ sv \in Engines(ServerConfigs)
  /\ session \in [id : 0..n, ver : Versions0, suite : Suites0, ms : -1..MaxConns, auth : Auths]

Queue(q) == q \in Seq(ToSet(q))

Hellos == [max : Versions, id : 0..MaxConns, suites : Seq(Suites), random : Int]
Answered == [ver : Versions, id : 0..MaxConns, suite : Suites, random : Int]

IsMessage(m) ==
  /\ m = [type |-> m.type, key |-> m.key, odd |-> m.odd, v |-> m.v]
  /\ m.type \in Types /\ m.odd \in BOOLEAN

(* What is under way is what the end that wrote it meant, damaged or not.  *)
OfClient(m) ==
  /\ IsMessage(m)
  /\ m.type = "CH" =>
       /\ sv.at = "CH" /\ m.v \in Hellos /\ m.v.id \in {None, session.id}
       /\ ~m.odd => m.v.max = cl.cfg.max /\ m.v.suites = cl.cfg.suites
  /\ m.type = "Cert" => m.v \in {"empty", "good", "bad"}
  /\ m.type = "CKE" => m.v \in -1..MaxConns
  /\ m.type = "Fin" => cl.out # Clear /\ m.key = Keys(cl) /\ m.v = << cl.ms, cl.odd >>
  /\ m.type = "SH" => FALSE

OfServer(m) ==
  /\ IsMessage(m)
  /\ m.type = "SH" =>
       /\ sv.id # None /\ m.v \in Answered /\ m.v.random # 0
       /\ ~m.odd => m.v = [ver |-> sv.ver, id |-> sv.id, suite |-> sv.suite, random |-> n]
  /\ m.type = "Cert" => m.v \in {"good", "bad"}
  /\ m.type = "Fin" => sv.out # Clear /\ m.key = Keys(sv) /\ m.v = << sv.ms, sv.odd >>
  /\ m.type = "CH" => FALSE

Wires ==
  /\ Queue(c2s) /\ \A m \in ToSet(c2s) : OfClient(m)
  /\ Queue(s2c) /\ \A m \in ToSet(s2c) : OfServer(m)

(* One message of a connection is damaged, while it is the next to be      *)
(* read; whoever reads it keeps the trace.                                 *)
Odd(q) == q # << >> /\ Head(q).odd
CleanTail(q) == q # << >> => \A m \in ToSet(Tail(q)) : ~m.odd

DamagedOnce ==
  /\ CleanTail(c2s) /\ CleanTail(s2c)
  /\ ~damaged => ~Odd(c2s) /\ ~Odd(s2c) /\ cl.odd = {} /\ sv.odd = {}
  /\ ~(Odd(c2s) /\ Odd(s2c))
  /\ cl.odd # {} => ~Odd(c2s) /\ ~Odd(s2c) /\ sv.odd = {}
  /\ sv.odd # {} => ~Odd(c2s) /\ ~Odd(s2c)

(* An end has sent its Finished when it has keys to send with.             *)
Sent(x) == x.out # Clear

(* The client has read a ServerHello when it knows a server_random, the    *)
(* server has written one when it has a session ID.                        *)
Answer == cl.random[2] # 0
Answering == sv.id # None

Frozen == {"CCS", "Fin", "app", "failed"}

OfSession(x) ==
  << x.id, x.ver, x.suite, x.ms, x.auth >> =
  << session.id, session.ver, session.suite, session.ms, session.auth >>

ClientIs ==
  /\ cl.at = "SH" => ~Answer /\ OfSession(cl) /\ cl.random[1] = n
  /\ ~Answer => cl.at \in {"SH", "failed"} /\ ~Sent(cl) /\ session.id < n /\ ~cl.resumed
  /\ Answer => Answering /\
       ("SH" \notin cl.odd =>
          /\ << cl.id, cl.ver, cl.suite, cl.resumed >> = << sv.id, sv.ver, sv.suite, sv.resumed >>
          /\ cl.random[2] = n)
  /\ Answer => cl.ver \in Versions /\ cl.suite \in Suites
  /\ cl.at \in {"Cert", "SKE", "CR", "SHD"} => Answer /\ ~cl.resumed /\ ~Sent(cl)
  /\ cl.at \in {"CCS", "Fin"} => Answer /\ (cl.resumed <=> ~Sent(cl))
  /\ cl.at = "app" => Sent(cl)
  /\ Sent(cl) => cl.at \in Frozen /\ Answer /\ (~cl.resumed => cl.ms = n)
  /\ cl.at = "Fin" => cl.in = Keys(cl)
  /\ cl.resumed => OfSession(cl) /\ session.id # None
  /\ cl.at \in {"SKE", "CR", "SHD", "CCS", "Fin", "app"} => cl.auth = "good"

Insists == sv.cfg.asks /\ ~sv.cfg.lenient

ServerIs ==
  /\ sv.at = "CH" => /\ cl.at = "SH" /\ s2c = << >> /\ Len(c2s) = 1
                     /\ ~Answering /\ ~Sent(sv) /\ ~sv.resumed /\ sv.odd = {} /\ sv.auth = "none"
  /\ ~Answering => sv.at \in {"CH", "failed"} /\ ~Sent(sv)
  /\ Answering =>
       /\ sv.ver \in Versions /\ sv.suite \in Suites /\ sv.random[2] = n
       /\ ~sv.resumed => sv.id = n
       /\ ~Answer /\ sv.resumed => sv.id = session.id
       /\ ~sv.resumed /\ "CH" \notin sv.odd => << sv.ver, sv.suite >> = Best(cl.cfg, sv.cfg)
  /\ Sent(sv) => sv.at \in Frozen \cup {"CH again"} /\ Answering
  /\ sv.at \in {"Cert", "CKE", "CV"} => ~sv.resumed /\ ~Sent(sv)
  /\ sv.at \in {"CCS", "Fin"} => (sv.resumed <=> Sent(sv))
  /\ sv.at \in {"app", "CH again"} => Sent(sv)
  /\ sv.at = "Fin" => sv.in = Keys(sv)
  /\ sv.at \in {"CKE", "CV", "CCS", "Fin", "app", "CH again"} /\ Insists => sv.auth = "good"

(* Both are at the end: whatever one of them has, the other one has.       *)
Agreed ==
  /\ Sent(cl) /\ Sent(sv)
  /\ << Session(cl), cl.random, cl.odd >> = << Session(sv), sv.random, sv.odd >> /\ cl.odd = {}

Stored ==
  /\ session.id = n => Answer /\ Sent(sv)
  /\ \A m \in ToSet(cache) : m.id = n =>
       /\ Sent(sv) /\ sv.id = n
       /\ << m.par.ver, m.par.suite, m.par.ms >> = << sv.ver, sv.suite, sv.ms >>

Up ==
  /\ n > 0 /\ ClientIs /\ ServerIs /\ Stored
  /\ cl.at = "app" \/ sv.at \in {"app", "CH again"} => Agreed

Down == cl = Engine(cl.cfg) /\ sv = Engine(sv.cfg) /\ c2s = << >> /\ s2c = << >> /\ ~damaged

Entry(m) ==
  /\ m \in [id : 1..n, par : Params, on : BOOLEAN]
  /\ m.par.ms = m.id
  /\ Insists => m.par.auth = "good"
  /\ m.id = session.id =>
       << m.par.ver, m.par.suite, m.par.ms >> = << session.ver, session.suite, session.ms >>

Cached ==
  /\ room \in Nat /\ Queue(cache) /\ Len(cache) <= room
  /\ \A m \in ToSet(cache) : Entry(m)
  /\ loaded \in Params \cup {NotFound}
  /\ session.id # None => session.auth = "good"

Inv ==
  /\ Typed /\ Wires /\ DamagedOnce /\ Cached
  /\ up => Up
  /\ ~up => Down

---------------------------------------------------------------------------
(* Queues of messages. *)

LEMMA SequenceIsQueue ==
    ASSUME NEW S, NEW q \in Seq(S)
    PROVE  Queue(q)
<1>1. Len(q) \in Nat /\ DOMAIN q = 1..Len(q) /\ q \in [1..Len(q) -> S]
  OBVIOUS
<1>2. \A i \in 1..Len(q) : q[i] \in ToSet(q)
  BY <1>1 DEF ToSet
<1>3. q \in [1..Len(q) -> ToSet(q)]
  BY <1>1, <1>2
<1> QED BY <1>1, <1>3, SeqDef DEF Queue

LEMMA HeadTailOf ==
    ASSUME NEW q, Queue(q), q # << >>
    PROVE  /\ Head(q) \in ToSet(q) /\ Queue(Tail(q))
           /\ ToSet(Tail(q)) \subseteq ToSet(q)
           /\ Len(Tail(q)) = Len(q) - 1 /\ (Len(q) = 1 => Tail(q) = << >>)
<1>1. /\ Len(q) \in Nat /\ Len(q) > 0 /\ DOMAIN q = 1..Len(q)
      /\ Head(q) = q[1] /\ q[1] \in ToSet(q)
  BY DEF Queue, ToSet
<1>2. /\ Tail(q) \in Seq(ToSet(q)) /\ Len(Tail(q)) = Len(q) - 1
      /\ \A i \in 1..Len(q)-1 : Tail(q)[i] = q[i + 1]
  BY DEF Queue
<1>3. DOMAIN Tail(q) = 1..Len(q)-1
  BY <1>1, <1>2
<1>4. Queue(Tail(q))
  BY <1>2, SequenceIsQueue
<1>5. ToSet(Tail(q)) \subseteq ToSet(q)
  BY <1>1, <1>2, <1>3 DEF ToSet
<1> QED BY <1>1, <1>2, <1>4, <1>5

LEMMA Joined ==
    ASSUME NEW q, Queue(q), NEW r, Queue(r)
    PROVE  /\ Queue(q \o r) /\ ToSet(q \o r) = ToSet(q) \cup ToSet(r)
           /\ q # << >> => /\ q \o r # << >> /\ Head(q \o r) = Head(q)
                           /\ Tail(q \o r) = Tail(q) \o r
           /\ q = << >> => q \o r = r
<1> DEFINE S == ToSet(q) \cup ToSet(r)
<1>1. q \in Seq(S) /\ r \in Seq(S)
  BY SeqMonotonic DEF Queue
<1> HIDE DEF S
<1>2. q \o r \in Seq(S) /\ Len(q \o r) = Len(q) + Len(r)
  BY <1>1
<1>3. Queue(q \o r)
  BY <1>2, SequenceIsQueue
<1>4. /\ Len(q) \in Nat /\ Len(r) \in Nat /\ DOMAIN q = 1..Len(q) /\ DOMAIN r = 1..Len(r)
      /\ DOMAIN (q \o r) = 1..(Len(q) + Len(r))
  BY <1>1, <1>2
<1>5. \A i \in 1..(Len(q) + Len(r)) : (q \o r)[i] = IF i <= Len(q) THEN q[i] ELSE r[i - Len(q)]
  BY <1>1
<1>6. ToSet(q \o r) \subseteq ToSet(q) \cup ToSet(r)
  BY <1>4, <1>5 DEF ToSet
<1>7. ToSet(q) \subseteq ToSet(q \o r)
  BY <1>4, <1>5 DEF ToSet
<1>8. ToSet(r) \subseteq ToSet(q \o r)
  <2>1. \A i \in DOMAIN r : i + Len(q) \in DOMAIN (q \o r) /\ (q \o r)[i + Len(q)] = r[i]
    BY <1>4, <1>5
  <2> QED BY <2>1 DEF ToSet
<1>9. q # << >> => q \o r # << >> /\ Head(q \o r) = Head(q) /\ Tail(q \o r) = Tail(q) \o r
  BY <1>1
<1>10. q = << >> => q \o r = r
  BY <1>1
<1> QED BY <1>3, <1>6, <1>7, <1>8, <1>9, <1>10

LEMMA OneMessage ==
    ASSUME NEW m
    PROVE  Queue(<< m >>) /\ ToSet(<< m >>) = {m} /\ Head(<< m >>) = m /\ Tail(<< m >>) = << >>
  BY DEF Queue, ToSet

LEMMA NoMessage == Queue(<< >>) /\ ToSet(<< >>) = {}
  BY DEF Queue, ToSet

---------------------------------------------------------------------------
(* The two ends. *)

LEMMA KeysAre ==
    ASSUME NEW C, NEW x \in Engines(C)
    PROVE  Keys(x) \in KeySets /\ Keys(x) # Clear
  BY DEF Keys, KeySets, Clear, Engines

(* Two ends with the same keys. *)
LEMMA SameKeys ==
    ASSUME NEW x, NEW y, Keys(x) = Keys(y)
    PROVE  x.ms = y.ms /\ x.random = y.random /\ x.ver = y.ver /\ x.suite = y.suite
  BY DEF Keys

(* All of an end but its state, its error, its keys and what it read       *)
(* damaged.                                                                *)
Rest(x) ==
  << x.cfg, x.id, x.ver, x.suite, x.ms, x.auth, x.resumed, x.random, x.asked, x.said >>

LEMMA TookIs ==
    ASSUME NEW C, NEW x \in Engines(C), NEW m, IsMessage(m)
    PROVE  /\ Took(x, m) \in Engines(C) /\ Rest(Took(x, m)) = Rest(x)
           /\ Took(x, m).at = x.at /\ Took(x, m).in = x.in /\ Took(x, m).out = x.out
           /\ Took(x, m).odd = IF m.odd THEN x.odd \cup {m.type} ELSE x.odd
  BY DEF Took, Engines, Rest, IsMessage

LEMMA FailsIs ==
    ASSUME NEW C, NEW x \in Engines(C), NEW err \in Errors
    PROVE  /\ Fails(x, err) \in Engines(C) /\ Rest(Fails(x, err)) = Rest(x)
           /\ Fails(x, err).at = "failed" /\ Fails(x, err).in = x.in /\ Fails(x, err).out = x.out
           /\ Fails(x, err).odd = x.odd
  BY DEF Fails, Engines, Rest, States

LEMMA MessageIs ==
    ASSUME NEW type \in Types, NEW key, NEW v
    PROVE  /\ IsMessage(Message(type, key, v)) /\ ~Message(type, key, v).odd
           /\ Message(type, key, v).type = type /\ Message(type, key, v).key = key
           /\ Message(type, key, v).v = v
  BY DEF Message, IsMessage

(* What keeps as it is once an end sent its Finished. *)
Fixed(x) == << x.cfg, x.id, x.ver, x.suite, x.ms, x.resumed, x.random, x.odd >>

LEMMA CCSFinishedIs ==
    ASSUME NEW C, NEW x \in Engines(C)
    PROVE  /\ Queue(CCSFinished(x))
           /\ \A m \in ToSet(CCSFinished(x)) :
                /\ IsMessage(m) /\ ~m.odd /\ m.type \in {"CCS", "Fin"}
                /\ m.type = "Fin" => m.key = Keys(x) /\ m.v = << x.ms, x.odd >>
<1> DEFINE a == Message("CCS", x.out, 0)
           b == Message("Fin", Keys(x), << x.ms, x.odd >>)
<1>1. IsMessage(a) /\ ~a.odd /\ a.type = "CCS"
  BY MessageIs DEF a, Types
<1>2. IsMessage(b) /\ ~b.odd /\ b.type = "Fin" /\ b.key = Keys(x) /\ b.v = << x.ms, x.odd >>
  BY MessageIs DEF b, Types
<1> HIDE DEF a, b
<1>3. Queue(<< a, b >>)
  <2>1. << a, b >> \in Seq({a, b})
    OBVIOUS
  <2> QED BY <2>1, SequenceIsQueue
<1>4. \A m \in ToSet(<< a, b >>) : m = a \/ m = b
  <2>1. DOMAIN << a, b >> = {1, 2} /\ << a, b >>[1] = a /\ << a, b >>[2] = b
    OBVIOUS
  <2> QED BY <2>1 DEF ToSet
<1> QED BY <1>1, <1>2, <1>3, <1>4 DEF CCSFinished, a, b

---------------------------------------------------------------------------
(* A step of the client: the message is gone, new ones are behind.         *)

ClientMoves(msgs) ==
  /\ up /\ s2c # << >> /\ up' = up /\ n' = n /\ damaged' = damaged /\ sv' = sv
  /\ s2c' = Tail(s2c) /\ c2s' = c2s \o msgs
  /\ Queue(msgs) /\ \A m \in ToSet(msgs) : IsMessage(m) /\ ~m.odd
  /\ cl' \in Engines(ClientConfigs) /\ cl'.odd \in {cl.odd, Client.odd}

LEMMA ClientWires ==
    ASSUME Inv, NEW msgs, ClientMoves(msgs)
    PROVE  /\ Queue(c2s') /\ Queue(s2c') /\ ToSet(c2s') = ToSet(c2s) \cup ToSet(msgs)
           /\ ToSet(s2c') \subseteq ToSet(s2c) /\ Head(s2c) \in ToSet(s2c)
           /\ DamagedOnce'
<1>1. /\ Queue(c2s) /\ Queue(s2c) /\ DamagedOnce
      /\ \A m \in ToSet(c2s) \cup ToSet(s2c) : IsMessage(m)
      /\ s2c # << >> /\ s2c' = Tail(s2c) /\ c2s' = c2s \o msgs
  BY DEF Inv, Wires, OfClient, OfServer, ClientMoves
<1>2. /\ Head(s2c) \in ToSet(s2c) /\ Queue(s2c') /\ ToSet(s2c') \subseteq ToSet(s2c)
  BY <1>1, HeadTailOf
<1>3. /\ Queue(msgs) /\ \A m \in ToSet(msgs) : ~m.odd
  BY DEF ClientMoves
<1>4. /\ Queue(c2s') /\ ToSet(c2s') = ToSet(c2s) \cup ToSet(msgs)
  BY <1>1, <1>3, Joined
<1>5. ~Odd(s2c)' /\ CleanTail(s2c)'
  <2>1. \A m \in ToSet(s2c') : ~m.odd
    BY <1>1 DEF DamagedOnce, CleanTail
  <2> QED BY <1>2, <2>1, HeadTailOf DEF Odd, CleanTail
<1>6. Odd(c2s)' = Odd(c2s) /\ CleanTail(c2s)'
  <2>1. CASE c2s = << >>
    <3>1. \A m \in ToSet(c2s') : ~m.odd
      BY <1>1, <1>3, <2>1, Joined
    <3> QED BY <1>4, <2>1, <3>1, HeadTailOf DEF Odd, CleanTail
  <2>2. CASE c2s # << >>
    <3>1. /\ c2s' # << >> /\ Head(c2s') = Head(c2s) /\ Tail(c2s') = Tail(c2s) \o msgs
      BY <1>1, <1>3, <2>2, Joined
    <3>2. Queue(Tail(c2s)) /\ ToSet(Tail(c2s)) \subseteq ToSet(c2s)
      BY <1>1, <2>2, HeadTailOf
    <3>3. ToSet(Tail(c2s) \o msgs) = ToSet(Tail(c2s)) \cup ToSet(msgs)
      BY <1>3, <3>2, Joined
    <3> QED BY <1>1, <1>3, <2>2, <3>1, <3>3 DEF Odd, CleanTail, DamagedOnce
  <2> QED BY <2>1, <2>2
<1>7. \/ cl'.odd = cl.odd
      \/ Odd(s2c)
  <2>1. cl \in Engines(ClientConfigs) /\ IsMessage(Head(s2c))
    BY <1>1, <1>2 DEF Inv, Typed
  <2>2. Client.odd = IF Head(s2c).odd THEN cl.odd \cup {Head(s2c).type} ELSE cl.odd
    BY <2>1, TookIs DEF Client
  <2> QED BY <1>1, <2>1, <2>2 DEF ClientMoves, Odd, IsMessage
<1> QED BY <1>1, <1>2, <1>4, <1>5, <1>6, <1>7 DEF DamagedOnce, ClientMoves

(* What is left to show of a step of the client. *)
LEMMA ClientFrame ==
    ASSUME Inv, NEW msgs, ClientMoves(msgs), UNCHANGED << session, store >>,
           cl'.cfg = cl.cfg, Answer => Answer',
           Sent(cl) => Sent(cl)' /\ Fixed(cl)' = Fixed(cl),
           cl'.at = "app" => cl.at = "app",
           \A m \in ToSet(msgs) : OfClient(m)',
           ClientIs'
    PROVE  Inv'
<1>1. /\ Queue(c2s') /\ Queue(s2c') /\ ToSet(c2s') = ToSet(c2s) \cup ToSet(msgs)
      /\ ToSet(s2c') \subseteq ToSet(s2c) /\ DamagedOnce'
  BY ClientWires
<1>2. /\ Typed /\ Wires /\ Cached /\ up /\ Up /\ sv.at # "CH"
  BY DEF Inv, ClientMoves, Up, ServerIs
<1>3. Typed'
  BY <1>2 DEF Typed, ClientMoves
<1>4. \A m \in ToSet(c2s') : OfClient(m)'
  <2> SUFFICES ASSUME NEW m \in ToSet(c2s) PROVE OfClient(m)'
    BY <1>1
  <2>1. OfClient(m) /\ m.type # "CH"
    BY <1>2 DEF Wires, OfClient
  <2> QED BY <2>1 DEF OfClient, Keys, Fixed, Sent, ClientMoves
<1>5. \A m \in ToSet(s2c') : OfServer(m)'
  BY <1>1, <1>2 DEF Wires, OfServer, ClientMoves
<1>6. Cached'
  BY <1>2 DEF Cached, Entry, Insists, store, ClientMoves
<1>7. ServerIs'
  BY <1>2 DEF Up, ServerIs, Insists, Answering, Sent, ClientMoves
<1>8. Stored'
  BY <1>2 DEF Up, Stored, Sent, store, ClientMoves
<1>9. cl'.at = "app" \/ sv'.at \in {"app", "CH again"} => Agreed'
  BY <1>2 DEF Up, Agreed, Session, Fixed, Sent, ClientMoves
<1> QED BY <1>1, <1>2, <1>3, <1>4, <1>5, <1>6, <1>7, <1>8, <1>9
     DEF Inv, Wires, Up, ClientMoves

(* The message the client reads, and the client that has read it. *)
LEMMA ClientReads ==
    ASSUME Inv, up, s2c # << >>
    PROVE  /\ OfServer(Head(s2c)) /\ IsMessage(Head(s2c)) /\ Head(s2c) \in ToSet(s2c)
           /\ cl \in Engines(ClientConfigs) /\ sv.at # "CH"
           /\ Client \in Engines(ClientConfigs) /\ Rest(Client) = Rest(cl)
           /\ Client.at = cl.at /\ Client.in = cl.in /\ Client.out = cl.out
           /\ Client.odd = IF Head(s2c).odd THEN cl.odd \cup {Head(s2c).type} ELSE cl.odd
<1>1. Queue(s2c) /\ \A m \in ToSet(s2c) : OfServer(m)
  BY DEF Inv, Wires
<1>2. OfServer(Head(s2c)) /\ IsMessage(Head(s2c)) /\ Head(s2c) \in ToSet(s2c)
  BY <1>1, HeadTailOf DEF OfServer
<1>3. cl \in Engines(ClientConfigs) /\ sv.at # "CH"
  BY DEF Inv, Typed, Up, ServerIs
<1> QED BY <1>2, <1>3, TookIs DEF Client

LEMMA ClientFails ==
    ASSUME Inv, up, s2c # << >>, NEW err \in Errors, UNCHANGED session,
           \/ ClientGoes(Fails(cl, err), << >>)
           \/ ~Sent(cl) /\ ClientGoes(Fails(Client, err), << >>)
    PROVE  Inv'
<1>1. /\ cl \in Engines(ClientConfigs)
      /\ Client \in Engines(ClientConfigs) /\ Rest(Client) = Rest(cl)
      /\ Client.at = cl.at /\ Client.in = cl.in /\ Client.out = cl.out
      /\ cl.odd \subseteq Client.odd
  BY ClientReads
<1>2. /\ cl' \in Engines(ClientConfigs) /\ Rest(cl') = Rest(cl) /\ cl'.at = "failed"
      /\ cl'.out = cl.out /\ cl'.odd \in {cl.odd, Client.odd}
      /\ Sent(cl) => cl'.odd = cl.odd
  <2>1. Fails(cl, err) \in Engines(ClientConfigs) /\ Fails(Client, err) \in Engines(ClientConfigs)
    BY <1>1, FailsIs
  <2>2. /\ Rest(Fails(cl, err)) = Rest(cl) /\ Rest(Fails(Client, err)) = Rest(cl)
        /\ Fails(cl, err).at = "failed" /\ Fails(Client, err).at = "failed"
        /\ Fails(cl, err).out = cl.out /\ Fails(Client, err).out = cl.out
        /\ Fails(cl, err).odd = cl.odd /\ Fails(Client, err).odd = Client.odd
    BY <1>1, FailsIs
  <2> QED BY <2>1, <2>2 DEF ClientGoes
<1>3. ClientMoves(<< >>)
  BY <1>2, NoMessage DEF ClientMoves, ClientGoes
<1>4. Up
  BY DEF Inv
<1>5. ClientIs'
  BY <1>1, <1>2, <1>3, <1>4
     DEF Up, ClientIs, Sent, Answer, Answering, OfSession, Rest, Frozen, ClientMoves
<1>6. Fixed(cl)' = Fixed(cl) \/ ~Sent(cl)
  BY <1>2 DEF Fixed, Rest
<1>7. cl'.cfg = cl.cfg /\ (Answer => Answer') /\ (Sent(cl) => Sent(cl)')
  BY <1>2 DEF Rest, Sent, Answer
<1>8. UNCHANGED store
  BY DEF ClientGoes
<1> QED BY <1>2, <1>3, <1>5, <1>6, <1>7, <1>8, ClientFrame, NoMessage

LEMMA HelloErrorIs ==
    ASSUME NEW h
    PROVE  HelloError(h) \in Errors
  BY DEF HelloError, Errors

LEMMA ReadServerHelloKeeps ==
    ASSUME Inv, ReadServerHello
    PROVE  Inv'
<1> DEFINE h == Reads
<1>1. /\ up /\ s2c # << >> /\ cl.at = "SH" /\ Head(s2c).type = "SH" /\ UNCHANGED session
  BY DEF ReadServerHello, ToClient
<1>2. /\ Typed /\ Up /\ ClientIs /\ ServerIs /\ ~Answer /\ ~Sent(cl)
  BY <1>1 DEF Inv, Up, ClientIs
<1>3. /\ OfServer(Head(s2c)) /\ IsMessage(Head(s2c))
      /\ cl \in Engines(ClientConfigs) /\ sv.at # "CH"
      /\ Client \in Engines(ClientConfigs) /\ Rest(Client) = Rest(cl)
      /\ Client.at = cl.at /\ Client.in = cl.in /\ Client.out = cl.out
      /\ Client.odd = IF Head(s2c).odd THEN cl.odd \cup {"SH"} ELSE cl.odd
  BY <1>1, ClientReads
<1>4. CASE HelloError(h) # "none"
  BY <1>1, <1>2, <1>4, ClientFails, HelloErrorIs DEF ReadServerHello
<1>5. CASE HelloError(h) = "none"
  <2>1. /\ ClientGoes([Client EXCEPT
                  !.ver = h.ver, !.suite = h.suite, !.id = h.id, !.random = << @[1], h.random >>,
                  !.resumed = Resumes(h), !.at = IF Resumes(h) THEN "CCS" ELSE "Cert"],
           << >>)
    BY <1>5 DEF ReadServerHello
  <2>2. h \in Answered /\ h.random # 0 /\ Answering
    BY <1>1, <1>3 DEF OfServer, Reads, Answering
  <2> DEFINE z == Client
  <2>z. z \in Engines(ClientConfigs)
    BY <1>3
  <2> HIDE DEF z
  <2>3. /\ cl'.at = IF Resumes(h) THEN "CCS" ELSE "Cert"
        /\ cl'.ver = h.ver /\ cl'.suite = h.suite /\ cl'.id = h.id
        /\ cl'.random = << z.random[1], h.random >> /\ cl'.resumed = Resumes(h)
        /\ cl'.cfg = z.cfg /\ cl'.ms = z.ms /\ cl'.auth = z.auth
        /\ cl'.out = z.out /\ cl'.odd = z.odd
    BY <2>1, <2>z DEF ClientGoes, Engines, z
  <2>10. cl' \in Engines(ClientConfigs)
    BY <2>1, <2>2, <2>z DEF ClientGoes, Engines, z, States, Answered, Resumes, Versions0, Suites0
  <2>4. ClientMoves(<< >>) /\ UNCHANGED << session, store >>
    BY <1>1, <2>1, <2>3, <2>10, NoMessage DEF ClientMoves, ClientGoes, z
  <2>5. Resumes(h) => h.ver = cl.ver /\ h.suite = cl.suite /\ h.id = cl.id /\ h.id # None
    BY <1>5 DEF HelloError, Resumes
  <2>6. ~Head(s2c).odd => h = [ver |-> sv.ver, id |-> sv.id, suite |-> sv.suite, random |-> n]
    BY <1>1, <1>3 DEF OfServer, Reads
  <2>7. ~Head(s2c).odd => (Resumes(h) <=> sv.resumed)
    <3> SUFFICES ASSUME ~Head(s2c).odd PROVE Resumes(h) <=> sv.resumed
      OBVIOUS
    <3>1. h.id = sv.id /\ sv.id # None /\ cl.id = session.id /\ session.id < n
      BY <1>1, <1>2, <2>2, <2>6 DEF Answering, ClientIs, OfSession
    <3>2. sv.resumed => sv.id = session.id
      BY <1>2, <2>2 DEF ServerIs
    <3>3. ~sv.resumed => sv.id = n
      BY <1>2, <2>2 DEF ServerIs
    <3>4. sv.resumed \in BOOLEAN
      BY <1>2 DEF Typed, Engines
    <3> QED BY <1>2, <3>1, <3>2, <3>3, <3>4 DEF Resumes, Typed
  <2>8. Answer'
    BY <2>2, <2>3 DEF Answer
  <2>9. ClientIs'
    <3>1. Rest(z) = Rest(cl) /\ z.out = cl.out /\ z.odd = IF Head(s2c).odd THEN cl.odd \cup {"SH"} ELSE cl.odd
      BY <1>3 DEF z
    <3>2. ~Sent(cl)' /\ cl'.at \in {"CCS", "Cert"} /\ (cl'.at = "CCS" <=> cl'.resumed)
      BY <1>2, <2>3, <3>1 DEF Sent, Resumes
    <3>3. cl'.resumed => OfSession(cl)' /\ session'.id # None /\ cl'.auth = "good"
      BY <1>1, <1>2, <2>3, <2>4, <2>5, <3>1 DEF ClientIs, OfSession, Rest, Inv, Cached
    <3>4. "SH" \notin cl'.odd =>
            /\ << cl.id, cl.ver, cl.suite, cl.resumed >>' = << sv.id, sv.ver, sv.suite, sv.resumed >>'
            /\ cl'.random[2] = n'
      <4>1. sv.resumed \in BOOLEAN /\ Resumes(h) \in BOOLEAN
        BY <1>2 DEF Typed, Engines, Resumes
      <4> QED BY <2>3, <2>4, <2>6, <2>7, <3>1, <4>1 DEF ClientMoves
    <3>5. Answering' /\ cl'.ver \in Versions /\ cl'.suite \in Suites
      BY <2>2, <2>3, <2>4 DEF Answering, ClientMoves, Answered
    <3> QED BY <2>8, <3>2, <3>3, <3>4, <3>5 DEF ClientIs, Frozen
  <2> QED BY <1>2, <1>3, <2>3, <2>4, <2>8, <2>9, ClientFrame, NoMessage DEF Sent, Rest, z
<1> QED BY <1>4, <1>5

(* A step in the middle of the client's handshake, without an answer. *)
LEMMA ClientGoesOn ==
    ASSUME Inv, up, s2c # << >>, UNCHANGED session, ClientGoes(cl', << >>),
           cl' \in Engines(ClientConfigs), cl'.odd \in {cl.odd, Client.odd},
           << cl'.cfg, cl'.id, cl'.ver, cl'.suite, cl'.ms, cl'.resumed, cl'.random, cl'.out >> =
           << cl.cfg, cl.id, cl.ver, cl.suite, cl.ms, cl.resumed, cl.random, cl.out >>,
           \/ cl.at = "Cert" /\ cl'.at \in {"SKE", "CR"} /\ cl'.auth = "good"
           \/ cl.at = "SKE" /\ cl'.at = "CR" /\ cl'.auth = cl.auth
           \/ cl.at = "CR" /\ cl'.at = "SHD" /\ cl'.auth = cl.auth
           \/ /\ cl.at = "CCS" /\ cl'.at = "Fin" /\ cl'.auth = cl.auth
              /\ cl'.in = Keys(cl') /\ cl'.odd = cl.odd
    PROVE  Inv'
<1>1. Up /\ Typed
  BY DEF Inv
<1>2. ClientMoves(<< >>) /\ UNCHANGED << session, store >>
  BY NoMessage DEF ClientMoves, ClientGoes
<1>3. cl.odd \subseteq cl'.odd
  BY ClientReads
<1>4. Fixed(cl)' = Fixed(cl) \/ ~Sent(cl)
  BY <1>1 DEF Fixed, Up, ClientIs
<1>5. Answer' = Answer /\ Sent(cl)' = Sent(cl) /\ Answering' = Answering /\ cl'.at # "app"
  BY <1>2 DEF Answer, Sent, Answering, ClientMoves
<1>6. ClientIs'
  <2>1. cl'.at \in {"SKE", "CR", "SHD"} => Answer /\ ~cl.resumed /\ ~Sent(cl) /\ cl'.auth = "good"
    BY <1>1 DEF Up, ClientIs
  <2>2. cl'.at = "Fin" => Answer /\ (cl.resumed <=> ~Sent(cl)) /\ cl'.in = Keys(cl)' /\ cl'.auth = "good"
    BY <1>1 DEF Up, ClientIs
  <2>3. Answer => Answering /\ cl.ver \in Versions /\ cl.suite \in Suites
    BY <1>1 DEF Up, ClientIs
  <2>4. "SH" \notin cl'.odd /\ Answer =>
          /\ << cl.id, cl.ver, cl.suite, cl.resumed >> = << sv.id, sv.ver, sv.suite, sv.resumed >>
          /\ cl.random[2] = n
    BY <1>1, <1>3 DEF Up, ClientIs
  <2>5. cl.resumed => OfSession(cl)' /\ session'.id # None
    <3>1. cl.resumed => OfSession(cl) /\ session.id # None /\ cl.at # "Cert"
      BY <1>1 DEF Up, ClientIs
    <3> QED BY <1>2, <3>1 DEF OfSession
  <2>6. Sent(cl) => (~cl.resumed => cl.ms = n) /\ cl'.at \in Frozen
    BY <1>1 DEF Up, ClientIs, Frozen
  <2>7. cl'.at \in {"SKE", "CR", "SHD", "Fin"}
    OBVIOUS
  <2> QED BY <1>2, <1>5, <2>1, <2>2, <2>3, <2>4, <2>5, <2>6, <2>7 DEF ClientIs, ClientMoves
<1> QED BY <1>2, <1>4, <1>5, <1>6, ClientFrame, NoMessage

LEMMA ReadCertificateKeeps ==
    ASSUME Inv, ReadCertificate
    PROVE  Inv'
<1>1. /\ up /\ s2c # << >> /\ cl.at = "Cert" /\ Head(s2c).type = "Cert" /\ UNCHANGED session
  BY DEF ReadCertificate, ToClient
<1> DEFINE z == Client
<1>2. z \in Engines(ClientConfigs) /\ Rest(z) = Rest(cl) /\ z.out = cl.out
  BY <1>1, ClientReads
<1>3. CASE Reads = "good"
  <2>1. ClientGoes([z EXCEPT !.auth = Reads,
                             !.at = IF cl.suite \in Signed THEN "SKE" ELSE "CR"], << >>)
    BY <1>3 DEF ReadCertificate
  <2> HIDE DEF z
  <2>2. cl' \in Engines(ClientConfigs)
    BY <1>2, <1>3, <2>1 DEF ClientGoes, Engines, States, Auths
  <2>3. /\ cl'.at \in {"SKE", "CR"} /\ cl'.auth = "good" /\ cl'.odd = z.odd
        /\ << cl'.cfg, cl'.id, cl'.ver, cl'.suite, cl'.ms, cl'.resumed, cl'.random, cl'.out >> =
           << z.cfg, z.id, z.ver, z.suite, z.ms, z.resumed, z.random, z.out >>
    BY <1>2, <1>3, <2>1 DEF ClientGoes, Engines
  <2> QED BY <1>1, <1>2, <2>1, <2>2, <2>3, ClientGoesOn DEF Rest, z, ClientGoes
<1>4. CASE Reads # "good"
  <2>1. ClientGoes(Fails(Client, "X509"), << >>) /\ ~Sent(cl)
    BY <1>1, <1>4 DEF ReadCertificate, Inv, Up, ClientIs
  <2> QED BY <1>1, <2>1, ClientFails DEF Errors
<1> QED BY <1>3, <1>4

LEMMA ReadServerKeyExchangeKeeps ==
    ASSUME Inv, ReadServerKeyExchange
    PROVE  Inv'
<1>1. /\ up /\ s2c # << >> /\ cl.at = "SKE" /\ UNCHANGED session
  BY DEF ReadServerKeyExchange, ToClient
<1> DEFINE z == Client
<1>2. z \in Engines(ClientConfigs) /\ Rest(z) = Rest(cl) /\ z.out = cl.out
  BY <1>1, ClientReads
<1>3. CASE Reads = cl.random
  <2>1. ClientGoes([z EXCEPT !.at = "CR"], << >>)
    BY <1>3 DEF ReadServerKeyExchange
  <2> HIDE DEF z
  <2>2. cl' \in Engines(ClientConfigs) /\ cl'.at = "CR" /\ Rest(cl') = Rest(z)
        /\ cl'.odd = z.odd /\ cl'.out = z.out
    BY <1>2, <2>1 DEF ClientGoes, Engines, States, Rest
  <2> QED BY <1>1, <1>2, <2>1, <2>2, ClientGoesOn DEF Rest, z, ClientGoes
<1>4. CASE Reads # cl.random
  <2>1. ClientGoes(Fails(Client, "BAD_SIGNATURE"), << >>) /\ ~Sent(cl)
    BY <1>1, <1>4 DEF ReadServerKeyExchange, Inv, Up, ClientIs
  <2> QED BY <1>1, <2>1, ClientFails DEF Errors
<1> QED BY <1>3, <1>4

LEMMA ReadCertificateRequestKeeps ==
    ASSUME Inv, ReadCertificateRequest
    PROVE  Inv'
<1>1. /\ up /\ s2c # << >> /\ cl.at = "CR" /\ UNCHANGED session
  BY DEF ReadCertificateRequest, ToClient
<1> DEFINE z == Client
<1>2. z \in Engines(ClientConfigs) /\ Rest(z) = Rest(cl) /\ z.out = cl.out
  BY <1>1, ClientReads
<1>3. ClientGoes([z EXCEPT !.at = "SHD", !.asked = TRUE], << >>)
  BY DEF ReadCertificateRequest
<1> HIDE DEF z
<1>4. /\ cl' \in Engines(ClientConfigs) /\ cl'.at = "SHD" /\ cl'.odd = z.odd
      /\ << cl'.cfg, cl'.id, cl'.ver, cl'.suite, cl'.ms, cl'.resumed, cl'.random, cl'.out, cl'.auth >> =
         << z.cfg, z.id, z.ver, z.suite, z.ms, z.resumed, z.random, z.out, z.auth >>
  BY <1>2, <1>3 DEF ClientGoes, Engines, States
<1> QED BY <1>1, <1>2, <1>3, <1>4, ClientGoesOn DEF Rest, z, ClientGoes

LEMMA ClientReadsCCSKeeps ==
    ASSUME Inv, ClientReadsCCS
    PROVE  Inv'
<1>1. /\ up /\ s2c # << >> /\ cl.at = "CCS" /\ UNCHANGED session
      /\ ClientGoes([cl EXCEPT !.in = Keys(cl), !.at = "Fin"], << >>)
  BY DEF ClientReadsCCS, ToClient
<1>2. cl \in Engines(ClientConfigs) /\ Keys(cl) \in KeySets
  BY KeysAre DEF Inv, Typed
<1>3. cl' \in Engines(ClientConfigs)
  BY <1>1, <1>2 DEF ClientGoes, Engines, States
<1>4. /\ cl'.in = Keys(cl) /\ cl'.at = "Fin" /\ Rest(cl') = Rest(cl)
      /\ cl'.odd = cl.odd /\ cl'.out = cl.out
  BY <1>1, <1>2 DEF ClientGoes, Engines, Rest
<1>5. Keys(cl)' = Keys(cl)
  BY <1>4 DEF Keys, Rest
<1>6. ClientGoes(cl', << >>)
  BY <1>1 DEF ClientGoes
<1> QED BY <1>1, <1>3, <1>4, <1>5, <1>6, ClientGoesOn DEF Rest

LEMMA ReadServerHelloDoneKeeps ==
    ASSUME Inv, ReadServerHelloDone
    PROVE  Inv'
<1> DEFINE x == [Client EXCEPT !.ms = n, !.at = "CCS"]
           own == IF x.asked THEN << Message("Cert", Clear, x.cfg.cert) >> ELSE << >>
           proof == IF x.asked /\ x.cfg.cert # "empty" THEN << Message("CV", Clear, x.odd) >> ELSE << >>
           key == << Message("CKE", Clear, n) >>
           msgs == own \o key \o proof \o CCSFinished(x)
<1>1. /\ up /\ s2c # << >> /\ cl.at \in {"CR", "SHD"} /\ UNCHANGED session
      /\ ClientGoes([x EXCEPT !.out = Keys(x)], msgs)
  BY DEF ReadServerHelloDone, ToClient
<1>2. Typed /\ Up /\ ClientIs /\ Answer /\ ~cl.resumed /\ ~Sent(cl) /\ cl.auth = "good"
  BY <1>1 DEF Inv, Up, ClientIs
<1>3. Client \in Engines(ClientConfigs) /\ Rest(Client) = Rest(cl) /\ cl.odd \subseteq Client.odd
  BY <1>1, ClientReads
<1>4. /\ x \in Engines(ClientConfigs) /\ x.ms = n /\ x.at = "CCS" /\ x.odd = Client.odd
      /\ << x.cfg, x.id, x.ver, x.suite, x.resumed, x.random, x.auth >> =
         << cl.cfg, cl.id, cl.ver, cl.suite, cl.resumed, cl.random, cl.auth >>
  <2> DEFINE z == Client
  <2>1. z \in Engines(ClientConfigs) /\ n \in -1..MaxConns
    BY <1>2, <1>3 DEF Typed
  <2> HIDE DEF z
  <2>2. [z EXCEPT !.ms = n, !.at = "CCS"] \in Engines(ClientConfigs)
    BY <2>1 DEF Engines, States
  <2>3. /\ [z EXCEPT !.ms = n, !.at = "CCS"].ms = n /\ [z EXCEPT !.ms = n, !.at = "CCS"].at = "CCS"
        /\ [z EXCEPT !.ms = n, !.at = "CCS"].odd = z.odd
        /\ LET y == [z EXCEPT !.ms = n, !.at = "CCS"]
           IN  << y.cfg, y.id, y.ver, y.suite, y.resumed, y.random, y.auth >> =
               << z.cfg, z.id, z.ver, z.suite, z.resumed, z.random, z.auth >>
    BY <2>1 DEF Engines
  <2> QED BY <1>3, <2>2, <2>3 DEF z, Rest
<1> HIDE DEF x
<1>5. Keys(x) \in KeySets /\ Keys(x) # Clear
  BY <1>4, KeysAre
<1>6. /\ cl' \in Engines(ClientConfigs) /\ cl'.out = Keys(x)
      /\ << cl'.at, cl'.cfg, cl'.id, cl'.ver, cl'.suite, cl'.ms, cl'.resumed, cl'.random, cl'.auth, cl'.odd >> =
         << x.at, x.cfg, x.id, x.ver, x.suite, x.ms, x.resumed, x.random, x.auth, x.odd >>
  BY <1>1, <1>4, <1>5 DEF ClientGoes, Engines
<1>7. Keys(cl)' = Keys(x) /\ Sent(cl)' /\ Answer'
  BY <1>2, <1>4, <1>5, <1>6 DEF Keys, Sent, Answer
<1>8. /\ Queue(own) /\ \A m \in ToSet(own) : m = Message("Cert", Clear, x.cfg.cert)
      /\ Queue(key) /\ \A m \in ToSet(key) : m = Message("CKE", Clear, n)
      /\ Queue(proof) /\ \A m \in ToSet(proof) : m = Message("CV", Clear, x.odd)
  BY NoMessage, OneMessage
<1>9. /\ Queue(CCSFinished(x))
      /\ \A m \in ToSet(CCSFinished(x)) :
           /\ IsMessage(m) /\ ~m.odd /\ m.type \in {"CCS", "Fin"}
           /\ m.type = "Fin" => m.key = Keys(x) /\ m.v = << x.ms, x.odd >>
  BY <1>4, CCSFinishedIs
<1> HIDE DEF own, key, proof
<1>10. /\ Queue(msgs)
       /\ ToSet(msgs) = ToSet(own) \cup ToSet(key) \cup ToSet(proof) \cup ToSet(CCSFinished(x))
  BY <1>8, <1>9, Joined
<1>11. \A m \in ToSet(msgs) : OfClient(m)' /\ IsMessage(m) /\ ~m.odd
  <2>1. \A m \in ToSet(own) : OfClient(m)' /\ IsMessage(m) /\ ~m.odd
    <3>1. x.cfg.cert \in {"empty", "good", "bad"}
      BY <1>4, HandshakeAssumption DEF Engines
    <3>2. \A m \in ToSet(own) : IsMessage(m) /\ ~m.odd /\ m.type = "Cert" /\ m.v = x.cfg.cert
      BY <1>8, MessageIs DEF Types
    <3> QED BY <3>1, <3>2 DEF OfClient
  <2>2. \A m \in ToSet(key) : OfClient(m)' /\ IsMessage(m) /\ ~m.odd
    <3>1. \A m \in ToSet(key) : IsMessage(m) /\ ~m.odd /\ m.type = "CKE" /\ m.v = n
      BY <1>8, MessageIs DEF Types
    <3> QED BY <1>2, <3>1 DEF OfClient, Typed
  <2>3. \A m \in ToSet(proof) : OfClient(m)' /\ IsMessage(m) /\ ~m.odd
    <3>1. \A m \in ToSet(proof) : IsMessage(m) /\ ~m.odd /\ m.type = "CV"
      BY <1>8, MessageIs DEF Types
    <3> QED BY <3>1 DEF OfClient
  <2>4. \A m \in ToSet(CCSFinished(x)) : OfClient(m)' /\ IsMessage(m) /\ ~m.odd
    BY <1>6, <1>7, <1>9 DEF OfClient, Sent
  <2> QED BY <1>10, <2>1, <2>2, <2>3, <2>4
<1> HIDE DEF msgs
<1>12. ClientMoves(msgs) /\ UNCHANGED << session, store >>
  BY <1>1, <1>4, <1>6, <1>10, <1>11 DEF ClientMoves, ClientGoes
<1>13. ClientIs'
  <2>1. Answer => Answering /\ cl.ver \in Versions /\ cl.suite \in Suites
    BY <1>2 DEF ClientIs
  <2>2. "SH" \notin cl'.odd =>
          /\ << cl.id, cl.ver, cl.suite, cl.resumed >> = << sv.id, sv.ver, sv.suite, sv.resumed >>
          /\ cl.random[2] = n
    BY <1>2, <1>3, <1>4, <1>6 DEF ClientIs
  <2>3. cl'.at = "CCS" /\ cl'.auth = "good" /\ ~cl'.resumed /\ cl'.ms = n /\ Answering'
    BY <1>2, <1>4, <1>6, <1>12, <2>1 DEF ClientMoves, Answering
  <2> QED BY <1>2, <1>4, <1>6, <1>7, <1>12, <2>1, <2>2, <2>3 DEF ClientIs, ClientMoves, Frozen
<1> QED BY <1>2, <1>4, <1>6, <1>7, <1>11, <1>12, <1>13, ClientFrame

(* Two Finished that match: the same keys, nothing damaged, the same       *)
(* session.                                                                *)
LEMMA FinishedAgrees ==
    ASSUME Typed, DamagedOnce, ClientIs, Answer, Keys(cl) = Keys(sv), cl.odd = sv.odd
    PROVE  /\ << Session(cl), cl.random, cl.odd >> = << Session(sv), sv.random, sv.odd >>
           /\ cl.odd = {} /\ Answering
<1>1. cl.odd = {}
  BY DEF DamagedOnce
<1>2. cl.ms = sv.ms /\ cl.random = sv.random /\ cl.ver = sv.ver /\ cl.suite = sv.suite
  BY SameKeys
<1>3. cl.id = sv.id /\ cl.resumed = sv.resumed /\ Answering
  BY <1>1 DEF ClientIs
<1> QED BY <1>1, <1>2, <1>3 DEF Session

LEMMA ClientReadsFinishedKeeps ==
    ASSUME Inv, ClientReadsFinished
    PROVE  Inv'
<1>1. up /\ s2c # << >> /\ cl.at = "Fin" /\ Head(s2c).type = "Fin" /\ Head(s2c).key = cl.in
  BY DEF ClientReadsFinished, ToClient
<1>2. Typed /\ Up /\ ClientIs /\ ServerIs /\ Stored /\ Cached /\ Wires /\ DamagedOnce
  BY <1>1 DEF Inv, Up
<1>3. cl \in Engines(ClientConfigs) /\ OfServer(Head(s2c))
  BY <1>1, ClientReads
<1>4. CASE ~Verified(cl, Reads)
  BY <1>1, <1>4, ClientFails DEF ClientReadsFinished, Errors
<1>5. CASE Verified(cl, Reads)
  <2>1. /\ session' = [id |-> cl.id, ver |-> cl.ver, suite |-> cl.suite, ms |-> cl.ms,
                       auth |-> cl.auth]
        /\ ClientGoes([cl EXCEPT !.at = "app", !.out = Keys(cl)], Answers(cl))
    BY <1>5 DEF ClientReadsFinished
  <2>2. Keys(cl) \in KeySets /\ Keys(cl) # Clear
    BY <1>3, KeysAre
  <2>3. /\ cl' \in Engines(ClientConfigs) /\ cl'.at = "app" /\ cl'.out = Keys(cl)
        /\ << cl'.cfg, cl'.id, cl'.ver, cl'.suite, cl'.ms, cl'.resumed, cl'.random, cl'.auth, cl'.odd >> =
           << cl.cfg, cl.id, cl.ver, cl.suite, cl.ms, cl.resumed, cl.random, cl.auth, cl.odd >>
    BY <1>3, <2>1, <2>2 DEF ClientGoes, Engines, States
  <2>4. /\ Answer /\ (cl.resumed <=> ~Sent(cl)) /\ cl.in = Keys(cl) /\ cl.auth = "good"
        /\ cl.resumed => OfSession(cl) /\ session.id # None
        /\ Sent(cl) => (~cl.resumed => cl.ms = n)
    BY <1>1, <1>2 DEF ClientIs
  <2>5. Sent(sv) /\ Keys(sv) = Keys(cl) /\ sv.odd = cl.odd
    <3>1. Reads = << cl.ms, cl.odd >>
      BY <1>5 DEF Verified
    <3>2. Sent(sv) /\ Head(s2c).key = Keys(sv) /\ Reads = << sv.ms, sv.odd >>
      BY <1>1, <1>3 DEF OfServer, Sent, Reads
    <3> QED BY <1>1, <2>4, <3>1, <3>2
  <2>6. /\ << Session(cl), cl.random, cl.odd >> = << Session(sv), sv.random, sv.odd >>
        /\ cl.odd = {} /\ Answering
    BY <1>2, <2>4, <2>5, FinishedAgrees
  <2>7. ~cl.resumed => sv.id = n /\ cl.id = n /\ cl.ms = n
    BY <1>2, <2>4, <2>6 DEF ServerIs, Session
  <2>8. /\ Queue(Answers(cl))
        /\ \A m \in ToSet(Answers(cl)) :
             /\ IsMessage(m) /\ ~m.odd /\ m.type \in {"CCS", "Fin"}
             /\ m.type = "Fin" => m.key = Keys(cl) /\ m.v = << cl.ms, cl.odd >>
    BY <1>3, CCSFinishedIs, NoMessage DEF Answers
  <2>9. ClientMoves(Answers(cl)) /\ UNCHANGED store
    BY <1>1, <2>1, <2>3, <2>8 DEF ClientMoves, ClientGoes
  <2>10. /\ Queue(c2s') /\ Queue(s2c') /\ ToSet(c2s') = ToSet(c2s) \cup ToSet(Answers(cl))
         /\ ToSet(s2c') \subseteq ToSet(s2c) /\ DamagedOnce'
    BY <2>9, ClientWires
  <2>11. Keys(cl)' = Keys(cl) /\ Sent(cl)' /\ Answer' /\ Fixed(cl)' = Fixed(cl)
    BY <2>2, <2>3, <2>4 DEF Keys, Sent, Answer, Fixed
  <2>12. sv.at # "CH" /\ sv' = sv /\ n' = n
    BY <1>2, <2>5, <2>9 DEF ServerIs, ClientMoves
  <2>13. Typed'
    <3>1. session'.id \in 0..n
      <4>1. cl.resumed => cl.id = session.id
        BY <2>4 DEF OfSession
      <4> QED BY <1>2, <2>1, <2>7, <4>1 DEF Typed
    <3>2. session' \in [id : 0..n, ver : Versions0, suite : Suites0, ms : -1..MaxConns, auth : Auths]
      BY <1>3, <2>1, <3>1 DEF Engines
    <3> QED BY <1>2, <2>3, <2>9, <3>2 DEF Typed, ClientMoves
  <2>14. Wires'
    <3>1. \A m \in ToSet(c2s) : OfClient(m)'
      <4> SUFFICES ASSUME NEW m \in ToSet(c2s) PROVE OfClient(m)'
        OBVIOUS
      <4>1. OfClient(m) /\ m.type # "CH"
        BY <1>2, <2>12 DEF Wires, OfClient
      <4> QED BY <2>3, <2>11, <4>1 DEF OfClient, Sent
    <3>2. \A m \in ToSet(Answers(cl)) : OfClient(m)'
      BY <2>3, <2>8, <2>11 DEF OfClient, Sent
    <3>3. \A m \in ToSet(s2c') : OfServer(m)'
      BY <1>2, <2>10, <2>12 DEF Wires, OfServer
    <3> QED BY <2>10, <3>1, <3>2, <3>3 DEF Wires
  <2>15. ClientIs'
    <3>1. OfSession(cl)'
      BY <2>1, <2>3 DEF OfSession
    <3>2. Answering' /\ cl.ver \in Versions /\ cl.suite \in Suites
      BY <1>2, <2>4, <2>6, <2>12 DEF ClientIs, Answering
    <3>3. << cl.id, cl.ver, cl.suite, cl.resumed >>' = << sv.id, sv.ver, sv.suite, sv.resumed >>'
          /\ cl'.random[2] = n'
      BY <1>2, <2>3, <2>4, <2>6, <2>12 DEF Session, ClientIs
    <3>4. cl'.resumed => session'.id # None
      BY <2>1, <2>3, <2>4 DEF OfSession
    <3> QED BY <2>3, <2>4, <2>7, <2>11, <2>12, <3>1, <3>2, <3>3, <3>4 DEF ClientIs, Frozen
  <2>16. ServerIs'
    BY <1>2, <2>3, <2>6, <2>11, <2>12 DEF ServerIs, Insists, Answering, Sent
  <2>17. Stored'
    BY <1>2, <2>5, <2>9, <2>11, <2>12 DEF Stored, Sent, store
  <2>18. Agreed'
    BY <2>3, <2>5, <2>6, <2>11, <2>12 DEF Agreed, Session, Sent
  <2>19. Cached'
    <3>1. \A m \in ToSet(cache) : m.id = session'.id =>
            << m.par.ver, m.par.suite, m.par.ms >> = << session'.ver, session'.suite, session'.ms >>
      <4>1. CASE cl.resumed
        BY <1>2, <2>1, <2>4, <4>1 DEF OfSession, Cached, Entry
      <4>2. CASE ~cl.resumed
        BY <1>2, <2>1, <2>6, <2>7, <4>2 DEF Stored, Session
      <4> QED BY <4>1, <4>2
    <3>2. session'.auth = "good"
      BY <2>1, <2>4
    <3> QED BY <1>2, <2>9, <2>12, <3>1, <3>2 DEF Cached, Entry, Insists, store
  <2> QED BY <1>1, <1>2, <2>9, <2>10, <2>12, <2>13, <2>14, <2>15, <2>16, <2>17, <2>18, <2>19
       DEF Inv, Up, ClientMoves
<1> QED BY <1>4, <1>5

(* A message read in application data, answered at most by an alert. *)
LEMMA ClientKeepsOn ==
    ASSUME Inv, up, s2c # << >>, UNCHANGED session, NEW msgs, ClientGoes(cl, msgs),
           Queue(msgs), \A m \in ToSet(msgs) : OfClient(m) /\ ~m.odd
    PROVE  Inv'
<1>1. Typed /\ Up /\ ClientIs
  BY DEF Inv, Up
<1>2. ClientMoves(msgs) /\ UNCHANGED << session, store >> /\ cl' = cl
  BY <1>1 DEF ClientMoves, ClientGoes, Typed, OfClient
<1>3. Fixed(cl)' = Fixed(cl) /\ Sent(cl)' = Sent(cl) /\ Answer' = Answer
  BY <1>2 DEF Fixed, Sent, Answer
<1>4. ClientIs'
  BY <1>1, <1>2, <1>3 DEF ClientIs, ClientMoves, Sent, OfSession, Answering, Keys
<1>5. \A m \in ToSet(msgs) : OfClient(m)'
  BY <1>2 DEF OfClient, ClientMoves, Keys
<1> QED BY <1>2, <1>3, <1>4, <1>5, ClientFrame

LEMMA ClientReadsDataKeeps ==
    ASSUME Inv, ClientReadsData
    PROVE  Inv'
  BY ClientKeepsOn, NoMessage DEF ClientReadsData, ToClient

LEMMA RefuseRenegotiationKeeps ==
    ASSUME Inv, RefuseRenegotiation
    PROVE  Inv'
<1> DEFINE m == Message("no_renegotiation", cl.out, 0)
<1>1. OfClient(m) /\ ~m.odd
  BY MessageIs DEF OfClient, Types
<1> HIDE DEF m
<1>2. Queue(<< m >>) /\ \A k \in ToSet(<< m >>) : OfClient(k) /\ ~k.odd
  BY <1>1, OneMessage
<1>3. up /\ s2c # << >> /\ UNCHANGED session /\ ClientGoes(cl, << m >>)
  BY DEF RefuseRenegotiation, ToClient, m
<1> QED BY <1>2, <1>3, ClientKeepsOn

LEMMA ClientRefusesKeeps ==
    ASSUME Inv, ClientRefuses
    PROVE  Inv'
<1>1. PICK err \in Errors : ClientGoes(Fails(cl, err), << >>)
  BY DEF ClientRefuses, Errors
<1>2. up /\ s2c # << >> /\ UNCHANGED session
  BY DEF ClientRefuses
<1> QED BY <1>1, <1>2, ClientFails

LEMMA ClientStepKeeps ==
    ASSUME Inv, ClientStep
    PROVE  Inv'
  BY ReadServerHelloKeeps, ReadCertificateKeeps, ReadServerKeyExchangeKeeps,
     ReadCertificateRequestKeeps, ReadServerHelloDoneKeeps, ClientReadsCCSKeeps,
     ClientReadsFinishedKeeps, ClientReadsDataKeeps, RefuseRenegotiationKeeps,
     ClientRefusesKeeps
     DEF ClientStep

---------------------------------------------------------------------------
(* A step of the server. *)

ServerMoves(msgs) ==
  /\ up /\ c2s # << >> /\ up' = up /\ n' = n /\ damaged' = damaged /\ cl' = cl /\ session' = session
  /\ c2s' = Tail(c2s) /\ s2c' = s2c \o msgs
  /\ Queue(msgs) /\ \A m \in ToSet(msgs) : IsMessage(m) /\ ~m.odd
  /\ sv' \in Engines(ServerConfigs) /\ sv'.odd \in {sv.odd, Server.odd}

(* The message the server reads, and the server that has read it. *)
LEMMA ServerReads ==
    ASSUME Inv, up, c2s # << >>
    PROVE  /\ OfClient(Head(c2s)) /\ IsMessage(Head(c2s)) /\ Head(c2s) \in ToSet(c2s)
           /\ sv \in Engines(ServerConfigs)
           /\ Server \in Engines(ServerConfigs) /\ Rest(Server) = Rest(sv)
           /\ Server.at = sv.at /\ Server.in = sv.in /\ Server.out = sv.out
           /\ Server.odd = IF Head(c2s).odd THEN sv.odd \cup {Head(c2s).type} ELSE sv.odd
<1>1. Queue(c2s) /\ \A m \in ToSet(c2s) : OfClient(m)
  BY DEF Inv, Wires
<1>2. OfClient(Head(c2s)) /\ IsMessage(Head(c2s)) /\ Head(c2s) \in ToSet(c2s)
  BY <1>1, HeadTailOf DEF OfClient
<1>3. sv \in Engines(ServerConfigs)
  BY DEF Inv, Typed
<1> QED BY <1>2, <1>3, TookIs DEF Server

LEMMA ServerWires ==
    ASSUME Inv, NEW msgs, ServerMoves(msgs)
    PROVE  /\ Queue(c2s') /\ Queue(s2c') /\ ToSet(s2c') = ToSet(s2c) \cup ToSet(msgs)
           /\ ToSet(c2s') \subseteq ToSet(c2s) /\ Head(c2s) \in ToSet(c2s)
           /\ DamagedOnce'
<1>1. /\ Queue(c2s) /\ Queue(s2c) /\ DamagedOnce
      /\ \A m \in ToSet(c2s) \cup ToSet(s2c) : IsMessage(m)
      /\ c2s # << >> /\ c2s' = Tail(c2s) /\ s2c' = s2c \o msgs
  BY DEF Inv, Wires, OfClient, OfServer, ServerMoves
<1>2. /\ Head(c2s) \in ToSet(c2s) /\ Queue(c2s') /\ ToSet(c2s') \subseteq ToSet(c2s)
  BY <1>1, HeadTailOf
<1>3. /\ Queue(msgs) /\ \A m \in ToSet(msgs) : ~m.odd
  BY DEF ServerMoves
<1>4. /\ Queue(s2c') /\ ToSet(s2c') = ToSet(s2c) \cup ToSet(msgs)
  BY <1>1, <1>3, Joined
<1>5. ~Odd(c2s)' /\ CleanTail(c2s)'
  <2>1. \A m \in ToSet(c2s') : ~m.odd
    BY <1>1 DEF DamagedOnce, CleanTail
  <2> QED BY <1>2, <2>1, HeadTailOf DEF Odd, CleanTail
<1>6. Odd(s2c)' = Odd(s2c) /\ CleanTail(s2c)'
  <2>1. CASE s2c = << >>
    <3>1. \A m \in ToSet(s2c') : ~m.odd
      BY <1>1, <1>3, <2>1, Joined
    <3> QED BY <1>4, <2>1, <3>1, HeadTailOf DEF Odd, CleanTail
  <2>2. CASE s2c # << >>
    <3>1. /\ s2c' # << >> /\ Head(s2c') = Head(s2c) /\ Tail(s2c') = Tail(s2c) \o msgs
      BY <1>1, <1>3, <2>2, Joined
    <3>2. Queue(Tail(s2c)) /\ ToSet(Tail(s2c)) \subseteq ToSet(s2c)
      BY <1>1, <2>2, HeadTailOf
    <3>3. ToSet(Tail(s2c) \o msgs) = ToSet(Tail(s2c)) \cup ToSet(msgs)
      BY <1>3, <3>2, Joined
    <3> QED BY <1>1, <1>3, <2>2, <3>1, <3>3 DEF Odd, CleanTail, DamagedOnce
  <2> QED BY <2>1, <2>2
<1>7. sv'.odd = sv.odd \/ Odd(c2s)
  <2>1. Server.odd = IF Head(c2s).odd THEN sv.odd \cup {Head(c2s).type} ELSE sv.odd
    BY <1>1, ServerReads DEF ServerMoves
  <2> QED BY <1>1, <1>2, <2>1 DEF ServerMoves, Odd, IsMessage
<1> QED BY <1>1, <1>2, <1>4, <1>5, <1>6, <1>7 DEF DamagedOnce, ServerMoves

(* What is left to show of a step of the server, after the ClientHello. *)
LEMMA ServerFrame ==
    ASSUME Inv, NEW msgs, ServerMoves(msgs), UNCHANGED store, sv.at # "CH", sv'.at # "CH",
           << sv'.cfg, sv'.id, sv'.ver, sv'.suite, sv'.resumed, sv'.random >> =
           << sv.cfg, sv.id, sv.ver, sv.suite, sv.resumed, sv.random >>,
           Sent(sv) => Sent(sv)' /\ sv'.ms = sv.ms /\ sv'.odd = sv.odd,
           sv'.at \in {"app", "CH again"} => sv.at \in {"app", "CH again"},
           \A m \in ToSet(msgs) : OfServer(m)',
           ServerIs'
    PROVE  Inv'
<1>1. /\ Queue(c2s') /\ Queue(s2c') /\ ToSet(s2c') = ToSet(s2c) \cup ToSet(msgs)
      /\ ToSet(c2s') \subseteq ToSet(c2s) /\ DamagedOnce'
  BY ServerWires
<1>2. /\ Typed /\ Wires /\ Cached /\ up /\ Up
  BY DEF Inv, ServerMoves
<1>3. Typed'
  BY <1>2 DEF Typed, ServerMoves
<1>4. \A m \in ToSet(c2s') : OfClient(m)'
  BY <1>1, <1>2 DEF Wires, OfClient, ServerMoves
<1>5. \A m \in ToSet(s2c') : OfServer(m)'
  <2> SUFFICES ASSUME NEW m \in ToSet(s2c) PROVE OfServer(m)'
    BY <1>1
  <2>1. OfServer(m)
    BY <1>2 DEF Wires
  <2> QED BY <2>1 DEF OfServer, Keys, Sent, ServerMoves
<1>6. Cached'
  BY <1>2 DEF Cached, Entry, Insists, store, ServerMoves
<1>7. ClientIs'
  BY <1>2 DEF Up, ClientIs, Answer, Answering, Sent, OfSession, Keys, ServerMoves
<1>8. Stored'
  BY <1>2 DEF Up, Stored, Answer, Sent, store, ServerMoves
<1>9. cl'.at = "app" \/ sv'.at \in {"app", "CH again"} => Agreed'
  BY <1>2 DEF Up, Agreed, Session, Sent, ServerMoves
<1> QED BY <1>1, <1>2, <1>3, <1>4, <1>5, <1>6, <1>7, <1>8, <1>9
     DEF Inv, Wires, Up, ServerMoves

(* What is left to show of the step that reads the ClientHello: of the     *)
(* cache, it only moved sessions.                                          *)
LEMMA HelloFrame ==
    ASSUME Inv, NEW msgs, ServerMoves(msgs), Cached', sv.at = "CH", sv'.cfg = sv.cfg,
           \A m \in ToSet(cache') : \E k \in ToSet(cache) : k.id = m.id,
           sv'.at \notin {"CH", "app", "CH again"},
           \A m \in ToSet(msgs) : OfServer(m)',
           ServerIs'
    PROVE  Inv'
<1>1. /\ Queue(c2s') /\ Queue(s2c') /\ ToSet(s2c') = ToSet(s2c) \cup ToSet(msgs)
      /\ DamagedOnce'
  BY ServerWires
<1>2. /\ Typed /\ Wires /\ up /\ Up /\ cl.at = "SH" /\ ~Answer /\ ~Sent(sv)
      /\ s2c = << >> /\ Len(c2s) = 1
  BY DEF Inv, ServerMoves, Up, ServerIs, ClientIs
<1>3. ToSet(c2s') = {} /\ ToSet(s2c) = {}
  BY <1>2, HeadTailOf, NoMessage DEF ServerMoves, Wires
<1>4. Typed'
  BY <1>2 DEF Typed, ServerMoves
<1>5. ClientIs'
  BY <1>2 DEF Up, ClientIs, Answer, Sent, OfSession, ServerMoves
<1>6. Stored'
  BY <1>2 DEF Up, Stored, ClientIs, ServerMoves, Typed
<1> QED BY <1>1, <1>2, <1>3, <1>4, <1>5, <1>6 DEF Inv, Wires, Up, ServerMoves

LEMMA ServerFails ==
    ASSUME Inv, up, c2s # << >>, NEW err \in Errors, UNCHANGED store, sv.at # "failed",
           \/ ServerGoes(Fails(sv, err), << >>)
           \/ ~Sent(sv) /\ ServerGoes(Fails(Server, err), << >>)
    PROVE  Inv'
<1>1. /\ sv \in Engines(ServerConfigs)
      /\ Server \in Engines(ServerConfigs) /\ Rest(Server) = Rest(sv)
      /\ Server.at = sv.at /\ Server.in = sv.in /\ Server.out = sv.out
      /\ sv.odd \subseteq Server.odd
  BY ServerReads
<1>2. /\ sv' \in Engines(ServerConfigs) /\ Rest(sv') = Rest(sv) /\ sv'.at = "failed"
      /\ sv'.out = sv.out /\ sv'.odd \in {sv.odd, Server.odd}
      /\ Sent(sv) => sv'.odd = sv.odd
  <2>1. Fails(sv, err) \in Engines(ServerConfigs) /\ Fails(Server, err) \in Engines(ServerConfigs)
    BY <1>1, FailsIs
  <2>2. /\ Rest(Fails(sv, err)) = Rest(sv) /\ Rest(Fails(Server, err)) = Rest(sv)
        /\ Fails(sv, err).at = "failed" /\ Fails(Server, err).at = "failed"
        /\ Fails(sv, err).out = sv.out /\ Fails(Server, err).out = sv.out
        /\ Fails(sv, err).odd = sv.odd /\ Fails(Server, err).odd = Server.odd
    BY <1>1, FailsIs
  <2> QED BY <2>1, <2>2 DEF ServerGoes
<1>3. ServerMoves(<< >>)
  BY <1>2, NoMessage DEF ServerMoves, ServerGoes
<1>4. Up
  BY DEF Inv
<1>5. ServerIs'
  BY <1>1, <1>2, <1>3, <1>4
     DEF Up, ServerIs, Sent, Answer, Answering, Rest, Frozen, ServerMoves, Insists
<1>6. CASE sv.at = "CH"
  <2>1. Cached'
    BY <1>2, <1>3 DEF Inv, Cached, Entry, Insists, Rest, ServerMoves, store
  <2> QED BY <1>2, <1>3, <1>5, <1>6, <2>1, HelloFrame, NoMessage DEF Rest, store
<1>7. CASE sv.at # "CH"
  BY <1>2, <1>3, <1>5, <1>7, ServerFrame, NoMessage DEF Rest, Sent
<1> QED BY <1>6, <1>7

---------------------------------------------------------------------------
(* The server's cache. *)

LEMMA OfSet ==
    ASSUME NEW S, NEW q \in Seq(S)
    PROVE  ToSet(q) \subseteq S
  BY DEF ToSet

LEMMA CacheLoads ==
    ASSUME Cached, NEW id, Cache!Load(id)
    PROVE  /\ Queue(cache') /\ Len(cache') <= room' /\ room' = room
           /\ ToSet(cache') \subseteq ToSet(cache)
           /\ loaded' = NotFound \/ \E m \in ToSet(cache) : m.id = id /\ loaded' = m.par
<1>1. cache \in Seq(ToSet(cache)) /\ Len(cache) \in Nat /\ DOMAIN cache = 1..Len(cache)
      /\ room \in Nat /\ Len(cache) <= room
  BY DEF Cached, Queue
<1>2. CASE Cache!Has(id) /\ cache[Cache!Place(id)].on
  <2> DEFINE p == Cache!Place(id)
  <2>1. p \in 1..Len(cache) /\ cache[p].id = id
    BY <1>1, <1>2 DEF Cache!Has, Cache!Place
  <2>2. loaded' = cache[p].par /\ cache' = << cache[p] >> \o Cache!Without(p) /\ room' = room
    BY <1>2 DEF Cache!Load
  <2> HIDE DEF p
  <2>3. cache[p] \in ToSet(cache)
    BY <1>1, <2>1 DEF ToSet
  <2>4. /\ SubSeq(cache, 1, p - 1) \in Seq(ToSet(cache)) /\ Len(SubSeq(cache, 1, p - 1)) = p - 1
        /\ SubSeq(cache, p + 1, Len(cache)) \in Seq(ToSet(cache))
        /\ Len(SubSeq(cache, p + 1, Len(cache))) = Len(cache) - p
    BY <1>1, <2>1, SubSeqProperties
  <2>5. Cache!Without(p) \in Seq(ToSet(cache)) /\ Len(Cache!Without(p)) = Len(cache) - 1
    <3> DEFINE a == SubSeq(cache, 1, p - 1)
               b == SubSeq(cache, p + 1, Len(cache))
    <3>1. a \o b = Cache!Without(p)
      BY DEF Cache!Without
    <3> HIDE DEF a, b
    <3>2. a \o b \in Seq(ToSet(cache)) /\ Len(a \o b) = Len(a) + Len(b)
      BY <2>4, ConcatProperties DEF a, b
    <3>3. Len(a) = p - 1 /\ Len(b) = Len(cache) - p
      BY <2>4 DEF a, b
    <3>4. Len(a) + Len(b) = Len(cache) - 1
      BY <1>1, <2>1, <3>3
    <3> QED BY <3>1, <3>2, <3>4
  <2>6. cache' \in Seq(ToSet(cache)) /\ Len(cache') = Len(cache)
    <3>1. << cache[p] >> \in Seq(ToSet(cache)) /\ Len(<< cache[p] >>) = 1
      BY <2>3
    <3>2. /\ << cache[p] >> \o Cache!Without(p) \in Seq(ToSet(cache))
          /\ Len(<< cache[p] >> \o Cache!Without(p)) = 1 + Len(Cache!Without(p))
      BY <2>5, <3>1, ConcatProperties
    <3>3. Len(<< cache[p] >> \o Cache!Without(p)) = Len(cache)
      <4>1. Len(cache) \in Nat /\ Len(Cache!Without(p)) = Len(cache) - 1
        BY <1>1, <2>5
      <4>2. 1 + Len(Cache!Without(p)) = Len(cache)
        BY <4>1
      <4> QED BY <3>2, <4>2
    <3> QED BY <2>2, <3>2, <3>3
  <2> QED BY <1>1, <2>1, <2>2, <2>3, <2>6, OfSet, SequenceIsQueue
<1>3. CASE ~(Cache!Has(id) /\ cache[Cache!Place(id)].on)
  BY <1>1, <1>3 DEF Cache!Load, Queue
<1> QED BY <1>2, <1>3

LEMMA CacheForgets ==
    ASSUME Cached, NEW id, Cache!Forget(id)
    PROVE  /\ Queue(cache') /\ Len(cache') <= room' /\ room' = room /\ loaded' = NotFound
           /\ \A m \in ToSet(cache') : m \in ToSet(cache) \/ \E k \in ToSet(cache) :
                m = [k EXCEPT !.on = FALSE]
<1>1. cache \in Seq(ToSet(cache)) /\ Len(cache) \in Nat /\ DOMAIN cache = 1..Len(cache)
      /\ room \in Nat /\ Len(cache) <= room
  BY DEF Cached, Queue
<1>2. CASE Cache!Has(id)
  <2> DEFINE p == Cache!Place(id)
             S == ToSet(cache) \cup {[k EXCEPT !.on = FALSE] : k \in ToSet(cache)}
  <2>1. p \in 1..Len(cache)
    BY <1>1, <1>2 DEF Cache!Has, Cache!Place
  <2>2. loaded' = NotFound /\ cache' = [cache EXCEPT ![p].on = FALSE] /\ room' = room
    BY <1>2 DEF Cache!Forget
  <2> HIDE DEF p
  <2>3. cache[p] \in ToSet(cache)
    BY <1>1, <2>1 DEF ToSet
  <2>4. cache \in Seq(S) /\ [cache[p] EXCEPT !.on = FALSE] \in S
    BY <1>1, <2>3, SeqMonotonic
  <2> HIDE DEF S
  <2>5. cache' \in Seq(S) /\ Len(cache') = Len(cache)
    BY <1>1, <2>1, <2>2, <2>4
  <2>6. ToSet(cache') \subseteq S /\ Queue(cache')
    BY <2>5, OfSet, SequenceIsQueue
  <2> QED BY <1>1, <2>2, <2>5, <2>6 DEF S
<1>3. CASE ~Cache!Has(id)
  BY <1>1, <1>3 DEF Cache!Forget, Queue
<1> QED BY <1>2, <1>3

LEMMA CacheSaves ==
    ASSUME Cached, NEW id, NEW p, Cache!Save(id, p)
    PROVE  /\ Queue(cache') /\ Len(cache') <= room' /\ room' = room /\ loaded' = NotFound
           /\ \A m \in ToSet(cache') : m \in ToSet(cache) \/ m = [id |-> id, par |-> p, on |-> TRUE]
<1> DEFINE m == [id |-> id, par |-> p, on |-> TRUE]
           S == ToSet(cache) \cup {m}
<1> HIDE DEF m
<1>1. cache \in Seq(S) /\ m \in S /\ Len(cache) \in Nat /\ room \in Nat /\ Len(cache) <= room
      /\ Queue(cache)
  BY SeqMonotonic DEF Cached, Queue
<1> HIDE DEF S
<1>2. loaded' = NotFound /\ room' = room
  BY DEF Cache!Save
<1>3. CASE room = 0 \/ Cache!Has(id)
  BY <1>1, <1>2, <1>3 DEF Cache!Save
<1>4. CASE ~(room = 0 \/ Cache!Has(id))
  <2>1. cache' = << m >> \o Cache!Kept
    BY <1>4 DEF Cache!Save, m
  <2>2. Cache!Kept \in Seq(S) /\ Len(Cache!Kept) <= room - 1 /\ Len(Cache!Kept) \in Nat
    <3>1. CASE Len(cache) = room
      <4>1. SubSeq(cache, 1, room - 1) \in Seq(S) /\ Len(SubSeq(cache, 1, room - 1)) = room - 1
        BY <1>1, <1>4, <3>1, SubSeqProperties
      <4> QED BY <1>1, <1>4, <3>1, <4>1 DEF Cache!Kept
    <3>2. CASE Len(cache) # room
      BY <1>1, <3>2 DEF Cache!Kept
    <3> QED BY <3>1, <3>2
  <2>3. cache' \in Seq(S) /\ Len(cache') <= room
    BY <1>1, <2>1, <2>2
  <2> QED BY <1>2, <2>3, OfSet, SequenceIsQueue DEF S, m
<1> QED BY <1>3, <1>4

---------------------------------------------------------------------------
(* The server reads the ClientHello. *)

LEMMA LeastOfSet ==
    ASSUME NEW S, S \subseteq Nat, S # {}
    PROVE  Min(S) \in S
<1> DEFINE R == {ss \in Nat \X Nat : ss[1] < ss[2]}
<1>1. IsWellFoundedOn(R, Nat)
  BY NatLessThanWellFounded DEF OpToRel
<1> HIDE DEF R
<1>2. PICK x \in S : \A y \in S : << y, x >> \notin R
  BY <1>1, WFMin
<1>3. \A y \in S : x <= y
  <2> SUFFICES ASSUME NEW y \in S PROVE x <= y
    OBVIOUS
  <2>1. x \in Nat /\ y \in Nat /\ << y, x >> \notin R
    BY <1>2
  <2>2. ~(y < x)
    BY <2>1 DEF R
  <2> QED BY <2>1, <2>2
<1> QED BY <1>2, <1>3 DEF Min

(* Two numbers, in either order. *)
LEMMA LeastEitherWay ==
    ASSUME NEW x \in Versions, NEW y \in Versions
    PROVE  Least(x, y) = Least(y, x) /\ Least(x, y) \in Versions
  BY DEF Least, Versions

LEMMA ServerAlerts ==
    ASSUME Inv, up, c2s # << >>, sv.at = "CH", Cached',
           \A m \in ToSet(cache') : \E k \in ToSet(cache) : k.id = m.id,
           NEW x \in Engines(ServerConfigs), NEW err \in Errors, Alerts(x, err),
           x.cfg = sv.cfg, x.id = sv.id, x.out = sv.out, x.resumed = sv.resumed,
           x.odd = Server.odd
    PROVE  Inv'
<1> DEFINE m == Message("alert", x.out, err)
<1>1. ServerGoes(Fails(x, err), << m >>)
  BY DEF Alerts
<1>2. IsMessage(m) /\ ~m.odd /\ m.type = "alert"
  BY MessageIs DEF Types
<1> HIDE DEF m
<1>3. Queue(<< m >>) /\ ToSet(<< m >>) = {m}
  BY OneMessage
<1>4. /\ sv' \in Engines(ServerConfigs) /\ sv'.at = "failed" /\ sv'.odd = x.odd
      /\ sv'.out = x.out /\ Rest(sv') = Rest(x)
  BY <1>1, FailsIs DEF ServerGoes
<1>5. ServerMoves(<< m >>)
  BY <1>1, <1>2, <1>3, <1>4 DEF ServerGoes, ServerMoves
<1>6. \A k \in ToSet(<< m >>) : OfServer(k)'
  BY <1>2, <1>3 DEF OfServer
<1>7. ServerIs'
  <2>1. Up
    BY DEF Inv
  <2> QED BY <1>4, <1>5, <2>1
        DEF Up, ServerIs, Sent, Answer, Answering, Rest, ServerMoves, Insists
<1> QED BY <1>3, <1>4, <1>5, <1>6, <1>7, HelloFrame DEF Rest

(* What the hello message of the server says. *)
LEMMA ServerHelloIs ==
    ASSUME NEW y, y.id \in 0..MaxConns, y.id # None, y.ver \in Versions, y.suite \in Suites,
           n \in 0..MaxConns, n > 0, sv'.id = y.id, sv'.ver = y.ver, sv'.suite = y.suite, n' = n,
           NEW m, m = ServerHello(y)
    PROVE  OfServer(m)' /\ IsMessage(m) /\ ~m.odd
<1> DEFINE v == [ver |-> y.ver, id |-> y.id, suite |-> y.suite, random |-> n]
<1>1. v \in Answered /\ v.random # 0
  BY DEF Answered
<1>2. v = [ver |-> sv'.ver, id |-> sv'.id, suite |-> sv'.suite, random |-> n']
  OBVIOUS
<1>3. m = Message("SH", Clear, v)
  BY DEF ServerHello
<1> HIDE DEF v
<1>4. IsMessage(m) /\ ~m.odd /\ m.type = "SH" /\ m.v = v
  BY <1>3, MessageIs DEF Types
<1> QED BY <1>1, <1>2, <1>4 DEF OfServer

(* What the ClientHello finds in the cache. *)
LEMMA HelloLoads ==
    ASSUME Cached, NEW id,
           IF id # None THEN Cache!Load(id) ELSE loaded' = NotFound /\ UNCHANGED << room, cache >>
    PROVE  /\ Queue(cache') /\ Len(cache') <= room' /\ room' = room
           /\ ToSet(cache') \subseteq ToSet(cache)
           /\ loaded' = NotFound \/ (id # None /\ \E m \in ToSet(cache) : m.id = id /\ loaded' = m.par)
<1>1. CASE id # None
  BY <1>1, CacheLoads
<1>2. CASE id = None
  BY <1>2 DEF Cached, Queue
<1> QED BY <1>1, <1>2

(* A server that resumes a session of its cache. *)
LEMMA ServerResumes ==
    ASSUME Inv, up, c2s # << >>, sv.at = "CH", Cached',
           \A m \in ToSet(cache') : \E k \in ToSet(cache) : k.id = m.id,
           NEW h \in Hellos, h.id # None, h.id = session.id,
           NEW p, \E m \in ToSet(cache) : m.id = h.id /\ p = m.par,
           NEW x \in Engines(ServerConfigs), Resume(x, p, h),
           x.cfg = sv.cfg, x.odd = Server.odd, x.random[2] = n
    PROVE  Inv'
<1> DEFINE y == [x EXCEPT !.id = h.id, !.ver = p.ver, !.suite = p.suite, !.ms = p.ms,
                          !.auth = p.auth, !.resumed = TRUE, !.at = "CCS"]
<1>1. Typed /\ Up /\ Cached /\ n > 0 /\ n \in 0..MaxConns
  BY DEF Inv, Up, Typed
<1>2. /\ p \in Params /\ p.ms \in -1..MaxConns /\ (Insists => p.auth = "good")
      /\ h.id \in 0..MaxConns
  BY <1>1 DEF Cached, Entry, Hellos
<1>a. PICK m : m = ServerHello(y)
  OBVIOUS
<1> DEFINE msgs == << m >> \o CCSFinished(y)
<1>3. ServerGoes([y EXCEPT !.out = Keys(y)], msgs)
  BY <1>a DEF Resume
<1>4. y \in Engines(ServerConfigs)
  BY <1>2 DEF Engines, Params, States, Auths, Versions0, Suites0
<1>5. /\ y.id = h.id /\ y.ver = p.ver /\ y.suite = p.suite /\ y.ms = p.ms /\ y.auth = p.auth
      /\ y.resumed /\ y.at = "CCS" /\ y.cfg = x.cfg /\ y.random = x.random /\ y.odd = x.odd
  BY DEF Engines
<1> HIDE DEF y
<1>6. Keys(y) \in KeySets /\ Keys(y) # Clear
  BY <1>4, KeysAre
<1>7. /\ sv' \in Engines(ServerConfigs) /\ sv'.out = Keys(y)
      /\ << sv'.at, sv'.cfg, sv'.id, sv'.ver, sv'.suite, sv'.ms, sv'.resumed, sv'.random, sv'.auth, sv'.odd >> =
         << y.at, y.cfg, y.id, y.ver, y.suite, y.ms, y.resumed, y.random, y.auth, y.odd >>
  BY <1>3, <1>4, <1>6 DEF ServerGoes, Engines
<1>8. p.ver \in Versions /\ p.suite \in Suites
  BY <1>2 DEF Params
<1>9. OfServer(m)' /\ IsMessage(m) /\ ~m.odd
  <2>1. n' = n
    BY <1>3 DEF ServerGoes
  <2> QED BY <1>1, <1>2, <1>5, <1>7, <1>8, <1>a, <2>1, ServerHelloIs
<1>10. Queue(<< m >>) /\ ToSet(<< m >>) = {m}
  BY OneMessage
<1>11. /\ Queue(CCSFinished(y))
       /\ \A k \in ToSet(CCSFinished(y)) :
            /\ IsMessage(k) /\ ~k.odd /\ k.type \in {"CCS", "Fin"}
            /\ k.type = "Fin" => k.key = Keys(y) /\ k.v = << y.ms, y.odd >>
  BY <1>4, CCSFinishedIs
<1>12. Queue(msgs) /\ ToSet(msgs) = {m} \cup ToSet(CCSFinished(y))
  <2> DEFINE first == << m >>
  <2>1. msgs = first \o CCSFinished(y) /\ Queue(first) /\ ToSet(first) = {m}
    BY <1>10
  <2> HIDE DEF first, msgs
  <2> QED BY <1>11, <2>1, Joined
<1>13. Keys(sv') = Keys(y)
  BY <1>7 DEF Keys
<1>14. \A k \in ToSet(CCSFinished(y)) : OfServer(k)'
  BY <1>6, <1>7, <1>11, <1>13 DEF OfServer
<1>15. \A k \in ToSet(msgs) : OfServer(k)' /\ IsMessage(k) /\ ~k.odd
  BY <1>9, <1>11, <1>12, <1>14
<1> HIDE DEF msgs
<1>16. ServerMoves(msgs)
  BY <1>3, <1>5, <1>7, <1>12, <1>15 DEF ServerMoves, ServerGoes
<1>17. ServerIs'
  <2>1. /\ sv'.at = "CCS" /\ sv'.id = session'.id /\ sv'.id # None /\ sv'.resumed
        /\ sv'.ver \in Versions /\ sv'.suite \in Suites /\ sv'.random[2] = n'
        /\ sv'.out # Clear
    BY <1>5, <1>6, <1>7, <1>8, <1>16 DEF ServerMoves
  <2>2. Insists' => sv'.auth = "good"
    BY <1>2, <1>5, <1>7 DEF Insists
  <2> QED BY <2>1, <2>2 DEF ServerIs, Answering, Sent, Frozen
<1> QED BY <1>5, <1>7, <1>15, <1>16, <1>17, HelloFrame

(* A server that starts afresh. *)
LEMMA ServerStartsAfresh ==
    ASSUME Inv, up, c2s # << >>, sv.at = "CH", Cached',
           \A m \in ToSet(cache') : \E k \in ToSet(cache) : k.id = m.id,
           NEW h \in Hellos, Head(c2s).type = "CH",
           ~Head(c2s).odd => h.max = cl.cfg.max /\ h.suites = cl.cfg.suites,
           NEW x \in Engines(ServerConfigs), Full(x, h),
           x.cfg = sv.cfg, x.id = sv.id, x.out = sv.out, x.resumed = sv.resumed, x.auth = sv.auth,
           x.odd = Server.odd, x.random[2] = n, x.ver = Least(sv.cfg.max, h.max)
    PROVE  Inv'
<1>1. /\ Typed /\ Up /\ Cached /\ n > 0 /\ n \in 0..MaxConns
      /\ cl \in Engines(ClientConfigs) /\ sv \in Engines(ServerConfigs)
  BY DEF Inv, Up, Typed
<1>2. /\ ~x.resumed /\ x.out = Clear /\ sv.odd = {} /\ x.auth = "none"
  BY <1>1 DEF Up, ServerIs, Sent
<1>3. CASE Usable(x, h) = {}
  <2>1. Alerts(x, "handshake_failure")
    BY <1>3 DEF Full
  <2>2. "handshake_failure" \in Errors
    BY DEF Errors
  <2> QED BY <2>1, <2>2, ServerAlerts
<1>4. CASE Usable(x, h) # {}
  <2> DEFINE i == Min(Usable(x, h))
             y == [x EXCEPT !.id = n, !.suite = h.suites[i],
                            !.at = IF x.cfg.asks THEN "Cert" ELSE "CKE"]
             signed == IF y.suite \in Signed THEN << Message("SKE", Clear, y.random) >> ELSE << >>
             request == IF x.cfg.asks THEN << Message("CR", Clear, 0) >> ELSE << >>
             last == << Message("SHD", Clear, 0) >>
  <2>1. i \in Usable(x, h)
    <3>1. Usable(x, h) \subseteq Nat
      BY DEF Usable, Hellos
    <3> QED BY <1>4, <3>1, LeastOfSet
  <2>2. h.suites[i] \in Suites
    BY <2>1 DEF Usable, Hellos
  <2> HIDE DEF i
  <2>3. y \in Engines(ServerConfigs)
    BY <1>1, <2>2 DEF Engines, States, Suites0
  <2>4. /\ y.id = n /\ y.suite = h.suites[i] /\ y.at = IF x.cfg.asks THEN "Cert" ELSE "CKE"
        /\ << y.cfg, y.ver, y.resumed, y.out, y.auth, y.random, y.odd >> =
           << x.cfg, x.ver, x.resumed, x.out, x.auth, x.random, x.odd >>
    BY DEF Engines
  <2>5. PICK m : m = ServerHello(y)
    OBVIOUS
  <2>6. PICK c : c = Message("Cert", Clear, x.cfg.cert)
    OBVIOUS
  <2> DEFINE first == << m, c >>
             msgs == first \o signed \o request \o last
  <2>7. ServerGoes(y, msgs)
    BY <1>4, <2>5, <2>6 DEF Full, i
  <2> HIDE DEF y
  <2>8. sv' = y /\ n' = n
    BY <2>7 DEF ServerGoes
  <2>9. x.ver \in Versions /\ x.cfg.cert \in {"good", "bad"} /\ h.max \in Versions
        /\ cl.cfg.max \in Versions /\ sv.cfg.max \in Versions
    <3>1. h.max \in Versions /\ sv.cfg.max \in Versions /\ cl.cfg.max \in Versions
      BY <1>1, HandshakeAssumption DEF Hellos, Engines
    <3>2. x.cfg.cert \in {"good", "bad"}
      BY HandshakeAssumption DEF Engines
    <3> QED BY <3>1, <3>2, LeastEitherWay
  <2>10. OfServer(m)' /\ IsMessage(m) /\ ~m.odd
    <3>1. y.id \in 0..MaxConns /\ y.id # None /\ y.ver \in Versions /\ y.suite \in Suites
      BY <1>1, <2>2, <2>4, <2>9 DEF None
    <3> QED BY <1>1, <2>5, <2>8, <3>1, ServerHelloIs
  <2>11. OfServer(c)' /\ IsMessage(c) /\ ~c.odd
    <3>1. IsMessage(c) /\ ~c.odd /\ c.type = "Cert" /\ c.v = x.cfg.cert
      BY <2>6, MessageIs DEF Types
    <3> QED BY <2>9, <3>1 DEF OfServer
  <2>12. Queue(first) /\ \A k \in ToSet(first) : OfServer(k)' /\ IsMessage(k) /\ ~k.odd
    <3>1. first \in Seq({m, c})
      OBVIOUS
    <3> QED BY <2>10, <2>11, <3>1, SequenceIsQueue, OfSet
  <2>13. Queue(signed) /\ \A k \in ToSet(signed) : OfServer(k)' /\ IsMessage(k) /\ ~k.odd
    <3>1. Queue(signed) /\ \A k \in ToSet(signed) : k = Message("SKE", Clear, y.random)
      BY NoMessage, OneMessage
    <3>2. \A k \in ToSet(signed) : IsMessage(k) /\ ~k.odd /\ k.type = "SKE"
      BY <3>1, MessageIs DEF Types
    <3> QED BY <3>1, <3>2 DEF OfServer
  <2>14. Queue(request) /\ \A k \in ToSet(request) : OfServer(k)' /\ IsMessage(k) /\ ~k.odd
    <3>1. Queue(request) /\ \A k \in ToSet(request) : k = Message("CR", Clear, 0)
      BY NoMessage, OneMessage
    <3>2. \A k \in ToSet(request) : IsMessage(k) /\ ~k.odd /\ k.type = "CR"
      BY <3>1, MessageIs DEF Types
    <3> QED BY <3>1, <3>2 DEF OfServer
  <2>15. Queue(last) /\ \A k \in ToSet(last) : OfServer(k)' /\ IsMessage(k) /\ ~k.odd
    <3>1. Queue(last) /\ \A k \in ToSet(last) : k = Message("SHD", Clear, 0)
      BY OneMessage
    <3>2. \A k \in ToSet(last) : IsMessage(k) /\ ~k.odd /\ k.type = "SHD"
      BY <3>1, MessageIs DEF Types
    <3> QED BY <3>1, <3>2 DEF OfServer
  <2> HIDE DEF first, signed, request, last
  <2>16. Queue(msgs) /\ \A k \in ToSet(msgs) : OfServer(k)' /\ IsMessage(k) /\ ~k.odd
    BY <2>12, <2>13, <2>14, <2>15, Joined
  <2> HIDE DEF msgs
  <2>17. ServerMoves(msgs)
    BY <2>3, <2>4, <2>7, <2>8, <2>16 DEF ServerGoes, ServerMoves
  <2>18. "CH" \notin y.odd => << y.ver, y.suite >> = Best(cl.cfg, sv.cfg)
    <3> SUFFICES ASSUME "CH" \notin y.odd PROVE << y.ver, y.suite >> = Best(cl.cfg, sv.cfg)
      OBVIOUS
    <3>1. ~Head(c2s).odd
      BY <2>4, ServerReads
    <3>2. y.ver = Least(cl.cfg.max, sv.cfg.max)
      BY <2>4, <2>9, <3>1, LeastEitherWay
    <3>3. Usable(x, h) = {j \in DOMAIN cl.cfg.suites :
                            /\ cl.cfg.suites[j] \in sv.cfg.suites
                            /\ cl.cfg.suites[j] \in Tls12Only => y.ver = 3}
      BY <2>4, <3>1 DEF Usable
    <3> QED BY <2>4, <3>1, <3>2, <3>3 DEF Best, i
  <2>19. ServerIs'
    <3>1. /\ sv'.at \in {"Cert", "CKE"} /\ ~sv'.resumed /\ ~Sent(sv)' /\ Answering' /\ sv'.id = n'
          /\ sv'.ver \in Versions /\ sv'.suite \in Suites /\ sv'.random[2] = n'
      BY <1>1, <1>2, <2>2, <2>4, <2>8, <2>9 DEF Sent, Answering, None
    <3>2. sv'.at = "CKE" => ~Insists'
      BY <2>4, <2>8 DEF Insists
    <3>3. "CH" \notin sv'.odd => << sv'.ver, sv'.suite >> = Best(cl'.cfg, sv'.cfg)
      BY <2>4, <2>8, <2>17, <2>18 DEF ServerMoves
    <3> QED BY <3>1, <3>2, <3>3 DEF ServerIs
  <2> QED BY <2>4, <2>8, <2>16, <2>17, <2>19, HelloFrame
<1> QED BY <1>3, <1>4

LEMMA ReadClientHelloKeeps ==
    ASSUME Inv, ReadClientHello
    PROVE  Inv'
<1> DEFINE h == Got
           x == [Server EXCEPT !.random = << h.random, n >>,
                               !.ver = Least(sv.cfg.max, h.max)]
<1>1. /\ up /\ c2s # << >> /\ sv.at = "CH" /\ Head(c2s).type = "CH"
      /\ IF h.id # None THEN Cache!Load(h.id) ELSE loaded' = NotFound /\ UNCHANGED << room, cache >>
      /\ IF h.max < sv.cfg.min THEN Alerts(x, "protocol_version")
         ELSE IF Resumable(loaded', h) THEN Resume(x, loaded', h)
         ELSE Full(x, h)
  BY DEF ReadClientHello, ToServer
<1>2. Typed /\ Up /\ Cached /\ ServerIs
  BY <1>1 DEF Inv, Up
<1>3. /\ OfClient(Head(c2s)) /\ sv \in Engines(ServerConfigs)
      /\ Server \in Engines(ServerConfigs) /\ Rest(Server) = Rest(sv) /\ Server.out = sv.out
  BY <1>1, ServerReads
<1>4. /\ h \in Hellos /\ h.id \in {None, session.id}
      /\ ~Head(c2s).odd => h.max = cl.cfg.max /\ h.suites = cl.cfg.suites
  BY <1>1, <1>3 DEF OfClient, Got
<1>5. /\ Queue(cache') /\ Len(cache') <= room' /\ room' = room
      /\ ToSet(cache') \subseteq ToSet(cache)
      /\ loaded' = NotFound \/ (h.id # None /\ \E m \in ToSet(cache) : m.id = h.id /\ loaded' = m.par)
  BY <1>1, <1>2, HelloLoads
<1>6. sv'.cfg = sv.cfg /\ n' = n /\ session' = session
  <2>1. Server.cfg = sv.cfg
    BY <1>3 DEF Rest
  <2> QED BY <1>1, <1>3, <2>1 DEF Alerts, Resume, Full, ServerGoes, Fails, Engines
<1>7. Cached'
  BY <1>2, <1>5, <1>6 DEF Cached, Entry, Insists
<1> DEFINE z == Server
<1>8. z \in Engines(ServerConfigs) /\ Least(sv.cfg.max, h.max) \in Versions /\ n \in Int
      /\ h.random \in Int
  <2>1. sv.cfg.max \in Versions
    BY <1>3, HandshakeAssumption DEF Engines
  <2> QED BY <1>2, <1>3, <1>4, <2>1, LeastEitherWay DEF Hellos, Typed
<1> HIDE DEF z
<1>9. [z EXCEPT !.random = << h.random, n >>, !.ver = Least(sv.cfg.max, h.max)] \in Engines(ServerConfigs)
  BY <1>8 DEF Engines, Versions0
<1>10. x \in Engines(ServerConfigs)
  BY <1>9 DEF z
<1>11. /\ x.random = << h.random, n >> /\ x.ver = Least(sv.cfg.max, h.max)
       /\ << x.cfg, x.id, x.out, x.resumed, x.auth, x.odd >> =
          << z.cfg, z.id, z.out, z.resumed, z.auth, z.odd >>
  BY <1>8 DEF Engines, z
<1>12. << z.cfg, z.id, z.out, z.resumed, z.auth, z.odd >> =
       << sv.cfg, sv.id, sv.out, sv.resumed, sv.auth, Server.odd >>
  BY <1>3 DEF z, Rest
<1> HIDE DEF x, h
<1>13. \A m \in ToSet(cache') : \E k \in ToSet(cache) : k.id = m.id
  BY <1>5
<1>14. CASE h.max < sv.cfg.min
  <2>1. Alerts(x, "protocol_version") /\ "protocol_version" \in Errors
    BY <1>1, <1>14 DEF Errors
  <2> QED BY <1>1, <1>7, <1>10, <1>11, <1>12, <1>13, <2>1, ServerAlerts
<1>15. CASE ~(h.max < sv.cfg.min) /\ Resumable(loaded', h)
  <2>1. Resume(x, loaded', h)
    BY <1>1, <1>15
  <2>2. h.id # None /\ h.id = session.id /\ \E m \in ToSet(cache) : m.id = h.id /\ loaded' = m.par
    BY <1>4, <1>5, <1>15 DEF Resumable
  <2>3. x.random[2] = n
    BY <1>11
  <2> QED BY <1>1, <1>4, <1>7, <1>10, <1>11, <1>12, <1>13, <2>1, <2>2, <2>3, ServerResumes
<1>16. CASE ~(h.max < sv.cfg.min) /\ ~Resumable(loaded', h)
  <2>1. Full(x, h)
    BY <1>1, <1>16
  <2>2. x.random[2] = n
    BY <1>11
  <2> QED BY <1>1, <1>4, <1>7, <1>10, <1>11, <1>12, <1>13, <2>1, <2>2, ServerStartsAfresh
<1> QED BY <1>14, <1>15, <1>16

---------------------------------------------------------------------------
(* The rest of the server's handshake. *)

(* A step without an answer. *)
LEMMA ServerGoesOn ==
    ASSUME Inv, up, c2s # << >>, UNCHANGED store, ServerGoes(sv', << >>),
           sv' \in Engines(ServerConfigs), sv'.odd \in {sv.odd, Server.odd},
           << sv'.cfg, sv'.id, sv'.ver, sv'.suite, sv'.resumed, sv'.random, sv'.out >> =
           << sv.cfg, sv.id, sv.ver, sv.suite, sv.resumed, sv.random, sv.out >>,
           \/ sv.at = "Cert" /\ sv'.at = "CKE" /\ (Insists => sv'.auth = "good")
           \/ sv.at = "CKE" /\ sv'.at \in {"CV", "CCS"} /\ sv'.auth = sv.auth
           \/ sv.at = "CV" /\ sv'.at = "CCS" /\ sv'.auth = sv.auth
           \/ /\ sv.at = "CCS" /\ sv'.at = "Fin" /\ sv'.auth = sv.auth /\ sv'.ms = sv.ms
              /\ sv'.in = Keys(sv') /\ sv'.odd = sv.odd
    PROVE  Inv'
<1>1. Up /\ Typed
  BY DEF Inv
<1>2. ServerMoves(<< >>)
  BY NoMessage DEF ServerMoves, ServerGoes
<1>3. sv.odd \subseteq sv'.odd
  BY ServerReads
<1>4. Sent(sv)' = Sent(sv) /\ Answering' = Answering
  BY DEF Sent, Answering
<1>5. Sent(sv) => sv'.ms = sv.ms /\ sv'.odd = sv.odd
  BY <1>1 DEF Up, ServerIs
<1>6. ServerIs'
  <2>1. sv'.at \in {"CKE", "CV"} => ~sv.resumed /\ ~Sent(sv)
    BY <1>1 DEF Up, ServerIs
  <2>2. sv'.at \in {"CCS", "Fin"} => (sv.resumed <=> Sent(sv))
    BY <1>1 DEF Up, ServerIs
  <2>3. Answering
    BY <1>1 DEF Up, ServerIs
  <2>4. /\ sv.ver \in Versions /\ sv.suite \in Suites /\ sv.random[2] = n
        /\ ~sv.resumed => sv.id = n
        /\ ~Answer /\ sv.resumed => sv.id = session.id
        /\ ~sv.resumed /\ "CH" \notin sv'.odd => << sv.ver, sv.suite >> = Best(cl.cfg, sv.cfg)
    BY <1>1, <1>3, <2>3 DEF Up, ServerIs
  <2>5. Insists => sv'.auth = "good"
    BY <1>1 DEF Up, ServerIs
  <2>6. Sent(sv) => sv'.at \in Frozen
    BY <1>1 DEF Up, ServerIs, Frozen
  <2>7. sv'.at \in {"CKE", "CV", "CCS", "Fin"} /\ Insists' = Insists /\ Answer' = Answer
    BY <1>2 DEF Insists, Answer, ServerMoves
  <2>8. sv'.at = "Fin" => sv'.in = Keys(sv)'
    BY <1>1
  <2> QED BY <1>2, <1>4, <2>1, <2>2, <2>3, <2>4, <2>5, <2>6, <2>7, <2>8 DEF ServerIs, ServerMoves
<1>7. sv.at # "CH" /\ sv'.at \notin {"CH", "app", "CH again"}
  OBVIOUS
<1> QED BY <1>2, <1>4, <1>5, <1>6, <1>7, ServerFrame, NoMessage

LEMMA ReadClientCertificateKeeps ==
    ASSUME Inv, ReadClientCertificate
    PROVE  Inv'
<1>1. up /\ c2s # << >> /\ sv.at = "Cert" /\ Head(c2s).type = "Cert" /\ UNCHANGED store
  BY DEF ReadClientCertificate, ToServer
<1> DEFINE z == Server
<1>2. z \in Engines(ServerConfigs) /\ Rest(z) = Rest(sv) /\ z.out = sv.out
      /\ Got \in {"empty", "good", "bad"}
  BY <1>1, ServerReads DEF OfClient, Got
<1>3. CASE Got = "good" \/ sv.cfg.lenient
  <2>1. ServerGoes([z EXCEPT !.auth = Got, !.at = "CKE"], << >>)
    BY <1>3 DEF ReadClientCertificate
  <2> HIDE DEF z
  <2>2. sv' \in Engines(ServerConfigs)
    BY <1>2, <2>1 DEF ServerGoes, Engines, States, Auths
  <2>3. /\ sv'.at = "CKE" /\ sv'.auth = Got /\ sv'.odd = z.odd
        /\ << sv'.cfg, sv'.id, sv'.ver, sv'.suite, sv'.resumed, sv'.random, sv'.out >> =
           << z.cfg, z.id, z.ver, z.suite, z.resumed, z.random, z.out >>
    BY <1>2, <2>1 DEF ServerGoes, Engines
  <2>4. Insists => sv'.auth = "good"
    BY <1>3, <2>3 DEF Insists
  <2> QED BY <1>1, <1>2, <2>1, <2>2, <2>3, <2>4, ServerGoesOn DEF Rest, z, ServerGoes
<1>4. CASE ~(Got = "good" \/ sv.cfg.lenient)
  <2>1. /\ ServerGoes(Fails(Server, IF Got = "bad" THEN "X509" ELSE "NO_CLIENT_AUTH"), << >>)
        /\ ~Sent(sv)
    BY <1>1, <1>4 DEF ReadClientCertificate, Inv, Up, ServerIs
  <2> QED BY <1>1, <2>1, ServerFails DEF Errors
<1> QED BY <1>3, <1>4

LEMMA ReadClientKeyExchangeKeeps ==
    ASSUME Inv, ReadClientKeyExchange
    PROVE  Inv'
<1>1. up /\ c2s # << >> /\ sv.at = "CKE" /\ Head(c2s).type = "CKE" /\ UNCHANGED store
  BY DEF ReadClientKeyExchange, ToServer
<1> DEFINE z == Server
<1>2. z \in Engines(ServerConfigs) /\ Rest(z) = Rest(sv) /\ z.out = sv.out
      /\ Got \in -1..MaxConns
  BY <1>1, ServerReads DEF OfClient, Got
<1>3. ServerGoes([z EXCEPT !.ms = Got, !.at = IF sv.auth \in {"good", "bad"} THEN "CV" ELSE "CCS"], << >>)
  BY DEF ReadClientKeyExchange
<1> HIDE DEF z
<1>4. sv' \in Engines(ServerConfigs)
  BY <1>2, <1>3 DEF ServerGoes, Engines, States
<1>5. /\ sv'.at \in {"CV", "CCS"} /\ sv'.odd = z.odd
      /\ << sv'.cfg, sv'.id, sv'.ver, sv'.suite, sv'.resumed, sv'.random, sv'.out, sv'.auth >> =
         << z.cfg, z.id, z.ver, z.suite, z.resumed, z.random, z.out, z.auth >>
  BY <1>2, <1>3 DEF ServerGoes, Engines
<1> QED BY <1>1, <1>2, <1>3, <1>4, <1>5, ServerGoesOn DEF Rest, z, ServerGoes

LEMMA ReadCertificateVerifyKeeps ==
    ASSUME Inv, ReadCertificateVerify
    PROVE  Inv'
<1>1. up /\ c2s # << >> /\ sv.at = "CV" /\ UNCHANGED store
  BY DEF ReadCertificateVerify, ToServer
<1> DEFINE z == Server
<1>2. z \in Engines(ServerConfigs) /\ Rest(z) = Rest(sv) /\ z.out = sv.out
  BY <1>1, ServerReads
<1>3. CASE sv.auth = "bad" \/ Got = sv.odd
  <2>1. ServerGoes([z EXCEPT !.at = "CCS"], << >>)
    BY <1>3 DEF ReadCertificateVerify
  <2> HIDE DEF z
  <2>2. sv' \in Engines(ServerConfigs) /\ sv'.at = "CCS" /\ Rest(sv') = Rest(z)
        /\ sv'.odd = z.odd /\ sv'.out = z.out
    BY <1>2, <2>1 DEF ServerGoes, Engines, States, Rest
  <2> QED BY <1>1, <1>2, <2>1, <2>2, ServerGoesOn DEF Rest, z, ServerGoes
<1>4. CASE ~(sv.auth = "bad" \/ Got = sv.odd)
  <2>1. ServerGoes(Fails(Server, "BAD_SIGNATURE"), << >>) /\ ~Sent(sv)
    BY <1>1, <1>4 DEF ReadCertificateVerify, Inv, Up, ServerIs
  <2> QED BY <1>1, <2>1, ServerFails DEF Errors
<1> QED BY <1>3, <1>4

LEMMA ServerReadsCCSKeeps ==
    ASSUME Inv, ServerReadsCCS
    PROVE  Inv'
<1>1. /\ up /\ c2s # << >> /\ sv.at = "CCS" /\ UNCHANGED store
      /\ ServerGoes([sv EXCEPT !.in = Keys(sv), !.at = "Fin"], << >>)
  BY DEF ServerReadsCCS, ToServer
<1>2. sv \in Engines(ServerConfigs) /\ Keys(sv) \in KeySets
  BY KeysAre DEF Inv, Typed
<1>3. sv' \in Engines(ServerConfigs)
  BY <1>1, <1>2 DEF ServerGoes, Engines, States
<1>4. /\ sv'.in = Keys(sv) /\ sv'.at = "Fin" /\ Rest(sv') = Rest(sv)
      /\ sv'.odd = sv.odd /\ sv'.out = sv.out
  BY <1>1, <1>2 DEF ServerGoes, Engines, Rest
<1>5. Keys(sv)' = Keys(sv)
  BY <1>4 DEF Keys, Rest
<1>6. ServerGoes(sv', << >>)
  BY <1>1 DEF ServerGoes
<1> QED BY <1>1, <1>3, <1>4, <1>5, <1>6, ServerGoesOn DEF Rest

LEMMA ServerReadsFinishedKeeps ==
    ASSUME Inv, ServerReadsFinished
    PROVE  Inv'
<1> DEFINE done == [sv EXCEPT !.at = "app", !.out = Keys(sv)]
           p == [ver |-> sv.ver, suite |-> sv.suite, ms |-> sv.ms, auth |-> sv.auth]
           msgs == IF sv.resumed THEN << >> ELSE CCSFinished(sv)
<1>1. up /\ c2s # << >> /\ sv.at = "Fin" /\ Head(c2s).type = "Fin" /\ Head(c2s).key = sv.in
  BY DEF ServerReadsFinished, ToServer
<1>2. Typed /\ Up /\ ClientIs /\ ServerIs /\ Stored /\ Cached /\ Wires /\ DamagedOnce
  BY <1>1 DEF Inv, Up
<1>3. sv \in Engines(ServerConfigs) /\ OfClient(Head(c2s))
  BY <1>1, ServerReads
<1>4. CASE ~Verified(sv, Got)
  BY <1>1, <1>4, ServerFails DEF ServerReadsFinished, Errors
<1>5. CASE Verified(sv, Got)
  <2>1. /\ ServerGoes(done, msgs)
        /\ IF sv.resumed THEN UNCHANGED store ELSE Cache!Save(sv.id, p)
    BY <1>5 DEF ServerReadsFinished
  <2>2. Keys(sv) \in KeySets /\ Keys(sv) # Clear
    BY <1>3, KeysAre
  <2>3. /\ sv' \in Engines(ServerConfigs) /\ sv'.at = "app" /\ sv'.out = Keys(sv)
        /\ << sv'.cfg, sv'.id, sv'.ver, sv'.suite, sv'.ms, sv'.resumed, sv'.random, sv'.auth, sv'.odd >> =
           << sv.cfg, sv.id, sv.ver, sv.suite, sv.ms, sv.resumed, sv.random, sv.auth, sv.odd >>
    BY <1>3, <2>1, <2>2 DEF ServerGoes, Engines, States
  <2>4. /\ (sv.resumed <=> Sent(sv)) /\ sv.in = Keys(sv) /\ (Insists => sv.auth = "good")
    BY <1>1, <1>2 DEF ServerIs
  <2>5. Sent(cl) /\ Keys(cl) = Keys(sv) /\ cl.odd = sv.odd
    <3>1. Got = << sv.ms, sv.odd >>
      BY <1>5 DEF Verified
    <3>2. Sent(cl) /\ Head(c2s).key = Keys(cl) /\ Got = << cl.ms, cl.odd >>
      BY <1>1, <1>3 DEF OfClient, Sent, Got
    <3> QED BY <1>1, <2>4, <3>1, <3>2
  <2>6. Answer /\ (~cl.resumed => cl.ms = n)
    BY <1>2, <2>5 DEF ClientIs
  <2>7. /\ << Session(cl), cl.random, cl.odd >> = << Session(sv), sv.random, sv.odd >>
        /\ cl.odd = {} /\ Answering
    BY <1>2, <2>5, <2>6, FinishedAgrees
  <2>8. ~sv.resumed => sv.id = n /\ sv.ms = n /\ session.id # n
    BY <1>2, <2>4, <2>6, <2>7 DEF ServerIs, Session, Stored
  <2>9. sv.ver \in Versions /\ sv.suite \in Suites
    BY <1>2, <2>7 DEF ServerIs
  <2>10. /\ Queue(msgs)
         /\ \A m \in ToSet(msgs) :
             /\ IsMessage(m) /\ ~m.odd /\ m.type \in {"CCS", "Fin"}
             /\ m.type = "Fin" => m.key = Keys(sv) /\ m.v = << sv.ms, sv.odd >>
    BY <1>3, CCSFinishedIs, NoMessage
  <2> HIDE DEF msgs
  <2>11. ServerMoves(msgs)
    BY <1>1, <2>1, <2>3, <2>10 DEF ServerMoves, ServerGoes
  <2>12. /\ Queue(c2s') /\ Queue(s2c') /\ ToSet(s2c') = ToSet(s2c) \cup ToSet(msgs)
         /\ ToSet(c2s') \subseteq ToSet(c2s) /\ DamagedOnce'
    BY <2>11, ServerWires
  <2>13. Keys(sv') = Keys(sv) /\ sv'.out # Clear
    BY <2>2, <2>3 DEF Keys
  <2>14. n' = n /\ cl' = cl /\ session' = session /\ up' = up /\ damaged' = damaged
    BY <2>11 DEF ServerMoves
  <2>15. Typed'
    BY <1>2, <2>3, <2>14 DEF Typed
  <2>16. Wires'
    <3>1. \A m \in ToSet(s2c) : OfServer(m)'
      <4> SUFFICES ASSUME NEW m \in ToSet(s2c) PROVE OfServer(m)'
        OBVIOUS
      <4>1. OfServer(m)
        BY <1>2 DEF Wires
      <4> QED BY <2>3, <2>13, <2>14, <4>1 DEF OfServer
    <3>2. \A m \in ToSet(msgs) : OfServer(m)'
      BY <2>3, <2>10, <2>13 DEF OfServer
    <3>3. \A m \in ToSet(c2s') : OfClient(m)'
      <4> SUFFICES ASSUME NEW m \in ToSet(c2s) PROVE OfClient(m)'
        BY <2>12
      <4>1. OfClient(m) /\ m.type # "CH"
        BY <1>1, <1>2 DEF Wires, OfClient
      <4> QED BY <2>14, <4>1 DEF OfClient
    <3> QED BY <2>12, <3>1, <3>2, <3>3 DEF Wires
  <2>17. ClientIs'
    BY <1>2, <2>3, <2>14 DEF ClientIs, Answer, Answering, Sent, OfSession, Keys
  <2>18. ServerIs'
    BY <1>2, <2>3, <2>4, <2>7, <2>13, <2>14
       DEF ServerIs, Insists, Answer, Answering, Sent, Frozen
  <2>19. Agreed'
    BY <2>3, <2>5, <2>7, <2>13, <2>14 DEF Agreed, Session, Sent
  <2>20. Stored' /\ Cached'
    <3>1. CASE sv.resumed
      <4>1. UNCHANGED store
        BY <2>1, <3>1
      <4> QED BY <1>2, <2>3, <2>13, <2>14, <4>1
            DEF Stored, Cached, Entry, Insists, Answer, Sent, store
    <3>2. CASE ~sv.resumed
      <4>1. Cache!Save(sv.id, p)
        BY <2>1, <3>2
      <4>2. p \in Params /\ p.ms = n /\ p.ver = sv.ver /\ p.suite = sv.suite /\ p.auth = sv.auth
        BY <1>3, <2>8, <2>9, <3>2 DEF Params, Engines, Auths
      <4> HIDE DEF p
      <4>3. PICK e : e = [id |-> sv.id, par |-> p, on |-> TRUE]
        OBVIOUS
      <4>4. /\ Queue(cache') /\ Len(cache') <= room' /\ room' = room /\ loaded' = NotFound
            /\ \A m \in ToSet(cache') : m \in ToSet(cache) \/ m = e
        BY <1>2, <4>1, <4>3, CacheSaves
      <4>5. e \in [id : 1..n, par : Params, on : BOOLEAN] /\ e.id = n /\ e.par = p
        <5>1. n \in Nat /\ n > 0
          BY <1>1, <1>2, HandshakeAssumption DEF Typed, Up
        <5> QED BY <2>8, <3>2, <4>2, <4>3, <5>1
      <4>6. \A m \in ToSet(cache) : m.id # n
        BY <1>2, <2>4, <3>2 DEF Stored
      <4>7. Stored'
        BY <1>2, <2>3, <2>6, <2>8, <2>13, <2>14, <3>2, <4>2, <4>4, <4>5, <4>6
           DEF Stored, Answer, Sent
      <4>8. \A m \in ToSet(cache') : Entry(m)'
        <5>1. Entry(e)'
          BY <2>3, <2>4, <2>8, <2>14, <3>2, <4>2, <4>5 DEF Entry, Insists
        <5>2. \A m \in ToSet(cache) : Entry(m)'
          BY <1>2, <2>3, <2>14 DEF Cached, Entry, Insists
        <5> QED BY <4>4, <5>1, <5>2
      <4> QED BY <1>2, <2>14, <4>4, <4>7, <4>8 DEF Cached
    <3> QED BY <3>1, <3>2
  <2> QED BY <1>1, <1>2, <2>12, <2>14, <2>15, <2>16, <2>17, <2>18, <2>19, <2>20 DEF Inv, Up
<1> QED BY <1>4, <1>5

LEMMA ServerReadsDataKeeps ==
    ASSUME Inv, ServerReadsData
    PROVE  Inv'
<1>1. up /\ c2s # << >> /\ sv.at = "app" /\ UNCHANGED store /\ ServerGoes(sv, << >>)
  BY DEF ServerReadsData, ToServer
<1>2. Typed /\ Up
  BY <1>1 DEF Inv
<1>3. sv' = sv /\ ServerMoves(<< >>)
  BY <1>1, <1>2, NoMessage DEF ServerMoves, ServerGoes, Typed
<1>4. ServerIs'
  BY <1>1, <1>2, <1>3
     DEF Up, ServerIs, Insists, Answer, Answering, Sent, Keys, ServerMoves
<1> QED BY <1>1, <1>3, <1>4, ServerFrame, NoMessage DEF Sent

LEMMA ServerRefusesKeeps ==
    ASSUME Inv, ServerRefuses
    PROVE  Inv'
<1>1. PICK err \in Errors : ServerGoes(Fails(sv, err), << >>)
  BY DEF ServerRefuses, Errors
<1>2. up /\ c2s # << >> /\ sv.at # "failed" /\ UNCHANGED store
  BY DEF ServerRefuses
<1> QED BY <1>1, <1>2, ServerFails

LEMMA ServerStepKeeps ==
    ASSUME Inv, ServerStep
    PROVE  Inv'
  BY ReadClientHelloKeeps, ReadClientCertificateKeeps, ReadClientKeyExchangeKeeps,
     ReadCertificateVerifyKeeps, ServerReadsCCSKeeps, ServerReadsFinishedKeeps,
     ServerReadsDataKeeps, ServerRefusesKeeps
     DEF ServerStep

---------------------------------------------------------------------------
(* The applications. *)

LEMMA Appended ==
    ASSUME NEW q, Queue(q), CleanTail(q), NEW m, ~m.odd
    PROVE  /\ Queue(Append(q, m)) /\ ToSet(Append(q, m)) = ToSet(q) \cup {m}
           /\ CleanTail(Append(q, m)) /\ Odd(Append(q, m)) = Odd(q)
           /\ Append(q, m) # << >>
<1> DEFINE r == << m >>
<1>1. Queue(r) /\ ToSet(r) = {m} /\ Head(r) = m /\ Tail(r) = << >> /\ r # << >>
  BY OneMessage
<1>2. Append(q, m) = q \o r
  BY DEF Queue
<1> HIDE DEF r
<1>3. Queue(q \o r) /\ ToSet(q \o r) = ToSet(q) \cup {m}
  BY <1>1, Joined
<1>4. CleanTail(q \o r) /\ Odd(q \o r) = Odd(q) /\ q \o r # << >>
  <2>1. CASE q = << >>
    BY <1>1, <2>1, Joined, NoMessage DEF CleanTail, Odd
  <2>2. CASE q # << >>
    <3>1. q \o r # << >> /\ Head(q \o r) = Head(q) /\ Tail(q \o r) = Tail(q) \o r
      BY <1>1, <2>2, Joined
    <3>2. Queue(Tail(q))
      BY <2>2, HeadTailOf
    <3>3. ToSet(Tail(q) \o r) = ToSet(Tail(q)) \cup {m}
      BY <1>1, <3>2, Joined
    <3> QED BY <2>2, <3>1, <3>3 DEF CleanTail, Odd
  <2> QED BY <2>1, <2>2
<1> QED BY <1>2, <1>3, <1>4

LEMMA EngineIs ==
    ASSUME NEW C, NEW cfg \in C
    PROVE  Engine(cfg) \in Engines(C)
<1>1. MaxConns \in Nat
  BY HandshakeAssumption
<1> QED BY <1>1
     DEF Engine, Engines, States, Errors, Auths, Versions0, Suites0, KeySets, Types, None, Clear

LEMMA ClientSaysKeeps ==
    ASSUME Inv, ClientSays
    PROVE  Inv'
<1> DEFINE m == Message("app", cl.out, 0)
<1>1. /\ up /\ cl.at = "app" /\ cl' = [cl EXCEPT !.said = TRUE] /\ c2s' = Append(c2s, m)
      /\ UNCHANGED << n, up, damaged, sv, s2c, session, store >>
  BY DEF ClientSays
<1>2. Typed /\ Wires /\ DamagedOnce /\ Cached /\ Up
  BY <1>1 DEF Inv
<1>3. PICK k : k = m
  OBVIOUS
<1>4. IsMessage(k) /\ ~k.odd /\ k.type = "app"
  BY <1>3, MessageIs DEF Types
<1> HIDE DEF m
<1>5. /\ Queue(c2s') /\ ToSet(c2s') = ToSet(c2s) \cup {k}
      /\ CleanTail(c2s') /\ Odd(c2s') = Odd(c2s)
  BY <1>1, <1>2, <1>3, <1>4, Appended DEF Wires, DamagedOnce
<1>6. cl' \in Engines(ClientConfigs)
  BY <1>1, <1>2 DEF Typed, Engines
<1>7. << cl'.at, cl'.cfg, cl'.id, cl'.ver, cl'.suite, cl'.ms, cl'.resumed, cl'.random, cl'.auth, cl'.odd, cl'.in, cl'.out >> =
      << cl.at, cl.cfg, cl.id, cl.ver, cl.suite, cl.ms, cl.resumed, cl.random, cl.auth, cl.odd, cl.in, cl.out >>
  BY <1>1, <1>2 DEF Typed, Engines
<1>8. Typed'
  BY <1>1, <1>2, <1>6 DEF Typed
<1>9. Wires'
  <2>1. \A x \in ToSet(c2s) : OfClient(x)'
    <3> SUFFICES ASSUME NEW x \in ToSet(c2s) PROVE OfClient(x)'
      OBVIOUS
    <3>1. OfClient(x)
      BY <1>2 DEF Wires
    <3> QED BY <1>1, <1>7, <3>1 DEF OfClient, Keys
  <2>2. OfClient(k)'
    BY <1>4 DEF OfClient
  <2>3. \A x \in ToSet(s2c) : OfServer(x)'
    BY <1>1, <1>2 DEF Wires, OfServer, Keys
  <2> QED BY <1>1, <1>2, <1>5, <2>1, <2>2, <2>3 DEF Wires
<1>10. DamagedOnce'
  BY <1>1, <1>2, <1>5, <1>7 DEF DamagedOnce
<1>11. Cached'
  BY <1>1, <1>2 DEF Cached, Entry, Insists, store
<1>12. ClientIs' /\ Stored'
  BY <1>1, <1>2, <1>7
     DEF Up, ClientIs, Stored, Answer, Answering, Sent, OfSession, Keys, store
<1>13. ServerIs'
  BY <1>1, <1>2, <1>7 DEF Up, ServerIs, Answer, Answering, Sent, Insists, Keys
<1>14. Agreed'
  BY <1>1, <1>2, <1>7 DEF Up, Agreed, Sent, Session
<1> QED BY <1>1, <1>2, <1>8, <1>9, <1>10, <1>11, <1>12, <1>13, <1>14 DEF Inv, Up

(* The server writes a message in application data. *)
LEMMA ServerWrites ==
    ASSUME Inv, up, sv.at = "app", NEW k, IsMessage(k), ~k.odd, k.type \in {"app", "HR"},
           s2c' = Append(s2c, k), UNCHANGED << n, up, damaged, cl, c2s, session, store >>,
           sv' \in Engines(ServerConfigs), sv'.at \in {"app", "CH again"},
           << sv'.cfg, sv'.id, sv'.ver, sv'.suite, sv'.ms, sv'.resumed, sv'.random, sv'.auth, sv'.odd, sv'.in, sv'.out >> =
           << sv.cfg, sv.id, sv.ver, sv.suite, sv.ms, sv.resumed, sv.random, sv.auth, sv.odd, sv.in, sv.out >>
    PROVE  Inv'
<1>1. Typed /\ Wires /\ DamagedOnce /\ Cached /\ Up
  BY DEF Inv
<1>2. /\ Queue(s2c') /\ ToSet(s2c') = ToSet(s2c) \cup {k}
      /\ CleanTail(s2c') /\ Odd(s2c') = Odd(s2c)
  BY <1>1, Appended DEF Wires, DamagedOnce
<1>3. Typed'
  BY <1>1 DEF Typed
<1>4. Wires'
  <2>1. \A x \in ToSet(s2c) : OfServer(x)'
    <3> SUFFICES ASSUME NEW x \in ToSet(s2c) PROVE OfServer(x)'
      OBVIOUS
    <3>1. OfServer(x)
      BY <1>1 DEF Wires
    <3> QED BY <3>1 DEF OfServer, Keys
  <2>2. OfServer(k)'
    BY DEF OfServer
  <2>3. \A x \in ToSet(c2s) : OfClient(x)'
    BY <1>1 DEF Wires, OfClient, Keys
  <2> QED BY <1>1, <1>2, <2>1, <2>2, <2>3 DEF Wires
<1>5. DamagedOnce'
  BY <1>1, <1>2 DEF DamagedOnce
<1>6. Cached'
  BY <1>1 DEF Cached, Entry, Insists, store
<1>7. ClientIs' /\ Stored'
  BY <1>1 DEF Up, ClientIs, Stored, Answer, Answering, Sent, OfSession, Keys, store
<1>8. ServerIs'
  BY <1>1 DEF Up, ServerIs, Answer, Answering, Sent, Insists, Keys
<1>9. Agreed'
  BY <1>1 DEF Up, Agreed, Sent, Session
<1> QED BY <1>1, <1>3, <1>4, <1>5, <1>6, <1>7, <1>8, <1>9 DEF Inv, Up

LEMMA ServerSaysKeeps ==
    ASSUME Inv, ServerSays
    PROVE  Inv'
<1>1. PICK k : k = Message("app", sv.out, 0)
  OBVIOUS
<1>2. IsMessage(k) /\ ~k.odd /\ k.type = "app"
  BY <1>1, MessageIs DEF Types
<1>3. sv \in Engines(ServerConfigs) /\ sv' = [sv EXCEPT !.said = TRUE] /\ s2c' = Append(s2c, k)
      /\ up /\ sv.at = "app" /\ UNCHANGED << n, up, damaged, cl, c2s, session, store >>
  BY <1>1 DEF ServerSays, Inv, Typed
<1>4. sv' \in Engines(ServerConfigs)
  BY <1>3 DEF Engines
<1>5. << sv'.at, sv'.cfg, sv'.id, sv'.ver, sv'.suite, sv'.ms, sv'.resumed, sv'.random, sv'.auth, sv'.odd, sv'.in, sv'.out >> =
      << sv.at, sv.cfg, sv.id, sv.ver, sv.suite, sv.ms, sv.resumed, sv.random, sv.auth, sv.odd, sv.in, sv.out >>
  BY <1>3 DEF Engines
<1> QED BY <1>2, <1>3, <1>4, <1>5, ServerWrites

LEMMA RequestRenegotiationKeeps ==
    ASSUME Inv, RequestRenegotiation
    PROVE  Inv'
<1>1. PICK k : k = Message("HR", sv.out, 0)
  OBVIOUS
<1>2. IsMessage(k) /\ ~k.odd /\ k.type = "HR"
  BY <1>1, MessageIs DEF Types
<1>3. sv \in Engines(ServerConfigs) /\ sv' = [sv EXCEPT !.at = "CH again"] /\ s2c' = Append(s2c, k)
      /\ up /\ sv.at = "app" /\ UNCHANGED << n, up, damaged, cl, c2s, session, store >>
  BY <1>1 DEF RequestRenegotiation, Inv, Typed
<1>4. sv' \in Engines(ServerConfigs) /\ sv'.at = "CH again"
  BY <1>3 DEF Engines, States
<1>5. << sv'.cfg, sv'.id, sv'.ver, sv'.suite, sv'.ms, sv'.resumed, sv'.random, sv'.auth, sv'.odd, sv'.in, sv'.out >> =
      << sv.cfg, sv.id, sv.ver, sv.suite, sv.ms, sv.resumed, sv.random, sv.auth, sv.odd, sv.in, sv.out >>
  BY <1>3 DEF Engines
<1> QED BY <1>2, <1>3, <1>4, <1>5, ServerWrites

---------------------------------------------------------------------------
(* Between connections. *)

LEMMA EmptyWires ==
    ASSUME c2s' = << >>, s2c' = << >>, ~damaged', cl'.odd = {}, sv'.odd = {}
    PROVE  Wires' /\ DamagedOnce'
  BY NoMessage DEF Wires, DamagedOnce, CleanTail, Odd

LEMMA EngineOf ==
    ASSUME NEW cfg
    PROVE  /\ Engine(cfg).cfg = cfg /\ Engine(cfg).odd = {}
           /\ Engine(cfg) = Engine(Engine(cfg).cfg)
  BY DEF Engine

LEMMA HangupKeeps ==
    ASSUME Inv, Hangup
    PROVE  Inv'
<1>1. /\ up' = FALSE /\ cl' = Engine(cl.cfg) /\ sv' = Engine(sv.cfg)
      /\ c2s' = << >> /\ s2c' = << >> /\ damaged' = FALSE
      /\ UNCHANGED << n, session, store >>
  BY DEF Hangup
<1>2. Typed /\ Cached
  BY DEF Inv
<1>3. cl.cfg \in ClientConfigs /\ sv.cfg \in ServerConfigs
  BY <1>2 DEF Typed, Engines
<1>4. cl' \in Engines(ClientConfigs) /\ sv' \in Engines(ServerConfigs)
  BY <1>1, <1>3, EngineIs
<1>5. cl' = Engine(cl'.cfg) /\ sv' = Engine(sv'.cfg) /\ cl'.odd = {} /\ sv'.odd = {}
      /\ sv'.cfg = sv.cfg
  BY <1>1, EngineOf
<1>6. Wires' /\ DamagedOnce'
  BY <1>1, <1>5, EmptyWires
<1>7. Typed'
  BY <1>1, <1>2, <1>4 DEF Typed
<1>8. Cached'
  BY <1>1, <1>2, <1>5 DEF Cached, Entry, Insists, store
<1> QED BY <1>1, <1>5, <1>6, <1>7, <1>8 DEF Inv, Down

LEMMA RestartKeeps ==
    ASSUME Inv, Restart
    PROVE  Inv'
<1>1. PICK cfg \in ServerConfigs : sv' = Engine(cfg)
  BY DEF Restart
<1>2. /\ ~up /\ up' = up /\ n' = n /\ cl' = cl /\ session' = session
      /\ c2s' = c2s /\ s2c' = s2c /\ damaged' = damaged
      /\ cache' = << >> /\ loaded' = NotFound /\ room' = room
  BY DEF Restart, wire
<1>3. Typed /\ Cached /\ Down
  BY <1>2 DEF Inv
<1>4. sv' \in Engines(ServerConfigs) /\ sv' = Engine(sv'.cfg) /\ sv'.odd = {}
  BY <1>1, EngineIs, EngineOf
<1>5. cl.odd = {}
  BY <1>3, EngineOf DEF Down
<1>6. Wires' /\ DamagedOnce'
  BY <1>2, <1>3, <1>4, <1>5, EmptyWires DEF Down
<1>7. Typed'
  BY <1>2, <1>3, <1>4 DEF Typed
<1>8. Cached'
  BY <1>2, <1>3, NoMessage DEF Cached
<1> QED BY <1>2, <1>3, <1>4, <1>6, <1>7, <1>8 DEF Inv, Down

LEMMA ForgetInCacheKeeps ==
    ASSUME Inv, ForgetInCache
    PROVE  Inv'
<1>1. /\ ~up /\ up' = up /\ n' = n /\ cl' = cl /\ sv' = sv /\ session' = session
      /\ c2s' = c2s /\ s2c' = s2c /\ damaged' = damaged /\ Cache!Forget(session.id)
  BY DEF ForgetInCache, wire
<1>2. Typed /\ Cached /\ Down /\ Wires /\ DamagedOnce
  BY <1>1 DEF Inv
<1>3. /\ Queue(cache') /\ Len(cache') <= room' /\ room' = room /\ loaded' = NotFound
      /\ \A m \in ToSet(cache') : m \in ToSet(cache) \/ \E k \in ToSet(cache) :
           m = [k EXCEPT !.on = FALSE]
  BY <1>1, <1>2, CacheForgets
<1>4. \A m \in ToSet(cache') : Entry(m)'
  <2>1. \A k : Entry(k) => Entry(k)' /\ Entry([k EXCEPT !.on = FALSE])'
    BY <1>1 DEF Entry, Insists
  <2> QED BY <1>2, <1>3, <2>1 DEF Cached
<1>5. Cached'
  BY <1>1, <1>2, <1>3, <1>4 DEF Cached
<1>6. Wires' /\ DamagedOnce'
  BY <1>1, <1>2 DEF Wires, OfClient, OfServer, DamagedOnce, Keys
<1>7. Typed'
  BY <1>1, <1>2 DEF Typed
<1> QED BY <1>1, <1>2, <1>5, <1>6, <1>7 DEF Inv, Down

LEMMA SetSessionKeeps ==
    ASSUME Inv, SetSession
    PROVE  Inv'
<1>1. /\ ~up /\ up' = up /\ n' = n /\ cl' = cl /\ sv' = sv /\ session' = NoSession
      /\ c2s' = c2s /\ s2c' = s2c /\ damaged' = damaged /\ UNCHANGED store
  BY DEF SetSession, wire
<1>2. Typed /\ Cached /\ Down /\ Wires /\ DamagedOnce
  BY <1>1 DEF Inv
<1>3. session' \in [id : 0..n, ver : Versions0, suite : Suites0, ms : -1..MaxConns, auth : Auths]
      /\ session'.id = None
  BY <1>1, <1>2, HandshakeAssumption DEF NoSession, Versions0, Suites0, Auths, None, Typed
<1>4. Typed'
  BY <1>1, <1>2, <1>3 DEF Typed
<1>5. Cached'
  BY <1>1, <1>2, <1>3 DEF Cached, Entry, Insists, store, None
<1>6. cl'.odd = {} /\ sv'.odd = {}
  BY <1>1, <1>2, EngineOf DEF Down
<1>7. Wires' /\ DamagedOnce'
  BY <1>1, <1>2, <1>6, EmptyWires DEF Down
<1> QED BY <1>1, <1>2, <1>4, <1>5, <1>7 DEF Inv, Down

LEMMA ConnectKeeps ==
    ASSUME Inv, Connect
    PROVE  Inv'
<1>1. PICK cfg \in ClientConfigs :
       /\ cl' = [Engine(cfg) EXCEPT !.at = "SH", !.id = session.id, !.ver = session.ver,
                   !.suite = session.suite, !.ms = session.ms, !.auth = session.auth,
                   !.random = << n + 1, 0 >>]
       /\ c2s' = << Message("CH", Clear, [max |-> cfg.max, id |-> session.id,
                                          suites |-> cfg.suites, random |-> n + 1]) >>
  BY DEF Connect
<1>2. /\ ~up /\ n < MaxConns /\ n' = n + 1 /\ up' = TRUE /\ sv' = [Engine(sv.cfg) EXCEPT !.at = "CH"]
      /\ s2c' = s2c /\ damaged' = damaged /\ session' = session /\ UNCHANGED store
  BY DEF Connect
<1>3. Typed /\ Cached /\ Down
  BY <1>2 DEF Inv
<1>4. MaxConns \in Nat /\ n \in Nat /\ n + 1 \in 0..MaxConns /\ sv.cfg \in ServerConfigs
      /\ session.id \in 0..n
  BY <1>2, <1>3, HandshakeAssumption DEF Typed, Engines
<1>5. cl' \in Engines(ClientConfigs)
  <2>1. Engine(cfg) \in Engines(ClientConfigs)
    BY EngineIs
  <2>2. /\ session.id \in 0..MaxConns /\ session.ver \in Versions0 /\ session.suite \in Suites0
        /\ session.ms \in -1..MaxConns /\ session.auth \in Auths
    BY <1>3, <1>4 DEF Typed
  <2> DEFINE z == Engine(cfg)
  <2>3. z \in Engines(ClientConfigs) /\ << n + 1, 0 >> \in Int \X Int
    BY <1>4, <2>1
  <2> HIDE DEF z
  <2>4. [z EXCEPT !.at = "SH", !.id = session.id, !.ver = session.ver,
                  !.suite = session.suite, !.ms = session.ms, !.auth = session.auth,
                  !.random = << n + 1, 0 >>] \in Engines(ClientConfigs)
    BY <2>2, <2>3 DEF Engines, States
  <2> QED BY <1>1, <2>4 DEF z
<1>6. /\ cl'.at = "SH" /\ cl'.id = session.id /\ cl'.ver = session.ver
      /\ cl'.suite = session.suite /\ cl'.ms = session.ms /\ cl'.auth = session.auth
      /\ cl'.random = << n + 1, 0 >> /\ cl'.cfg = cfg /\ cl'.out = Clear /\ ~cl'.resumed
      /\ cl'.odd = {}
  BY <1>1 DEF Engine
<1>7. sv' \in Engines(ServerConfigs)
  <2>1. Engine(sv.cfg) \in Engines(ServerConfigs)
    BY <1>4, EngineIs
  <2> QED BY <1>2, <2>1 DEF Engines, States
<1>8. /\ sv'.at = "CH" /\ sv'.cfg = sv.cfg /\ sv'.id = None /\ sv'.out = Clear /\ ~sv'.resumed
      /\ sv'.odd = {} /\ sv'.auth = "none"
  BY <1>2 DEF Engine
<1>9. PICK m : m = Message("CH", Clear, [max |-> cfg.max, id |-> session.id,
                                         suites |-> cfg.suites, random |-> n + 1])
  OBVIOUS
<1>10. /\ IsMessage(m) /\ ~m.odd /\ m.type = "CH"
       /\ m.v = [max |-> cfg.max, id |-> session.id, suites |-> cfg.suites, random |-> n + 1]
  BY <1>9, MessageIs DEF Types
<1>11. Queue(c2s') /\ ToSet(c2s') = {m} /\ Head(c2s') = m /\ Tail(c2s') = << >> /\ Len(c2s') = 1
  BY <1>1, <1>9, OneMessage
<1>12. Queue(s2c') /\ ToSet(s2c') = {} /\ s2c' = << >>
  BY <1>2, <1>3, NoMessage DEF Down
<1>13. OfClient(m)'
  <2>1. m.v \in Hellos
    BY <1>4, <1>10, HandshakeAssumption DEF Hellos
  <2> QED BY <1>2, <1>6, <1>8, <1>10, <2>1 DEF OfClient
<1>14. Wires' /\ DamagedOnce'
  BY <1>2, <1>3, <1>6, <1>8, <1>10, <1>11, <1>12, <1>13, NoMessage
     DEF Wires, DamagedOnce, CleanTail, Odd, Down
<1>15. Typed'
  <2>1. session' \in [id : 0..n', ver : Versions0, suite : Suites0, ms : -1..MaxConns, auth : Auths]
    BY <1>2, <1>3, <1>4 DEF Typed
  <2> QED BY <1>2, <1>3, <1>4, <1>5, <1>7, <2>1 DEF Typed
<1>16. Cached'
  <2>1. \A e \in ToSet(cache) : Entry(e)'
    <3> SUFFICES ASSUME NEW e \in ToSet(cache) PROVE Entry(e)'
      OBVIOUS
    <3>1. Entry(e)
      BY <1>3 DEF Cached
    <3>2. e \in [id : 1..n', par : Params, on : BOOLEAN]
      BY <1>2, <1>4, <3>1 DEF Entry
    <3> QED BY <1>2, <1>8, <3>1, <3>2 DEF Entry, Insists
  <2> QED BY <1>2, <1>3, <2>1 DEF Cached, store
<1>17. ClientIs'
  BY <1>2, <1>4, <1>6 DEF ClientIs, Answer, Sent, OfSession
<1>18. ServerIs'
  BY <1>2, <1>6, <1>8, <1>11, <1>12 DEF ServerIs, Answer, Answering, Sent
<1>19. Stored'
  <2>1. session'.id # n'
    BY <1>2, <1>4
  <2>2. \A e \in ToSet(cache') : e.id # n'
    BY <1>2, <1>3, <1>4 DEF Cached, Entry, store
  <2> QED BY <2>1, <2>2 DEF Stored
<1>20. Up'
  <2>1. n' > 0 /\ cl'.at # "app" /\ sv'.at \notin {"app", "CH again"}
    BY <1>2, <1>4, <1>6, <1>8
  <2> QED BY <1>17, <1>18, <1>19, <2>1 DEF Up
<1> QED BY <1>2, <1>14, <1>15, <1>16, <1>20 DEF Inv

---------------------------------------------------------------------------
(* The wire. *)

(* What a damaged message may carry. *)
LEMMA DamagedIs ==
    ASSUME NEW m, NEW v \in Damaged(m),
           m.type = "CH" => m.v \in Hellos,
           m.type = "SH" => m.v \in Answered /\ m.v.random # 0
    PROVE  /\ m.type = "CH" => v \in Hellos /\ v.id \in {None, m.v.id}
           /\ m.type = "SH" => v \in Answered /\ v.random # 0
           /\ m.type = "Cert" => v \in {m.v, "bad"}
           /\ m.type = "CKE" => v \in {m.v, -1}
<1>1. CASE m.type = "CH"
  <2>1. m.v \in Hellos
    BY <1>1
  <2>2. \/ v = m.v
        \/ \E x \in 1..(m.v.max - 1) : v = [m.v EXCEPT !.max = x]
        \/ v = [m.v EXCEPT !.id = None]
        \/ v = [m.v EXCEPT !.suites = SubSeq(@, 2, Len(@))]
        \/ v = [m.v EXCEPT !.random = -1]
    BY <1>1 DEF Damaged
  <2>3. SubSeq(m.v.suites, 2, Len(m.v.suites)) \in Seq(Suites)
    BY <2>1 DEF Hellos
  <2>4. \A x \in 1..(m.v.max - 1) : x \in Versions
    BY <2>1 DEF Hellos, Versions
  <2>5. v \in Hellos
    <3>1. m.v \in Hellos /\ None \in 0..MaxConns /\ -1 \in Int
      BY <2>1, HandshakeAssumption DEF None
    <3>2. \A x \in 1..(m.v.max - 1) : [m.v EXCEPT !.max = x] \in Hellos
      BY <2>4, <3>1 DEF Hellos
    <3>3. [m.v EXCEPT !.id = None] \in Hellos /\ [m.v EXCEPT !.random = -1] \in Hellos
      BY <3>1 DEF Hellos
    <3>4. [m.v EXCEPT !.suites = SubSeq(@, 2, Len(@))] \in Hellos
      BY <2>3, <3>1 DEF Hellos
    <3> QED BY <2>2, <3>1, <3>2, <3>3, <3>4
  <2>6. v.id \in {None, m.v.id}
    BY <2>1, <2>2 DEF Hellos
  <2> QED BY <1>1, <2>5, <2>6
<1>2. CASE m.type = "SH"
  <2>1. m.v \in Answered /\ m.v.random # 0
    BY <1>2
  <2>2. \/ v = m.v
        \/ \E x \in Versions : v = [m.v EXCEPT !.ver = x]
        \/ \E x \in 0..MaxConns : v = [m.v EXCEPT !.id = x]
        \/ \E s \in Suites : v = [m.v EXCEPT !.suite = s]
        \/ v = [m.v EXCEPT !.random = -1]
    BY <1>2 DEF Damaged
  <2> QED BY <1>2, <2>1, <2>2 DEF Answered
<1>3. CASE m.type \in {"Cert", "CKE"}
  BY <1>3 DEF Damaged
<1> QED BY <1>1, <1>2, <1>3

LEMMA Swapped ==
    ASSUME NEW q, Queue(q), q # << >>, NEW m
    PROVE  LET r == << m >> \o Tail(q)
           IN  /\ Queue(r) /\ ToSet(r) = {m} \cup ToSet(Tail(q)) /\ r # << >>
               /\ Head(r) = m /\ Tail(r) = Tail(q) /\ Len(r) = Len(q)
               /\ ToSet(Tail(q)) \subseteq ToSet(q)
<1> DEFINE one == << m >>
<1>1. Queue(one) /\ ToSet(one) = {m} /\ Head(one) = m /\ Tail(one) = << >> /\ one # << >>
      /\ Len(one) = 1
  BY OneMessage
<1> HIDE DEF one
<1>2. Queue(Tail(q)) /\ ToSet(Tail(q)) \subseteq ToSet(q) /\ Len(Tail(q)) = Len(q) - 1
  BY HeadTailOf
<1>3. /\ Queue(one \o Tail(q)) /\ ToSet(one \o Tail(q)) = {m} \cup ToSet(Tail(q))
      /\ one \o Tail(q) # << >> /\ Head(one \o Tail(q)) = m
      /\ Tail(one \o Tail(q)) = << >> \o Tail(q)
  <2> DEFINE rest == Tail(q)
  <2>1. Queue(rest)
    BY <1>2
  <2> HIDE DEF rest
  <2>2. Queue(one \o rest) /\ ToSet(one \o rest) = {m} \cup ToSet(rest)
    BY <1>1, <2>1, Joined
  <2>3. one \o rest # << >> /\ Head(one \o rest) = Head(one) /\ Tail(one \o rest) = Tail(one) \o rest
    BY <1>1, <2>1, Joined
  <2>4. Head(one \o rest) = m /\ Tail(one \o rest) = << >> \o rest
    BY <1>1, <2>3
  <2> QED BY <2>2, <2>3, <2>4 DEF rest
<1>4. << >> \o Tail(q) = Tail(q)
  BY <1>2, NoMessage, Joined
<1>5. Len(one \o Tail(q)) = Len(q)
  <2>1. Queue(one \o Tail(q)) /\ Len(Tail(one \o Tail(q))) = Len(one \o Tail(q)) - 1
    BY <1>3, HeadTailOf
  <2>2. Len(one \o Tail(q)) \in Nat /\ Len(q) \in Nat
    BY <2>1 DEF Queue
  <2> QED BY <1>2, <1>3, <1>4, <2>1, <2>2
<1> QED BY <1>2, <1>3, <1>4, <1>5 DEF one

LEMMA DamageKeeps ==
    ASSUME Inv, Damage
    PROVE  Inv'
<1>1. /\ up /\ ~damaged /\ damaged' = TRUE
      /\ n' = n /\ up' = up /\ cl' = cl /\ sv' = sv /\ session' = session /\ UNCHANGED store
  BY DEF Damage
<1>2. Typed /\ Wires /\ DamagedOnce /\ Cached /\ Up
  BY <1>1 DEF Inv
<1>3. /\ ~Odd(c2s) /\ ~Odd(s2c) /\ CleanTail(c2s) /\ CleanTail(s2c) /\ cl.odd = {} /\ sv.odd = {}
  BY <1>1, <1>2 DEF DamagedOnce
<1>4. Typed' /\ Cached' /\ ClientIs' /\ Stored'
  BY <1>1, <1>2
     DEF Typed, Cached, Entry, Insists, store, Up, ClientIs, Stored, Answer, Answering, Sent,
         OfSession, Keys
<1>5. cl'.at = "app" \/ sv'.at \in {"app", "CH again"} => Agreed'
  BY <1>1, <1>2 DEF Up, Agreed, Sent, Session
<1>6. \A m : (OfClient(m) => OfClient(m)') /\ (OfServer(m) => OfServer(m)')
  BY <1>1 DEF OfClient, OfServer, Keys
<1>7. CASE \E v \in Damaged(Head(c2s)) :
             /\ c2s' = << [Head(c2s) EXCEPT !.v = v, !.odd = TRUE] >> \o Tail(c2s)
             /\ c2s # << >> /\ Head(c2s).key = Clear /\ s2c' = s2c
  <2>1. PICK v \in Damaged(Head(c2s)) :
             /\ c2s' = << [Head(c2s) EXCEPT !.v = v, !.odd = TRUE] >> \o Tail(c2s)
             /\ c2s # << >> /\ Head(c2s).key = Clear /\ s2c' = s2c
    BY <1>7
  <2> DEFINE h == Head(c2s)
  <2>2. PICK m : m = [h EXCEPT !.v = v, !.odd = TRUE]
    OBVIOUS
  <2>3. OfClient(h) /\ IsMessage(h)
    BY <1>1, <1>2, <2>1, ServerReads DEF Inv, Down
  <2>4. h.key = Clear /\ h.type # "Fin"
    <3>1. Keys(cl) # Clear
      BY <1>2, KeysAre DEF Typed
    <3> QED BY <2>1, <2>3, <3>1 DEF OfClient
  <2>5. /\ h.type = "CH" => v \in Hellos /\ v.id \in {None, h.v.id}
        /\ h.type = "Cert" => v \in {h.v, "bad"}
        /\ h.type = "CKE" => v \in {h.v, -1}
    <3>1. h.type = "CH" => h.v \in Hellos
      BY <2>3 DEF OfClient
    <3>2. h.type # "SH"
      BY <2>3 DEF OfClient
    <3> QED BY <2>1, <3>1, <3>2, DamagedIs
  <2> HIDE DEF h
  <2>6. IsMessage(m) /\ m.odd /\ m.type = h.type /\ m.v = v
    BY <2>2, <2>3 DEF IsMessage
  <2>7. OfClient(m)
    <3>1. -1 \in -1..MaxConns
      BY HandshakeAssumption
    <3> QED BY <2>3, <2>4, <2>5, <2>6, <3>1 DEF OfClient
  <2>8. /\ Queue(c2s') /\ ToSet(c2s') = {m} \cup ToSet(Tail(c2s)) /\ c2s' # << >>
        /\ Head(c2s') = m /\ Tail(c2s') = Tail(c2s) /\ Len(c2s') = Len(c2s)
        /\ ToSet(Tail(c2s)) \subseteq ToSet(c2s)
    <3>1. Queue(c2s) /\ c2s' = << m >> \o Tail(c2s)
      BY <1>2, <2>1, <2>2 DEF Wires, h
    <3> QED BY <2>1, <3>1, Swapped
  <2>9. Wires'
    BY <1>2, <1>6, <2>1, <2>7, <2>8 DEF Wires
  <2>10. DamagedOnce'
    BY <1>1, <1>3, <2>1, <2>8 DEF DamagedOnce, CleanTail, Odd
  <2>11. ServerIs'
    BY <1>1, <1>2, <2>1, <2>8 DEF Up, ServerIs, Answer, Answering, Sent, Insists, Keys
  <2> QED BY <1>1, <1>2, <1>4, <1>5, <2>9, <2>10, <2>11 DEF Inv, Up
<1>8. CASE \E v \in Damaged(Head(s2c)) :
             /\ s2c' = << [Head(s2c) EXCEPT !.v = v, !.odd = TRUE] >> \o Tail(s2c)
             /\ s2c # << >> /\ Head(s2c).key = Clear /\ c2s' = c2s
  <2>1. PICK v \in Damaged(Head(s2c)) :
             /\ s2c' = << [Head(s2c) EXCEPT !.v = v, !.odd = TRUE] >> \o Tail(s2c)
             /\ s2c # << >> /\ Head(s2c).key = Clear /\ c2s' = c2s
    BY <1>8
  <2> DEFINE h == Head(s2c)
  <2>2. PICK m : m = [h EXCEPT !.v = v, !.odd = TRUE]
    OBVIOUS
  <2>3. OfServer(h) /\ IsMessage(h)
    BY <1>1, <1>2, <2>1, ClientReads DEF Inv, Down
  <2>4. h.key = Clear /\ h.type # "Fin"
    <3>1. Keys(sv) # Clear
      BY <1>2, KeysAre DEF Typed
    <3> QED BY <2>1, <2>3, <3>1 DEF OfServer
  <2>5. /\ h.type = "SH" => v \in Answered /\ v.random # 0
        /\ h.type = "Cert" => v \in {h.v, "bad"}
    <3>1. h.type = "SH" => h.v \in Answered /\ h.v.random # 0
      BY <2>3 DEF OfServer
    <3>2. h.type # "CH"
      BY <2>3 DEF OfServer
    <3> QED BY <2>1, <3>1, <3>2, DamagedIs
  <2> HIDE DEF h
  <2>6. IsMessage(m) /\ m.odd /\ m.type = h.type /\ m.v = v
    BY <2>2, <2>3 DEF IsMessage
  <2>7. OfServer(m)
    BY <2>3, <2>4, <2>5, <2>6 DEF OfServer
  <2>8. /\ Queue(s2c') /\ ToSet(s2c') = {m} \cup ToSet(Tail(s2c)) /\ s2c' # << >>
        /\ Head(s2c') = m /\ Tail(s2c') = Tail(s2c) /\ Len(s2c') = Len(s2c)
        /\ ToSet(Tail(s2c)) \subseteq ToSet(s2c)
    <3>1. Queue(s2c) /\ s2c' = << m >> \o Tail(s2c)
      BY <1>2, <2>1, <2>2 DEF Wires, h
    <3> QED BY <2>1, <3>1, Swapped
  <2>9. Wires'
    BY <1>2, <1>6, <2>1, <2>7, <2>8 DEF Wires
  <2>10. DamagedOnce'
    BY <1>1, <1>3, <2>1, <2>8 DEF DamagedOnce, CleanTail, Odd
  <2>11. ServerIs'
    BY <1>1, <1>2, <2>1, <2>8 DEF Up, ServerIs, Answer, Answering, Sent, Insists, Keys
  <2> QED BY <1>1, <1>2, <1>4, <1>5, <2>9, <2>10, <2>11 DEF Inv, Up
<1> QED BY <1>7, <1>8 DEF Damage

---------------------------------------------------------------------------
(* The theorems. *)

LEMMA InitHolds ==
    ASSUME Init
    PROVE  Inv
<1>1. PICK c \in ClientConfigs, s \in ServerConfigs : cl = Engine(c) /\ sv = Engine(s)
  BY DEF Init
<1>2. /\ n = 0 /\ up = FALSE /\ damaged = FALSE /\ c2s = << >> /\ s2c = << >>
      /\ session = NoSession /\ room \in Rooms /\ cache = << >> /\ loaded = NotFound
  BY DEF Init
<1>3. cl \in Engines(ClientConfigs) /\ sv \in Engines(ServerConfigs)
  BY <1>1, EngineIs
<1>4. cl.odd = {} /\ sv.odd = {} /\ cl = Engine(cl.cfg) /\ sv = Engine(sv.cfg)
  BY <1>1, EngineOf
<1>5. Typed
  <2>1. MaxConns \in Nat /\ n \in 0..MaxConns /\ 0 \in 0..n /\ 0 \in -1..MaxConns
    BY <1>2, HandshakeAssumption
  <2>2. NoSession \in [id : 0..n, ver : Versions0, suite : Suites0, ms : -1..MaxConns, auth : Auths]
    BY <2>1 DEF NoSession, Versions0, Suites0, Auths, None
  <2> QED BY <1>2, <1>3, <2>1, <2>2 DEF Typed
<1>6. Wires /\ DamagedOnce
  BY <1>2, <1>4, NoMessage DEF Wires, DamagedOnce, CleanTail, Odd
<1>7. Cached
  <2>1. room \in Nat /\ Len(cache) = 0
    BY <1>2, HandshakeAssumption
  <2> QED BY <1>2, <2>1, NoMessage DEF Cached, NoSession, None
<1> QED BY <1>2, <1>4, <1>5, <1>6, <1>7 DEF Inv, Down

LEMMA StepKeeps ==
    ASSUME Inv, [Next]_vars
    PROVE  Inv'
<1>1. CASE ClientStep
  BY <1>1, ClientStepKeeps
<1>2. CASE ServerStep
  BY <1>2, ServerStepKeeps
<1>3. CASE Applications
  BY <1>3, ConnectKeeps, HangupKeeps, ClientSaysKeeps, ServerSaysKeeps, RequestRenegotiationKeeps,
     RestartKeeps, ForgetInCacheKeeps, SetSessionKeeps DEF Applications
<1>4. CASE Damage
  BY <1>4, DamageKeeps
<1>5. CASE UNCHANGED vars
  <2>1. /\ n' = n /\ up' = up /\ damaged' = damaged /\ cl' = cl /\ sv' = sv /\ c2s' = c2s
        /\ s2c' = s2c /\ session' = session /\ room' = room /\ cache' = cache /\ loaded' = loaded
    BY <1>5 DEF vars, wire, store
  <2>2. Typed' /\ DamagedOnce' /\ Cached' /\ (~up' => Down')
    BY <2>1 DEF Inv, Typed, DamagedOnce, CleanTail, Odd, Cached, Entry, Insists, Down
  <2>3. Wires'
    <3>1. \A m : (OfClient(m) => OfClient(m)') /\ (OfServer(m) => OfServer(m)')
      BY <2>1 DEF OfClient, OfServer, Keys
    <3> QED BY <2>1, <3>1 DEF Inv, Wires
  <2>4. Up => Up'
    <3>1. Answer' = Answer /\ Answering' = Answering /\ Insists' = Insists
          /\ Sent(cl)' = Sent(cl) /\ Sent(sv)' = Sent(sv) /\ Keys(cl)' = Keys(cl) /\ Keys(sv)' = Keys(sv)
          /\ OfSession(cl)' = OfSession(cl) /\ Session(cl)' = Session(cl) /\ Session(sv)' = Session(sv)
      BY <2>1 DEF Answer, Answering, Insists, Sent, Keys, OfSession, Session
    <3>2. ClientIs => ClientIs'
      BY <2>1, <3>1 DEF ClientIs
    <3>3. ServerIs => ServerIs'
      BY <2>1, <3>1 DEF ServerIs
    <3>4. (Stored => Stored') /\ (Agreed => Agreed')
      BY <2>1, <3>1 DEF Stored, Agreed
    <3> QED BY <2>1, <3>2, <3>3, <3>4 DEF Up
  <2> QED BY <2>1, <2>2, <2>3, <2>4 DEF Inv
<1> QED BY <1>1, <1>2, <1>3, <1>4, <1>5 DEF Next

(* The inductive invariant, for any configurations, any restarts between   *)
(* connections, and any one message of a connection damaged.               *)
THEOREM HandshakeSound == Spec => []Inv
<1>1. Init => Inv
  BY InitHolds
<1>2. Inv /\ [Next]_vars => Inv'
  BY StepKeeps
<1> QED BY <1>1, <1>2, PTL DEF Spec

(* Every variable keeps its type; a session is of a connection made so     *)
(* far; the cache never holds more than it has room for, and only whole    *)
(* sessions (ssl_lru.c).                                                   *)
THEOREM HandshakeTypeCorrect == Spec => []TypeOK
<1>1. Inv => TypeOK
  <2> SUFFICES ASSUME Inv PROVE TypeOK
    OBVIOUS
  <2>1. Typed /\ Cached
    BY DEF Inv
  <2>2. \A x \in {cl, sv} :
       /\ x.at \in States /\ x.ver \in Versions \cup {None}
       /\ x.suite \in Suites \cup {"none"} /\ x.id \in 0..MaxConns /\ x.ms \in -1..MaxConns
    BY <2>1 DEF Typed, Engines, Versions0, Suites0
  <2>3. \A i \in DOMAIN cache : cache[i].id \in 1..n /\ cache[i].par \in Params
    BY <2>1 DEF Cached, Entry, ToSet
  <2> QED BY <2>1, <2>2, <2>3 DEF TypeOK, Typed, Cached
<1> QED BY <1>1, HandshakeSound, PTL

(* Whoever goes over to application data has the session of the other      *)
(* side, resumed or new, whatever happened to a message on the way; and a  *)
(* session in the cache is one the client knows by the same ID             *)
(* (read-Finished and br_ssl_engine_set_session_parameters).               *)
THEOREM HandshakeAgreement == Spec => []Agreement
<1>1. Inv => Agreement
  <2> SUFFICES ASSUME Inv PROVE Agreement
    OBVIOUS
  <2>1. Cached
    BY DEF Inv
  <2>2. \A i \in DOMAIN cache :
       /\ cache[i].par.ms = cache[i].id
       /\ cache[i].id = session.id =>
            /\ cache[i].par.ver = session.ver /\ cache[i].par.suite = session.suite
            /\ cache[i].par.ms = session.ms
    BY <2>1 DEF Cached, Entry, ToSet
  <2>3. ASSUME up, cl.at = "app" \/ sv.at \in {"app", "CH again"}
        PROVE  /\ Session(cl) = Session(sv)
               /\ ~cl.resumed => << cl.ver, cl.suite >> = Best(cl.cfg, sv.cfg)
    <3>1. Up /\ Agreed /\ ServerIs
      BY <2>3 DEF Inv, Up
    <3>2. Session(cl) = Session(sv) /\ sv.odd = {} /\ Answering
      BY <3>1 DEF Agreed, ServerIs
    <3>3. cl.ver = sv.ver /\ cl.suite = sv.suite /\ cl.resumed = sv.resumed
      BY <3>2 DEF Session
    <3> QED BY <3>1, <3>2, <3>3 DEF ServerIs
  <2> QED BY <2>2, <2>3 DEF Agreement
<1> QED BY <1>1, HandshakeSound, PTL

(* Application data only flows between ends that proved who they are: the  *)
(* server always, the client where the server insists (read-Certificate,   *)
(* read-CertificateVerify, and the session either end resumes).            *)
THEOREM HandshakeAuthenticated == Spec => []Authenticated
<1>1. Inv => Authenticated
  BY DEF Inv, Up, ClientIs, ServerIs, Insists, Authenticated
<1> QED BY <1>1, HandshakeSound, PTL


---------------------------------------------------------------------------
(* Two ends that have something in common.  While no message is damaged,   *)
(* what is under way takes the reader from where it is to where the writer *)
(* expects it: a queue is a run of the reader's automaton.                 *)

Path(q, R, p, e) ==
  \E f \in [0..Len(q) -> States] :
    /\ f[0] = p /\ f[Len(q)] = e
    /\ \A i \in 1..Len(q) : << f[i - 1], q[i].type, f[i] >> \in R

Rule(x) == x.suite \in Tls12Only => x.ver = 3

Lawful ==
  /\ up /\ Answer => Rule(cl)
  /\ session.id # None => Rule(session)
  /\ sv.resumed => Answering

Common ==
  /\ cl.cfg.min <= Least(cl.cfg.max, sv.cfg.max) /\ sv.cfg.min <= Least(cl.cfg.max, sv.cfg.max)
  /\ sv.cfg.cert = "good"
  /\ \E suite \in ToSet(cl.cfg.suites) \cap sv.cfg.suites :
       suite \in Tls12Only => Least(cl.cfg.max, sv.cfg.max) = 3
  /\ sv.cfg.asks => sv.cfg.lenient \/ cl.cfg.cert = "good"

Meets == Common /\ (sv.resumed => session.ver >= cl.cfg.min)

ClientRoad ==
  { << "SH", "SH", IF sv.resumed THEN "CCS" ELSE "Cert" >>,
    << "Cert", "Cert", IF sv.suite \in Signed THEN "SKE" ELSE "CR" >>,
    << "SKE", "SKE", "CR" >>,
    IF sv.cfg.asks THEN << "CR", "CR", "SHD" >> ELSE << "CR", "SHD", "CCS" >>,
    << "SHD", "SHD", "CCS" >>,
    << "CCS", "CCS", "Fin" >>, << "Fin", "Fin", "app" >>,
    << "app", "app", "app" >>, << "app", "HR", "app" >> }

Proves == sv.cfg.asks /\ cl.cfg.cert # "empty"

ServerRoad ==
  { << "Cert", "Cert", "CKE" >>, << "CKE", "CKE", IF Proves THEN "CV" ELSE "CCS" >>,
    << "CV", "CV", "CCS" >>,
    << "CCS", "CCS", "Fin" >>, << "Fin", "Fin", "app" >>,
    << "app", "app", "app" >>, << "app", "no_renegotiation", "app" >> }

ServerStart == IF sv.resumed THEN "CCS" ELSE IF sv.cfg.asks THEN "Cert" ELSE "CKE"
Done == {"app", "CH again", "failed"}
ServerPlace == IF sv.at \in Done THEN "app" ELSE sv.at

Ways ==
  sv.at # "CH" =>
    /\ Path(s2c, ClientRoad, cl.at, IF Sent(sv) THEN "app" ELSE "CCS")
    /\ Path(c2s, ServerRoad, ServerPlace, IF Sent(cl) THEN "app" ELSE ServerStart)

ForClient(m) ==
  /\ m.key = IF m.type \in {"Fin", "app", "HR"} THEN Keys(sv) ELSE Clear
  /\ m.type \in {"CCS", "Fin", "app", "HR"} => Sent(sv)
  /\ m.type = "Cert" => m.v = sv.cfg.cert
  /\ m.type = "SKE" => m.v = sv.random
  /\ m.type = "HR" => sv.at \in {"CH again", "failed"}

ForServer(m) ==
  /\ m.key = IF m.type \in {"Fin", "app", "no_renegotiation"} THEN Keys(cl) ELSE Clear
  /\ IF m.type = "CH" THEN m.v.random = n ELSE Sent(cl)
  /\ m.type = "Cert" => m.v = cl.cfg.cert
  /\ m.type = "CKE" => m.v = n
  /\ m.type = "CV" => m.v = {}
  /\ m.type \in {"app", "no_renegotiation"} => cl.at = "app"
  /\ m.type = "no_renegotiation" => sv.at \in {"CH again", "failed"}

ClientFine ==
  /\ cl.at # "failed" /\ cl.random[1] = n
  /\ cl.in = IF cl.at \in {"Fin", "app"} THEN Keys(cl) ELSE Clear
  /\ Sent(cl) => cl.out = Keys(cl)
  /\ cl.at \in {"SH", "Cert", "SKE", "CR"} => ~cl.asked
  /\ cl.at = "SHD" => cl.asked /\ sv.cfg.asks

ServerFine ==
  /\ Answering \/ sv.at = "CH"
  /\ sv.at = "failed" => cl.at = "app"
  /\ Answering => sv.random = << n, n >>
  /\ sv.at # "failed" => sv.in = IF sv.at \in {"Fin", "app", "CH again"} THEN Keys(sv) ELSE Clear
  /\ Sent(sv) => sv.out = Keys(sv)
  /\ sv.resumed => << sv.id, sv.ver, sv.suite, sv.ms >> = << cl.id, cl.ver, cl.suite, cl.ms >>
  /\ sv.resumed => sv.ver <= cl.cfg.max /\ sv.suite \in ToSet(cl.cfg.suites)
  /\ ~sv.resumed /\ (Sent(sv) \/ sv.at \in {"CV", "CCS", "Fin"}) => sv.ms = n
  /\ sv.at = "Cert" => sv.cfg.asks
  /\ sv.at = "CKE" => sv.auth = IF sv.cfg.asks THEN cl.cfg.cert ELSE "none"

Fine ==
  /\ ClientFine /\ ServerFine /\ Ways
  /\ \A m \in ToSet(s2c) : ForClient(m)
  /\ \A m \in ToSet(c2s) : ForServer(m)

Smooth == up /\ ~damaged /\ Meets => Fine

---------------------------------------------------------------------------
(* Runs. *)

LEMMA PathOfNone ==
    ASSUME NEW R, NEW p, NEW e
    PROVE  Path(<< >>, R, p, e) <=> p = e /\ p \in States
<1>1. Len(<< >>) = 0 /\ 0..0 = {0}
  OBVIOUS
<1>2. ASSUME Path(<< >>, R, p, e) PROVE p = e /\ p \in States
  BY <1>1, <1>2 DEF Path
<1>3. ASSUME p = e, p \in States PROVE Path(<< >>, R, p, e)
  <2> DEFINE f == [i \in 0..Len(<< >>) |-> p]
  <2>1. f \in [0..Len(<< >>) -> States] /\ f[0] = p /\ f[Len(<< >>)] = e
    BY <1>1, <1>3
  <2>2. \A i \in 1..Len(<< >>) : << f[i - 1], << >>[i].type, f[i] >> \in R
    BY <1>1
  <2> QED BY <2>1, <2>2 DEF Path
<1> QED BY <1>2, <1>3

LEMMA PathTail ==
    ASSUME NEW q, Queue(q), q # << >>, NEW R, NEW p, NEW e, Path(q, R, p, e)
    PROVE  p \in States /\ \E r \in States :
             << p, Head(q).type, r >> \in R /\ Path(Tail(q), R, r, e)
<1>1. PICK f \in [0..Len(q) -> States] :
        /\ f[0] = p /\ f[Len(q)] = e
        /\ \A i \in 1..Len(q) : << f[i - 1], q[i].type, f[i] >> \in R
  BY DEF Path
<1>2. /\ Len(q) \in Nat /\ Len(q) > 0 /\ Head(q) = q[1] /\ Len(Tail(q)) = Len(q) - 1
      /\ \A i \in 1..Len(q)-1 : Tail(q)[i] = q[i + 1]
  BY DEF Queue
<1>3. f[0] \in States /\ f[1] \in States /\ << f[0], q[1].type, f[1] >> \in R
  <2>1. 0 \in 0..Len(q) /\ 1 \in 0..Len(q) /\ 1 \in 1..Len(q) /\ 1 - 1 = 0
    BY <1>2
  <2>2. << f[1 - 1], q[1].type, f[1] >> \in R
    BY <1>1, <2>1
  <2> QED BY <1>1, <2>1, <2>2
<1> DEFINE g == [i \in 0..Len(Tail(q)) |-> f[i + 1]]
<1>4. g \in [0..Len(Tail(q)) -> States]
  <2>1. \A i \in 0..Len(Tail(q)) : i + 1 \in 0..Len(q)
    BY <1>2
  <2> QED BY <1>1, <2>1
<1>5. g[0] = f[1] /\ g[Len(Tail(q))] = e
  BY <1>1, <1>2
<1>6. ASSUME NEW i \in 1..Len(Tail(q))
      PROVE  << g[i - 1], Tail(q)[i].type, g[i] >> \in R
  <2>1. /\ i \in 1..Len(q)-1 /\ i + 1 \in 1..Len(q) /\ i - 1 \in 0..Len(Tail(q))
        /\ i \in 0..Len(Tail(q)) /\ (i + 1) - 1 = i /\ (i - 1) + 1 = i
    BY <1>2, <1>6
  <2>2. << f[(i + 1) - 1], q[i + 1].type, f[i + 1] >> \in R
    BY <1>1, <2>1
  <2>3. g[i - 1] = f[i] /\ g[i] = f[i + 1] /\ Tail(q)[i] = q[i + 1]
    BY <1>2, <2>1
  <2> QED BY <2>1, <2>2, <2>3
<1>7. Path(Tail(q), R, f[1], e)
  BY <1>4, <1>5, <1>6 DEF Path
<1> QED BY <1>1, <1>2, <1>3, <1>7

LEMMA PathJoined ==
    ASSUME NEW q, Queue(q), NEW r, Queue(r), NEW R, NEW p, NEW m, NEW e,
           Path(q, R, p, m), Path(r, R, m, e)
    PROVE  Path(q \o r, R, p, e)
<1>1. PICK f \in [0..Len(q) -> States] :
        /\ f[0] = p /\ f[Len(q)] = m
        /\ \A i \in 1..Len(q) : << f[i - 1], q[i].type, f[i] >> \in R
  BY DEF Path
<1>2. PICK g \in [0..Len(r) -> States] :
        /\ g[0] = m /\ g[Len(r)] = e
        /\ \A i \in 1..Len(r) : << g[i - 1], r[i].type, g[i] >> \in R
  BY DEF Path
<1>3. /\ Len(q) \in Nat /\ Len(r) \in Nat /\ Len(q \o r) = Len(q) + Len(r)
      /\ \A i \in 1..(Len(q) + Len(r)) : (q \o r)[i] = IF i <= Len(q) THEN q[i] ELSE r[i - Len(q)]
  <2> DEFINE S == ToSet(q) \cup ToSet(r)
  <2>1. q \in Seq(S) /\ r \in Seq(S)
    BY SeqMonotonic DEF Queue
  <2> HIDE DEF S
  <2> QED BY <2>1
<1> DEFINE h == [i \in 0..(Len(q) + Len(r)) |-> IF i <= Len(q) THEN f[i] ELSE g[i - Len(q)]]
<1>4. h \in [0..(Len(q) + Len(r)) -> States]
  <2>1. \A i \in 0..(Len(q) + Len(r)) :
          IF i <= Len(q) THEN i \in 0..Len(q) ELSE i - Len(q) \in 0..Len(r)
    BY <1>3
  <2> QED BY <1>1, <1>2, <2>1
<1>5. h[0] = p /\ h[Len(q) + Len(r)] = e
  BY <1>1, <1>2, <1>3
<1>6. ASSUME NEW i \in 1..(Len(q) + Len(r))
      PROVE  << h[i - 1], (q \o r)[i].type, h[i] >> \in R
  <2>1. CASE i <= Len(q)
    <3>1. i \in 1..Len(q) /\ i - 1 <= Len(q) /\ i - 1 \in 0..(Len(q) + Len(r)) /\ i \in 0..(Len(q) + Len(r))
      BY <1>3, <1>6, <2>1
    <3>2. h[i - 1] = f[i - 1] /\ h[i] = f[i] /\ (q \o r)[i] = q[i]
      BY <1>3, <2>1, <3>1
    <3> QED BY <1>1, <3>1, <3>2
  <2>2. CASE ~(i <= Len(q))
    <3> DEFINE j == i - Len(q)
    <3>1. /\ j \in 1..Len(r) /\ i - 1 \in 0..(Len(q) + Len(r)) /\ i \in 0..(Len(q) + Len(r))
          /\ (i - 1) - Len(q) = j - 1
      BY <1>3, <1>6, <2>2
    <3>2. h[i] = g[j] /\ (q \o r)[i] = r[j]
      BY <1>3, <2>2, <3>1
    <3>3. h[i - 1] = g[j - 1]
      <4>1. CASE i - 1 <= Len(q)
        <5>1. i - 1 = Len(q) /\ j - 1 = 0
          BY <1>3, <1>6, <2>2, <4>1
        <5> QED BY <1>1, <1>2, <3>1, <4>1, <5>1
      <4>2. CASE ~(i - 1 <= Len(q))
        BY <3>1, <4>2
      <4> QED BY <4>1, <4>2
    <3> QED BY <1>2, <3>1, <3>2, <3>3
  <2> QED BY <2>1, <2>2
<1> HIDE DEF h
<1> QED BY <1>3, <1>4, <1>5, <1>6 DEF Path

LEMMA PathOfOne ==
    ASSUME NEW R, NEW p \in States, NEW e \in States, NEW m, << p, m.type, e >> \in R
    PROVE  Path(<< m >>, R, p, e)
<1> DEFINE q == << m >>
           f == [i \in 0..1 |-> IF i = 0 THEN p ELSE e]
<1>1. Len(q) = 1 /\ q[1] = m
  OBVIOUS
<1>2. f \in [0..1 -> States] /\ f[0] = p /\ f[1] = e
  OBVIOUS
<1> HIDE DEF q, f
<1>3. \A i \in 1..1 : << f[i - 1], q[i].type, f[i] >> \in R
  BY <1>1, <1>2
<1>4. Path(q, R, p, e)
  BY <1>1, <1>2, <1>3 DEF Path
<1> QED BY <1>4 DEF q

LEMMA OneAndOne ==
    ASSUME NEW S, NEW a \in Seq(S), NEW b \in Seq(S), Len(a) = 1, Len(b) = 1
    PROVE  a \o b = << a[1], b[1] >>
<1> DEFINE c == << a[1], b[1] >>
<1>1. c \in Seq(S) /\ Len(c) = 2 /\ c[1] = a[1] /\ c[2] = b[1]
  OBVIOUS
<1> HIDE DEF c
<1>2. a \o b \in Seq(S) /\ Len(a \o b) = Len(a) + Len(b)
  BY ConcatProperties
<1>3. \A i \in 1..(Len(a) + Len(b)) : (a \o b)[i] = IF i <= Len(a) THEN a[i] ELSE b[i - Len(a)]
  BY ConcatProperties
<1>4. \A i \in 1..2 : (a \o b)[i] = c[i]
  BY <1>1, <1>3
<1>5. a \o b = c
  BY <1>1, <1>2, <1>4, SeqEqual
<1> QED BY <1>5 DEF c

LEMMA PathOfTwo ==
    ASSUME NEW R, NEW p \in States, NEW r \in States, NEW e \in States, NEW m, NEW k,
           << p, m.type, r >> \in R, << r, k.type, e >> \in R
    PROVE  Queue(<< m, k >>) /\ ToSet(<< m, k >>) = {m, k} /\ Path(<< m, k >>, R, p, e)
<1> DEFINE a == << m >>
           b == << k >>
<1>1. << m, k >> = a \o b
  <2> DEFINE S == {m, k}
  <2>1. a \in Seq(S) /\ b \in Seq(S) /\ Len(a) = 1 /\ Len(b) = 1 /\ a[1] = m /\ b[1] = k
    OBVIOUS
  <2> QED BY <2>1, OneAndOne
<1>2. Path(a, R, p, r) /\ Path(b, R, r, e)
  BY PathOfOne
<1>3. Queue(a) /\ Queue(b) /\ ToSet(a) = {m} /\ ToSet(b) = {k}
  BY OneMessage
<1> HIDE DEF a, b
<1>4. Path(a \o b, R, p, e)
  BY <1>2, <1>3, PathJoined
<1>5. Queue(a \o b) /\ ToSet(a \o b) = {m, k}
  BY <1>3, Joined
<1> QED BY <1>1, <1>4, <1>5

---------------------------------------------------------------------------
(* What either end reads next. *)

LEMMA OnClientRoad ==
    ASSUME NEW p, NEW t, NEW r, << p, t, r >> \in ClientRoad
    PROVE  \/ p = "SH" /\ t = "SH" /\ r = IF sv.resumed THEN "CCS" ELSE "Cert"
           \/ p = "Cert" /\ t = "Cert" /\ r = IF sv.suite \in Signed THEN "SKE" ELSE "CR"
           \/ p = "SKE" /\ t = "SKE" /\ r = "CR"
           \/ p = "CR" /\ t = "CR" /\ r = "SHD" /\ sv.cfg.asks
           \/ p = "CR" /\ t = "SHD" /\ r = "CCS" /\ ~sv.cfg.asks
           \/ p = "SHD" /\ t = "SHD" /\ r = "CCS"
           \/ p = "CCS" /\ t = "CCS" /\ r = "Fin"
           \/ p = "Fin" /\ t = "Fin" /\ r = "app"
           \/ p = "app" /\ t \in {"app", "HR"} /\ r = "app"
  BY DEF ClientRoad

LEMMA OnServerRoad ==
    ASSUME NEW p, NEW t, NEW r, << p, t, r >> \in ServerRoad
    PROVE  \/ p = "Cert" /\ t = "Cert" /\ r = "CKE"
           \/ p = "CKE" /\ t = "CKE" /\ r = IF Proves THEN "CV" ELSE "CCS"
           \/ p = "CV" /\ t = "CV" /\ r = "CCS"
           \/ p = "CCS" /\ t = "CCS" /\ r = "Fin"
           \/ p = "Fin" /\ t = "Fin" /\ r = "app"
           \/ p = "app" /\ t \in {"app", "no_renegotiation"} /\ r = "app"
  BY DEF ServerRoad

LEMMA ServerRoadIsOne ==
    ASSUME NEW p, NEW t, NEW r, NEW s, << p, t, r >> \in ServerRoad, << p, t, s >> \in ServerRoad
    PROVE  r = s
<1>1. /\ p = "Cert" => r = "CKE"
      /\ p = "CKE" => r = IF Proves THEN "CV" ELSE "CCS"
      /\ p = "CV" => r = "CCS"
      /\ p = "CCS" => r = "Fin"
      /\ p \in {"Fin", "app"} => r = "app"
      /\ p \in {"Cert", "CKE", "CV", "CCS", "Fin", "app"}
  BY OnServerRoad
<1>2. /\ p = "Cert" => s = "CKE"
      /\ p = "CKE" => s = IF Proves THEN "CV" ELSE "CCS"
      /\ p = "CV" => s = "CCS"
      /\ p = "CCS" => s = "Fin"
      /\ p \in {"Fin", "app"} => s = "app"
  BY OnServerRoad
<1> QED BY <1>1, <1>2

LEMMA Undamaged ==
    ASSUME Inv, up, ~damaged
    PROVE  /\ cl.odd = {} /\ sv.odd = {}
           /\ s2c # << >> => ~Head(s2c).odd /\ Client = cl
           /\ c2s # << >> => ~Head(c2s).odd /\ Server = sv
  BY DEF Inv, DamagedOnce, Odd, Client, Server, Took

(* Once both know what the keys are computed from, it is the same. *)
LEMMA KeysAgree ==
    ASSUME Inv, up, ~damaged, Fine, Answer, cl.resumed \/ Sent(cl),
           sv.resumed \/ Sent(sv) \/ sv.at \in {"CV", "CCS", "Fin"}
    PROVE  Keys(cl) = Keys(sv) /\ cl.ms = sv.ms
<1>1. Up /\ ClientIs /\ Typed /\ cl.odd = {}
  BY Undamaged DEF Inv, Up
<1>2. /\ cl.ver = sv.ver /\ cl.suite = sv.suite /\ cl.resumed = sv.resumed /\ cl.random[2] = n
      /\ cl.random[1] = n /\ sv.random = << n, n >> /\ cl.random \in Int \X Int
  BY <1>1 DEF ClientIs, Fine, ClientFine, ServerFine, Typed, Engines
<1>3. cl.random = sv.random
  BY <1>2
<1>4. cl.ms = sv.ms
  <2>1. CASE sv.resumed
    BY <2>1 DEF Fine, ServerFine
  <2>2. CASE ~sv.resumed
    BY <1>1, <1>2, <2>2 DEF ClientIs, Fine, ServerFine
  <2> QED BY <2>1, <2>2
<1> QED BY <1>2, <1>3, <1>4 DEF Keys

LEMMA ClientNext ==
    ASSUME Inv, up, ~damaged, Fine, s2c # << >>
    PROVE  /\ ForClient(Head(s2c)) /\ OfServer(Head(s2c)) /\ ~Head(s2c).odd
           /\ Head(s2c).key = cl.in
           /\ \E r \in States :
                /\ << cl.at, Head(s2c).type, r >> \in ClientRoad
                /\ Path(Tail(s2c), ClientRoad, r, IF Sent(sv) THEN "app" ELSE "CCS")
<1>1. /\ OfServer(Head(s2c)) /\ Head(s2c) \in ToSet(s2c) /\ sv.at # "CH" /\ ~Head(s2c).odd
  BY ClientReads, Undamaged
<1>2. ForClient(Head(s2c)) /\ Path(s2c, ClientRoad, cl.at, IF Sent(sv) THEN "app" ELSE "CCS")
  BY <1>1 DEF Fine, Ways
<1>3. Queue(s2c) /\ ClientIs
  BY DEF Inv, Wires, Up
<1>4. PICK r \in States :
        /\ << cl.at, Head(s2c).type, r >> \in ClientRoad
        /\ Path(Tail(s2c), ClientRoad, r, IF Sent(sv) THEN "app" ELSE "CCS")
  BY <1>2, <1>3, PathTail
<1>5. Head(s2c).key = cl.in
  <2>1. CASE Head(s2c).type \in {"Fin", "app", "HR"}
    <3>1. cl.at \in {"Fin", "app"} /\ Sent(sv)
      BY <1>2, <1>4, <2>1, OnClientRoad DEF ForClient
    <3>2. Answer /\ (cl.resumed \/ Sent(cl))
      BY <1>3, <3>1 DEF ClientIs
    <3>3. Keys(cl) = Keys(sv)
      BY <3>1, <3>2, KeysAgree
    <3> QED BY <1>2, <2>1, <3>1, <3>3 DEF ForClient, Fine, ClientFine
  <2>2. CASE Head(s2c).type \notin {"Fin", "app", "HR"}
    <3>1. cl.at \notin {"Fin", "app"}
      BY <1>4, <2>2, OnClientRoad
    <3> QED BY <1>2, <2>2, <3>1 DEF ForClient, Fine, ClientFine
  <2> QED BY <2>1, <2>2
<1> QED BY <1>1, <1>2, <1>4, <1>5

LEMMA ServerNext ==
    ASSUME Inv, up, ~damaged, Fine, c2s # << >>, sv.at \notin {"CH", "failed"}
    PROVE  /\ ForServer(Head(c2s)) /\ OfClient(Head(c2s)) /\ ~Head(c2s).odd
           /\ Head(c2s).type # "CH" /\ Head(c2s).key = sv.in /\ Sent(cl) /\ Answer
           /\ \E r \in States :
                /\ << ServerPlace, Head(c2s).type, r >> \in ServerRoad
                /\ Path(Tail(c2s), ServerRoad, r, "app")
<1>1. /\ OfClient(Head(c2s)) /\ Head(c2s) \in ToSet(c2s) /\ ~Head(c2s).odd
  BY ServerReads, Undamaged
<1>2. /\ ForServer(Head(c2s))
      /\ Path(c2s, ServerRoad, ServerPlace, IF Sent(cl) THEN "app" ELSE ServerStart)
  BY <1>1 DEF Fine, Ways
<1>3. Queue(c2s) /\ ClientIs /\ ServerIs
  BY DEF Inv, Wires, Up
<1>4. Sent(cl) /\ Head(c2s).type # "CH" /\ Answer
  BY <1>1, <1>2, <1>3 DEF ForServer, OfClient, ClientIs
<1>5. PICK r \in States :
        /\ << ServerPlace, Head(c2s).type, r >> \in ServerRoad
        /\ Path(Tail(c2s), ServerRoad, r, "app")
  BY <1>2, <1>3, <1>4, PathTail
<1>6. Head(c2s).key = sv.in
  <2>1. CASE Head(c2s).type \in {"Fin", "app", "no_renegotiation"}
    <3>1. sv.at \in {"Fin", "app", "CH again"}
      BY <1>5, <2>1, OnServerRoad DEF ServerPlace, Done
    <3>2. sv.at = "Fin" \/ Sent(sv)
      BY <1>3, <3>1 DEF ServerIs
    <3>3. Keys(cl) = Keys(sv)
      BY <1>4, <3>1, <3>2, KeysAgree
    <3> QED BY <1>2, <2>1, <3>1, <3>3 DEF ForServer, Fine, ServerFine
  <2>2. CASE Head(c2s).type \notin {"Fin", "app", "no_renegotiation"}
    <3>1. sv.at \notin {"Fin", "app", "CH again"}
      BY <1>5, <2>2, OnServerRoad DEF ServerPlace, Done
    <3> QED BY <1>2, <2>2, <3>1 DEF ForServer, Fine, ServerFine
  <2> QED BY <2>1, <2>2
<1> QED BY <1>1, <1>2, <1>4, <1>5, <1>6

---------------------------------------------------------------------------
(* What is left to show of a step of either end. *)

LEMMA ClientFlows ==
    ASSUME Inv, Fine, ~damaged, NEW msgs, ClientMoves(msgs), cl'.cfg = cl.cfg,
           Sent(cl) => Sent(cl)' /\ Keys(cl)' = Keys(cl),
           cl.at = "app" => cl'.at = "app",
           << cl.at, Head(s2c).type, cl'.at >> \in ClientRoad,
           sv.resumed => << cl.id, cl.ver, cl.suite, cl.ms >>' = << cl.id, cl.ver, cl.suite, cl.ms >>,
           ClientFine',
           \A m \in ToSet(msgs) : ForServer(m)',
           Path(msgs, ServerRoad, IF Sent(cl) THEN "app" ELSE ServerStart,
                IF Sent(cl)' THEN "app" ELSE ServerStart)
    PROVE  Fine'
<1>1. up /\ s2c # << >> /\ sv' = sv /\ n' = n /\ s2c' = Tail(s2c) /\ c2s' = c2s \o msgs /\ Queue(msgs)
  BY DEF ClientMoves
<1>2. Queue(c2s) /\ Queue(s2c) /\ sv.at # "CH"
  BY <1>1, ClientReads DEF Inv, Wires
<1>3. /\ ToSet(c2s') = ToSet(c2s) \cup ToSet(msgs) /\ ToSet(s2c') \subseteq ToSet(s2c)
  BY ClientWires
<1>4. /\ ClientRoad' = ClientRoad /\ ServerRoad' = ServerRoad /\ ServerStart' = ServerStart
      /\ ServerPlace' = ServerPlace /\ Sent(sv)' = Sent(sv) /\ Keys(sv)' = Keys(sv)
      /\ Answering' = Answering
  BY <1>1 DEF ClientRoad, ServerRoad, Proves, ServerStart, ServerPlace, Sent, Keys, Answering
<1>5. Path(s2c', ClientRoad, cl'.at, IF Sent(sv) THEN "app" ELSE "CCS")
  <2>1. PICK r \in States :
          /\ << cl.at, Head(s2c).type, r >> \in ClientRoad
          /\ Path(Tail(s2c), ClientRoad, r, IF Sent(sv) THEN "app" ELSE "CCS")
    BY <1>1, ClientNext
  <2>2. r = cl'.at
    BY <2>1, OnClientRoad
  <2> QED BY <1>1, <2>1, <2>2
<1>6. Path(c2s', ServerRoad, ServerPlace, IF Sent(cl)' THEN "app" ELSE ServerStart)
  <2>1. Path(c2s, ServerRoad, ServerPlace, IF Sent(cl) THEN "app" ELSE ServerStart)
    BY <1>2 DEF Fine, Ways
  <2> QED BY <1>1, <1>2, <2>1, PathJoined
<1>7. Ways'
  BY <1>1, <1>4, <1>5, <1>6 DEF Ways
<1>8. ServerFine'
  BY <1>1, <1>4 DEF Fine, ServerFine
<1>9. \A m \in ToSet(s2c') : ForClient(m)'
  BY <1>1, <1>3, <1>4 DEF Fine, ForClient
<1>10. \A m \in ToSet(c2s') : ForServer(m)'
  <2> SUFFICES ASSUME NEW m \in ToSet(c2s) PROVE ForServer(m)'
    BY <1>3
  <2>1. ForServer(m) /\ OfClient(m)
    BY DEF Fine, Inv, Wires
  <2>2. m.type # "CH"
    BY <1>2, <2>1 DEF OfClient
  <2> QED BY <1>1, <2>1, <2>2 DEF ForServer
<1> QED BY <1>7, <1>8, <1>9, <1>10 DEF Fine

LEMMA ServerFlows ==
    ASSUME Inv, Fine, ~damaged, NEW msgs, ServerMoves(msgs), sv.at \notin {"CH", "failed"}, sv'.at # "CH",
           << sv'.cfg, sv'.id, sv'.ver, sv'.suite, sv'.resumed, sv'.random >> =
           << sv.cfg, sv.id, sv.ver, sv.suite, sv.resumed, sv.random >>,
           Sent(sv) => Sent(sv)' /\ Keys(sv)' = Keys(sv),
           sv.at = "CH again" => sv'.at \in {"CH again", "failed"},
           << ServerPlace, Head(c2s).type, ServerPlace' >> \in ServerRoad,
           ServerFine',
           \A m \in ToSet(msgs) : ForClient(m)',
           Path(msgs, ClientRoad, IF Sent(sv) THEN "app" ELSE "CCS",
                IF Sent(sv)' THEN "app" ELSE "CCS")
    PROVE  Fine'
<1>1. up /\ c2s # << >> /\ cl' = cl /\ n' = n /\ c2s' = Tail(c2s) /\ s2c' = s2c \o msgs /\ Queue(msgs)
  BY DEF ServerMoves
<1>2. Queue(c2s) /\ Queue(s2c)
  BY DEF Inv, Wires
<1>3. /\ ToSet(s2c') = ToSet(s2c) \cup ToSet(msgs) /\ ToSet(c2s') \subseteq ToSet(c2s)
  BY ServerWires
<1>4. /\ ClientRoad' = ClientRoad /\ ServerRoad' = ServerRoad /\ ServerStart' = ServerStart
      /\ Sent(cl)' = Sent(cl) /\ Keys(cl)' = Keys(cl)
  BY <1>1 DEF ClientRoad, ServerRoad, Proves, ServerStart, Sent, Keys
<1>5. Path(c2s', ServerRoad, ServerPlace', IF Sent(cl) THEN "app" ELSE ServerStart)
  <2>1. PICK r \in States :
          /\ << ServerPlace, Head(c2s).type, r >> \in ServerRoad
          /\ Path(Tail(c2s), ServerRoad, r, "app")
    BY <1>1, ServerNext
  <2>2. r = ServerPlace'
    <3>1. PICK p, s : p = ServerPlace /\ s = ServerPlace'
      OBVIOUS
    <3>2. << p, Head(c2s).type, r >> \in ServerRoad /\ << p, Head(c2s).type, s >> \in ServerRoad
      BY <2>1, <3>1
    <3> QED BY <3>1, <3>2, ServerRoadIsOne
  <2>3. Sent(cl)
    BY <1>1, ServerNext
  <2> QED BY <1>1, <2>1, <2>2, <2>3
<1>6. Path(s2c', ClientRoad, cl.at, IF Sent(sv)' THEN "app" ELSE "CCS")
  <2>1. Path(s2c, ClientRoad, cl.at, IF Sent(sv) THEN "app" ELSE "CCS")
    BY <1>2 DEF Fine, Ways
  <2> QED BY <1>1, <1>2, <2>1, PathJoined
<1>7. Ways'
  BY <1>1, <1>4, <1>5, <1>6 DEF Ways
<1>8. ClientFine'
  BY <1>1, <1>4 DEF Fine, ClientFine
<1>9. \A m \in ToSet(c2s') : ForServer(m)'
  BY <1>1, <1>3, <1>4 DEF Fine, ForServer
<1>10. \A m \in ToSet(s2c') : ForClient(m)'
  <2> SUFFICES ASSUME NEW m \in ToSet(s2c) PROVE ForClient(m)'
    BY <1>3
  <2>1. ForClient(m)
    BY DEF Fine
  <2> QED BY <1>1, <2>1 DEF ForClient
<1> QED BY <1>7, <1>8, <1>9, <1>10 DEF Fine

---------------------------------------------------------------------------
(* The steps of the client. *)

LEMMA ClientQuiet ==
    ASSUME Inv, Fine, ~damaged, ClientMoves(<< >>), cl'.cfg = cl.cfg,
           Sent(cl)' = Sent(cl), Sent(cl) => Keys(cl)' = Keys(cl),
           cl.at = "app" => cl'.at = "app",
           << cl.at, Head(s2c).type, cl'.at >> \in ClientRoad,
           sv.resumed => << cl.id, cl.ver, cl.suite, cl.ms >>' = << cl.id, cl.ver, cl.suite, cl.ms >>,
           ClientFine'
    PROVE  Fine'
<1>1. Path(<< >>, ServerRoad, IF Sent(cl) THEN "app" ELSE ServerStart,
           IF Sent(cl)' THEN "app" ELSE ServerStart)
  <2>1. (IF Sent(cl) THEN "app" ELSE ServerStart) \in States
    BY DEF ServerStart, States
  <2> QED BY <2>1, PathOfNone
<1>2. \A m \in ToSet(<< >>) : ForServer(m)'
  BY NoMessage
<1> QED BY <1>1, <1>2, ClientFlows

LEMMA BestIs ==
    ASSUME Typed, Common
    PROVE  /\ Best(cl.cfg, sv.cfg)[1] = Least(cl.cfg.max, sv.cfg.max)
           /\ Best(cl.cfg, sv.cfg)[2] \in ToSet(cl.cfg.suites)
           /\ Best(cl.cfg, sv.cfg)[2] \in Tls12Only => Best(cl.cfg, sv.cfg)[1] = 3
<1> DEFINE c == cl.cfg
           s == sv.cfg
           ver == Least(c.max, s.max)
           both == {i \in DOMAIN c.suites : c.suites[i] \in s.suites /\ (c.suites[i] \in Tls12Only => ver = 3)}
<1>1. c.suites \in Seq(Suites)
  BY HandshakeAssumption DEF Typed, Engines
<1>2. both # {} /\ both \subseteq Nat
  <2>1. PICK suite \in ToSet(c.suites) \cap s.suites : suite \in Tls12Only => ver = 3
    BY DEF Common
  <2>2. PICK i \in DOMAIN c.suites : c.suites[i] = suite
    BY <2>1 DEF ToSet
  <2> QED BY <1>1, <2>1, <2>2
<1>3. PICK i : i = Min(both)
  OBVIOUS
<1>4. i \in both
  BY <1>2, <1>3, LeastOfSet
<1>5. Best(c, s) = << ver, c.suites[i] >>
  BY <1>3 DEF Best
<1>6. c.suites[i] \in ToSet(c.suites) /\ (c.suites[i] \in Tls12Only => ver = 3)
  BY <1>4 DEF ToSet
<1> QED BY <1>5, <1>6

(* The ServerHello is one the client takes. *)
LEMMA HelloPasses ==
    ASSUME Inv, Lawful, Fine, Meets, ~damaged, up, s2c # << >>, cl.at = "SH", Head(s2c).type = "SH"
    PROVE  /\ Reads = [ver |-> sv.ver, id |-> sv.id, suite |-> sv.suite, random |-> n]
           /\ HelloError(Reads) = "none" /\ (Resumes(Reads) <=> sv.resumed)
<1>1. /\ Typed /\ Cached /\ ClientIs /\ ServerIs /\ ~Answer /\ ~Sent(cl) /\ sv.odd = {}
      /\ OfSession(cl) /\ session.id < n
  BY Undamaged DEF Inv, Up, ClientIs
<1>2. Answering /\ Reads = [ver |-> sv.ver, id |-> sv.id, suite |-> sv.suite, random |-> n]
  BY ClientNext DEF OfServer, Reads, Answering
<1>3. Resumes(Reads) <=> sv.resumed
  <2>1. cl.id = session.id /\ sv.id # None /\ session.id \in 0..n /\ n \in Nat
    BY <1>1, <1>2 DEF OfSession, Answering, Typed
  <2>2. sv.resumed => sv.id = session.id
    BY <1>1, <1>2 DEF ServerIs
  <2>3. ~sv.resumed => sv.id = n
    BY <1>1, <1>2 DEF ServerIs
  <2>4. Reads.id = sv.id
    BY <1>2
  <2> QED BY <1>1, <2>1, <2>2, <2>3, <2>4 DEF Resumes
<1>4. Reads.ver = sv.ver /\ Reads.suite = sv.suite /\ Reads.id = sv.id
  BY <1>2
<1>5. /\ cl.cfg.min \in Versions /\ cl.cfg.max \in Versions /\ sv.cfg.max \in Versions
      /\ sv.ver \in Versions
  BY <1>1, <1>2, HandshakeAssumption DEF Typed, Engines, ServerIs
<1>6. CASE sv.resumed
  <2>1. sv.ver = cl.ver /\ sv.suite = cl.suite /\ sv.ver <= cl.cfg.max /\ sv.suite \in ToSet(cl.cfg.suites)
    BY <1>6 DEF Fine, ServerFine
  <2>2. session.id # None /\ session.ver = cl.ver /\ session.suite = cl.suite
    BY <1>1, <1>2, <1>6 DEF ServerIs, OfSession, Answering
  <2>3. sv.ver >= cl.cfg.min
    BY <1>6, <2>1, <2>2 DEF Meets
  <2>4. sv.suite \in Tls12Only => sv.ver = 3
    BY <2>1, <2>2 DEF Lawful, Rule
  <2>5. sv.ver \in cl.cfg.min..cl.cfg.max
    BY <1>5, <2>1, <2>3 DEF Versions
  <2>6. ~(sv.suite \in Tls12Only /\ sv.ver < 3)
    BY <2>4
  <2>7. HelloError(Reads) = "none"
    BY <1>3, <1>4, <1>6, <2>1, <2>5, <2>6 DEF HelloError
  <2> QED BY <1>2, <1>3, <2>7
<1>7. CASE ~sv.resumed
  <2>1. << sv.ver, sv.suite >> = Best(cl.cfg, sv.cfg)
    BY <1>1, <1>2, <1>7 DEF ServerIs
  <2>2. sv.ver = Least(cl.cfg.max, sv.cfg.max) /\ sv.suite \in ToSet(cl.cfg.suites)
        /\ (sv.suite \in Tls12Only => sv.ver = 3)
    BY <1>1, <2>1, BestIs DEF Meets
  <2>3. sv.ver \in cl.cfg.min..cl.cfg.max
    BY <1>5, <2>2 DEF Meets, Common, Least, Versions
  <2>6. ~(sv.suite \in Tls12Only /\ sv.ver < 3)
    BY <2>2
  <2>7. HelloError(Reads) = "none"
    BY <1>3, <1>4, <1>7, <2>2, <2>3, <2>6 DEF HelloError
  <2> QED BY <1>2, <1>3, <2>7
<1> QED BY <1>6, <1>7

LEMMA ReadServerHelloFlows ==
    ASSUME Inv, Inv', Lawful, Fine, Meets, ~damaged, ReadServerHello
    PROVE  Fine'
<1> DEFINE h == Reads
<1>1. up /\ s2c # << >> /\ cl.at = "SH" /\ Head(s2c).type = "SH"
  BY DEF ReadServerHello, ToClient
<1>2. /\ h = [ver |-> sv.ver, id |-> sv.id, suite |-> sv.suite, random |-> n]
      /\ HelloError(h) = "none" /\ (Resumes(h) <=> sv.resumed)
  BY <1>1, HelloPasses
<1>3. /\ Client = cl /\ cl \in Engines(ClientConfigs) /\ cl' \in Engines(ClientConfigs)
      /\ ClientIs /\ ServerIs /\ ~Sent(cl)
  BY <1>1, Undamaged DEF Inv, Typed, Up, ClientIs
<1>4. ClientGoes([cl EXCEPT
                  !.ver = h.ver, !.suite = h.suite, !.id = h.id, !.random = << @[1], h.random >>,
                  !.resumed = Resumes(h), !.at = IF Resumes(h) THEN "CCS" ELSE "Cert"],
                 << >>)
  BY <1>2, <1>3 DEF ReadServerHello
<1> HIDE DEF h
<1>5. /\ cl'.at = IF Resumes(h) THEN "CCS" ELSE "Cert"
      /\ cl'.ver = h.ver /\ cl'.suite = h.suite /\ cl'.id = h.id
      /\ cl'.random = << cl.random[1], h.random >>
      /\ cl'.cfg = cl.cfg /\ cl'.ms = cl.ms /\ cl'.in = cl.in /\ cl'.out = cl.out
      /\ cl'.odd = cl.odd /\ cl'.asked = cl.asked
  BY <1>3, <1>4 DEF ClientGoes, Engines
<1>6. ClientMoves(<< >>)
  BY <1>1, <1>3, <1>4, <1>5, NoMessage DEF ClientMoves, ClientGoes
<1>7. << cl.at, Head(s2c).type, cl'.at >> \in ClientRoad
  BY <1>1, <1>2, <1>5 DEF ClientRoad
<1>8. sv.resumed => << cl.id, cl.ver, cl.suite, cl.ms >>' = << cl.id, cl.ver, cl.suite, cl.ms >>
  <2> SUFFICES ASSUME sv.resumed
               PROVE  << cl'.id, cl'.ver, cl'.suite, cl'.ms >> = << cl.id, cl.ver, cl.suite, cl.ms >>
    OBVIOUS
  <2>1. << sv.id, sv.ver, sv.suite, sv.ms >> = << cl.id, cl.ver, cl.suite, cl.ms >>
    BY DEF Fine, ServerFine
  <2>2. h.ver = sv.ver /\ h.id = sv.id /\ h.suite = sv.suite
    BY <1>2
  <2> QED BY <1>5, <2>1, <2>2
<1>9. Sent(cl)' = Sent(cl)
  BY <1>5 DEF Sent
<1>10. ClientFine'
  <2>1. cl.random[1] = n /\ cl.in = Clear /\ ~cl.asked /\ n' = n
    BY <1>1, <1>4 DEF Fine, ClientFine, ClientGoes
  <2>2. cl'.random[1] = n /\ cl'.in = Clear /\ ~cl'.asked /\ cl'.at \in {"CCS", "Cert"}
    BY <1>5, <2>1
  <2> QED BY <1>3, <1>9, <2>1, <2>2 DEF ClientFine
<1> QED BY <1>1, <1>3, <1>5, <1>6, <1>7, <1>8, <1>9, <1>10, ClientQuiet

(* A step in the middle of the handshake. *)
LEMMA ClientMiddle ==
    ASSUME Inv, Fine, ~damaged, up, s2c # << >>, ClientGoes(cl', << >>),
           cl' \in Engines(ClientConfigs),
           << cl'.cfg, cl'.id, cl'.ver, cl'.suite, cl'.ms, cl'.resumed, cl'.random, cl'.out, cl'.odd >> =
           << cl.cfg, cl.id, cl.ver, cl.suite, cl.ms, cl.resumed, cl.random, cl.out, cl.odd >>,
           << cl.at, Head(s2c).type, cl'.at >> \in ClientRoad, cl.at # "SH",
           \/ cl'.in = cl.in /\ cl'.at \notin {"Fin", "app"} /\ cl'.asked = cl.asked /\ cl'.at # "SHD"
           \/ cl'.in = cl.in /\ cl'.at = "SHD" /\ cl'.asked
           \/ cl'.in = cl.in /\ cl.at = "app" /\ cl'.at = "app"
           \/ cl'.at = "Fin" /\ cl'.in = Keys(cl)
    PROVE  Fine'
<1>1. ClientMoves(<< >>)
  BY NoMessage DEF ClientMoves, ClientGoes
<1>2. Sent(cl)' = Sent(cl) /\ Keys(cl)' = Keys(cl)
  BY DEF Sent, Keys
<1>3. n' = n /\ sv' = sv
  BY DEF ClientGoes
<1>4. cl.at = "app" => cl'.at = "app"
  BY OnClientRoad
<1>5. ClientFine'
  <2>1. ClientFine
    BY DEF Fine
  <2>2. /\ cl'.at = "SHD" => cl.at = "CR" /\ sv.cfg.asks
        /\ cl'.at \in {"SKE", "CR"} => cl.at \in {"Cert", "SKE"}
        /\ cl'.at \notin {"failed", "SH", "Cert"}
    BY OnClientRoad
  <2>3. cl'.in = IF cl'.at \in {"Fin", "app"} THEN Keys(cl) ELSE Clear
    <3>1. cl.at \in {"Fin", "app"} => cl'.at = "app"
      BY OnClientRoad
    <3> QED BY <2>1, <3>1 DEF ClientFine
  <2>4. cl'.at \in {"SH", "Cert", "SKE", "CR"} => ~cl'.asked
    BY <2>1, <2>2 DEF ClientFine
  <2>5. cl'.at = "SHD" => cl'.asked /\ sv'.cfg.asks
    BY <1>3, <2>2
  <2> QED BY <1>2, <1>3, <2>1, <2>2, <2>3, <2>4, <2>5 DEF ClientFine
<1> QED BY <1>1, <1>2, <1>4, <1>5, ClientQuiet

LEMMA ReadCertificateFlows ==
    ASSUME Inv, Inv', Fine, Meets, ~damaged, ReadCertificate
    PROVE  Fine'
<1>1. up /\ s2c # << >> /\ cl.at = "Cert" /\ Head(s2c).type = "Cert"
  BY DEF ReadCertificate, ToClient
<1>2. Reads = "good"
  BY <1>1, ClientNext DEF ForClient, Reads, Meets, Common
<1>3. /\ Client = cl /\ cl \in Engines(ClientConfigs) /\ cl' \in Engines(ClientConfigs)
      /\ cl.suite = sv.suite
  BY <1>1, Undamaged DEF Inv, Typed, Up, ClientIs
<1>4. ClientGoes([cl EXCEPT !.auth = Reads, !.at = IF cl.suite \in Signed THEN "SKE" ELSE "CR"], << >>)
  BY <1>2, <1>3 DEF ReadCertificate
<1>5. /\ cl'.at = IF cl.suite \in Signed THEN "SKE" ELSE "CR"
      /\ << cl'.cfg, cl'.id, cl'.ver, cl'.suite, cl'.ms, cl'.resumed, cl'.random, cl'.out, cl'.odd >> =
         << cl.cfg, cl.id, cl.ver, cl.suite, cl.ms, cl.resumed, cl.random, cl.out, cl.odd >>
      /\ cl'.in = cl.in /\ cl'.asked = cl.asked
  BY <1>3, <1>4 DEF ClientGoes, Engines
<1>6. ClientGoes(cl', << >>)
  BY <1>4 DEF ClientGoes
<1>7. << cl.at, Head(s2c).type, cl'.at >> \in ClientRoad
  BY <1>1, <1>3, <1>5 DEF ClientRoad
<1> QED BY <1>1, <1>3, <1>5, <1>6, <1>7, ClientMiddle

LEMMA ReadServerKeyExchangeFlows ==
    ASSUME Inv, Inv', Fine, ~damaged, ReadServerKeyExchange
    PROVE  Fine'
<1>1. up /\ s2c # << >> /\ cl.at = "SKE" /\ Head(s2c).type = "SKE"
  BY DEF ReadServerKeyExchange, ToClient
<1>2. Reads = cl.random
  <2>1. Reads = sv.random /\ ClientFine /\ ServerFine
    BY <1>1, ClientNext DEF ForClient, Reads, Fine
  <2>2. Answering /\ cl.random[2] = n /\ cl.random \in Int \X Int
    BY <1>1, Undamaged DEF Inv, Up, ClientIs, Typed, Engines
  <2>3. sv.random = << n, n >> /\ cl.random[1] = n
    BY <2>1, <2>2 DEF ClientFine, ServerFine
  <2>4. cl.random = << n, n >>
    BY <2>2, <2>3
  <2> QED BY <2>1, <2>3, <2>4
<1>3. /\ Client = cl /\ cl \in Engines(ClientConfigs) /\ cl' \in Engines(ClientConfigs)
  BY <1>1, Undamaged DEF Inv, Typed
<1>4. ClientGoes([cl EXCEPT !.at = "CR"], << >>)
  BY <1>2, <1>3 DEF ReadServerKeyExchange
<1>5. /\ cl'.at = "CR"
      /\ << cl'.cfg, cl'.id, cl'.ver, cl'.suite, cl'.ms, cl'.resumed, cl'.random, cl'.out, cl'.odd >> =
         << cl.cfg, cl.id, cl.ver, cl.suite, cl.ms, cl.resumed, cl.random, cl.out, cl.odd >>
      /\ cl'.in = cl.in /\ cl'.asked = cl.asked
  BY <1>3, <1>4 DEF ClientGoes, Engines
<1>6. ClientGoes(cl', << >>)
  BY <1>4 DEF ClientGoes
<1>7. << cl.at, Head(s2c).type, cl'.at >> \in ClientRoad
  BY <1>1, <1>5 DEF ClientRoad
<1> QED BY <1>1, <1>3, <1>5, <1>6, <1>7, ClientMiddle

LEMMA ReadCertificateRequestFlows ==
    ASSUME Inv, Inv', Fine, ~damaged, ReadCertificateRequest
    PROVE  Fine'
<1>1. up /\ s2c # << >> /\ cl.at = "CR" /\ Head(s2c).type = "CR"
  BY DEF ReadCertificateRequest, ToClient
<1>2. sv.cfg.asks
  BY <1>1, ClientNext, OnClientRoad
<1>3. /\ Client = cl /\ cl \in Engines(ClientConfigs) /\ cl' \in Engines(ClientConfigs)
  BY <1>1, Undamaged DEF Inv, Typed
<1>4. ClientGoes([cl EXCEPT !.at = "SHD", !.asked = TRUE], << >>)
  BY <1>3 DEF ReadCertificateRequest
<1>5. /\ cl'.at = "SHD"
      /\ << cl'.cfg, cl'.id, cl'.ver, cl'.suite, cl'.ms, cl'.resumed, cl'.random, cl'.out, cl'.odd >> =
         << cl.cfg, cl.id, cl.ver, cl.suite, cl.ms, cl.resumed, cl.random, cl.out, cl.odd >>
      /\ cl'.in = cl.in /\ cl'.asked
  BY <1>3, <1>4 DEF ClientGoes, Engines
<1>6. ClientGoes(cl', << >>)
  BY <1>4 DEF ClientGoes
<1>7. << cl.at, Head(s2c).type, cl'.at >> \in ClientRoad
  BY <1>1, <1>2, <1>5 DEF ClientRoad
<1> QED BY <1>1, <1>3, <1>5, <1>6, <1>7, ClientMiddle

LEMMA ClientReadsCCSFlows ==
    ASSUME Inv, Inv', Fine, ~damaged, ClientReadsCCS
    PROVE  Fine'
<1>1. up /\ s2c # << >> /\ cl.at = "CCS" /\ Head(s2c).type = "CCS"
  BY DEF ClientReadsCCS, ToClient
<1>3. cl \in Engines(ClientConfigs) /\ cl' \in Engines(ClientConfigs)
  BY DEF Inv, Typed
<1>4. ClientGoes([cl EXCEPT !.in = Keys(cl), !.at = "Fin"], << >>)
  BY DEF ClientReadsCCS
<1>5. /\ cl'.at = "Fin" /\ cl'.in = Keys(cl)
      /\ << cl'.cfg, cl'.id, cl'.ver, cl'.suite, cl'.ms, cl'.resumed, cl'.random, cl'.out, cl'.odd >> =
         << cl.cfg, cl.id, cl.ver, cl.suite, cl.ms, cl.resumed, cl.random, cl.out, cl.odd >>
  BY <1>3, <1>4 DEF ClientGoes, Engines
<1>6. ClientGoes(cl', << >>)
  BY <1>4 DEF ClientGoes
<1>7. << cl.at, Head(s2c).type, cl'.at >> \in ClientRoad
  BY <1>1, <1>5 DEF ClientRoad
<1> QED BY <1>1, <1>3, <1>5, <1>6, <1>7, ClientMiddle

LEMMA ClientReadsDataFlows ==
    ASSUME Inv, Inv', Fine, ~damaged, ClientReadsData
    PROVE  Fine'
<1>1. up /\ s2c # << >> /\ cl.at = "app" /\ Head(s2c).type = "app" /\ ClientGoes(cl, << >>)
  BY DEF ClientReadsData, ToClient
<1>2. cl' = cl /\ cl \in Engines(ClientConfigs)
  BY <1>1 DEF ClientGoes, Inv, Typed
<1>3. << cl.at, Head(s2c).type, cl'.at >> \in ClientRoad
  BY <1>1, <1>2 DEF ClientRoad
<1> QED BY <1>1, <1>2, <1>3, ClientMiddle

LEMMA CCSFinishedFlows ==
    ASSUME NEW C, NEW x \in Engines(C), NEW R,
           << "CCS", "CCS", "Fin" >> \in R, << "Fin", "Fin", "app" >> \in R
    PROVE  /\ Queue(CCSFinished(x)) /\ Path(CCSFinished(x), R, "CCS", "app")
           /\ \A m \in ToSet(CCSFinished(x)) :
                /\ IsMessage(m) /\ ~m.odd
                /\ \/ m.type = "CCS" /\ m.key = x.out
                   \/ m.type = "Fin" /\ m.key = Keys(x)
<1>1. PICK a, b : a = Message("CCS", x.out, 0) /\ b = Message("Fin", Keys(x), << x.ms, x.odd >>)
  OBVIOUS
<1>2. /\ IsMessage(a) /\ ~a.odd /\ a.type = "CCS" /\ a.key = x.out
      /\ IsMessage(b) /\ ~b.odd /\ b.type = "Fin" /\ b.key = Keys(x)
  BY <1>1, MessageIs DEF Types
<1>3. CCSFinished(x) = << a, b >>
  BY <1>1 DEF CCSFinished
<1>4. {"CCS", "Fin", "app"} \subseteq States
  BY DEF States
<1>5. Queue(<< a, b >>) /\ ToSet(<< a, b >>) = {a, b} /\ Path(<< a, b >>, R, "CCS", "app")
  BY <1>2, <1>4, PathOfTwo
<1> QED BY <1>2, <1>3, <1>5

LEMMA ReadServerHelloDoneFlows ==
    ASSUME Inv, Inv', Fine, ~damaged, ReadServerHelloDone
    PROVE  Fine'
<1> DEFINE x == [cl EXCEPT !.ms = n, !.at = "CCS"]
           own == IF x.asked THEN << Message("Cert", Clear, x.cfg.cert) >> ELSE << >>
           proof == IF x.asked /\ x.cfg.cert # "empty" THEN << Message("CV", Clear, x.odd) >> ELSE << >>
           key == << Message("CKE", Clear, n) >>
           msgs == own \o key \o proof \o CCSFinished(x)
<1>1. up /\ s2c # << >> /\ cl.at \in {"CR", "SHD"} /\ Head(s2c).type = "SHD"
  BY DEF ReadServerHelloDone, ToClient
<1>2. /\ Client = cl /\ cl \in Engines(ClientConfigs) /\ cl' \in Engines(ClientConfigs)
      /\ Up /\ ClientIs /\ ServerIs /\ ~Sent(cl) /\ cl.odd = {} /\ n \in 0..MaxConns
      /\ Answering /\ Answer /\ ~cl.resumed /\ ~sv.resumed
  BY <1>1, Undamaged DEF Inv, Up, Typed, ClientIs
<1>3. ClientGoes([x EXCEPT !.out = Keys(x)], msgs)
  BY <1>2 DEF ReadServerHelloDone
<1>4. /\ x \in Engines(ClientConfigs) /\ x.ms = n /\ x.at = "CCS" /\ x.odd = {}
      /\ << x.cfg, x.id, x.ver, x.suite, x.resumed, x.random, x.in, x.out, x.asked >> =
         << cl.cfg, cl.id, cl.ver, cl.suite, cl.resumed, cl.random, cl.in, cl.out, cl.asked >>
  <2>1. n \in -1..MaxConns
    BY <1>2
  <2> QED BY <1>2, <2>1 DEF Engines, States
<1>5. x.asked <=> sv.cfg.asks
  <2>1. CASE cl.at = "CR"
    BY <1>1, <1>4, <2>1, ClientNext, OnClientRoad DEF Fine, ClientFine
  <2>2. CASE cl.at = "SHD"
    BY <1>4, <2>2 DEF Fine, ClientFine
  <2> QED BY <1>1, <2>1, <2>2
<1> HIDE DEF x
<1>6. Keys(x) # Clear /\ x.out = Clear
  BY <1>2, <1>4, KeysAre DEF Sent
<1>7. /\ cl'.out = Keys(x)
      /\ << cl'.at, cl'.cfg, cl'.id, cl'.ver, cl'.suite, cl'.ms, cl'.resumed, cl'.random, cl'.in, cl'.odd, cl'.asked >> =
         << x.at, x.cfg, x.id, x.ver, x.suite, x.ms, x.resumed, x.random, x.in, x.odd, x.asked >>
  BY <1>3, <1>4 DEF ClientGoes, Engines
<1>8. Keys(cl)' = Keys(x) /\ Sent(cl)' /\ n' = n /\ sv' = sv
  BY <1>3, <1>6, <1>7 DEF Keys, Sent, ClientGoes
<1> DEFINE first == IF sv.cfg.asks THEN "Cert" ELSE "CKE"
           then == IF Proves THEN "CV" ELSE "CCS"
<1>9. /\ {"Cert", "CKE", "CV", "CCS", "Fin", "app"} \subseteq States
      /\ ServerStart = first
      /\ << "Cert", "Cert", "CKE" >> \in ServerRoad /\ << "CKE", "CKE", then >> \in ServerRoad
      /\ << "CV", "CV", "CCS" >> \in ServerRoad
      /\ << "CCS", "CCS", "Fin" >> \in ServerRoad /\ << "Fin", "Fin", "app" >> \in ServerRoad
  BY <1>2 DEF States, ServerStart, ServerRoad
<1>10. /\ Queue(own) /\ Path(own, ServerRoad, first, "CKE")
       /\ \A m \in ToSet(own) : IsMessage(m) /\ ~m.odd /\ ForServer(m)'
  <2>1. CASE x.asked
    <3>1. PICK m : m = Message("Cert", Clear, x.cfg.cert)
      OBVIOUS
    <3>2. IsMessage(m) /\ ~m.odd /\ m.type = "Cert" /\ m.key = Clear /\ m.v = x.cfg.cert
      BY <3>1, MessageIs DEF Types
    <3>3. own = << m >> /\ first = "Cert"
      BY <1>5, <2>1, <3>1
    <3>4. Queue(<< m >>) /\ ToSet(<< m >>) = {m} /\ Path(<< m >>, ServerRoad, "Cert", "CKE")
      BY <1>9, <3>2, OneMessage, PathOfOne
    <3>5. ForServer(m)'
      BY <1>7, <1>8, <3>2 DEF ForServer
    <3> QED BY <3>2, <3>3, <3>4, <3>5
  <2>2. CASE ~x.asked
    <3>1. own = << >> /\ first = "CKE"
      BY <1>5, <2>2
    <3>2. Path(<< >>, ServerRoad, "CKE", "CKE")
      BY <1>9, PathOfNone
    <3> QED BY <3>1, <3>2, NoMessage
  <2> QED BY <2>1, <2>2
<1>11. /\ Queue(key) /\ Path(key, ServerRoad, "CKE", then)
       /\ \A m \in ToSet(key) : IsMessage(m) /\ ~m.odd /\ ForServer(m)'
  <2>1. PICK m : m = Message("CKE", Clear, n)
    OBVIOUS
  <2>2. IsMessage(m) /\ ~m.odd /\ m.type = "CKE" /\ m.key = Clear /\ m.v = n
    BY <2>1, MessageIs DEF Types
  <2>3. key = << m >>
    BY <2>1
  <2>4. Queue(<< m >>) /\ ToSet(<< m >>) = {m} /\ Path(<< m >>, ServerRoad, "CKE", then)
    BY <1>9, <2>2, OneMessage, PathOfOne
  <2>5. ForServer(m)'
    BY <1>8, <2>2 DEF ForServer
  <2> QED BY <2>2, <2>3, <2>4, <2>5
<1>12. /\ Queue(proof) /\ Path(proof, ServerRoad, then, "CCS")
       /\ \A m \in ToSet(proof) : IsMessage(m) /\ ~m.odd /\ ForServer(m)'
  <2>1. CASE x.asked /\ x.cfg.cert # "empty"
    <3>1. PICK m : m = Message("CV", Clear, x.odd)
      OBVIOUS
    <3>2. IsMessage(m) /\ ~m.odd /\ m.type = "CV" /\ m.key = Clear /\ m.v = {}
      BY <1>4, <3>1, MessageIs DEF Types
    <3>3. proof = << m >> /\ then = "CV"
      BY <1>4, <1>5, <2>1, <3>1 DEF Proves
    <3>4. Queue(<< m >>) /\ ToSet(<< m >>) = {m} /\ Path(<< m >>, ServerRoad, "CV", "CCS")
      BY <1>9, <3>2, OneMessage, PathOfOne
    <3>5. ForServer(m)'
      BY <1>8, <3>2 DEF ForServer
    <3> QED BY <3>2, <3>3, <3>4, <3>5
  <2>2. CASE ~(x.asked /\ x.cfg.cert # "empty")
    <3>1. proof = << >> /\ then = "CCS"
      BY <1>4, <1>5, <2>2 DEF Proves
    <3>2. Path(<< >>, ServerRoad, "CCS", "CCS")
      BY <1>9, PathOfNone
    <3> QED BY <3>1, <3>2, NoMessage
  <2> QED BY <2>1, <2>2
<1>13. /\ Queue(CCSFinished(x)) /\ Path(CCSFinished(x), ServerRoad, "CCS", "app")
       /\ \A m \in ToSet(CCSFinished(x)) : IsMessage(m) /\ ~m.odd /\ ForServer(m)'
  <2>1. /\ Queue(CCSFinished(x)) /\ Path(CCSFinished(x), ServerRoad, "CCS", "app")
        /\ \A m \in ToSet(CCSFinished(x)) :
             /\ IsMessage(m) /\ ~m.odd
             /\ \/ m.type = "CCS" /\ m.key = x.out
                \/ m.type = "Fin" /\ m.key = Keys(x)
    BY <1>4, <1>9, CCSFinishedFlows
  <2>2. \A m \in ToSet(CCSFinished(x)) : ForServer(m)'
    BY <1>6, <1>8, <2>1 DEF ForServer
  <2> QED BY <2>1, <2>2
<1> HIDE DEF own, key, proof, first, then
<1>14. /\ Queue(own \o key) /\ Path(own \o key, ServerRoad, first, then)
       /\ ToSet(own \o key) = ToSet(own) \cup ToSet(key)
  BY <1>10, <1>11, Joined, PathJoined
<1>15. /\ Queue(own \o key \o proof) /\ Path(own \o key \o proof, ServerRoad, first, "CCS")
       /\ ToSet(own \o key \o proof) = ToSet(own) \cup ToSet(key) \cup ToSet(proof)
  BY <1>12, <1>14, Joined, PathJoined
<1>16. /\ Queue(msgs) /\ Path(msgs, ServerRoad, first, "app")
       /\ ToSet(msgs) = ToSet(own) \cup ToSet(key) \cup ToSet(proof) \cup ToSet(CCSFinished(x))
  BY <1>13, <1>15, Joined, PathJoined
<1> HIDE DEF msgs
<1>17. \A m \in ToSet(msgs) : IsMessage(m) /\ ~m.odd /\ ForServer(m)'
  BY <1>10, <1>11, <1>12, <1>13, <1>16
<1>18. ClientMoves(msgs)
  BY <1>1, <1>2, <1>3, <1>4, <1>7, <1>16, <1>17 DEF ClientMoves, ClientGoes
<1>19. << cl.at, Head(s2c).type, cl'.at >> \in ClientRoad
  <2>1. cl'.at = "CCS"
    BY <1>4, <1>7
  <2>2. cl.at = "CR" => ~sv.cfg.asks
    BY <1>1, ClientNext, OnClientRoad
  <2> QED BY <1>1, <2>1, <2>2 DEF ClientRoad
<1>20. ClientFine'
  BY <1>1, <1>4, <1>7, <1>8 DEF Fine, ClientFine
<1>21. cl'.cfg = cl.cfg /\ cl.at # "app"
  BY <1>1, <1>4, <1>7
<1> QED BY <1>2, <1>8, <1>9, <1>16, <1>17, <1>18, <1>19, <1>20, <1>21, ClientFlows

LEMMA ClientReadsFinishedFlows ==
    ASSUME Inv, Inv', Fine, ~damaged, ClientReadsFinished
    PROVE  Fine'
<1>1. up /\ s2c # << >> /\ cl.at = "Fin" /\ Head(s2c).type = "Fin"
  BY DEF ClientReadsFinished, ToClient
<1>2. /\ cl \in Engines(ClientConfigs) /\ cl' \in Engines(ClientConfigs) /\ cl.odd = {} /\ sv.odd = {}
      /\ Answer /\ (cl.resumed <=> ~Sent(cl)) /\ cl.resumed = sv.resumed /\ cl.resumed \in BOOLEAN
  BY <1>1, Undamaged DEF Inv, Typed, Up, ClientIs, Engines
<1>3. Sent(sv) /\ Reads = << sv.ms, sv.odd >> /\ ForClient(Head(s2c))
  BY <1>1, ClientNext DEF ForClient, OfServer, Reads
<1>4. Keys(cl) = Keys(sv) /\ cl.ms = sv.ms
  BY <1>1, <1>2, <1>3, KeysAgree
<1>5. Verified(cl, Reads)
  BY <1>2, <1>3, <1>4 DEF Verified
<1> DEFINE msgs == Answers(cl)
<1>6. ClientGoes([cl EXCEPT !.at = "app", !.out = Keys(cl)], msgs)
  BY <1>5 DEF ClientReadsFinished
<1>7. /\ cl'.at = "app" /\ cl'.out = Keys(cl) /\ n' = n /\ sv' = sv
      /\ << cl'.cfg, cl'.id, cl'.ver, cl'.suite, cl'.ms, cl'.resumed, cl'.random, cl'.in, cl'.odd, cl'.asked >> =
         << cl.cfg, cl.id, cl.ver, cl.suite, cl.ms, cl.resumed, cl.random, cl.in, cl.odd, cl.asked >>
  BY <1>2, <1>6 DEF ClientGoes, Engines
<1>8. Keys(cl)' = Keys(cl) /\ Sent(cl)'
  BY <1>2, <1>7, KeysAre DEF Keys, Sent
<1>9. /\ Queue(msgs) /\ \A m \in ToSet(msgs) : IsMessage(m) /\ ~m.odd /\ ForServer(m)'
      /\ Path(msgs, ServerRoad, IF Sent(cl) THEN "app" ELSE ServerStart, "app")
  <2>1. CASE cl.resumed
    <3>1. msgs = CCSFinished(cl) /\ ServerStart = "CCS" /\ ~Sent(cl) /\ cl.out = Clear
      BY <1>2, <2>1 DEF Answers, ServerStart, Sent
    <3>2. << "CCS", "CCS", "Fin" >> \in ServerRoad /\ << "Fin", "Fin", "app" >> \in ServerRoad
      BY DEF ServerRoad
    <3>3. /\ Queue(CCSFinished(cl)) /\ Path(CCSFinished(cl), ServerRoad, "CCS", "app")
          /\ \A m \in ToSet(CCSFinished(cl)) :
               /\ IsMessage(m) /\ ~m.odd
               /\ \/ m.type = "CCS" /\ m.key = cl.out
                  \/ m.type = "Fin" /\ m.key = Keys(cl)
      BY <1>2, <3>2, CCSFinishedFlows
    <3>4. \A m \in ToSet(CCSFinished(cl)) : ForServer(m)'
      BY <1>8, <3>1, <3>3 DEF ForServer
    <3> HIDE DEF msgs
    <3> QED BY <3>1, <3>3, <3>4
  <2>2. CASE ~cl.resumed
    <3>1. msgs = << >> /\ Sent(cl)
      BY <1>2, <2>2 DEF Answers
    <3>2. Path(<< >>, ServerRoad, "app", "app")
      BY PathOfNone DEF States
    <3> HIDE DEF msgs
    <3> QED BY <3>1, <3>2, NoMessage
  <2> QED BY <2>1, <2>2
<1> HIDE DEF msgs
<1>10. ClientMoves(msgs)
  BY <1>1, <1>2, <1>6, <1>7, <1>9 DEF ClientMoves, ClientGoes
<1>11. << cl.at, Head(s2c).type, cl'.at >> \in ClientRoad
  BY <1>1, <1>7 DEF ClientRoad
<1>12. ClientFine'
  BY <1>1, <1>7, <1>8 DEF Fine, ClientFine
<1>13. cl'.cfg = cl.cfg /\ << cl.id, cl.ver, cl.suite, cl.ms >>' = << cl.id, cl.ver, cl.suite, cl.ms >>
  BY <1>7
<1> QED BY <1>7, <1>8, <1>9, <1>10, <1>11, <1>12, <1>13, ClientFlows

LEMMA RefuseRenegotiationFlows ==
    ASSUME Inv, Inv', Fine, ~damaged, RefuseRenegotiation
    PROVE  Fine'
<1>1. /\ up /\ s2c # << >> /\ cl.at = "app" /\ Head(s2c).type = "HR"
      /\ ClientGoes(cl, << Message("no_renegotiation", cl.out, 0) >>)
  BY DEF RefuseRenegotiation, ToClient
<1>2. cl' = cl /\ n' = n /\ sv' = sv /\ cl \in Engines(ClientConfigs) /\ Sent(cl)
  BY <1>1 DEF ClientGoes, Inv, Typed, Up, ClientIs
<1>3. sv.at \in {"CH again", "failed"}
  BY <1>1, ClientNext DEF ForClient
<1>4. PICK m : m = Message("no_renegotiation", cl.out, 0)
  OBVIOUS
<1>5. IsMessage(m) /\ ~m.odd /\ m.type = "no_renegotiation" /\ m.key = Keys(cl)
  BY <1>2, <1>4, MessageIs DEF Types, Fine, ClientFine
<1>6. ForServer(m)'
  <2>1. Keys(cl)' = Keys(cl) /\ Sent(cl)' = Sent(cl)
    BY <1>2 DEF Keys, Sent
  <2> QED BY <1>1, <1>2, <1>3, <1>5, <2>1 DEF ForServer
<1>7. Path(<< m >>, ServerRoad, "app", "app") /\ Queue(<< m >>) /\ ToSet(<< m >>) = {m}
  <2>1. << "app", "no_renegotiation", "app" >> \in ServerRoad /\ "app" \in States
    BY DEF ServerRoad, States
  <2> QED BY <1>5, <2>1, OneMessage, PathOfOne
<1>8. ClientMoves(<< m >>)
  BY <1>1, <1>2, <1>4, <1>5, <1>7 DEF ClientMoves, ClientGoes
<1>9. << cl.at, Head(s2c).type, cl'.at >> \in ClientRoad
  BY <1>1, <1>2 DEF ClientRoad
<1>10. ClientFine' /\ Sent(cl)' /\ Keys(cl)' = Keys(cl)
  BY <1>2 DEF Fine, ClientFine, Keys, Sent
<1>11. cl'.cfg = cl.cfg /\ << cl.id, cl.ver, cl.suite, cl.ms >>' = << cl.id, cl.ver, cl.suite, cl.ms >>
  BY <1>2
<1>12. \A k \in ToSet(<< m >>) : ForServer(k)'
  BY <1>6, <1>7
<1> QED BY <1>2, <1>7, <1>8, <1>9, <1>10, <1>11, <1>12, ClientFlows

(* The client has no reason to refuse what comes. *)
LEMMA ClientNeverRefuses ==
    ASSUME Inv, Fine, ~damaged, ClientRefuses
    PROVE  FALSE
<1>1. up /\ s2c # << >> /\ (Head(s2c).key # cl.in \/ Head(s2c).type \notin ClientAwaits)
  BY DEF ClientRefuses
<1>2. Head(s2c).key = cl.in
  BY <1>1, ClientNext
<1>3. Head(s2c).type \in ClientAwaits
  BY <1>1, ClientNext, OnClientRoad DEF ClientAwaits
<1> QED BY <1>1, <1>2, <1>3

LEMMA ClientStepFlows ==
    ASSUME Inv, Inv', Lawful, Fine, Meets, ~damaged, ClientStep
    PROVE  Fine'
  BY ReadServerHelloFlows, ReadCertificateFlows, ReadServerKeyExchangeFlows,
     ReadCertificateRequestFlows, ReadServerHelloDoneFlows, ClientReadsCCSFlows,
     ClientReadsFinishedFlows, ClientReadsDataFlows, RefuseRenegotiationFlows,
     ClientNeverRefuses
     DEF ClientStep

---------------------------------------------------------------------------
(* The steps of the server. *)

LEMMA HelloFlows ==
    ASSUME Inv, Fine, ~damaged, NEW msgs, ServerMoves(msgs), sv.at = "CH",
           sv'.cfg = sv.cfg, sv'.at = ServerStart', ServerFine',
           \A m \in ToSet(msgs) : ForClient(m)',
           Path(msgs, ClientRoad', "SH", IF Sent(sv)' THEN "app" ELSE "CCS")
    PROVE  Fine'
<1>1. up /\ c2s # << >> /\ cl' = cl /\ n' = n /\ c2s' = Tail(c2s) /\ s2c' = s2c \o msgs /\ Queue(msgs)
  BY DEF ServerMoves
<1>2. Queue(c2s) /\ ServerIs /\ ClientIs
  BY <1>1 DEF Inv, Wires, Up
<1>3. /\ cl.at = "SH" /\ s2c = << >> /\ Len(c2s) = 1 /\ ~Sent(cl)
  BY <1>2 DEF ServerIs, ClientIs
<1>4. c2s' = << >> /\ s2c' = msgs
  <2>1. Tail(c2s) = << >>
    BY <1>1, <1>2, <1>3, HeadTailOf
  <2>2. << >> \o msgs = msgs
    BY <1>1, NoMessage, Joined
  <2> QED BY <1>1, <1>3, <2>1, <2>2
<1>5. ServerPlace' = ServerStart' /\ sv'.at \in States /\ sv'.at # "CH" /\ ~Sent(cl)'
  <2>1. ServerStart' \in {"CCS", "Cert", "CKE"}
    BY DEF ServerStart
  <2>2. ~Sent(cl)'
    BY <1>1, <1>3 DEF Sent
  <2> QED BY <2>1, <2>2 DEF ServerPlace, Done, States
<1>6. Path(<< >>, ServerRoad', ServerPlace', ServerStart')
  <2>1. PICK R, p : R = ServerRoad' /\ p = ServerPlace'
    OBVIOUS
  <2>2. p \in States /\ p = ServerStart'
    BY <1>5, <2>1
  <2>3. Path(<< >>, R, p, p)
    BY <2>2, PathOfNone
  <2> QED BY <2>1, <2>2, <2>3
<1>7. Ways'
  BY <1>1, <1>3, <1>4, <1>5, <1>6 DEF Ways
<1>8. ClientFine'
  BY <1>1, <1>3 DEF Fine, ClientFine, Sent, Keys
<1> QED BY <1>4, <1>7, <1>8, NoMessage DEF Fine

LEMMA ReadClientHelloFlows ==
    ASSUME Inv, Inv', Lawful, Fine, Meets, ~damaged, ReadClientHello
    PROVE  Fine'
<1> DEFINE h == Got
           x == [sv EXCEPT !.random = << h.random, n >>, !.ver = Least(sv.cfg.max, h.max)]
<1>1. /\ up /\ c2s # << >> /\ sv.at = "CH" /\ Head(c2s).type = "CH"
      /\ IF h.id # None THEN Cache!Load(h.id) ELSE loaded' = NotFound /\ UNCHANGED << room, cache >>
  BY DEF ReadClientHello, ToServer
<1>2. /\ Typed /\ Up /\ Cached /\ ServerIs /\ ClientIs /\ n \in 0..MaxConns /\ n > 0
      /\ Server = sv /\ ~Head(c2s).odd
      /\ sv \in Engines(ServerConfigs) /\ sv' \in Engines(ServerConfigs)
  BY <1>1, Undamaged DEF Inv, Up, Typed
<1>3. /\ cl.at = "SH" /\ OfSession(cl) /\ ~Answering /\ ~Sent(sv) /\ ~sv.resumed /\ sv.auth = "none"
      /\ sv.odd = {}
  BY <1>1, <1>2 DEF ServerIs, ClientIs
<1>4. /\ h \in Hellos /\ h.id \in {None, session.id} /\ h.random = n
      /\ h.max = cl.cfg.max /\ h.suites = cl.cfg.suites
  <2>1. OfClient(Head(c2s)) /\ ForServer(Head(c2s))
    BY <1>1, ServerReads DEF Fine
  <2> QED BY <1>1, <1>2, <2>1 DEF OfClient, ForServer, Got
<1>5. loaded' = NotFound \/ (h.id # None /\ \E m \in ToSet(cache) : m.id = h.id /\ loaded' = m.par)
  BY <1>1, <1>2, HelloLoads
<1>6. IF h.max < sv.cfg.min THEN Alerts(x, "protocol_version")
      ELSE IF Resumable(loaded', h) THEN Resume(x, loaded', h)
      ELSE Full(x, h)
  BY <1>2 DEF ReadClientHello
<1>7. sv.in = Clear /\ sv.out = Clear
  BY <1>1, <1>3 DEF Fine, ServerFine, Sent
<1>8. /\ cl.cfg.max \in Versions /\ sv.cfg.max \in Versions /\ sv.cfg.min \in Versions
      /\ Least(sv.cfg.max, h.max) \in Versions
      /\ Least(sv.cfg.max, h.max) = Least(cl.cfg.max, sv.cfg.max)
  <2>1. cl.cfg.max \in Versions /\ sv.cfg.max \in Versions /\ sv.cfg.min \in Versions
    BY <1>2, HandshakeAssumption DEF Typed, Engines
  <2> QED BY <1>4, <2>1, LeastEitherWay
<1>9. ~(h.max < sv.cfg.min)
  BY <1>4, <1>8 DEF Meets, Common, Least, Versions
<1>10. /\ x \in Engines(ServerConfigs) /\ x.random = << n, n >> /\ x.ver = Least(cl.cfg.max, sv.cfg.max)
       /\ << x.at, x.cfg, x.id, x.in, x.out, x.resumed, x.auth, x.odd >> =
          << sv.at, sv.cfg, sv.id, sv.in, sv.out, sv.resumed, sv.auth, sv.odd >>
  <2>1. h.random \in Int /\ n \in Int
    BY <1>2, <1>4
  <2> QED BY <1>2, <1>4, <1>8, <2>1 DEF Engines, Versions0
<1> HIDE DEF h, x
<1>11. CASE Resumable(loaded', h)
  <2>1. PICK p : p = loaded'
    OBVIOUS
  <2> DEFINE y == [x EXCEPT !.id = h.id, !.ver = p.ver, !.suite = p.suite, !.ms = p.ms,
                            !.auth = p.auth, !.resumed = TRUE, !.at = "CCS"]
  <2>2. Resume(x, p, h) /\ Resumable(p, h)
    BY <1>6, <1>9, <1>11, <2>1
  <2>3. p \in Params /\ h.id # None /\ h.id = session.id
        /\ << p.ver, p.suite, p.ms >> = << session.ver, session.suite, session.ms >>
        /\ p.ver <= cl.cfg.max /\ p.suite \in ToSet(cl.cfg.suites) /\ p.ms \in -1..MaxConns
        /\ h.id \in 0..MaxConns
    <3>1. p # NotFound /\ p.suite \in ToSet(h.suites) /\ p.ver <= h.max
      BY <2>2 DEF Resumable
    <3>2. PICK m \in ToSet(cache) : m.id = h.id /\ p = m.par
      BY <1>5, <2>1, <3>1
    <3>3. Entry(m) /\ h.id # None
      BY <1>2, <1>5, <2>1, <3>1 DEF Cached
    <3> QED BY <1>2, <1>4, <3>1, <3>2, <3>3 DEF Entry, Typed
  <2>4. << h.id, p.ver, p.suite, p.ms >> = << cl.id, cl.ver, cl.suite, cl.ms >>
    BY <1>3, <2>3 DEF OfSession
  <2>5. PICK m : m = ServerHello(y)
    OBVIOUS
  <2> DEFINE first == << m >>
             msgs == first \o CCSFinished(y)
  <2>6. ServerGoes([y EXCEPT !.out = Keys(y)], msgs)
    BY <2>2, <2>5 DEF Resume
  <2>7. y \in Engines(ServerConfigs)
    BY <1>10, <2>3 DEF Engines, Params, States, Auths, Versions0, Suites0
  <2>8. /\ y.id = h.id /\ y.ver = p.ver /\ y.suite = p.suite /\ y.ms = p.ms
        /\ y.resumed /\ y.at = "CCS" /\ y.cfg = sv.cfg /\ y.random = << n, n >> /\ y.odd = {}
        /\ y.in = Clear /\ y.out = Clear
    BY <1>3, <1>7, <1>10 DEF Engines
  <2>9. IsMessage(m) /\ ~m.odd /\ m.type = "SH" /\ m.key = Clear
    BY <2>5, MessageIs DEF ServerHello, Types
  <2> HIDE DEF y
  <2>10. Keys(y) # Clear
    BY <2>7, KeysAre
  <2>11. /\ sv'.out = Keys(y)
         /\ << sv'.at, sv'.cfg, sv'.id, sv'.ver, sv'.suite, sv'.ms, sv'.resumed, sv'.random, sv'.in, sv'.odd >> =
            << y.at, y.cfg, y.id, y.ver, y.suite, y.ms, y.resumed, y.random, y.in, y.odd >>
    BY <2>6, <2>7 DEF ServerGoes, Engines
  <2>12. /\ Keys(sv)' = Keys(y) /\ Sent(sv)' /\ Answering' /\ n' = n /\ cl' = cl
    <3>1. n' = n /\ cl' = cl
      BY <2>6 DEF ServerGoes
    <3> QED BY <2>3, <2>8, <2>10, <2>11, <3>1 DEF Keys, Sent, Answering
  <2>13. PICK R : R = ClientRoad'
    OBVIOUS
  <2>14. << "SH", "SH", "CCS" >> \in R /\ << "CCS", "CCS", "Fin" >> \in R /\ << "Fin", "Fin", "app" >> \in R
         /\ {"SH", "CCS", "Fin", "app"} \subseteq States
    BY <2>8, <2>11, <2>13 DEF ClientRoad, States
  <2>15. Queue(first) /\ ToSet(first) = {m} /\ Path(first, R, "SH", "CCS")
    BY <2>9, <2>14, OneMessage, PathOfOne
  <2>16. /\ Queue(CCSFinished(y)) /\ Path(CCSFinished(y), R, "CCS", "app")
         /\ \A k \in ToSet(CCSFinished(y)) :
              /\ IsMessage(k) /\ ~k.odd
              /\ \/ k.type = "CCS" /\ k.key = y.out
                 \/ k.type = "Fin" /\ k.key = Keys(y)
    BY <2>7, <2>14, CCSFinishedFlows
  <2> HIDE DEF first
  <2>17. Queue(msgs) /\ Path(msgs, R, "SH", "app") /\ ToSet(msgs) = ToSet(first) \cup ToSet(CCSFinished(y))
    BY <2>15, <2>16, Joined, PathJoined
  <2>18. \A k \in ToSet(msgs) : IsMessage(k) /\ ~k.odd /\ ForClient(k)'
    <3>1. ForClient(m)'
      BY <2>9 DEF ForClient
    <3>2. \A k \in ToSet(CCSFinished(y)) : ForClient(k)'
      BY <2>8, <2>12, <2>16 DEF ForClient
    <3> QED BY <2>9, <2>15, <2>16, <2>17, <3>1, <3>2
  <2> HIDE DEF msgs
  <2>19. ServerMoves(msgs)
    BY <1>1, <1>2, <1>3, <2>6, <2>8, <2>11, <2>17, <2>18 DEF ServerMoves, ServerGoes
  <2>20. ServerFine'
    <3>1. /\ sv'.random = << n', n' >> /\ sv'.at = "CCS" /\ sv'.in = Clear /\ sv'.out = Keys(sv)'
          /\ << sv'.id, sv'.ver, sv'.suite, sv'.ms >> = << cl'.id, cl'.ver, cl'.suite, cl'.ms >>
          /\ sv'.ver <= cl'.cfg.max /\ sv'.suite \in ToSet(cl'.cfg.suites) /\ sv'.resumed
      BY <2>3, <2>4, <2>8, <2>11, <2>12
    <3> QED BY <2>12, <3>1 DEF ServerFine
  <2>21. sv'.at = ServerStart' /\ sv'.cfg = sv.cfg
    BY <2>8, <2>11 DEF ServerStart
  <2>22. Path(msgs, ClientRoad', "SH", IF Sent(sv)' THEN "app" ELSE "CCS")
    BY <2>12, <2>13, <2>17
  <2> QED BY <1>1, <2>18, <2>19, <2>20, <2>21, <2>22, HelloFlows
<1>12. CASE ~Resumable(loaded', h)
  <2>1. Full(x, h)
    BY <1>6, <1>9, <1>12
  <2> DEFINE i == Min(Usable(x, h))
             y == [x EXCEPT !.id = n, !.suite = h.suites[i],
                            !.at = IF x.cfg.asks THEN "Cert" ELSE "CKE"]
             signed == IF y.suite \in Signed THEN << Message("SKE", Clear, y.random) >> ELSE << >>
             request == IF x.cfg.asks THEN << Message("CR", Clear, 0) >> ELSE << >>
             last == << Message("SHD", Clear, 0) >>
  <2>2. Usable(x, h) # {} /\ Usable(x, h) \subseteq Nat
    <3>1. PICK suite \in ToSet(cl.cfg.suites) \cap sv.cfg.suites :
            suite \in Tls12Only => Least(cl.cfg.max, sv.cfg.max) = 3
      BY DEF Meets, Common
    <3>2. PICK j \in DOMAIN h.suites : h.suites[j] = suite
      BY <1>4, <3>1 DEF ToSet
    <3>3. j \in Usable(x, h)
      BY <1>10, <3>1, <3>2 DEF Usable
    <3> QED BY <1>4, <3>3 DEF Usable, Hellos
  <2>3. h.suites[i] \in Suites
    <3>1. PICK j : j = i
      OBVIOUS
    <3>2. j \in Usable(x, h)
      BY <2>2, <3>1, LeastOfSet
    <3>3. h.suites[j] \in Suites
      BY <1>4, <3>2 DEF Usable, Hellos
    <3> QED BY <3>1, <3>3
  <2>4. PICK m, c : m = ServerHello(y) /\ c = Message("Cert", Clear, x.cfg.cert)
    OBVIOUS
  <2> DEFINE first == << m, c >>
             msgs == first \o signed \o request \o last
  <2>5. ServerGoes(y, msgs)
    BY <2>1, <2>2, <2>4 DEF Full
  <2> HIDE DEF i
  <2>6. y \in Engines(ServerConfigs)
    <3>1. PICK suite, place : suite = h.suites[i] /\ place = IF x.cfg.asks THEN "Cert" ELSE "CKE"
      OBVIOUS
    <3>2. suite \in Suites0 /\ place \in States /\ n \in 0..MaxConns
      BY <1>2, <2>3, <3>1 DEF Suites0, States
    <3>3. [x EXCEPT !.id = n, !.suite = suite, !.at = place] \in Engines(ServerConfigs)
      BY <1>10, <3>2 DEF Engines
    <3> QED BY <3>1, <3>3
  <2>7. /\ y.id = n /\ y.suite = h.suites[i] /\ y.at = IF x.cfg.asks THEN "Cert" ELSE "CKE"
        /\ y.cfg = sv.cfg /\ x.cfg = sv.cfg /\ ~y.resumed /\ y.auth = "none" /\ y.random = << n, n >>
        /\ y.in = Clear /\ y.out = Clear /\ y.odd = {}
    BY <1>3, <1>7, <1>10 DEF Engines
  <2>8. IsMessage(m) /\ ~m.odd /\ m.type = "SH" /\ m.key = Clear
    BY <2>4, MessageIs DEF ServerHello, Types
  <2>9. IsMessage(c) /\ ~c.odd /\ c.type = "Cert" /\ c.key = Clear /\ c.v = sv.cfg.cert
    BY <2>4, <2>7, MessageIs DEF Types
  <2> HIDE DEF y
  <2>10. sv' = y /\ n' = n /\ cl' = cl
    BY <2>5 DEF ServerGoes
  <2>11. ~Sent(sv)' /\ Answering'
    BY <1>2, <2>7, <2>10 DEF Sent, Answering, None
  <2>12. PICK R : R = ClientRoad'
    OBVIOUS
  <2> DEFINE third == IF y.suite \in Signed THEN "SKE" ELSE "CR"
             fifth == IF x.cfg.asks THEN "SHD" ELSE "CR"
  <2>13. /\ << "SH", "SH", "Cert" >> \in R /\ << "Cert", "Cert", third >> \in R
         /\ << "SKE", "SKE", "CR" >> \in R
         /\ x.cfg.asks => << "CR", "CR", "SHD" >> \in R
         /\ << fifth, "SHD", "CCS" >> \in R
         /\ {"SH", "Cert", "SKE", "CR", "SHD", "CCS"} \subseteq States
    BY <2>7, <2>10, <2>12 DEF ClientRoad, States
  <2>14. /\ Queue(first) /\ Path(first, R, "SH", third)
         /\ \A k \in ToSet(first) : IsMessage(k) /\ ~k.odd /\ ForClient(k)'
    <3>1. third \in States
      BY <2>13
    <3>2. Queue(first) /\ ToSet(first) = {m, c} /\ Path(first, R, "SH", third)
      BY <2>8, <2>9, <2>13, <3>1, PathOfTwo
    <3>3. ForClient(m)' /\ ForClient(c)'
      BY <2>7, <2>8, <2>9, <2>10 DEF ForClient
    <3> HIDE DEF first
    <3> QED BY <2>8, <2>9, <3>2, <3>3
  <2>15. /\ Queue(signed) /\ Path(signed, R, third, "CR")
         /\ \A k \in ToSet(signed) : IsMessage(k) /\ ~k.odd /\ ForClient(k)'
    <3>1. CASE y.suite \in Signed
      <4>1. PICK k : k = Message("SKE", Clear, y.random)
        OBVIOUS
      <4>2. IsMessage(k) /\ ~k.odd /\ k.type = "SKE" /\ k.key = Clear /\ k.v = y.random
        BY <4>1, MessageIs DEF Types
      <4>3. signed = << k >> /\ third = "SKE"
        BY <3>1, <4>1
      <4>4. Queue(<< k >>) /\ ToSet(<< k >>) = {k} /\ Path(<< k >>, R, "SKE", "CR")
        BY <2>13, <4>2, OneMessage, PathOfOne
      <4>5. ForClient(k)'
        BY <2>10, <4>2 DEF ForClient
      <4> QED BY <4>2, <4>3, <4>4, <4>5
    <3>2. CASE y.suite \notin Signed
      <4>1. signed = << >> /\ third = "CR"
        BY <3>2
      <4>2. Path(<< >>, R, "CR", "CR")
        BY <2>13, PathOfNone
      <4> QED BY <4>1, <4>2, NoMessage
    <3> QED BY <3>1, <3>2
  <2>16. /\ Queue(request) /\ Path(request, R, "CR", fifth)
         /\ \A k \in ToSet(request) : IsMessage(k) /\ ~k.odd /\ ForClient(k)'
    <3>1. CASE x.cfg.asks
      <4>1. PICK k : k = Message("CR", Clear, 0)
        OBVIOUS
      <4>2. IsMessage(k) /\ ~k.odd /\ k.type = "CR" /\ k.key = Clear
        BY <4>1, MessageIs DEF Types
      <4>3. request = << k >> /\ fifth = "SHD"
        BY <3>1, <4>1
      <4>4. Queue(<< k >>) /\ ToSet(<< k >>) = {k} /\ Path(<< k >>, R, "CR", "SHD")
        BY <2>13, <3>1, <4>2, OneMessage, PathOfOne
      <4>5. ForClient(k)'
        BY <4>2 DEF ForClient
      <4> QED BY <4>2, <4>3, <4>4, <4>5
    <3>2. CASE ~x.cfg.asks
      <4>1. request = << >> /\ fifth = "CR"
        BY <3>2
      <4>2. Path(<< >>, R, "CR", "CR")
        BY <2>13, PathOfNone
      <4> QED BY <4>1, <4>2, NoMessage
    <3> QED BY <3>1, <3>2
  <2>17. /\ Queue(last) /\ Path(last, R, fifth, "CCS")
         /\ \A k \in ToSet(last) : IsMessage(k) /\ ~k.odd /\ ForClient(k)'
    <3>1. PICK k : k = Message("SHD", Clear, 0)
      OBVIOUS
    <3>2. IsMessage(k) /\ ~k.odd /\ k.type = "SHD" /\ k.key = Clear
      BY <3>1, MessageIs DEF Types
    <3>3. last = << k >> /\ fifth \in States
      BY <2>13, <3>1
    <3>4. Queue(<< k >>) /\ ToSet(<< k >>) = {k} /\ Path(<< k >>, R, fifth, "CCS")
      BY <2>13, <3>2, <3>3, OneMessage, PathOfOne
    <3>5. ForClient(k)'
      BY <3>2 DEF ForClient
    <3> QED BY <3>2, <3>3, <3>4, <3>5
  <2> HIDE DEF first, signed, request, last, third, fifth
  <2>18. /\ Queue(first \o signed) /\ Path(first \o signed, R, "SH", "CR")
         /\ ToSet(first \o signed) = ToSet(first) \cup ToSet(signed)
    BY <2>14, <2>15, Joined, PathJoined
  <2>19. /\ Queue(first \o signed \o request) /\ Path(first \o signed \o request, R, "SH", fifth)
         /\ ToSet(first \o signed \o request) = ToSet(first) \cup ToSet(signed) \cup ToSet(request)
    BY <2>16, <2>18, Joined, PathJoined
  <2>20. /\ Queue(msgs) /\ Path(msgs, R, "SH", "CCS")
         /\ ToSet(msgs) = ToSet(first) \cup ToSet(signed) \cup ToSet(request) \cup ToSet(last)
    BY <2>17, <2>19, Joined, PathJoined
  <2> HIDE DEF msgs
  <2>21. \A k \in ToSet(msgs) : IsMessage(k) /\ ~k.odd /\ ForClient(k)'
    BY <2>14, <2>15, <2>16, <2>17, <2>20
  <2>22. ServerMoves(msgs)
    BY <1>1, <1>3, <2>5, <2>6, <2>7, <2>10, <2>20, <2>21 DEF ServerMoves, ServerGoes
  <2>23. ServerFine'
    <3>1. /\ sv'.random = << n', n' >> /\ sv'.in = Clear /\ ~sv'.resumed /\ sv'.auth = "none"
          /\ sv'.at = IF sv'.cfg.asks THEN "Cert" ELSE "CKE"
      BY <2>7, <2>10
    <3> QED BY <2>11, <3>1 DEF ServerFine
  <2>24. sv'.at = ServerStart' /\ sv'.cfg = sv.cfg
    BY <2>7, <2>10 DEF ServerStart
  <2>25. Path(msgs, ClientRoad', "SH", IF Sent(sv)' THEN "app" ELSE "CCS")
    BY <2>11, <2>12, <2>20
  <2> QED BY <1>1, <2>21, <2>22, <2>23, <2>24, <2>25, HelloFlows
<1> QED BY <1>11, <1>12

LEMMA ServerQuiet ==
    ASSUME Inv, Inv', Fine, ~damaged, up, c2s # << >>, sv.at \notin {"CH", "failed"},
           ServerGoes(sv', << >>), sv'.at # "CH", sv'.odd = sv.odd,
           << sv'.cfg, sv'.id, sv'.ver, sv'.suite, sv'.resumed, sv'.random >> =
           << sv.cfg, sv.id, sv.ver, sv.suite, sv.resumed, sv.random >>,
           Sent(sv)' = Sent(sv), Sent(sv) => sv'.ms = sv.ms,
           sv.at = "CH again" => sv'.at \in {"CH again", "failed"},
           << ServerPlace, Head(c2s).type, ServerPlace' >> \in ServerRoad,
           ServerFine'
    PROVE  Fine'
<1>1. ServerMoves(<< >>)
  BY NoMessage DEF Inv, Typed, ServerMoves, ServerGoes
<1>2. Path(<< >>, ClientRoad, IF Sent(sv) THEN "app" ELSE "CCS", IF Sent(sv)' THEN "app" ELSE "CCS")
  BY PathOfNone DEF States
<1>3. Sent(sv) => Keys(sv)' = Keys(sv)
  BY DEF Keys
<1>4. \A m \in ToSet(<< >>) : ForClient(m)'
  BY NoMessage
<1> QED BY <1>1, <1>2, <1>3, <1>4, ServerFlows

LEMMA ReadClientCertificateFlows ==
    ASSUME Inv, Inv', Fine, Meets, ~damaged, ReadClientCertificate
    PROVE  Fine'
<1>1. up /\ c2s # << >> /\ sv.at = "Cert" /\ Head(c2s).type = "Cert"
  BY DEF ReadClientCertificate, ToServer
<1>2. /\ Server = sv /\ sv \in Engines(ServerConfigs) /\ ServerFine /\ ServerIs /\ ~sv.resumed
      /\ ~Sent(sv) /\ sv.cfg.asks
  BY <1>1, Undamaged DEF Inv, Typed, Up, ServerIs, Fine, ServerFine
<1>3. Got = cl.cfg.cert /\ (Got = "good" \/ sv.cfg.lenient)
  BY <1>1, <1>2, ServerNext DEF ForServer, Got, Meets, Common
<1>4. ServerGoes([sv EXCEPT !.auth = Got, !.at = "CKE"], << >>)
  BY <1>2, <1>3 DEF ReadClientCertificate
<1>5. /\ sv'.at = "CKE" /\ sv'.auth = cl.cfg.cert /\ cl' = cl /\ n' = n
      /\ << sv'.cfg, sv'.id, sv'.ver, sv'.suite, sv'.ms, sv'.resumed, sv'.random, sv'.in, sv'.out, sv'.odd >> =
         << sv.cfg, sv.id, sv.ver, sv.suite, sv.ms, sv.resumed, sv.random, sv.in, sv.out, sv.odd >>
  BY <1>2, <1>3, <1>4 DEF ServerGoes, Engines
<1>6. ServerGoes(sv', << >>)
  BY <1>4 DEF ServerGoes
<1>7. Sent(sv)' = Sent(sv) /\ Answering' = Answering
  BY <1>5 DEF Sent, Answering
<1>8. << ServerPlace, Head(c2s).type, ServerPlace' >> \in ServerRoad
  BY <1>1, <1>5 DEF ServerPlace, Done, ServerRoad
<1>9. ServerFine'
  BY <1>1, <1>2, <1>5, <1>7 DEF ServerFine
<1> QED BY <1>1, <1>5, <1>6, <1>7, <1>8, <1>9, ServerQuiet

LEMMA ReadClientKeyExchangeFlows ==
    ASSUME Inv, Inv', Fine, ~damaged, ReadClientKeyExchange
    PROVE  Fine'
<1>1. up /\ c2s # << >> /\ sv.at = "CKE" /\ Head(c2s).type = "CKE"
  BY DEF ReadClientKeyExchange, ToServer
<1>2. /\ Server = sv /\ sv \in Engines(ServerConfigs) /\ ServerFine /\ ServerIs /\ ~sv.resumed
      /\ ~Sent(sv)
  BY <1>1, Undamaged DEF Inv, Typed, Up, ServerIs, Fine
<1>3. Got = n
  BY <1>1, ServerNext DEF ForServer, Got
<1>4. sv.auth \in {"good", "bad"} <=> Proves
  <2>1. cl.cfg.cert \in {"empty", "good", "bad"}
    BY HandshakeAssumption DEF Inv, Typed, Engines
  <2> QED BY <1>1, <1>2, <2>1 DEF ServerFine, Proves
<1>5. ServerGoes([sv EXCEPT !.ms = n, !.at = IF Proves THEN "CV" ELSE "CCS"], << >>)
  BY <1>2, <1>3, <1>4 DEF ReadClientKeyExchange
<1>6. /\ sv'.at = (IF Proves THEN "CV" ELSE "CCS") /\ sv'.ms = n /\ cl' = cl /\ n' = n
      /\ << sv'.cfg, sv'.id, sv'.ver, sv'.suite, sv'.resumed, sv'.random, sv'.in, sv'.out, sv'.odd >> =
         << sv.cfg, sv.id, sv.ver, sv.suite, sv.resumed, sv.random, sv.in, sv.out, sv.odd >>
  BY <1>2, <1>5 DEF ServerGoes, Engines
<1>7. ServerGoes(sv', << >>)
  BY <1>5 DEF ServerGoes
<1>8. Sent(sv)' = Sent(sv) /\ Answering' = Answering
  BY <1>6 DEF Sent, Answering
<1>9. << ServerPlace, Head(c2s).type, ServerPlace' >> \in ServerRoad
  BY <1>1, <1>6 DEF ServerPlace, Done, ServerRoad
<1>10. ServerFine'
  BY <1>1, <1>2, <1>6, <1>8 DEF ServerFine
<1> QED BY <1>1, <1>2, <1>6, <1>7, <1>8, <1>9, <1>10, ServerQuiet

LEMMA ReadCertificateVerifyFlows ==
    ASSUME Inv, Inv', Fine, ~damaged, ReadCertificateVerify
    PROVE  Fine'
<1>1. up /\ c2s # << >> /\ sv.at = "CV" /\ Head(c2s).type = "CV"
  BY DEF ReadCertificateVerify, ToServer
<1>2. /\ Server = sv /\ sv \in Engines(ServerConfigs) /\ ServerFine /\ ServerIs /\ ~sv.resumed
      /\ ~Sent(sv) /\ sv.odd = {}
  BY <1>1, Undamaged DEF Inv, Typed, Up, ServerIs, Fine
<1>3. Got = {}
  BY <1>1, ServerNext DEF ForServer, Got
<1>4. ServerGoes([sv EXCEPT !.at = "CCS"], << >>)
  BY <1>2, <1>3 DEF ReadCertificateVerify
<1>5. /\ sv'.at = "CCS" /\ cl' = cl /\ n' = n
      /\ << sv'.cfg, sv'.id, sv'.ver, sv'.suite, sv'.ms, sv'.resumed, sv'.random, sv'.in, sv'.out, sv'.odd >> =
         << sv.cfg, sv.id, sv.ver, sv.suite, sv.ms, sv.resumed, sv.random, sv.in, sv.out, sv.odd >>
  BY <1>2, <1>4 DEF ServerGoes, Engines
<1>6. ServerGoes(sv', << >>)
  BY <1>4 DEF ServerGoes
<1>7. Sent(sv)' = Sent(sv) /\ Answering' = Answering
  BY <1>5 DEF Sent, Answering
<1>8. << ServerPlace, Head(c2s).type, ServerPlace' >> \in ServerRoad
  BY <1>1, <1>5 DEF ServerPlace, Done, ServerRoad
<1>9. ServerFine'
  BY <1>1, <1>2, <1>5, <1>7 DEF ServerFine
<1> QED BY <1>1, <1>5, <1>6, <1>7, <1>8, <1>9, ServerQuiet

LEMMA ServerReadsCCSFlows ==
    ASSUME Inv, Inv', Fine, ~damaged, ServerReadsCCS
    PROVE  Fine'
<1>1. up /\ c2s # << >> /\ sv.at = "CCS" /\ Head(c2s).type = "CCS"
  BY DEF ServerReadsCCS, ToServer
<1>2. sv \in Engines(ServerConfigs) /\ ServerFine
  BY DEF Inv, Typed, Fine
<1>4. ServerGoes([sv EXCEPT !.in = Keys(sv), !.at = "Fin"], << >>)
  BY DEF ServerReadsCCS
<1>5. /\ sv'.at = "Fin" /\ sv'.in = Keys(sv) /\ cl' = cl /\ n' = n
      /\ << sv'.cfg, sv'.id, sv'.ver, sv'.suite, sv'.ms, sv'.resumed, sv'.random, sv'.out, sv'.odd >> =
         << sv.cfg, sv.id, sv.ver, sv.suite, sv.ms, sv.resumed, sv.random, sv.out, sv.odd >>
  BY <1>2, <1>4 DEF ServerGoes, Engines
<1>6. ServerGoes(sv', << >>)
  BY <1>4 DEF ServerGoes
<1>7. Sent(sv)' = Sent(sv) /\ Answering' = Answering /\ Keys(sv)' = Keys(sv)
  BY <1>5 DEF Sent, Answering, Keys
<1>8. << ServerPlace, Head(c2s).type, ServerPlace' >> \in ServerRoad
  BY <1>1, <1>5 DEF ServerPlace, Done, ServerRoad
<1>9. ServerFine'
  BY <1>1, <1>2, <1>5, <1>7 DEF ServerFine
<1> QED BY <1>1, <1>5, <1>6, <1>7, <1>8, <1>9, ServerQuiet

LEMMA ServerReadsFinishedFlows ==
    ASSUME Inv, Inv', Fine, ~damaged, ServerReadsFinished
    PROVE  Fine'
<1>1. up /\ c2s # << >> /\ sv.at = "Fin" /\ Head(c2s).type = "Fin"
  BY DEF ServerReadsFinished, ToServer
<1>2. /\ sv \in Engines(ServerConfigs) /\ sv' \in Engines(ServerConfigs) /\ ServerFine
      /\ cl.odd = {} /\ sv.odd = {} /\ (sv.resumed <=> Sent(sv)) /\ sv.resumed \in BOOLEAN
  BY <1>1, Undamaged DEF Inv, Typed, Up, ServerIs, Engines, Fine
<1>3. Sent(cl) /\ Answer /\ Got = << cl.ms, cl.odd >>
  BY <1>1, ServerNext DEF OfClient, Got
<1>4. Keys(cl) = Keys(sv) /\ cl.ms = sv.ms
  BY <1>1, <1>3, KeysAgree
<1>5. Verified(sv, Got)
  BY <1>2, <1>3, <1>4 DEF Verified
<1> DEFINE done == [sv EXCEPT !.at = "app", !.out = Keys(sv)]
           msgs == IF sv.resumed THEN << >> ELSE CCSFinished(sv)
<1>6. ServerGoes(done, msgs)
  BY <1>5 DEF ServerReadsFinished
<1>7. /\ sv'.at = "app" /\ sv'.out = Keys(sv) /\ cl' = cl /\ n' = n
      /\ << sv'.cfg, sv'.id, sv'.ver, sv'.suite, sv'.ms, sv'.resumed, sv'.random, sv'.in, sv'.odd >> =
         << sv.cfg, sv.id, sv.ver, sv.suite, sv.ms, sv.resumed, sv.random, sv.in, sv.odd >>
  BY <1>2, <1>6 DEF ServerGoes, Engines
<1>8. Keys(sv)' = Keys(sv) /\ Sent(sv)' /\ Answering' = Answering
  BY <1>2, <1>7, KeysAre DEF Keys, Sent, Answering
<1>9. /\ Queue(msgs) /\ \A m \in ToSet(msgs) : IsMessage(m) /\ ~m.odd /\ ForClient(m)'
      /\ Path(msgs, ClientRoad, IF Sent(sv) THEN "app" ELSE "CCS", "app")
  <2>1. CASE ~sv.resumed
    <3>1. msgs = CCSFinished(sv) /\ ~Sent(sv) /\ sv.out = Clear
      BY <1>2, <2>1 DEF Sent
    <3>2. << "CCS", "CCS", "Fin" >> \in ClientRoad /\ << "Fin", "Fin", "app" >> \in ClientRoad
      BY DEF ClientRoad
    <3>3. /\ Queue(CCSFinished(sv)) /\ Path(CCSFinished(sv), ClientRoad, "CCS", "app")
          /\ \A m \in ToSet(CCSFinished(sv)) :
               /\ IsMessage(m) /\ ~m.odd
               /\ \/ m.type = "CCS" /\ m.key = sv.out
                  \/ m.type = "Fin" /\ m.key = Keys(sv)
      BY <1>2, <3>2, CCSFinishedFlows
    <3>4. \A m \in ToSet(CCSFinished(sv)) : ForClient(m)'
      BY <1>8, <3>1, <3>3 DEF ForClient
    <3> HIDE DEF msgs
    <3> QED BY <3>1, <3>3, <3>4
  <2>2. CASE sv.resumed
    <3>1. msgs = << >> /\ Sent(sv)
      BY <1>2, <2>2
    <3>2. Path(<< >>, ClientRoad, "app", "app")
      BY PathOfNone DEF States
    <3> HIDE DEF msgs
    <3> QED BY <3>1, <3>2, NoMessage
  <2> QED BY <2>1, <2>2
<1> HIDE DEF msgs, done
<1>10. ServerMoves(msgs)
  BY <1>1, <1>2, <1>6, <1>7, <1>9 DEF ServerMoves, ServerGoes
<1>11. << ServerPlace, Head(c2s).type, ServerPlace' >> \in ServerRoad
  BY <1>1, <1>7 DEF ServerPlace, Done, ServerRoad
<1>12. ServerFine'
  BY <1>1, <1>2, <1>7, <1>8 DEF ServerFine
<1>13. << sv'.cfg, sv'.id, sv'.ver, sv'.suite, sv'.resumed, sv'.random >> =
       << sv.cfg, sv.id, sv.ver, sv.suite, sv.resumed, sv.random >>
  BY <1>7
<1> QED BY <1>1, <1>7, <1>8, <1>9, <1>10, <1>11, <1>12, <1>13, ServerFlows

LEMMA ServerReadsDataFlows ==
    ASSUME Inv, Inv', Fine, ~damaged, ServerReadsData
    PROVE  Fine'
<1>1. up /\ c2s # << >> /\ sv.at = "app" /\ Head(c2s).type = "app" /\ ServerGoes(sv, << >>)
  BY DEF ServerReadsData, ToServer
<1>2. sv' = sv /\ cl' = cl /\ n' = n
  BY <1>1 DEF ServerGoes
<1>3. << ServerPlace, Head(c2s).type, ServerPlace' >> \in ServerRoad
  BY <1>1, <1>2 DEF ServerPlace, Done, ServerRoad
<1>4. ServerFine' /\ Sent(sv)' = Sent(sv)
  BY <1>2 DEF Fine, ServerFine, Sent, Answering, Keys
<1> QED BY <1>1, <1>2, <1>3, <1>4, ServerQuiet

(* The server only refuses what crosses its request to renegotiate; the    *)
(* client is at the end by then.                                           *)
LEMMA ServerRefusesFlows ==
    ASSUME Inv, Inv', Fine, ~damaged, ServerRefuses
    PROVE  Fine'
<1>1. /\ up /\ c2s # << >> /\ sv.at # "failed"
      /\ Head(c2s).key # sv.in \/ Head(c2s).type # sv.at
  BY DEF ServerRefuses
<1>2. sv.at # "CH"
  <2> SUFFICES ASSUME sv.at = "CH" PROVE FALSE
    OBVIOUS
  <2>1. ~Sent(cl) /\ sv.in = Clear /\ ForServer(Head(c2s))
    BY <1>1, ServerReads DEF Inv, Up, ServerIs, ClientIs, Fine, ServerFine
  <2> QED BY <1>1, <2>1 DEF ForServer
<1>3. ForServer(Head(c2s)) /\ Head(c2s).key = sv.in
  BY <1>1, <1>2, ServerNext
<1>4. PICK r : << ServerPlace, Head(c2s).type, r >> \in ServerRoad
  BY <1>1, <1>2, ServerNext
<1>5. PICK p : p = ServerPlace
  OBVIOUS
<1>6. sv.at = "CH again"
  <2>1. CASE sv.at = "app"
    <3>1. p = "app"
      BY <1>5, <2>1 DEF ServerPlace, Done
    <3>2. Head(c2s).type \in {"app", "no_renegotiation"}
      BY <1>4, <1>5, <3>1, OnServerRoad
    <3> QED BY <1>1, <1>3, <2>1, <3>2 DEF ForServer
  <2>2. CASE sv.at \notin {"app", "CH again"}
    <3>1. p = sv.at
      BY <1>1, <1>5, <2>2 DEF ServerPlace, Done
    <3>2. Head(c2s).type = sv.at
      BY <1>4, <1>5, <2>2, <3>1, OnServerRoad
    <3> QED BY <1>1, <1>3, <3>2
  <2> QED BY <2>1, <2>2
<1>7. Head(c2s).type \in {"app", "no_renegotiation"} /\ cl.at = "app"
  <2>1. p = "app"
    BY <1>5, <1>6 DEF ServerPlace, Done
  <2>2. Head(c2s).type \in {"app", "no_renegotiation"}
    BY <1>4, <1>5, <2>1, OnServerRoad
  <2> QED BY <1>3, <2>2 DEF ForServer
<1>8. PICK err : ServerGoes(Fails(sv, err), << >>)
  BY DEF ServerRefuses
<1>9. /\ sv'.at = "failed" /\ cl' = cl /\ n' = n
      /\ << sv'.cfg, sv'.id, sv'.ver, sv'.suite, sv'.ms, sv'.resumed, sv'.random, sv'.in, sv'.out, sv'.odd >> =
         << sv.cfg, sv.id, sv.ver, sv.suite, sv.ms, sv.resumed, sv.random, sv.in, sv.out, sv.odd >>
  <2>1. sv \in Engines(ServerConfigs)
    BY DEF Inv, Typed
  <2> QED BY <1>8, <2>1 DEF ServerGoes, Engines, Fails
<1>10. ServerGoes(sv', << >>)
  BY <1>8 DEF ServerGoes
<1>11. Sent(sv)' = Sent(sv) /\ Answering' = Answering /\ Keys(sv)' = Keys(sv)
  BY <1>9 DEF Sent, Answering, Keys
<1>12. << ServerPlace, Head(c2s).type, ServerPlace' >> \in ServerRoad
  BY <1>6, <1>7, <1>9 DEF ServerPlace, Done, ServerRoad
<1>13. ServerFine'
  BY <1>6, <1>7, <1>9, <1>11 DEF Fine, ServerFine
<1> QED BY <1>1, <1>2, <1>6, <1>9, <1>10, <1>11, <1>12, <1>13, ServerQuiet

LEMMA ServerStepFlows ==
    ASSUME Inv, Inv', Lawful, Fine, Meets, ~damaged, ServerStep
    PROVE  Fine'
  BY ReadClientHelloFlows, ReadClientCertificateFlows, ReadClientKeyExchangeFlows,
     ReadCertificateVerifyFlows, ServerReadsCCSFlows, ServerReadsFinishedFlows,
     ServerReadsDataFlows, ServerRefusesFlows
     DEF ServerStep

---------------------------------------------------------------------------
(* The applications. *)

LEMMA AppendIsJoin ==
    ASSUME NEW q, Queue(q), NEW m
    PROVE  /\ Append(q, m) = q \o << m >> /\ Queue(<< m >>)
           /\ ToSet(q \o << m >>) = ToSet(q) \cup {m}
<1> DEFINE S == ToSet(q) \cup {m}
           r == << m >>
<1>1. q \in Seq(S) /\ m \in S
  BY SeqMonotonic DEF Queue
<1>2. Queue(r) /\ ToSet(r) = {m}
  BY OneMessage
<1> HIDE DEF S
<1>3. Append(q, m) = q \o r
  BY <1>1, AppendIsConcat
<1> HIDE DEF r
<1>4. ToSet(q \o r) = ToSet(q) \cup {m}
  BY <1>2, Joined
<1> QED BY <1>2, <1>3, <1>4 DEF r

LEMMA ConnectFlows ==
    ASSUME Inv, Inv', Connect
    PROVE  Fine'
<1>1. PICK cfg \in ClientConfigs :
        /\ cl' = [Engine(cfg) EXCEPT !.at = "SH", !.id = session.id, !.ver = session.ver,
                    !.suite = session.suite, !.ms = session.ms, !.auth = session.auth,
                    !.random = << n + 1, 0 >>]
        /\ c2s' = << Message("CH", Clear, [max |-> cfg.max, id |-> session.id,
                                           suites |-> cfg.suites, random |-> n + 1]) >>
  BY DEF Connect
<1>2. n' = n + 1 /\ sv' = [Engine(sv.cfg) EXCEPT !.at = "CH"] /\ s2c' = << >>
  BY DEF Connect, Inv, Down
<1>3. /\ cl'.at = "SH" /\ cl'.random = << n + 1, 0 >> /\ cl'.in = Clear /\ cl'.out = Clear
      /\ ~cl'.asked
  BY <1>1 DEF Engine
<1>4. /\ sv'.at = "CH" /\ sv'.id = None /\ sv'.in = Clear /\ sv'.out = Clear /\ ~sv'.resumed
  BY <1>2 DEF Engine
<1>5. ~Sent(cl)' /\ ~Sent(sv)' /\ ~Answering'
  BY <1>3, <1>4 DEF Sent, Answering
<1>6. ClientFine'
  BY <1>2, <1>3, <1>5 DEF ClientFine
<1>7. ServerFine' /\ Ways'
  BY <1>4, <1>5 DEF ServerFine, Ways
<1>8. PICK m : m = Message("CH", Clear, [max |-> cfg.max, id |-> session.id,
                                         suites |-> cfg.suites, random |-> n + 1])
  OBVIOUS
<1>9. ForServer(m)'
  <2>1. m.type = "CH" /\ m.key = Clear /\ m.v.random = n + 1
    BY <1>8 DEF Message
  <2> QED BY <1>2, <2>1 DEF ForServer
<1>10. ToSet(c2s') = {m}
  BY <1>1, <1>8, OneMessage
<1> QED BY <1>2, <1>6, <1>7, <1>9, <1>10, NoMessage DEF Fine

LEMMA ClientSaysFlows ==
    ASSUME Inv, Inv', Fine, ~damaged, ClientSays
    PROVE  Fine'
<1>1. PICK m : m = Message("app", cl.out, 0)
  OBVIOUS
<1>2. /\ up /\ cl.at = "app" /\ cl' = [cl EXCEPT !.said = TRUE] /\ c2s' = Append(c2s, m)
      /\ n' = n /\ sv' = sv /\ s2c' = s2c
  BY <1>1 DEF ClientSays
<1>3. cl \in Engines(ClientConfigs) /\ Queue(c2s) /\ Sent(cl) /\ sv.at # "CH"
  BY <1>2 DEF Inv, Typed, Wires, Up, ClientIs, ServerIs
<1>4. << cl'.at, cl'.cfg, cl'.id, cl'.ver, cl'.suite, cl'.ms, cl'.resumed, cl'.random, cl'.in, cl'.out, cl'.asked >> =
      << cl.at, cl.cfg, cl.id, cl.ver, cl.suite, cl.ms, cl.resumed, cl.random, cl.in, cl.out, cl.asked >>
  BY <1>2, <1>3 DEF Engines
<1>5. /\ Sent(cl)' = Sent(cl) /\ Keys(cl)' = Keys(cl) /\ Sent(sv)' = Sent(sv) /\ Keys(sv)' = Keys(sv)
      /\ Answering' = Answering
      /\ ClientRoad' = ClientRoad /\ ServerRoad' = ServerRoad /\ ServerStart' = ServerStart
      /\ ServerPlace' = ServerPlace
  BY <1>2, <1>4 DEF Sent, Keys, Answering, ClientRoad, ServerRoad, Proves, ServerStart, ServerPlace
<1>6. m.type = "app" /\ m.key = Keys(cl)
  BY <1>1, <1>3 DEF Message, Fine, ClientFine
<1>7. c2s' = c2s \o << m >> /\ Queue(<< m >>) /\ ToSet(c2s') = ToSet(c2s) \cup {m}
  BY <1>2, <1>3, AppendIsJoin
<1>8. Path(c2s', ServerRoad, ServerPlace, "app")
  <2>1. Path(c2s, ServerRoad, ServerPlace, "app")
    BY <1>3 DEF Fine, Ways
  <2>2. Path(<< m >>, ServerRoad, "app", "app")
    <3>1. << "app", "app", "app" >> \in ServerRoad /\ "app" \in States
      BY DEF ServerRoad, States
    <3> QED BY <1>6, <3>1, PathOfOne
  <2> QED BY <1>3, <1>7, <2>1, <2>2, PathJoined
<1>9. Ways'
  BY <1>2, <1>3, <1>4, <1>5, <1>8 DEF Fine, Ways
<1>10. ClientFine'
  BY <1>2, <1>4, <1>5 DEF Fine, ClientFine
<1>11. ServerFine'
  BY <1>2, <1>4, <1>5 DEF Fine, ServerFine
<1>12. \A k \in ToSet(s2c') : ForClient(k)'
  BY <1>2, <1>5 DEF Fine, ForClient
<1>13. \A k \in ToSet(c2s') : ForServer(k)'
  <2>1. ForServer(m)
    BY <1>2, <1>3, <1>6 DEF ForServer
  <2>2. \A k \in ToSet(c2s') : ForServer(k)
    BY <1>7, <2>1 DEF Fine
  <2> QED BY <1>2, <1>4, <1>5, <2>2 DEF ForServer
<1> QED BY <1>9, <1>10, <1>11, <1>12, <1>13 DEF Fine

\* A server that goes over to application data writes this one more.
WritesOn(m) ==
  /\ up /\ sv.at = "app" /\ m.type \in {"app", "HR"} /\ m.key = sv.out
  /\ s2c' = Append(s2c, m) /\ n' = n /\ cl' = cl /\ c2s' = c2s
  /\ sv'.at \in {"app", "CH again"} /\ (m.type = "HR" => sv'.at = "CH again")
  /\ << sv'.cfg, sv'.id, sv'.ver, sv'.suite, sv'.ms, sv'.resumed, sv'.random, sv'.in, sv'.out >> =
     << sv.cfg, sv.id, sv.ver, sv.suite, sv.ms, sv.resumed, sv.random, sv.in, sv.out >>

LEMMA ServerWritesOn ==
    ASSUME Inv, Fine, ~damaged, NEW m, WritesOn(m)
    PROVE  Fine'
<1> USE DEF WritesOn
<1>1. Queue(s2c) /\ Sent(sv)
  BY DEF Inv, Wires, Up, ServerIs
<1>2. /\ Sent(cl)' = Sent(cl) /\ Keys(cl)' = Keys(cl) /\ Sent(sv)' = Sent(sv) /\ Keys(sv)' = Keys(sv)
      /\ Answering' = Answering
      /\ ClientRoad' = ClientRoad /\ ServerRoad' = ServerRoad /\ ServerStart' = ServerStart
      /\ ServerPlace' = ServerPlace
  BY DEF Sent, Keys, Answering, ClientRoad, ServerRoad, Proves, ServerStart, ServerPlace, Done
<1>3. m.key = Keys(sv)
  BY <1>1 DEF Fine, ServerFine
<1>4. s2c' = s2c \o << m >> /\ Queue(<< m >>) /\ ToSet(s2c') = ToSet(s2c) \cup {m}
  BY <1>1, AppendIsJoin
<1>5. Path(s2c', ClientRoad, cl.at, "app")
  <2>1. Path(s2c, ClientRoad, cl.at, "app")
    BY <1>1 DEF Fine, Ways
  <2>2. Path(<< m >>, ClientRoad, "app", "app")
    <3>1. << "app", m.type, "app" >> \in ClientRoad /\ "app" \in States
      BY DEF ClientRoad, States
    <3> QED BY <3>1, PathOfOne
  <2> QED BY <1>1, <1>4, <2>1, <2>2, PathJoined
<1>6. Ways'
  BY <1>1, <1>2, <1>5 DEF Fine, Ways
<1>7. ClientFine'
  BY <1>2 DEF Fine, ClientFine
<1>8. ServerFine'
  BY <1>2 DEF Fine, ServerFine
<1>9. \A k \in ToSet(c2s') : ForServer(k)'
  BY <1>2 DEF Fine, ForServer
<1>10. \A k \in ToSet(s2c') : ForClient(k)'
  <2>1. ForClient(m)'
    BY <1>1, <1>2, <1>3 DEF ForClient
  <2>2. \A k \in ToSet(s2c) : ForClient(k)'
    BY <1>2 DEF Fine, ForClient
  <2> QED BY <1>4, <2>1, <2>2
<1> QED BY <1>6, <1>7, <1>8, <1>9, <1>10 DEF Fine

LEMMA ServerSaysFlows ==
    ASSUME Inv, Inv', Fine, ~damaged, ServerSays
    PROVE  Fine'
<1>1. PICK m : m = Message("app", sv.out, 0)
  OBVIOUS
<1>2. /\ up /\ sv.at = "app" /\ sv' = [sv EXCEPT !.said = TRUE] /\ s2c' = Append(s2c, m)
      /\ n' = n /\ cl' = cl /\ c2s' = c2s
  BY <1>1 DEF ServerSays
<1>3. sv \in Engines(ServerConfigs)
  BY DEF Inv, Typed
<1>4. /\ sv'.at = "app"
      /\ << sv'.cfg, sv'.id, sv'.ver, sv'.suite, sv'.ms, sv'.resumed, sv'.random, sv'.in, sv'.out >> =
         << sv.cfg, sv.id, sv.ver, sv.suite, sv.ms, sv.resumed, sv.random, sv.in, sv.out >>
  BY <1>2, <1>3 DEF Engines
<1>5. m.type = "app" /\ m.key = sv.out
  BY <1>1 DEF Message
<1>6. m.type \in {"app", "HR"} /\ sv'.at \in {"app", "CH again"}
      /\ (m.type = "HR" => sv'.at = "CH again")
  BY <1>4, <1>5
<1>7. WritesOn(m)
  BY <1>2, <1>4, <1>5, <1>6 DEF WritesOn
<1> QED BY <1>7, ServerWritesOn

LEMMA RequestRenegotiationFlows ==
    ASSUME Inv, Inv', Fine, ~damaged, RequestRenegotiation
    PROVE  Fine'
<1>1. PICK m : m = Message("HR", sv.out, 0)
  OBVIOUS
<1>2. /\ up /\ sv.at = "app" /\ sv' = [sv EXCEPT !.at = "CH again"] /\ s2c' = Append(s2c, m)
      /\ n' = n /\ cl' = cl /\ c2s' = c2s
  BY <1>1 DEF RequestRenegotiation
<1>3. sv \in Engines(ServerConfigs)
  BY DEF Inv, Typed
<1>4. /\ sv'.at = "CH again"
      /\ << sv'.cfg, sv'.id, sv'.ver, sv'.suite, sv'.ms, sv'.resumed, sv'.random, sv'.in, sv'.out >> =
         << sv.cfg, sv.id, sv.ver, sv.suite, sv.ms, sv.resumed, sv.random, sv.in, sv.out >>
  BY <1>2, <1>3 DEF Engines
<1>5. m.type = "HR" /\ m.key = sv.out
  BY <1>1 DEF Message
<1>6. m.type \in {"app", "HR"} /\ sv'.at \in {"app", "CH again"}
      /\ (m.type = "HR" => sv'.at = "CH again")
  BY <1>4, <1>5
<1>7. WritesOn(m)
  BY <1>2, <1>4, <1>5, <1>6 DEF WritesOn
<1> QED BY <1>7, ServerWritesOn

---------------------------------------------------------------------------
(* What the steps of either end leave alone. *)

LEMMA ClientStepIs ==
    ASSUME Inv, ClientStep
    PROVE  /\ up /\ up' = up /\ damaged' = damaged /\ sv' = sv /\ cl'.cfg = cl.cfg
           /\ \/ session' = session /\ << cl'.ver, cl'.suite, cl'.random >> = << cl.ver, cl.suite, cl.random >>
              \/ session' = session /\ Rule(cl')
              \/ /\ cl.at = "Fin" /\ session'.ver = cl.ver /\ session'.suite = cl.suite
                 /\ << cl'.ver, cl'.suite, cl'.random >> = << cl.ver, cl.suite, cl.random >>
<1>1. up /\ s2c # << >>
  BY DEF ClientStep, ReadServerHello, ReadCertificate, ReadServerKeyExchange,
         ReadCertificateRequest, ReadServerHelloDone, ClientReadsCCS, ClientReadsFinished,
         ClientReadsData, RefuseRenegotiation, ClientRefuses, ToClient
<1>2. PICK z : z = Client
  OBVIOUS
<1>3. /\ cl \in Engines(ClientConfigs) /\ z \in Engines(ClientConfigs)
      /\ z.cfg = cl.cfg /\ z.ver = cl.ver /\ z.suite = cl.suite /\ z.random = cl.random
  BY <1>1, <1>2, ClientReads DEF Rest
<1>4. up' = up /\ damaged' = damaged /\ sv' = sv
  BY DEF ClientStep, ReadServerHello, ReadCertificate, ReadServerKeyExchange,
         ReadCertificateRequest, ReadServerHelloDone, ClientReadsCCS, ClientReadsFinished,
         ClientReadsData, RefuseRenegotiation, ClientRefuses, ClientGoes
<1> DEFINE Same == /\ cl'.cfg = cl.cfg
                   /\ << cl'.ver, cl'.suite, cl'.random >> = << cl.ver, cl.suite, cl.random >>
<1>5. ASSUME NEW err, cl' = Fails(z, err) \/ cl' = Fails(cl, err) PROVE Same
  BY <1>3, <1>5 DEF Fails, Engines
<1>6. CASE ReadServerHello
  <2>1. session' = session
    BY <1>6 DEF ReadServerHello
  <2>2. CASE HelloError(Reads) # "none"
    <3>1. cl' = Fails(z, HelloError(Reads))
      BY <1>2, <1>6, <2>2 DEF ReadServerHello, ClientGoes
    <3>2. Same
      BY <1>3, <3>1 DEF Fails, Engines
    <3> QED BY <1>1, <1>4, <2>1, <3>2
  <2>3. CASE HelloError(Reads) = "none"
    <3>1. PICK h : h = Reads
      OBVIOUS
    <3>2. cl' = [z EXCEPT
                  !.ver = h.ver, !.suite = h.suite, !.id = h.id, !.random = << @[1], h.random >>,
                  !.resumed = Resumes(h), !.at = IF Resumes(h) THEN "CCS" ELSE "Cert"]
      BY <1>2, <1>6, <2>3, <3>1 DEF ReadServerHello, ClientGoes
    <3>3. cl'.ver = h.ver /\ cl'.suite = h.suite /\ cl'.cfg = cl.cfg
      BY <1>3, <3>2 DEF Engines
    <3>4. h.ver \in cl.cfg.min..cl.cfg.max /\ ~(h.suite \in Tls12Only /\ h.ver < 3)
      BY <2>3, <3>1 DEF HelloError
    <3>5. cl.cfg.min \in Versions /\ cl.cfg.max \in Versions
      BY <1>3, HandshakeAssumption DEF Engines
    <3>6. h.ver \in Int /\ h.ver <= 3
      BY <3>4, <3>5 DEF Versions
    <3>7. h.suite \in Tls12Only => h.ver = 3
      BY <3>4, <3>6
    <3>8. Rule(cl')
      BY <3>3, <3>7 DEF Rule
    <3> QED BY <1>1, <1>4, <2>1, <3>3, <3>8
  <2> QED BY <2>2, <2>3
<1>7. CASE ReadCertificate
  <2>1. \/ cl' = [z EXCEPT !.auth = Reads, !.at = IF cl.suite \in Signed THEN "SKE" ELSE "CR"]
        \/ cl' = Fails(z, "X509")
    BY <1>2, <1>7 DEF ReadCertificate, ClientGoes
  <2>2. Same
    BY <1>3, <1>5, <2>1 DEF Engines
  <2> QED BY <1>1, <1>4, <1>7, <2>2 DEF ReadCertificate
<1>8. CASE ReadServerKeyExchange
  <2>1. cl' = [z EXCEPT !.at = "CR"] \/ cl' = Fails(z, "BAD_SIGNATURE")
    BY <1>2, <1>8 DEF ReadServerKeyExchange, ClientGoes
  <2>2. Same
    BY <1>3, <1>5, <2>1 DEF Engines
  <2> QED BY <1>1, <1>4, <1>8, <2>2 DEF ReadServerKeyExchange
<1>9. CASE ReadCertificateRequest
  <2>1. cl' = [z EXCEPT !.at = "SHD", !.asked = TRUE]
    BY <1>2, <1>9 DEF ReadCertificateRequest, ClientGoes
  <2>2. Same
    BY <1>3, <2>1 DEF Engines
  <2> QED BY <1>1, <1>4, <1>9, <2>2 DEF ReadCertificateRequest
<1>10. CASE ReadServerHelloDone
  <2>1. PICK x : x = [z EXCEPT !.ms = n, !.at = "CCS"]
    OBVIOUS
  <2>2. cl' = [x EXCEPT !.out = Keys(x)]
    BY <1>2, <1>10, <2>1 DEF ReadServerHelloDone, ClientGoes
  <2>3. Same
    BY <1>3, <2>1, <2>2 DEF Engines
  <2> QED BY <1>1, <1>4, <1>10, <2>3 DEF ReadServerHelloDone
<1>11. CASE ClientReadsCCS
  <2>1. cl' = [cl EXCEPT !.in = Keys(cl), !.at = "Fin"]
    BY <1>11 DEF ClientReadsCCS, ClientGoes
  <2>2. Same
    BY <1>3, <2>1 DEF Engines
  <2> QED BY <1>1, <1>4, <1>11, <2>2 DEF ClientReadsCCS
<1>12. CASE ClientReadsFinished
  <2>1. CASE Verified(cl, Reads)
    <3>1. /\ cl' = [cl EXCEPT !.at = "app", !.out = Keys(cl)]
          /\ session'.ver = cl.ver /\ session'.suite = cl.suite /\ cl.at = "Fin"
      BY <1>12, <2>1 DEF ClientReadsFinished, ClientGoes
    <3>2. Same
      BY <1>3, <3>1 DEF Engines
    <3> QED BY <1>1, <1>4, <3>1, <3>2
  <2>2. CASE ~Verified(cl, Reads)
    <3>1. cl' = Fails(cl, "BAD_FINISHED") /\ session' = session
      BY <1>12, <2>2 DEF ClientReadsFinished, ClientGoes
    <3>2. Same
      BY <1>3, <3>1 DEF Fails, Engines
    <3> QED BY <1>1, <1>4, <3>1, <3>2
  <2> QED BY <2>1, <2>2
<1>13. CASE ClientReadsData \/ RefuseRenegotiation
  BY <1>1, <1>4, <1>13 DEF ClientReadsData, RefuseRenegotiation, ClientGoes
<1>14. CASE ClientRefuses
  <2>1. PICK err : cl' = Fails(cl, err)
    BY <1>14 DEF ClientRefuses, ClientGoes
  <2>2. Same
    BY <1>3, <2>1 DEF Fails, Engines
  <2> QED BY <1>1, <1>4, <1>14, <2>2 DEF ClientRefuses
<1> QED BY <1>6, <1>7, <1>8, <1>9, <1>10, <1>11, <1>12, <1>13, <1>14 DEF ClientStep

LEMMA ServerStepIs ==
    ASSUME Inv, ServerStep
    PROVE  /\ up /\ up' = up /\ damaged' = damaged /\ cl' = cl /\ session' = session
           /\ sv'.cfg = sv.cfg /\ (sv.at # "CH" => sv'.resumed = sv.resumed /\ sv'.id = sv.id)
           /\ sv.at = "CH" /\ sv'.resumed => sv'.id # None
<1>1. up /\ c2s # << >>
  BY DEF ServerStep, ReadClientHello, ReadClientCertificate, ReadClientKeyExchange,
         ReadCertificateVerify, ServerReadsCCS, ServerReadsFinished, ServerReadsData,
         ServerRefuses, ToServer
<1>2. PICK z : z = Server
  OBVIOUS
<1>3. /\ sv \in Engines(ServerConfigs) /\ z \in Engines(ServerConfigs)
      /\ z.cfg = sv.cfg /\ z.resumed = sv.resumed /\ z.id = sv.id
  BY <1>1, <1>2, ServerReads DEF Rest
<1> DEFINE Same == /\ sv'.cfg = sv.cfg /\ sv'.resumed = sv.resumed /\ sv'.id = sv.id
                   /\ (sv.at = "CH" => ~sv.resumed)
<1>0. sv.at = "CH" => ~sv.resumed
  BY <1>1 DEF Inv, Up, ServerIs
<1>4. ASSUME NEW err, sv' = Fails(z, err) \/ sv' = Fails(sv, err) PROVE Same
  BY <1>0, <1>3, <1>4 DEF Fails, Engines
<1>5. CASE ReadClientHello
  <2>1. PICK h : h = Got
    OBVIOUS
  <2>2. PICK x : x = [z EXCEPT !.random = << h.random, n >>, !.ver = Least(sv.cfg.max, h.max)]
    OBVIOUS
  <2>3. \/ Alerts(x, "protocol_version") \/ Resume(x, loaded', h) \/ Full(x, h)
    BY <1>2, <1>5, <2>1, <2>2 DEF ReadClientHello
  <2>4. x.cfg = sv.cfg /\ DOMAIN x = DOMAIN z
    BY <1>3, <2>2 DEF Engines
  <2>5. DOMAIN z = {"at", "cfg", "err", "id", "ver", "suite", "ms", "auth", "resumed", "random",
                    "in", "out", "odd", "asked", "said"}
    BY <1>3 DEF Engines
  <2>6. sv'.cfg = sv.cfg /\ up' = up /\ damaged' = damaged /\ cl' = cl /\ session' = session
    BY <2>3, <2>4, <2>5 DEF Alerts, Resume, Full, Fails, ServerGoes
  <2>7. sv'.resumed => sv'.id # None
    <3>1. ~x.resumed
      BY <1>0, <1>3, <1>5, <2>2 DEF ReadClientHello, Engines
    <3>2. CASE Alerts(x, "protocol_version") \/ Alerts(x, "handshake_failure")
      BY <2>4, <2>5, <3>1, <3>2 DEF Alerts, Fails, ServerGoes
    <3>3. CASE Resumable(loaded', h) /\ Resume(x, loaded', h)
      <4>1. h.id # None
        BY <1>5, <2>1, <3>3 DEF ReadClientHello, Resumable
      <4>2. sv'.id = h.id
        BY <2>4, <2>5, <3>3 DEF Resume, ServerGoes
      <4> QED BY <4>1, <4>2
    <3>4. CASE Full(x, h) /\ ~Alerts(x, "handshake_failure")
      BY <2>4, <2>5, <3>1, <3>4 DEF Full, ServerGoes
    <3> QED BY <1>2, <1>5, <2>1, <2>2, <3>2, <3>3, <3>4 DEF ReadClientHello
  <2> QED BY <1>1, <1>5, <2>6, <2>7 DEF ReadClientHello
<1>6. CASE ReadClientCertificate
  <2>1. /\ \/ sv' = [z EXCEPT !.auth = Got, !.at = "CKE"]
           \/ sv' = Fails(z, "X509") \/ sv' = Fails(z, "NO_CLIENT_AUTH")
        /\ up' = up /\ damaged' = damaged /\ cl' = cl /\ session' = session
    BY <1>2, <1>6 DEF ReadClientCertificate, ServerGoes
  <2>2. Same
    BY <1>0, <1>3, <1>4, <2>1 DEF Engines
  <2> QED BY <1>1, <2>1, <2>2
<1>7. CASE ReadClientKeyExchange
  <2>1. /\ sv' = [z EXCEPT !.ms = Got, !.at = IF sv.auth \in {"good", "bad"} THEN "CV" ELSE "CCS"]
        /\ up' = up /\ damaged' = damaged /\ cl' = cl /\ session' = session
    BY <1>2, <1>7 DEF ReadClientKeyExchange, ServerGoes
  <2>2. Same
    BY <1>0, <1>3, <2>1 DEF Engines
  <2> QED BY <1>1, <2>1, <2>2
<1>8. CASE ReadCertificateVerify
  <2>1. /\ sv' = [z EXCEPT !.at = "CCS"] \/ sv' = Fails(z, "BAD_SIGNATURE")
        /\ up' = up /\ damaged' = damaged /\ cl' = cl /\ session' = session
    BY <1>2, <1>8 DEF ReadCertificateVerify, ServerGoes
  <2>2. Same
    BY <1>0, <1>3, <1>4, <2>1 DEF Engines
  <2> QED BY <1>1, <2>1, <2>2
<1>9. CASE ServerReadsCCS
  <2>1. /\ sv' = [sv EXCEPT !.in = Keys(sv), !.at = "Fin"]
        /\ up' = up /\ damaged' = damaged /\ cl' = cl /\ session' = session
    BY <1>9 DEF ServerReadsCCS, ServerGoes
  <2>2. Same
    BY <1>0, <1>3, <2>1 DEF Engines
  <2> QED BY <1>1, <2>1, <2>2
<1>10. CASE ServerReadsFinished
  <2>1. /\ sv' = [sv EXCEPT !.at = "app", !.out = Keys(sv)] \/ sv' = Fails(sv, "BAD_FINISHED")
        /\ up' = up /\ damaged' = damaged /\ cl' = cl /\ session' = session
    BY <1>10 DEF ServerReadsFinished, ServerGoes
  <2>2. Same
    BY <1>0, <1>3, <1>4, <2>1 DEF Engines
  <2> QED BY <1>1, <2>1, <2>2
<1>11. CASE ServerReadsData
  BY <1>0, <1>1, <1>11 DEF ServerReadsData, ServerGoes
<1>12. CASE ServerRefuses
  <2>1. PICK err : sv' = Fails(sv, err)
    BY <1>12 DEF ServerRefuses, ServerGoes
  <2>2. Same
    BY <1>0, <1>3, <2>1 DEF Fails, Engines
  <2> QED BY <1>1, <1>12, <2>2 DEF ServerRefuses, ServerGoes
<1> QED BY <1>5, <1>6, <1>7, <1>8, <1>9, <1>10, <1>11, <1>12 DEF ServerStep

LEMMA SameRule ==
    ASSUME Lawful, up' => up, << cl'.ver, cl'.suite, cl'.random >> = << cl.ver, cl.suite, cl.random >>,
           session' = session \/ Rule(session'),
           sv'.resumed => sv.resumed /\ sv'.id = sv.id
    PROVE  Lawful'
<1>1. cl'.ver = cl.ver /\ cl'.suite = cl.suite /\ cl'.random = cl.random
  OBVIOUS
<1>2. up' /\ Answer' => Rule(cl')
  BY <1>1 DEF Lawful, Answer, Rule
<1>3. session'.id # None => Rule(session')
  BY DEF Lawful, Rule
<1>4. sv'.resumed => Answering'
  BY DEF Lawful, Answering
<1> QED BY <1>2, <1>3, <1>4 DEF Lawful

LEMMA LawfulKeeps ==
    ASSUME Inv, Lawful, [Next]_vars
    PROVE  Lawful'
<1>1. CASE ClientStep
  <2>1. CASE Rule(cl') /\ session' = session
    <3>1. sv' = sv
      BY <1>1, ClientStepIs
    <3> QED BY <2>1, <3>1 DEF Lawful, Rule, Answering
  <2>2. CASE /\ cl.at = "Fin" /\ session'.ver = cl.ver /\ session'.suite = cl.suite
             /\ << cl'.ver, cl'.suite, cl'.random >> = << cl.ver, cl.suite, cl.random >>
    <3>1. up /\ Rule(cl)
      BY <1>1, <2>2, ClientStepIs DEF Inv, Up, ClientIs, Lawful
    <3>2. Rule(session')
      BY <2>2, <3>1 DEF Rule
    <3> QED BY <1>1, <2>2, <3>1, <3>2, ClientStepIs, SameRule
  <2>3. CASE session' = session /\ << cl'.ver, cl'.suite, cl'.random >> = << cl.ver, cl.suite, cl.random >>
    BY <1>1, <2>3, ClientStepIs, SameRule
  <2> QED BY <1>1, <2>1, <2>2, <2>3, ClientStepIs
<1>2. CASE ServerStep
  <2>1. sv'.resumed => Answering'
    <3>1. CASE sv.at = "CH"
      BY <1>2, <3>1, ServerStepIs DEF Answering
    <3>2. CASE sv.at # "CH"
      BY <1>2, <3>2, ServerStepIs DEF Answering, Lawful
    <3> QED BY <3>1, <3>2
  <2>2. up /\ cl' = cl /\ session' = session
    BY <1>2, ServerStepIs
  <2> QED BY <2>1, <2>2 DEF Lawful, Rule, Answer
<1>3. CASE Connect
  <2>1. cl'.random = << n + 1, 0 >>
    BY <1>3 DEF Connect, Engine
  <2>2. ~Answer' /\ session' = session /\ ~sv'.resumed
    BY <1>3, <2>1 DEF Connect, Answer, Engine
  <2> QED BY <2>2 DEF Lawful, Rule
<1>4. CASE ClientSays
  <2>1. << cl'.ver, cl'.suite, cl'.random >> = << cl.ver, cl.suite, cl.random >>
    BY <1>4 DEF ClientSays, Inv, Typed, Engines
  <2> QED BY <1>4, <2>1, SameRule DEF ClientSays
<1>5. CASE SetSession
  <2>1. session' = NoSession /\ ~up' /\ sv' = sv
    BY <1>5 DEF SetSession, wire
  <2> QED BY <2>1 DEF NoSession, Lawful, Answering
<1>6. CASE Hangup \/ Restart
  <2>1. ~up' /\ session' = session /\ ~sv'.resumed
    BY <1>6 DEF Hangup, Restart, Engine, wire
  <2> QED BY <2>1 DEF Lawful, Rule
<1>7. CASE ServerSays \/ RequestRenegotiation
  <2>1. cl' = cl /\ session' = session /\ up
    BY <1>7 DEF ServerSays, RequestRenegotiation
  <2>2. sv'.resumed = sv.resumed /\ sv'.id = sv.id
    BY <1>7 DEF ServerSays, RequestRenegotiation, Inv, Typed, Engines
  <2> QED BY <2>1, <2>2, SameRule
<1>8. CASE ForgetInCache \/ Damage \/ UNCHANGED vars
  <2>1. cl' = cl /\ sv' = sv /\ session' = session /\ (up' => up)
    <3>1. CASE ForgetInCache
      BY <3>1 DEF ForgetInCache, wire
    <3>2. CASE Damage
      BY <3>2 DEF Damage
    <3>3. CASE UNCHANGED vars
      BY <3>3 DEF vars, wire, store
    <3> QED BY <1>8, <3>1, <3>2, <3>3
  <2>2. sv'.resumed => sv.resumed /\ sv'.id = sv.id
    BY <2>1
  <2>3. << cl'.ver, cl'.suite, cl'.random >> = << cl.ver, cl.suite, cl.random >>
    BY <2>1
  <2> QED BY <2>1, <2>2, <2>3, SameRule
<1> QED BY <1>1, <1>2, <1>3, <1>4, <1>5, <1>6, <1>7, <1>8 DEF Next, Applications

LEMMA SameMeets ==
    ASSUME Meets', cl'.cfg = cl.cfg, sv'.cfg = sv.cfg,
           sv.resumed => sv'.resumed /\ session'.ver = session.ver
    PROVE  Meets
<1>1. Common
  BY DEF Meets, Common
<1> QED BY <1>1 DEF Meets

LEMMA MeetsBefore ==
    ASSUME Inv, ~damaged, Meets', ClientStep \/ ServerStep
    PROVE  Meets
<1>1. CASE ClientStep
  <2>1. CASE session' = session
    BY <1>1, <2>1, ClientStepIs, SameMeets
  <2>2. CASE cl.at = "Fin" /\ session'.ver = cl.ver
    <3>1. ClientIs /\ cl.odd = {}
      BY <1>1, ClientStepIs DEF Inv, Up, DamagedOnce
    <3>2. cl.resumed = sv.resumed
      BY <2>2, <3>1 DEF ClientIs
    <3>3. sv.resumed => cl.ver = session.ver
      BY <3>1, <3>2 DEF ClientIs, OfSession
    <3> QED BY <1>1, <2>2, <3>3, ClientStepIs, SameMeets
  <2> QED BY <1>1, <2>1, <2>2, ClientStepIs
<1>2. CASE ServerStep
  <2>1. sv.at = "CH" => ~sv.resumed
    BY <1>2, ServerStepIs DEF Inv, Up, ServerIs
  <2> QED BY <1>2, <2>1, ServerStepIs, SameMeets
<1> QED BY <1>1, <1>2

LEMMA SmoothKeeps ==
    ASSUME Inv, Inv', Lawful, Smooth, [Next]_vars
    PROVE  Smooth'
<1> SUFFICES ASSUME up', ~damaged', Meets' PROVE Fine'
  BY DEF Smooth
<1>1. CASE ClientStep
  <2>1. up /\ ~damaged
    BY <1>1, ClientStepIs
  <2> QED BY <1>1, <2>1, MeetsBefore, ClientStepFlows DEF Smooth
<1>2. CASE ServerStep
  <2>1. up /\ ~damaged
    BY <1>2, ServerStepIs
  <2> QED BY <1>2, <2>1, MeetsBefore, ServerStepFlows DEF Smooth
<1>3. CASE Connect
  BY <1>3, ConnectFlows
<1>4. CASE ClientSays
  <2>1. up /\ ~damaged /\ cl'.cfg = cl.cfg /\ sv' = sv /\ session' = session
    BY <1>4 DEF ClientSays, Inv, Typed, Engines
  <2> QED BY <1>4, <2>1, SameMeets, ClientSaysFlows DEF Smooth
<1>5. CASE ServerSays
  <2>1. /\ up /\ ~damaged /\ cl' = cl /\ session' = session
        /\ sv'.cfg = sv.cfg /\ sv'.resumed = sv.resumed
    BY <1>5 DEF ServerSays, Inv, Typed, Engines
  <2> QED BY <1>5, <2>1, SameMeets, ServerSaysFlows DEF Smooth
<1>6. CASE RequestRenegotiation
  <2>1. /\ up /\ ~damaged /\ cl' = cl /\ session' = session
        /\ sv'.cfg = sv.cfg /\ sv'.resumed = sv.resumed
    BY <1>6 DEF RequestRenegotiation, Inv, Typed, Engines
  <2> QED BY <1>6, <2>1, SameMeets, RequestRenegotiationFlows DEF Smooth
<1>7. CASE Hangup \/ Restart \/ ForgetInCache \/ SetSession \/ Damage
  BY <1>7 DEF Hangup, Restart, ForgetInCache, SetSession, Damage, wire
<1>8. CASE UNCHANGED vars
  <2>1. n' = n /\ up' = up /\ damaged' = damaged /\ cl' = cl /\ sv' = sv
    BY <1>8 DEF vars, wire
  <2>2. c2s' = c2s /\ s2c' = s2c /\ session' = session
    BY <1>8 DEF vars, wire
  <2>3. Fine
    BY <2>1, <2>2, SameMeets DEF Smooth
  <2>4. /\ Sent(cl)' = Sent(cl) /\ Sent(sv)' = Sent(sv) /\ Keys(cl)' = Keys(cl) /\ Keys(sv)' = Keys(sv)
        /\ Answering' = Answering /\ ClientRoad' = ClientRoad /\ ServerRoad' = ServerRoad
        /\ ServerStart' = ServerStart /\ ServerPlace' = ServerPlace
    BY <2>1 DEF Sent, Keys, Answering, ClientRoad, ServerRoad, Proves, ServerStart, ServerPlace
  <2>5. ClientFine' /\ ServerFine' /\ Ways'
    BY <2>1, <2>2, <2>3, <2>4 DEF Fine, ClientFine, ServerFine, Ways
  <2>6. (\A m \in ToSet(s2c') : ForClient(m)') /\ (\A m \in ToSet(c2s') : ForServer(m)')
    BY <2>1, <2>2, <2>3, <2>4 DEF Fine, ForClient, ForServer
  <2> QED BY <2>5, <2>6 DEF Fine
<1> QED BY <1>1, <1>2, <1>3, <1>4, <1>5, <1>6, <1>7, <1>8 DEF Next, Applications

(* While nothing of a connection is damaged, and the two ends have         *)
(* something in common, everything under way is what its reader can go on  *)
(* with, up to where the writer is: the client through all of its          *)
(* automaton (ssl_hs_client.t0), the server through its own                *)
(* (ssl_hs_server.t0).                                                     *)
THEOREM HandshakeSmooth == Spec => [](Inv /\ Lawful /\ Smooth)
<1>1. Init => Inv /\ Lawful /\ Smooth
  <2>1. Init => ~up /\ session = NoSession /\ ~sv.resumed
    BY DEF Init, Engine
  <2> QED BY <2>1, InitHolds DEF Lawful, Smooth, NoSession
<1>2. Inv /\ Lawful /\ Smooth /\ [Next]_vars => (Inv /\ Lawful /\ Smooth)'
  BY StepKeeps, LawfulKeeps, SmoothKeeps
<1> QED BY <1>1, <1>2, PTL DEF Spec

(* Two ends that have a version, a suite and a certificate in common come  *)
(* together, whatever session the client offers, for any configurations:   *)
(* the client never fails, neither in the handshake nor at a request to    *)
(* renegotiate (BR_OPT_NO_RENEGOTIATION), and the server only fails when   *)
(* that request is refused.                                                *)
THEOREM HandshakeCompatibleSucceeds == Spec => []CompatibleSucceeds
<1>1. Inv /\ Lawful /\ Smooth => CompatibleSucceeds
  <2> SUFFICES ASSUME Inv, Lawful, Smooth, up, ~damaged, Compatible
               PROVE  cl.at # "failed" /\ (sv.at = "failed" => cl.at = "app")
    BY DEF CompatibleSucceeds
  <2>1. ClientIs /\ ServerIs /\ cl.odd = {}
    BY DEF Inv, Up, DamagedOnce
  <2>2. sv.resumed => session.id # None
    <3>1. CASE Answer
      BY <2>1, <3>1 DEF ClientIs
    <3>2. CASE ~Answer
      BY <2>1, <3>2 DEF Lawful, ServerIs, Answering
    <3> QED BY <3>1, <3>2
  <2>3. Meets
    BY <2>2 DEF Compatible, Meets, Common
  <2>4. Fine
    BY <2>3 DEF Smooth
  <2> QED BY <2>4 DEF Fine, ClientFine, ServerFine
<1> QED BY <1>1, HandshakeSmooth, PTL
=============================================================================
