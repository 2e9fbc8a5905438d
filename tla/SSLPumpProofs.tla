---------------------------- MODULE SSLPumpProofs ----------------------------
(* SSLPump, for any sizes and counts, with two buffers or a shared one, when a  *)
(* transport that writes nothing reports an error or has lost the connection.   *)
(*                                                                              *)
(* The argument: the frames of the stack lie on each other as the calls of the  *)
(* code do (WellNested); whoever returns after a stop() further in finds a      *)
(* write error (ErrorsShow, Answered); and a stop() from inside a loop has      *)
(* nothing left to flush, so only the application's may run the loop.           *)
EXTENDS SSLPump, SequenceTheorems, TLAPS

Loops == {"update", "updateStopped"}
Runs  == {"run", "ran", "runStopped"}
Stops == {"stop", "stopping"}
Calls == {"write", "writing", "flushed", "available", "connect"}

\* A frame at place a lies on one at place b.
Under(a, b) ==
    \/ a \in Loops /\ b \in {"ran", "available"}
    \/ a \in Runs /\ b \in {"write", "writing", "flushed", "stopping", "connect"}
    \/ a \in Stops /\ b \in {"updateStopped", "runStopped"}

\* Only the innermost and the outermost call may be a stop().
WellNested(st) ==
    /\ st \in Seq(Frame)
    /\ \A i \in 1..(Len(st) - 1) : Under(st[i].at, st[i + 1].at)
    /\ Len(st) > 0 => st[Len(st)].at \in Stops \cup Calls
    /\ \A i \in 1..Len(st) : st[i].at \in Stops => i = 1 \/ i = Len(st)

Connecting(st) == Len(st) > 0 /\ st[Len(st)].at = "connect"
Stopping(st) == \E i \in 1..Len(st) : st[i].at = "stopping"

\* An engine between two calls: a record that is full leaves at once.
Fits(e) ==
    /\ e \in Engine
    /\ e.cap = Cap /\ e.acc < Cap
    /\ e.left = 0 => e.rec = 0

\* Whoever has a stop() behind it finds the error that made it necessary.
ErrorsShow(st, error) ==
    \A i \in 1..Len(st) : st[i].at \in {"updateStopped", "runStopped"} => error

\* What a write() has still to copy may be taken.
Pending(st, k) ==
    \A i \in 1..Len(st) : st[i].at \in {"write", "writing"} => k + st[i].n <= MaxTaken

Sound(st, error, k) == WellNested(st) /\ ErrorsShow(st, error) /\ Pending(st, k)

Owned ==
    /\ secure => live
    /\ live => secure \/ Connecting(stack)
    /\ Connecting(stack) => live /\ ~secure /\ ~Stopping(stack)

Counted ==
    live /\ ~eng.closed =>
        IF secure THEN taken = sent + (eng.rec + eng.acc) + idx
        ELSE eng.rec + eng.acc = 0 /\ idx = 0

Safe == live /\ ~eng.closed /\ idx > 0 => SENDAPP(eng) /\ idx < Room(eng)

Shown == live /\ recvLen > 0 /\ ~Stopping(stack) => recvLen = eng.plain

\* What the innermost call finds, returned or about to start.
Answered ==
    Len(stack) > 0 =>
        /\ stack[1].at \in {"ran", "available"} =>
             /\ ret \in {"closed", "stopped", "state"}
             /\ ret = "stopped" => writeError
             /\ ret \in {"closed", "state"} => live
             /\ ret = "state" => idx = 0
        /\ stack[1].at \in {"write", "writing", "connect"} =>
             /\ ret \in {"ok", "fail"}
             /\ ret = "ok" => live /\ ~eng.closed
        /\ stack[1].at \in {"update", "run"} => live
        /\ stack[1].at = "stop" /\ Len(stack) > 1 => idx = 0

Types ==
    /\ {open, live, secure, writeError, late} \subseteq BOOLEAN
    /\ inbox \in Nat /\ fed \in 0..MaxIn /\ inbox <= fed /\ own \in 0..MaxOwn
    /\ idx \in 0..Cap /\ recvLen \in 0..Cap
    /\ ret \in {"none", "closed", "stopped", "state", "ok", "fail"}
    /\ taken \in 0..MaxTaken /\ sent \in 0..MaxTaken

Inv ==
    /\ Types /\ Fits(eng) /\ Sound(stack, writeError, taken)
    /\ Owned /\ Counted /\ Safe /\ Shown /\ Answered

--------------------------------------------------------------------------------
(* The stack.                                                                   *)

LEMMA Frames ==
    /\ \A p \in {"update", "updateStopped", "ran", "runStopped", "flushed", "stop", "stopping",
                 "write", "writing", "available", "connect"} : At(p) \in Frame /\ At(p).at = p
    /\ \A t \in {"SENDAPP", "RECVAPP"} : RunUntil(t) \in Frame /\ RunUntil(t).at = "run"
  BY PumpConstants DEF At, RunUntil, Frame

\* A call returns.
LEMMA Popped ==
    ASSUME NEW st, WellNested(st), Len(st) > 0
    PROVE  /\ WellNested(Tail(st)) /\ Len(Tail(st)) = Len(st) - 1
           /\ Head(st) = st[1] /\ st[1] \in Frame
           /\ \A i \in 1..Len(Tail(st)) : Tail(st)[i] = st[i + 1] /\ Tail(st)[i] \in Frame
           /\ Len(Tail(st)) > 0 => Under(st[1].at, Tail(st)[1].at)
           /\ Connecting(Tail(st)) <=> Len(st) > 1 /\ Connecting(st)
           /\ st[1].at # "stopping" => (Stopping(Tail(st)) <=> Stopping(st))
<1>1. /\ st \in Seq(Frame) /\ st # << >> /\ Len(st) \in Nat
      /\ Tail(st) \in Seq(Frame) /\ Len(Tail(st)) = Len(st) - 1
      /\ \A i \in 1..Len(Tail(st)) : Tail(st)[i] = st[i + 1]
  BY DEF WellNested
<1>2. Head(st) = st[1] /\ \A i \in 1..Len(st) : st[i] \in Frame
  BY <1>1
<1>3. WellNested(Tail(st))
  <2> DEFINE u == Tail(st)
  <2>0. Len(u) = Len(st) - 1 /\ Len(u) \in Nat /\ \A i \in 1..Len(u) : i + 1 \in 1..Len(st) /\ u[i] = st[i + 1]
    BY <1>1
  <2> HIDE DEF u
  <2>1. ASSUME NEW i \in 1..(Len(u) - 1) PROVE Under(u[i].at, u[i + 1].at)
    <3>1. /\ i \in 1..Len(u) /\ i + 1 \in 1..Len(u) /\ i + 1 \in 1..(Len(st) - 1)
          /\ (i + 1) + 1 \in 1..Len(st)
      BY <2>0
    <3>2. Under(st[i + 1].at, st[(i + 1) + 1].at)
      BY <3>1 DEF WellNested
    <3> QED BY <3>1, <3>2, <2>0
  <2>2. ASSUME Len(u) > 0 PROVE u[Len(u)].at \in Stops \cup Calls
    <3>1. Len(u) \in 1..Len(u) /\ Len(u) + 1 = Len(st)
      BY <2>0, <2>2
    <3> QED BY <3>1, <2>0, <1>1 DEF WellNested
  <2>3. ASSUME NEW i \in 1..Len(u), u[i].at \in Stops PROVE i = 1 \/ i = Len(u)
    <3>1. i + 1 \in 1..Len(st) /\ st[i + 1].at \in Stops
      BY <2>0, <2>3
    <3>2. i + 1 = 1 \/ i + 1 = Len(st)
      BY <3>1 DEF WellNested
    <3> QED BY <3>2, <2>0
  <2>4. u \in Seq(Frame)
    BY <1>1 DEF u
  <2>5. WellNested(u)
    BY <2>1, <2>2, <2>3, <2>4 DEF WellNested
  <2> QED BY <2>5 DEF u
<1>4. ASSUME Len(Tail(st)) > 0 PROVE Under(st[1].at, Tail(st)[1].at)
  <2>1. 1 \in 1..(Len(st) - 1) /\ 1 \in 1..Len(Tail(st)) /\ Tail(st)[1] = st[1 + 1]
    BY <1>1, <1>4
  <2>2. Under(st[1].at, st[1 + 1].at)
    BY <2>1 DEF WellNested
  <2> QED BY <2>1, <2>2
<1>5. Connecting(Tail(st)) <=> Len(st) > 1 /\ Connecting(st)
  BY <1>1 DEF Connecting
<1>6. ASSUME st[1].at # "stopping" PROVE Stopping(Tail(st)) <=> Stopping(st)
  <2>1. ASSUME NEW i \in 1..Len(st), st[i].at = "stopping" PROVE Stopping(Tail(st))
    <3>1. i - 1 \in 1..Len(Tail(st)) /\ Tail(st)[i - 1] = st[i]
      BY <1>1, <1>6, <2>1
    <3> QED BY <3>1, <2>1 DEF Stopping
  <2>2. ASSUME NEW i \in 1..Len(Tail(st)), Tail(st)[i].at = "stopping" PROVE Stopping(st)
    <3>1. i + 1 \in 1..Len(st) /\ st[i + 1] = Tail(st)[i]
      BY <1>1
    <3> QED BY <3>1, <2>2 DEF Stopping
  <2> QED BY <2>1, <2>2 DEF Stopping
<1> QED BY <1>1, <1>2, <1>3, <1>4, <1>5, <1>6

\* A frame is laid on the others.
LEMMA Laid ==
    ASSUME NEW u, WellNested(u), NEW f \in Frame,
           Len(u) = 0 => f.at \in Stops \cup Calls,
           Len(u) > 0 => Under(f.at, u[1].at),
           Len(u) > 1 => u[1].at \notin Stops
    PROVE  LET st == << f >> \o u
           IN  /\ WellNested(st) /\ Len(st) = Len(u) + 1
               /\ Head(st) = f /\ Tail(st) = u /\ st[1] = f
               /\ \A i \in 2..Len(st) : i - 1 \in 1..Len(u) /\ st[i] = u[i - 1]
               /\ Connecting(st) <=> IF Len(u) = 0 THEN f.at = "connect" ELSE Connecting(u)
               /\ Stopping(st) <=> f.at = "stopping" \/ Stopping(u)
<1> DEFINE st == << f >> \o u
<1>1. /\ u \in Seq(Frame) /\ Len(u) \in Nat
      /\ st \in Seq(Frame) /\ Len(st) = Len(u) + 1 /\ st[1] = f
      /\ \A i \in 2..Len(st) : i - 1 \in 1..Len(u) /\ st[i] = u[i - 1]
      /\ Head(st) = f
  BY DEF WellNested
<1>2. Tail(st) = u
  BY <1>1
<1> HIDE DEF st
<1>3. WellNested(st)
  <2>1. ASSUME NEW i \in 1..(Len(st) - 1) PROVE Under(st[i].at, st[i + 1].at)
    <3>1. CASE i = 1
      <4>1. Len(u) > 0 /\ st[1 + 1] = u[1]
        BY <1>1, <2>1
      <4> QED BY <4>1, <3>1, <1>1
    <3>2. CASE i # 1
      <4>1. /\ i - 1 \in 1..(Len(u) - 1) /\ st[i] = u[i - 1]
            /\ st[i + 1] = u[(i - 1) + 1]
        BY <1>1, <2>1, <3>2
      <4>2. Under(u[i - 1].at, u[(i - 1) + 1].at)
        BY <4>1 DEF WellNested
      <4> QED BY <4>1, <4>2
    <3> QED BY <3>1, <3>2
  <2>2. st[Len(st)].at \in Stops \cup Calls
    <3>1. CASE Len(u) = 0
      BY <3>1, <1>1
    <3>2. CASE Len(u) # 0
      <4>1. st[Len(st)] = u[Len(u)] /\ Len(u) > 0
        BY <1>1, <3>2
      <4>2. u[Len(u)].at \in Stops \cup Calls
        BY <4>1 DEF WellNested
      <4> QED BY <4>1, <4>2
    <3> QED BY <3>1, <3>2
  <2>3. ASSUME NEW i \in 1..Len(st), st[i].at \in Stops, i # 1 PROVE i = Len(st)
    <3>1. i - 1 \in 1..Len(u) /\ u[i - 1].at \in Stops
      BY <1>1, <2>3
    <3>2. i - 1 = 1 \/ i - 1 = Len(u)
      BY <3>1 DEF WellNested
    <3>3. CASE i - 1 = 1
      <4>1. u[1].at \in Stops
        BY <3>1, <3>3
      <4>2. Len(u) \in Nat /\ ~(Len(u) > 1)
        BY <4>1, <1>1
      <4>3. i = 2 /\ i <= Len(u) + 1 /\ i \in Int
        BY <3>1, <3>3, <1>1
      <4> QED BY <4>2, <4>3, <1>1
    <3>4. CASE i - 1 = Len(u)
      BY <3>4, <1>1
    <3> QED BY <3>2, <3>3, <3>4
  <2> QED BY <1>1, <2>1, <2>2, <2>3 DEF WellNested
<1>4. Connecting(st) <=> IF Len(u) = 0 THEN f.at = "connect" ELSE Connecting(u)
  <2>1. CASE Len(u) = 0
    BY <2>1, <1>1 DEF Connecting
  <2>2. CASE Len(u) # 0
    <3>1. st[Len(st)] = u[Len(u)] /\ Len(u) > 0 /\ Len(st) > 0
      BY <1>1, <2>2
    <3> QED BY <3>1, <2>2 DEF Connecting
  <2> QED BY <2>1, <2>2
<1>5. Stopping(st) <=> f.at = "stopping" \/ Stopping(u)
  <2>1. ASSUME NEW i \in 1..Len(st), st[i].at = "stopping" PROVE f.at = "stopping" \/ Stopping(u)
    BY <1>1, <2>1 DEF Stopping
  <2>2. ASSUME NEW i \in 1..Len(u), u[i].at = "stopping" PROVE Stopping(st)
    <3>1. i + 1 \in 2..Len(st) /\ (i + 1) - 1 = i
      BY <1>1
    <3>2. st[i + 1] = u[i] /\ i + 1 \in 1..Len(st)
      BY <3>1, <1>1
    <3> QED BY <3>2, <2>2 DEF Stopping
  <2>3. f.at = "stopping" => Stopping(st)
    BY <1>1 DEF Stopping
  <2> QED BY <2>1, <2>2, <2>3 DEF Stopping
<1>6. st = << f >> \o u
  BY DEF st
<1> QED BY <1>1, <1>2, <1>3, <1>4, <1>5, <1>6

LEMMA TwoLaid ==
    ASSUME NEW u \in Seq(Frame), NEW f \in Frame, NEW g \in Frame
    PROVE  << f, g >> \o u = << f >> \o (<< g >> \o u)
<1>1. /\ << f, g >> \o u \in Seq(Frame) /\ << g >> \o u \in Seq(Frame)
      /\ << f >> \o (<< g >> \o u) \in Seq(Frame)
      /\ Len(<< f, g >> \o u) = Len(<< f >> \o (<< g >> \o u))
  OBVIOUS
<1>2. ASSUME NEW i \in 1..Len(<< f, g >> \o u)
      PROVE  (<< f, g >> \o u)[i] = (<< f >> \o (<< g >> \o u))[i]
  OBVIOUS
<1> QED BY <1>1, <1>2, SeqEqual

\* Places of one call.
Alike(a, b) == \A K \in {Loops, Runs, Stops, Calls} : a \in K <=> b \in K

\* The innermost call goes on at another place.
LEMMA Moved ==
    ASSUME NEW st, WellNested(st), Len(st) > 0, NEW f \in Frame, Alike(f.at, st[1].at)
    PROVE  LET z == << f >> \o Tail(st)
           IN  /\ WellNested(z) /\ Len(z) = Len(st) /\ z[1] = f
               /\ \A i \in 2..Len(z) : z[i] = st[i]
               /\ Connecting(z) <=> IF Len(st) = 1 THEN f.at = "connect" ELSE Connecting(st)
               /\ st[1].at # "stopping" =>
                    (Stopping(z) <=> f.at = "stopping" \/ Stopping(st))
<1> DEFINE u == Tail(st)
<1>1. /\ WellNested(u) /\ Len(u) = Len(st) - 1 /\ Len(u) \in Nat
      /\ \A i \in 1..Len(u) : u[i] = st[i + 1]
      /\ Len(u) > 0 => Under(st[1].at, u[1].at)
      /\ Len(st) > 1 => (Connecting(u) <=> Connecting(st))
      /\ st[1].at # "stopping" => (Stopping(u) <=> Stopping(st))
  BY Popped DEF WellNested
<1> HIDE DEF u
<1>2. /\ st[1].at \in Loops \cup Runs \cup Stops \cup Calls
      /\ Len(st) = 1 => st[1].at \in Stops \cup Calls
      /\ Len(st) > 2 => st[2].at \notin Stops
  <2>1. Len(st) \in Nat /\ 1 \in 1..Len(st) /\ (Len(st) > 2 => 2 \in 1..Len(st))
    BY <1>1
  <2>2. Len(st) > 1 => 1 \in 1..(Len(st) - 1)
    BY <2>1
  <2> QED BY <2>1, <2>2 DEF WellNested, Under
<1>3. Len(u) > 0 => Under(f.at, u[1].at)
  BY <1>1 DEF Under, Alike
<1>4. Len(u) = 0 => f.at \in Stops \cup Calls
  BY <1>1, <1>2 DEF Alike
<1>5. Len(u) > 1 => u[1].at \notin Stops
  BY <1>1, <1>2
<1>6. LET z == << f >> \o u
      IN  /\ WellNested(z) /\ Len(z) = Len(u) + 1 /\ z[1] = f
          /\ \A i \in 2..Len(z) : i - 1 \in 1..Len(u) /\ z[i] = u[i - 1]
          /\ Connecting(z) <=> IF Len(u) = 0 THEN f.at = "connect" ELSE Connecting(u)
          /\ Stopping(z) <=> f.at = "stopping" \/ Stopping(u)
  BY <1>1, <1>3, <1>4, <1>5, Laid
<1> DEFINE z == << f >> \o u
<1> HIDE DEF z
<1>7. /\ Len(z) = Len(st)
      /\ \A i \in 2..Len(z) : z[i] = st[i]
      /\ Connecting(z) <=> IF Len(st) = 1 THEN f.at = "connect" ELSE Connecting(st)
  BY <1>1, <1>6 DEF z
<1>8. st[1].at # "stopping" => (Stopping(z) <=> f.at = "stopping" \/ Stopping(st))
  BY <1>1, <1>6 DEF z
<1>9. WellNested(z) /\ z[1] = f
  BY <1>6 DEF z
<1> QED BY <1>7, <1>8, <1>9 DEF z, u

\* The innermost call makes another one.
LEMMA Called ==
    ASSUME NEW st, WellNested(st), Len(st) > 0, NEW f \in Frame, NEW g \in Frame,
           Alike(g.at, st[1].at), Under(f.at, g.at), g.at \in Stops => Len(st) = 1
    PROVE  LET z == << f, g >> \o Tail(st)
           IN  /\ WellNested(z) /\ Len(z) = Len(st) + 1 /\ z[1] = f /\ z[2] = g
               /\ \A i \in 3..Len(z) : i - 1 \in 2..Len(st) /\ z[i] = st[i - 1]
               /\ Connecting(z) <=> IF Len(st) = 1 THEN g.at = "connect" ELSE Connecting(st)
               /\ st[1].at # "stopping" =>
                    (Stopping(z) <=> {f.at, g.at} \cap {"stopping"} # {} \/ Stopping(st))
<1> DEFINE y == << g >> \o Tail(st)
           z == << f >> \o y
<1>1. /\ WellNested(y) /\ Len(y) = Len(st) /\ y[1] = g /\ Len(st) \in Nat
      /\ \A i \in 2..Len(y) : y[i] = st[i]
      /\ Connecting(y) <=> IF Len(st) = 1 THEN g.at = "connect" ELSE Connecting(st)
      /\ st[1].at # "stopping" => (Stopping(y) <=> g.at = "stopping" \/ Stopping(st))
  BY Moved DEF WellNested
<1>2. Tail(st) \in Seq(Frame)
  BY DEF WellNested
<1>3. << f, g >> \o Tail(st) = z
  BY <1>2, TwoLaid
<1> HIDE DEF y
<1>4. /\ WellNested(z) /\ Len(z) = Len(y) + 1 /\ z[1] = f
      /\ \A i \in 2..Len(z) : i - 1 \in 1..Len(y) /\ z[i] = y[i - 1]
      /\ Connecting(z) <=> Connecting(y)
      /\ Stopping(z) <=> f.at = "stopping" \/ Stopping(y)
  <2>1. Len(y) > 0 /\ (Len(y) > 1 => y[1].at \notin Stops)
    BY <1>1
  <2> QED BY <1>1, <2>1, Laid
<1> HIDE DEF z
<1>5. z[2] = g /\ \A i \in 3..Len(z) : i - 1 \in 2..Len(st) /\ z[i] = st[i - 1]
  BY <1>1, <1>4
<1>6. st[1].at # "stopping" => (Stopping(z) <=> {f.at, g.at} \cap {"stopping"} # {} \/ Stopping(st))
  BY <1>1, <1>4
<1>7. /\ WellNested(z) /\ Len(z) = Len(st) + 1 /\ z[1] = f
      /\ Connecting(z) <=> IF Len(st) = 1 THEN g.at = "connect" ELSE Connecting(st)
  BY <1>1, <1>4
<1> QED BY <1>3, <1>5, <1>6, <1>7

LEMMA PoppedSound ==
    ASSUME NEW st, NEW error, NEW k, Sound(st, error, k), Len(st) > 0
    PROVE  Sound(Tail(st), error, k)
<1>1. /\ WellNested(st) /\ Len(st) \in Nat /\ Len(Tail(st)) = Len(st) - 1
      /\ \A i \in 1..Len(Tail(st)) : Tail(st)[i] = st[i + 1]
      /\ WellNested(Tail(st))
  BY Popped DEF Sound, WellNested
<1>2. \A i \in 1..Len(Tail(st)) : i + 1 \in 1..Len(st)
  BY <1>1
<1> QED BY <1>1, <1>2 DEF Sound, ErrorsShow, Pending

LEMMA MovedSound ==
    ASSUME NEW st, NEW error, NEW k, WellNested(st), Len(st) > 0, Sound(Tail(st), error, k),
           NEW f \in Frame, Alike(f.at, st[1].at),
           f.at \in {"updateStopped", "runStopped"} => error,
           f.at \in {"write", "writing"} => k + f.n <= MaxTaken
    PROVE  Sound(<< f >> \o Tail(st), error, k)
<1> DEFINE z == << f >> \o Tail(st)
           u == Tail(st)
<1>1. WellNested(z) /\ Len(z) = Len(st) /\ z[1] = f /\ \A i \in 2..Len(z) : z[i] = st[i]
  BY Moved
<1>2. Len(st) \in Nat /\ Len(u) = Len(st) - 1 /\ \A i \in 1..Len(u) : u[i] = st[i + 1]
  BY Popped DEF WellNested
<1>3. ErrorsShow(u, error) /\ Pending(u, k)
  BY DEF Sound
<1> HIDE DEF z, u
<1>4. \A i \in 1..Len(z) : i = 1 \/ (i - 1 \in 1..Len(u) /\ z[i] = u[i - 1])
  BY <1>1, <1>2
<1>5. Sound(z, error, k)
  BY <1>1, <1>3, <1>4 DEF Sound, ErrorsShow, Pending
<1> QED BY <1>5 DEF z

LEMMA CalledSound ==
    ASSUME NEW st, NEW error, NEW k, WellNested(st), Len(st) > 0, Sound(Tail(st), error, k),
           NEW f \in Frame, NEW g \in Frame,
           Alike(g.at, st[1].at), Under(f.at, g.at), g.at \in Stops => Len(st) = 1,
           f.at \notin {"updateStopped", "runStopped", "write", "writing"},
           g.at \in {"updateStopped", "runStopped"} => error,
           g.at \in {"write", "writing"} => k + g.n <= MaxTaken
    PROVE  Sound(<< f, g >> \o Tail(st), error, k)
<1> DEFINE z == << f, g >> \o Tail(st)
           u == Tail(st)
<1>1. /\ WellNested(z) /\ Len(z) = Len(st) + 1 /\ z[1] = f /\ z[2] = g
      /\ \A i \in 3..Len(z) : i - 1 \in 2..Len(st) /\ z[i] = st[i - 1]
  BY Called
<1>2. Len(st) \in Nat /\ Len(u) = Len(st) - 1 /\ \A i \in 1..Len(u) : u[i] = st[i + 1]
  BY Popped DEF WellNested
<1>3. ErrorsShow(u, error) /\ Pending(u, k)
  BY DEF Sound
<1> HIDE DEF z, u
<1>4. \A i \in 1..Len(z) : i = 1 \/ i = 2 \/ (i - 2 \in 1..Len(u) /\ z[i] = u[i - 2])
  BY <1>1, <1>2
<1>5. Sound(z, error, k)
  BY <1>1, <1>3, <1>4 DEF Sound, ErrorsShow, Pending
<1> QED BY <1>5 DEF z

\* A write error may be set, and a connection counted from its beginning.
LEMMA SoundLater ==
    ASSUME NEW st, NEW error, NEW later, NEW k, NEW l, Sound(st, error, k),
           error => later, Len(st) > 0 => k = l
    PROVE  Sound(st, later, l)
<1>1. Len(st) \in Nat
  BY DEF Sound, WellNested
<1>2. CASE Len(st) > 0
  BY <1>2 DEF Sound, ErrorsShow, Pending
<1>3. CASE Len(st) = 0
  BY <1>3 DEF Sound, ErrorsShow, Pending
<1> QED BY <1>1, <1>2, <1>3

--------------------------------------------------------------------------------
(* The engine.                                                                  *)

LEMMA Sizes ==
    /\ Cap \in Nat /\ Parts \in Nat /\ Cap > 0 /\ Parts > 0
    /\ 0 \in 0..Cap /\ 0 \in 0..Parts /\ Parts \in 0..Parts
  BY AbstractEngineConstants

\* What stays as it is while bytes move on.
Same(e, f) ==
    /\ f.shared = e.shared /\ f.closed = e.closed /\ f.app = e.app /\ f.shut = e.shut
    /\ f.part = e.part /\ f.plain = e.plain

LEMMA FlushedFits ==
    ASSUME NEW e, Fits(e)
    PROVE  Fits(Flushed(e)) /\ Same(e, Flushed(e)) /\ Flushed(e).rec + Flushed(e).acc = e.rec + e.acc
<1>1. CASE ~(e.acc > 0 /\ e.left = 0)
  BY <1>1 DEF Flushed, Same
<1>2. CASE e.acc > 0 /\ e.left = 0
  <2> DEFINE f == [e EXCEPT !.rec = e.acc, !.acc = 0, !.left = Parts]
  <2>1. f \in Engine
    <3>1. e \in Engine /\ e.acc \in 0..Cap
      BY DEF Fits, Engine
    <3> QED BY <3>1, Sizes DEF Engine
  <2>2. /\ f.cap = e.cap /\ f.rec = e.acc /\ f.acc = 0 /\ f.left = Parts
        /\ f.shared = e.shared /\ f.closed = e.closed /\ f.app = e.app /\ f.shut = e.shut
        /\ f.part = e.part /\ f.plain = e.plain
    BY DEF Fits, Engine
  <2>3. Flushed(e) = f
    BY <1>2 DEF Flushed
  <2> HIDE DEF f
  <2>4. f.rec + f.acc = e.rec + e.acc /\ f.acc < Cap /\ f.left # 0 /\ f.cap = Cap
    BY <1>2, <2>2, AbstractEngineConstants DEF Fits, Engine
  <2> QED BY <2>1, <2>2, <2>3, <2>4 DEF Fits, Same
<1> QED BY <1>1, <1>2

LEMMA AckedFits ==
    ASSUME NEW e, Fits(e), NEW n \in Nat, n = 0 \/ (e.left = 0 /\ e.acc + n <= Cap)
    PROVE  Fits(Acked(e, n)) /\ Same(e, Acked(e, n)) /\ Acked(e, n).rec + Acked(e, n).acc = (e.rec + e.acc) + n
<1> DEFINE m == [e EXCEPT !.acc = e.acc + n]
<1>1. /\ e \in Engine /\ e.acc \in Nat /\ e.rec \in Nat /\ e.left \in Nat /\ Cap \in Nat /\ e.cap = Cap
      /\ e.acc < Cap /\ e.acc + n <= Cap
  BY AbstractEngineConstants DEF Fits, Engine
<1>2. m \in Engine
  BY <1>1 DEF Engine
<1>3. Same(e, m) /\ m.acc = e.acc + n /\ m.rec = e.rec /\ m.left = e.left /\ m.cap = e.cap
  BY <1>1 DEF Engine, Same
<1>4. Acked(e, n) = IF m.acc >= e.cap THEN Flushed(m) ELSE m
  BY DEF Acked
<1> HIDE DEF m
<1>5. CASE ~(m.acc >= e.cap)
  <2>1. m.acc < Cap /\ m.rec + m.acc = (e.rec + e.acc) + n
    BY <1>1, <1>3, <1>5
  <2> QED BY <1>1, <1>2, <1>3, <1>4, <1>5, <2>1 DEF Fits
<1>6. CASE m.acc >= e.cap
  <2>1. m.acc = Cap /\ m.left = 0 /\ e.rec = 0
    BY <1>1, <1>3, <1>6 DEF Fits
  <2> DEFINE f == [m EXCEPT !.rec = m.acc, !.acc = 0, !.left = Parts]
  <2>2. f \in Engine
    <3>1. m.acc \in 0..Cap
      BY <1>2 DEF Engine
    <3> QED BY <1>2, <3>1, Sizes DEF Engine
  <2>3. Same(m, f) /\ f.rec = m.acc /\ f.acc = 0 /\ f.left = Parts /\ f.cap = m.cap
    BY <1>2 DEF Engine, Same
  <2>4. Acked(e, n) = f
    BY <1>1, <1>4, <1>6, <2>1, AbstractEngineConstants DEF Flushed
  <2> HIDE DEF f
  <2>5. f.rec + f.acc = (e.rec + e.acc) + n /\ f.acc < Cap /\ f.left # 0 /\ f.cap = Cap
    BY <1>1, <1>3, <2>1, <2>3, AbstractEngineConstants
  <2>6. Same(e, f)
    BY <1>3, <2>3 DEF Same
  <2> QED BY <2>2, <2>4, <2>5, <2>6 DEF Fits
<1> QED BY <1>5, <1>6

\* No byte of the application appears, leaves or is read.
Carried(e, f) ==
    Fits(f) /\ f.rec + f.acc = e.rec + e.acc /\ f.plain = e.plain /\ f.closed = e.closed

LEMMA WithMessages ==
    ASSUME NEW e, Fits(e), NEW l \in Messages(e), NEW a \in BOOLEAN, NEW s \in BOOLEAN,
           NEW f, f = [e EXCEPT !.left = l, !.app = a, !.shut = s]
    PROVE  Carried(e, f)
<1>1. l \in 0..Parts /\ (l = 0 => e.rec = 0)
  BY Sizes DEF Messages, Fits, Engine
<1>2. f \in Engine
  BY <1>1 DEF Fits, Engine
<1>3. /\ f.rec = e.rec /\ f.acc = e.acc /\ f.plain = e.plain /\ f.closed = e.closed
      /\ f.cap = e.cap /\ f.left = l
  BY DEF Fits, Engine
<1> QED BY <1>1, <1>2, <1>3 DEF Fits, Carried

LEMMA HaltedFits ==
    ASSUME NEW e, Fits(e), NEW f \in Halted(e)
    PROVE  Carried(e, f)
<1>1. PICK s \in {e.shut, TRUE} : \E l \in Messages(e) :
        f = [e EXCEPT !.left = l, !.app = FALSE, !.shut = s]
  BY Zenon DEF Halted, Halting
<1>2. PICK l \in Messages(e) : f = [e EXCEPT !.left = l, !.app = FALSE, !.shut = s]
  BY <1>1
<1>3. s \in BOOLEAN /\ FALSE \in BOOLEAN
  BY DEF Fits, Engine
<1> QED BY <1>2, <1>3, WithMessages, Zenon

LEMMA ResumedFits ==
    ASSUME NEW e, Fits(e), NEW f \in Resumed(e)
    PROVE  Carried(e, f)
<1>1. PICK l \in Messages(e) : f = [e EXCEPT !.left = l, !.app = TRUE]
  BY DEF Resumed
<1>2. e.shut \in BOOLEAN /\ TRUE \in BOOLEAN
  BY DEF Fits, Engine
<1>3. f = [e EXCEPT !.left = l, !.app = TRUE, !.shut = e.shut]
  BY <1>1 DEF Fits, Engine
<1> QED BY <1>2, <1>3, WithMessages, Zenon

LEMMA ProcessedFits ==
    ASSUME NEW e, Fits(e), NEW f \in Processed(e)
    PROVE  Carried(e, f)
<1>1. f = e => Carried(e, f)
  BY DEF Carried
<1>2. f \in Halted(Flushed(e)) => Carried(e, f)
  <2>1. Carried(e, Flushed(e))
    BY FlushedFits DEF Carried, Same
  <2>2. f \in Halted(Flushed(e)) => Carried(Flushed(e), f)
    BY <2>1, HaltedFits DEF Carried
  <2> QED BY <2>1, <2>2 DEF Carried
<1> QED BY <1>1, <1>2, HaltedFits, ResumedFits DEF Processed

LEMMA FailedFits ==
    ASSUME NEW e, Fits(e)
    PROVE  Fits(Failed(e)) /\ Failed(e).closed /\ Failed(e).plain = e.plain
<1>1. Failed(e) \in Engine
  BY DEF Failed, Fits, Engine
<1>2. /\ Failed(e).closed = TRUE /\ Failed(e).plain = e.plain /\ Failed(e).cap = e.cap
      /\ Failed(e).acc = e.acc /\ Failed(e).rec = e.rec /\ Failed(e).left = e.left
  BY DEF Failed, Fits, Engine
<1> QED BY <1>1, <1>2 DEF Fits

LEMMA SentFits ==
    ASSUME NEW e, Fits(e), NEW n \in 1..e.left, NEW f \in Sent(e, n)
    PROVE  /\ Fits(f) /\ f.plain = e.plain
           /\ f.closed \/ f.rec + f.acc = IF n = e.left THEN e.acc ELSE e.rec + e.acc
<1> DEFINE p == SentPart(e, n)
<1>1. /\ e \in Engine /\ e.left \in 0..Parts /\ n \in Nat /\ n <= e.left /\ n >= 1
      /\ Parts \in Nat /\ Cap \in Nat /\ e.acc \in Nat /\ e.rec \in Nat
  BY AbstractEngineConstants DEF Fits, Engine
<1>2. CASE n = e.left
  <2>1. p = [e EXCEPT !.rec = 0, !.left = 0]
    BY <1>2 DEF SentPart
  <2>2. p \in Engine
    BY <1>1, <2>1, Sizes DEF Engine
  <2>3. p.rec = 0 /\ p.left = 0 /\ p.acc = e.acc /\ p.plain = e.plain /\ p.cap = e.cap
    BY <1>1, <2>1 DEF Engine
  <2> HIDE DEF p
  <2>4. Fits(p) /\ p.rec + p.acc = e.acc
    BY <1>1, <2>2, <2>3 DEF Fits
  <2>5. f \in Processed(p) \/ f = Failed(p)
    BY <1>2 DEF Sent, p
  <2> QED BY <1>2, <2>3, <2>4, <2>5, ProcessedFits, FailedFits DEF Carried
<1>3. CASE n # e.left
  <2>1. p = [e EXCEPT !.left = e.left - n] /\ f = p
    BY <1>3 DEF SentPart, Sent
  <2>2. e.left - n \in 0..Parts /\ e.left - n # 0
    BY <1>1, <1>3
  <2>3. p \in Engine
    BY <1>1, <2>1, <2>2 DEF Engine
  <2>4. p.rec = e.rec /\ p.left # 0 /\ p.acc = e.acc /\ p.plain = e.plain /\ p.cap = e.cap
    BY <1>1, <2>1, <2>2 DEF Engine
  <2> HIDE DEF p
  <2> QED BY <1>3, <2>1, <2>3, <2>4 DEF Fits
<1> QED BY <1>2, <1>3

LEMMA ReceivedFits ==
    ASSUME NEW e, Fits(e), NEW f \in Received(e)
    PROVE  Fits(f) /\ (f.closed \/ f.rec + f.acc = e.rec + e.acc)
<1>1. ASSUME NEW b \in BOOLEAN, NEW n \in 0..Cap
      PROVE  LET p == [e EXCEPT !.part = b, !.plain = n]
             IN  Fits(p) /\ p.rec = e.rec /\ p.acc = e.acc
  <2> DEFINE p == [e EXCEPT !.part = b, !.plain = n]
  <2>1. p \in Engine
    BY DEF Fits, Engine
  <2>2. p.rec = e.rec /\ p.left = e.left /\ p.acc = e.acc /\ p.cap = e.cap
    BY DEF Fits, Engine
  <2> HIDE DEF p
  <2>3. Fits(p)
    BY <2>1, <2>2 DEF Fits
  <2> QED BY <2>2, <2>3 DEF p
<1>2. /\ e.plain \in 0..Cap
      /\ [e EXCEPT !.part = TRUE] = [e EXCEPT !.part = TRUE, !.plain = e.plain]
      /\ [e EXCEPT !.part = FALSE] = [e EXCEPT !.part = FALSE, !.plain = e.plain]
  BY DEF Fits, Engine
<1>3. \/ f = [e EXCEPT !.part = TRUE]
      \/ f = Failed(e)
      \/ f \in Processed([e EXCEPT !.part = FALSE])
      \/ \E n \in 1..Cap : f = [e EXCEPT !.part = FALSE, !.plain = n]
  BY DEF Received
<1>4. CASE f = [e EXCEPT !.part = TRUE]
  BY <1>1, <1>2, <1>4
<1>5. CASE f = Failed(e)
  BY <1>5, FailedFits
<1>6. CASE f \in Processed([e EXCEPT !.part = FALSE])
  <2> DEFINE p == [e EXCEPT !.part = FALSE]
  <2>1. p \in Engine
    BY DEF Fits, Engine
  <2>2. p.rec = e.rec /\ p.left = e.left /\ p.acc = e.acc /\ p.cap = e.cap
    BY DEF Fits, Engine
  <2> HIDE DEF p
  <2>3. Fits(p)
    BY <2>1, <2>2 DEF Fits
  <2>4. f \in Processed(p)
    BY <1>6 DEF p
  <2> QED BY <2>2, <2>3, <2>4, ProcessedFits DEF Carried
<1>7. ASSUME NEW n \in 1..Cap, f = [e EXCEPT !.part = FALSE, !.plain = n]
      PROVE  Fits(f) /\ f.rec + f.acc = e.rec + e.acc
  <2>1. n \in 0..Cap
    BY AbstractEngineConstants
  <2> QED BY <1>1, <1>7, <2>1
<1> QED BY <1>3, <1>4, <1>5, <1>6, <1>7

LEMMA ReadFits ==
    ASSUME NEW e, Fits(e), NEW n \in Nat, n <= e.plain
    PROVE  /\ Fits(ReadBytes(e, n)) /\ ReadBytes(e, n).plain = e.plain - n
           /\ ReadBytes(e, n).rec = e.rec /\ ReadBytes(e, n).acc = e.acc
           /\ ReadBytes(e, n).closed = e.closed
           /\ SENDAPP(e) => SENDAPP(ReadBytes(e, n)) /\ Room(ReadBytes(e, n)) = Room(e)
<1> DEFINE f == ReadBytes(e, n)
<1>1. e \in Engine /\ e.plain \in 0..Cap /\ e.plain - n \in 0..Cap /\ Cap \in Nat
  BY AbstractEngineConstants DEF Fits, Engine
<1>2. f \in Engine
  BY <1>1 DEF Engine, ReadBytes
<1>3. /\ f.plain = e.plain - n /\ f.rec = e.rec /\ f.acc = e.acc /\ f.closed = e.closed
      /\ f.cap = e.cap /\ f.left = e.left /\ f.app = e.app /\ f.shared = e.shared /\ f.part = e.part
  BY <1>1 DEF Engine, ReadBytes
<1> HIDE DEF f
<1>4. Fits(f)
  BY <1>2, <1>3 DEF Fits
<1>5. e.plain = 0 => f.plain = 0
  BY <1>1, <1>3
<1>6. SENDAPP(e) => SENDAPP(f) /\ Room(f) = Room(e)
  BY <1>3, <1>5 DEF SENDAPP, Room
<1> QED BY <1>3, <1>4, <1>6 DEF f

--------------------------------------------------------------------------------
(* The steps.  What happens to the stack is stated once, with the state after   *)
(* the step in what the lemmas assume.                                          *)

LEMMA Inside ==
    ASSUME Inv, NEW p, In(p)
    PROVE  /\ Top = stack[1] /\ stack[1].at = p /\ stack[1] \in Frame
           /\ Len(stack) \in Nat /\ Len(stack) > 0 /\ WellNested(stack)
           /\ Len(stack) = 1 \/ Len(stack) > 1
           /\ p \in Calls => Len(stack) = 1
           /\ p \in Loops \cup Runs => Len(stack) > 1 /\ Len(stack) # 1 /\ Under(p, stack[2].at)
<1>1. WellNested(stack) /\ stack \in Seq(Frame) /\ stack # << >> /\ Len(stack) \in Nat
  BY DEF Inv, Sound, WellNested, In
<1>2. Len(stack) > 0 /\ stack[1] \in Frame /\ Top = stack[1] /\ stack[1].at = p
  BY <1>1 DEF In, Top
<1>0. \A n \in Nat : n > 0 /\ n # 1 => n > 1 /\ 1 \in 1..(n - 1)
  OBVIOUS
<1>3. ASSUME p \in Calls PROVE Len(stack) = 1
  <2>1. SUFFICES ASSUME Len(stack) # 1 PROVE FALSE
    OBVIOUS
  <2>2. 1 \in 1..(Len(stack) - 1)
    BY <1>0, <1>1, <1>2, <2>1
  <2>3. Under(p, stack[1 + 1].at)
    BY <1>1, <1>2, <2>2 DEF WellNested
  <2> QED BY <2>3, <1>3 DEF Under, Calls, Loops, Runs, Stops
<1>4. ASSUME p \in Loops \cup Runs PROVE Len(stack) > 1 /\ Len(stack) # 1 /\ Under(p, stack[2].at)
  <2>1. Len(stack) # 1
    BY <1>1, <1>2, <1>4 DEF WellNested, Calls, Loops, Runs, Stops
  <2>2. Len(stack) > 1 /\ 1 \in 1..(Len(stack) - 1)
    BY <1>0, <1>1, <1>2, <2>1
  <2> QED BY <1>1, <1>2, <2>1, <2>2 DEF WellNested
<1>5. Len(stack) = 1 \/ Len(stack) > 1
  BY <1>0, <1>1, <1>2
<1> QED BY <1>1, <1>2, <1>3, <1>4, <1>5

LEMMA Rest ==
    ASSUME Inv, Len(stack) > 0, writeError => writeError', Len(stack) > 1 => taken' = taken
    PROVE  Sound(Tail(stack), writeError', taken')
<1>0. WellNested(stack) /\ Len(stack) \in Nat
  BY DEF Inv, Sound, WellNested
<1>1. Sound(Tail(stack), writeError, taken) /\ Len(Tail(stack)) = Len(stack) - 1
  BY <1>0, Popped, PoppedSound DEF Inv
<1>2. Len(Tail(stack)) > 0 => taken = taken'
  BY <1>0, <1>1
<1> QED BY <1>1, <1>2, SoundLater, Zenon

LEMMA Returned ==
    ASSUME Inv, Len(stack) > 0, NEW v, Return(v),
           writeError => writeError', Len(stack) > 1 => taken' = taken,
           stack[1].at \in Loops =>
               /\ v \in {"closed", "stopped", "state"}
               /\ v = "stopped" => writeError'
               /\ v \in {"closed", "state"} => live'
               /\ v = "state" => idx' = 0,
           stack[1].at \in Runs => v \in {"ok", "fail"} /\ (v = "ok" => live' /\ ~eng'.closed)
    PROVE  /\ Sound(stack', writeError', taken') /\ Answered' /\ late' = late /\ ret' = v
           /\ Connecting(stack') <=> Len(stack) > 1 /\ Connecting(stack)
           /\ stack[1].at # "stopping" => (Stopping(stack') <=> Stopping(stack))
<1>1. /\ WellNested(stack) /\ Len(stack) \in Nat /\ stack' = Tail(stack)
      /\ Len(stack') = Len(stack) - 1
      /\ Len(stack') > 0 => Under(stack[1].at, stack'[1].at)
      /\ Connecting(stack') <=> Len(stack) > 1 /\ Connecting(stack)
      /\ stack[1].at # "stopping" => (Stopping(stack') <=> Stopping(stack))
  BY Popped DEF Inv, Sound, WellNested, Return
<1>2. Sound(stack', writeError', taken')
  BY <1>1, Rest
<1>3. Answered'
  <2>1. SUFFICES ASSUME Len(stack') > 0 PROVE Answered'
    BY DEF Answered
  <2>2. Under(stack[1].at, stack'[1].at) /\ ret' = v
    BY <1>1, <2>1 DEF Return
  <2>3. \/ stack[1].at \in Loops /\ stack'[1].at \in {"ran", "available"}
        \/ stack[1].at \in Runs /\ stack'[1].at \in {"write", "writing", "flushed", "stopping", "connect"}
        \/ stack[1].at \in Stops /\ stack'[1].at \in {"updateStopped", "runStopped"}
    BY <2>2 DEF Under
  <2> QED BY <2>2, <2>3 DEF Answered
<1> QED BY <1>1, <1>2, <1>3 DEF Return


LEMMA Calling ==
    ASSUME Inv, Len(stack) > 0, NEW f \in Frame, NEW g \in Frame,
           stack' = << f, g >> \o Tail(stack),
           Alike(g.at, stack[1].at), Under(f.at, g.at), g.at \in Stops => Len(stack) = 1,
           f.at \in {"update", "run", "stop"},
           g.at \in {"updateStopped", "runStopped"} => writeError',
           g.at \in {"write", "writing"} => taken' + g.n <= MaxTaken,
           writeError => writeError', Len(stack) > 1 => taken' = taken,
           f.at \in {"update", "run"} => live', f.at = "stop" => idx' = 0
    PROVE  /\ Sound(stack', writeError', taken') /\ Answered'
           /\ Connecting(stack') <=> IF Len(stack) = 1 THEN g.at = "connect" ELSE Connecting(stack)
           /\ stack[1].at # "stopping" => (Stopping(stack') <=> g.at = "stopping" \/ Stopping(stack))
<1>1. WellNested(stack) /\ Sound(Tail(stack), writeError', taken')
  BY Rest DEF Inv, Sound
<1>2. Sound(stack', writeError', taken')
  <2>1. f.at \notin {"updateStopped", "runStopped", "write", "writing"}
    OBVIOUS
  <2> QED BY <1>1, <2>1, CalledSound, Zenon
<1>3. /\ Len(stack') = Len(stack) + 1 /\ stack'[1] = f
      /\ Connecting(stack') <=> IF Len(stack) = 1 THEN g.at = "connect" ELSE Connecting(stack)
      /\ stack[1].at # "stopping" => (Stopping(stack') <=> {f.at, g.at} \cap {"stopping"} # {} \/ Stopping(stack))
  BY <1>1, Called
<1>4. Answered'
  BY <1>3 DEF Answered
<1> QED BY <1>2, <1>3, <1>4

LEMMA Moving ==
    ASSUME Inv, Len(stack) > 0, NEW f \in Frame,
           stack' = << f >> \o Tail(stack), Alike(f.at, stack[1].at),
           f.at \in {"run", "stopping"}, f.at = "run" => live',
           writeError => writeError', Len(stack) > 1 => taken' = taken
    PROVE  /\ Sound(stack', writeError', taken') /\ Answered'
           /\ Connecting(stack') <=> IF Len(stack) = 1 THEN f.at = "connect" ELSE Connecting(stack)
           /\ stack[1].at # "stopping" => (Stopping(stack') <=> f.at = "stopping" \/ Stopping(stack))
<1>1. WellNested(stack) /\ Sound(Tail(stack), writeError', taken')
  BY Rest DEF Inv, Sound
<1>2. Sound(stack', writeError', taken')
  <2>1. f.at \notin {"updateStopped", "runStopped", "write", "writing"}
    OBVIOUS
  <2> QED BY <1>1, <2>1, MovedSound, Zenon
<1>3. /\ Len(stack') > 0 /\ stack'[1] = f
      /\ Connecting(stack') <=> IF Len(stack) = 1 THEN f.at = "connect" ELSE Connecting(stack)
      /\ stack[1].at # "stopping" => (Stopping(stack') <=> f.at = "stopping" \/ Stopping(stack))
  BY <1>1, Moved DEF WellNested
<1>4. Answered'
  BY <1>3 DEF Answered
<1> QED BY <1>2, <1>3, <1>4


\* The invariant looks at what stays the same.
LEMMA Kept ==
    ASSUME Inv, UNCHANGED <<eng, live, secure, idx, recvLen, bytes>>, Types',
           Sound(stack', writeError', taken'), Answered',
           Connecting(stack') <=> Connecting(stack), Stopping(stack') <=> Stopping(stack)
    PROVE  Inv'
<1>1. Fits(eng)' /\ Counted' /\ Safe'
  BY DEF Inv, Counted, Safe, bytes
<1>2. Owned' /\ Shown'
  BY DEF Inv, Owned, Shown
<1> QED BY <1>1, <1>2 DEF Inv

LEMMA Replaced ==
    ASSUME NEW f \in Frame,
           NEW p \in Loops \cup Runs \cup Stops \cup Calls
    PROVE  LET g == [f EXCEPT !.at = p]
           IN  g \in Frame /\ g.at = p /\ g.n = f.n /\ g.target = f.target
  BY DEF Frame, Loops, Runs, Stops, Calls

LEMMA GivesUp ==
    ASSUME Inv, NEW p \in {"update", "ran"}, NEW q \in {"updateStopped", "runStopped"},
           In(p), Alike(q, p), FailAndStop(q),
           idx = 0, UNCHANGED <<eng, transport, bytes>>
    PROVE  Inv'
<1> DEFINE f == At("stop")
           g == [stack[1] EXCEPT !.at = q]
<1>1. /\ Top = stack[1] /\ stack[1].at = p /\ stack[1] \in Frame
      /\ Len(stack) > 1 /\ Len(stack) \in Nat
  BY Inside DEF Loops, Runs
<1>2. g \in Frame /\ g.at = q
  <2>1. q \in Loops \cup Runs \cup Stops \cup Calls
    BY DEF Loops, Runs
  <2> QED BY <1>1, <2>1, Replaced
<1>3. f \in Frame /\ f.at = "stop"
  BY Frames
<1>4. /\ writeError' = TRUE /\ UNCHANGED <<live, secure, idx, recvLen>> /\ UNCHANGED ret
      /\ stack' = << f, g >> \o Tail(stack)
      /\ late' = late
  BY <1>1, <1>3 DEF FailAndStop, Call
<1> HIDE DEF f, g
<1>5. /\ Sound(stack', writeError', taken') /\ Answered'
      /\ Connecting(stack') <=> IF Len(stack) = 1 THEN g.at = "connect" ELSE Connecting(stack)
      /\ stack[1].at # "stopping" => (Stopping(stack') <=> g.at = "stopping" \/ Stopping(stack))
  <2>1. Alike(g.at, stack[1].at) /\ Under(f.at, g.at) /\ g.at \notin Stops
    BY <1>1, <1>2, <1>3 DEF Alike, Under, Loops, Runs, Stops, Calls
  <2>2. taken' = taken
    BY DEF bytes
  <2>3. g.at \notin {"write", "writing"}
    BY <1>2
  <2>4. f.at \in {"update", "run", "stop"} /\ f.at \notin {"update", "run"} /\ idx' = 0
    BY <1>3, <1>4
  <2>5. writeError'
    BY <1>4
  <2>6. Len(stack) > 0
    BY <1>1
  <2> QED BY <1>2, <1>3, <1>4, <2>1, <2>2, <2>3, <2>4, <2>5, <2>6, Calling, Zenon
<1>6. Types'
  BY <1>4 DEF Inv, Types, transport, bytes
<1> QED BY <1>1, <1>2, <1>4, <1>5, <1>6, Kept


LEMMA GivesBack ==
    ASSUME Inv, NEW p, In(p), p \notin {"connect", "stopping"},
           NEW v \in {"none", "closed", "stopped", "state", "ok", "fail"}, Return(v),
           UNCHANGED <<eng, transport, client, bytes>>,
           p \in Loops =>
               /\ v \in {"closed", "stopped", "state"}
               /\ v = "stopped" => writeError
               /\ v \in {"closed", "state"} => live
               /\ v = "state" => idx = 0,
           p \in Runs => v = "fail"
    PROVE  Inv'
<1>1. /\ Top = stack[1] /\ stack[1].at = p /\ Len(stack) > 0
      /\ Len(stack) = 1 \/ Len(stack) > 1
  BY Inside
<1>2. /\ writeError' = writeError /\ taken' = taken /\ live' = live /\ idx' = idx
      /\ UNCHANGED <<eng, secure, recvLen, transport, bytes>>
  BY DEF client, bytes
<1>3. p \in Runs => v \in {"ok", "fail"} /\ (v = "ok" => live' /\ ~eng'.closed)
  OBVIOUS
<1>4. /\ Sound(stack', writeError', taken') /\ Answered' /\ late' = late /\ ret' = v
      /\ Connecting(stack') <=> Len(stack) > 1 /\ Connecting(stack)
      /\ stack[1].at # "stopping" => (Stopping(stack') <=> Stopping(stack))
  BY <1>1, <1>2, <1>3, Returned
<1>5. Len(stack) = 1 => ~Connecting(stack)
  BY <1>1 DEF Connecting
<1>6. Types'
  BY <1>2, <1>4 DEF Inv, Types, transport, bytes
<1> QED BY <1>1, <1>2, <1>4, <1>5, <1>6, Kept

LEMMA UpdateClosedKeeps ==
    ASSUME Inv, UpdateClosed
    PROVE  Inv'
<1>1. In("update") /\ live /\ Return("closed") /\ UNCHANGED <<eng, transport, client, bytes>>
  BY DEF UpdateClosed
<1> QED BY <1>1, GivesBack DEF Runs

LEMMA UpdateDoneKeeps ==
    ASSUME Inv, UpdateDone
    PROVE  Inv'
<1>1. In("update") /\ live /\ idx = 0 /\ Return("state") /\ UNCHANGED <<eng, transport, client, bytes>>
  BY DEF UpdateDone, Quiet
<1> QED BY <1>1, GivesBack DEF Runs

LEMMA UpdateStoppedKeeps ==
    ASSUME Inv, UpdateStopped
    PROVE  Inv'
<1>1. In("updateStopped") /\ Return("stopped") /\ UNCHANGED <<eng, transport, client, bytes>>
  BY DEF UpdateStopped
<1>2. writeError
  <2>1. stack[1].at = "updateStopped" /\ 1 \in 1..Len(stack)
    BY <1>1, Inside
  <2> QED BY <2>1 DEF Inv, Sound, ErrorsShow
<1> QED BY <1>1, <1>2, GivesBack DEF Runs

LEMMA RunFailsKeeps ==
    ASSUME Inv, RunFails \/ RunStopped
    PROVE  Inv'
<1>1. \E p \in {"ran", "runStopped"} : In(p)
  BY DEF RunFails, RunStopped
<1>2. Return("fail") /\ UNCHANGED <<eng, transport, client, bytes>>
  BY DEF RunFails, RunStopped
<1> QED BY <1>1, <1>2, GivesBack DEF Loops

LEMMA OtherReturnsKeep ==
    ASSUME Inv, StopAgain \/ FlushReturns \/ WriteReturns
    PROVE  Inv'
<1>1. \E p \in {"stop", "flushed", "write", "writing"} : In(p)
  BY DEF StopAgain, FlushReturns, WriteReturns
<1>2. UNCHANGED <<eng, transport, client, bytes>> /\ \E v \in {"none", "ok", "fail"} : Return(v)
  BY DEF StopAgain, FlushReturns, WriteReturns
<1> QED BY <1>1, <1>2, GivesBack DEF Loops, Runs


LEMMA SendRecordKeeps ==
    ASSUME Inv, SendRecord
    PROVE  /\ Inv' /\ UNCHANGED <<secure, taken>>
           /\ sent' = sent \/ (secure /\ sent' > sent /\ sent' <= taken)
<1>1. /\ In("update") /\ live /\ SENDREC(eng)
      /\ UNCHANGED <<open, inbox, fed, client, control, taken>>
  BY DEF SendRecord
<1>2. PICK n \in 1..eng.left :
          /\ eng' \in Sent(eng, n)
          /\ Began(n = eng.left) /\ own' <= MaxOwn
          /\ sent' = IF n = eng.left THEN sent + eng.rec ELSE sent
  BY DEF SendRecord
<1>3. /\ UNCHANGED <<live, secure, writeError, idx, recvLen, late, stack, ret>>
  BY <1>1 DEF client, control
<1>4. /\ Fits(eng') /\ eng'.plain = eng.plain
      /\ eng'.closed \/ eng'.rec + eng'.acc = IF n = eng.left THEN eng.acc ELSE eng.rec + eng.acc
  BY <1>2, SentFits DEF Inv
<1>5. /\ Fits(eng) /\ ~eng.closed /\ eng.left > 0 /\ Cap \in Nat /\ eng.rec \in Nat /\ eng.acc \in Nat
      /\ taken \in Nat /\ sent \in Nat /\ idx \in Nat /\ taken <= MaxTaken /\ MaxTaken \in Nat
  BY <1>1, AbstractEngineConstants, PumpConstants DEF Inv, Types, SENDREC, Fits, Engine
<1>6. idx = 0
  BY <1>1, <1>5 DEF Inv, Safe, SENDAPP
<1>7. IF secure THEN taken = sent + (eng.rec + eng.acc) + idx ELSE eng.rec + eng.acc = 0 /\ idx = 0
  BY <1>1, <1>5 DEF Inv, Counted
<1>8. Counted'
  <2>1. CASE n = eng.left
    BY <1>2, <1>3, <1>4, <1>5, <1>7, <1>1, <2>1 DEF Counted
  <2>2. CASE n # eng.left
    BY <1>2, <1>3, <1>4, <1>5, <1>7, <1>1, <2>2 DEF Counted
  <2> QED BY <2>1, <2>2
<1>9. Types'
  <2>1. sent' \in 0..MaxTaken
    <3>1. sent <= MaxTaken
      BY DEF Inv, Types
    <3>2. CASE n = eng.left
      BY <1>2, <1>5, <1>6, <1>7, <3>1, <3>2
    <3>3. CASE n # eng.left
      BY <1>2, <1>5, <3>1, <3>3
    <3> QED BY <3>2, <3>3
  <2>2. own' \in 0..MaxOwn
    BY <1>2, PumpConstants DEF Began, Inv, Types
  <2> QED BY <1>1, <1>3, <2>1, <2>2 DEF Inv, Types
<1>10. Safe' /\ Shown' /\ Owned'
  BY <1>3, <1>4, <1>6 DEF Inv, Safe, Shown, Owned
<1>11. Answered'
  <2>1. stack[1].at = "update"
    BY <1>1, Inside
  <2> QED BY <1>1, <1>3, <2>1 DEF Answered
<1>12. Sound(stack', writeError', taken')
  BY <1>1, <1>3 DEF Inv
<1>13. sent' = sent \/ (secure /\ sent' > sent /\ sent' <= taken)
  BY <1>2, <1>5, <1>6, <1>7
<1> QED BY <1>1, <1>3, <1>13, <1>4, <1>8, <1>9, <1>10, <1>11, <1>12 DEF Inv

LEMMA SendFailsKeeps ==
    ASSUME Inv, SendFails, ~SilentWrites
    PROVE  Inv'
<1>1. /\ In("update") /\ FailAndStop("updateStopped") /\ live /\ SENDREC(eng)
      /\ UNCHANGED <<eng, transport, bytes>>
  BY DEF SendFails
<1>2. idx = 0
  <2>1. idx \in Nat
    BY AbstractEngineConstants DEF Inv, Types
  <2> QED BY <1>1, <2>1 DEF Inv, Safe, SENDAPP, SENDREC
<1>3. Alike("updateStopped", "update")
  BY DEF Alike, Loops, Runs, Stops, Calls
<1> QED BY <1>1, <1>2, <1>3, GivesUp

LEMMA TakeWrittenKeeps ==
    ASSUME Inv, TakeWritten
    PROVE  Inv'
<1>1. /\ In("update") /\ live /\ ~eng.closed /\ ~SENDREC(eng) /\ idx > 0
      /\ UNCHANGED <<transport, bytes>>
  BY DEF TakeWritten
<1>2. SENDAPP(eng) /\ idx < Room(eng) /\ Fits(eng) /\ eng.cap = Cap
  BY <1>1 DEF Inv, Safe, Fits
<1>3. /\ Cap \in Nat /\ eng.acc \in Nat /\ eng.rec \in Nat /\ eng.acc < Cap /\ idx \in Nat
      /\ eng.left = 0 /\ Room(eng) = Cap - eng.acc /\ taken \in Nat /\ sent \in Nat
  BY <1>2, AbstractEngineConstants DEF Inv, Types, Fits, Engine, SENDAPP, Room
<1>4. /\ eng' = Acked(eng, idx) /\ idx' = 0
      /\ UNCHANGED <<live, secure, writeError, recvLen, control>>
  <2>1. idx <= Room(eng)
    BY <1>2, <1>3
  <2> QED BY <2>1, Zenon DEF TakeWritten
<1>5. /\ Fits(eng') /\ Same(eng, eng') /\ eng'.rec + eng'.acc = (eng.rec + eng.acc) + idx
      /\ eng'.rec \in Nat /\ eng'.acc \in Nat
  <2>1. eng.acc + idx <= Cap
    BY <1>2, <1>3
  <2>2. Fits(eng') /\ Same(eng, eng') /\ eng'.rec + eng'.acc = (eng.rec + eng.acc) + idx
    BY <1>2, <1>3, <1>4, <2>1, AckedFits
  <2> QED BY <2>2, AbstractEngineConstants DEF Fits, Engine
<1>6. UNCHANGED <<late, stack, ret, taken, sent>>
  BY <1>1, <1>4 DEF control, bytes
<1>7. Counted'
  <2>1. IF secure THEN taken = sent + (eng.rec + eng.acc) + idx ELSE eng.rec + eng.acc = 0 /\ idx = 0
    BY <1>1 DEF Inv, Counted
  <2> QED BY <1>3, <1>4, <1>5, <1>6, <2>1 DEF Counted
<1>8. Types'
  BY <1>1, <1>4, <1>6, Sizes DEF Inv, Types, transport
<1>9. Safe' /\ Shown' /\ Owned'
  BY <1>4, <1>5, <1>6 DEF Inv, Safe, Shown, Owned, Same
<1>10. Answered'
  <2>1. stack[1].at = "update"
    BY <1>1, Inside
  <2> QED BY <1>1, <1>4, <1>6, <2>1 DEF Answered
<1>11. Sound(stack', writeError', taken')
  BY <1>4, <1>6 DEF Inv
<1> QED BY <1>5, <1>7, <1>8, <1>9, <1>10, <1>11 DEF Inv


LEMMA ReceiveRecordKeeps ==
    ASSUME Inv, ReceiveRecord
    PROVE  Inv'
<1>1. /\ In("update") /\ live /\ idx = 0 /\ RECVREC(eng) /\ inbox > 0
      /\ UNCHANGED <<open, fed, bytes>>
  BY DEF ReceiveRecord, Quiet
<1>2. CASE FailAndStop("updateStopped") /\ UNCHANGED <<eng, inbox, own>>
  <2>1. Alike("updateStopped", "update")
    BY DEF Alike, Loops, Runs, Stops, Calls
  <2>2. UNCHANGED <<eng, transport, bytes>>
    BY <1>1, <1>2 DEF transport
  <2> QED BY <1>1, <1>2, <2>1, <2>2, GivesUp
<1>3. CASE /\ eng' \in Received(eng) /\ inbox' = inbox - 1
           /\ Began(TRUE) /\ own' <= MaxOwn
           /\ UNCHANGED <<client, control>>
  <2>1. UNCHANGED <<live, secure, writeError, idx, recvLen, late, stack, ret, open, fed, taken, sent>>
    BY <1>1, <1>3 DEF client, control, bytes
  <2>2. Fits(eng') /\ (eng'.closed \/ eng'.rec + eng'.acc = eng.rec + eng.acc)
    BY <1>3, ReceivedFits DEF Inv
  <2>3. Counted'
    BY <1>1, <2>1, <2>2 DEF Inv, Counted, RECVREC
  <2>4. Types'
    <3>1. inbox' \in Nat /\ inbox' <= fed
      BY <1>1, <1>3 DEF Inv, Types
    <3>2. own' \in 0..MaxOwn
      BY <1>3, PumpConstants DEF Began, Inv, Types
    <3> QED BY <2>1, <3>1, <3>2 DEF Inv, Types
  <2>5. Shown'
    <3>1. Stopping(stack) \/ recvLen = 0
      BY <1>1, AbstractEngineConstants DEF Inv, Shown, Types, RECVREC
    <3> QED BY <2>1, <3>1 DEF Shown
  <2>6. Safe' /\ Owned'
    BY <1>1, <2>1 DEF Inv, Safe, Owned
  <2>7. Answered'
    <3>1. stack[1].at = "update"
      BY <1>1, Inside
    <3> QED BY <1>1, <2>1, <3>1 DEF Answered
  <2>8. Sound(stack', writeError', taken')
    BY <2>1 DEF Inv
  <2> QED BY <2>2, <2>3, <2>4, <2>5, <2>6, <2>7, <2>8 DEF Inv
<1> QED BY <1>2, <1>3, Zenon DEF ReceiveRecord

LEMMA RunKeeps ==
    ASSUME Inv, Run
    PROVE  Inv'
<1> DEFINE f == At("update")
           g == [stack[1] EXCEPT !.at = "ran"]
<1>1. /\ In("run") /\ Call(f, "ran")
      /\ UNCHANGED <<live, secure, writeError, idx, recvLen, eng, transport, bytes>>
  BY DEF Run, client
<1>2. /\ Top = stack[1] /\ stack[1].at = "run" /\ stack[1] \in Frame
      /\ Len(stack) > 0 /\ Len(stack) > 1 /\ Len(stack) # 1
  BY <1>1, Inside DEF Runs
<1>3. g \in Frame /\ g.at = "ran" /\ f \in Frame /\ f.at = "update"
  BY <1>2, Replaced, Frames DEF Runs
<1>4. stack' = << f, g >> \o Tail(stack) /\ late' = late /\ ret' = ret
  BY <1>1, <1>2, <1>3 DEF Call
<1>5. live /\ taken' = taken
  BY <1>1, <1>2 DEF Inv, Answered, bytes
<1> HIDE DEF f, g
<1>6. /\ Sound(stack', writeError', taken') /\ Answered'
      /\ Connecting(stack') <=> Connecting(stack)
      /\ Stopping(stack') <=> Stopping(stack)
  <2>1. Alike(g.at, stack[1].at) /\ Under(f.at, g.at) /\ g.at \notin Stops
    BY <1>2, <1>3 DEF Alike, Under, Loops, Runs, Stops, Calls
  <2>2. /\ f.at \in {"update", "run", "stop"} /\ f.at # "stop"
        /\ g.at \notin {"updateStopped", "runStopped", "write", "writing", "stopping"}
        /\ Len(stack) # 1
    BY <1>2, <1>3
  <2>3. /\ Sound(stack', writeError', taken') /\ Answered'
        /\ Connecting(stack') <=> IF Len(stack) = 1 THEN g.at = "connect" ELSE Connecting(stack)
        /\ stack[1].at # "stopping" => (Stopping(stack') <=> g.at = "stopping" \/ Stopping(stack))
    BY <1>1, <1>2, <1>3, <1>4, <1>5, <2>1, <2>2, Calling
  <2> QED BY <1>2, <1>3, <2>2, <2>3
<1>7. Types'
  BY <1>1, <1>4 DEF Inv, Types, transport, bytes
<1> QED BY <1>1, <1>6, <1>7, Kept

\* mRunUntil sees a state that it may go on with.
LEMMA RanInTime ==
    ASSUME Inv, In("ran"), ~(ret = "closed" \/ writeError)
    PROVE  ret = "state" /\ live /\ idx = 0
  BY Inside DEF Inv, Answered

LEMMA RunTimesOutKeeps ==
    ASSUME Inv, RunTimesOut
    PROVE  Inv'
<1>1. In("ran") /\ ~(ret = "closed" \/ writeError) /\ FailAndStop("runStopped")
      /\ UNCHANGED <<eng, transport, bytes>>
  BY DEF RunTimesOut
<1>2. Alike("runStopped", "ran")
  BY DEF Alike, Loops, Runs, Stops, Calls
<1> QED BY <1>1, <1>2, GivesUp, RanInTime

LEMMA RunArrivesKeeps ==
    ASSUME Inv, RunArrives
    PROVE  Inv'
<1>1. /\ In("ran") /\ ~(ret = "closed" \/ writeError) /\ Return("ok")
      /\ UNCHANGED <<eng, transport, live, secure, writeError, idx, bytes>>
      /\ SENDAPP(eng) \/ RECVAPP(eng)
      /\ recvLen' \in {recvLen, eng.plain}
  BY DEF RunArrives, InTime
<1>2. ~eng.closed /\ live /\ recvLen' \in {recvLen, eng.plain} /\ taken' = taken
  BY <1>1, RanInTime DEF SENDAPP, RECVAPP, bytes
<1>3. stack[1].at = "ran" /\ Len(stack) > 0 /\ Len(stack) > 1
  BY <1>1, Inside DEF Runs
<1>4. /\ Sound(stack', writeError', taken') /\ Answered' /\ late' = late /\ ret' = "ok"
      /\ Connecting(stack') <=> Connecting(stack)
      /\ Stopping(stack') <=> Stopping(stack)
  <2>1. stack[1].at \notin Loops /\ stack[1].at # "stopping"
    BY <1>3 DEF Loops
  <2> QED BY <1>1, <1>2, <1>3, <2>1, Returned
<1>5. Types'
  <2>1. eng.plain \in 0..Cap
    BY DEF Inv, Fits, Engine
  <2> QED BY <1>1, <1>2, <1>4, <2>1 DEF Inv, Types, transport, bytes
<1>6. Fits(eng') /\ Counted' /\ Safe' /\ Owned' /\ Shown'
  BY <1>1, <1>2, <1>4 DEF Inv, Counted, Safe, Owned, Shown, bytes
<1> QED BY <1>4, <1>5, <1>6 DEF Inv

LEMMA RunAgainKeeps ==
    ASSUME Inv, RunAgain
    PROVE  Inv'
<1> DEFINE f == [stack[1] EXCEPT !.at = "run"]
<1>1. /\ In("ran") /\ ~(ret = "closed" \/ writeError) /\ Goto("run")
      /\ UNCHANGED <<transport, live, secure, writeError, recvLen, bytes>>
      /\ idx' = 0 \/ idx' = idx
      /\ eng' = eng \/ eng' = Flushed(eng)
  BY DEF RunAgain, InTime
<1>2. live /\ idx = 0 /\ idx' = idx /\ taken' = taken
  BY <1>1, RanInTime DEF bytes
<1>3. /\ Top = stack[1] /\ stack[1].at = "ran" /\ stack[1] \in Frame
      /\ Len(stack) > 0 /\ Len(stack) > 1 /\ Len(stack) # 1
  BY <1>1, Inside DEF Runs
<1>4. f \in Frame /\ f.at = "run"
  BY <1>3, Replaced DEF Runs
<1>5. stack' = << f >> \o Tail(stack) /\ late' = late /\ ret' = ret
  BY <1>1, <1>3 DEF Goto
<1> HIDE DEF f
<1>6. /\ Sound(stack', writeError', taken') /\ Answered'
      /\ Connecting(stack') <=> Connecting(stack)
      /\ Stopping(stack') <=> Stopping(stack)
  <2>1. Alike(f.at, stack[1].at)
    BY <1>3, <1>4 DEF Alike, Loops, Runs, Stops, Calls
  <2>2. f.at \in {"run", "stopping"} /\ f.at # "stopping" /\ stack[1].at # "stopping" /\ Len(stack) # 1
    BY <1>3, <1>4
  <2> QED BY <1>1, <1>2, <1>3, <1>4, <1>5, <2>1, <2>2, Moving
<1>7. Fits(eng') /\ Same(eng, eng') /\ eng'.rec + eng'.acc = eng.rec + eng.acc
  BY <1>1, FlushedFits DEF Inv, Same
<1>8. Counted' /\ Safe' /\ Owned' /\ Shown'
  BY <1>1, <1>2, <1>6, <1>7 DEF Inv, Counted, Safe, Owned, Shown, Same, bytes
<1>9. Types'
  BY <1>1, <1>2, <1>5 DEF Inv, Types, transport, bytes
<1> QED BY <1>6, <1>7, <1>8, <1>9 DEF Inv


LEMMA StopBeginsKeeps ==
    ASSUME Inv, StopBegins
    PROVE  Inv'
<1> DEFINE f == RunUntil("RECVAPP")
           g == [stack[1] EXCEPT !.at = "stopping"]
<1>1. /\ In("stop") /\ secure /\ UNCHANGED <<transport, live, secure, idx, bytes>>
  BY DEF StopBegins
<1>2. /\ Top = stack[1] /\ stack[1].at = "stop" /\ stack[1] \in Frame
      /\ Len(stack) > 0 /\ Len(stack) \in Nat
      /\ Len(stack) = 1 \/ Len(stack) > 1
  BY <1>1, Inside
<1>3. g \in Frame /\ g.at = "stopping" /\ f \in Frame /\ f.at = "run"
  BY <1>2, Replaced, Frames DEF Stops
<1>4. \/ /\ Offers(eng) /\ recvLen' = Readable(eng) /\ UNCHANGED writeError
         /\ eng' = IF RECVAPP(eng) THEN ReadBytes(eng, eng.plain) ELSE eng
      \/ writeError' \in {writeError, TRUE} /\ UNCHANGED <<eng, recvLen>>
  BY Zenon DEF StopBegins
<1>5. \/ idx > 0 /\ Call(f, "stopping")
      \/ Goto("stopping")
  BY Zenon DEF StopBegins
<1>6. /\ taken' = taken /\ sent' = sent /\ live' = live /\ live /\ idx' = idx
      /\ writeError' \in BOOLEAN
      /\ writeError => writeError'
  <2>1. writeError \in BOOLEAN
    BY DEF Inv, Types
  <2>2. writeError' \in {writeError, TRUE}
    BY <1>4
  <2>3. writeError' \in BOOLEAN
    BY <2>1, <2>2, Zenon
  <2>4. writeError => writeError'
    BY <2>2, Zenon
  <2> QED BY <1>1, <2>3, <2>4 DEF bytes, Inv, Owned
<1> HIDE DEF f, g
<1>7. Alike(g.at, stack[1].at)
  BY <1>2, <1>3 DEF Alike, Loops, Runs, Stops, Calls
<1>8. /\ Sound(stack', writeError', taken') /\ Answered' /\ late' \in BOOLEAN /\ ret' = ret
      /\ Connecting(stack') <=> Connecting(stack)
      /\ Stopping(stack')
  <2>0. Len(stack) = 1 => ~Connecting(stack)
    BY <1>2 DEF Connecting
  <2>1. CASE idx > 0 /\ Call(f, "stopping")
    <3>1. stack' = << f, g >> \o Tail(stack) /\ late' = FALSE /\ ret' = ret
      BY <1>2, <1>3, <2>1 DEF Call, g
    <3>2. Len(stack) = 1
      <4>1. idx \in Nat /\ idx # 0
        BY <2>1 DEF Inv, Types
      <4> QED BY <1>2, <4>1 DEF Inv, Answered
    <3>3. /\ Under(f.at, g.at) /\ f.at \in {"update", "run", "stop"} /\ f.at # "stop"
          /\ g.at \notin {"updateStopped", "runStopped", "write", "writing"}
      BY <1>3 DEF Under, Runs
    <3>4. /\ Sound(stack', writeError', taken') /\ Answered'
          /\ Connecting(stack') <=> IF Len(stack) = 1 THEN g.at = "connect" ELSE Connecting(stack)
          /\ stack[1].at # "stopping" => (Stopping(stack') <=> g.at = "stopping" \/ Stopping(stack))
      BY <1>2, <1>3, <1>6, <1>7, <3>1, <3>2, <3>3, Calling
    <3> QED BY <1>2, <1>3, <2>0, <3>1, <3>2, <3>4
  <2>2. CASE Goto("stopping")
    <3>1. stack' = << g >> \o Tail(stack) /\ late' = late /\ ret' = ret
      BY <1>2, <2>2 DEF Goto, g
    <3>2. g.at \in {"run", "stopping"} /\ g.at # "run"
      BY <1>3
    <3>3. /\ Sound(stack', writeError', taken') /\ Answered'
          /\ Connecting(stack') <=> IF Len(stack) = 1 THEN g.at = "connect" ELSE Connecting(stack)
          /\ stack[1].at # "stopping" => (Stopping(stack') <=> g.at = "stopping" \/ Stopping(stack))
      BY <1>2, <1>3, <1>6, <1>7, <3>1, <3>2, Moving
    <3> QED BY <1>2, <1>3, <2>0, <3>1, <3>3 DEF Inv, Types
  <2> QED BY <1>5, <2>1, <2>2
<1>9. /\ Fits(eng') /\ eng'.rec = eng.rec /\ eng'.acc = eng.acc /\ eng'.closed = eng.closed
      /\ SENDAPP(eng) => SENDAPP(eng') /\ Room(eng') = Room(eng)
      /\ recvLen' \in 0..Cap
  <2>1. eng.plain \in 0..Cap /\ eng.plain \in Nat /\ 0 \in 0..Cap /\ eng.plain <= eng.plain
    BY AbstractEngineConstants DEF Inv, Fits, Engine
  <2>2. eng' \in {eng, ReadBytes(eng, eng.plain)} /\ recvLen' \in {recvLen, Readable(eng)}
    BY <1>4
  <2>3. recvLen' \in 0..Cap
    BY <2>1, <2>2 DEF Inv, Types, Readable
  <2> QED BY <2>1, <2>2, <2>3, ReadFits DEF Inv
<1>10. Counted' /\ Safe' /\ Owned' /\ Shown'
  BY <1>1, <1>6, <1>8, <1>9 DEF Inv, Counted, Safe, Owned, Shown
<1>11. Types'
  BY <1>1, <1>6, <1>8, <1>9 DEF Inv, Types, transport
<1> QED BY <1>8, <1>9, <1>10, <1>11 DEF Inv

LEMMA StopEndsKeeps ==
    ASSUME Inv, StopEnds
    PROVE  Inv'
<1>1. /\ In("stopping") /\ open' = FALSE /\ live' = FALSE /\ secure' = FALSE /\ recvLen' = 0
      /\ Return("none")
      /\ UNCHANGED <<eng, inbox, fed, own, writeError, idx, taken, sent>>
  BY DEF StopEnds, bytes
<1>2. stack[1].at = "stopping" /\ Len(stack) > 0 /\ 1 \in 1..Len(stack)
  BY <1>1, Inside
<1>3. /\ Sound(stack', writeError', taken') /\ Answered' /\ late' = late /\ ret' = "none"
      /\ Connecting(stack') => Connecting(stack)
  <2>1. stack[1].at \notin Loops \cup Runs
    BY <1>2 DEF Loops, Runs
  <2> QED BY <1>1, <1>2, <2>1, Returned
<1>4. ~Connecting(stack)
  BY <1>2 DEF Inv, Owned, Stopping
<1>5. Types'
  BY <1>1, <1>3, Sizes DEF Inv, Types
<1>6. Fits(eng') /\ Counted' /\ Safe' /\ Owned' /\ Shown'
  BY <1>1, <1>3, <1>4 DEF Inv, Counted, Safe, Owned, Shown
<1> QED BY <1>3, <1>5, <1>6 DEF Inv


LEMMA WriteCopiesKeeps ==
    ASSUME Inv, WriteCopies
    PROVE  Inv' /\ secure /\ UNCHANGED <<secure, sent>> /\ (taken' = taken \/ taken' > taken)
<1> DEFINE room == Room(eng)
           n == stack[1].n
           k == IF n >= room - idx THEN room - idx ELSE n
           f == RunUntil("SENDAPP")
           g == [stack[1] EXCEPT !.at = "writing", !.n = n - k]
<1>1. ret = "ok" /\ Copy /\ UNCHANGED transport /\ \E p \in {"write", "writing"} : In(p)
  BY DEF WriteCopies
<1>2. /\ Top = stack[1] /\ stack[1].at \in {"write", "writing"} /\ stack[1] \in Frame
      /\ Len(stack) = 1 /\ Len(stack) > 0 /\ WellNested(stack)
  BY <1>1, Inside DEF Calls
<1>3. live /\ ~eng.closed /\ ~Connecting(stack) /\ secure
  BY <1>1, <1>2 DEF Inv, Answered, Owned, Connecting
<1>4. taken = sent + (eng.rec + eng.acc) + idx
  BY <1>3 DEF Inv, Counted
<1>5. /\ Cap \in Nat /\ eng.acc \in Nat /\ eng.acc < Cap /\ eng.rec \in Nat /\ eng.cap = Cap
      /\ idx \in Nat /\ taken \in Nat /\ sent \in Nat /\ MaxTaken \in Nat /\ n \in Nat /\ n <= MaxWrite
  BY <1>2, AbstractEngineConstants, PumpConstants DEF Inv, Types, Fits, Engine, Frame
<1>6. \/ SENDAPP(eng) /\ room = Cap - eng.acc /\ eng.left = 0 /\ (idx = 0 \/ idx < room)
      \/ room = 0 /\ idx = 0
  BY <1>3, <1>5 DEF Room, Inv, Safe, SENDAPP
<1>7. k \in Nat /\ k <= n /\ idx + k <= room /\ room \in 0..Cap
  BY <1>5, <1>6
<1>8. taken + n <= MaxTaken
  BY <1>2 DEF Inv, Sound, Pending
<1>9. /\ taken' = taken + k /\ UNCHANGED <<live, secure, writeError, recvLen, sent>>
      /\ \/ /\ idx + k = room /\ idx' = 0 /\ eng' = Acked(eng, idx + k)
            /\ stack' = << f, g >> \o Tail(stack) /\ late' = FALSE /\ UNCHANGED ret
         \/ idx + k # room /\ idx' = idx + k /\ eng' = eng /\ Return("ok")
  BY <1>1, <1>2 DEF Copy
<1> HIDE DEF room, n, k
<1>10. taken' \in 0..MaxTaken /\ taken' = taken + k
  BY <1>5, <1>7, <1>8, <1>9
<1>11. ASSUME idx + k # room /\ idx' = idx + k /\ eng' = eng /\ Return("ok") PROVE Inv'
  <2>1. /\ Sound(stack', writeError', taken') /\ Answered' /\ late' = late /\ ret' = "ok"
        /\ ~Connecting(stack')
        /\ Stopping(stack') <=> Stopping(stack)
    <3>1. stack[1].at \notin Loops \cup Runs \cup Stops /\ stack[1].at # "stopping" /\ ~(Len(stack) > 1)
      BY <1>2 DEF Loops, Runs, Stops
    <3> QED BY <1>2, <1>3, <1>9, <1>11, <3>1, Returned
  <2>2. idx + k < room /\ idx + k \in 0..Cap
    BY <1>5, <1>7, <1>11
  <2>3. Counted'
    BY <1>3, <1>4, <1>5, <1>7, <1>9, <1>11 DEF Counted
  <2>4. Safe'
    BY <1>5, <1>6, <1>7, <1>11, <2>2 DEF Safe, room
  <2>5. Fits(eng') /\ Owned' /\ Shown'
    BY <1>3, <1>9, <1>11, <2>1 DEF Inv, Owned, Shown
  <2>6. Types'
    BY <1>1, <1>9, <1>10, <1>11, <2>1, <2>2 DEF Inv, Types, transport
  <2> QED BY <2>1, <2>3, <2>4, <2>5, <2>6 DEF Inv
<1>12. ASSUME /\ idx + k = room /\ idx' = 0 /\ eng' = Acked(eng, idx + k)
              /\ stack' = << f, g >> \o Tail(stack) /\ late' = FALSE /\ UNCHANGED ret
       PROVE  Inv'
  <2>1. g \in Frame /\ g.at = "writing" /\ g.n = n - k /\ f \in Frame /\ f.at = "run"
    <3>1. n - k \in 0..MaxWrite
      BY <1>5, <1>7, PumpConstants
    <3> QED BY <1>2, <3>1, Frames DEF Frame
  <2> HIDE DEF f, g
  <2>2. /\ Sound(stack', writeError', taken') /\ Answered'
        /\ ~Connecting(stack')
        /\ Stopping(stack') <=> Stopping(stack)
    <3>1. Alike(g.at, stack[1].at) /\ Under(f.at, g.at) /\ g.at \notin Stops
      BY <1>2, <2>1 DEF Alike, Under, Loops, Runs, Stops, Calls
    <3>2. taken' + g.n <= MaxTaken
      BY <1>5, <1>7, <1>8, <1>10, <2>1
    <3>3. /\ f.at \in {"update", "run", "stop"} /\ f.at # "stop" /\ ~(Len(stack) > 1)
          /\ g.at \notin {"updateStopped", "runStopped", "stopping", "connect"}
          /\ stack[1].at # "stopping" /\ live'
      BY <1>2, <1>3, <1>9, <2>1
    <3> QED BY <1>2, <1>9, <1>12, <2>1, <3>1, <3>2, <3>3, Calling
  <2>3. /\ Fits(eng') /\ Same(eng, eng') /\ eng'.rec + eng'.acc = (eng.rec + eng.acc) + (idx + k)
        /\ eng'.rec \in Nat /\ eng'.acc \in Nat
    <3>1. idx + k \in Nat /\ (idx + k = 0 \/ (eng.left = 0 /\ eng.acc + (idx + k) <= Cap))
      BY <1>5, <1>6, <1>7, <1>12
    <3>2. Fits(eng') /\ Same(eng, eng') /\ eng'.rec + eng'.acc = (eng.rec + eng.acc) + (idx + k)
      BY <1>12, <3>1, AckedFits DEF Inv
    <3> QED BY <3>2, AbstractEngineConstants DEF Fits, Engine
  <2>4. Counted'
    <3>1. taken' = sent' + (eng'.rec + eng'.acc) + idx'
      <4>1. \A t, s, x, i, j \in Nat : t = s + x + i => t + j = s + (x + (i + j)) + 0
        OBVIOUS
      <4>2. eng.rec + eng.acc \in Nat
        BY <1>5
      <4>3. taken + k = sent + ((eng.rec + eng.acc) + (idx + k)) + 0
        BY <1>4, <1>5, <1>7, <4>1, <4>2
      <4> QED BY <1>9, <1>12, <2>3, <4>3
    <3> QED BY <1>3, <1>9, <3>1 DEF Counted
  <2>5. Safe' /\ Owned' /\ Shown'
    BY <1>3, <1>9, <1>12, <2>2, <2>3 DEF Inv, Safe, Owned, Shown, Same
  <2>6. Types'
    BY <1>1, <1>9, <1>10, <1>12, Sizes DEF Inv, Types, transport
  <2> QED BY <2>2, <2>3, <2>4, <2>5, <2>6 DEF Inv
<1>13. taken' = taken \/ taken' > taken
  BY <1>5, <1>7, <1>10
<1> QED BY <1>3, <1>9, <1>11, <1>12, <1>13


LEMMA AvailableReturnsKeeps ==
    ASSUME Inv, AvailableReturns
    PROVE  Inv'
<1>1. /\ In("available") /\ Return("none")
      /\ UNCHANGED <<transport, live, secure, writeError, idx, taken, sent>>
      /\ recvLen' \in {recvLen, eng.plain}
      /\ eng' = eng \/ (ret = "state" /\ eng' = Flushed(eng))
  BY DEF AvailableReturns, bytes
<1>2. stack[1].at = "available" /\ Len(stack) > 0 /\ Len(stack) = 1
  BY <1>1, Inside DEF Calls
<1>3. ret = "state" => live /\ idx = 0
  BY <1>2 DEF Inv, Answered
<1>4. /\ Sound(stack', writeError', taken') /\ Answered' /\ late' = late /\ ret' = "none"
      /\ ~Connecting(stack')
      /\ Stopping(stack') <=> Stopping(stack)
  <2>1. stack[1].at \notin Loops \cup Runs /\ stack[1].at # "stopping" /\ ~(Len(stack) > 1)
    BY <1>2 DEF Loops, Runs
  <2> QED BY <1>1, <1>2, <2>1, Returned
<1>5. Fits(eng') /\ Same(eng, eng') /\ eng'.rec + eng'.acc = eng.rec + eng.acc
  BY <1>1, FlushedFits DEF Inv, Same
<1>6. Counted' /\ Shown'
  BY <1>1, <1>4, <1>5 DEF Inv, Counted, Shown, Same
<1>7. Safe'
  <2>1. CASE eng' = eng
    BY <1>1, <2>1 DEF Inv, Safe
  <2>2. CASE ret = "state"
    BY <1>1, <1>3, <2>2 DEF Safe
  <2> QED BY <1>1, <2>1, <2>2
<1>8. Owned'
  <2>1. ~Connecting(stack)
    BY <1>2 DEF Connecting
  <2> QED BY <1>1, <1>4, <2>1 DEF Inv, Owned
<1>9. Types'
  <2>1. eng.plain \in 0..Cap
    BY DEF Inv, Fits, Engine
  <2> QED BY <1>1, <1>4, <2>1 DEF Inv, Types, transport
<1> QED BY <1>4, <1>5, <1>6, <1>7, <1>8, <1>9 DEF Inv

LEMMA ConnectReturnsKeeps ==
    ASSUME Inv, ConnectReturns
    PROVE  /\ Inv'
           /\ \/ ~secure /\ secure' /\ taken' = 0 /\ sent' = 0
              \/ UNCHANGED <<secure, taken, sent>>
<1>1. /\ In("connect") /\ Return("none") /\ UNCHANGED <<eng, transport, writeError, idx>>
      /\ \/ ret = "ok" /\ secure' = TRUE /\ taken' = 0 /\ sent' = 0 /\ UNCHANGED <<live, recvLen>>
         \/ live' = FALSE /\ recvLen' = 0 /\ UNCHANGED <<secure, taken, sent>>
  BY DEF ConnectReturns, bytes
<1>2. stack[1].at = "connect" /\ Len(stack) > 0 /\ Len(stack) = 1
  BY <1>1, Inside DEF Calls
<1>3. Connecting(stack) /\ live /\ ~secure /\ ~Stopping(stack)
  BY <1>2 DEF Inv, Owned, Connecting
<1>4. /\ Sound(stack', writeError', taken') /\ Answered' /\ late' = late /\ ret' = "none"
      /\ ~Connecting(stack')
  <2>1. stack[1].at \notin Loops \cup Runs /\ stack[1].at # "stopping" /\ ~(Len(stack) > 1)
    BY <1>2 DEF Loops, Runs
  <2> QED BY <1>1, <1>2, <2>1, Returned
<1>5. CASE ret = "ok" /\ secure' = TRUE /\ taken' = 0 /\ sent' = 0 /\ UNCHANGED <<live, recvLen>>
  <2>1. ~eng.closed => eng.rec + eng.acc = 0 /\ idx = 0
    BY <1>3 DEF Inv, Counted
  <2>2. Counted' /\ Safe' /\ Owned' /\ Shown' /\ Fits(eng')
    BY <1>1, <1>3, <1>4, <1>5, <2>1 DEF Inv, Counted, Safe, Owned, Shown
  <2>3. Types'
    BY <1>1, <1>4, <1>5, PumpConstants DEF Inv, Types, transport
  <2> QED BY <1>3, <1>4, <1>5, <2>2, <2>3 DEF Inv
<1>6. CASE live' = FALSE /\ recvLen' = 0 /\ UNCHANGED <<secure, taken, sent>>
  <2>1. Counted' /\ Safe' /\ Owned' /\ Shown' /\ Fits(eng')
    BY <1>1, <1>3, <1>4, <1>6 DEF Inv, Counted, Safe, Owned, Shown
  <2>2. Types'
    BY <1>1, <1>4, <1>6, Sizes DEF Inv, Types, transport
  <2> QED BY <1>4, <1>6, <2>1, <2>2 DEF Inv
<1> QED BY <1>1, <1>5, <1>6


\* The application makes a call.
LEMMA Started ==
    ASSUME NEW f \in Frame, NEW g \in Frame, NEW error, NEW k,
           f.at \in {"update", "run"}, g.at \in Calls, Under(f.at, g.at),
           g.at \in {"write", "writing"} => k + g.n <= MaxTaken
    PROVE  LET st == << f, g >>
           IN  /\ Sound(st, error, k) /\ Len(st) = 2 /\ st[1] = f
               /\ Connecting(st) <=> g.at = "connect"
               /\ ~Stopping(st)
<1> DEFINE st == << f, g >>
<1>1. /\ st \in Seq(Frame) /\ Len(st) = 2 /\ st[1] = f /\ st[2] = g
      /\ \A i \in 1..Len(st) : i = 1 \/ i = 2
      /\ \A i \in 1..(Len(st) - 1) : i = 1
  OBVIOUS
<1> HIDE DEF st
<1>2. /\ f.at \notin {"updateStopped", "runStopped", "write", "writing", "stopping"} \cup Stops
      /\ g.at \notin {"updateStopped", "runStopped", "stopping"} \cup Stops
  BY DEF Stops, Calls
<1>3. WellNested(st)
  BY <1>1, <1>2 DEF WellNested
<1>4. Sound(st, error, k)
  BY <1>1, <1>2, <1>3 DEF Sound, ErrorsShow, Pending
<1>5. (Connecting(st) <=> g.at = "connect") /\ ~Stopping(st)
  BY <1>1, <1>2 DEF Connecting, Stopping
<1> QED BY <1>1, <1>4, <1>5 DEF st

\* Between two calls.
LEMMA Idle ==
    ASSUME Inv, stack = << >>
    PROVE  /\ ~Connecting(stack) /\ ~Stopping(stack) /\ live = secure
           /\ Sound(stack, writeError, taken)
<1>1. Len(stack) = 0
  OBVIOUS
<1>2. ~Connecting(stack) /\ ~Stopping(stack)
  BY <1>1 DEF Connecting, Stopping
<1> QED BY <1>2 DEF Inv, Owned, Types

LEMMA StartKeeps ==
    ASSUME Inv, stack = << >>, secure, NEW f \in Frame, NEW g \in Frame, Start(<< f, g >>),
           f.at \in {"update", "run"}, g.at \in Calls \ {"connect"}, Under(f.at, g.at),
           g.at \in {"write", "writing"} => taken + g.n <= MaxTaken,
           UNCHANGED <<eng, transport, client, bytes>>
    PROVE  Inv'
<1>1. /\ stack' = << f, g >> /\ late' = FALSE /\ ret' = ret
      /\ UNCHANGED <<live, secure, writeError, idx, recvLen, taken>>
  BY DEF Start, client, bytes
<1>2. ~Connecting(stack) /\ ~Stopping(stack) /\ live
  BY Idle DEF Inv, Owned
<1>3. /\ Sound(stack', writeError', taken') /\ Len(stack') = 2 /\ stack'[1] = f
      /\ ~Connecting(stack') /\ ~Stopping(stack')
  BY <1>1, Started
<1>4. Answered'
  BY <1>1, <1>2, <1>3 DEF Answered
<1>5. Types'
  BY <1>1 DEF Inv, Types, transport, bytes
<1> QED BY <1>1, <1>2, <1>3, <1>4, <1>5, Kept

LEMMA WriteKeeps ==
    ASSUME Inv, NEW n \in 1..MaxWrite, Write(n)
    PROVE  Inv'
<1> DEFINE f == RunUntil("SENDAPP")
           g == [at |-> "write", target |-> "SENDAPP", n |-> n]
<1>1. /\ stack = << >> /\ secure /\ taken + n <= MaxTaken /\ Start(<< f, g >>)
      /\ UNCHANGED <<eng, transport, client, bytes>>
  BY DEF Write
<1>2. f \in Frame /\ f.at = "run" /\ g \in Frame /\ g.at = "write" /\ g.n = n
  BY Frames, PumpConstants DEF Frame
<1> HIDE DEF f, g
<1>3. Under(f.at, g.at) /\ g.at \in Calls \ {"connect"} /\ f.at \in {"update", "run"}
  BY <1>2 DEF Under, Runs, Calls
<1> QED BY <1>1, <1>2, <1>3, StartKeeps

LEMMA AvailableKeeps ==
    ASSUME Inv, Available
    PROVE  Inv'
<1> DEFINE f == At("update")
           g == At("available")
<1>1. stack = << >> /\ secure /\ Start(<< f, g >>) /\ UNCHANGED <<eng, transport, client, bytes>>
  BY DEF Available
<1>2. f \in Frame /\ f.at = "update" /\ g \in Frame /\ g.at = "available"
  BY Frames
<1> HIDE DEF f, g
<1>3. /\ Under(f.at, g.at) /\ g.at \in Calls \ {"connect"} /\ f.at \in {"update", "run"}
      /\ g.at \notin {"write", "writing"}
  BY <1>2 DEF Under, Loops, Calls
<1> QED BY <1>1, <1>2, <1>3, StartKeeps

LEMMA FlushKeeps ==
    ASSUME Inv, Flush
    PROVE  Inv'
<1> DEFINE f == RunUntil("RECVAPP")
           g == At("flushed")
<1>1. stack = << >> /\ secure /\ Start(<< f, g >>) /\ UNCHANGED <<eng, transport, client, bytes>>
  BY DEF Flush
<1>2. f \in Frame /\ f.at = "run" /\ g \in Frame /\ g.at = "flushed"
  BY Frames
<1> HIDE DEF f, g
<1>3. /\ Under(f.at, g.at) /\ g.at \in Calls \ {"connect"} /\ f.at \in {"update", "run"}
      /\ g.at \notin {"write", "writing"}
  BY <1>2 DEF Under, Runs, Calls
<1> QED BY <1>1, <1>2, <1>3, StartKeeps

LEMMA StopKeeps ==
    ASSUME Inv, Stop
    PROVE  Inv'
<1> DEFINE f == At("stop")
<1>1. /\ stack = << >> /\ stack' = << f >> /\ late' = FALSE /\ ret' = ret
      /\ UNCHANGED <<eng, transport, client, bytes>>
  BY DEF Stop, Start
<1>2. f \in Frame /\ f.at = "stop"
  BY Frames
<1> HIDE DEF f
<1>3. ~Connecting(stack) /\ ~Stopping(stack)
  BY <1>1, Idle
<1>4. /\ Len(stack') = 1 /\ stack'[1] = f /\ stack' \in Seq(Frame) /\ \A i \in 1..Len(stack') : i = 1
      /\ \A i \in 1..(Len(stack') - 1) : FALSE
  BY <1>1, <1>2
<1>5. /\ WellNested(stack') /\ ErrorsShow(stack', writeError') /\ Pending(stack', taken')
      /\ ~Connecting(stack') /\ ~Stopping(stack') /\ Answered'
  BY <1>2, <1>4 DEF WellNested, ErrorsShow, Pending, Connecting, Stopping, Answered, Stops
<1>6. Types'
  BY <1>1 DEF Inv, Types, transport, client, bytes
<1>7. UNCHANGED <<eng, live, secure, idx, recvLen, bytes>>
  BY <1>1 DEF client
<1> QED BY <1>3, <1>5, <1>6, <1>7, Kept DEF Sound

LEMMA BegunFits ==
    ASSUME NEW shared \in BOOLEAN
    PROVE  LET e == Begun(shared) IN Fits(e) /\ e.rec + e.acc = 0
<1> DEFINE e == Begun(shared)
<1>1. NewEngine(shared) \in Engine
  BY Sizes DEF NewEngine, Engine
<1>2. e \in Engine
  BY <1>1, Sizes DEF Begun, Engine
<1>3. e.cap = Cap /\ e.acc = 0 /\ e.rec = 0 /\ e.left = Parts
  BY DEF Begun, NewEngine
<1> HIDE DEF e
<1>4. Fits(e) /\ e.rec + e.acc = 0
  BY <1>2, <1>3, Sizes DEF Fits
<1> QED BY <1>4 DEF e

LEMMA ConnectKeeps ==
    ASSUME Inv, Connect
    PROVE  Inv'
<1> DEFINE f == RunUntil("SENDAPP")
           g == At("connect")
<1>1. /\ stack = << >> /\ ~live /\ eng' = Begun(eng.shared)
      /\ open' = TRUE /\ inbox' = 0 /\ fed' = 0 /\ own' = 0
      /\ live' = TRUE /\ writeError' = FALSE /\ idx' = 0 /\ recvLen' = 0
      /\ stack' = << f, g >> /\ late' = FALSE /\ ret' = ret
      /\ UNCHANGED <<secure, taken, sent>>
  BY DEF Connect, Start, bytes
<1>2. f \in Frame /\ f.at = "run" /\ g \in Frame /\ g.at = "connect"
  BY Frames
<1> HIDE DEF f, g
<1>3. ~secure
  BY <1>1, Idle DEF Inv, Owned
<1>4. /\ Sound(stack', writeError', taken') /\ Len(stack') = 2 /\ stack'[1] = f
      /\ Connecting(stack') /\ ~Stopping(stack')
  <2>1. /\ Under(f.at, g.at) /\ g.at \in Calls /\ f.at \in {"update", "run"}
        /\ g.at \notin {"write", "writing"}
    BY <1>2 DEF Under, Runs, Calls
  <2> QED BY <1>1, <1>2, <2>1, Started
<1>5. Fits(eng') /\ eng'.rec + eng'.acc = 0
  <2>1. eng.shared \in BOOLEAN
    BY DEF Inv, Fits, Engine
  <2> QED BY <1>1, <2>1, BegunFits
<1>6. Answered'
  BY <1>1, <1>2, <1>4 DEF Answered
<1>7. Types'
  <2>1. 0 \in 0..MaxIn /\ 0 \in 0..MaxOwn
    BY PumpConstants
  <2>2. {open', live', secure', writeError', late'} \subseteq BOOLEAN
    BY <1>1 DEF Inv, Types
  <2>3. inbox' \in Nat /\ fed' \in 0..MaxIn /\ inbox' <= fed' /\ own' \in 0..MaxOwn
    BY <1>1, <2>1
  <2>4. idx' \in 0..Cap /\ recvLen' \in 0..Cap
    BY <1>1, Sizes
  <2> QED BY <1>1, <2>2, <2>3, <2>4 DEF Inv, Types
<1>8. Counted' /\ Safe' /\ Owned' /\ Shown'
  BY <1>1, <1>3, <1>4, <1>5 DEF Counted, Safe, Owned, Shown
<1> QED BY <1>4, <1>5, <1>6, <1>7, <1>8 DEF Inv


LEMMA ReadKeeps ==
    ASSUME Inv, NEW n \in 1..Cap, Read(n)
    PROVE  Inv'
<1>1. /\ stack = << >> /\ secure /\ n <= recvLen /\ recvLen' = recvLen - n
      /\ eng' = ReadBytes(eng, n)
      /\ UNCHANGED <<transport, live, secure, writeError, idx, late, stack, ret, taken, sent>>
  BY DEF Read, control, bytes
<1>2. ~Connecting(stack) /\ ~Stopping(stack) /\ live /\ Sound(stack, writeError, taken)
  BY <1>1, Idle DEF Inv, Owned
<1>3. /\ n \in Nat /\ n >= 1 /\ Cap \in Nat /\ recvLen \in Nat /\ recvLen <= Cap
      /\ eng.plain = recvLen
  BY <1>1, <1>2, AbstractEngineConstants DEF Inv, Types, Shown
<1>4. /\ Fits(eng') /\ eng'.plain = recvLen - n /\ eng'.rec = eng.rec /\ eng'.acc = eng.acc
      /\ eng'.closed = eng.closed
      /\ SENDAPP(eng) => SENDAPP(eng') /\ Room(eng') = Room(eng)
  BY <1>1, <1>3, ReadFits DEF Inv
<1>5. recvLen' \in 0..Cap
  BY <1>1, <1>3
<1>6. Types'
  BY <1>1, <1>5 DEF Inv, Types, transport
<1>7. Counted' /\ Safe' /\ Owned' /\ Shown'
  BY <1>1, <1>2, <1>4 DEF Inv, Counted, Safe, Owned, Shown
<1>8. Answered'
  <2>1. ~(Len(stack') > 0)
    BY <1>1
  <2> QED BY <2>1 DEF Answered
<1>9. Sound(stack', writeError', taken')
  BY <1>1, <1>2
<1> QED BY <1>4, <1>6, <1>7, <1>8, <1>9 DEF Inv

LEMMA NetworkKeeps ==
    ASSUME Inv, Network \/ UNCHANGED vars
    PROVE  Inv'
<1>1. UNCHANGED <<eng, live, secure, idx, recvLen, writeError, stack, ret, taken, sent, own>>
  BY DEF Network, PeerSends, PeerCloses, TimePasses, vars, client, control, bytes, transport
<1>2. Sound(stack', writeError', taken') /\ Answered'
  BY <1>1 DEF Inv, Answered
<1>3. Types'
  <2>1. CASE PeerSends
    <3>1. open' = open /\ late' = late /\ fed < MaxIn /\ inbox' = inbox + 1 /\ fed' = fed + 1
      BY <2>1 DEF PeerSends, control
    <3>2. inbox' \in Nat /\ fed' \in 0..MaxIn /\ inbox' <= fed'
      BY <3>1, PumpConstants DEF Inv, Types
    <3> QED BY <1>1, <3>1, <3>2 DEF Inv, Types
  <2>2. CASE PeerCloses
    BY <1>1, <2>2 DEF Inv, Types, PeerCloses, control
  <2>3. CASE TimePasses
    BY <1>1, <2>3 DEF Inv, Types, TimePasses, transport
  <2>4. CASE UNCHANGED vars
    BY <1>1, <2>4 DEF Inv, Types, vars, transport, control
  <2> QED BY <2>1, <2>2, <2>3, <2>4 DEF Network
<1>4. UNCHANGED <<eng, live, secure, idx, recvLen, bytes>>
      /\ (Connecting(stack') <=> Connecting(stack)) /\ (Stopping(stack') <=> Stopping(stack))
  BY <1>1 DEF bytes
<1> QED BY <1>2, <1>3, <1>4, Kept

--------------------------------------------------------------------------------
(* The invariant.                                                               *)

LEMMA Begins == Init => Inv
<1> SUFFICES ASSUME Init PROVE Inv
  OBVIOUS
<1>1. PICK shared \in Builds : eng = NewEngine(shared)
  BY DEF Init
<1>2. /\ open = FALSE /\ inbox = 0 /\ fed = 0 /\ own = 0
      /\ live = FALSE /\ secure = FALSE /\ writeError = FALSE /\ idx = 0 /\ recvLen = 0
      /\ late = FALSE /\ stack = << >> /\ ret = "none" /\ taken = 0 /\ sent = 0
  BY DEF Init
<1>3. Fits(eng)
  <2>1. shared \in BOOLEAN
    BY PumpConstants
  <2>2. eng \in Engine
    BY <1>1, <2>1, Sizes DEF NewEngine, Engine
  <2>3. eng.cap = Cap /\ eng.acc = 0 /\ eng.rec = 0
    BY <1>1 DEF NewEngine
  <2> QED BY <2>2, <2>3, Sizes DEF Fits
<1>4. /\ stack \in Seq(Frame) /\ Len(stack) = 0 /\ ~(Len(stack) > 0)
      /\ \A i \in 1..Len(stack) : FALSE
      /\ \A i \in 1..(Len(stack) - 1) : FALSE
  BY <1>2
<1>5. Sound(stack, writeError, taken) /\ ~Connecting(stack) /\ Answered
  BY <1>4 DEF Sound, WellNested, ErrorsShow, Pending, Connecting, Answered
<1>6. Types
  <2>1. 0 \in 0..MaxIn /\ 0 \in 0..MaxOwn /\ 0 \in 0..MaxTaken
    BY PumpConstants
  <2>2. {open, live, secure, writeError, late} \subseteq BOOLEAN
    BY <1>2
  <2> QED BY <1>2, <2>1, <2>2, Sizes DEF Types
<1>7. Owned /\ Counted /\ Safe /\ Shown
  BY <1>2, <1>5 DEF Owned, Counted, Safe, Shown
<1> QED BY <1>3, <1>5, <1>6, <1>7 DEF Inv

LEMMA Continues ==
    ASSUME ~SilentWrites, Inv, [Next]_vars
    PROVE  Inv'
<1>1. CASE mUpdateEngine
  BY <1>1, UpdateClosedKeeps, SendRecordKeeps, SendFailsKeeps, TakeWrittenKeeps,
     ReceiveRecordKeeps, UpdateDoneKeeps, UpdateStoppedKeeps DEF mUpdateEngine
<1>2. CASE mRunUntil
  BY <1>2, RunKeeps, RunFailsKeeps, RunTimesOutKeeps, RunArrivesKeeps, RunAgainKeeps DEF mRunUntil
<1>3. CASE stop
  BY <1>3, StopBeginsKeeps, StopEndsKeeps, OtherReturnsKeep DEF stop
<1>4. CASE WriteCopies \/ WriteReturns \/ AvailableReturns \/ FlushReturns \/ ConnectReturns
  BY <1>4, WriteCopiesKeeps, OtherReturnsKeep, AvailableReturnsKeeps, ConnectReturnsKeeps
<1>5. CASE Application
  BY <1>5, WriteKeeps, ReadKeeps, AvailableKeeps, FlushKeeps, StopKeeps, ConnectKeeps DEF Application
<1>6. CASE Network \/ UNCHANGED vars
  BY <1>6, NetworkKeeps
<1> QED BY <1>1, <1>2, <1>3, <1>4, <1>5, <1>6 DEF Next, Thread

LEMMA Invariant == ASSUME ~SilentWrites PROVE Spec => []Inv
  BY Begins, Continues, PTL DEF Spec


--------------------------------------------------------------------------------
(* What follows from it.                                                        *)

LEMMA Follow ==
    ASSUME Inv
    PROVE  TypeOK /\ EngineAlive /\ NoByteLost /\ WrittenIsSafe /\ ReadsWhatIsThere
<1>1. TypeOK
  <2>1. stack \in Seq(Frame) /\ eng \in Engine
    BY DEF Inv, Sound, WellNested, Fits
  <2>2. inbox \in 0..MaxIn
    BY PumpConstants DEF Inv, Types
  <2> QED BY <2>1, <2>2 DEF TypeOK, Inv, Types
<1>2. EngineAlive
  <2>1. SUFFICES ASSUME stack # << >> PROVE EngineAlive
    BY DEF EngineAlive
  <2>2. Len(stack) > 0 /\ Top = stack[1]
    BY <2>1 DEF Inv, Sound, WellNested, Top
  <2> QED BY <2>2 DEF EngineAlive, Inv, Answered
<1>3. NoByteLost
  <2>1. SUFFICES ASSUME secure, ~eng.closed PROVE taken = sent + eng.rec + eng.acc + idx
    BY DEF NoByteLost
  <2>2. taken = sent + (eng.rec + eng.acc) + idx
    BY <2>1 DEF Inv, Owned, Counted
  <2>3. sent \in Nat /\ eng.rec \in Nat /\ eng.acc \in Nat /\ idx \in Nat
    BY AbstractEngineConstants, PumpConstants DEF Inv, Types, Fits, Engine
  <2> QED BY <2>2, <2>3
<1>4. WrittenIsSafe
  BY DEF WrittenIsSafe, Inv, Owned, Safe
<1>5. ReadsWhatIsThere
  BY Idle DEF ReadsWhatIsThere, Inv, Owned, Shown
<1> QED BY <1>1, <1>2, <1>3, <1>4, <1>5

LEMMA Nests ==
    ASSUME Inv
    PROVE  StopNestsOnce
<1>1. SUFFICES ASSUME NEW i \in 1..Len(stack), NEW j \in 1..Len(stack), NEW k \in 1..Len(stack),
                      i < j, j < k, {stack[i].at, stack[j].at, stack[k].at} \subseteq {"stop", "stopping"}
               PROVE  FALSE
  BY DEF StopNestsOnce
<1>2. stack[j].at \in Stops
  BY <1>1 DEF Stops
<1>3. j = 1 \/ j = Len(stack)
  BY <1>2 DEF Inv, Sound, WellNested
<1> QED BY <1>1, <1>3 DEF Inv, Sound, WellNested

\* The variables have their types, the inbox and the counters within bounds.
THEOREM PumpTypeOK == ASSUME ~SilentWrites PROVE Spec => []TypeOK
<1>1. Inv => TypeOK
  BY Follow
<1> QED BY <1>1, Invariant, PTL

\* No loop of the client goes on with an engine that a stop() further in freed,
\* however calls, records, losses of the connection and time interleave.
THEOREM PumpEngineAlive == ASSUME ~SilentWrites PROVE Spec => []EngineAlive
<1>1. Inv => EngineAlive
  BY Follow
<1> QED BY <1>1, Invariant, PTL

\* Every byte write() took is in exactly one place, for any size of record,
\* buffer and write().
THEOREM PumpNoByteLost == ASSUME ~SilentWrites PROVE Spec => []NoByteLost
<1>1. Inv => NoByteLost
  BY Follow
<1> QED BY <1>1, Invariant, PTL

\* What write() left behind _write_idx has its room kept.
THEOREM PumpWrittenIsSafe == ASSUME ~SilentWrites PROVE Spec => []WrittenIsSafe
<1>1. Inv => WrittenIsSafe
  BY Follow
<1> QED BY <1>1, Invariant, PTL

\* read() copies bytes the engine still holds.
THEOREM PumpReadsWhatIsThere == ASSUME ~SilentWrites PROVE Spec => []ReadsWhatIsThere
<1>1. Inv => ReadsWhatIsThere
  BY Follow
<1> QED BY <1>1, Invariant, PTL

\* stop() nests once at most.
THEOREM PumpStopNestsOnce == ASSUME ~SilentWrites PROVE Spec => []StopNestsOnce
<1>1. Inv => StopNestsOnce
  BY Nests
<1> QED BY <1>1, Invariant, PTL


--------------------------------------------------------------------------------
(* The channel.                                                                 *)

LEMMA Passes ==
    ASSUME ~SilentWrites, Inv, [Next]_vars
    PROVE  [Channel!Next]_(Channel!channelVars)
<1>1. CASE SendRecord
  BY <1>1, SendRecordKeeps DEF Channel!Next, Channel!Send, Channel!channelVars
<1>2. CASE WriteCopies
  BY <1>2, WriteCopiesKeeps DEF Channel!Next, Channel!Take, Channel!channelVars
<1>3. CASE StopEnds
  <2>1. secure' = FALSE /\ UNCHANGED <<taken, sent>> /\ secure \in BOOLEAN
    BY <1>3 DEF StopEnds, bytes, Inv, Types
  <2> QED BY <2>1 DEF Channel!Next, Channel!End, Channel!channelVars
<1>4. CASE ConnectReturns
  BY <1>4, ConnectReturnsKeeps DEF Channel!Next, Channel!Open, Channel!channelVars
<1>5. CASE \/ UpdateClosed \/ SendFails \/ TakeWritten \/ ReceiveRecord \/ UpdateDone \/ UpdateStopped
           \/ mRunUntil
  <2>1. UNCHANGED <<secure, taken, sent>>
    BY <1>5 DEF UpdateClosed, SendFails, TakeWritten, ReceiveRecord, UpdateDone, UpdateStopped,
       mRunUntil, Run, RunFails, RunTimesOut, RunStopped, RunArrives, RunAgain, FailAndStop, client, bytes
  <2> QED BY <2>1 DEF Channel!channelVars
<1>6. CASE StopBegins \/ StopAgain \/ WriteReturns \/ AvailableReturns \/ FlushReturns
  <2>1. UNCHANGED <<secure, taken, sent>>
    BY <1>6 DEF StopBegins, StopAgain, WriteReturns, AvailableReturns, FlushReturns, client, bytes
  <2> QED BY <2>1 DEF Channel!channelVars
<1>7. CASE Application
  <2>1. UNCHANGED <<secure, taken, sent>>
    BY <1>7 DEF Application, Write, Read, Available, Flush, Stop, Connect, client, bytes
  <2> QED BY <2>1 DEF Channel!channelVars
<1>8. CASE Network \/ UNCHANGED vars
  <2>1. UNCHANGED <<secure, taken, sent>>
    BY <1>8 DEF Network, PeerSends, PeerCloses, TimePasses, vars, client, bytes
  <2> QED BY <2>1 DEF Channel!channelVars
<1> QED BY <1>1, <1>2, <1>3, <1>4, <1>5, <1>6, <1>7, <1>8 DEF Next, Thread, mUpdateEngine, stop

\* The client is a channel: bytes given to write() leave in order and once, and
\* none of an earlier connection appears in a later one.
THEOREM PumpIsChannel == ASSUME ~SilentWrites PROVE Spec => ChannelSpec
<1>1. Init => Channel!Init
  BY DEF Init, Channel!Init
<1>2. Inv /\ [Next]_vars => [Channel!Next]_(Channel!channelVars)
  BY Passes
<1> QED BY <1>1, <1>2, Invariant, PTL DEF Spec, ChannelSpec, Channel!Spec

==============================================================================
