--------------------------- MODULE EngineIORefines ---------------------------
(***************************************************************************)
(* The engine of the code implements the engine SSLPump is built on: what  *)
(* EngineIO does from one moment at which it rests to the next, a call and *)
(* all the handshake processor does in it, is one step of AbstractEngine.  *)
(***************************************************************************)
EXTENDS EngineIO

CONSTANTS Parts, Cap     \* of AbstractEngine

VARIABLE held       \* the abstract engine, when EngineIO last rested

Sending(x) == x.oxa = x.oxb

Abstraction(x) ==
  LET span == PayloadSpan(x.out, x.olen, x.frag) IN
  [ shared |-> x.shared, cap |-> span.b - span.a,
    closed |-> x.io = "failed",
    app    |-> x.app = 1,
    shut   |-> x.shut,
    acc    |-> IF Sending(x) THEN 0 ELSE x.oxa - x.oxc,
    rec    |-> IF Sending(x) THEN x.load ELSE 0,
    left   |-> IF Sending(x) THEN Least(Parts, x.oxc - x.oxa) ELSE 0,
    part   |-> x.ixa > 0 /\ x.ixa = x.ixb,
    plain  |-> IF x.typeIn = "app" THEN x.ixb - x.ixa ELSE 0 ]

NoRest(x) == [shared |-> x.shared, cap |-> x.frag, closed |-> FALSE, app |-> FALSE,
              shut |-> FALSE, acc |-> 0, rec |-> 0, left |-> 0, part |-> FALSE, plain |-> 0]

RInit == Init /\ held = NoRest(e)

RNext == /\ Next
         /\ held' = IF cpu'.run # "off" THEN held
                    ELSE IF Closed' THEN [held EXCEPT !.closed = TRUE]
                    ELSE Abstraction(e')

RSpec == RInit /\ [][RNext]_<<vars, held>>

(* Every call the client makes has the effect on the four buffers that the *)
(* model of the client assumes, whatever the processor does meanwhile.     *)
Abstract == INSTANCE AbstractEngine WITH eng <- held
ImplementsEngine == Abstract!EngineSpec
=============================================================================
