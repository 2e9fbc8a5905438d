----------------------------- MODULE MCEngineIO -----------------------------
(* Instances of EngineIO: the smallest buffers, shared and not, and schemes *)
(* with different overheads on either side of the payload.                  *)
EXTENDS EngineIORefines

Mono(frag) == [shared |-> TRUE, ilen |-> frag + MaxInOverhead,
               olen |-> frag + MaxInOverhead, frag |-> frag]
Bidi(frag) == [shared |-> FALSE, ilen |-> frag + MaxInOverhead,
               olen |-> frag + MaxOutOverhead, frag |-> frag]

MCBuffers == {Mono(512), Bidi(512), Bidi(1024)}

MCCiphers ==
  { [kind |-> "gcm",   blk |-> 1,  mac |-> 0,  tag |-> 16],
    [kind |-> "cbc10", blk |-> 16, mac |-> 20, tag |-> 0],
    [kind |-> "cbc11", blk |-> 16, mac |-> 48, tag |-> 0] }
=============================================================================
