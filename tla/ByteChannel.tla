---------------------------- MODULE ByteChannel ----------------------------
(* What BSSL_SSLClient promises of the bytes given to write(): while a TLS      *)
(* connection is up, they leave in order, each of them once; only the end of    *)
(* the connection may lose the last ones.  A connection is counted from its     *)
(* own beginning: bytes of an earlier one never appear in it.                   *)
EXTENDS Naturals

VARIABLES
    up,         \* there is a TLS connection
    taken,      \* how many bytes of the application it took
    sent        \* how many of these left, all in complete records

channelVars == <<up, taken, sent>>

Init == up = FALSE /\ taken = 0 /\ sent = 0

Take == up /\ taken' > taken /\ UNCHANGED <<up, sent>>
Send == up /\ sent' > sent /\ sent' <= taken /\ UNCHANGED <<up, taken>>
End  == up /\ ~up' /\ UNCHANGED <<taken, sent>>
Open == ~up /\ up' /\ taken' = 0 /\ sent' = 0

Next == Take \/ Send \/ End \/ Open

Spec == Init /\ [][Next]_channelVars
=============================================================================
