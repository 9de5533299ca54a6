------------------------------ MODULE MCStream ------------------------------
(* StreamSessions for TLC: all requests are of one conversation.        *)
EXTENDS StreamSessions

CONSTANTS r1, r2, g1, d1, c1

OneConv == [r \in Requests |-> c1]
=============================================================================
