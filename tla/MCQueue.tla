------------------------------ MODULE MCQueue -------------------------------
(* ServerQueue for TLC: two requests that need a slot and one that only reads. *)
EXTENDS ServerQueue

CONSTANTS c1, c2, m1, s1, s2

MCKind   == [t \in Tasks |-> IF t = m1 THEN "metrics" ELSE "completion"]
MCIdSlot == [t \in Tasks |-> IF t = c2 THEN s2 ELSE NoSlot]
=============================================================================
