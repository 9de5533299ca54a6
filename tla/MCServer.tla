------------------------------ MODULE MCServer ------------------------------
(* Server for TLC: small sets of requests with a kind each. *)
EXTENDS Server

CONSTANTS c1, c2, c3, m1, a1, s1, s2

\* c: completions, m: metrics, a: slot save, restore or erase
MCKind   == [t \in Tasks |-> CASE t = m1 -> "metrics" [] t = a1 -> "slot_action"
                               [] OTHER -> "completion"]
MCIdSlot == [t \in Tasks |-> IF t = c2 /\ s2 \in Slots THEN s2 ELSE NoSlot]
MCTarget == [t \in Tasks |-> s1]
=============================================================================
