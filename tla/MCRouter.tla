------------------------------ MODULE MCRouter ------------------------------
(* Router for TLC: who asks for which model, and what is managed meanwhile. *)
EXTENDS Router

CONSTANTS m1, m2, r1, r2, a1, a2

\* All requests want m1, or each its own model.
OneModel  == [r \in Requests |-> m1]
TwoModels == [r \in Requests |-> IF r = r1 THEN m1 ELSE m2]

AllOps     == [a \in Admins |-> {"load", "unload", "reload", "shutdown"}]
ReloadOnly == [a \in Admins |-> {"reload"}]
=============================================================================
