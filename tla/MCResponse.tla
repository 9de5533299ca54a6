----------------------------- MODULE MCResponse -----------------------------
(* ResponseLife for TLC: one request of two tasks and one of a single task. *)
EXTENDS ResponseLife

CONSTANTS r1, r2, a, b, c

MCIdTasks == (r1 :> {a, b}) @@ (r2 :> {c})
=============================================================================
