---------------------------- MODULE Subsequences -----------------------------
(* What remains of a sequence when some of its elements are erased. *)
EXTENDS Integers, FiniteSets

\* The elements of q at the positions of I, in their order.  (SelectSeq says the same
\* of a condition on the elements, in a form that proofs cannot expand.)
Picked(q, I) == [k \in 1 .. Cardinality(I) |->
                    q[CHOOSE i \in I : Cardinality({j \in I : j <= i}) = k]]
=============================================================================
