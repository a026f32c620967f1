--------------------------- MODULE MCSubscription ---------------------------
(* The subscription of one business, with calls of verify that overlap.     *)
EXTENDS Subscription, TLC

CONSTANTS MONTHLY, YEARLY

PlanLength == [p \in Plans |-> IF p = MONTHLY THEN 1 ELSE 2]

Symmetry == Permutations(Requests)
=============================================================================
