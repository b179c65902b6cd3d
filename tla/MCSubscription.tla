--------------------------- MODULE MCSubscription ---------------------------
(* Instances of Subscription for TLC: two groups, so that a point can be   *)
(* in both, and the name of the first is the beginning of the second's.    *)
(* The first point is written again while its first value is on its way.   *)
EXTENDS Subscription

CONSTANTS g1, g2, p1

MCPrefix == {<<g1, g2>>}
MCWriteLimit == [p \in Points |-> IF p = p1 THEN MaxVersion ELSE 1]
=============================================================================
