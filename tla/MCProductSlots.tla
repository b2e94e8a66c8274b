--------------------------- MODULE MCProductSlots ---------------------------
(* Two products and two index runs of a shop whose plan holds one product    *)
(* (or two, or none at all while the subscription is inactive).              *)
EXTENDS ProductSlots, TLC

CONSTANTS p1, p2, w1, w2

MCProducts == {p1, p2}
MCWorkers == {w1, w2}
Basic == [active |-> TRUE, limit |-> 1]
Pro == [active |-> TRUE, limit |-> 2]
Suspended == [active |-> FALSE, limit |-> 1]
AllPlans == {Basic, Pro, Suspended}
MCSymmetry == Permutations(MCProducts) \cup Permutations(MCWorkers)
=============================================================================
