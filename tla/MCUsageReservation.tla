-------------------------- MODULE MCUsageReservation --------------------------
(* Operations and products for TLC. *)
EXTENDS UsageReservation, TLC

CONSTANTS s1, u1, u2, i1, p1

\* Housekeeping processes are alike.
Passes == Permutations(Reconcilers)

\* When two passes overlap they are at the row of one operation that does not
\* outlive its time limit, and no other row is stale.
MCBound ==
  (\A r \in Reconcilers : plan[r] # NoPlan)
    => \E o \in Ops \ SlowOps : \A q \in Ops \ {o} :
         q \notin StaleRows /\ \A r \in Reconcilers : plan[r][q] = "no"

AllKinds ==
  s1 :> "SEARCH" @@ u1 :> "VECTOR_UPDATE"
  @@ u2 :> "VECTOR_UPDATE" @@ i1 :> "PRODUCT_EMBEDDING"

KindsOfOps == [o \in Ops |-> AllKinds[o]]

OnOneProduct == [o \in Ops |-> IF AllKinds[o] = "SEARCH" THEN None ELSE p1]
===============================================================================
