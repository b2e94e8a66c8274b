------------------------------ MODULE QuotaLedger ------------------------------
(***************************************************************************)
(* What the reservations of commerce/usage.server.ts promise to those who  *)
(* pay for them, as if each were decided once and for all.  A request is   *)
(* refused, or holds its unit until it is either charged or released; it   *)
(* is never charged twice, nor after it was released, nor released after   *)
(* it was charged.  A prepaid unit is counted from the moment it is held,  *)
(* and held only below a limit; another is counted when it is charged.     *)
(***************************************************************************)
EXTENDS Integers

CONSTANTS Requests,
          Pools,
          PoolOf,     \* PoolOf[r]: where r's unit is counted
          Prepaid,    \* the requests whose unit is counted while it is held
          Limits,
          Unlimited

VARIABLES account,    \* account[r]: how r stands
          used        \* used[p]: the units counted in pool p

vars == <<account, used>>

Init ==
  /\ account = [r \in Requests |-> "free"]
  /\ used = [p \in Pools |-> 0]

Settles(r, from, to) ==
  /\ account[r] = from
  /\ account' = [account EXCEPT ![r] = to]

Counts(r, n) == used' = [used EXCEPT ![PoolOf[r]] = @ + n]

Below(r) == \E l \in Limits : l = Unlimited \/ used[PoolOf[r]] < l

Hold(r) ==
  /\ Settles(r, "free", "held")
  /\ IF r \in Prepaid THEN Below(r) /\ Counts(r, 1) ELSE UNCHANGED used

Refuse(r) == Settles(r, "free", "over") /\ UNCHANGED used

Charge(r) ==
  /\ Settles(r, "held", "charged")
  /\ IF r \in Prepaid THEN UNCHANGED used ELSE Counts(r, 1)

Release(r) ==
  /\ Settles(r, "held", "over")
  /\ IF r \in Prepaid THEN Counts(r, -1) ELSE UNCHANGED used

Next == \E r \in Requests : Hold(r) \/ Refuse(r) \/ Charge(r) \/ Release(r)

Spec == Init /\ [][Next]_vars
================================================================================
