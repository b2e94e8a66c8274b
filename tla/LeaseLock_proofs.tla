---------------------------- MODULE LeaseLock_proofs ----------------------------
(***************************************************************************)
(* What holds of the distributed lease for any number of calls, any lease  *)
(* and waiting times and any clock skew.                                   *)
(***************************************************************************)
EXTENDS LeaseLock, TLAPS

\* Before its section a call cannot have been intruded on; from then on the
\* owner of the row has not been, because another call enters only with the row.
NotIntruded(c) ==
  /\ pc[c] \in {"idle"} \union Polling => c \notin intruded
  /\ pc[c] \in Running /\ row.owner = c => c \notin intruded
  /\ pc[c] \in Certified \union {"ok"} => c \notin intruded

ExclusiveInv == \A c \in Callers : NotIntruded(c)

\* Only calls past their acquisition have heartbeats or know of a lost lease,
\* so none of them writes its token into the row again.
HeartbeatInv ==
  \A c \in Callers :
    /\ renewAt[c] # NoRenew \/ leaseLost[c] => pc[c] \notin {"idle"} \union Polling
    /\ leaseLost[c] => row.owner # c

\* The definitions every step needs.
USE LeaseAssumption DEF Steps, Polling, Running, Certified, Ended, NoRow, NoRenew,
                        ClockReadings

\* The variables keep their types.
THEOREM TypeCorrect == Spec => []TypeOK
<1>1. Init => TypeOK
  BY DEF Init, TypeOK
<1>2. TypeOK /\ [Next]_vars => TypeOK'
  <2> SUFFICES ASSUME TypeOK, [Next]_vars PROVE TypeOK'
    OBVIOUS
  <2> USE DEF TypeOK
  <2>1. ASSUME NEW c \in Callers, Call(c) PROVE TypeOK'
    BY <2>1 DEF Call
  <2>2. ASSUME NEW c \in Callers, Insert(c) PROVE TypeOK'
    BY <2>2 DEF Insert, Goto
  <2>3. ASSUME NEW c \in Callers, SelectOwn(c) PROVE TypeOK'
    BY <2>3 DEF SelectOwn, Goto
  <2>4. ASSUME NEW c \in Callers, SelectOther(c) PROVE TypeOK'
    BY <2>4 DEF SelectOther, Goto
  <2>5. ASSUME NEW c \in Callers, Poll(c) PROVE TypeOK'
    BY <2>5 DEF Poll
  <2>6. ASSUME NEW c \in Callers, TaskReturns(c) PROVE TypeOK'
    BY <2>6 DEF TaskReturns, Goto
  <2>7. ASSUME NEW c \in Callers, Verify(c) PROVE TypeOK'
    BY <2>7 DEF Verify, Goto
  <2>8. ASSUME NEW c \in Callers, Judge(c) PROVE TypeOK'
    BY <2>8 DEF Judge, Goto
  <2>9. ASSUME NEW c \in Callers, Release(c) PROVE TypeOK'
    BY <2>9 DEF Release, Goto, Outcome
  <2>10. ASSUME NEW c \in Callers, AcquireFails(c) PROVE TypeOK'
    BY <2>10 DEF AcquireFails, Goto
  <2>11. ASSUME NEW c \in Callers, TaskThrows(c) PROVE TypeOK'
    BY <2>11 DEF TaskThrows, Goto
  <2>12. ASSUME NEW c \in Callers, ReleaseFails(c) PROVE TypeOK'
    BY <2>12 DEF ReleaseFails, Goto, Outcome
  <2>13. ASSUME NEW c \in Callers, Crash(c) PROVE TypeOK'
    BY <2>13 DEF Crash, Goto
  <2>14. ASSUME NEW c \in Callers, Heartbeat(c) PROVE TypeOK'
    BY <2>14 DEF Heartbeat
  <2>15. ASSUME NEW c \in Callers, Renew(c) PROVE TypeOK'
    <3>1. renewAt[c] \in Nat /\ renewAt[c] + LeaseMs \in Nat
      BY <2>15 DEF Renew
    <3>2. CASE row.owner = c
      BY <2>15, <3>1, <3>2 DEF Renew
    <3>3. CASE row.owner # c
      BY <2>15, <3>3 DEF Renew
    <3>4. QED
      BY <3>2, <3>3
  <2>16. ASSUME NEW c \in Callers, RenewFails(c) PROVE TypeOK'
    BY <2>16 DEF RenewFails
  <2>17. CASE DeleteExpired
    BY <2>17 DEF DeleteExpired
  <2>18. CASE DeleteShop
    BY <2>18 DEF DeleteShop
  <2>19. CASE Tick
    BY <2>19 DEF Tick
  <2>20. CASE UNCHANGED vars
    BY <2>20 DEF vars
  <2>21. QED
    BY <2>1, <2>2, <2>3, <2>4, <2>5, <2>6, <2>7, <2>8, <2>9, <2>10, <2>11,
       <2>12, <2>13, <2>14, <2>15, <2>16, <2>17, <2>18, <2>19, <2>20
       DEF Next, Progress, Faults
<1>3. QED
  BY <1>1, <1>2, PTL DEF Spec

\* A call that is told its lease is lost does not own the row and never will.
THEOREM LostLeaseStaysLost == Spec => []LostIsLost
<1>1. Init => HeartbeatInv
  BY DEF Init, HeartbeatInv
<1>2. TypeOK /\ HeartbeatInv /\ [Next]_vars => HeartbeatInv'
  <2> SUFFICES ASSUME TypeOK, HeartbeatInv, [Next]_vars,
                      NEW c \in Callers
               PROVE  /\ (renewAt[c] # NoRenew \/ leaseLost[c]
                            => pc[c] \notin {"idle"} \union Polling)'
                      /\ (leaseLost[c] => row.owner # c)'
    BY DEF HeartbeatInv
  <2> USE DEF TypeOK, HeartbeatInv
  <2>1. ASSUME NEW d \in Callers, Call(d) \/ Poll(d)
        PROVE  HeartbeatInv'
    BY <2>1 DEF Call, Poll
  <2>2. ASSUME NEW d \in Callers, Insert(d)
        PROVE  HeartbeatInv'
    BY <2>2 DEF Insert, Goto
  <2>3. ASSUME NEW d \in Callers,
               SelectOwn(d) \/ SelectOther(d) \/ TaskReturns(d) \/ Judge(d)
                 \/ AcquireFails(d) \/ TaskThrows(d) \/ ReleaseFails(d) \/ Crash(d)
        PROVE  HeartbeatInv'
    BY <2>3 DEF SelectOwn, SelectOther, TaskReturns, Judge, AcquireFails,
                TaskThrows, ReleaseFails, Crash, Goto, Outcome
  <2>4. ASSUME NEW d \in Callers, Verify(d)
        PROVE  HeartbeatInv'
    BY <2>4 DEF Verify, Goto
  <2>5. ASSUME NEW d \in Callers, Release(d)
        PROVE  HeartbeatInv'
    BY <2>5 DEF Release, Goto, Outcome
  <2>6. ASSUME NEW d \in Callers, Heartbeat(d) \/ RenewFails(d)
        PROVE  HeartbeatInv'
    BY <2>6 DEF Heartbeat, RenewFails
  <2>7. ASSUME NEW d \in Callers, Renew(d)
        PROVE  HeartbeatInv'
    BY <2>7 DEF Renew
  <2>8. CASE DeleteExpired \/ DeleteShop \/ Tick \/ UNCHANGED vars
    BY <2>8 DEF DeleteExpired, DeleteShop, Tick, vars
  <2>9. QED
    BY <2>1, <2>2, <2>3, <2>4, <2>5, <2>6, <2>7, <2>8 DEF Next, Progress, Faults
<1>3. HeartbeatInv => LostIsLost
  BY DEF HeartbeatInv, LostIsLost
<1>4. QED
  BY <1>1, <1>2, <1>3, TypeCorrect, PTL DEF Spec

\* A result is returned only by a call no other call intruded on.
THEOREM SuccessExclusive == Spec => []SuccessIsExclusive
<1>1. Init => ExclusiveInv
  BY DEF Init, ExclusiveInv, NotIntruded
<1>2. TypeOK /\ ExclusiveInv /\ [Next]_vars => ExclusiveInv'
  <2> SUFFICES ASSUME TypeOK, ExclusiveInv, [Next]_vars,
                      NEW c \in Callers
               PROVE  NotIntruded(c)'
    BY DEF ExclusiveInv
  <2> USE DEF TypeOK, ExclusiveInv, NotIntruded
  <2>1. ASSUME NEW d \in Callers, Call(d) \/ Poll(d)
        PROVE  NotIntruded(c)'
    BY <2>1 DEF Call, Poll
  <2>2. ASSUME NEW d \in Callers, Insert(d)
        PROVE  NotIntruded(c)'
    BY <2>2 DEF Insert, Goto
  <2>3. ASSUME NEW d \in Callers, SelectOwn(d)
        PROVE  NotIntruded(c)'
    BY <2>3 DEF SelectOwn, Goto
  <2>4. ASSUME NEW d \in Callers,
               SelectOther(d) \/ TaskReturns(d) \/ Judge(d)
                 \/ AcquireFails(d) \/ TaskThrows(d) \/ ReleaseFails(d) \/ Crash(d)
        PROVE  NotIntruded(c)'
    BY <2>4 DEF SelectOther, TaskReturns, Judge, AcquireFails,
                TaskThrows, ReleaseFails, Crash, Goto, Outcome
  <2>5. ASSUME NEW d \in Callers, Verify(d)
        PROVE  NotIntruded(c)'
    BY <2>5 DEF Verify, Goto
  <2>6. ASSUME NEW d \in Callers, Release(d)
        PROVE  NotIntruded(c)'
    BY <2>6 DEF Release, Goto, Outcome
  <2>7. ASSUME NEW d \in Callers, Heartbeat(d) \/ RenewFails(d) \/ Renew(d)
        PROVE  NotIntruded(c)'
    BY <2>7 DEF Heartbeat, RenewFails, Renew
  <2>8. CASE DeleteExpired \/ DeleteShop \/ Tick \/ UNCHANGED vars
    BY <2>8 DEF DeleteExpired, DeleteShop, Tick, vars
  <2>9. QED
    BY <2>1, <2>2, <2>3, <2>4, <2>5, <2>6, <2>7, <2>8 DEF Next, Progress, Faults
<1>3. ExclusiveInv => SuccessIsExclusive
  BY DEF ExclusiveInv, NotIntruded, SuccessIsExclusive
<1>4. QED
  BY <1>1, <1>2, <1>3, TypeCorrect, PTL DEF Spec

-------------------------------------------------------------------------------
(* The lease implements the exclusive section. *)

USE DEF PhaseOf, SectionHolder

PhaseFn  == [c \in Callers |-> PhaseOf(pc[c])]

\* A call that leaves its section leaves the row as it is or deletes its own.
LEMMA LeaveDrops ==
  ASSUME TypeOK, NEW c \in Callers, NEW s \in Steps,
         pc' = [pc EXCEPT ![c] = s], s \notin Running \union Certified,
         row' = row \/ (row.owner = c /\ row' = NoRow)
  PROVE  Section!Drop(c)
<1>1. CASE row.owner = c
  <2>1. SectionHolder' = None
    BY <1>1 DEF TypeOK
  <2>2. SectionHolder \in {c, None}
    BY <1>1
  <2>3. QED
    BY <2>1, <2>2 DEF Section!Drop
<1>2. CASE row.owner # c
  <2>1. row' = row /\ row.owner \in Callers \union {None}
    BY <1>2 DEF TypeOK
  <2>2. SectionHolder' = SectionHolder
    BY <1>2, <2>1 DEF TypeOK
  <2>3. SectionHolder # c
    BY <1>2
  <2>4. QED
    BY <2>2, <2>3 DEF Section!Drop
<1>3. QED
  BY <1>1, <1>2

\* One call's next step changes its phase only.
LEMMA PhaseStep ==
  ASSUME TypeOK, NEW c \in Callers, NEW s, pc' = [pc EXCEPT ![c] = s]
  PROVE  /\ PhaseFn[c] = PhaseOf(pc[c])
         /\ PhaseFn' = [PhaseFn EXCEPT ![c] = PhaseOf(s)]
<1> USE DEF TypeOK, PhaseFn
<1> HIDE DEF PhaseOf
<1>1. PhaseFn' = [d \in Callers |-> PhaseOf(pc'[d])]
  OBVIOUS
<1>2. ASSUME NEW d \in Callers
      PROVE  PhaseOf(pc'[d]) = [PhaseFn EXCEPT ![c] = PhaseOf(s)][d]
  <2>1. CASE d = c
    BY <2>1
  <2>2. CASE d # c
    BY <2>2
  <2>3. QED
    BY <2>1, <2>2
<1>3. QED
  BY <1>1, <1>2

\* A call that ends without a result fails in the section's terms.
LEMMA FailStep ==
  ASSUME TypeOK, NEW c \in Callers, NEW s \in {"releaseFailed", "failed", "crashed"},
         pc[c] \in {"idle"} \union Polling \union Running \union Certified,
         pc' = [pc EXCEPT ![c] = s], row' = row
  PROVE  Section!Fail(c)
<1>1. PhaseFn[c] \in {"out", "in", "certified"}
  BY PhaseStep DEF PhaseFn
<1>2. PhaseFn' = [PhaseFn EXCEPT ![c] = "failed"]
  BY PhaseStep
<1>3. s \in Steps /\ s \notin Running \union Certified
  OBVIOUS
<1>4. Section!Drop(c)
  BY <1>3, LeaveDrops
<1>5. QED
  BY <1>1, <1>2, <1>4 DEF Section!Fail, PhaseFn

\* A step of the lease is a step of the section, or none.
LEMMA StepRefines ==
  ASSUME TypeOK, TypeOK', [Next]_vars
  PROVE  [Section!Next]_<<PhaseFn, SectionHolder>>
<1> USE DEF TypeOK, PhaseFn
<1> DEFINE Stutter == UNCHANGED <<PhaseFn, SectionHolder>>
<1>1. ASSUME NEW c \in Callers, SelectOwn(c)
      PROVE  Section!Enter(c)
  BY <1>1 DEF SelectOwn, Goto, Section!Enter
<1>2. ASSUME NEW c \in Callers, Insert(c)
      PROVE  Section!Lose \/ Stutter
  BY <1>2 DEF Insert, Goto, Section!Lose
<1>3. ASSUME NEW c \in Callers, Verify(c)
      PROVE  Section!Certify(c) \/ Section!Fail(c)
  <2>1. CASE row.owner = c
    <3>1. pc[c] = "verify" /\ pc' = [pc EXCEPT ![c] = "judge"] /\ row' = row
      BY <1>3, <2>1 DEF Verify
    <3>2. PhaseFn[c] = "in" /\ PhaseFn' = [PhaseFn EXCEPT ![c] = "certified"]
      BY <3>1, PhaseStep
    <3>3. SectionHolder = c /\ SectionHolder' = c
      BY <2>1, <3>1
    <3>4. QED
      BY <3>2, <3>3 DEF Section!Certify
  <2>2. CASE row.owner # c
    BY <1>3, <2>2, FailStep DEF Verify, Goto
  <2>3. QED
    BY <2>1, <2>2
<1>4. ASSUME NEW c \in Callers, Release(c) \/ ReleaseFails(c)
      PROVE  Section!Succeed(c) \/ Stutter
  <2>1. CASE pc[c] = "releaseOk"
    <3>1. pc' = [pc EXCEPT ![c] = "ok"] /\ (row' = row \/ (row.owner = c /\ row' = NoRow))
      <4>1. CASE Release(c)
        BY <2>1, <4>1 DEF Release, Goto, Outcome
      <4>2. CASE ReleaseFails(c)
        BY <2>1, <4>2 DEF ReleaseFails, Goto, Outcome
      <4>3. QED
        BY <1>4, <4>1, <4>2
    <3>2. Section!Drop(c)
      BY <3>1, LeaveDrops
    <3>3. PhaseFn[c] = "certified" /\ PhaseFn' = [PhaseFn EXCEPT ![c] = "ok"]
      BY <2>1, <3>1, PhaseStep
    <3>4. QED
      BY <3>2, <3>3 DEF Section!Succeed
  <2>2. CASE pc[c] = "releaseFailed"
    BY <1>4, <2>2 DEF Release, ReleaseFails, Goto, Outcome
  <2>3. QED
    BY <1>4, <2>1, <2>2 DEF Release, ReleaseFails
<1>5. ASSUME NEW c \in Callers, Judge(c) \/ TaskReturns(c) \/ SelectOther(c)
      PROVE  Section!Fail(c) \/ Stutter
  <2>1. CASE pc'[c] \in {"releaseFailed", "failed"}
    BY <1>5, <2>1, FailStep DEF Judge, TaskReturns, SelectOther, Goto
  <2>2. CASE pc'[c] \in {"releaseOk", "verify", "sleep"}
    BY <1>5, <2>2 DEF Judge, TaskReturns, SelectOther, Goto
  <2>3. QED
    BY <1>5, <2>1, <2>2 DEF Judge, TaskReturns, SelectOther, Goto
<1>6. ASSUME NEW c \in Callers, TaskThrows(c) \/ AcquireFails(c)
      PROVE  Section!Fail(c)
  BY <1>6, FailStep DEF TaskThrows, AcquireFails, Goto
<1>7. ASSUME NEW c \in Callers, Crash(c)
      PROVE  Section!Fail(c) \/ Stutter
  <2>1. CASE pc[c] = "releaseFailed"
    BY <1>7, <2>1 DEF Crash, Goto
  <2>2. CASE pc[c] # "releaseFailed"
    BY <1>7, <2>2, FailStep DEF Crash, Goto
  <2>3. QED
    BY <2>1, <2>2
<1>8. ASSUME DeleteExpired \/ DeleteShop
      PROVE  Section!Lose \/ Stutter
  BY <1>8 DEF DeleteExpired, DeleteShop, Section!Lose
<1>9. ASSUME NEW c \in Callers,
             Call(c) \/ Poll(c) \/ Heartbeat(c) \/ Renew(c) \/ RenewFails(c)
      PROVE  Stutter
  BY <1>9 DEF Call, Poll, Heartbeat, Renew, RenewFails
<1>10. ASSUME Tick \/ UNCHANGED vars
       PROVE  Stutter
  BY <1>10 DEF Tick, vars
<1>11. QED
  BY <1>1, <1>2, <1>3, <1>4, <1>5, <1>6, <1>7, <1>8, <1>9, <1>10
     DEF Next, Progress, Faults, Section!Next

\* withDistributedLease, with its rows, clocks, late heartbeats and clean-ups,
\* implements the exclusive section its callers are written against.
THEOREM LeaseImplementsSection == Spec => ImplementsSection
<1>1. Init => Section!Init
  BY DEF Init, Section!Init
<1>2. TypeOK /\ TypeOK' /\ [Next]_vars => [Section!Next]_(Section!vars)
  BY StepRefines DEF Section!vars, PhaseFn
<1>3. QED
  BY <1>1, <1>2, TypeCorrect, PTL DEF Spec, ImplementsSection, Section!Spec

\* The time an INSERT carries was read before it.
InsertInThePast == \A c \in Callers : pc[c] = "insert" => reading[c] <= clock + Skew

LEMMA InsertInThePastHolds ==
  ASSUME TypeOK, InsertInThePast, [Next]_vars
  PROVE  InsertInThePast'
<1> USE DEF InsertInThePast, TypeOK
<1>1. ASSUME NEW c \in Callers, Call(c) \/ Poll(c) PROVE InsertInThePast'
  BY <1>1 DEF Call, Poll
<1>2. ASSUME NEW c \in Callers, Insert(c) \/ SelectOwn(c) \/ SelectOther(c)
      PROVE  InsertInThePast'
  BY <1>2 DEF Insert, SelectOwn, SelectOther, Goto
<1>3. ASSUME NEW c \in Callers,
             TaskReturns(c) \/ TaskThrows(c) \/ Verify(c) \/ Judge(c)
             \/ AcquireFails(c) \/ Crash(c)
      PROVE  InsertInThePast'
  BY <1>3 DEF TaskReturns, TaskThrows, Verify, Judge, AcquireFails, Crash, Goto
<1>4. ASSUME NEW c \in Callers, Release(c) \/ ReleaseFails(c) PROVE InsertInThePast'
  BY <1>4 DEF Release, ReleaseFails, Goto, Outcome
<1>5. ASSUME NEW c \in Callers, Heartbeat(c) \/ Renew(c) \/ RenewFails(c)
      PROVE  InsertInThePast'
  BY <1>5 DEF Heartbeat, Renew, RenewFails
<1>6. CASE DeleteExpired \/ DeleteShop \/ UNCHANGED vars
  BY <1>6 DEF DeleteExpired, DeleteShop, vars
<1>7. CASE Tick
  BY <1>7 DEF Tick
<1> QED
  BY <1>1, <1>2, <1>3, <1>4, <1>5, <1>6, <1>7 DEF Next, Progress, Faults

\* Only an INSERT passes the row from one token to another, and it finds a lease
\* that has run out by the clock of its own process.
LEMMA OnlyExpiredIsReplaced ==
  ASSUME TypeOK, InsertInThePast, [Next]_vars,
         row'.owner # row.owner, row.owner # None, row'.owner # None
  PROVE  row.leaseUntil <= clock + Skew
<1> USE DEF TypeOK
<1>1. ASSUME NEW c \in Callers, Insert(c) PROVE row.leaseUntil <= clock + Skew
  <2>1. Acquirable(row, reading[c]) /\ reading[c] <= clock + Skew
    BY <1>1 DEF Insert, InsertInThePast
  <2>2. row.leaseUntil \in Int /\ reading[c] \in Int /\ clock \in Int /\ Skew \in Int
    BY LeaseAssumption
  <2> QED
    BY <2>1, <2>2 DEF Acquirable
<1>2. ASSUME NEW c \in Callers, Renew(c) \/ Release(c)
      PROVE  row'.owner = row.owner \/ row'.owner = None
  BY <1>2 DEF Renew, Release
<1>3. ASSUME NEW c \in Callers,
             Call(c) \/ Poll(c) \/ SelectOwn(c) \/ SelectOther(c) \/ TaskReturns(c)
             \/ TaskThrows(c) \/ Verify(c) \/ Judge(c) \/ AcquireFails(c) \/ Crash(c)
             \/ ReleaseFails(c) \/ Heartbeat(c) \/ RenewFails(c)
      PROVE  UNCHANGED row
  BY <1>3 DEF Call, Poll, SelectOwn, SelectOther, TaskReturns, TaskThrows, Verify, Judge,
     AcquireFails, Crash, ReleaseFails, Heartbeat, RenewFails
<1>4. CASE DeleteExpired \/ DeleteShop \/ Tick \/ UNCHANGED vars
  BY <1>4 DEF DeleteExpired, DeleteShop, Tick, vars
<1> QED
  BY <1>1, <1>2, <1>3, <1>4 DEF Next, Progress, Faults

\* A call whose lease has not run out, up to the difference of the clocks, is
\* never replaced by another one, whatever statements were delayed, failed or
\* answered late.
THEOREM LiveOwnerKeepsRow == Spec => LiveOwnerIsNotReplaced
<1>1. Init => InsertInThePast
  BY DEF Init, InsertInThePast
<1>2. TypeOK /\ InsertInThePast /\ [Next]_vars
        => [row'.owner # row.owner /\ row.owner # None /\ row'.owner # None
              => row.leaseUntil <= clock + Skew]_vars
  BY OnlyExpiredIsReplaced
<1> QED
  BY <1>1, <1>2, TypeCorrect, InsertInThePastHolds, PTL DEF Spec, LiveOwnerIsNotReplaced
===============================================================================
