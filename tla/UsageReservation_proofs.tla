------------------------ MODULE UsageReservation_proofs ------------------------
(***************************************************************************)
(* Theorems about UsageReservation, for any operations, products, limits   *)
(* and housekeeping processes.                                             *)
(***************************************************************************)
EXTENDS UsageReservation, FiniteSetTheorems, TLAPS

-------------------------------------------------------------------------------
(* Types *)

\* Every operation has one kind, and only searches have no product.
LEMMA KindsPartition ==
  ASSUME NEW o \in Ops
  PROVE  /\ \/ o \in Searches /\ o \notin Updates /\ o \notin Indexings
            \/ o \in Updates /\ o \notin Searches /\ o \notin Indexings
            \/ o \in Indexings /\ o \notin Searches /\ o \notin Updates
         /\ o \notin Searches => ProductOf[o] \in Products
  BY UsageAssumption DEF Searches, Updates, Indexings, Kinds

\* What the statements write to a row is a row.
LEMMA RowsTyped ==
  /\ NoRow \in Rows
  /\ NewRow \in Rows
  /\ \A x \in Rows : /\ [x EXCEPT !.status = "COMMITTED", !.applied = TRUE,
                                  !.stale = FALSE] \in Rows
                      /\ \A own \in BOOLEAN :
                           [x EXCEPT !.applied = TRUE, !.stale = FALSE, !.own = own] \in Rows
                      /\ [x EXCEPT !.status = "ROLLED_BACK", !.stale = FALSE] \in Rows
                      /\ \A b \in BOOLEAN : [x EXCEPT !.stale = b] \in Rows
  BY DEF Rows, NoRow, NewRow, Resolved

\* The statements keep the counters natural numbers.
LEMMA CountersTyped ==
  ASSUME usage \in [Counters -> Nat], NEW o \in Ops
  PROVE  /\ \A k \in Counters : Add(k) \in [Counters -> Nat]
         /\ Taken(o) \in [Counters -> Nat]
         /\ GivenBack(o) \in [Counters -> Nat]
<1>1. ASSUME NEW k \in Counters PROVE Add(k) \in [Counters -> Nat]
  BY DEF Add
<1>2. Taken(o) \in [Counters -> Nat]
  BY <1>1, KindsPartition DEF Taken, Counters
<1>3. \A n \in Nat : Lowered(n) \in Nat
  BY DEF Lowered
<1>4. GivenBack(o) \in [Counters -> Nat]
  BY <1>3, KindsPartition DEF GivenBack, Counters
<1> QED BY <1>1, <1>2, <1>4

\* So do they the rows and the events.
LEMMA StatementsTyped ==
  ASSUME TypeOK, NEW o \in Ops, CommitRow(o) \/ RollbackRow(o)
  PROVE  (usage \in [Counters -> Nat])'
         /\ (row \in [Ops -> Rows])'
         /\ (events \in [Ops -> Nat])'
<1>1. /\ usage \in [Counters -> Nat]
      /\ \A k \in Counters : Add(k) \in [Counters -> Nat]
      /\ GivenBack(o) \in [Counters -> Nat]
      /\ "productIndex" \in Counters
  BY CountersTyped DEF TypeOK, Counters
<1>2. CASE CommitRow(o)
  <2>1. CASE Pending(o)
    <3>1. row' \in [Ops -> Rows]
      <4>1. row \in [Ops -> Rows]
        BY DEF TypeOK
      <4>2. row' = [row EXCEPT ![o] = [row[o] EXCEPT !.status = "COMMITTED",
                                         !.applied = TRUE, !.stale = FALSE]]
        BY <1>2, <2>1 DEF CommitRow
      <4>3. [row[o] EXCEPT !.status = "COMMITTED", !.applied = TRUE,
                           !.stale = FALSE] \in Rows
        BY <4>1, RowsTyped
      <4> QED BY <4>1, <4>2, <4>3
    <3>2. events' \in [Ops -> Nat]
      BY <1>2, <2>1 DEF CommitRow, TypeOK
    <3>3. usage' \in [Counters -> Nat]
      BY <1>1, <1>2, <2>1 DEF CommitRow
    <3> QED BY <3>1, <3>2, <3>3
  <2>2. CASE ~Pending(o)
    BY <1>2, <2>2 DEF CommitRow, TypeOK
  <2> QED BY <2>1, <2>2
<1>3. CASE RollbackRow(o)
  <2>1. CASE Pending(o)
    <3>1. row' \in [Ops -> Rows]
      <4>1. row \in [Ops -> Rows]
        BY DEF TypeOK
      <4>2. row' = [row EXCEPT ![o] =
                      [row[o] EXCEPT !.status = "ROLLED_BACK", !.stale = FALSE]]
        BY <1>3, <2>1 DEF RollbackRow
      <4>3. [row[o] EXCEPT !.status = "ROLLED_BACK", !.stale = FALSE] \in Rows
        BY <4>1, RowsTyped
      <4> QED BY <4>1, <4>2, <4>3
    <3>2. usage' \in [Counters -> Nat] /\ events' \in [Ops -> Nat]
      BY <1>1, <1>3, <2>1 DEF RollbackRow, TypeOK
    <3> QED BY <3>1, <3>2
  <2>2. CASE ~Pending(o)
    BY <1>3, <2>2 DEF RollbackRow, TypeOK
  <2> QED BY <2>1, <2>2
<1> QED BY <1>2, <1>3

\* The variables keep their types.
THEOREM TypeCorrect == Spec => []TypeOK
<1>1. Init => TypeOK
  <2> SUFFICES ASSUME Init PROVE TypeOK
    OBVIOUS
  <2>1. usage \in [Counters -> Nat] /\ events \in [Ops -> Nat]
    BY DEF Init
  <2>2. row \in [Ops -> Rows]
    BY RowsTyped DEF Init
  <2>3. /\ pc \in [Ops -> PcStates]
        /\ marker \in [Products -> Ops \union {None}]
        /\ plan \in [Reconcilers -> [Ops -> PlanSteps]]
    BY DEF Init, PcStates, NoPlan, PlanSteps
  <2> QED BY <2>1, <2>2, <2>3 DEF Init, TypeOK
<1>2. ASSUME TypeOK, [Next]_vars PROVE TypeOK'
  <2> USE <1>2
  <2> USE DEF Goto, PlanFor
  <2>1. ASSUME NEW o \in Ops, Reserve(o) PROVE TypeOK'
    <3>1. /\ Taken(o) \in [Counters -> Nat] /\ Add("blocked") \in [Counters -> Nat]
      BY CountersTyped DEF TypeOK, Counters
    <3>2. PICK limit \in Limits :
            IF Admits(o, limit)
              THEN /\ usage' = Taken(o)
                   /\ row' = [row EXCEPT ![o] = NewRow]
                   /\ Goto(o, "working")
              ELSE /\ usage' = Add("blocked")
                   /\ Goto(o, "refused")
                   /\ UNCHANGED row
      BY <2>1 DEF Reserve
    <3>3. NewRow \in Rows
      BY RowsTyped
    <3> QED BY <2>1, <3>1, <3>2, <3>3
            DEF Reserve, TypeOK, PcStates, Working
  <2>2. ASSUME NEW o \in Ops, Consume(o) PROVE TypeOK'
    <3>1. Add("embedding") \in [Counters -> Nat]
      BY CountersTyped DEF TypeOK, Counters
    <3> QED BY <2>2, <3>1, RowsTyped DEF Consume, TypeOK
  <2>3. ASSUME NEW o \in Ops, WriteVector(o) PROVE TypeOK'
    BY <2>3, KindsPartition DEF WriteVector, TypeOK, PcStates, Working
  <2>4. ASSUME NEW o \in Ops, Respond(o) \/ WorkFails(o) \/ CallFails(o) \/ Crash(o)
        PROVE TypeOK'
    BY <2>4 DEF Respond, WorkFails, CallFails, Crash, TypeOK, PcStates, Working
  <2>5. ASSUME NEW o \in Ops, Mark(o) PROVE TypeOK'
    BY <2>5, RowsTyped DEF Mark, MarkRow, TypeOK, PcStates, Working
  <2>6. ASSUME NEW o \in Ops, Commit(o) \/ Rollback(o) PROVE TypeOK'
    <3>1. CommitRow(o) \/ RollbackRow(o)
      BY <2>6 DEF Commit, Rollback
    <3> QED BY <2>6, <3>1, StatementsTyped
            DEF Commit, Rollback, TypeOK, PcStates, Working
  <2>7. ASSUME NEW o \in Ops, GrowStale(o) \/ DeleteResolved(o) PROVE TypeOK'
    <3>1. CASE GrowStale(o)
      BY <3>1, RowsTyped DEF GrowStale, TypeOK
    <3>2. CASE DeleteResolved(o)
      BY <3>2, RowsTyped DEF DeleteResolved, TypeOK
    <3> QED BY <2>7, <3>1, <3>2
  <2>8. ASSUME NEW r \in Reconcilers, Scan(r) \/ PassDies(r) PROVE TypeOK'
    BY <2>8 DEF Scan, PassDies, NoPlan, TypeOK, PlanSteps, Deciding
  <2>9. ASSUME NEW r \in Reconcilers, NEW o \in Ops, Decide(r, o) \/ SkipRow(r, o)
        PROVE TypeOK'
    <3>1. PICK step \in PlanSteps : plan' = [plan EXCEPT ![r][o] = step]
      BY <2>9 DEF Decide, SkipRow, PlanSteps, Deciding
    <3>2. UNCHANGED <<usage, row, embedded, events, pc, marker>>
      BY <2>9 DEF Decide, SkipRow
    <3> QED BY <3>1, <3>2 DEF TypeOK
  <2>10. ASSUME NEW r \in Reconcilers, NEW o \in Ops, MarkFound(r, o) PROVE TypeOK'
    BY <2>10, RowsTyped DEF MarkFound, MarkRow, TypeOK, PlanSteps, Deciding
  <2>11. ASSUME NEW r \in Reconcilers, NEW o \in Ops, Resolve(r, o) PROVE TypeOK'
    <3>1. CommitRow(o) \/ RollbackRow(o)
      BY <2>11 DEF Resolve
    <3> QED BY <2>11, <3>1, StatementsTyped DEF Resolve, TypeOK, PlanSteps
  <2>12. ASSUME NEW p \in Products, DeleteVector(p) PROVE TypeOK'
    BY <2>12 DEF DeleteVector, TypeOK
  <2>13. CASE UNCHANGED vars
    BY <2>13 DEF vars, TypeOK
  <2> QED
    BY <2>1, <2>2, <2>3, <2>4, <2>5, <2>6, <2>7, <2>8, <2>9, <2>10, <2>11, <2>12,
       <2>13 DEF Next, Operation, Reconciliation
<1> QED BY <1>1, <1>2, PTL DEF Spec

-------------------------------------------------------------------------------
(* The accounts: counters, reservations and success events agree *)

\* An operation that has not begun has no reservation and no event.
Fresh == \A o \in Ops : pc[o] = "idle" => row[o].status = "NONE" /\ events[o] = 0

\* The inductive invariant: CountersExact alone does not say that the commit of
\* a pending reservation writes the operation's first event.
Accounts == CountersExact /\ ChargedOnce /\ Fresh

\* The operations with a recorded success, of those that count as indexing.
Indexed == {o \in Indexings : events[o] > 0}

LEMMA AccountSetsFinite ==
  /\ \A S \in SUBSET Ops : /\ IsFiniteSet(Charged(S))
                            /\ Cardinality(Charged(S)) \in Nat
  /\ IsFiniteSet(Indexed) /\ Cardinality(Indexed) \in Nat
  /\ embedded \subseteq Ops => IsFiniteSet(embedded)
<1>1. \A T \in SUBSET Ops : IsFiniteSet(T) /\ Cardinality(T) \in Nat
  BY FS_Subset, FS_CardinalityType, UsageAssumption
<1>2. \A S \in SUBSET Ops : Charged(S) \in SUBSET Ops
  BY DEF Charged
<1>3. Indexed \in SUBSET Ops
  BY DEF Indexed, Indexings
<1> QED BY <1>1, <1>2, <1>3

LEMMA KindsAreOps == Searches \subseteq Ops /\ Updates \subseteq Ops /\ Indexings \subseteq Ops
  BY DEF Searches, Updates, Indexings

\* A step that touches no counter, no event and no status keeps the accounts.
LEMMA QuietStep ==
  ASSUME Accounts,
         UNCHANGED <<usage, embedded, events>>,
         \A o \in Ops : row'[o].status = row[o].status,
         \A o \in Ops : pc'[o] = "idle" => pc[o] = "idle"
  PROVE  Accounts'
<1>1. Charged(Searches)' = Charged(Searches) /\ Charged(Updates)' = Charged(Updates)
  BY KindsAreOps DEF Charged, Pending, Searches, Updates
<1>2. CountersExact'
  BY <1>1 DEF Accounts, CountersExact
<1>3. ChargedOnce' /\ Fresh'
  BY DEF Accounts, ChargedOnce, Fresh
<1> QED BY <1>2, <1>3 DEF Accounts

\* Committing a pending reservation moves its unit from the reservations to the
\* events; it was the operation's first event.
LEMMA CommitKeepsAccounts ==
  ASSUME TypeOK, Accounts, NEW o \in Ops, Pending(o), CommitRow(o),
         UNCHANGED embedded,
         \A q \in Ops : pc'[q] = "idle" => pc[q] = "idle"
  PROVE  Accounts'
<1>1. /\ row' = [row EXCEPT ![o] =
                   [row[o] EXCEPT !.status = "COMMITTED", !.applied = TRUE, !.stale = FALSE]]
      /\ events' = [events EXCEPT ![o] = @ + 1]
      /\ usage' = IF o \in Indexings THEN Add("productIndex") ELSE usage
  BY DEF CommitRow
<1>2. /\ row \in [Ops -> Rows] /\ events \in [Ops -> Nat]
      /\ usage \in [Counters -> Nat] /\ events[o] = 0 /\ pc[o] # "idle"
  BY DEF TypeOK, Accounts, ChargedOnce, Fresh, Pending
<1>3. /\ row'[o].status = "COMMITTED" /\ events'[o] = 1
      /\ \A q \in Ops \ {o} : row'[q] = row[q] /\ events'[q] = events[q]
  BY <1>1, <1>2
<1>4. \A S \in SUBSET Ops : Charged(S)' = Charged(S)
  BY <1>3 DEF Charged, Pending
<1>5. Cardinality(Indexed)' = Cardinality(Indexed) + (IF o \in Indexings THEN 1 ELSE 0)
  <2>1. CASE o \in Indexings
    <3>1. Indexed' = Indexed \union {o} /\ o \notin Indexed
      BY <1>2, <1>3, <2>1, KindsAreOps DEF Indexed
    <3> QED BY <2>1, <3>1, AccountSetsFinite, FS_AddElement
  <2>2. CASE o \notin Indexings
    <3>1. Indexed' = Indexed
      BY <1>3, <2>2, KindsAreOps DEF Indexed
    <3> QED BY <2>2, <3>1, AccountSetsFinite
  <2> QED BY <2>1, <2>2
<1>6. /\ usage'["productIndex"] = usage["productIndex"]
                                   + (IF o \in Indexings THEN 1 ELSE 0)
      /\ \A k \in Counters \ {"productIndex"} : usage'[k] = usage[k]
  BY <1>1, <1>2 DEF Add, Counters
<1>7. CountersExact'
  BY <1>4, <1>5, <1>6, KindsAreOps DEF Accounts, CountersExact, Indexed, Counters
<1>8. ChargedOnce' /\ Fresh'
  BY <1>2, <1>3 DEF Accounts, ChargedOnce, Fresh
<1> QED BY <1>7, <1>8 DEF Accounts

\* Rolling back a pending reservation returns exactly its own unit: the counter
\* is above zero, so the clamp is never taken.
LEMMA RollbackKeepsAccounts ==
  ASSUME TypeOK, Accounts, NEW o \in Ops, Pending(o), RollbackRow(o),
         UNCHANGED embedded,
         \A q \in Ops : pc'[q] = "idle" => pc[q] = "idle"
  PROVE  Accounts'
<1>1. /\ row' = [row EXCEPT ![o] =
                   [row[o] EXCEPT !.status = "ROLLED_BACK", !.stale = FALSE]]
      /\ usage' = GivenBack(o)
      /\ UNCHANGED events
  BY DEF RollbackRow
<1>2. /\ row \in [Ops -> Rows] /\ events \in [Ops -> Nat]
      /\ usage \in [Counters -> Nat] /\ events[o] = 0 /\ pc[o] # "idle"
  BY DEF TypeOK, Accounts, ChargedOnce, Fresh, Pending
<1>3. /\ row'[o].status = "ROLLED_BACK"
      /\ \A q \in Ops \ {o} : row'[q] = row[q]
  BY <1>1, <1>2 DEF Rows
<1>4. \A S \in SUBSET Ops : Charged(S)' = Charged(S) \ {o}
  BY <1>1, <1>2, <1>3 DEF Charged, Pending
<1>5. \A S \in SUBSET Ops :
        /\ o \in S => /\ Cardinality(Charged(S)) > 0
                      /\ Cardinality(Charged(S))' = Cardinality(Charged(S)) - 1
        /\ o \notin S => Cardinality(Charged(S))' = Cardinality(Charged(S))
  <2> TAKE S \in SUBSET Ops
  <2>1. CASE o \in S
    <3>1. o \in Charged(S)
      BY <2>1 DEF Charged
    <3>2. Cardinality(Charged(S) \ {o}) = Cardinality(Charged(S)) - 1
      BY <3>1, AccountSetsFinite, FS_RemoveElement
    <3>3. Cardinality(Charged(S)) # 0
      BY <3>1, AccountSetsFinite, FS_EmptySet
    <3> QED BY <1>4, <2>1, <3>2, <3>3, AccountSetsFinite
  <2>2. CASE o \notin S
    BY <1>4, <2>2 DEF Charged
  <2> QED BY <2>1, <2>2
<1>6. Indexed' = Indexed
  BY <1>1 DEF Indexed
<1>7. CountersExact'
  <2>1. CASE o \in Searches
    <3>1. /\ usage'["search"] = Lowered(usage["search"])
          /\ \A k \in Counters \ {"search"} : usage'[k] = usage[k]
      BY <1>1, <1>2, <2>1, KindsPartition DEF GivenBack, Counters
    <3>2. usage'["search"] = Cardinality(Charged(Searches))'
      BY <1>5, <2>1, <3>1, KindsAreOps, AccountSetsFinite DEF Accounts, CountersExact, Lowered
    <3> QED BY <1>5, <1>6, <2>1, <3>1, <3>2, KindsPartition, KindsAreOps
            DEF Accounts, CountersExact, Indexed, Counters
  <2>2. CASE o \in Updates
    <3>1. /\ usage'["vectorUpdate"] = Lowered(usage["vectorUpdate"])
          /\ \A k \in Counters \ {"vectorUpdate"} : usage'[k] = usage[k]
      BY <1>1, <1>2, <2>2, KindsPartition DEF GivenBack, Counters
    <3>2. usage'["vectorUpdate"] = Cardinality(Charged(Updates))'
      BY <1>5, <2>2, <3>1, KindsAreOps, AccountSetsFinite DEF Accounts, CountersExact, Lowered
    <3> QED BY <1>5, <1>6, <2>2, <3>1, <3>2, KindsPartition, KindsAreOps
            DEF Accounts, CountersExact, Indexed, Counters
  <2>3. CASE o \in Indexings
    <3>1. UNCHANGED usage
      BY <1>1, <2>3, KindsPartition DEF GivenBack
    <3> QED BY <1>5, <1>6, <2>3, <3>1, KindsPartition, KindsAreOps
            DEF Accounts, CountersExact, Indexed
  <2> QED BY <2>1, <2>2, <2>3, KindsPartition
<1>8. ChargedOnce' /\ Fresh'
  BY <1>1, <1>2, <1>3 DEF Accounts, ChargedOnce, Fresh
<1> QED BY <1>7, <1>8 DEF Accounts

\* Reserving takes one unit for an operation that had none.
LEMMA ReserveKeepsAccounts ==
  ASSUME TypeOK, Accounts, NEW o \in Ops, Reserve(o)
  PROVE  Accounts'
<1>1. /\ row \in [Ops -> Rows] /\ usage \in [Counters -> Nat] /\ pc \in [Ops -> PcStates]
      /\ pc[o] = "idle" /\ row[o].status = "NONE" /\ events[o] = 0
      /\ UNCHANGED <<embedded, events>>
  BY DEF Reserve, TypeOK, Accounts, Fresh
<1>2. \A q \in Ops : pc'[q] = "idle" => q # o /\ pc[q] = "idle"
  BY <1>1 DEF Reserve, Goto
<1>3. CASE usage' = Add("blocked") /\ UNCHANGED row
  <2>1. \A k \in Counters \ {"blocked"} : usage'[k] = usage[k]
    BY <1>1, <1>3 DEF Add, Counters
  <2>2. Charged(Searches)' = Charged(Searches) /\ Charged(Updates)' = Charged(Updates)
    BY <1>1, <1>3 DEF Charged, Pending, Searches, Updates
  <2>3. CountersExact'
    BY <1>1, <2>1, <2>2 DEF Accounts, CountersExact, Counters
  <2> QED BY <1>1, <1>2, <1>3, <2>3 DEF Accounts, ChargedOnce, Fresh
<1>4. CASE usage' = Taken(o) /\ row' = [row EXCEPT ![o] = NewRow]
  <2>1. /\ row'[o].status = "PENDING"
        /\ \A q \in Ops \ {o} : row'[q] = row[q]
    BY <1>1, <1>4 DEF NewRow, NoRow
  <2>2. \A S \in SUBSET Ops :
          IF o \in S
            THEN /\ Charged(S)' = Charged(S) \union {o}
                 /\ Cardinality(Charged(S))' = Cardinality(Charged(S)) + 1
            ELSE Charged(S)' = Charged(S)
    <3> TAKE S \in SUBSET Ops
    <3>1. o \notin Charged(S)
      BY <1>1 DEF Charged, Pending
    <3>2. o \in S => Charged(S)' = Charged(S) \union {o}
      BY <1>1, <2>1 DEF Charged, Pending
    <3>3. o \notin S => Charged(S)' = Charged(S)
      BY <1>1, <2>1 DEF Charged, Pending
    <3> QED BY <3>1, <3>2, <3>3, AccountSetsFinite, FS_AddElement
  <2>3. CountersExact'
    <3>1. CASE o \in Searches
      <4>1. /\ usage'["search"] = usage["search"] + 1
            /\ \A k \in Counters \ {"search"} : usage'[k] = usage[k]
        BY <1>1, <1>4, <3>1, KindsPartition DEF Taken, Add, Counters
      <4> QED BY <1>1, <2>2, <3>1, <4>1, KindsPartition, KindsAreOps
              DEF Accounts, CountersExact, Counters
    <3>2. CASE o \in Updates
      <4>1. /\ usage'["vectorUpdate"] = usage["vectorUpdate"] + 1
            /\ \A k \in Counters \ {"vectorUpdate"} : usage'[k] = usage[k]
        BY <1>1, <1>4, <3>2, KindsPartition DEF Taken, Add, Counters
      <4> QED BY <1>1, <2>2, <3>2, <4>1, KindsPartition, KindsAreOps
              DEF Accounts, CountersExact, Counters
    <3>3. CASE o \in Indexings
      <4>1. UNCHANGED usage
        BY <1>4, <3>3, KindsPartition DEF Taken
      <4> QED BY <1>1, <2>2, <3>3, <4>1, KindsPartition, KindsAreOps
              DEF Accounts, CountersExact
    <3> QED BY <3>1, <3>2, <3>3, KindsPartition
  <2>4. ChargedOnce' /\ Fresh'
    BY <1>1, <1>2, <2>1 DEF Accounts, ChargedOnce, Fresh
  <2> QED BY <2>3, <2>4 DEF Accounts
<1> QED BY <1>3, <1>4 DEF Reserve

\* Both outcomes of a statement, pending or not.
LEMMA StatementKeepsAccounts ==
  ASSUME TypeOK, Accounts, NEW o \in Ops, CommitRow(o) \/ RollbackRow(o),
         UNCHANGED embedded,
         \A q \in Ops : pc'[q] = "idle" => pc[q] = "idle"
  PROVE  Accounts'
<1>1. CASE Pending(o)
  BY <1>1, CommitKeepsAccounts, RollbackKeepsAccounts
<1>2. CASE ~Pending(o)
  <2>1. UNCHANGED <<usage, row, events>>
    BY <1>2 DEF CommitRow, RollbackRow
  <2> QED BY <2>1, QuietStep
<1> QED BY <1>1, <1>2

\* The inductive invariant holds of the specification.
LEMMA AccountsHold == Spec => []Accounts
<1>1. Init => Accounts
  <2> SUFFICES ASSUME Init PROVE Accounts
    OBVIOUS
  <2>1. Charged(Searches) = {} /\ Charged(Updates) = {} /\ Indexed = {}
    BY KindsAreOps DEF Init, Charged, Pending, NoRow, Indexed
  <2>2. CountersExact
    BY <2>1, FS_EmptySet DEF Init, CountersExact, Indexed, Counters
  <2>3. ChargedOnce /\ Fresh
    BY DEF Init, ChargedOnce, Fresh, NoRow
  <2> QED BY <2>2, <2>3 DEF Accounts
<1>2. ASSUME TypeOK, Accounts, [Next]_vars PROVE Accounts'
  <2> USE <1>2
  <2>0. /\ pc \in [Ops -> PcStates] /\ row \in [Ops -> Rows]
        /\ \A o \in Ops : Pending(o) => pc[o] # "idle"
    BY DEF TypeOK, Accounts, Fresh, Pending
  <2>1. ASSUME NEW o \in Ops, Reserve(o) PROVE Accounts'
    BY <2>1, ReserveKeepsAccounts
  <2>2. ASSUME NEW o \in Ops, Consume(o) PROVE Accounts'
    <3>1. /\ usage' = Add("embedding") /\ embedded' = embedded \union {o}
          /\ o \notin embedded /\ UNCHANGED <<events, pc>>
          /\ \A q \in Ops : row'[q].status = row[q].status
      BY <2>0, <2>2 DEF Consume, Rows
    <3>2. /\ usage'["embedding"] = usage["embedding"] + 1
          /\ \A k \in Counters \ {"embedding"} : usage'[k] = usage[k]
      BY <3>1 DEF Add, Counters, TypeOK
    <3>3. Cardinality(embedded') = Cardinality(embedded) + 1
      BY <3>1, AccountSetsFinite, FS_AddElement DEF TypeOK
    <3>4. Charged(Searches)' = Charged(Searches) /\ Charged(Updates)' = Charged(Updates)
      BY <3>1, KindsAreOps DEF Charged, Pending, Searches, Updates
    <3>5. CountersExact'
      BY <3>1, <3>2, <3>3, <3>4 DEF Accounts, CountersExact, Counters
    <3> QED BY <3>1, <3>5 DEF Accounts, ChargedOnce, Fresh
  <2>3. ASSUME NEW o \in Ops,
               Respond(o) \/ WriteVector(o) \/ WorkFails(o) \/ CallFails(o) \/ Crash(o)
        PROVE Accounts'
    <3>1. \A q \in Ops : pc'[q] = "idle" => pc[q] = "idle"
      BY <2>0, <2>3 DEF Respond, WriteVector, WorkFails, CallFails, Crash, Goto
    <3>2. UNCHANGED <<usage, row, embedded, events>>
      BY <2>3 DEF Respond, WriteVector, WorkFails, CallFails, Crash
    <3> QED BY <3>1, <3>2, QuietStep
  <2>4. ASSUME NEW o \in Ops, NEW own \in BOOLEAN, MarkRow(o, own)
        PROVE \A q \in Ops : row'[q].status = row[q].status
    BY <2>0, <2>4 DEF MarkRow, Rows
  <2>5. ASSUME NEW o \in Ops, Mark(o) PROVE Accounts'
    <3>1. \A q \in Ops : row'[q].status = row[q].status
      BY <2>4, <2>5 DEF Mark
    <3>2. \A q \in Ops : pc'[q] = "idle" => pc[q] = "idle"
      BY <2>0, <2>5 DEF Mark, Goto
    <3> QED BY <2>5, <3>1, <3>2, QuietStep DEF Mark
  <2>6. ASSUME NEW o \in Ops, Commit(o) \/ Rollback(o) PROVE Accounts'
    <3>1. \A q \in Ops : pc'[q] = "idle" => pc[q] = "idle"
      BY <2>0, <2>6 DEF Commit, Rollback, Goto
    <3>2. (CommitRow(o) \/ RollbackRow(o)) /\ UNCHANGED embedded
      BY <2>6 DEF Commit, Rollback
    <3> QED BY <3>1, <3>2, StatementKeepsAccounts
  <2>7. ASSUME NEW o \in Ops, GrowStale(o) PROVE Accounts'
    <3>1. \A q \in Ops : row'[q].status = row[q].status
      BY <2>0, <2>7 DEF GrowStale, Rows
    <3> QED BY <2>7, <3>1, QuietStep DEF GrowStale
  <2>8. ASSUME NEW o \in Ops, DeleteResolved(o) PROVE Accounts'
    <3>1. /\ UNCHANGED <<usage, embedded, events, pc>>
          /\ row[o].status # "PENDING" /\ row'[o].status = "NONE"
          /\ \A q \in Ops \ {o} : row'[q] = row[q]
      BY <2>0, <2>8 DEF DeleteResolved, Resolved, NoRow
    <3>2. Charged(Searches)' = Charged(Searches) /\ Charged(Updates)' = Charged(Updates)
      BY <3>1, KindsAreOps DEF Charged, Pending, Searches, Updates
    <3>3. CountersExact'
      BY <3>1, <3>2 DEF Accounts, CountersExact
    <3> QED BY <3>1, <3>3 DEF Accounts, ChargedOnce, Fresh
  <2>9. ASSUME NEW r \in Reconcilers, NEW o \in Ops, MarkFound(r, o) PROVE Accounts'
    BY <2>4, <2>9, QuietStep DEF MarkFound
  <2>10. ASSUME NEW r \in Reconcilers, NEW o \in Ops, Resolve(r, o) PROVE Accounts'
    BY <2>10, StatementKeepsAccounts DEF Resolve
  <2>11. ASSUME NEW r \in Reconcilers, NEW o \in Ops,
                Decide(r, o) \/ SkipRow(r, o)
         PROVE Accounts'
    BY <2>11, QuietStep DEF Decide, SkipRow
  <2>12. ASSUME NEW r \in Reconcilers, Scan(r) \/ PassDies(r) PROVE Accounts'
    BY <2>12, QuietStep DEF Scan, PassDies
  <2>13. ASSUME NEW p \in Products, DeleteVector(p) PROVE Accounts'
    BY <2>13, QuietStep DEF DeleteVector
  <2>14. CASE UNCHANGED vars
    BY <2>14, QuietStep DEF vars
  <2> QED
    BY <2>1, <2>2, <2>3, <2>5, <2>6, <2>7, <2>8, <2>9, <2>10, <2>11, <2>12, <2>13,
       <2>14 DEF Next, Operation, Reconciliation
<1> QED BY <1>1, <1>2, TypeCorrect, PTL DEF Spec

\* Whatever fails, is retried or runs at the same time, no unit of quota is
\* leaked or refunded twice.
THEOREM AccountsExact == Spec => []CountersExact
BY AccountsHold, PTL DEF Accounts

\* No operation is charged twice, or both charged and refunded.
THEOREM NoDoubleCharge == Spec => []ChargedOnce
BY AccountsHold, PTL DEF Accounts

-------------------------------------------------------------------------------
(* The quota *)

\* Only a reservation adds an operation to those the shop is charged for.
LEMMA OnlyReserveCharges ==
  ASSUME TypeOK, [Next]_vars, \A o \in Ops : ~Reserve(o)
  PROVE  \A S \in SUBSET Ops : Charged(S)' \subseteq Charged(S)
<1>1. SUFFICES ASSUME NEW q \in Ops, Pending(q)' \/ events'[q] > 0
               PROVE  Pending(q) \/ events[q] > 0
  BY DEF Charged
<1>2. row \in [Ops -> Rows] /\ events \in [Ops -> Nat]
  BY DEF TypeOK
<1>3. ASSUME NEW o \in Ops, CommitRow(o) \/ RollbackRow(o)
      PROVE  Pending(q) \/ events[q] > 0
  <2>1. CASE Pending(o) /\ o # q
    BY <1>1, <1>2, <1>3, <2>1 DEF CommitRow, RollbackRow, Pending
  <2>2. CASE ~Pending(o)
    BY <1>1, <1>3, <2>2 DEF CommitRow, RollbackRow, Pending
  <2> QED BY <2>1, <2>2
<1>4. ASSUME NEW o \in Ops, NEW own \in BOOLEAN, MarkRow(o, own), UNCHANGED events
      PROVE  Pending(q) \/ events[q] > 0
  BY <1>1, <1>2, <1>4 DEF MarkRow, Pending, Rows
<1>5. ASSUME NEW o \in Ops, Consume(o) \/ GrowStale(o)
      PROVE  Pending(q) \/ events[q] > 0
  BY <1>1, <1>2, <1>5 DEF Consume, GrowStale, Pending, Rows
<1>6. ASSUME NEW o \in Ops, DeleteResolved(o)
      PROVE  Pending(q) \/ events[q] > 0
  BY <1>1, <1>2, <1>6 DEF DeleteResolved, NoRow, Pending
<1>7. ASSUME UNCHANGED <<row, events>> PROVE Pending(q) \/ events[q] > 0
  BY <1>1, <1>7 DEF Pending
<1>8. ASSUME NEW o \in Ops, Operation(o) PROVE Pending(q) \/ events[q] > 0
  BY <1>3, <1>4, <1>5, <1>7, <1>8
     DEF Operation, Respond, WriteVector, WorkFails, Mark, Commit, Rollback, CallFails, Crash
<1>9. ASSUME NEW r \in Reconcilers, Reconciliation(r)
      PROVE  Pending(q) \/ events[q] > 0
  BY <1>3, <1>4, <1>7, <1>9
     DEF Reconciliation, Scan, PassDies, Decide, MarkFound, Resolve, SkipRow
<1> QED BY <1>5, <1>6, <1>7, <1>8, <1>9 DEF Next, DeleteVector, vars

\* Searches and vector updates, in flight or charged, stay within a limit the
\* shop was entitled to.
THEOREM QuotaRespected == Spec => []QuotaHolds
<1>1. Init => QuotaHolds
  <2> SUFFICES ASSUME Init PROVE QuotaHolds
    OBVIOUS
  <2>1. \A S \in {Searches, Updates} : Charged(S) = {}
    BY KindsAreOps DEF Init, Charged, Pending, NoRow
  <2> QED BY <2>1 DEF QuotaHolds
<1>2. ASSUME TypeOK, Accounts, Accounts', QuotaHolds, [Next]_vars PROVE QuotaHolds'
  <2>1. CASE \A o \in Ops : ~Reserve(o)
    <3>1. SUFFICES ASSUME NEW S \in {Searches, Updates}, Charged(S)' # {},
                          Unlimited \notin Limits
                   PROVE  \E l \in Limits : Cardinality(Charged(S)') <= l
      BY DEF QuotaHolds, Searches, Updates
    <3>2. Charged(S)' \subseteq Charged(S)
      BY <1>2, <2>1, <3>1, OnlyReserveCharges, KindsAreOps
    <3>3. /\ Cardinality(Charged(S)') <= Cardinality(Charged(S))
          /\ Cardinality(Charged(S)') \in Nat /\ Cardinality(Charged(S)) \in Nat
      BY <3>2, FS_Subset, FS_CardinalityType, AccountSetsFinite, KindsAreOps
    <3>4. PICK l \in Limits : Cardinality(Charged(S)) <= l
      BY <1>2, <3>1, <3>2 DEF QuotaHolds
    <3>5. l \in Nat
      BY <3>1, UsageAssumption
    <3> QED BY <3>3, <3>4, <3>5
  <2>2. CASE \E o \in Ops : Reserve(o)
    <3>1. PICK o \in Ops : Reserve(o)
      BY <2>2
    <3>2. PICK limit \in Limits :
            IF Admits(o, limit)
              THEN /\ usage' = Taken(o)
                   /\ row' = [row EXCEPT ![o] = NewRow]
              ELSE UNCHANGED row
      BY <3>1 DEF Reserve
    <3>3. UNCHANGED events /\ row \in [Ops -> Rows] /\ usage \in [Counters -> Nat]
      BY <1>2, <3>1 DEF Reserve, TypeOK
    <3>4. SUFFICES ASSUME NEW S \in {Searches, Updates}, Charged(S)' # {},
                          Unlimited \notin Limits
                   PROVE  \E l \in Limits : Cardinality(Charged(S)') <= l
      BY DEF QuotaHolds, Searches, Updates
    <3>5. CASE Admits(o, limit) /\ o \in S
      <4>1. /\ limit \in Nat
            /\ o \in Searches => usage["search"] < limit
            /\ o \in Updates => usage["vectorUpdate"] < limit
        BY <3>4, <3>5, KindsPartition, UsageAssumption DEF Admits
      <4>2. /\ o \in Searches => usage'["search"] = usage["search"] + 1
            /\ o \in Updates => usage'["vectorUpdate"] = usage["vectorUpdate"] + 1
        BY <3>2, <3>3, <3>5, KindsPartition DEF Taken, Add, Counters
      <4>3. /\ S = Searches => Cardinality(Charged(S)') = usage'["search"]
            /\ S = Updates => Cardinality(Charged(S)') = usage'["vectorUpdate"]
        BY <1>2 DEF Accounts, CountersExact, Searches, Updates
      <4> QED BY <3>3, <3>4, <3>5, <4>1, <4>2, <4>3 DEF Counters
    <3>6. CASE ~(Admits(o, limit) /\ o \in S)
      <4>1. Charged(S)' = Charged(S)
        BY <3>2, <3>3, <3>4, <3>6, KindsAreOps DEF Charged, Pending
      <4> QED BY <1>2, <3>4, <4>1 DEF QuotaHolds
    <3> QED BY <3>5, <3>6
  <2> QED BY <2>1, <2>2
<1> QED BY <1>1, <1>2, TypeCorrect, AccountsHold, PTL DEF Spec

-------------------------------------------------------------------------------
(* An applied effect is not refunded, whatever the number of housekeeping passes *)

\* For an operation that does not outlive its time limit: nobody but the
\* operation marks the effect while it runs, a search is marked by nobody else,
\* and a row refunded after a pass marked it has lost its vector.
OrderlyRow(o) ==
  /\ row[o].own => row[o].applied /\ row[o].status # "ROLLED_BACK"
  /\ row[o].applied => pc[o] \notin {"idle", "working", "failing", "marking"}
  /\ o \in Searches /\ row[o].applied /\ ~row[o].own => row[o].status = "COMMITTED"
  /\ row[o].applied /\ row[o].status = "ROLLED_BACK" => marker[ProductOf[o]] # o
  /\ row[o].stale => pc[o] \notin Working

\* A pass knows nothing of it until its worker has ended; what it read as unmarked
\* the operation does not mark any more, and what it will refund has no vector.
OrderlyPass(r, o) ==
  /\ plan[r][o] # "no" => pc[o] \notin Working \union {"idle"}
  /\ plan[r][o] \in {"seenBare", "rollback"} => ~row[o].own
  /\ plan[r][o] = "mark" => o \notin Searches
  /\ plan[r][o] = "rollback" => o \in Searches \/ marker[ProductOf[o]] # o

Orderly ==
  \A o \in Ops \ SlowOps : OrderlyRow(o) /\ \A r \in Reconcilers : OrderlyPass(r, o)

\* A step that is about operation o, in the database, its worker or a pass.
About(o) ==
  /\ \A q \in Ops \ {o} : /\ row'[q] = row[q] /\ pc'[q] = pc[q]
                          /\ \A r \in Reconcilers : plan'[r][q] = plan[r][q]
  /\ \A q \in Ops \ Searches :
       q # o /\ marker'[ProductOf[q]] = q => marker[ProductOf[q]] = q

\* It is enough to look at the operation the step is about.
LEMMA OneIsOrderly ==
  ASSUME Orderly, NEW o \in Ops, About(o),
         o \notin SlowOps => /\ OrderlyRow(o)'
                             /\ \A r \in Reconcilers : OrderlyPass(r, o)'
  PROVE  Orderly'
<1>1. SUFFICES ASSUME NEW q \in Ops \ SlowOps
               PROVE  OrderlyRow(q)' /\ \A r \in Reconcilers : OrderlyPass(r, q)'
  BY DEF Orderly
<1>2. CASE q = o
  BY <1>2
<1>3. CASE q # o
  <2>1. /\ row'[q] = row[q] /\ pc'[q] = pc[q]
        /\ \A r \in Reconcilers : plan'[r][q] = plan[r][q]
        /\ q \notin Searches /\ marker'[ProductOf[q]] = q => marker[ProductOf[q]] = q
    BY <1>3 DEF About
  <2>2. OrderlyRow(q) /\ \A r \in Reconcilers : OrderlyPass(r, q)
    BY DEF Orderly
  <2>3. OrderlyRow(q)'
    BY <2>1, <2>2 DEF OrderlyRow
  <2>4. ASSUME NEW r \in Reconcilers PROVE OrderlyPass(r, q)'
    BY <2>1, <2>2 DEF OrderlyPass
  <2> QED BY <2>3, <2>4
<1> QED BY <1>2, <1>3

\* The operation's own steps: no pass has a plan for it while it works.
LEMMA WorkIsOrderly ==
  ASSUME TypeOK, Accounts, Orderly, NEW o \in Ops, Operation(o)
  PROVE  Orderly'
<1>0. /\ pc \in [Ops -> PcStates] /\ row \in [Ops -> Rows]
      /\ marker \in [Products -> Ops \union {None}]
      /\ \A q \in Ops : Pending(q) => pc[q] # "idle"
  BY DEF TypeOK, Accounts, Fresh, Pending
<1>1. o \notin SlowOps => /\ OrderlyRow(o)
                          /\ \A r \in Reconcilers : OrderlyPass(r, o)
  BY DEF Orderly
<1>2. CASE Reserve(o)
  <2>1. /\ pc[o] = "idle" /\ UNCHANGED <<plan, marker>>
        /\ \/ pc' = [pc EXCEPT ![o] = "working"] /\ row' = [row EXCEPT ![o] = NewRow]
           \/ pc' = [pc EXCEPT ![o] = "refused"] /\ UNCHANGED row
    BY <1>2 DEF Reserve, Goto
  <2>2. About(o)
    BY <1>0, <2>1 DEF About
  <2>3. o \notin SlowOps => OrderlyRow(o)'
    BY <1>0, <1>1, <2>1 DEF OrderlyRow, NewRow, NoRow, Working
  <2>4. o \notin SlowOps => \A r \in Reconcilers : OrderlyPass(r, o)'
    BY <1>0, <1>1, <2>1 DEF OrderlyPass, NewRow, NoRow, Working
  <2> QED BY <2>2, <2>3, <2>4, OneIsOrderly
<1>3. CASE Consume(o)
  <2>1. UNCHANGED <<pc, plan, marker>> /\ row' = [row EXCEPT ![o].stale = FALSE]
    BY <1>3 DEF Consume
  <2>2. About(o)
    BY <1>0, <2>1 DEF About
  <2>3. o \notin SlowOps => OrderlyRow(o)'
    BY <1>0, <1>1, <2>1 DEF OrderlyRow, Rows
  <2>4. o \notin SlowOps => \A r \in Reconcilers : OrderlyPass(r, o)'
    BY <1>0, <1>1, <2>1 DEF OrderlyPass, Rows
  <2> QED BY <2>2, <2>3, <2>4, OneIsOrderly
<1>4. CASE WriteVector(o)
  <2>1. /\ pc[o] = "working" /\ UNCHANGED <<row, plan>>
        /\ marker' = [marker EXCEPT ![ProductOf[o]] = o]
        /\ \E step \in {"marking", "failing"} : pc' = [pc EXCEPT ![o] = step]
    BY <1>4 DEF WriteVector, Goto
  <2>2. About(o)
    <3>1. \A q \in Ops \ Searches : ProductOf[q] \in Products
      BY UsageAssumption
    <3> QED BY <1>0, <2>1, <3>1 DEF About
  <2>3. o \notin SlowOps => OrderlyRow(o)'
    BY <1>0, <1>1, <2>1 DEF OrderlyRow, Working
  <2>4. o \notin SlowOps => \A r \in Reconcilers : OrderlyPass(r, o)'
    BY <1>0, <1>1, <2>1 DEF OrderlyPass, Working
  <2> QED BY <2>2, <2>3, <2>4, OneIsOrderly
<1>5. CASE Respond(o) \/ WorkFails(o)
  <2>1. /\ pc[o] = "working" /\ UNCHANGED <<row, plan, marker>>
        /\ \E step \in {"marking", "failing"} : pc' = [pc EXCEPT ![o] = step]
    BY <1>5 DEF Respond, WorkFails, Goto
  <2>2. About(o)
    BY <1>0, <2>1 DEF About
  <2>3. o \notin SlowOps => OrderlyRow(o)'
    BY <1>0, <1>1, <2>1 DEF OrderlyRow, Working
  <2>4. o \notin SlowOps => \A r \in Reconcilers : OrderlyPass(r, o)'
    BY <1>0, <1>1, <2>1 DEF OrderlyPass, Working
  <2> QED BY <2>2, <2>3, <2>4, OneIsOrderly
<1>6. CASE CallFails(o) \/ Crash(o)
  <2>1. /\ pc[o] \in Working /\ UNCHANGED <<row, plan, marker>>
        /\ \/ pc[o] = "marking" /\ pc' = [pc EXCEPT ![o] = "committing"]
           \/ \E step \in {"returned", "crashed"} : pc' = [pc EXCEPT ![o] = step]
    BY <1>6 DEF CallFails, Crash, Goto, Working
  <2>2. About(o)
    BY <1>0, <2>1 DEF About
  <2>3. o \notin SlowOps => OrderlyRow(o)'
    BY <1>0, <1>1, <2>1 DEF OrderlyRow, Working
  <2>4. o \notin SlowOps => \A r \in Reconcilers : OrderlyPass(r, o)'
    BY <1>0, <1>1, <2>1 DEF OrderlyPass, Working
  <2> QED BY <2>2, <2>3, <2>4, OneIsOrderly
<1>7. CASE Mark(o)
  <2>1. /\ pc[o] = "marking" /\ UNCHANGED <<plan, marker>>
        /\ pc' = [pc EXCEPT ![o] = "committing"] /\ MarkRow(o, TRUE)
    BY <1>7 DEF Mark, Goto
  <2>2. \A q \in Ops \ {o} : row'[q] = row[q]
    BY <1>0, <2>1 DEF MarkRow
  <2>3. About(o)
    BY <1>0, <2>1, <2>2 DEF About
  <2>4. o \notin SlowOps => OrderlyRow(o)'
    <3>1. CASE Pending(o)
      <4>1. row' = [row EXCEPT ![o] = [row[o] EXCEPT !.applied = TRUE, !.stale = FALSE,
                                         !.own = row[o].own \/ TRUE]]
        BY <2>1, <3>1 DEF MarkRow
      <4>2. row'[o].status = "PENDING" /\ row'[o].own /\ row'[o].applied /\ ~row'[o].stale
        BY <1>0, <3>1, <4>1 DEF Rows, Pending
      <4> QED BY <1>0, <2>1, <4>2 DEF OrderlyRow
    <3>2. CASE ~Pending(o)
      BY <1>0, <1>1, <2>1, <3>2 DEF MarkRow, OrderlyRow, Working
    <3> QED BY <3>1, <3>2
  <2>5. o \notin SlowOps => \A r \in Reconcilers : OrderlyPass(r, o)'
    BY <1>0, <1>1, <2>1 DEF OrderlyPass, Working
  <2> QED BY <2>3, <2>4, <2>5, OneIsOrderly
<1>8. CASE Commit(o)
  <2>1. /\ pc[o] = "committing" /\ UNCHANGED <<plan, marker>>
        /\ pc' = [pc EXCEPT ![o] = "returned"] /\ CommitRow(o)
    BY <1>8 DEF Commit, Goto
  <2>2. CASE Pending(o)
    <3>1. row' = [row EXCEPT ![o] = [row[o] EXCEPT !.status = "COMMITTED",
                                       !.applied = TRUE, !.stale = FALSE]]
      BY <2>1, <2>2 DEF CommitRow
    <3>2. /\ row'[o].status = "COMMITTED" /\ row'[o].own = row[o].own
          /\ row'[o].applied /\ ~row'[o].stale
          /\ \A q \in Ops \ {o} : row'[q] = row[q]
      BY <1>0, <3>1 DEF Rows
    <3>3. About(o)
      BY <1>0, <2>1, <3>2 DEF About
    <3>4. o \notin SlowOps => OrderlyRow(o)'
      BY <1>0, <2>1, <3>2 DEF OrderlyRow
    <3>5. o \notin SlowOps => \A r \in Reconcilers : OrderlyPass(r, o)'
      BY <1>0, <1>1, <2>1, <3>2 DEF OrderlyPass, Working
    <3> QED BY <3>3, <3>4, <3>5, OneIsOrderly
  <2>3. CASE ~Pending(o)
    <3>1. UNCHANGED row
      BY <2>1, <2>3 DEF CommitRow
    <3>2. About(o)
      BY <1>0, <2>1, <3>1 DEF About
    <3>3. o \notin SlowOps => OrderlyRow(o)'
      BY <1>0, <1>1, <2>1, <3>1 DEF OrderlyRow, Working
    <3>4. o \notin SlowOps => \A r \in Reconcilers : OrderlyPass(r, o)'
      BY <1>0, <1>1, <2>1, <3>1 DEF OrderlyPass, Working
    <3> QED BY <3>2, <3>3, <3>4, OneIsOrderly
  <2> QED BY <2>2, <2>3
<1>9. CASE Rollback(o)
  <2>1. /\ pc[o] = "failing" /\ UNCHANGED <<plan, marker>>
        /\ pc' = [pc EXCEPT ![o] = "returned"] /\ RollbackRow(o)
    BY <1>9 DEF Rollback, Goto
  <2>2. CASE Pending(o)
    <3>1. row' = [row EXCEPT ![o] = [row[o] EXCEPT !.status = "ROLLED_BACK",
                                                   !.stale = FALSE]]
      BY <2>1, <2>2 DEF RollbackRow
    <3>2. /\ row'[o].own = row[o].own /\ row'[o].applied = row[o].applied
          /\ ~row'[o].stale /\ \A q \in Ops \ {o} : row'[q] = row[q]
      BY <1>0, <3>1 DEF Rows
    <3>3. About(o)
      BY <1>0, <2>1, <3>2 DEF About
    <3>4. o \notin SlowOps => ~row[o].applied /\ ~row[o].own
      BY <1>1, <2>1 DEF OrderlyRow
    <3>5. o \notin SlowOps => OrderlyRow(o)'
      BY <3>2, <3>4 DEF OrderlyRow
    <3>6. o \notin SlowOps => \A r \in Reconcilers : OrderlyPass(r, o)'
      BY <1>0, <1>1, <2>1, <3>2 DEF OrderlyPass, Working
    <3> QED BY <3>3, <3>5, <3>6, OneIsOrderly
  <2>3. CASE ~Pending(o)
    <3>1. UNCHANGED row
      BY <2>1, <2>3 DEF RollbackRow
    <3>2. About(o)
      BY <1>0, <2>1, <3>1 DEF About
    <3>3. o \notin SlowOps => OrderlyRow(o)'
      BY <1>0, <1>1, <2>1, <3>1 DEF OrderlyRow, Working
    <3>4. o \notin SlowOps => \A r \in Reconcilers : OrderlyPass(r, o)'
      BY <1>0, <1>1, <2>1, <3>1 DEF OrderlyPass, Working
    <3> QED BY <3>2, <3>3, <3>4, OneIsOrderly
  <2> QED BY <2>2, <2>3
<1> QED
  BY <1>2, <1>3, <1>4, <1>5, <1>6, <1>7, <1>8, <1>9 DEF Operation

\* Time, and the deletion of resolved rows.
LEMMA RowsStayOrderly ==
  ASSUME TypeOK, Orderly, NEW o \in Ops, GrowStale(o) \/ DeleteResolved(o)
  PROVE  Orderly'
<1>0. row \in [Ops -> Rows]
  BY DEF TypeOK
<1>1. o \notin SlowOps => /\ OrderlyRow(o)
                          /\ \A r \in Reconcilers : OrderlyPass(r, o)
  BY DEF Orderly
<1>2. /\ UNCHANGED <<pc, plan, marker>>
      /\ \/ /\ row' = [row EXCEPT ![o].stale = TRUE]
            /\ o \notin SlowOps => pc[o] \notin Working
         \/ row' = [row EXCEPT ![o] = NoRow]
  BY DEF GrowStale, DeleteResolved, TimeoutAllowed
<1>3. About(o)
  BY <1>0, <1>2 DEF About
<1>4. o \notin SlowOps => OrderlyRow(o)'
  BY <1>0, <1>1, <1>2 DEF OrderlyRow, NoRow, Rows
<1>5. o \notin SlowOps => \A r \in Reconcilers : OrderlyPass(r, o)'
  BY <1>0, <1>1, <1>2 DEF OrderlyPass, NoRow, Rows
<1> QED
  BY <1>3, <1>4, <1>5, OneIsOrderly

\* The start and the end of a pass.
LEMMA BatchIsOrderly ==
  ASSUME TypeOK, Accounts, Orderly, NEW r \in Reconcilers, Scan(r) \/ PassDies(r)
  PROVE  Orderly'
<1>1. UNCHANGED <<row, pc, marker>>
  BY DEF Scan, PassDies
<1>2. \A q \in Ops \ SlowOps : OrderlyRow(q)'
  BY <1>1 DEF Orderly, OrderlyRow
<1>3. ASSUME NEW q \in Ops \ SlowOps, NEW s \in Reconcilers PROVE OrderlyPass(s, q)'
  <2>1. OrderlyPass(s, q) /\ OrderlyRow(q) /\ plan \in [Reconcilers -> [Ops -> PlanSteps]]
    BY DEF Orderly, TypeOK
  <2>2. CASE plan'[s] = plan[s]
    BY <1>1, <2>1, <2>2 DEF OrderlyPass
  <2>3. CASE plan'[s] # plan[s]
    <3>1. plan'[s][q] # "no" =>
            /\ Pending(q) /\ row[q].stale
            /\ plan'[s][q] = IF row[q].applied THEN "seenApplied" ELSE "seenBare"
      BY <2>1, <2>3 DEF Scan, PassDies, NoPlan, StaleRows
    <3>2. Pending(q) => pc[q] # "idle"
      BY DEF Accounts, Fresh, Pending
    <3> QED BY <1>1, <2>1, <3>1, <3>2 DEF OrderlyPass, OrderlyRow
  <2> QED BY <2>2, <2>3
<1> QED
  BY <1>2, <1>3 DEF Orderly

\* What a pass does about a row of its batch.
LEMMA PassIsOrderly ==
  ASSUME TypeOK, Orderly, NEW r \in Reconcilers, NEW o \in Ops,
         Decide(r, o) \/ SkipRow(r, o) \/ MarkFound(r, o) \/ Resolve(r, o)
  PROVE  Orderly'
<1>0. row \in [Ops -> Rows] /\ plan \in [Reconcilers -> [Ops -> PlanSteps]]
  BY DEF TypeOK
<1>1. o \notin SlowOps => /\ OrderlyRow(o)
                          /\ \A s \in Reconcilers : OrderlyPass(s, o)
  BY DEF Orderly
<1>2. UNCHANGED <<pc, marker>> /\ plan[r][o] # "no"
  BY DEF Decide, SkipRow, MarkFound, Resolve, Deciding
<1>3. PICK step \in PlanSteps :
        /\ plan' = [plan EXCEPT ![r][o] = step]
        /\ step # "seenBare"
        /\ step = "mark" => o \notin Searches
        /\ step = "rollback" => /\ plan[r][o] = "seenBare"
                                /\ o \in Searches \/ marker[ProductOf[o]] # o
  <2>1. /\ {"no", "commit", "mark", "rollback"} \subseteq PlanSteps
        /\ "no" # "mark" /\ "no" # "rollback" /\ "no" # "seenBare"
    BY DEF PlanSteps, Deciding
  <2>2. CASE Decide(r, o)
    <3>1. CASE plan[r][o] = "seenApplied"
      BY <2>1, <2>2, <3>1 DEF Decide, PlanFor
    <3>2. CASE plan[r][o] = "seenBare" /\ o \in Searches
      BY <2>1, <2>2, <3>2 DEF Decide, PlanFor
    <3>3. CASE plan[r][o] = "seenBare" /\ o \notin Searches /\ marker[ProductOf[o]] = o
      BY <2>1, <2>2, <3>3 DEF Decide, PlanFor
    <3>4. CASE plan[r][o] = "seenBare" /\ o \notin Searches /\ marker[ProductOf[o]] # o
      BY <2>1, <2>2, <3>4 DEF Decide, PlanFor
    <3> QED BY <2>2, <3>1, <3>2, <3>3, <3>4 DEF Decide
  <2>3. CASE SkipRow(r, o) \/ Resolve(r, o)
    BY <2>1, <2>3 DEF SkipRow, Resolve, PlanFor
  <2>4. CASE MarkFound(r, o)
    <3>1. \E step \in {"no", "commit"} : plan' = [plan EXCEPT ![r][o] = step]
      BY <2>4 DEF MarkFound, PlanFor
    <3> QED BY <2>1, <3>1
  <2> QED BY <2>2, <2>3, <2>4
<1>4. /\ \A q \in Ops \ {o}, s \in Reconcilers : plan'[s][q] = plan[s][q]
      /\ \A s \in Reconcilers : plan'[s][o] = IF s = r THEN step ELSE plan[s][o]
  BY <1>0, <1>3
<1>5. ASSUME \A q \in Ops \ {o} : row'[q] = row[q],
             row'[o].own = row[o].own,
             o \notin SlowOps => OrderlyRow(o)'
      PROVE  Orderly'
  <2>1. About(o)
    BY <1>2, <1>4, <1>5 DEF About
  <2>2. ASSUME NEW s \in Reconcilers, o \notin SlowOps PROVE OrderlyPass(s, o)'
    <3>1. OrderlyPass(s, o) /\ OrderlyPass(r, o)
      BY <1>1, <2>2
    <3>2. CASE s = r
      BY <1>2, <1>3, <1>4, <1>5, <3>1, <3>2 DEF OrderlyPass
    <3>3. CASE s # r
      BY <1>2, <1>4, <1>5, <3>1, <3>3 DEF OrderlyPass
    <3> QED BY <3>2, <3>3
  <2> QED BY <1>5, <2>1, <2>2, OneIsOrderly
<1>6. CASE UNCHANGED row
  <2>1. o \notin SlowOps => OrderlyRow(o)'
    BY <1>1, <1>2, <1>6 DEF OrderlyRow
  <2> QED BY <1>5, <1>6, <2>1
<1>7. CASE MarkFound(r, o) /\ Pending(o)
  <2>1. row' = [row EXCEPT ![o] = [row[o] EXCEPT !.applied = TRUE, !.stale = FALSE,
                                     !.own = row[o].own \/ FALSE]]
    BY <1>7 DEF MarkFound, MarkRow
  <2>2. /\ row'[o].status = "PENDING" /\ row'[o].own = row[o].own
        /\ row'[o].applied /\ ~row'[o].stale
        /\ \A q \in Ops \ {o} : row'[q] = row[q]
    BY <1>0, <1>7, <2>1 DEF Rows, Pending
  <2>3. plan[r][o] = "mark"
    BY <1>7 DEF MarkFound
  <2>4. o \notin SlowOps => OrderlyRow(o)'
    BY <1>1, <1>2, <2>2, <2>3 DEF OrderlyRow, OrderlyPass, Working
  <2> QED BY <1>5, <2>2, <2>4
<1>8. CASE Resolve(r, o) /\ plan[r][o] = "commit" /\ Pending(o)
  <2>1. row' = [row EXCEPT ![o] = [row[o] EXCEPT !.status = "COMMITTED",
                                     !.applied = TRUE, !.stale = FALSE]]
    BY <1>8 DEF Resolve, CommitRow
  <2>2. /\ row'[o].status = "COMMITTED" /\ row'[o].own = row[o].own
        /\ row'[o].applied /\ ~row'[o].stale
        /\ \A q \in Ops \ {o} : row'[q] = row[q]
    BY <1>0, <2>1 DEF Rows
  <2>3. o \notin SlowOps => OrderlyRow(o)'
    BY <1>1, <1>2, <2>2 DEF OrderlyRow, OrderlyPass, Working
  <2> QED BY <1>5, <2>2, <2>3
<1>9. CASE Resolve(r, o) /\ plan[r][o] = "rollback" /\ Pending(o)
  <2>1. row' = [row EXCEPT ![o] = [row[o] EXCEPT !.status = "ROLLED_BACK", !.stale = FALSE]]
    BY <1>9 DEF Resolve, RollbackRow
  <2>2. /\ row'[o].status = "ROLLED_BACK" /\ row'[o].own = row[o].own
        /\ row'[o].applied = row[o].applied /\ ~row'[o].stale
        /\ \A q \in Ops \ {o} : row'[q] = row[q]
    BY <1>0, <2>1 DEF Rows
  <2>3. o \notin SlowOps => /\ ~row[o].own
                            /\ o \in Searches => ~row[o].applied
                            /\ o \in Searches \/ marker[ProductOf[o]] # o
    BY <1>1, <1>9 DEF OrderlyRow, OrderlyPass, Pending
  <2>4. o \notin SlowOps => OrderlyRow(o)'
    BY <1>1, <1>2, <2>2, <2>3 DEF OrderlyRow
  <2> QED BY <1>5, <2>2, <2>4
<1> QED
  BY <1>6, <1>7, <1>8, <1>9
     DEF Decide, SkipRow, MarkFound, Resolve, MarkRow, CommitRow, RollbackRow

\* A deleted vector carries nobody's marker.
LEMMA DeletionIsOrderly ==
  ASSUME TypeOK, Orderly, NEW p \in Products, DeleteVector(p)
  PROVE  Orderly'
<1>1. UNCHANGED <<row, pc, plan>> /\ marker' = [marker EXCEPT ![p] = None]
  BY DEF DeleteVector
<1>2. \A q \in Ops \ Searches : marker'[ProductOf[q]] = q => marker[ProductOf[q]] = q
  <2>1. /\ \A q \in Ops \ Searches : ProductOf[q] \in Products
        /\ None \notin Ops
    BY UsageAssumption
  <2> QED BY <1>1, <2>1 DEF TypeOK
<1>3. ASSUME NEW q \in Ops \ SlowOps
      PROVE  OrderlyRow(q)' /\ \A r \in Reconcilers : OrderlyPass(r, q)'
  <2>1. OrderlyRow(q) /\ \A r \in Reconcilers : OrderlyPass(r, q)
    BY DEF Orderly
  <2> QED BY <1>1, <1>2, <2>1 DEF OrderlyRow, OrderlyPass
<1> QED
  BY <1>3 DEF Orderly

\* A unit is not refunded once the operation itself recorded its effect, nor once
\* a pass did while the vector carries the operation's marker.
THEOREM AppliedNotRefunded == Spec => []AppliedIsCharged
<1>1. Init => Orderly
  BY DEF Init, Orderly, OrderlyRow, OrderlyPass, NoRow, NoPlan
<1>2. ASSUME TypeOK, Accounts, Orderly, [Next]_vars PROVE Orderly'
  <2>1. CASE UNCHANGED vars
    BY <1>2, <2>1 DEF vars, Orderly, OrderlyRow, OrderlyPass
  <2> QED
    BY <1>2, <2>1, WorkIsOrderly, RowsStayOrderly, BatchIsOrderly, PassIsOrderly,
       DeletionIsOrderly DEF Next, Reconciliation
<1>3. Orderly => AppliedIsCharged
  <2> SUFFICES ASSUME Orderly, NEW o \in Ops \ SlowOps
               PROVE  row[o].applied
                        /\ (row[o].own \/ o \in Searches \/ marker[ProductOf[o]] = o)
                        => row[o].status # "ROLLED_BACK"
    BY DEF AppliedIsCharged
  <2>1. OrderlyRow(o)
    BY DEF Orderly
  <2> QED BY <2>1 DEF OrderlyRow
<1> QED BY <1>1, <1>2, <1>3, TypeCorrect, AccountsHold, PTL DEF Spec

-------------------------------------------------------------------------------
(* The ledger *)

\* A step that changes no standing and none of the ledger's counters.
LEMMA NothingDecided ==
  ASSUME UNCHANGED events,
         \A k \in Kinds : usage'[CounterOf(k)] = usage[CounterOf(k)],
         \A q \in Ops : Pending(q)' = Pending(q) /\ (pc'[q] = "idle" <=> pc[q] = "idle")
  PROVE  UNCHANGED Ledger!vars
<1>1. \A q \in Ops : Standing(q)' = Standing(q)
  BY DEF Standing
<1> QED
  BY <1>1 DEF Ledger!vars

\* A step that changes one standing.
LEMMA OneDecided ==
  ASSUME NEW o \in Ops, NEW from, NEW to,
         Standing(o) = from, Standing(o)' = to,
         \A q \in Ops \ {o} : Standing(q)' = Standing(q)
  PROVE  Ledger!Settles(o, from, to)
BY DEF Ledger!Settles

\* Each kind has a counter of its own.
LEMMA CountersDiffer ==
  ASSUME NEW o \in Ops
  PROVE  /\ KindOf[o] \in Kinds
         /\ \A k \in Kinds : /\ CounterOf(k) \in Counters
                             /\ CounterOf(k) = CounterOf(KindOf[o]) <=> k = KindOf[o]
<1>1. KindOf[o] \in Kinds
  BY UsageAssumption
<1> QED
  BY <1>1 DEF CounterOf, Kinds, Counters

\* The counter of an operation's kind.
LEMMA KindCounters ==
  ASSUME NEW o \in Ops
  PROVE  /\ o \in Searches => CounterOf(KindOf[o]) = "search"
         /\ o \in Updates => CounterOf(KindOf[o]) = "vectorUpdate"
         /\ o \in Indexings => CounterOf(KindOf[o]) = "productIndex"
BY DEF Searches, Updates, Indexings, CounterOf

LEMMA ReserveDecides ==
  ASSUME TypeOK, Accounts, NEW o \in Ops, Reserve(o)
  PROVE  Ledger!Hold(o) \/ Ledger!Refuse(o)
<1>1. /\ pc \in [Ops -> PcStates] /\ row \in [Ops -> Rows] /\ usage \in [Counters -> Nat]
      /\ pc[o] = "idle" /\ row[o].status = "NONE" /\ events[o] = 0 /\ UNCHANGED events
  BY DEF Reserve, TypeOK, Accounts, Fresh
<1>2. Standing(o) = "free"
  BY <1>1 DEF Standing, Pending
<1>3. PICK limit \in Limits :
        IF Admits(o, limit)
          THEN /\ usage' = Taken(o)
               /\ row' = [row EXCEPT ![o] = NewRow]
               /\ pc' = [pc EXCEPT ![o] = "working"]
          ELSE /\ usage' = Add("blocked")
               /\ pc' = [pc EXCEPT ![o] = "refused"]
               /\ UNCHANGED row
  BY DEF Reserve, Goto
<1>4. \A q \in Ops \ {o} : Standing(q)' = Standing(q)
  BY <1>1, <1>3 DEF Standing, Pending
<1>5. CASE Admits(o, limit)
  <2>1. Standing(o)' = "held"
    BY <1>1, <1>3, <1>5 DEF Standing, Pending, NewRow, NoRow
  <2>2. Ledger!Settles(o, "free", "held")
    BY <1>2, <1>4, <2>1, OneDecided
  <2>3. CASE o \in Indexings
    <3>1. UNCHANGED usage
      BY <1>3, <1>5, <2>3, KindsPartition DEF Taken
    <3> QED
      BY <2>2, <2>3, <3>1, KindsPartition DEF Ledger!Hold
  <2>4. CASE o \in Searches \union Updates
    <3>1. usage' = [usage EXCEPT ![CounterOf(KindOf[o])] = usage[CounterOf(KindOf[o])] + 1]
      BY <1>3, <1>5, <2>4, KindsPartition, KindCounters DEF Taken, Add
    <3>2. limit = Unlimited \/ usage[CounterOf(KindOf[o])] < limit
      BY <1>5, <2>4, KindsPartition, KindCounters DEF Admits
    <3>3. Ledger!Below(o)
      BY <3>2, UsageAssumption DEF Ledger!Below
    <3>4. Ledger!Counts(o, 1)
      BY <1>1, <3>1, CountersDiffer DEF Ledger!Counts
    <3> QED
      BY <2>2, <2>4, <3>3, <3>4 DEF Ledger!Hold
  <2> QED
    BY <2>3, <2>4, KindsPartition
<1>6. CASE ~Admits(o, limit)
  <2>1. Standing(o)' = "over"
    BY <1>1, <1>3, <1>6 DEF Standing, Pending
  <2>2. \A k \in Kinds : usage'[CounterOf(k)] = usage[CounterOf(k)]
    BY <1>1, <1>3, <1>6 DEF Add, CounterOf, Kinds, Counters
  <2>3. UNCHANGED [k \in Kinds |-> usage[CounterOf(k)]]
    BY <2>2
  <2> QED
    BY <1>2, <1>4, <2>1, <2>3, OneDecided DEF Ledger!Refuse
<1> QED
  BY <1>5, <1>6

LEMMA CommitDecides ==
  ASSUME TypeOK, Accounts, NEW o \in Ops, Pending(o), CommitRow(o),
         \A q \in Ops \ {o} : pc'[q] = "idle" <=> pc[q] = "idle"
  PROVE  Ledger!Charge(o)
<1>1. /\ row \in [Ops -> Rows] /\ events \in [Ops -> Nat] /\ usage \in [Counters -> Nat]
      /\ events[o] = 0
  BY DEF TypeOK, Accounts, ChargedOnce, Pending
<1>2. /\ row' = [row EXCEPT ![o] =
                   [row[o] EXCEPT !.status = "COMMITTED", !.applied = TRUE, !.stale = FALSE]]
      /\ events' = [events EXCEPT ![o] = @ + 1]
      /\ usage' = IF o \in Indexings THEN Add("productIndex") ELSE usage
  BY DEF CommitRow
<1>3. Standing(o) = "held" /\ Standing(o)' = "charged"
  BY <1>1, <1>2 DEF Standing, Pending
<1>4. \A q \in Ops \ {o} : Standing(q)' = Standing(q)
  BY <1>1, <1>2 DEF Standing, Pending
<1>5. Ledger!Settles(o, "held", "charged")
  BY <1>3, <1>4, OneDecided
<1>6. CASE o \in Indexings
  <2>1. usage' = [usage EXCEPT ![CounterOf(KindOf[o])] = usage[CounterOf(KindOf[o])] + 1]
    BY <1>2, <1>6, KindCounters DEF Add
  <2>2. Ledger!Counts(o, 1)
    BY <1>1, <2>1, CountersDiffer DEF Ledger!Counts
  <2> QED
    BY <1>5, <1>6, <2>2, KindsPartition DEF Ledger!Charge
<1>7. CASE o \notin Indexings
  BY <1>2, <1>5, <1>7, KindsPartition DEF Ledger!Charge
<1> QED
  BY <1>6, <1>7

LEMMA RollbackDecides ==
  ASSUME TypeOK, Accounts, NEW o \in Ops, Pending(o), RollbackRow(o),
         \A q \in Ops : pc'[q] = "idle" <=> pc[q] = "idle"
  PROVE  Ledger!Release(o)
<1>1. /\ row \in [Ops -> Rows] /\ usage \in [Counters -> Nat]
      /\ events[o] = 0 /\ pc[o] # "idle"
  BY DEF TypeOK, Accounts, ChargedOnce, Fresh, Pending
<1>2. /\ row' = [row EXCEPT ![o] =
                   [row[o] EXCEPT !.status = "ROLLED_BACK", !.stale = FALSE]]
      /\ usage' = GivenBack(o)
      /\ UNCHANGED events
  BY DEF RollbackRow
<1>3. row'[o].status = "ROLLED_BACK" /\ \A q \in Ops \ {o} : row'[q] = row[q]
  BY <1>1, <1>2 DEF Rows
<1>4. Standing(o) = "held" /\ Standing(o)' = "over"
  BY <1>1, <1>2, <1>3 DEF Standing, Pending
<1>5. \A q \in Ops \ {o} : Standing(q)' = Standing(q)
  BY <1>2, <1>3 DEF Standing, Pending
<1>6. Ledger!Settles(o, "held", "over")
  BY <1>4, <1>5, OneDecided
<1>7. CASE o \in Indexings
  BY <1>2, <1>6, <1>7, KindsPartition DEF GivenBack, Ledger!Release
<1>8. CASE o \in Searches \union Updates
  \* Its unit is still counted: the clamp at zero is not taken.
  <2>1. \A S \in {Searches, Updates} : o \in S => Cardinality(Charged(S)) > 0
    <3> SUFFICES ASSUME NEW S \in {Searches, Updates}, o \in S
                 PROVE  Cardinality(Charged(S)) > 0
      OBVIOUS
    <3>1. o \in Charged(S) /\ S \in SUBSET Ops
      BY KindsAreOps DEF Charged
    <3> QED
      BY <3>1, AccountSetsFinite, FS_EmptySet
  <2>2. usage[CounterOf(KindOf[o])] > 0
    BY <1>8, <2>1, KindCounters DEF Accounts, CountersExact
  <2>3. usage' = [usage EXCEPT ![CounterOf(KindOf[o])] = Lowered(@)]
    BY <1>2, <1>8, KindsPartition, KindCounters DEF GivenBack
  <2>4. usage' = [usage EXCEPT ![CounterOf(KindOf[o])] = usage[CounterOf(KindOf[o])] + (-1)]
    <3>1. CounterOf(KindOf[o]) \in Counters
      BY <1>8, KindCounters DEF Counters
    <3> QED
      BY <1>1, <2>2, <2>3, <3>1 DEF Lowered
  <2>5. Ledger!Counts(o, (-1))
    BY <1>1, <2>4, CountersDiffer DEF Ledger!Counts
  <2> QED
    BY <1>6, <1>8, <2>5 DEF Ledger!Release
<1> QED
  BY <1>7, <1>8, KindsPartition

\* A commit or a rollback, by the operation or by a pass that is late, decides a
\* reservation that is held, and does nothing to another.
LEMMA StatementDecides ==
  ASSUME TypeOK, Accounts, NEW o \in Ops, CommitRow(o) \/ RollbackRow(o),
         \A q \in Ops : pc'[q] = "idle" <=> pc[q] = "idle"
  PROVE  Ledger!Charge(o) \/ Ledger!Release(o) \/ UNCHANGED Ledger!vars
<1>1. CASE Pending(o)
  BY <1>1, CommitDecides, RollbackDecides
<1>2. CASE ~Pending(o)
  <2>1. UNCHANGED <<row, events, usage>>
    BY <1>2 DEF CommitRow, RollbackRow
  <2> QED
    BY <2>1, NothingDecided DEF Pending
<1> QED
  BY <1>1, <1>2

LEMMA LedgerStep == ASSUME TypeOK, Accounts, [Next]_vars PROVE [Ledger!Next]_(Ledger!vars)
<1>1. /\ pc \in [Ops -> PcStates] /\ row \in [Ops -> Rows] /\ usage \in [Counters -> Nat]
      /\ \A o \in Ops : Pending(o) => pc[o] # "idle"
  BY DEF TypeOK, Accounts, Fresh, Pending
<1>2. ASSUME NEW o \in Ops, Reserve(o) PROVE [Ledger!Next]_(Ledger!vars)
  BY <1>2, ReserveDecides DEF Ledger!Next
<1>3. ASSUME NEW o \in Ops, Consume(o) PROVE UNCHANGED Ledger!vars
  <2>1. /\ usage' = Add("embedding") /\ UNCHANGED <<events, pc>>
        /\ row' = [row EXCEPT ![o].stale = FALSE]
    BY <1>3 DEF Consume
  <2>2. \A k \in Kinds : usage'[CounterOf(k)] = usage[CounterOf(k)]
    BY <1>1, <2>1 DEF Add, CounterOf, Kinds, Counters
  <2>3. \A q \in Ops : Pending(q)' = Pending(q)
    BY <1>1, <2>1 DEF Pending, Rows
  <2> QED
    BY <2>1, <2>2, <2>3, NothingDecided
<1>4. ASSUME NEW o \in Ops, NEW own \in BOOLEAN, MarkRow(o, own) PROVE \A q \in Ops : Pending(q)' = Pending(q)
  BY <1>1, <1>4 DEF MarkRow, Pending, Rows
<1>5. ASSUME NEW o \in Ops,
             Respond(o) \/ WriteVector(o) \/ WorkFails(o) \/ CallFails(o) \/ Crash(o)
      PROVE  UNCHANGED Ledger!vars
  <2>1. \A q \in Ops : pc'[q] = "idle" <=> pc[q] = "idle"
    BY <1>1, <1>5 DEF Respond, WriteVector, WorkFails, CallFails, Crash, Goto, Working
  <2>2. UNCHANGED <<usage, row, events>>
    BY <1>5 DEF Respond, WriteVector, WorkFails, CallFails, Crash
  <2> QED
    BY <2>1, <2>2, NothingDecided DEF Pending
<1>6. ASSUME NEW o \in Ops, Mark(o) PROVE UNCHANGED Ledger!vars
  <2>1. \A q \in Ops : pc'[q] = "idle" <=> pc[q] = "idle"
    BY <1>1, <1>6 DEF Mark, Goto
  <2> QED
    BY <1>4, <1>6, <2>1, NothingDecided DEF Mark
<1>7. ASSUME NEW o \in Ops, Commit(o) \/ Rollback(o) PROVE [Ledger!Next]_(Ledger!vars)
  <2>1. \A q \in Ops : pc'[q] = "idle" <=> pc[q] = "idle"
    BY <1>1, <1>7 DEF Commit, Rollback, Goto
  <2>2. CommitRow(o) \/ RollbackRow(o)
    BY <1>7 DEF Commit, Rollback
  <2> QED
    BY <2>1, <2>2, StatementDecides DEF Ledger!Next
<1>8. ASSUME NEW o \in Ops, GrowStale(o) \/ DeleteResolved(o) PROVE UNCHANGED Ledger!vars
  <2>1. UNCHANGED <<usage, events, pc>>
    BY <1>8 DEF GrowStale, DeleteResolved
  <2>2. CASE GrowStale(o)
    <3>1. \A q \in Ops : Pending(q)' = Pending(q)
      BY <1>1, <2>2 DEF GrowStale, Pending, Rows
    <3> QED
      BY <2>1, <3>1, NothingDecided
  <2>3. CASE DeleteResolved(o)
    <3>1. \A q \in Ops : Pending(q)' = Pending(q)
      BY <1>1, <2>3 DEF DeleteResolved, Pending, Resolved, NoRow
    <3> QED
      BY <2>1, <3>1, NothingDecided
  <2> QED
    BY <1>8, <2>2, <2>3
<1>9. ASSUME NEW r \in Reconcilers, NEW o \in Ops, MarkFound(r, o)
      PROVE  UNCHANGED Ledger!vars
  BY <1>4, <1>9, NothingDecided DEF MarkFound
<1>10. ASSUME NEW r \in Reconcilers, NEW o \in Ops, Resolve(r, o)
       PROVE  [Ledger!Next]_(Ledger!vars)
  <2>1. CommitRow(o) \/ RollbackRow(o)
    BY <1>10 DEF Resolve
  <2>2. UNCHANGED pc
    BY <1>10 DEF Resolve
  <2> QED
    BY <2>1, <2>2, StatementDecides DEF Ledger!Next
<1>11. ASSUME UNCHANGED <<usage, row, events, pc>> PROVE UNCHANGED Ledger!vars
  BY <1>11, NothingDecided DEF Pending
<1>12. ASSUME NEW r \in Reconcilers, Reconciliation(r) PROVE [Ledger!Next]_(Ledger!vars)
  BY <1>9, <1>10, <1>11, <1>12 DEF Reconciliation, Scan, PassDies, Decide, SkipRow
<1>13. ASSUME NEW o \in Ops, Operation(o) PROVE [Ledger!Next]_(Ledger!vars)
  BY <1>2, <1>3, <1>5, <1>6, <1>7, <1>13 DEF Operation
<1>14. ASSUME NEW p \in Products, DeleteVector(p) PROVE UNCHANGED Ledger!vars
  BY <1>11, <1>14 DEF DeleteVector
<1>15. CASE UNCHANGED vars
  BY <1>11, <1>15 DEF vars
<1> QED
  BY <1>8, <1>12, <1>13, <1>14, <1>15 DEF Next

\* The rows, their retries, time limits and housekeeping implement a ledger in
\* which every reservation is decided once, and which alone moves the counters.
THEOREM ReservationsImplementLedger == Spec => ImplementsLedger
<1>1. Init => Ledger!Init
  <2> SUFFICES ASSUME Init PROVE Ledger!Init
    OBVIOUS
  <2>1. \A o \in Ops : Standing(o) = "free"
    BY DEF Init, Standing, Pending, NoRow
  <2>2. \A k \in Kinds : usage[CounterOf(k)] = 0
    BY DEF Init, CounterOf, Kinds, Counters
  <2> QED
    BY <2>1, <2>2 DEF Ledger!Init
<1>2. TypeOK /\ Accounts /\ [Next]_vars => [Ledger!Next]_(Ledger!vars)
  BY LedgerStep
<1> QED
  BY <1>1, <1>2, TypeCorrect, AccountsHold, PTL DEF Spec, ImplementsLedger, Ledger!Spec
===============================================================================
