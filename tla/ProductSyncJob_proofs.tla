------------------------- MODULE ProductSyncJob_proofs -------------------------
(***************************************************************************)
(* Proofs about ProductSyncJob, for any number of webhooks, jobs, workers, *)
(* attempts and edits: its types; that a job which is done stays done,     *)
(* also when live workers lose their leases; and, while leases are lost by *)
(* dead workers only, that the index advances and no edit is lost.         *)
(***************************************************************************)
EXTENDS ProductSyncJob, TLAPS

-------------------------------------------------------------------------------
(* What the helpers do *)

LEMMA RowTyped ==
  ASSUME NEW r \in Rows
  PROVE  /\ r.status \in Statuses \union {"NONE"}
         /\ r.attempts \in 0 .. MaxAttempts
         /\ r.stale \in BOOLEAN
BY DEF Rows

LEMMA StatusTyped ==
  ASSUME NEW r \in Rows, NEW s \in Statuses
  PROVE  [r EXCEPT !.status = s, !.stale = FALSE] \in Rows
BY DEF Rows

LEMMA StaleTyped ==
  ASSUME NEW r \in Rows, NEW b \in BOOLEAN
  PROVE  [r EXCEPT !.stale = b] \in Rows
BY DEF Rows

LEMMA FieldsKept ==
  ASSUME NEW r \in Rows, NEW s \in Statuses
  PROVE  /\ [r EXCEPT !.status = s, !.stale = FALSE].status = s
         /\ [r EXCEPT !.status = s, !.stale = FALSE].attempts = r.attempts
         /\ r.attempts >= r.attempts
BY DEF Rows

LEMMA RenewalKeepsFields ==
  ASSUME NEW r \in Rows
  PROVE  /\ [r EXCEPT !.stale = FALSE].status = r.status
         /\ [r EXCEPT !.stale = FALSE].attempts = r.attempts
         /\ r.attempts >= r.attempts
BY DEF Rows

LEMMA NewRowTyped ==
  /\ NoRow \in Rows
  /\ [NoRow EXCEPT !.status = "PENDING"] \in Rows
<1>1. 0 \in 0 .. MaxAttempts
  BY JobAssumption
<1>2. NoRow \in Rows
  BY <1>1 DEF NoRow, Rows, Statuses
<1>3. ASSUME NEW r \in Rows
      PROVE  [r EXCEPT !.status = "PENDING"] \in Rows
  BY DEF Rows, Statuses
<1> QED
  BY <1>2, <1>3

LEMMA ClaimedTyped ==
  ASSUME NEW r \in Rows, r.attempts < MaxAttempts
  PROVE  [status |-> "PROCESSING", stale |-> FALSE, attempts |-> r.attempts + 1]
           \in Rows
BY JobAssumption DEF Rows, Statuses

\* A written row has its type, and the snapshots of it are outdated.
LEMMA WriteTyped ==
  ASSUME TypeOK, NEW j \in Hooks, NEW r \in Rows, Write(j, r)
  PROVE  /\ row' \in [Hooks -> Rows]
         /\ fresh' \subseteq Workers
BY DEF TypeOK, Write

LEMMA GotoTyped ==
  ASSUME TypeOK, NEW w \in Workers, NEW step \in WorkerSteps, Goto(w, step)
  PROVE  /\ pc' \in [Workers -> WorkerSteps]
         /\ job' \in [Workers -> Hooks \union {None}]
         /\ attempt' \in [Workers -> 0 .. MaxAttempts]
         /\ got' \in [Workers -> Versions]
<1>1. Gone \in Versions /\ 0 \in 0 .. MaxAttempts
  BY JobAssumption DEF Versions
<1>2. pc' \in [Workers -> WorkerSteps]
  BY DEF TypeOK, Goto
<1>3. job' \in [Workers -> Hooks \union {None}]
  BY DEF TypeOK, Goto
<1>4. attempt' \in [Workers -> 0 .. MaxAttempts]
  BY <1>1 DEF TypeOK, Goto
<1>5. got' \in [Workers -> Versions]
  BY <1>1 DEF TypeOK, Goto
<1> QED
  BY <1>2, <1>3, <1>4, <1>5

LEMMA FinishTyped ==
  ASSUME TypeOK, NEW w \in Workers, job[w] \in Hooks, NEW s \in Statuses, Finish(w, s)
  PROVE  /\ row' \in [Hooks -> Rows]
         /\ fresh' \subseteq Workers
<1>1. row[job[w]] \in Rows
  BY DEF TypeOK
<1>2. [row[job[w]] EXCEPT !.status = s, !.stale = FALSE] \in Rows
  BY <1>1, StatusTyped
<1>3. CASE IsCurrent(job[w], attempt[w])
  BY <1>2, <1>3, WriteTyped DEF Finish
<1>4. CASE ~IsCurrent(job[w], attempt[w])
  BY <1>4 DEF Finish, TypeOK
<1> QED
  BY <1>3, <1>4

-------------------------------------------------------------------------------
(* Types *)

\* A worker that is not idle has a job, and a claim that will succeed finds the
\* row as it was selected.
Tied ==
  /\ \A w \in Workers : pc[w] # "idle" => job[w] \in Hooks
  /\ \A w \in Workers :
       pc[w] = "claim" /\ w \in fresh => Claimable(row[job[w]])

\* Tied, from what a step does to the worker that takes it and to the others.
LEMMA TiedKept ==
  ASSUME Tied,
         \A w \in Workers : pc'[w] # "idle" => job'[w] \in Hooks,
         \A w \in Workers :
           pc'[w] = "claim" /\ w \in fresh' =>
             /\ pc[w] = "claim" /\ w \in fresh
             /\ job'[w] = job[w]
             /\ row'[job[w]] = row[job[w]]
  PROVE  Tied'
BY DEF Tied, Claimable

\* A step of w that leaves the rows alone.
LEMMA GotoTied ==
  ASSUME TypeOK, Tied, NEW w \in Workers, NEW step \in WorkerSteps \ {"claim"},
         pc[w] # "idle" \/ step = "idle",
         Goto(w, step), UNCHANGED row, fresh' \subseteq fresh
  PROVE  Tied'
<1>1. ASSUME NEW v \in Workers, pc'[v] # "idle"
      PROVE  job'[v] \in Hooks
  BY <1>1 DEF TypeOK, Tied, Goto
<1>2. ASSUME NEW v \in Workers, pc'[v] = "claim", v \in fresh'
      PROVE  pc[v] = "claim" /\ v \in fresh /\ job'[v] = job[v]
  BY <1>2 DEF TypeOK, Goto
<1> QED
  BY <1>1, <1>2, TiedKept

\* A step that writes row j, of a worker or of nobody.
LEMMA WriteTied ==
  ASSUME TypeOK, Tied, NEW j \in Hooks, NEW r \in Rows, Write(j, r),
         \/ UNCHANGED <<pc, job>>
         \/ \E w \in Workers, step \in WorkerSteps \ {"claim"} :
              pc[w] # "idle" /\ Goto(w, step)
  PROVE  Tied'
<1>1. ASSUME NEW v \in Workers, pc'[v] # "idle"
      PROVE  job'[v] \in Hooks
  BY <1>1 DEF TypeOK, Tied, Goto
<1>2. ASSUME NEW v \in Workers, pc'[v] = "claim", v \in fresh'
      PROVE  /\ pc[v] = "claim" /\ v \in fresh
             /\ job'[v] = job[v]
             /\ row'[job[v]] = row[job[v]]
  <2>1. v \in fresh /\ job[v] # j
    BY <1>2 DEF Write
  <2>2. pc[v] = "claim" /\ job'[v] = job[v]
    BY <1>2 DEF TypeOK, Goto
  <2>3. job[v] \in Hooks
    BY <2>2 DEF Tied
  <2> QED
    BY <2>1, <2>2, <2>3 DEF Write, TypeOK
<1> QED
  BY <1>1, <1>2, TiedKept

LEMMA FinishTied ==
  ASSUME TypeOK, Tied, NEW w \in Workers, pc[w] # "idle",
         NEW s \in Statuses, Finish(w, s),
         NEW step \in WorkerSteps \ {"claim"}, Goto(w, step)
  PROVE  Tied'
<1>1. job[w] \in Hooks /\ row[job[w]] \in Rows
  BY DEF Tied, TypeOK
<1>2. CASE IsCurrent(job[w], attempt[w])
  <2>1. [row[job[w]] EXCEPT !.status = s, !.stale = FALSE] \in Rows
    BY <1>1, StatusTyped
  <2> QED
    BY <1>1, <1>2, <2>1, WriteTied DEF Finish
<1>3. CASE ~IsCurrent(job[w], attempt[w])
  BY <1>3, GotoTied DEF Finish
<1> QED
  BY <1>2, <1>3

LEMMA TypesHold == TypeOK /\ Tied /\ [Next]_vars => TypeOK' /\ Tied'
<1> SUFFICES ASSUME TypeOK, Tied, [Next]_vars
             PROVE  TypeOK' /\ Tied'
  OBVIOUS
<1>0. CASE UNCHANGED vars
  BY <1>0 DEF vars, source, worker, TypeOK, Tied, Claimable
<1>1. ASSUME NEW h \in Hooks, Edit(h)
      PROVE  TypeOK' /\ Tied'
  <2>1. shopify' \in Versions
    BY <1>1, JobAssumption DEF Edit, TypeOK, Versions
  <2>2. topic' \in [Hooks -> {"UPDATE", "DELETE"}]
    BY <1>1 DEF Edit, TypeOK
  <2>3. hook' \in [Hooks -> {"unused", "sent", "creating", "answered"}]
    BY <1>1 DEF Edit, TypeOK
  <2> QED
    BY <1>1, <2>1, <2>2, <2>3 DEF Edit, worker, TypeOK, Tied, Claimable
<1>2. ASSUME NEW h \in Hooks, FindPending(h) \/ Redeliver(h)
      PROVE  TypeOK' /\ Tied'
  <2>1. hook' \in [Hooks -> {"unused", "sent", "creating", "answered"}]
    BY <1>2 DEF FindPending, Redeliver, TypeOK
  <2> QED
    BY <1>2, <2>1 DEF FindPending, Redeliver, worker, TypeOK, Tied, Claimable
<1>3. ASSUME NEW h \in Hooks, CreateJob(h)
      PROVE  TypeOK' /\ Tied'
  <2>1. hook' \in [Hooks -> {"unused", "sent", "creating", "answered"}]
    BY <1>3 DEF CreateJob, TypeOK
  <2>2. row' \in [Hooks -> Rows] /\ fresh' \subseteq Workers
    BY <1>3, NewRowTyped, WriteTyped DEF CreateJob, TypeOK
  <2>3. Tied'
    <3>1. CASE row[h].status = "NONE"
      BY <1>3, <3>1, NewRowTyped, WriteTied DEF CreateJob, worker
    <3>2. CASE row[h].status # "NONE"
      BY <1>3, <3>2 DEF CreateJob, worker, Tied, Claimable
    <3> QED
      BY <3>1, <3>2
  <2> QED
    BY <1>3, <2>1, <2>2, <2>3 DEF CreateJob, worker, TypeOK
<1>4. ASSUME NEW w \in Workers, NEW j \in Hooks, Select(w, j)
      PROVE  TypeOK' /\ Tied'
  <2>1. pc' \in [Workers -> WorkerSteps]
    BY <1>4 DEF Select, TypeOK, WorkerSteps
  <2>2. job' \in [Workers -> Hooks \union {None}] /\ fresh' \subseteq Workers
    BY <1>4 DEF Select, TypeOK
  <2>3. Tied'
    BY <1>4 DEF Select, TypeOK, Tied, Claimable
  <2> QED
    BY <1>4, <2>1, <2>2, <2>3 DEF Select, source, TypeOK
<1>5. ASSUME NEW w \in Workers, Claim(w)
      PROVE  TypeOK' /\ Tied'
  <2>1. job[w] \in Hooks /\ row[job[w]] \in Rows
    BY <1>5 DEF Claim, Tied, TypeOK
  <2>2. CASE w \in fresh
    <3>1. row[job[w]].attempts < MaxAttempts
      BY <1>5, <2>2 DEF Claim, Tied, Claimable
    <3> DEFINE r == [status |-> "PROCESSING", stale |-> FALSE,
                     attempts |-> row[job[w]].attempts + 1]
    <3>2. r \in Rows
      BY <2>1, <3>1, ClaimedTyped
    <3>3. Write(job[w], r) /\ Goto(w, "reread")
      BY <1>5, <2>2 DEF Claim
    <3> HIDE DEF r
    <3>4. row' \in [Hooks -> Rows] /\ fresh' \subseteq Workers
      BY <2>1, <3>2, <3>3, WriteTyped
    <3>5. "reread" \in WorkerSteps \ {"claim"} /\ pc[w] # "idle"
      BY <1>5 DEF Claim, WorkerSteps
    <3>6. Tied'
      BY <2>1, <3>2, <3>3, <3>5, WriteTied
    <3> QED
      BY <1>5, <3>3, <3>4, <3>5, <3>6, GotoTyped DEF Claim, source, TypeOK
  <2>3. CASE w \notin fresh
    <3>1. Goto(w, "idle") /\ "idle" \in WorkerSteps \ {"claim"}
      BY <1>5, <2>3 DEF Claim, WorkerSteps
    <3>2. Tied'
      BY <1>5, <2>3, <3>1, GotoTied DEF Claim
    <3> QED
      BY <1>5, <2>3, <3>1, <3>2, GotoTyped DEF Claim, source, TypeOK
  <2> QED
    BY <2>2, <2>3
<1>6. ASSUME NEW w \in Workers, Reread(w)
      PROVE  TypeOK' /\ Tied'
  <2>1. job[w] \in Hooks /\ row[job[w]].attempts \in 0 .. MaxAttempts
    BY <1>6, RowTyped DEF Reread, Tied, TypeOK
  <2>2. CASE row[job[w]].status = "DONE"
    <3>1. Goto(w, "idle") /\ "idle" \in WorkerSteps \ {"claim"}
      BY <1>6, <2>2 DEF Reread, WorkerSteps
    <3>2. Tied'
      BY <1>6, <3>1, GotoTied DEF Reread
    <3> QED
      BY <1>6, <3>1, <3>2, GotoTyped DEF Reread, source, TypeOK
  <2>3. CASE row[job[w]].status # "DONE"
    <3>1. pc' \in [Workers -> WorkerSteps]
      BY <1>6, <2>3 DEF Reread, TypeOK, WorkerSteps
    <3>2. attempt' \in [Workers -> 0 .. MaxAttempts]
      BY <1>6, <2>1, <2>3 DEF Reread, TypeOK
    <3>3. Tied'
      BY <1>6, <2>3 DEF Reread, TypeOK, Tied, Claimable
    <3> QED
      BY <1>6, <2>3, <3>1, <3>2, <3>3 DEF Reread, source, TypeOK
  <2> QED
    BY <2>2, <2>3
<1>7. ASSUME NEW w \in Workers, TerminalizeExhausted(w)
      PROVE  TypeOK' /\ Tied'
  <2>1. PICK j \in Hooks : Write(j, [row[j] EXCEPT !.status = "FAILED", !.stale = FALSE])
    BY <1>7 DEF TerminalizeExhausted
  <2>2. [row[j] EXCEPT !.status = "FAILED", !.stale = FALSE] \in Rows
    BY StatusTyped DEF TypeOK, Statuses
  <2>3. row' \in [Hooks -> Rows] /\ fresh' \subseteq Workers
    BY <2>1, <2>2, WriteTyped
  <2>4. Tied'
    BY <1>7, <2>1, <2>2, WriteTied DEF TerminalizeExhausted, worker
  <2> QED
    BY <1>7, <2>3, <2>4 DEF TerminalizeExhausted, source, worker, TypeOK
\* The steps of a run that write no row.
<1>8. ASSUME NEW w \in Workers, NEW step \in WorkerSteps \ {"claim"}, pc[w] # "idle",
             Goto(w, step), UNCHANGED <<source, row>>, fresh' \subseteq fresh,
             index' \in Versions, registry' \in Versions, lock' \in Workers \union {None}
      PROVE  TypeOK' /\ Tied'
  <2>1. Tied'
    BY <1>8, GotoTied
  <2> QED
    BY <1>8, <2>1, GotoTyped DEF source, TypeOK
\* The steps of a run that finish its job.
<1>9. ASSUME NEW w \in Workers, NEW step \in WorkerSteps \ {"claim"}, pc[w] # "idle",
             NEW s \in Statuses, Finish(w, s), Goto(w, step),
             UNCHANGED <<source, index, registry, lock>>
      PROVE  TypeOK' /\ Tied'
  <2>1. Tied'
    BY <1>9, FinishTied
  <2>2. job[w] \in Hooks
    BY <1>9 DEF Tied
  <2>3. row' \in [Hooks -> Rows] /\ fresh' \subseteq Workers
    BY <1>9, <2>2, FinishTyped
  <2> QED
    BY <1>9, <2>1, <2>3, GotoTyped DEF source, TypeOK
<1>10. ASSUME NEW w \in Workers,
              StartFails(w) \/ AcquireLock(w) \/ Recheck(w) \/ CheckShop(w)
              \/ StatementFails(w) \/ WorkFails(w) \/ Release(w) \/ ReleaseFails(w)
              \/ Crash(w)
       PROVE  TypeOK' /\ Tied'
  <2>1. PICK step \in WorkerSteps \ {"claim"} : Goto(w, step)
    BY <1>10 DEF StartFails, AcquireLock, Recheck, CheckShop, StatementFails, WorkFails,
       Release, ReleaseFails, Crash, WorkerSteps, Locked, InTask
  <2>2. pc[w] # "idle" /\ UNCHANGED <<source, row, index, registry>> /\ fresh' \subseteq fresh
    BY <1>10 DEF StartFails, AcquireLock, Recheck, CheckShop, StatementFails, WorkFails,
       Release, ReleaseFails, Crash
  <2>3. lock' \in Workers \union {None}
    BY <1>10 DEF StartFails, AcquireLock, Recheck, CheckShop, StatementFails, WorkFails,
       Release, ReleaseFails, Crash, TypeOK
  <2>4. index' \in Versions /\ registry' \in Versions
    BY <2>2 DEF TypeOK
  <2> QED
    BY <1>8, <2>1, <2>2, <2>3, <2>4
<1>11. ASSUME NEW w \in Workers, WriteIndex(w) \/ Block(w)
       PROVE  TypeOK' /\ Tied'
  <2>1. PICK step \in {"mark", "fail"} : Goto(w, step)
    BY <1>11 DEF WriteIndex, Block
  <2>2. step \in WorkerSteps \ {"claim"}
    BY DEF WorkerSteps, Locked, InTask
  <2>3. index' \in Versions /\ registry' \in Versions /\ lock' \in Workers \union {None}
    BY <1>11 DEF WriteIndex, Block, TypeOK
  <2>4. pc[w] # "idle" /\ UNCHANGED <<source, row>> /\ fresh' \subseteq fresh
    BY <1>11 DEF WriteIndex, Block
  <2> QED
    BY <1>8, <2>1, <2>2, <2>3, <2>4
<1>12. ASSUME NEW w \in Workers, MarkDone(w) \/ MarkFailed(w) \/ CatchError(w)
       PROVE  TypeOK' /\ Tied'
  <2>1. PICK step \in WorkerSteps \ {"claim"}, s \in Statuses : Goto(w, step) /\ Finish(w, s)
    BY <1>12 DEF MarkDone, MarkFailed, CatchError, WorkerSteps, Locked, InTask, Statuses
  <2>2. pc[w] # "idle" /\ UNCHANGED <<source, index, registry, lock>>
    BY <1>12 DEF MarkDone, MarkFailed, CatchError
  <2> QED
    BY <1>9, <2>1, <2>2
<1>13. ASSUME NEW w \in Workers, Fetch(w)
       PROVE  TypeOK' /\ Tied'
  <2>1. pc' \in [Workers -> WorkerSteps]
    BY <1>13 DEF Fetch, TypeOK, WorkerSteps, Locked, InTask
  <2>2. got' \in [Workers -> Versions]
    BY <1>13 DEF Fetch, TypeOK, Versions
  <2>3. Tied'
    BY <1>13 DEF Fetch, TypeOK, Tied, Claimable
  <2> QED
    BY <1>13, <2>1, <2>2, <2>3 DEF Fetch, source, TypeOK
<1>14. ASSUME NEW w \in Workers, Heartbeat(w)
       PROVE  TypeOK' /\ Tied'
  <2>1. job[w] \in Hooks
    BY <1>14 DEF Heartbeat, Beating, Tied
  <2>2. [row[job[w]] EXCEPT !.stale = FALSE] \in Rows
    BY <2>1, StaleTyped DEF TypeOK
  <2>3. Write(job[w], [row[job[w]] EXCEPT !.stale = FALSE])
    BY <1>14 DEF Heartbeat
  <2>4. row' \in [Hooks -> Rows] /\ fresh' \subseteq Workers
    BY <2>1, <2>2, <2>3, WriteTyped
  <2>5. Tied'
    BY <1>14, <2>1, <2>2, <2>3, WriteTied DEF Heartbeat, worker
  <2> QED
    BY <1>14, <2>4, <2>5 DEF Heartbeat, source, worker, TypeOK
<1>15. ASSUME NEW j \in Hooks, GrowStale(j)
       PROVE  TypeOK' /\ Tied'
  <2>1. row' = [row EXCEPT ![j] = [row[j] EXCEPT !.stale = TRUE]]
    BY <1>15 DEF GrowStale, TypeOK
  <2>2. [row[j] EXCEPT !.stale = TRUE] \in Rows
    BY StaleTyped DEF TypeOK
  <2>3. row' \in [Hooks -> Rows]
    BY <2>1, <2>2 DEF TypeOK
  <2>4. Tied'
    <3>1. row[j].status = "PROCESSING" /\ row[j].stale = FALSE
      BY <1>15, RowTyped DEF GrowStale, TypeOK
    <3>2. ~Claimable(row[j])
      BY <3>1 DEF Claimable
    <3> QED
      BY <1>15, <2>1, <3>2, TiedKept DEF GrowStale, worker, TypeOK, Tied
  <2> QED
    BY <1>15, <2>3, <2>4 DEF GrowStale, source, worker, TypeOK
<1>16. ASSUME NEW j \in Hooks, RetryByHand(j)
       PROVE  TypeOK' /\ Tied'
  <2>1. Write(j, [NoRow EXCEPT !.status = "PENDING"])
    BY <1>16 DEF RetryByHand
  <2>2. row' \in [Hooks -> Rows] /\ fresh' \subseteq Workers
    BY <2>1, NewRowTyped, WriteTyped
  <2>3. Tied'
    BY <1>16, <2>1, NewRowTyped, WriteTied DEF RetryByHand, worker
  <2> QED
    BY <1>16, <2>2, <2>3 DEF RetryByHand, source, worker, TypeOK
<1>17. CASE Uninstall
  BY <1>17 DEF Uninstall, worker, TypeOK, Tied, Claimable
<1>18. CASE LeaseExpires
  BY <1>18 DEF LeaseExpires, source, worker, TypeOK, Tied, Claimable
<1> QED
  BY <1>0, <1>1, <1>2, <1>3, <1>4, <1>5, <1>6, <1>7, <1>10, <1>11, <1>12, <1>13,
     <1>14, <1>15, <1>16, <1>17, <1>18 DEF Next, Step, Webhook

LEMMA InitTyped == Init => TypeOK /\ Tied
<1>1. 0 \in Versions /\ Gone \in Versions /\ 0 \in 0 .. MaxAttempts
  BY JobAssumption DEF Versions
<1> QED
  BY <1>1, NewRowTyped DEF Init, TypeOK, Tied, WorkerSteps

\* The variables have their types, and attempts stay within their bound.
THEOREM TypeCorrect == Spec => []TypeOK
<1>1. Spec => [](TypeOK /\ Tied)
  BY InitTyped, TypesHold, PTL DEF Spec
<1> QED
  BY <1>1, PTL

-------------------------------------------------------------------------------
(* A job that is done stays done *)

LEMMA FinishKeepsDone ==
  ASSUME TypeOK, NEW w \in Workers, job[w] \in Hooks, NEW s \in Statuses,
         Finish(w, s), NEW j \in Hooks, row[j].status = "DONE"
  PROVE  row'[j].status = "DONE"
BY DEF Finish, IsCurrent, Write, TypeOK

LEMMA DoneStays ==
  ASSUME TypeOK, Tied, [Next]_vars, NEW j \in Hooks, row[j].status = "DONE"
  PROVE  row'[j].status = "DONE"
<1>1. CASE UNCHANGED row
  BY <1>1
<1>2. ASSUME NEW h \in Hooks, CreateJob(h)
      PROVE  row'[j].status = "DONE"
  BY <1>2 DEF CreateJob, Write, TypeOK
<1>3. ASSUME NEW w \in Workers, Claim(w)
      PROVE  row'[j].status = "DONE"
  <2>1. w \in fresh => Claimable(row[job[w]])
    BY <1>3 DEF Claim, Tied
  <2>2. w \in fresh => job[w] # j
    BY <2>1 DEF Claimable
  <2> QED
    BY <1>3, <2>2 DEF Claim, Write, TypeOK
<1>4. ASSUME NEW w \in Workers, TerminalizeExhausted(w)
      PROVE  row'[j].status = "DONE"
  BY <1>4 DEF TerminalizeExhausted, Write, TypeOK
<1>5. ASSUME NEW w \in Workers, MarkDone(w) \/ MarkFailed(w) \/ CatchError(w)
      PROVE  row'[j].status = "DONE"
  <2>1. job[w] \in Hooks
    BY <1>5 DEF MarkDone, MarkFailed, CatchError, Tied
  <2>2. PICK s \in Statuses : Finish(w, s)
    BY <1>5 DEF MarkDone, MarkFailed, CatchError, Statuses
  <2> QED
    BY <2>1, <2>2, FinishKeepsDone
<1>6. ASSUME NEW w \in Workers, Heartbeat(w)
      PROVE  row'[j].status = "DONE"
  BY <1>6 DEF Heartbeat, IsCurrent, Write, TypeOK
<1>7. ASSUME NEW i \in Hooks, GrowStale(i) \/ RetryByHand(i)
      PROVE  row'[j].status = "DONE"
  BY <1>7 DEF GrowStale, RetryByHand, Write, TypeOK
<1>8. ASSUME NEW w \in Workers,
             (\E i \in Hooks : Select(w, i)) \/ Reread(w) \/ StartFails(w)
             \/ AcquireLock(w) \/ Recheck(w) \/ CheckShop(w) \/ StatementFails(w)
             \/ Fetch(w) \/ WriteIndex(w) \/ Block(w) \/ WorkFails(w) \/ Release(w)
             \/ ReleaseFails(w) \/ Crash(w)
      PROVE  UNCHANGED row
  BY <1>8 DEF Select, Reread, StartFails, AcquireLock, Recheck, CheckShop,
     StatementFails, Fetch, WriteIndex, Block, WorkFails, Release, ReleaseFails, Crash
<1>9. ASSUME Uninstall \/ LeaseExpires
             \/ \E h \in Hooks : Edit(h) \/ FindPending(h) \/ Redeliver(h)
      PROVE  UNCHANGED row
  BY <1>9 DEF Uninstall, LeaseExpires, Edit, FindPending, Redeliver
<1> QED
  BY <1>1, <1>2, <1>3, <1>4, <1>5, <1>6, <1>7, <1>8, <1>9
     DEF Next, Step, Webhook, vars

\* A job that is done is never reopened or failed, by no late attempt, crash,
\* superseded worker or retry.
THEOREM DoneStaysDone == Spec => DoneIsFinal
<1>1. Spec => [](TypeOK /\ Tied)
  BY InitTyped, TypesHold, PTL DEF Spec
<1>2. TypeOK /\ Tied /\ [Next]_vars
        => [\A j \in Hooks : row[j].status = "DONE" => row'[j].status = "DONE"]_vars
  BY DoneStays
<1> QED
  BY <1>1, <1>2, PTL DEF Spec, DoneIsFinal

-------------------------------------------------------------------------------
(* While only dead workers lose their leases, runs of the product's jobs   *)
(* exclude each other, and what they read and write moves forward only.    *)

\* Version a is b, or an earlier one: the deletion comes last.
AtMost(a, b) == b = Gone \/ (a # Gone /\ a <= b)

Serial == \A w \in Workers : pc[w] \in Locked => lock = w

Ordered ==
  /\ AtMost(index, shopify)
  /\ \A h \in Hooks : topic[h] = "DELETE" => shopify = Gone
  /\ \A w \in Workers :
       pc[w] = "write" => AtMost(index, got[w]) /\ AtMost(got[w], shopify)

LEMMA NextVersion ==
  ASSUME NEW a \in Versions, NEW b \in Versions, NEW c \in Versions,
         AtMost(a, b), b # Gone, c = b + 1 \/ c = Gone
  PROVE  AtMost(a, c)
BY JobAssumption DEF AtMost, Versions

LEMMA SerialHolds ==
  ASSUME TypeOK, Tied, Serial, LiveLeaseLoss = FALSE, [Next]_vars
  PROVE  Serial'
<1> USE DEF Serial, Locked, InTask
<1>1. CASE UNCHANGED <<pc, lock>>
  BY <1>1
<1>2. ASSUME NEW w \in Workers, UNCHANGED lock, pc'[w] \in Locked => pc[w] \in Locked,
             \A v \in Workers \ {w} : pc'[v] = pc[v]
      PROVE  Serial'
  BY <1>2
<1>3. ASSUME NEW w \in Workers, AcquireLock(w)
      PROVE  Serial'
  <2>1. \A v \in Workers : pc[v] \notin Locked
    BY <1>3, JobAssumption DEF AcquireLock
  <2> QED
    BY <1>3, <2>1 DEF AcquireLock, Goto, TypeOK
<1>4. ASSUME NEW w \in Workers, Release(w)
      PROVE  Serial'
  <2>1. \A v \in Workers \ {w} : pc[v] \notin Locked
    BY <1>4 DEF Release
  <2>2. pc'[w] \notin Locked /\ \A v \in Workers \ {w} : pc'[v] = pc[v]
    BY <1>4 DEF Release, Goto, TypeOK
  <2> QED
    BY <2>1, <2>2
<1>5. CASE LeaseExpires
  BY <1>5 DEF LeaseExpires, worker
<1>6. ASSUME NEW w \in Workers,
             (\E j \in Hooks : Select(w, j)) \/ Claim(w) \/ Reread(w) \/ StartFails(w)
             \/ ReleaseFails(w) \/ CatchError(w) \/ Crash(w)
      PROVE  UNCHANGED lock /\ pc'[w] \notin Locked /\ \A v \in Workers \ {w} : pc'[v] = pc[v]
  BY <1>6 DEF Select, Claim, Reread, StartFails, ReleaseFails, CatchError, Crash,
     Goto, TypeOK
<1>7. ASSUME NEW w \in Workers,
             Recheck(w) \/ CheckShop(w) \/ StatementFails(w) \/ Fetch(w)
             \/ WriteIndex(w) \/ Block(w) \/ WorkFails(w) \/ MarkDone(w) \/ MarkFailed(w)
      PROVE  UNCHANGED lock /\ pc[w] \in Locked /\ \A v \in Workers \ {w} : pc'[v] = pc[v]
  BY <1>7 DEF Recheck, CheckShop, StatementFails, Fetch, WriteIndex, Block, WorkFails, MarkDone,
     MarkFailed, Goto, TypeOK
<1>8. ASSUME \/ Uninstall
             \/ \E w \in Workers : TerminalizeExhausted(w) \/ Heartbeat(w)
             \/ \E h \in Hooks : \/ Edit(h) \/ FindPending(h) \/ CreateJob(h)
                                 \/ Redeliver(h) \/ GrowStale(h) \/ RetryByHand(h)
      PROVE  UNCHANGED <<pc, lock>>
  BY <1>8 DEF Uninstall, TerminalizeExhausted, Heartbeat, Edit, FindPending, CreateJob,
     Redeliver, GrowStale, RetryByHand, worker
<1> QED
  BY <1>1, <1>2, <1>3, <1>4, <1>5, <1>6, <1>7, <1>8 DEF Next, Step, Webhook, vars, worker

LEMMA OrderedHolds ==
  ASSUME TypeOK, TypeOK', Tied, Serial, Ordered, [Next]_vars
  PROVE  Ordered'
\* A worker in "write" was there before, with what it read.
<1>1. ASSUME UNCHANGED <<shopify, topic, index>>,
             \A w \in Workers : pc'[w] = "write" => pc[w] = "write" /\ got'[w] = got[w]
      PROVE  Ordered'
  BY <1>1 DEF Ordered, AtMost
<1>2. ASSUME NEW h \in Hooks, Edit(h)
      PROVE  Ordered'
  <2>1. shopify # Gone /\ \/ shopify' = shopify + 1 /\ topic' = topic
                          \/ shopify' = Gone
    BY <1>2 DEF Edit
  <2>2. ASSUME NEW a \in Versions, AtMost(a, shopify)
        PROVE  AtMost(a, shopify')
    BY <2>1, <2>2, NextVersion DEF TypeOK
  <2>3. UNCHANGED <<index, pc, got>>
    BY <1>2 DEF Edit, worker
  <2>4. \A g \in Hooks : topic'[g] = "DELETE" => shopify' = Gone
    BY <2>1 DEF Ordered
  <2> QED
    BY <2>2, <2>3, <2>4 DEF Ordered, TypeOK, AtMost
<1>3. ASSUME NEW w \in Workers, Fetch(w)
      PROVE  Ordered'
  <2>1. UNCHANGED <<shopify, topic, index, job>> /\ job[w] \in Hooks
    BY <1>3 DEF Fetch, source, Tied
  <2>2. got'[w] = shopify
    BY <1>3, <2>1 DEF Fetch, TypeOK, Ordered
  <2>3. \A v \in Workers \ {w} : pc'[v] = pc[v] /\ got'[v] = got[v]
    BY <1>3 DEF Fetch, TypeOK
  <2>4. AtMost(shopify, shopify)
    BY JobAssumption DEF AtMost, TypeOK, Versions
  <2> QED
    BY <2>1, <2>2, <2>3, <2>4 DEF Ordered, AtMost
<1>4. ASSUME NEW w \in Workers, WriteIndex(w)
      PROVE  Ordered'
  <2>1. index' = got[w] /\ UNCHANGED <<shopify, topic>>
    BY <1>4 DEF WriteIndex, source
  <2>2. \A v \in Workers : pc'[v] # "write"
    BY <1>4 DEF WriteIndex, Goto, TypeOK, Serial, Locked, InTask
  <2> QED
    BY <1>4, <2>1, <2>2 DEF Ordered, WriteIndex, AtMost
<1>5. ASSUME NEW w \in Workers, NEW step \in WorkerSteps \ {"write"}, Goto(w, step)
      PROVE  \A v \in Workers : pc'[v] = "write" => pc[v] = "write" /\ got'[v] = got[v]
  BY <1>5 DEF Goto, TypeOK
<1>6. ASSUME NEW w \in Workers,
             Claim(w) \/ StartFails(w) \/ AcquireLock(w) \/ Recheck(w) \/ CheckShop(w)
             \/ StatementFails(w) \/ Block(w) \/ WorkFails(w) \/ MarkDone(w) \/ MarkFailed(w)
             \/ Release(w) \/ ReleaseFails(w) \/ CatchError(w) \/ Crash(w)
      PROVE  /\ UNCHANGED <<shopify, topic, index>>
             /\ \E step \in WorkerSteps \ {"write"} : Goto(w, step)
  BY <1>6 DEF Claim, StartFails, AcquireLock, Recheck, CheckShop, StatementFails, Block, WorkFails,
     MarkDone, MarkFailed, Release, ReleaseFails, CatchError, Crash, source,
     WorkerSteps, Locked, InTask
<1>7. ASSUME NEW w \in Workers, (\E j \in Hooks : Select(w, j)) \/ Reread(w)
      PROVE  /\ UNCHANGED <<shopify, topic, index>>
             /\ \A v \in Workers : pc'[v] = "write" => pc[v] = "write" /\ got'[v] = got[v]
  BY <1>7 DEF Select, Reread, Goto, source, TypeOK
<1>8. ASSUME \/ Uninstall \/ LeaseExpires \/ UNCHANGED vars
             \/ \E w \in Workers : TerminalizeExhausted(w) \/ Heartbeat(w)
             \/ \E h \in Hooks : \/ FindPending(h) \/ CreateJob(h)
                                 \/ Redeliver(h) \/ GrowStale(h) \/ RetryByHand(h)
      PROVE  UNCHANGED <<shopify, topic, index, pc, got>>
  BY <1>8 DEF Uninstall, LeaseExpires, vars, TerminalizeExhausted, Heartbeat,
     FindPending, CreateJob, Redeliver, GrowStale, RetryByHand, worker, source
<1> QED
  BY <1>1, <1>2, <1>3, <1>4, <1>5, <1>6, <1>7, <1>8 DEF Next, Step, Webhook

LEMMA OnlyWritersMoveIndex ==
  ASSUME [Next]_vars, index' # index
  PROVE  \E w \in Workers : WriteIndex(w)
BY DEF Next, Step, Webhook, vars, source, worker, Edit, FindPending, CreateJob,
   Redeliver, Select, Claim, Reread, TerminalizeExhausted, StartFails, AcquireLock,
   Recheck, CheckShop, StatementFails, Fetch, Block, WorkFails, MarkDone, MarkFailed, Release,
   ReleaseFails, CatchError, Heartbeat, Crash, GrowStale, RetryByHand, Uninstall,
   LeaseExpires

SerialInv == TypeOK /\ Tied /\ Serial /\ Ordered

LEMMA SerialInvariant ==
  ASSUME LiveLeaseLoss = FALSE
  PROVE  Spec => []SerialInv
<1>1. Init => SerialInv
  <2>1. ASSUME Init PROVE Serial /\ Ordered
    BY <2>1, JobAssumption DEF Init, Serial, Ordered, AtMost, Locked, InTask
  <2> QED
    BY <2>1, InitTyped DEF SerialInv
<1>2. SerialInv /\ [Next]_vars => SerialInv'
  BY TypesHold, SerialHolds, OrderedHolds DEF SerialInv
<1> QED
  BY <1>1, <1>2, PTL DEF Spec

\* A late or superseded run never writes an older version of the product over a
\* newer one: the product's lease keeps the read and the write of a run together.
THEOREM IndexMovesForward ==
  ASSUME LiveLeaseLoss = FALSE
  PROVE  Spec => IndexAdvances
<1>1. SerialInv /\ [Next]_vars
        => [index' # index => index # Gone /\ (index' = Gone \/ index' > index)]_vars
  <2>1. SUFFICES ASSUME SerialInv, [Next]_vars, index' # index
                 PROVE  index # Gone /\ (index' = Gone \/ index' > index)
    OBVIOUS
  <2>2. PICK w \in Workers : WriteIndex(w)
    BY <2>1, OnlyWritersMoveIndex
  <2>3. index' = got[w] /\ AtMost(index, got[w])
    BY <2>1, <2>2 DEF WriteIndex, SerialInv, Ordered
  <2>4. index \in Versions /\ got[w] \in Versions
    BY <2>1 DEF SerialInv, TypeOK
  <2> QED
    BY <2>1, <2>3, <2>4, JobAssumption DEF AtMost, Versions
<1> QED
  BY <1>1, SerialInvariant, PTL DEF Spec, IndexAdvances

-------------------------------------------------------------------------------
(* No edit is lost *)

\* An attempt is the row's current one or an earlier one, until the merchant
\* resets the count; the steps that open and close a job.
Counted ==
  /\ \A w \in Workers :
       IF pc[w] = "idle" THEN attempt[w] = 0
                         ELSE attempt[w] <= row[job[w]].attempts
  /\ \A j \in Hooks : row[j].status = "NONE" => row[j].attempts = 0
  /\ \A h \in Hooks : hook[h] = "unused" => row[h].status = "NONE"
  /\ \A w \in Workers : pc[w] = "skip" => ~shopActive

OnItsWay(h) == hook[h] \in {"sent", "creating"} /\ row[h].status = "NONE"

\* The registry is behind, or about to be.
Owed == registry # shopify \/ \E w \in Workers : pc[w] = "write" /\ got[w] # shopify

\* NoLostUpdate, made inductive: a webhook that comes again, for a job that was
\* created before, is no reason to believe that an edit will be indexed.
NothingLost == shopActive /\ Owed => \E h \in Hooks : OnItsWay(h) \/ WillHandleLatest(h)

\* What became of row j in a step: its count does not go back, and a job
\* leaves its status only through a new attempt or its end.
Same(j) == row'[j].status = row[j].status /\ row'[j].attempts = row[j].attempts

\* Nobody enters "write" or "mark" behind Shopify's back.
NoNewWork ==
  \A w \in Workers :
    pc'[w] \in {"write", "mark"} =>
      \/ pc'[w] = "write" /\ got'[w] = shopify
      \/ pc'[w] = pc[w] /\ job'[w] = job[w] /\ attempt'[w] = attempt[w] /\ got'[w] = got[w]

LEMMA OwedBefore ==
  ASSUME UNCHANGED <<shopify, registry>>, NoNewWork, Owed'
  PROVE  Owed
BY DEF Owed, NoNewWork

LEMMA WitnessKept ==
  ASSUME UNCHANGED <<shopify, registry>>, NoNewWork,
         NEW j \in Hooks, WillHandleLatest(j), Same(j)
  PROVE  WillHandleLatest(j)'
BY DEF WillHandleLatest, NoNewWork, IsCurrent, Same

LEMMA WaitingWitness ==
  ASSUME NEW j \in Hooks, row'[j].status \in {"PENDING", "FAILED"}
  PROVE  WillHandleLatest(j)'
BY DEF WillHandleLatest

\* A step that changes neither a status nor a count.
LEMMA RowsKept ==
  ASSUME UNCHANGED <<shopify, shopActive, registry>>, NoNewWork, NothingLost,
         \A j \in Hooks : Same(j) /\ (OnItsWay(j) => hook'[j] \in {"sent", "creating"})
  PROVE  NothingLost'
<1> SUFFICES ASSUME shopActive, Owed'
             PROVE  \E h \in Hooks : OnItsWay(h)' \/ WillHandleLatest(h)'
  BY DEF NothingLost
<1>1. PICK h \in Hooks : OnItsWay(h) \/ WillHandleLatest(h)
  BY OwedBefore DEF NothingLost
<1>2. CASE OnItsWay(h)
  BY <1>2 DEF OnItsWay, Same
<1>3. CASE WillHandleLatest(h)
  BY <1>3, WitnessKept
<1> QED
  BY <1>1, <1>2, <1>3

\* A step that puts one job back to be run again.
LEMMA JobWaits ==
  ASSUME NEW j \in Hooks, row'[j].status \in {"PENDING", "FAILED"}
  PROVE  NothingLost'
BY WaitingWitness DEF NothingLost

LEMMA GotoNoNewWork ==
  ASSUME TypeOK, NEW w \in Workers, NEW step \in WorkerSteps \ {"write", "mark"},
         Goto(w, step)
  PROVE  NoNewWork
BY DEF TypeOK, Goto, NoNewWork

LEMMA FinishSame ==
  ASSUME TypeOK, NEW w \in Workers, job[w] \in Hooks, NEW s \in Statuses, Finish(w, s)
  PROVE  \A j \in Hooks :
           /\ row'[j].attempts = row[j].attempts
           /\ row'[j].status = row[j].status \/ row[j].status = "PROCESSING"
           /\ \/ Same(j)
              \/ j = job[w] /\ IsCurrent(j, attempt[w]) /\ row'[j].status = s
<1>1. CASE IsCurrent(job[w], attempt[w])
  <2> DEFINE r == [row[job[w]] EXCEPT !.status = s, !.stale = FALSE]
  <2>1. r.status = s /\ r.attempts = row[job[w]].attempts
    BY DEF TypeOK, Rows
  <2>2. row' = [row EXCEPT ![job[w]] = r]
    BY <1>1 DEF Finish, Write
  <2> HIDE DEF r
  <2>3. row'[job[w]] = r /\ \A j \in Hooks \ {job[w]} : row'[j] = row[j]
    BY <2>2 DEF TypeOK
  <2> QED
    BY <1>1, <2>1, <2>3 DEF IsCurrent, Same
<1>2. CASE ~IsCurrent(job[w], attempt[w])
  BY <1>2 DEF Finish, Same
<1> QED
  BY <1>1, <1>2

-------------------------------------------------------------------------------
(* The count of attempts *)

LEMMA CountedKept ==
  ASSUME Counted, TypeOK, TypeOK', Tied,
         shopActive' => shopActive,
         \A w \in Workers :
           \/ IF pc'[w] = "idle" THEN attempt'[w] = 0
                                 ELSE attempt'[w] <= row'[job'[w]].attempts
           \/ pc[w] # "idle" /\ pc'[w] # "idle" /\ job'[w] = job[w] /\ attempt'[w] = attempt[w],
         \A w \in Workers : pc'[w] = "skip" => pc[w] = "skip" \/ ~shopActive',
         \A j \in Hooks :
           /\ row'[j].attempts >= row[j].attempts
           /\ row'[j].status = "NONE" => row[j].status = "NONE" /\ row'[j] = row[j]
           /\ hook'[j] = "unused" => hook[j] = "unused" /\ row'[j].status = row[j].status
  PROVE  Counted'
<1>1. \A w \in Workers :
        IF pc'[w] = "idle" THEN attempt'[w] = 0
                           ELSE attempt'[w] <= row'[job'[w]].attempts
  <2> SUFFICES ASSUME NEW w \in Workers, pc[w] # "idle", pc'[w] # "idle",
                      job'[w] = job[w], attempt'[w] = attempt[w]
               PROVE  attempt'[w] <= row'[job'[w]].attempts
    OBVIOUS
  <2>1. job[w] \in Hooks /\ attempt[w] <= row[job[w]].attempts
    BY DEF Counted, Tied
  <2>2. attempt[w] \in Int /\ row[job[w]].attempts \in Int /\ row'[job[w]].attempts \in Int
    BY <2>1, RowTyped DEF TypeOK
  <2> QED
    BY <2>1, <2>2
<1>2. \A j \in Hooks : row'[j].status = "NONE" => row'[j].attempts = 0
  BY DEF Counted
<1>3. \A h \in Hooks : hook'[h] = "unused" => row'[h].status = "NONE"
  BY DEF Counted
<1>4. \A w \in Workers : pc'[w] = "skip" => ~shopActive'
  BY DEF Counted
<1> QED
  BY <1>1, <1>2, <1>3, <1>4 DEF Counted

\* What a step that writes row j, already created, needs for Counted.
LEMMA WriteCounted ==
  ASSUME Counted, TypeOK, NEW j \in Hooks, NEW r \in Rows, Write(j, r), UNCHANGED hook,
         row[j].status # "NONE", r.status # "NONE", r.attempts >= row[j].attempts
  PROVE  \A i \in Hooks :
           /\ row'[i].attempts >= row[i].attempts
           /\ row'[i].status = "NONE" => row[i].status = "NONE" /\ row'[i] = row[i]
           /\ hook'[i] = "unused" => hook[i] = "unused" /\ row'[i].status = row[i].status
<1>1. row'[j] = r /\ \A i \in Hooks \ {j} : row'[i] = row[i]
  BY DEF Write, TypeOK
<1>2. hook[j] # "unused"
  BY DEF Counted
<1>3. \A i \in Hooks : row[i].attempts \in Int
  BY RowTyped DEF TypeOK
<1> QED
  BY <1>1, <1>2, <1>3

LEMMA SameCounted ==
  ASSUME TypeOK, UNCHANGED <<row, hook>>
  PROVE  \A i \in Hooks :
           /\ row'[i].attempts >= row[i].attempts
           /\ row'[i].status = "NONE" => row[i].status = "NONE" /\ row'[i] = row[i]
           /\ hook'[i] = "unused" => hook[i] = "unused" /\ row'[i].status = row[i].status
<1>1. \A i \in Hooks : row[i].attempts \in Int
  BY RowTyped DEF TypeOK
<1> QED
  BY <1>1

LEMMA GotoCounted ==
  ASSUME TypeOK, NEW w \in Workers, NEW step \in WorkerSteps, Goto(w, step),
         pc[w] # "idle", step # "skip" \/ ~shopActive'
  PROVE  /\ \A v \in Workers :
              \/ IF pc'[v] = "idle" THEN attempt'[v] = 0
                                    ELSE attempt'[v] <= row'[job'[v]].attempts
              \/ pc[v] # "idle" /\ pc'[v] # "idle" /\ job'[v] = job[v] /\ attempt'[v] = attempt[v]
              \/ pc[v] = "idle" /\ UNCHANGED <<pc[v], attempt[v]>>
         /\ \A v \in Workers : pc'[v] = "skip" => pc[v] = "skip" \/ ~shopActive'
BY DEF TypeOK, Goto

LEMMA CountedHolds ==
  ASSUME Counted, TypeOK, TypeOK', Tied, Retryable = {}, [Next]_vars
  PROVE  Counted'
<1>1. ASSUME UNCHANGED <<worker, row, hook>>, shopActive' => shopActive
      PROVE  Counted'
  BY <1>1 DEF Counted, worker
<1>2. ASSUME NEW h \in Hooks,
             Edit(h) \/ FindPending(h) \/ Redeliver(h)
      PROVE  Counted'
  BY <1>2 DEF Edit, FindPending, Redeliver, worker, Counted, TypeOK
<1>3. ASSUME NEW h \in Hooks, CreateJob(h)
      PROVE  Counted'
  <2>1. UNCHANGED <<worker, shopActive>> /\ hook' = [hook EXCEPT ![h] = "answered"]
    BY <1>3 DEF CreateJob
  <2>2. CASE row[h].status = "NONE"
    <3>1. row'[h].status = "PENDING" /\ row'[h].attempts = 0
      BY <1>3, <2>2 DEF CreateJob, Write, TypeOK, NoRow
    <3>2. \A i \in Hooks \ {h} : row'[i] = row[i]
      BY <1>3, <2>2 DEF CreateJob, Write, TypeOK
    <3>3. row[h].attempts = 0
      BY <2>2 DEF Counted
    <3> QED
      BY <2>1, <3>1, <3>2, <3>3 DEF Counted, worker, TypeOK, Tied
  <2>3. CASE row[h].status # "NONE"
    BY <1>3, <2>1, <2>3 DEF CreateJob, Counted, worker, TypeOK
  <2> QED
    BY <2>2, <2>3
<1>4. ASSUME NEW w \in Workers, NEW j \in Hooks, Select(w, j)
      PROVE  Counted'
  <2>1. row[j].attempts \in Nat
    BY RowTyped DEF TypeOK
  <2> QED
    BY <1>4, <2>1 DEF Select, Counted, TypeOK, source
<1>5. ASSUME NEW w \in Workers, Reread(w)
      PROVE  Counted'
  <2>1. row[job[w]].attempts \in Nat
    BY <1>5, RowTyped DEF Reread, Tied, TypeOK
  <2> QED
    BY <1>5, <2>1 DEF Reread, Goto, Counted, TypeOK, source
\* A step of a run, with what it does to the rows.
<1>6. ASSUME NEW w \in Workers, NEW step \in WorkerSteps, Goto(w, step), pc[w] # "idle",
             step # "skip" \/ ~shopActive', UNCHANGED shopActive,
             \A i \in Hooks :
               /\ row'[i].attempts >= row[i].attempts
               /\ row'[i].status = "NONE" => row[i].status = "NONE" /\ row'[i] = row[i]
               /\ hook'[i] = "unused" => hook[i] = "unused" /\ row'[i].status = row[i].status
      PROVE  Counted'
  <2>1. \A v \in Workers : pc'[v] = "skip" => pc[v] = "skip" \/ ~shopActive'
    BY <1>6, GotoCounted
  <2>2. \A v \in Workers :
          \/ IF pc'[v] = "idle" THEN attempt'[v] = 0
                                ELSE attempt'[v] <= row'[job'[v]].attempts
          \/ pc[v] # "idle" /\ pc'[v] # "idle" /\ job'[v] = job[v] /\ attempt'[v] = attempt[v]
    BY <1>6, GotoCounted DEF Counted
  <2> QED
    BY <1>6, <2>1, <2>2, CountedKept
\* A step that only writes a row.
<1>7. ASSUME UNCHANGED <<worker, shopActive>>,
             \A i \in Hooks :
               /\ row'[i].attempts >= row[i].attempts
               /\ row'[i].status = "NONE" => row[i].status = "NONE" /\ row'[i] = row[i]
               /\ hook'[i] = "unused" => hook[i] = "unused" /\ row'[i].status = row[i].status
      PROVE  Counted'
  <2>1. \A v \in Workers : pc'[v] = pc[v] /\ job'[v] = job[v] /\ attempt'[v] = attempt[v]
    BY <1>7 DEF worker
  <2>2. \A v \in Workers :
          \/ IF pc'[v] = "idle" THEN attempt'[v] = 0
                                ELSE attempt'[v] <= row'[job'[v]].attempts
          \/ pc[v] # "idle" /\ pc'[v] # "idle" /\ job'[v] = job[v] /\ attempt'[v] = attempt[v]
    BY <2>1 DEF Counted
  <2>3. \A v \in Workers : pc'[v] = "skip" => pc[v] = "skip" \/ ~shopActive'
    BY <2>1
  <2> QED
    BY <1>7, <2>2, <2>3, CountedKept
<1>8. ASSUME NEW w \in Workers, Claim(w)
      PROVE  Counted'
  <2>1. job[w] \in Hooks /\ row[job[w]] \in Rows
    BY <1>8 DEF Claim, Tied, TypeOK
  <2>2. CASE w \in fresh
    <3> DEFINE r == [status |-> "PROCESSING", stale |-> FALSE,
                     attempts |-> row[job[w]].attempts + 1]
    <3>1. Claimable(row[job[w]])
      BY <1>8, <2>2 DEF Claim, Tied
    <3>2. r \in Rows /\ r.status # "NONE" /\ r.attempts >= row[job[w]].attempts
      BY <2>1, <3>1, ClaimedTyped, RowTyped DEF Claimable
    <3>3. row[job[w]].status # "NONE"
      BY <3>1 DEF Claimable
    <3>4. Write(job[w], r) /\ Goto(w, "reread")
      BY <1>8, <2>2 DEF Claim
    <3>5. UNCHANGED <<hook, shopActive>> /\ pc[w] # "idle" /\ "reread" \in WorkerSteps
      BY <1>8 DEF Claim, source, WorkerSteps
    <3> HIDE DEF r
    <3> QED
      BY <1>6, <2>1, <3>2, <3>3, <3>4, <3>5, WriteCounted
  <2>3. CASE w \notin fresh
    <3>1. Goto(w, "idle") /\ UNCHANGED <<row, hook, shopActive>>
      BY <1>8, <2>3 DEF Claim, source
    <3>2. pc[w] # "idle" /\ "idle" \in WorkerSteps
      BY <1>8 DEF Claim, WorkerSteps
    <3> QED
      BY <1>6, <3>1, <3>2, SameCounted
  <2> QED
    BY <2>2, <2>3
<1>9. ASSUME NEW w \in Workers,
             StartFails(w) \/ AcquireLock(w) \/ Recheck(w) \/ CheckShop(w)
             \/ StatementFails(w) \/ WriteIndex(w) \/ Block(w) \/ WorkFails(w) \/ Release(w)
             \/ ReleaseFails(w) \/ Crash(w)
      PROVE  Counted'
  <2>1. PICK step \in WorkerSteps : Goto(w, step) /\ (step # "skip" \/ ~shopActive')
    BY <1>9 DEF StartFails, AcquireLock, Recheck, CheckShop, StatementFails, WriteIndex, Block,
       WorkFails, Release, ReleaseFails, Crash, WorkerSteps, Locked, InTask, source
  <2>2. pc[w] # "idle" /\ UNCHANGED <<row, hook, shopActive>>
    BY <1>9 DEF StartFails, AcquireLock, Recheck, CheckShop, StatementFails, WriteIndex, Block,
       WorkFails, Release, ReleaseFails, Crash, source
  <2> QED
    BY <1>6, <2>1, <2>2, SameCounted
<1>10. ASSUME NEW w \in Workers, Fetch(w)
       PROVE  Counted'
  BY <1>10 DEF Fetch, Counted, source, TypeOK
<1>11. ASSUME NEW w \in Workers, MarkDone(w) \/ MarkFailed(w) \/ CatchError(w)
       PROVE  Counted'
  <2>1. PICK step \in WorkerSteps \ {"skip"}, s \in Statuses : Goto(w, step) /\ Finish(w, s)
    BY <1>11 DEF MarkDone, MarkFailed, CatchError, WorkerSteps, Locked, InTask, Statuses
  <2>2. pc[w] # "idle" /\ job[w] \in Hooks /\ UNCHANGED <<hook, shopActive>>
    BY <1>11 DEF MarkDone, MarkFailed, CatchError, source, Tied
  <2>3. CASE IsCurrent(job[w], attempt[w])
    <3> DEFINE r == [row[job[w]] EXCEPT !.status = s, !.stale = FALSE]
    <3>1. row[job[w]] \in Rows
      BY <2>2 DEF TypeOK
    <3>2. r \in Rows /\ r.status = s /\ r.attempts >= row[job[w]].attempts
      BY <3>1, FieldsKept, StatusTyped
    <3>3. s # "NONE" /\ row[job[w]].status # "NONE"
      BY <2>3 DEF Statuses, IsCurrent
    <3>4. Write(job[w], r)
      BY <2>1, <2>3 DEF Finish
    <3> HIDE DEF r
    <3> QED
      BY <1>6, <2>1, <2>2, <3>2, <3>3, <3>4, WriteCounted
  <2>4. CASE ~IsCurrent(job[w], attempt[w])
    BY <1>6, <2>1, <2>2, <2>4, SameCounted DEF Finish
  <2> QED
    BY <2>3, <2>4
<1>12. ASSUME NEW w \in Workers, TerminalizeExhausted(w)
       PROVE  Counted'
  <2>1. PICK j \in Hooks :
          /\ row[j].status = "PROCESSING"
          /\ Write(j, [row[j] EXCEPT !.status = "FAILED", !.stale = FALSE])
    BY <1>12 DEF TerminalizeExhausted
  <2> DEFINE r == [row[j] EXCEPT !.status = "FAILED", !.stale = FALSE]
  <2>2. r \in Rows /\ r.status # "NONE" /\ r.attempts >= row[j].attempts
    <3>1. row[j] \in Rows /\ "FAILED" \in Statuses
      BY DEF TypeOK, Statuses
    <3> QED
      BY <3>1, FieldsKept, StatusTyped
  <2>3. UNCHANGED <<worker, shopActive, hook>>
    BY <1>12 DEF TerminalizeExhausted, source
  <2> HIDE DEF r
  <2> QED
    BY <1>7, <2>1, <2>2, <2>3, WriteCounted DEF r
<1>13. ASSUME NEW w \in Workers, Heartbeat(w)
       PROVE  Counted'
  <2>1. job[w] \in Hooks /\ row[job[w]].status = "PROCESSING"
    BY <1>13 DEF Heartbeat, Beating, IsCurrent, Tied
  <2> DEFINE r == [row[job[w]] EXCEPT !.stale = FALSE]
  <2>2. r \in Rows /\ r.status # "NONE" /\ r.attempts >= row[job[w]].attempts
    <3>1. row[job[w]] \in Rows
      BY <2>1 DEF TypeOK
    <3> QED
      BY <2>1, <3>1, RenewalKeepsFields, StaleTyped
  <2>3. UNCHANGED <<worker, shopActive, hook>> /\ Write(job[w], r)
    BY <1>13 DEF Heartbeat, source
  <2> HIDE DEF r
  <2> QED
    BY <1>7, <2>1, <2>2, <2>3, WriteCounted
<1>14. ASSUME NEW j \in Hooks, GrowStale(j)
       PROVE  Counted'
  <2>1. UNCHANGED <<worker, shopActive, hook>>
    BY <1>14 DEF GrowStale, source
  <2>2. \A i \in Hooks : row'[i].status = row[i].status /\ row'[i].attempts = row[i].attempts
    BY <1>14 DEF GrowStale, TypeOK, Rows
  <2> QED
    BY <2>1, <2>2 DEF Counted, worker, TypeOK, Tied
<1>15. ASSUME Uninstall \/ LeaseExpires \/ UNCHANGED vars
       PROVE  UNCHANGED <<worker, row, hook>> /\ (shopActive' => shopActive)
  BY <1>15 DEF Uninstall, LeaseExpires, vars, source
<1>16. \A j \in Hooks : ~RetryByHand(j)
  BY DEF RetryByHand
<1> QED
  BY <1>1, <1>2, <1>3, <1>4, <1>5, <1>8, <1>9, <1>10, <1>11, <1>12, <1>13,
     <1>14, <1>15, <1>16 DEF Next, Step, Webhook

-------------------------------------------------------------------------------
(* The obligation to index *)

\* A step of w that changes no status and no count, to a place where no product
\* version is pending.
LEMMA GotoLosesNothing ==
  ASSUME TypeOK, NothingLost, NEW w \in Workers,
         NEW step \in WorkerSteps \ {"write", "mark"}, Goto(w, step),
         UNCHANGED <<shopify, shopActive, hook, registry, row>>
  PROVE  NothingLost'
<1>1. NoNewWork
  BY GotoNoNewWork
<1> QED
  BY <1>1, RowsKept DEF Same, OnItsWay

LEMMA EditLosesNothing ==
  ASSUME TypeOK, Counted, NEW h \in Hooks, Edit(h)
  PROVE  NothingLost'
<1>1. hook'[h] = "sent" /\ row'[h].status = "NONE"
  BY DEF Edit, Counted, TypeOK
<1> QED
  BY <1>1 DEF NothingLost, OnItsWay

LEMMA WebhookLosesNothing ==
  ASSUME TypeOK, NothingLost, NEW h \in Hooks, FindPending(h) \/ CreateJob(h) \/ Redeliver(h)
  PROVE  NothingLost'
<1>1. UNCHANGED <<shopify, shopActive, registry, pc, job, attempt, got>>
  BY DEF FindPending, CreateJob, Redeliver, worker
<1>2. NoNewWork
  BY <1>1 DEF NoNewWork
<1>3. CASE FindPending(h) /\ Coalesces(h)
  <2>1. PICK j \in Hooks : row[j].status = "PENDING"
    BY <1>3 DEF Coalesces
  <2>2. row'[j].status = "PENDING"
    BY <1>3, <2>1 DEF FindPending
  <2> QED
    BY <2>2, JobWaits
<1>4. CASE CreateJob(h) /\ row[h].status = "NONE"
  <2>1. row'[h].status = "PENDING"
    BY <1>4 DEF CreateJob, Write, TypeOK, NoRow
  <2> QED
    BY <2>1, JobWaits
<1>5. CASE CreateJob(h) /\ row[h].status # "NONE"
  <2>1. \A j \in Hooks : Same(j) /\ (OnItsWay(j) => hook'[j] \in {"sent", "creating"})
    BY <1>5 DEF CreateJob, Same, OnItsWay, TypeOK
  <2> QED
    BY <1>1, <1>2, <2>1, RowsKept
<1>6. CASE (FindPending(h) /\ ~Coalesces(h)) \/ Redeliver(h)
  <2>1. \A j \in Hooks : Same(j) /\ (OnItsWay(j) => hook'[j] \in {"sent", "creating"})
    BY <1>6 DEF FindPending, Redeliver, Same, OnItsWay, TypeOK
  <2> QED
    BY <1>1, <1>2, <2>1, RowsKept
<1> QED
  BY <1>3, <1>4, <1>5, <1>6

\* The new attempt has read nothing yet, and the old ones no longer count.
LEMMA ClaimLosesNothing ==
  ASSUME TypeOK, Tied, Counted, NothingLost, NEW w \in Workers, Claim(w)
  PROVE  NothingLost'
<1>1. CASE w \notin fresh
  <2>1. Goto(w, "idle") /\ "idle" \in WorkerSteps \ {"write", "mark"}
    BY <1>1 DEF Claim, WorkerSteps
  <2> QED
    BY <1>1, <2>1, GotoLosesNothing DEF Claim, source
<1>2. CASE w \in fresh
  <2>0. PICK j \in Hooks : j = job[w]
    BY DEF Claim, Tied
  <2>1. row[j].attempts \in Int
    BY RowTyped DEF TypeOK
  <2>2. row'[j].status = "PROCESSING" /\ row'[j].attempts = row[j].attempts + 1
    BY <1>2, <2>0, <2>1 DEF Claim, Write, TypeOK
  <2>3. \A v \in Workers : job'[v] = j => attempt'[v] # row'[j].attempts
    <3> SUFFICES ASSUME NEW v \in Workers, job'[v] = j
                 PROVE  attempt'[v] # row'[j].attempts
      OBVIOUS
    <3>1. attempt'[v] = attempt[v] /\ job[v] = j
      BY <1>2 DEF Claim, Goto, TypeOK
    <3>2. attempt[v] \in Int
      BY DEF TypeOK
    <3>3. pc[v] # "idle" => attempt[v] <= row[j].attempts
      BY <3>1 DEF Counted
    <3>4. pc[v] = "idle" => attempt[v] = 0
      BY DEF Counted
    <3>5. row[j].attempts >= 0
      BY <2>1, RowTyped DEF TypeOK
    <3> QED
      BY <2>1, <2>2, <3>1, <3>2, <3>3, <3>4, <3>5
  <2>4. WillHandleLatest(j)'
    BY <2>2, <2>3 DEF WillHandleLatest, IsCurrent
  <2> QED
    BY <2>1, <2>4 DEF NothingLost
<1> QED
  BY <1>1, <1>2

LEMMA FetchLosesNothing ==
  ASSUME TypeOK, Tied, Ordered, NothingLost, NEW w \in Workers, Fetch(w)
  PROVE  NothingLost'
<1>1. job[w] \in Hooks
  BY DEF Fetch, Tied
<1>2. got'[w] = shopify /\ pc'[w] = "write"
  BY <1>1 DEF Fetch, Ordered, TypeOK
<1>3. \A v \in Workers \ {w} : pc'[v] = pc[v] /\ got'[v] = got[v]
  BY DEF Fetch, TypeOK
<1>4. UNCHANGED <<shopify, shopActive, hook, registry, row, job, attempt>>
  BY DEF Fetch, source
<1>5. NoNewWork
  BY <1>2, <1>3, <1>4 DEF NoNewWork
<1> QED
  BY <1>4, <1>5, RowsKept DEF Same, OnItsWay

\* Only w is past its read, and it writes the latest version or an edit is owed
\* to another run.
LEMMA WriteLosesNothing ==
  ASSUME TypeOK, Serial, NothingLost, NEW w \in Workers,
         WriteIndex(w) \/ Block(w)
  PROVE  NothingLost'
<1>1. \A v \in Workers \ {w} : pc[v] \notin Locked /\ pc'[v] = pc[v]
  BY DEF WriteIndex, Block, Goto, TypeOK, Serial, Locked, InTask
<1>2. /\ pc[w] = "write" /\ pc'[w] # "write" /\ registry' = got[w]
      /\ UNCHANGED <<shopify, shopActive, hook, row, job, attempt>>
  BY DEF WriteIndex, Block, Goto, TypeOK, source
<1>3. CASE got[w] = shopify
  BY <1>1, <1>2, <1>3 DEF NothingLost, Owed, Locked, InTask
<1>4. CASE got[w] # shopify
  <2> SUFFICES ASSUME shopActive
               PROVE  \E h \in Hooks : OnItsWay(h)' \/ WillHandleLatest(h)'
    BY <1>2 DEF NothingLost
  <2>1. PICK h \in Hooks : OnItsWay(h) \/ WillHandleLatest(h)
    BY <1>2, <1>4 DEF NothingLost, Owed
  <2>2. CASE OnItsWay(h)
    BY <1>2, <2>2 DEF OnItsWay
  <2>3. CASE WillHandleLatest(h)
    <3>1. job[w] = h => ~(row[h].status = "PROCESSING" /\ IsCurrent(h, attempt[w]))
      BY <1>2, <1>4, <2>3 DEF WillHandleLatest, IsCurrent
    <3>2. \A v \in Workers \ {w} : pc'[v] \notin {"write", "mark"}
      BY <1>1 DEF Locked, InTask
    <3> QED
      BY <1>2, <2>3, <3>1, <3>2 DEF WillHandleLatest, IsCurrent
  <2> QED
    BY <2>1, <2>2, <2>3
<1> QED
  BY <1>3, <1>4

LEMMA FailedLosesNothing ==
  ASSUME TypeOK, Tied, NothingLost, NEW w \in Workers, MarkFailed(w) \/ CatchError(w)
  PROVE  NothingLost'
<1>1. job[w] \in Hooks /\ Finish(w, "FAILED")
  BY DEF MarkFailed, CatchError, Tied
<1>2. PICK step \in {"idle", "failed"} : Goto(w, step)
  BY DEF MarkFailed, CatchError
<1>3. step \in WorkerSteps \ {"write", "mark"}
  BY DEF WorkerSteps, Locked
<1>4. UNCHANGED <<shopify, shopActive, hook, registry>>
  BY DEF MarkFailed, CatchError, source
<1>5. CASE IsCurrent(job[w], attempt[w])
  <2>1. row'[job[w]].status = "FAILED"
    <3>1. row[job[w]] \in Rows /\ "FAILED" \in Statuses
      BY <1>1 DEF TypeOK, Statuses
    <3> DEFINE r == [row[job[w]] EXCEPT !.status = "FAILED", !.stale = FALSE]
    <3>2. r.status = "FAILED"
      BY <3>1, FieldsKept
    <3>3. row' = [row EXCEPT ![job[w]] = r]
      BY <1>1, <1>5 DEF Finish, Write
    <3> HIDE DEF r
    <3> QED
      BY <1>1, <3>2, <3>3 DEF TypeOK
  <2>2. PICK j \in Hooks : row'[j].status = "FAILED"
    BY <1>1, <2>1
  <2> QED
    BY <2>2, JobWaits
<1>6. CASE ~IsCurrent(job[w], attempt[w])
  <2>1. UNCHANGED row
    BY <1>1, <1>6 DEF Finish
  <2> QED
    BY <1>2, <1>3, <1>4, <2>1, GotoLosesNothing
<1> QED
  BY <1>5, <1>6

\* The job that is done is not the one an edit is owed to.
LEMMA DoneLosesNothing ==
  ASSUME TypeOK, Tied, Serial, Counted, NothingLost, NEW w \in Workers, MarkDone(w)
  PROVE  NothingLost'
<1>1. job[w] \in Hooks /\ Finish(w, "DONE")
  BY DEF MarkDone, Tied
<1>2. NoNewWork
  <2>1. PICK step \in {"released", "fail", "failed"} : Goto(w, step)
    BY DEF MarkDone
  <2>2. step \in WorkerSteps \ {"write", "mark"}
    BY DEF WorkerSteps, Locked, InTask
  <2> QED
    BY <2>1, <2>2, GotoNoNewWork
<1>3. UNCHANGED <<shopify, shopActive, hook, registry>>
  BY DEF MarkDone, source
<1>4. CASE ~IsCurrent(job[w], attempt[w])
  BY <1>1, <1>2, <1>3, <1>4, RowsKept DEF Finish, Same, OnItsWay
<1>5. CASE IsCurrent(job[w], attempt[w])
  <2> SUFFICES ASSUME shopActive, Owed'
               PROVE  \E h \in Hooks : OnItsWay(h)' \/ WillHandleLatest(h)'
    BY <1>3 DEF NothingLost
  <2>1. pc[w] = "mark"
    BY DEF MarkDone, Counted
  <2>2. Owed
    BY <1>2, <1>3, OwedBefore
  <2>3. PICK h \in Hooks : OnItsWay(h) \/ WillHandleLatest(h)
    BY <2>2 DEF NothingLost
  <2>4. \A j \in Hooks \ {job[w]} : Same(j)
    BY <1>1, FinishSame DEF Statuses
  <2>5. CASE h # job[w]
    <3>1. CASE OnItsWay(h)
      BY <1>3, <2>4, <2>5, <3>1 DEF OnItsWay, Same
    <3>2. CASE WillHandleLatest(h)
      BY <1>2, <1>3, <2>4, <2>5, <3>2, WitnessKept
    <3> QED
      BY <2>3, <3>1, <3>2
  <2>6. CASE h = job[w]
    <3>1. registry = shopify
      BY <1>5, <2>1, <2>3, <2>6 DEF OnItsWay, WillHandleLatest, IsCurrent
    <3>2. \A v \in Workers : pc[v] # "write"
      BY <2>1 DEF Serial, Locked, InTask
    <3> QED
      BY <2>2, <3>1, <3>2 DEF Owed
  <2> QED
    BY <2>5, <2>6
<1> QED
  BY <1>4, <1>5

LEMMA NothingLostHolds ==
  ASSUME TypeOK, Tied, Serial, Ordered, Counted, NothingLost, Retryable = {}, [Next]_vars
  PROVE  NothingLost'
<1>1. CASE UNCHANGED vars
  BY <1>1 DEF vars, source, worker, NothingLost, Owed, OnItsWay, WillHandleLatest, IsCurrent
<1>2. CASE Uninstall
  BY <1>2 DEF Uninstall, NothingLost
\* The steps that change neither a status nor a count, and read nothing.
<1>3. ASSUME NEW w \in Workers,
             StartFails(w) \/ AcquireLock(w) \/ Recheck(w) \/ CheckShop(w)
             \/ StatementFails(w) \/ WorkFails(w) \/ Release(w) \/ ReleaseFails(w)
             \/ Crash(w)
      PROVE  NothingLost'
  <2>1. PICK step \in WorkerSteps \ {"write", "mark"} : Goto(w, step)
    BY <1>3 DEF StartFails, AcquireLock, Recheck, CheckShop, StatementFails, WorkFails,
       Release, ReleaseFails, Crash, WorkerSteps, Locked, InTask
  <2>2. UNCHANGED <<shopify, shopActive, hook, registry, row>>
    BY <1>3 DEF StartFails, AcquireLock, Recheck, CheckShop, StatementFails, WorkFails,
       Release, ReleaseFails, Crash, source
  <2> QED
    BY <2>1, <2>2, GotoLosesNothing
<1>4. ASSUME NEW w \in Workers, (\E j \in Hooks : Select(w, j)) \/ Reread(w)
      PROVE  NothingLost'
  <2>1. NoNewWork
    BY <1>4 DEF Select, Reread, Goto, NoNewWork, TypeOK
  <2>2. UNCHANGED <<shopify, shopActive, hook, registry, row>>
    BY <1>4 DEF Select, Reread, source
  <2> QED
    BY <2>1, <2>2, RowsKept DEF Same, OnItsWay
<1>5. ASSUME LeaseExpires \/ (\E w \in Workers : Heartbeat(w)) \/ (\E j \in Hooks : GrowStale(j))
      PROVE  NothingLost'
  <2>1. UNCHANGED <<shopify, shopActive, hook, registry, pc, job, attempt, got>>
    BY <1>5 DEF LeaseExpires, Heartbeat, GrowStale, source, worker
  <2>2. NoNewWork
    BY <2>1 DEF NoNewWork
  <2>3. \A j \in Hooks : Same(j)
    <3>1. CASE LeaseExpires
      BY <3>1 DEF LeaseExpires, Same
    <3>2. ASSUME NEW w \in Workers, Heartbeat(w)
          PROVE  \A j \in Hooks : Same(j)
      <4>1. job[w] \in Hooks /\ row[job[w]] \in Rows
        BY <3>2 DEF Heartbeat, Beating, Tied, TypeOK
      <4> DEFINE r == [row[job[w]] EXCEPT !.stale = FALSE]
      <4>2. r.status = row[job[w]].status /\ r.attempts = row[job[w]].attempts
        BY <4>1, RenewalKeepsFields
      <4>3. row' = [row EXCEPT ![job[w]] = r]
        BY <3>2 DEF Heartbeat, Write
      <4> HIDE DEF r
      <4> QED
        BY <4>2, <4>3 DEF Same, TypeOK
    <3>3. ASSUME NEW i \in Hooks, GrowStale(i)
          PROVE  \A j \in Hooks : Same(j)
      BY <3>3 DEF GrowStale, Same, TypeOK, Rows
    <3> QED
      BY <1>5, <3>1, <3>2, <3>3
  <2> QED
    BY <2>1, <2>2, <2>3, RowsKept DEF OnItsWay
<1>6. ASSUME NEW w \in Workers, TerminalizeExhausted(w)
      PROVE  NothingLost'
  <2>1. PICK j \in Hooks : Write(j, [row[j] EXCEPT !.status = "FAILED", !.stale = FALSE])
    BY <1>6 DEF TerminalizeExhausted
  <2>2. row'[j].status = "FAILED"
    BY <2>1 DEF Write, TypeOK, Rows
  <2> QED
    BY <2>2, JobWaits
<1>7. \A j \in Hooks : ~RetryByHand(j)
  BY DEF RetryByHand
<1>8. ASSUME NEW h \in Hooks, Edit(h) \/ FindPending(h) \/ CreateJob(h) \/ Redeliver(h)
      PROVE  NothingLost'
  BY <1>8, EditLosesNothing, WebhookLosesNothing
<1>9. ASSUME NEW w \in Workers,
             Claim(w) \/ Fetch(w) \/ WriteIndex(w) \/ Block(w) \/ MarkDone(w) \/ MarkFailed(w)
             \/ CatchError(w)
      PROVE  NothingLost'
  BY <1>9, ClaimLosesNothing, FetchLosesNothing, WriteLosesNothing, DoneLosesNothing,
     FailedLosesNothing
<1> QED
  BY <1>1, <1>2, <1>3, <1>4, <1>5, <1>6, <1>7, <1>8, <1>9 DEF Next, Step, Webhook

LEMMA NothingLostIsEnough == NothingLost => NoLostUpdate
BY DEF NothingLost, Owed, OnItsWay, NoLostUpdate, Withheld

\* Coalesced, repeated, retried, crashed and superseded: however the jobs of a
\* product go, an edit that the index does not show is still owed to a webhook
\* or a job, as long as the merchant resets no attempts.
THEOREM NoUpdateLost ==
  ASSUME LiveLeaseLoss = FALSE, Retryable = {}
  PROVE  Spec => []NoLostUpdate
<1> DEFINE Inv == SerialInv /\ Counted /\ NothingLost
<1>1. Init => Inv
  <2>1. ASSUME Init PROVE SerialInv
    <3>1. Serial /\ Ordered
      BY <2>1, JobAssumption DEF Init, Serial, Ordered, AtMost, Locked, InTask
    <3> QED
      BY <2>1, <3>1, InitTyped DEF SerialInv
  <2>2. ASSUME Init PROVE Counted /\ NothingLost
    BY <2>2 DEF Init, Counted, NoRow, NothingLost, Owed
  <2> QED
    BY <2>1, <2>2
<1>2. Inv /\ [Next]_vars => Inv'
  BY TypesHold, SerialHolds, OrderedHolds, CountedHolds, NothingLostHolds DEF SerialInv
<1>3. Inv => NoLostUpdate
  BY NothingLostIsEnough
<1> QED
  BY <1>1, <1>2, <1>3, PTL DEF Spec

\* Without manual retries a job that is open, in the plain sense of its status,
\* waits behind every stale index: what the run job_lost refutes is due to them.
THEOREM StaleHasOpenJob ==
  ASSUME LiveLeaseLoss = FALSE, Retryable = {}
  PROVE  Spec => []StaleIndexHasOpenJob
<1>1. NoLostUpdate => StaleIndexHasOpenJob
  BY DEF NoLostUpdate, StaleIndexHasOpenJob, WillHandleLatest, Statuses
<1> QED
  BY NoUpdateLost, <1>1, PTL
===============================================================================
