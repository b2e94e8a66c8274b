----------------------------- MODULE QueueWorker -----------------------------
(***************************************************************************)
(* How queued product jobs find a worker.  Every process keeps three flags *)
(* (running, scheduled, rerunRequested); a kick schedules a drain, a drain *)
(* runs rounds of QUEUE_CONCURRENCY tasks that claim one job each, and a   *)
(* poll kicks now and then.  A process runs its code in one thread: what   *)
(* happens between two awaits is one step, and others come in between.     *)
(*                                                                         *)
(* Abstractions.  A job that failed, or whose worker is gone, waits for    *)
(* its retry delay or its lease and is then due; ProductSyncJob has the    *)
(* details.  The drain of the catalog queue is this one with Concurrency 1.*)
(***************************************************************************)
EXTENDS Integers, FiniteSets

CONSTANTS Jobs, Procs,
          Enabled,      \* processes with backgroundJobsEnabledInThisProcess
          Concurrency,  \* QUEUE_CONCURRENCY
          BatchSize,    \* QUEUE_MAX_JOBS_PER_DRAIN
          Slots,        \* names for the tasks of a process
          Nobody,
          MaxFaults     \* bound: calls that throw and processes that die

ASSUME EnabledAreProcs == Enabled \subseteq Procs /\ Nobody \notin Procs \cup Jobs
ASSUME SizesPositive == /\ Concurrency \in Nat \ {0} /\ BatchSize \in Nat \ {0}
                        /\ MaxFaults \in Nat /\ IsFiniteSet(Slots)

VARIABLES job,     \* its row: absent, pending, running, waiting (for its time), due, done
          kicker,  \* the process that inserted it and has not kicked yet
          up,      \* processes that are alive
          queue,   \* ProductSyncQueueState and the locals of drainProductSyncQueue
          task,    \* processNextProductSyncJob calls in flight
          faults,  \* how often something broke (bounded)
          broken,  \* history: drains of each process that an error cut short
          excused  \* history: jobs pending when their process lost a drain

queueVars == <<job, kicker, up, queue, task, faults, broken, excused>>

States == {"absent", "pending", "running", "waiting", "due", "done"}
\* processed: by the rounds before; found: in this one, until its last task ends
Queues == [running: BOOLEAN, scheduled: BOOLEAN, rerunRequested: BOOLEAN,
           processed: 0..BatchSize, found: 0..Concurrency - 1]
FreshQueue == [running |-> FALSE, scheduled |-> FALSE, rerunRequested |-> FALSE,
               processed |-> 0, found |-> 0]
\* of: the drain waits for it in its Promise.all; seen: the candidates it read
Tasks == [at: {"off", "select", "claim", "work"}, of: BOOLEAN,
          seen: SUBSET Jobs, job: Jobs \cup {Nobody}]
NoTask == [at |-> "off", of |-> FALSE, seen |-> {}, job |-> Nobody]

\* startProductSyncQueueWorker kicks as the process starts
Started(p) == [FreshQueue EXCEPT !.scheduled = p \in Enabled]

QueueInit == /\ job = [j \in Jobs |-> "absent"] /\ kicker = [j \in Jobs |-> Nobody]
        /\ up = Procs /\ queue = [p \in Procs |-> Started(p)]
        /\ task = [p \in Procs |-> [s \in Slots |-> NoTask]]
        /\ faults = 0 /\ broken = [p \in Procs |-> 0] /\ excused = {}
-----------------------------------------------------------------------------
\* kickProductSyncQueue, on the flags q of process p
Kicked(p, q) ==
  CASE p \notin Enabled -> q
    [] p \in Enabled /\ q.running -> [q EXCEPT !.rerunRequested = TRUE]
    [] OTHER -> [q EXCEPT !.scheduled = TRUE]

\* Mutant: rerunRequested is reset before it is read.
Ended_Forgets(p, q, hitBatchLimit) ==
  LET idle == [FreshQueue EXCEPT !.scheduled = q.scheduled]
  IN IF hitBatchLimit THEN Kicked(p, idle) ELSE idle

\* the finally block of the drain
Ended(p, q, hitBatchLimit) ==
  LET idle == [FreshQueue EXCEPT !.scheduled = q.scheduled]
  IN IF q.rerunRequested \/ hitBatchLimit THEN Kicked(p, idle) ELSE idle

Free(p) == {s \in Slots : task[p][s].at = "off"}
\* Mutant: off by one.
Width_OneMore(processed) == IF Concurrency < BatchSize - processed
                            THEN Concurrency ELSE BatchSize - processed + 1

Width(processed) == IF Concurrency < BatchSize - processed
                    THEN Concurrency ELSE BatchSize - processed

\* Promise.all over width new tasks; who is left from an older drain stays
RoundStarts(p, tasks, q, processed) ==
  \E new \in SUBSET {s \in Slots : tasks[s].at = "off"} :
    /\ Cardinality(new) = Width(processed)
    /\ task' = [task EXCEPT ![p] = [s \in Slots |->
                  IF s \in new THEN [NoTask EXCEPT !.at = "select", !.of = TRUE]
                               ELSE tasks[s]]]
    /\ queue' = [queue EXCEPT ![p] = [q EXCEPT !.processed = processed, !.found = 0]]

\* the timer of a kick
DrainStarts(p) ==
  /\ p \in up /\ queue[p].scheduled
  /\ LET q == [queue[p] EXCEPT !.scheduled = FALSE]
     IN IF q.running
        THEN queue' = [queue EXCEPT ![p] = [q EXCEPT !.rerunRequested = TRUE]]
             /\ UNCHANGED task
        ELSE RoundStarts(p, task[p], [q EXCEPT !.running = TRUE], 0)
  /\ UNCHANGED <<job, kicker, up, faults, broken, excused>>

\* a task of p is over; the last one of a round ends the round
TaskEnds(p, s, foundJob) ==
  LET tasks == [task[p] EXCEPT ![s] = NoTask]
      q == [queue[p] EXCEPT !.found = IF foundJob THEN @ + 1 ELSE @]
      processed == q.processed + q.found
  IN IF ~task[p][s].of
     THEN task' = [task EXCEPT ![p] = tasks] /\ UNCHANGED queue
     ELSE IF \E t \in Slots : tasks[t].of
     THEN task' = [task EXCEPT ![p] = tasks] /\ queue' = [queue EXCEPT ![p] = q]
     ELSE IF q.found > 0 /\ processed < BatchSize
     THEN RoundStarts(p, tasks, q, processed)
     ELSE task' = [task EXCEPT ![p] = tasks]
          /\ queue' = [queue EXCEPT ![p] = Ended(p, q, processed >= BatchSize)]

\* Mutant: what failed once is not a candidate.
Claimable_PendingOnly == {j \in Jobs : job[j] = "pending"}

Claimable == {j \in Jobs : job[j] \in {"pending", "due"}}

\* claimNextProductSyncJob: the candidates ...
SelectCandidates(p, s) ==
  /\ task[p][s].at = "select"
  /\ task' = [task EXCEPT ![p][s].at = "claim", ![p][s].seen = Claimable]
  /\ UNCHANGED <<job, kicker, up, queue, faults, broken, excused>>

\* ... and the first UPDATE among them that changes a row
ClaimJob(p, s) ==
  /\ task[p][s].at = "claim"
  /\ IF task[p][s].seen \cap Claimable = {}
     THEN TaskEnds(p, s, FALSE) /\ UNCHANGED <<job, excused>>
     ELSE \E j \in task[p][s].seen \cap Claimable :
            /\ job' = [job EXCEPT ![j] = "running"]
            /\ task' = [task EXCEPT ![p][s].at = "work", ![p][s].job = j,
                                    ![p][s].seen = {}]
            /\ excused' = excused \ {j} /\ UNCHANGED queue
  /\ UNCHANGED <<kicker, up, faults, broken>>

FinishJob(p, s) ==
  /\ task[p][s].at = "work"
  /\ job' = [job EXCEPT ![task[p][s].job] = "done"]
  /\ TaskEnds(p, s, TRUE)
  /\ UNCHANGED <<kicker, up, faults, broken, excused>>

Fault == faults < MaxFaults /\ faults' = faults + 1

\* the job fails, and its error is handled
FailJob(p, s) ==
  /\ task[p][s].at = "work" /\ Fault
  /\ job' = [job EXCEPT ![task[p][s].job] = "waiting"]
  /\ TaskEnds(p, s, TRUE)
  /\ UNCHANGED <<kicker, up, broken, excused>>

\* a statement of the claim or of the error handler throws: Promise.all rejects
\* and the drain ends, while its other tasks go on
TaskThrows(p, s) ==
  /\ task[p][s].at # "off" /\ Fault
  /\ job' = IF task[p][s].at = "work" THEN [job EXCEPT ![task[p][s].job] = "waiting"]
                                      ELSE job
  /\ task' = [task EXCEPT ![p] = [t \in Slots |->
                IF t = s THEN NoTask
                ELSE [task[p][t] EXCEPT !.of = @ /\ ~task[p][s].of]]]
  /\ IF task[p][s].of
     THEN /\ queue' = [queue EXCEPT ![p] = Ended(p, queue[p], FALSE)]
          /\ broken' = [broken EXCEPT ![p] = @ + 1]
          /\ excused' = excused \cup {j \in Jobs : job[j] = "pending"}
     ELSE UNCHANGED <<queue, broken, excused>>
  /\ UNCHANGED <<kicker, up>>
-----------------------------------------------------------------------------
\* a webhook's handler inserts the job, and kicks when the INSERT has returned
Enqueue(p, j) ==
  /\ p \in up /\ job[j] = "absent"
  /\ job' = [job EXCEPT ![j] = "pending"] /\ kicker' = [kicker EXCEPT ![j] = p]
  /\ UNCHANGED <<up, queue, task, faults, broken, excused>>

Kick(j) ==
  /\ kicker[j] # Nobody /\ kicker' = [kicker EXCEPT ![j] = Nobody]
  /\ queue' = [queue EXCEPT ![kicker[j]] = Kicked(kicker[j], @)]
  \* a kick in a process without background jobs does nothing
  /\ excused' = IF kicker[j] \in Enabled THEN excused ELSE excused \cup {j}
  /\ UNCHANGED <<job, up, task, faults, broken>>

Poll(p) ==
  /\ p \in up \cap Enabled
  /\ queue' = [queue EXCEPT ![p] = Kicked(p, @)]
  /\ UNCHANGED <<job, kicker, up, task, faults, broken, excused>>

\* the retry delay or the lease is over
TimePasses(j) ==
  /\ job[j] = "waiting" /\ job' = [job EXCEPT ![j] = "due"]
  /\ UNCHANGED <<kicker, up, queue, task, faults, broken, excused>>

Crash(p) ==
  /\ p \in up /\ Fault /\ up' = up \ {p}
  /\ job' = [j \in Jobs |-> IF \E s \in Slots : task[p][s].job = j
                            THEN "waiting" ELSE job[j]]
  /\ kicker' = [j \in Jobs |-> IF kicker[j] = p THEN Nobody ELSE kicker[j]]
  /\ queue' = [queue EXCEPT ![p] = FreshQueue]
  /\ task' = [task EXCEPT ![p] = [s \in Slots |-> NoTask]]
  /\ excused' = excused \cup {j \in Jobs : job[j] = "pending"}
  /\ UNCHANGED broken

Restart(p) ==
  /\ p \notin up /\ up' = up \cup {p}
  /\ queue' = [queue EXCEPT ![p] = Started(p)]
  /\ UNCHANGED <<job, kicker, task, faults, broken, excused>>

Work(p, s) == SelectCandidates(p, s) \/ ClaimJob(p, s) \/ FinishJob(p, s)

QueueNext ==
  \/ \E p \in Procs : DrainStarts(p) \/ Poll(p) \/ Crash(p) \/ Restart(p)
  \/ \E p \in Procs, s \in Slots : Work(p, s) \/ FailJob(p, s) \/ TaskThrows(p, s)
  \/ \E j \in Jobs : Kick(j) \/ TimePasses(j) \/ (\E p \in Procs : Enqueue(p, j))

\* The event loop runs its timers and continuations, the poll ticks, time
\* passes, and a process that died is started again.
QueueFairness ==
  /\ \A p \in Procs : /\ WF_queueVars(DrainStarts(p)) /\ WF_queueVars(Poll(p))
                    /\ WF_queueVars(Restart(p))
  /\ \A p \in Procs, s \in Slots : WF_queueVars(Work(p, s))
  /\ \A j \in Jobs : WF_queueVars(Kick(j)) /\ WF_queueVars(TimePasses(j))

QueueSpec == QueueInit /\ [][QueueNext]_queueVars
QueueFairSpec == QueueSpec /\ QueueFairness
-----------------------------------------------------------------------------
(* Properties.                                                             *)

QueueTypeOK ==
  /\ job \in [Jobs -> States] /\ kicker \in [Jobs -> Procs \cup {Nobody}]
  /\ up \subseteq Procs /\ queue \in [Procs -> Queues]
  /\ task \in [Procs -> [Slots -> Tasks]]
  /\ faults \in 0..MaxFaults /\ excused \subseteq Jobs

\* what in process p will still come to look at job j
Awake(p, j) ==
  \/ queue[p].scheduled
  \/ /\ queue[p].running
     /\ \/ queue[p].rerunRequested \/ queue[p].found > 0
        \/ \E s \in Slots : /\ task[p][s].of
                            /\ \/ task[p][s].at \in {"select", "work"}
                               \/ j \in task[p][s].seen

\* A job whose inserter has kicked is not forgotten: some process has a drain
\* scheduled, asked for again, or with a look at the job still to come, unless
\* an error cut a drain short; then the poll has to find it.
NoLostWakeup ==
  \A j \in Jobs : job[j] = "pending" /\ kicker[j] = Nobody /\ j \notin excused =>
    \E p \in up : Awake(p, j)

\* However kicks and polls fall, a process works on Concurrency jobs at most,
\* plus those that drains which an error cut short have left behind.
InFlight(p) == Cardinality({s \in Slots : task[p][s].at # "off"})
InFlightBounded == \A p \in Procs : InFlight(p) <= Concurrency + broken[p] * (Concurrency - 1)

\* Every job is done in the end, whichever process dies or drain breaks.
EveryJobDone == \A j \in Jobs : job[j] = "pending" ~> job[j] = "done"
=============================================================================
