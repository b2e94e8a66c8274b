------------------------------- MODULE LeaseLock -------------------------------
(***************************************************************************)
(* commerce/lease-lock.server.ts: the lease row of one (shop, resource)    *)
(* and the calls of withDistributedLease that compete for it, each with    *)
(* its own random owner token (the call stands for its token).             *)
(*                                                                         *)
(* Every SQL statement is a step of its own; the time a statement carries  *)
(* is the Date.now() the caller read BEFORE sending it (reading, renewAt), *)
(* and a process may stop for any length of time between two steps.  Two   *)
(* processes' clocks differ by at most Skew.                               *)
(***************************************************************************)
EXTENDS Integers

CONSTANTS Callers,    \* calls of withDistributedLease
          None,       \* no owner
          LeaseMs,    \* safeLeaseMs
          WaitMs,     \* waitTimeoutMs
          Skew,       \* largest difference between two processes' clocks
          MaxClock    \* bound on time, for model checking

ASSUME LeaseAssumption ==
  /\ None \notin Callers
  /\ LeaseMs \in Nat \ {0}
  /\ WaitMs \in Nat
  /\ Skew \in Nat
  /\ MaxClock \in Nat

VARIABLES
  clock,      \* real time
  row,        \* the row of AiSearchLeaseLock; owner None: there is no row
  pc,         \* pc[c]: what call c does next
  reading,    \* reading[c]: the time c's next step works with: the `now` of its
              \* INSERT, or the leaseUntil stillOwnsLease read; 0 at other steps
  deadline,   \* deadline[c]: when c stops polling (0 once it has)
  renewAt,    \* renewAt[c]: Date.now() of the heartbeat UPDATE in flight, or -1
  leaseLost,  \* leaseLost[c]: a heartbeat found no row of c
  intruded    \* history: calls whose running task saw another call enter

vars == <<clock, row, pc, reading, deadline, renewAt, leaseLost, intruded>>

NoRow   == [owner |-> None, leaseUntil |-> 0]
NoRenew == -1

Polling  == {"insert", "select", "sleep"}
Running  == {"task", "verify"}            \* the heartbeat timer is set
Certified == {"judge", "releaseOk"}       \* the ownership check found the row
Ended    == {"ok", "failed", "crashed"}
Steps    == {"idle", "releaseFailed"}
            \union Polling \union Running \union Certified \union Ended

\* A reading of Date.now() in some process.
ClockReadings == clock .. (clock + Skew)

\* c's next step is step; the locals it no longer needs are gone.
Goto(c, step) ==
  /\ pc' = [pc EXCEPT ![c] = step]
  /\ reading' = [reading EXCEPT ![c] = 0]
  /\ deadline' = IF step \in Polling THEN deadline ELSE [deadline EXCEPT ![c] = 0]

Init ==
  /\ clock = 0
  /\ row = NoRow
  /\ pc = [c \in Callers |-> "idle"]
  /\ reading = [c \in Callers |-> 0]
  /\ deadline = [c \in Callers |-> 0]
  /\ renewAt = [c \in Callers |-> NoRenew]
  /\ leaseLost = [c \in Callers |-> FALSE]
  /\ intruded = {}

-------------------------------------------------------------------------------
(* Acquisition *)

Call(c) ==
  /\ pc[c] = "idle"
  /\ clock + WaitMs + Skew <= MaxClock         \* bound: the wait can elapse
  /\ \E now \in ClockReadings :
       /\ deadline' = [deadline EXCEPT ![c] = now + WaitMs]
       /\ reading' = [reading EXCEPT ![c] = now]
  /\ pc' = [pc EXCEPT ![c] = "insert"]
  /\ UNCHANGED <<clock, row, renewAt, leaseLost, intruded>>

\* Mutant: a lease about to end is taken over.
Acquirable_Early(r, now) == r.owner = None \/ r.leaseUntil <= now + LeaseMs

\* INSERT ... ON DUPLICATE KEY UPDATE: takes a missing or an expired row.
Acquirable(r, now) == r.owner = None \/ r.leaseUntil <= now

\* Mutant: the lease is put in the past.
Insert_EndsInThePast(c) ==
  /\ pc[c] = "insert"
  /\ row' = IF Acquirable(row, reading[c])
              THEN [owner |-> c, leaseUntil |-> reading[c] - LeaseMs]
              ELSE row
  /\ Goto(c, "select")
  /\ UNCHANGED <<clock, renewAt, leaseLost, intruded>>

Insert(c) ==
  /\ pc[c] = "insert"
  /\ row' = IF Acquirable(row, reading[c])
              THEN [owner |-> c, leaseUntil |-> reading[c] + LeaseMs]
              ELSE row
  /\ Goto(c, "select")
  /\ UNCHANGED <<clock, renewAt, leaseLost, intruded>>

\* Mutant: any row will do.
SelectOwn_AnyOwner(c) ==
  /\ pc[c] = "select"
  /\ row.owner # None
  /\ Goto(c, "task")
  /\ intruded' = intruded \union {d \in Callers \ {c} : pc[d] \in Running}
  /\ UNCHANGED <<clock, row, renewAt, leaseLost>>

\* The SELECT that follows finds the call's own token: the task starts.
SelectOwn(c) ==
  /\ pc[c] = "select"
  /\ row.owner = c
  /\ Goto(c, "task")
  /\ intruded' = intruded \union {d \in Callers \ {c} : pc[d] \in Running}
  /\ UNCHANGED <<clock, row, renewAt, leaseLost>>

\* Mutant: a waiter never looks at its deadline.
SelectOther_Patient(c) ==
  /\ pc[c] = "select"
  /\ row.owner # c
  /\ Goto(c, "sleep")
  /\ UNCHANGED <<clock, row, renewAt, leaseLost, intruded>>

SelectOther(c) ==
  /\ pc[c] = "select"
  /\ row.owner # c
  /\ \E now \in ClockReadings :
       Goto(c, IF now >= deadline[c] THEN "failed" ELSE "sleep")
  /\ UNCHANGED <<clock, row, renewAt, leaseLost, intruded>>

Poll(c) ==
  /\ pc[c] = "sleep"
  /\ \E now \in ClockReadings : reading' = [reading EXCEPT ![c] = now]
  /\ pc' = [pc EXCEPT ![c] = "insert"]
  /\ UNCHANGED <<clock, row, deadline, renewAt, leaseLost, intruded>>

\* A failing statement leaves withDistributedLease before its try block: a row
\* the INSERT may have written stays behind.
AcquireFails(c) ==
  /\ pc[c] \in {"insert", "select"}
  /\ Goto(c, "failed")
  /\ UNCHANGED <<clock, row, renewAt, leaseLost, intruded>>

-------------------------------------------------------------------------------
(* The heartbeat: a timer of its own; the UPDATE it sends may run late,    *)
(* even after the call has returned.                                       *)

Heartbeat(c) ==
  /\ pc[c] \in Running
  /\ renewAt[c] = NoRenew                       \* heartbeatRunning
  /\ \E now \in ClockReadings : renewAt' = [renewAt EXCEPT ![c] = now]
  /\ UNCHANGED <<clock, row, pc, reading, deadline, leaseLost, intruded>>

Renew(c) ==
  /\ renewAt[c] # NoRenew
  /\ renewAt' = [renewAt EXCEPT ![c] = NoRenew]
  /\ IF row.owner = c
       THEN /\ row' = [row EXCEPT !.leaseUntil = renewAt[c] + LeaseMs]
            /\ UNCHANGED leaseLost
       ELSE /\ leaseLost' = [leaseLost EXCEPT ![c] = TRUE]
            /\ UNCHANGED row
  /\ UNCHANGED <<clock, pc, reading, deadline, intruded>>

\* Mutant: an UPDATE that fails counts as a lost lease.
RenewFails_CountsAsLost(c) ==
  /\ renewAt[c] # NoRenew
  /\ renewAt' = [renewAt EXCEPT ![c] = NoRenew]
  /\ leaseLost' = [leaseLost EXCEPT ![c] = TRUE]
  /\ UNCHANGED <<clock, row, pc, reading, deadline, intruded>>

RenewFails(c) ==
  /\ renewAt[c] # NoRenew
  /\ renewAt' = [renewAt EXCEPT ![c] = NoRenew]
  /\ UNCHANGED <<clock, row, pc, reading, deadline, leaseLost, intruded>>

-------------------------------------------------------------------------------
(* The end of the task, the ownership check, the release *)

TaskReturns(c) ==
  /\ pc[c] = "task"
  /\ Goto(c, IF leaseLost[c] THEN "releaseFailed" ELSE "verify")
  /\ UNCHANGED <<clock, row, renewAt, leaseLost, intruded>>

\* The task, or the SELECT of stillOwnsLease, throws.
TaskThrows(c) ==
  /\ pc[c] \in Running
  /\ Goto(c, "releaseFailed")
  /\ UNCHANGED <<clock, row, renewAt, leaseLost, intruded>>

\* Mutant: the check accepts anybody's row.
Verify_AnyOwner(c) ==
  /\ pc[c] = "verify"
  /\ IF row.owner # None
       THEN /\ pc' = [pc EXCEPT ![c] = "judge"]
            /\ reading' = [reading EXCEPT ![c] = row.leaseUntil]
            /\ UNCHANGED deadline
       ELSE Goto(c, "releaseFailed")
  /\ UNCHANGED <<clock, row, renewAt, leaseLost, intruded>>

Verify(c) ==
  /\ pc[c] = "verify"
  /\ IF row.owner = c
       THEN /\ pc' = [pc EXCEPT ![c] = "judge"]
            /\ reading' = [reading EXCEPT ![c] = row.leaseUntil]
            /\ UNCHANGED deadline
       ELSE Goto(c, "releaseFailed")
  /\ UNCHANGED <<clock, row, renewAt, leaseLost, intruded>>

Judge(c) ==
  /\ pc[c] = "judge"
  /\ \E now \in ClockReadings :
       Goto(c, IF reading[c] > now THEN "releaseOk" ELSE "releaseFailed")
  /\ UNCHANGED <<clock, row, renewAt, leaseLost, intruded>>

\* Where the call ends once the finally block is through.
Outcome(step) == IF step = "releaseOk" THEN "ok" ELSE "failed"

Release(c) ==
  /\ pc[c] \in {"releaseOk", "releaseFailed"}
  /\ row' = IF row.owner = c THEN NoRow ELSE row
  /\ Goto(c, Outcome(pc[c]))
  /\ UNCHANGED <<clock, renewAt, leaseLost, intruded>>

\* The DELETE fails: logged, the call returns all the same.
ReleaseFails(c) ==
  /\ pc[c] \in {"releaseOk", "releaseFailed"}
  /\ Goto(c, Outcome(pc[c]))
  /\ UNCHANGED <<clock, row, renewAt, leaseLost, intruded>>

-------------------------------------------------------------------------------
(* The rest of the world *)

\* The process of c dies; a heartbeat already sent may still reach the database.
Crash(c) ==
  /\ pc[c] \notin Ended \union {"idle"}
  /\ Goto(c, "crashed")
  /\ UNCHANGED <<clock, row, renewAt, leaseLost, intruded>>

\* Mutant: the clean-up deletes the leases that have not run out.
DeleteExpired_Inverted ==
  /\ row.owner # None
  /\ \E now \in ClockReadings : row.leaseUntil > now
  /\ row' = NoRow
  /\ UNCHANGED <<clock, pc, reading, deadline, renewAt, leaseLost, intruded>>

DeleteExpired ==
  /\ row.owner # None
  /\ \E now \in ClockReadings : row.leaseUntil <= now
  /\ row' = NoRow
  /\ UNCHANGED <<clock, pc, reading, deadline, renewAt, leaseLost, intruded>>

\* deleteShopLeaseLocks: the shop's data is erased, whoever holds the lease.
DeleteShop ==
  /\ row.owner # None
  /\ row' = NoRow
  /\ UNCHANGED <<clock, pc, reading, deadline, renewAt, leaseLost, intruded>>

Tick ==
  /\ clock < MaxClock
  /\ clock' = clock + 1
  /\ UNCHANGED <<row, pc, reading, deadline, renewAt, leaseLost, intruded>>

\* What the code of call c runs by itself, without failures.
Progress(c) ==
  \/ Insert(c) \/ SelectOwn(c) \/ SelectOther(c) \/ Poll(c)
  \/ TaskReturns(c) \/ Verify(c) \/ Judge(c) \/ Release(c)

Faults(c) ==
  \/ AcquireFails(c) \/ TaskThrows(c) \/ ReleaseFails(c) \/ Crash(c)

Next ==
  \/ \E c \in Callers :
       Call(c) \/ Progress(c) \/ Faults(c)
       \/ Heartbeat(c) \/ Renew(c) \/ RenewFails(c)
  \/ DeleteExpired
  \/ DeleteShop
  \/ Tick

Spec == Init /\ [][Next]_vars

\* The event loop runs every pending continuation, time passes, a sent
\* statement is answered, the clean-up timer fires.
Fairness ==
  /\ \A c \in Callers : WF_vars(Progress(c)) /\ WF_vars(Renew(c) \/ RenewFails(c))
  /\ WF_vars(Tick)
  /\ WF_vars(DeleteExpired)

FairSpec == Spec /\ Fairness

-------------------------------------------------------------------------------
(* Properties *)

\* The types of the variables.
TypeOK ==
  /\ clock \in Nat
  /\ row \in [owner : Callers \union {None}, leaseUntil : Nat]
  /\ pc \in [Callers -> Steps]
  /\ reading \in [Callers -> Nat]
  /\ deadline \in [Callers -> Nat]
  /\ renewAt \in [Callers -> Nat \union {NoRenew}]
  /\ leaseLost \in [Callers -> BOOLEAN]
  /\ intruded \subseteq Callers

\* withDistributedLease returns a result only if no other call entered its
\* section between its own entry and its ownership check, whatever the clocks,
\* pauses, purges and late heartbeats were.
SuccessIsExclusive ==
  \A c \in Callers : pc[c] \in Certified \union {"ok"} => c \notin intruded

\* A heartbeat that found no row is never a false alarm: the call whose
\* leaseLost is set does not own the row, and no longer can.
LostIsLost == \A c \in Callers : leaseLost[c] => row.owner # c

\* "a live owner is never replaced": another token takes the row over only
\* once its lease has run out, up to the difference of the clocks.
LiveOwnerIsNotReplaced ==
  [][row'.owner # row.owner /\ row.owner # None /\ row'.owner # None
       => row.leaseUntil <= clock + Skew]_vars

\* Every call ends: a waiter acquires the lease or times out, however the
\* holders before it ended.
CallsEnd == \A c \in Callers : pc[c] # "idle" ~> pc[c] \in Ended

\* The row a dead or failed call left behind does not block the resource for
\* ever: the lease runs out (a run ends at MaxClock) and the row is taken over
\* or cleaned up.
OrphanIsReclaimed ==
  \A c \in Callers :
    (pc[c] \in Ended /\ row.owner = c /\ row.leaseUntil <= MaxClock
       /\ renewAt[c] = NoRenew)
      ~> row.owner # c

\* The section view of the state, for ExclusiveSection.
PhaseOf(step) ==
  CASE step \in {"idle"} \union Polling                  -> "out"
    [] step \in Running                                  -> "in"
    [] step \in Certified                                -> "certified"
    [] step = "ok"                                       -> "ok"
    [] step \in {"releaseFailed", "failed", "crashed"}   -> "failed"

SectionHolder ==
  IF row.owner # None /\ pc[row.owner] \in Running \union Certified
    THEN row.owner
    ELSE None

Section == INSTANCE ExclusiveSection WITH
  phase  <- [c \in Callers |-> PhaseOf(pc[c])],
  holder <- SectionHolder

\* The lease implements the exclusive section its callers rely on.
ImplementsSection == Section!Spec
===============================================================================
