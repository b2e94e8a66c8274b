--------------------------- MODULE UsageReservation ---------------------------
(***************************************************************************)
(* commerce/usage.server.ts: the usage counters of one shop's billing      *)
(* period and the reservations that pay for searches and product vectors.  *)
(*                                                                         *)
(* An operation is one run of the storefront search (proxy.ai-search.ts)   *)
(* or of indexProduct (product-indexer.server.ts) and owns one reservation *)
(* id.  Runs for the same product may overlap: the catalog scan does not   *)
(* take the product lock.  The vector store and the database share no      *)
(* transaction: a process may die, and a call may fail, between any two    *)
(* steps.  Housekeeping, in every process, resolves the reservations left  *)
(* PENDING from a batch of rows it read earlier.                           *)
(***************************************************************************)
EXTENDS Integers, FiniteSets

CONSTANTS
  Ops,           \* operations
  KindOf,        \* KindOf[o]: the kind of o's reservation
  Products,
  ProductOf,     \* ProductOf[o]: the product o embeds; None for a search
  None,
  Limits,        \* the limits the shop's entitlement may state
  Unlimited,     \* the limit null
  Reconcilers,   \* processes that run housekeeping
  Deletable,     \* products the merchant may delete
  SlowOps        \* operations whose reservation may time out, or even be
                 \* deleted, while the operation still runs

Kinds == {"SEARCH", "VECTOR_UPDATE", "PRODUCT_EMBEDDING"}

Searches  == {o \in Ops : KindOf[o] = "SEARCH"}
Updates   == {o \in Ops : KindOf[o] = "VECTOR_UPDATE"}
Indexings == {o \in Ops : KindOf[o] = "PRODUCT_EMBEDDING"}

ASSUME UsageAssumption ==
  /\ IsFiniteSet(Ops)
  /\ KindOf \in [Ops -> Kinds]
  /\ None \notin Products \union Ops
  /\ ProductOf \in [Ops -> Products \union {None}]
  /\ \A o \in Ops : ProductOf[o] = None <=> o \in Searches
  /\ Unlimited \notin Nat
  /\ Limits \subseteq Nat \union {Unlimited}
  /\ Deletable \subseteq Products
  /\ SlowOps \subseteq Ops

VARIABLES
  usage,     \* the counters of AiSearchUsagePeriod
  row,       \* row[o]: o's row of AiSearchUsageReservation
  embedded,  \* operations with an embeddingConsumedAt (kept after the row)
  events,    \* events[o]: success events written for o in AiSearchUsageEvent
  pc,        \* pc[o]: where the operation is
  marker,    \* marker[p]: usageReservationId in p's vector payload, or None
  plan       \* plan[r][o]: what r's reconciliation pass does next about o

vars == <<usage, row, embedded, events, pc, marker, plan>>

Counters == {"search", "vectorUpdate", "productIndex", "embedding", "blocked"}
\* applied: effectAppliedAt is set; own (history): by the operation itself, not
\* by a pass that found its marker; stale: updatedAt is before the cutoff.
NoRow    == [status |-> "NONE", applied |-> FALSE, own |-> FALSE, stale |-> FALSE]
NewRow   == [NoRow EXCEPT !.status = "PENDING"]
Resolved == {"COMMITTED", "ROLLED_BACK"}
Rows     == [status : {"NONE", "PENDING"} \union Resolved,
             applied : BOOLEAN, own : BOOLEAN, stale : BOOLEAN]

Working  == {"working", "failing", "marking", "committing"}
PcStates == {"idle", "refused", "returned", "crashed"} \union Working

\* seenBare, seenApplied: in the batch, effectAppliedAt null or not;
\* mark, commit, rollback: the call the pass makes next.
Deciding  == {"mark", "commit", "rollback"}
PlanSteps == {"no", "seenBare", "seenApplied"} \union Deciding

NoPlan == [o \in Ops |-> "no"]

Init ==
  /\ usage = [k \in Counters |-> 0]
  /\ row = [o \in Ops |-> NoRow]
  /\ embedded = {}
  /\ events = [o \in Ops |-> 0]
  /\ pc = [o \in Ops |-> "idle"]
  /\ marker = [p \in Products |-> None]
  /\ plan = [r \in Reconcilers |-> NoPlan]

Pending(o) == row[o].status = "PENDING"

\* Time limits of hours and days are over only when the operation is, unless
\* its process was suspended or its provider calls hung.
TimeoutAllowed(o) == o \in SlowOps \/ pc[o] \notin Working

-------------------------------------------------------------------------------
(* The database statements, each one transaction *)

\* Mutant: the last unit is given out twice.
Admits_OneMore(o, limit) ==
  \/ o \in Indexings
  \/ limit = Unlimited
  \/ o \in Searches /\ usage["search"] <= limit
  \/ o \in Updates /\ usage["vectorUpdate"] <= limit

\* reserve...Usage takes a unit of the quota when the counter is below it.
Admits(o, limit) ==
  \/ o \in Indexings
  \/ limit = Unlimited
  \/ o \in Searches /\ usage["search"] < limit
  \/ o \in Updates /\ usage["vectorUpdate"] < limit

Add(k) == [usage EXCEPT ![k] = @ + 1]

Taken(o) ==
  CASE o \in Searches  -> Add("search")
    [] o \in Updates   -> Add("vectorUpdate")
    [] o \in Indexings -> usage

\* Mutant: no clamp, and the wrong amount.
Lowered_ByTwo(n) == n - 2

Lowered(n) == IF n > 0 THEN n - 1 ELSE 0

GivenBack(o) ==
  CASE o \in Searches  -> [usage EXCEPT !["search"] = Lowered(@)]
    [] o \in Updates   -> [usage EXCEPT !["vectorUpdate"] = Lowered(@)]
    [] o \in Indexings -> usage

\* markUsageReservationEffectApplied, called by the operation itself or by a pass
MarkRow(o, own) ==
  row' = IF Pending(o)
           THEN [row EXCEPT ![o] = [@ EXCEPT !.applied = TRUE, !.stale = FALSE,
                                             !.own = row[o].own \/ own]]
           ELSE row

\* It throws unless it marked the row, or the row says applied or committed.
MarkThrows(o) ==
  ~Pending(o) /\ ~row[o].applied /\ row[o].status # "COMMITTED"

\* Mutant: the UPDATE does not ask for status PENDING.
CommitRow_AnyStatus(o) ==
  /\ row' = [row EXCEPT ![o] =
               [@ EXCEPT !.status = "COMMITTED", !.applied = TRUE, !.stale = FALSE]]
  /\ events' = [events EXCEPT ![o] = @ + 1]
  /\ usage' = IF o \in Indexings THEN Add("productIndex") ELSE usage

\* commitSearchUsage, commitProductEmbeddingUsage
CommitRow(o) ==
  IF Pending(o)
    THEN /\ row' = [row EXCEPT ![o] =
                      [@ EXCEPT !.status = "COMMITTED", !.applied = TRUE, !.stale = FALSE]]
         /\ events' = [events EXCEPT ![o] = @ + 1]
         /\ usage' = IF o \in Indexings THEN Add("productIndex") ELSE usage
    ELSE UNCHANGED <<row, events, usage>>

\* Mutant: the UPDATE does not ask for status PENDING.
RollbackRow_AnyStatus(o) ==
  /\ row' = [row EXCEPT ![o] = [@ EXCEPT !.status = "ROLLED_BACK", !.stale = FALSE]]
  /\ usage' = GivenBack(o)
  /\ UNCHANGED events

\* rollbackSearchUsage, rollbackProductEmbeddingUsage
RollbackRow(o) ==
  IF Pending(o)
    THEN /\ row' = [row EXCEPT ![o] = [@ EXCEPT !.status = "ROLLED_BACK", !.stale = FALSE]]
         /\ usage' = GivenBack(o)
         /\ UNCHANGED events
    ELSE UNCHANGED <<row, events, usage>>

-------------------------------------------------------------------------------
(* The operation *)

Goto(o, step) == pc' = [pc EXCEPT ![o] = step]

Reserve(o) ==
  /\ pc[o] = "idle"
  /\ \E limit \in Limits :
       IF Admits(o, limit)
         THEN /\ usage' = Taken(o)
              /\ row' = [row EXCEPT ![o] = NewRow]
              /\ Goto(o, "working")
         ELSE /\ usage' = Add("blocked")
              /\ Goto(o, "refused")
              /\ UNCHANGED row
  /\ UNCHANGED <<embedded, events, marker, plan>>

\* Mutant: embeddingConsumedAt is not looked at.
Consume_EveryReport(o) ==
  /\ pc[o] = "working" \/ (o \in Searches /\ pc[o] \in Working \union {"returned"})
  /\ Pending(o)
  /\ embedded' = embedded \union {o}
  /\ row' = [row EXCEPT ![o].stale = FALSE]
  /\ usage' = Add("embedding")
  /\ UNCHANGED <<events, pc, marker, plan>>

\* recordEmbeddingConsumed, best effort.  The search reports it from a callback
\* of a retrieval that may outlast the response.
Consume(o) ==
  /\ pc[o] = "working" \/ (o \in Searches /\ pc[o] \in Working \union {"returned"})
  /\ Pending(o)
  /\ o \notin embedded
  /\ embedded' = embedded \union {o}
  /\ row' = [row EXCEPT ![o].stale = FALSE]
  /\ usage' = Add("embedding")
  /\ UNCHANGED <<events, pc, marker, plan>>

\* The search has its results.
Respond(o) ==
  /\ pc[o] = "working"
  /\ o \in Searches
  /\ Goto(o, "marking")
  /\ UNCHANGED <<usage, row, embedded, events, marker, plan>>

\* upsertProductVector: the answer may be lost although the write was applied.
WriteVector(o) ==
  /\ pc[o] = "working"
  /\ o \notin Searches
  /\ marker' = [marker EXCEPT ![ProductOf[o]] = o]
  /\ \E step \in {"marking", "failing"} : Goto(o, step)
  /\ UNCHANGED <<usage, row, embedded, events, plan>>

WorkFails(o) ==
  /\ pc[o] = "working"
  /\ Goto(o, "failing")
  /\ UNCHANGED <<usage, row, embedded, events, marker, plan>>

\* Whether or not marking succeeds, the operation goes on to commit.
Mark(o) ==
  /\ pc[o] = "marking"
  /\ MarkRow(o, TRUE)
  /\ Goto(o, "committing")
  /\ UNCHANGED <<usage, embedded, events, marker, plan>>

Commit(o) ==
  /\ pc[o] = "committing"
  /\ CommitRow(o)
  /\ Goto(o, "returned")
  /\ UNCHANGED <<embedded, marker, plan>>

Rollback(o) ==
  /\ pc[o] = "failing"
  /\ RollbackRow(o)
  /\ Goto(o, "returned")
  /\ UNCHANGED <<embedded, marker, plan>>

\* A database call throws: logged, and the row is left to housekeeping.
CallFails(o) ==
  /\ \/ pc[o] = "marking" /\ Goto(o, "committing")
     \/ pc[o] \in {"committing", "failing"} /\ Goto(o, "returned")
  /\ UNCHANGED <<usage, row, embedded, events, marker, plan>>

Crash(o) ==
  /\ pc[o] \in Working
  /\ Goto(o, "crashed")
  /\ UNCHANGED <<usage, row, embedded, events, marker, plan>>

-------------------------------------------------------------------------------
(* reconcileStaleUsageReservations, deleteResolvedUsageReservations *)

\* updatedAt falls behind the time limit.
GrowStale(o) ==
  /\ Pending(o)
  /\ ~row[o].stale
  /\ TimeoutAllowed(o)
  /\ row' = [row EXCEPT ![o].stale = TRUE]
  /\ UNCHANGED <<usage, embedded, events, pc, marker, plan>>

StaleRows == {o \in Ops : Pending(o) /\ row[o].stale}

PlanFor(r, o, step) == plan' = [plan EXCEPT ![r][o] = step]

Scan(r) ==
  /\ plan[r] = NoPlan
  /\ StaleRows # {}
  /\ plan' = [plan EXCEPT ![r] =
                [o \in Ops |-> IF o \notin StaleRows THEN "no"
                               ELSE IF row[o].applied THEN "seenApplied"
                               ELSE "seenBare"]]
  /\ UNCHANGED <<usage, row, embedded, events, pc, marker>>

\* Mutant: the pass does not look at effectAppliedAt.
Decide_ByMarkerOnly(r, o) ==
  /\ plan[r][o] \in {"seenBare", "seenApplied"}
  /\ \A q \in Ops : plan[r][q] \notin Deciding
  /\ PlanFor(r, o, IF o \in Searches THEN "rollback"
                   ELSE IF marker[ProductOf[o]] = o THEN "mark"
                   ELSE "rollback")
  /\ UNCHANGED <<usage, row, embedded, events, pc, marker>>

\* Mutant: a row without its marker is left alone.
Decide_MarkedOnly(r, o) ==
  /\ plan[r][o] \in {"seenBare", "seenApplied"}
  /\ \A q \in Ops : plan[r][q] \notin Deciding
  /\ PlanFor(r, o, IF plan[r][o] = "seenApplied" THEN "commit"
                   ELSE IF o \in Searches THEN "rollback"
                   ELSE IF marker[ProductOf[o]] = o THEN "mark"
                   ELSE "no")
  /\ UNCHANGED <<usage, row, embedded, events, pc, marker>>

\* The pass takes its rows one after the other.
Decide(r, o) ==
  /\ plan[r][o] \in {"seenBare", "seenApplied"}
  /\ \A q \in Ops : plan[r][q] \notin Deciding
  /\ PlanFor(r, o, IF plan[r][o] = "seenApplied" THEN "commit"
                   ELSE IF o \in Searches THEN "rollback"
                   ELSE IF marker[ProductOf[o]] = o THEN "mark"
                   ELSE "rollback")
  /\ UNCHANGED <<usage, row, embedded, events, pc, marker>>

MarkFound(r, o) ==
  /\ plan[r][o] = "mark"
  /\ MarkRow(o, FALSE)
  /\ PlanFor(r, o, IF MarkThrows(o) THEN "no" ELSE "commit")
  /\ UNCHANGED <<usage, embedded, events, pc, marker>>

Resolve(r, o) ==
  /\ \/ plan[r][o] = "commit" /\ CommitRow(o)
     \/ plan[r][o] = "rollback" /\ RollbackRow(o)
  /\ PlanFor(r, o, "no")
  /\ UNCHANGED <<embedded, pc, marker>>

\* The vector cannot be read, or a statement throws: the row waits for the
\* next pass.
SkipRow(r, o) ==
  /\ \/ plan[r][o] \in Deciding
     \/ plan[r][o] = "seenBare" /\ o \notin Searches
  /\ PlanFor(r, o, "no")
  /\ UNCHANGED <<usage, row, embedded, events, pc, marker>>

\* The process that runs the pass dies.
PassDies(r) ==
  /\ plan[r] # NoPlan
  /\ plan' = [plan EXCEPT ![r] = NoPlan]
  /\ UNCHANGED <<usage, row, embedded, events, pc, marker>>

DeleteResolved(o) ==
  /\ row[o].status \in Resolved
  /\ TimeoutAllowed(o)
  /\ row' = [row EXCEPT ![o] = NoRow]
  /\ UNCHANGED <<usage, embedded, events, pc, marker, plan>>

\* The product is deleted in Shopify, and its vector with it.
DeleteVector(p) ==
  /\ p \in Deletable
  /\ marker[p] # None
  /\ marker' = [marker EXCEPT ![p] = None]
  /\ UNCHANGED <<usage, row, embedded, events, pc, plan>>

-------------------------------------------------------------------------------
Operation(o) ==
  \/ Reserve(o) \/ Consume(o) \/ Respond(o) \/ WriteVector(o) \/ WorkFails(o)
  \/ Mark(o) \/ Commit(o) \/ Rollback(o) \/ CallFails(o) \/ Crash(o)

Reconciliation(r) ==
  \/ Scan(r)
  \/ PassDies(r)
  \/ \E o \in Ops : Decide(r, o) \/ MarkFound(r, o) \/ Resolve(r, o) \/ SkipRow(r, o)

Next ==
  \/ \E o \in Ops : Operation(o) \/ GrowStale(o) \/ DeleteResolved(o)
  \/ \E r \in Reconcilers : Reconciliation(r)
  \/ \E p \in Products : DeleteVector(p)

Spec == Init /\ [][Next]_vars

\* Operations end (their provider and database calls have timeouts) or die,
\* time passes, and the housekeeping interval keeps starting passes.  Calls
\* may fail, but not every time.
Fairness ==
  /\ \A o \in Ops :
       /\ WF_vars(Respond(o) \/ WriteVector(o) \/ WorkFails(o) \/ Mark(o)
                  \/ Commit(o) \/ Rollback(o) \/ CallFails(o) \/ Crash(o))
  /\ WF_vars(\E o \in Ops : GrowStale(o))
  /\ \A r \in Reconcilers :
       /\ WF_vars(Scan(r))
       /\ \A o \in Ops : SF_vars(Decide(r, o)) /\ SF_vars(MarkFound(r, o) \/ Resolve(r, o))

FairSpec == Spec /\ Fairness

-------------------------------------------------------------------------------
(* Properties *)

\* The types of the variables.
TypeOK ==
  /\ usage \in [Counters -> Nat]
  /\ row \in [Ops -> Rows]
  /\ embedded \subseteq Ops
  /\ events \in [Ops -> Nat]
  /\ pc \in [Ops -> PcStates]
  /\ marker \in [Products -> Ops \union {None}]
  /\ plan \in [Reconcilers -> [Ops -> PlanSteps]]

\* What the shop is charged for among the operations of S: reservations in
\* flight and recorded successes.
Charged(S) == {o \in S : Pending(o) \/ events[o] > 0}

\* The period's counters agree with the reservations in flight and the success
\* events, whatever was retried, lost or resolved twice: no unit of quota is
\* leaked or refunded twice, and the clamp at zero never hides one.
CountersExact ==
  /\ usage["search"] = Cardinality(Charged(Searches))
  /\ usage["vectorUpdate"] = Cardinality(Charged(Updates))
  /\ usage["productIndex"] = Cardinality({o \in Indexings : events[o] > 0})
  /\ usage["embedding"] = Cardinality(embedded)

\* An operation is charged at most once: its success event exists exactly
\* when its reservation was committed, also with a worker and several
\* housekeeping passes resolving it at the same time.
ChargedOnce ==
  \A o \in Ops :
    /\ events[o] <= 1
    /\ row[o].status = "COMMITTED" => events[o] = 1
    /\ row[o].status \in {"PENDING", "ROLLED_BACK"} => events[o] = 0

\* Searches, and vector updates, in flight or charged never exceed every limit
\* the shop was entitled to.
QuotaHolds ==
  \A S \in {Searches, Updates} :
    Charged(S) # {} =>
      \/ Unlimited \in Limits
      \/ \E l \in Limits : Cardinality(Charged(S)) <= l

\* A unit is not refunded once the operation itself has recorded its effect,
\* though another run replaced the vector before the commit; nor once a pass has,
\* while the vector carries o's marker.  That holds for any number of passes, and
\* for the operations that do not outlive their reservation's time limit.
AppliedIsCharged ==
  \A o \in Ops \ SlowOps :
    row[o].applied /\ (row[o].own \/ o \in Searches \/ marker[ProductOf[o]] = o)
      => row[o].status # "ROLLED_BACK"

\* No reservation holds a unit of quota for ever: the operation or a
\* housekeeping pass resolves it.
PendingIsResolved == \A o \in Ops : []<>~Pending(o)

-------------------------------------------------------------------------------
(* The abstract ledger *)

CounterOf(kind) ==
  CASE kind = "SEARCH"            -> "search"
    [] kind = "VECTOR_UPDATE"     -> "vectorUpdate"
    [] kind = "PRODUCT_EMBEDDING" -> "productIndex"

\* How o stands, whether or not its row is still there.
Standing(o) ==
  IF Pending(o) THEN "held"
  ELSE IF events[o] > 0 THEN "charged"
  ELSE IF pc[o] = "idle" THEN "free"
  ELSE "over"

Ledger == INSTANCE QuotaLedger WITH
  Requests <- Ops,
  Pools    <- Kinds,
  PoolOf   <- KindOf,
  Prepaid  <- Searches \union Updates,
  account  <- [o \in Ops |-> Standing(o)],
  used     <- [k \in Kinds |-> usage[CounterOf(k)]]

\* Each reservation looks decided at once and for good, and the counters move
\* with those decisions and with nothing else: not with marks and time limits,
\* late commits, stale passes, or the deletion of old rows (reserve..., commit...,
\* rollback...Usage, reconcileStaleUsageReservations).
ImplementsLedger == Ledger!Spec
===============================================================================
