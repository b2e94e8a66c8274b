---------------------------- MODULE ProductSyncJob ----------------------------
(***************************************************************************)
(* services/products: the durable jobs that bring one product's search     *)
(* index up to date with Shopify (product-sync-job.server.ts), and the     *)
(* workers that claim and run them (product-sync-queue.server.ts,          *)
(* product-sync-job-processor.server.ts) under the product's lock          *)
(* (product-sync-lock.server.ts).                                          *)
(*                                                                         *)
(* A webhook is named by its id, and so is the job it creates (webhookId   *)
(* is unique).  Each database statement is a step.  The lock is the one of *)
(* LeaseLock, by its contract: one holder, a lease that a dead holder      *)
(* loses, and a check of the lease after the task.                         *)
(*                                                                         *)
(* A run may end without writing the vector: the plan, the subscription or *)
(* the quota of updates blocks it, the registry row says so (its vector is *)
(* STALE or MISSING, or the product hidden), and the job is done.  What    *)
(* indexes such a product is quota-recovery.server.ts, whose REINDEX_*     *)
(* jobs are not modelled: each is one more run of the same product under   *)
(* the same lock, which webhooks never join.                               *)
(***************************************************************************)
EXTENDS Integers

CONSTANTS
  Hooks,          \* webhooks of the product, and the jobs they create
  Workers,        \* concurrent job runs, over all processes
  None,
  MaxAttempts,    \* PRODUCT_SYNC_MAX_ATTEMPTS
  MaxVersion,     \* bound on the edits of the product in Shopify
  Gone,           \* the product is deleted, or is not in the index
  Retryable,      \* jobs the merchant may retry by hand
  LiveLeaseLoss   \* may a live worker lose the product lease or its job lease
                  \* (its process was suspended)?

ASSUME JobAssumption ==
  /\ None \notin Hooks \union Workers
  /\ MaxAttempts \in Nat \ {0}
  /\ MaxVersion \in Nat
  /\ Gone \notin Nat
  /\ Retryable \subseteq Hooks
  /\ LiveLeaseLoss \in BOOLEAN

VARIABLES
  shopify,     \* the product in Shopify: a version, or Gone
  index,       \* the version in the search index, or Gone
  registry,    \* the version the registry row was last written for, or Gone:
               \* where it is not index, the row has the vector as not current
  shopActive,  \* ensureShopForBackgroundWork
  hook,        \* hook[h]: delivery of the webhook
  topic,       \* topic[h]: "UPDATE" or "DELETE"
  row,         \* row[j]: the row of AiSearchSyncJob
  pc,          \* pc[w]: where worker w is
  job,         \* job[w]: the job w looks at or runs
  attempt,     \* attempt[w]: job.attempts as w read it after its claim
  fresh,       \* workers whose snapshot of job[w] is unchanged (updatedAt)
  got,         \* got[w]: what w read from Shopify
  lock         \* holder of the product's lease, or None

worker == <<pc, job, attempt, got>>
source == <<shopify, shopActive, hook, topic>>
vars   == <<source, index, registry, row, worker, fresh, lock>>

Statuses == {"PENDING", "PROCESSING", "DONE", "FAILED"}
NoRow    == [status |-> "NONE", attempts |-> 0, stale |-> FALSE]
Rows     == [status : Statuses \union {"NONE"}, attempts : 0 .. MaxAttempts,
             stale : BOOLEAN]
Versions == (0 .. MaxVersion) \union {Gone}

InTask   == {"recheck", "shop", "skip", "fetch", "write", "mark", "fail"}
Beating  == {"fetch", "write", "mark", "fail"}        \* heartbeat interval set
Locked   == InTask \union {"released", "failed"}       \* until the finally block
WorkerSteps == {"idle", "claim", "reread", "lock", "catch"} \union Locked

Init ==
  /\ shopify = 0
  /\ index = 0
  /\ registry = 0
  /\ shopActive = TRUE
  /\ hook = [h \in Hooks |-> "unused"]
  /\ topic = [h \in Hooks |-> "UPDATE"]
  /\ row = [j \in Hooks |-> NoRow]
  /\ pc = [w \in Workers |-> "idle"]
  /\ job = [w \in Workers |-> None]
  /\ attempt = [w \in Workers |-> 0]
  /\ got = [w \in Workers |-> Gone]
  /\ fresh = {}
  /\ lock = None

\* An UPDATE of row j: it moves updatedAt, so every snapshot of j is outdated.
Write(j, r) ==
  /\ row' = [row EXCEPT ![j] = r]
  /\ fresh' = {w \in fresh : job[w] # j}

\* Mutant: the UPDATE does not ask for status PROCESSING.
IsCurrent_AnyStatus(j, n) == row[j].attempts = n

\* markProductSyncJobDone, markProductSyncJobFailed: only this very attempt.
IsCurrent(j, n) == row[j].status = "PROCESSING" /\ row[j].attempts = n

Finish(w, status) ==
  IF IsCurrent(job[w], attempt[w])
    THEN Write(job[w], [row[job[w]] EXCEPT !.status = status, !.stale = FALSE])
    ELSE UNCHANGED <<row, fresh>>

\* w goes on at step; an idle worker remembers nothing.
Goto(w, step) ==
  /\ pc' = [pc EXCEPT ![w] = step]
  /\ job' = IF step = "idle" THEN [job EXCEPT ![w] = None] ELSE job
  /\ attempt' = IF step = "idle" THEN [attempt EXCEPT ![w] = 0] ELSE attempt
  /\ got' = IF step = "write" THEN got ELSE [got EXCEPT ![w] = Gone]

-------------------------------------------------------------------------------
(* Shopify and its webhooks *)

\* The merchant edits or deletes the product; Shopify sends a webhook.
Edit(h) ==
  /\ hook[h] = "unused"
  /\ shopify # Gone
  /\ \/ /\ shopify < MaxVersion                        \* bound
        /\ shopify' = shopify + 1
        /\ UNCHANGED topic
     \/ /\ shopify' = Gone
        /\ topic' = [topic EXCEPT ![h] = "DELETE"]
  /\ hook' = [hook EXCEPT ![h] = "sent"]
  /\ UNCHANGED <<shopActive, index, registry, row, worker, fresh, lock>>

\* Mutant: an update joins a running job too.
Coalesces_Running(h) ==
  /\ topic[h] = "UPDATE"
  /\ \E j \in Hooks :
       row[j].status \in {"PENDING", "PROCESSING"} /\ topic[j] = "UPDATE"

\* An update joins a pending job, which has not read the product yet.
Coalesces(h) ==
  /\ topic[h] = "UPDATE"
  /\ \E j \in Hooks : row[j].status = "PENDING" /\ topic[j] = "UPDATE"

FindPending(h) ==
  /\ hook[h] = "sent"
  /\ hook' = [hook EXCEPT ![h] = IF Coalesces(h) THEN "answered" ELSE "creating"]
  /\ UNCHANGED <<shopify, shopActive, topic, index, registry, row, worker, fresh, lock>>

\* A duplicate webhook id is ignored.
CreateJob(h) ==
  /\ hook[h] = "creating"
  /\ IF row[h].status = "NONE"
       THEN Write(h, [NoRow EXCEPT !.status = "PENDING"])
       ELSE UNCHANGED <<row, fresh>>
  /\ hook' = [hook EXCEPT ![h] = "answered"]
  /\ UNCHANGED <<shopify, shopActive, topic, index, registry, worker, lock>>

\* The handler dies, or its answer is lost: Shopify sends the webhook again.
Redeliver(h) ==
  /\ hook[h] \in {"creating", "answered"}
  /\ hook' = [hook EXCEPT ![h] = "sent"]
  /\ UNCHANGED <<shopify, shopActive, topic, index, registry, row, worker, fresh, lock>>

Uninstall ==
  /\ shopActive
  /\ shopActive' = FALSE
  /\ UNCHANGED <<shopify, hook, topic, index, registry, row, worker, fresh, lock>>

-------------------------------------------------------------------------------
(* Claiming *)

\* Mutant: one attempt too many.
Claimable_OneMore(r) ==
  /\ r.attempts <= MaxAttempts
  /\ r.status \in {"PENDING", "FAILED"} \/ (r.status = "PROCESSING" /\ r.stale)

\* Mutant: the job of a dead worker is not taken over.
Claimable_NotStale(r) ==
  r.attempts < MaxAttempts /\ r.status \in {"PENDING", "FAILED"}

\* Retry delays only postpone a claim; time is not modelled.
Claimable(r) ==
  /\ r.attempts < MaxAttempts
  /\ r.status \in {"PENDING", "FAILED"} \/ (r.status = "PROCESSING" /\ r.stale)

Select(w, j) ==
  /\ pc[w] = "idle"
  /\ Claimable(row[j])
  /\ pc' = [pc EXCEPT ![w] = "claim"]
  /\ job' = [job EXCEPT ![w] = j]
  /\ fresh' = fresh \union {w}
  /\ UNCHANGED <<source, index, registry, row, attempt, got, lock>>

Claim(w) ==
  /\ pc[w] = "claim"
  /\ IF w \in fresh
       THEN /\ Write(job[w], [status |-> "PROCESSING", stale |-> FALSE,
                              attempts |-> row[job[w]].attempts + 1])
            /\ Goto(w, "reread")
       ELSE /\ Goto(w, "idle")
            /\ UNCHANGED <<row, fresh>>
  /\ UNCHANGED <<source, index, registry, lock>>

\* The job object w works with is read by a statement of its own.
Reread(w) ==
  /\ pc[w] = "reread"
  /\ IF row[job[w]].status = "DONE"
       THEN Goto(w, "idle")
       ELSE /\ attempt' = [attempt EXCEPT ![w] = row[job[w]].attempts]
            /\ pc' = [pc EXCEPT ![w] =
                         IF row[job[w]].status = "PROCESSING" THEN "lock" ELSE "catch"]
            /\ UNCHANGED <<job, got>>
  /\ UNCHANGED <<source, index, registry, row, fresh, lock>>

\* terminalizeExhaustedStaleProductJobs, at the start of each claim.
TerminalizeExhausted(w) ==
  /\ pc[w] = "idle"
  /\ \E j \in Hooks :
       /\ row[j].status = "PROCESSING" /\ row[j].stale
       /\ row[j].attempts >= MaxAttempts
       /\ Write(j, [row[j] EXCEPT !.status = "FAILED", !.stale = FALSE])
  /\ UNCHANGED <<source, index, registry, worker, lock>>

-------------------------------------------------------------------------------
(* Running a job *)

\* No admin client for the shop, or the wait for the lock timed out.
StartFails(w) ==
  /\ pc[w] = "lock"
  /\ Goto(w, "catch")
  /\ UNCHANGED <<source, index, registry, row, fresh, lock>>

\* Mutant: the job runs without waiting for the lock.
AcquireLock_NoWait(w) ==
  /\ pc[w] = "lock"
  /\ lock' = w
  /\ Goto(w, "recheck")
  /\ UNCHANGED <<source, index, registry, row, fresh>>

AcquireLock(w) ==
  /\ pc[w] = "lock"
  /\ lock = None
  /\ lock' = w
  /\ Goto(w, "recheck")
  /\ UNCHANGED <<source, index, registry, row, fresh>>

Recheck(w) ==
  /\ pc[w] = "recheck"
  /\ Goto(w, IF row[job[w]].status = "DONE" THEN "released"
             ELSE IF IsCurrent(job[w], attempt[w]) THEN "shop"
             ELSE "failed")
  /\ UNCHANGED <<source, index, registry, row, fresh, lock>>

\* Jobs of an inactive shop are done without work.
CheckShop(w) ==
  /\ pc[w] = "shop"
  /\ Goto(w, IF shopActive THEN "fetch" ELSE "skip")
  /\ UNCHANGED <<source, index, registry, row, fresh, lock>>

Heartbeat(w) ==
  /\ pc[w] \in Beating
  /\ IsCurrent(job[w], attempt[w])
  /\ Write(job[w], [row[job[w]] EXCEPT !.stale = FALSE])
  /\ UNCHANGED <<source, index, registry, worker, lock>>

\* An update job reads the product as it is now; a delete job only deletes.
Fetch(w) ==
  /\ pc[w] = "fetch"
  /\ pc' = [pc EXCEPT ![w] = "write"]
  /\ got' = [got EXCEPT ![w] = IF topic[job[w]] = "DELETE" THEN Gone ELSE shopify]
  /\ UNCHANGED <<source, index, registry, row, job, attempt, fresh, lock>>

\* The vector and the registry; the work may still fail afterwards.
WriteIndex(w) ==
  /\ pc[w] = "write"
  /\ index' = got[w]
  /\ registry' = got[w]
  /\ \E step \in {"mark", "fail"} : Goto(w, step)
  /\ UNCHANGED <<source, row, fresh, lock>>

\* Mutant: a run that is blocked leaves no trace in the registry.
Block_Unrecorded(w) ==
  /\ pc[w] = "write"
  /\ got[w] # Gone
  /\ \E step \in {"mark", "fail"} : Goto(w, step)
  /\ UNCHANGED <<source, index, registry, row, fresh, lock>>

\* indexProduct answers "blocked", or "skipped" for want of quota: the product
\* limit, an inactive subscription or the vector updates of the month keep the
\* vector as it is.  A product that is gone from the storefront is not blocked.
Block(w) ==
  /\ pc[w] = "write"
  /\ got[w] # Gone
  /\ registry' = got[w]
  /\ \E step \in {"mark", "fail"} : Goto(w, step)
  /\ UNCHANGED <<source, index, row, fresh, lock>>

WorkFails(w) ==
  /\ pc[w] \in {"fetch", "write", "mark"}
  /\ Goto(w, "fail")
  /\ UNCHANGED <<source, index, registry, row, fresh, lock>>

\* A statement fails before the work has begun, or in the error path.
StatementFails(w) ==
  /\ pc[w] \in {"recheck", "shop", "skip", "fail"}
  /\ Goto(w, "failed")
  /\ UNCHANGED <<source, index, registry, row, fresh, lock>>

\* The answer of the UPDATE may be lost.
MarkDone(w) ==
  /\ pc[w] \in {"mark", "skip"}
  /\ Finish(w, "DONE")
  /\ Goto(w, "released") \/ Goto(w, IF pc[w] = "mark" THEN "fail" ELSE "failed")
  /\ UNCHANGED <<source, index, registry, lock>>

MarkFailed(w) ==
  /\ pc[w] = "fail"
  /\ Finish(w, "FAILED")
  /\ Goto(w, "failed")
  /\ UNCHANGED <<source, index, registry, lock>>

\* The check of the lease after the task, and its release; a task that failed
\* is not checked.
Release(w) ==
  /\ pc[w] \in {"released", "failed"}
  /\ lock' = IF lock = w THEN None ELSE lock
  /\ Goto(w, IF pc[w] = "released" /\ lock = w THEN "idle" ELSE "catch")
  /\ UNCHANGED <<source, index, registry, row, fresh>>

ReleaseFails(w) ==
  /\ pc[w] \in {"released", "failed"}
  /\ Goto(w, IF pc[w] = "released" /\ lock = w THEN "idle" ELSE "catch")
  /\ UNCHANGED <<source, index, registry, row, fresh, lock>>

\* processNextProductSyncJob: a job still PROCESSING becomes FAILED.
CatchError(w) ==
  /\ pc[w] = "catch"
  /\ Finish(w, "FAILED")
  /\ Goto(w, "idle")
  /\ UNCHANGED <<source, index, registry, lock>>

\* The process dies, or the database refuses even the error path.
Crash(w) ==
  /\ pc[w] # "idle"
  /\ Goto(w, "idle")
  /\ fresh' = fresh \ {w}
  /\ UNCHANGED <<source, index, registry, row, lock>>

-------------------------------------------------------------------------------
(* Time and the merchant *)

\* updatedAt falls a job lease behind: nobody renews it.
GrowStale(j) ==
  /\ row[j].status = "PROCESSING"
  /\ ~row[j].stale
  /\ \/ LiveLeaseLoss
     \/ \A w \in Workers :
          pc[w] \in Beating /\ job[w] = j => ~IsCurrent(j, attempt[w])
  /\ row' = [row EXCEPT ![j].stale = TRUE]            \* no UPDATE: time passes
  /\ UNCHANGED <<source, index, registry, worker, fresh, lock>>

\* The lease of a dead holder, or of one that could not release it, runs out.
LeaseExpires ==
  /\ lock # None
  /\ LiveLeaseLoss \/ pc[lock] \notin Locked
  /\ lock' = None
  /\ UNCHANGED <<source, index, registry, row, worker, fresh>>

\* retryFailedProductSyncJobs
RetryByHand(j) ==
  /\ j \in Retryable
  /\ row[j].status = "FAILED"
  /\ Write(j, [NoRow EXCEPT !.status = "PENDING"])
  /\ UNCHANGED <<source, index, registry, worker, lock>>

-------------------------------------------------------------------------------
\* What the code of worker w runs by itself, whatever the outcome of its calls.
Step(w) ==
  \/ (\E j \in Hooks : Select(w, j)) \/ Claim(w) \/ Reread(w) \/ TerminalizeExhausted(w)
  \/ StartFails(w) \/ AcquireLock(w) \/ Recheck(w) \/ CheckShop(w) \/ StatementFails(w)
  \/ Fetch(w) \/ WriteIndex(w) \/ Block(w) \/ WorkFails(w) \/ MarkDone(w)
  \/ MarkFailed(w) \/ Release(w) \/ ReleaseFails(w) \/ CatchError(w)

Webhook(h) == FindPending(h) \/ CreateJob(h)

Next ==
  \/ \E h \in Hooks : Edit(h) \/ Webhook(h) \/ Redeliver(h)
  \/ \E w \in Workers : Step(w) \/ Heartbeat(w) \/ Crash(w)
  \/ \E j \in Hooks : GrowStale(j) \/ RetryByHand(j)
  \/ Uninstall
  \/ LeaseExpires

Spec == Init /\ [][Next]_vars

\* Every process polls the queue and its calls return or time out; crashes do
\* not come before every claim; leases run out; Shopify delivers a webhook until
\* it is handled.
Fairness ==
  /\ \A w \in Workers :
       WF_vars(Step(w)) /\ SF_vars(Claim(w)) /\ SF_vars(TerminalizeExhausted(w))
  /\ \A h \in Hooks : SF_vars(FindPending(h)) /\ SF_vars(CreateJob(h))
  /\ \A j \in Hooks : WF_vars(GrowStale(j))
  /\ WF_vars(LeaseExpires)

FairSpec == Spec /\ Fairness

-------------------------------------------------------------------------------
(* Properties *)

\* The types of the variables.
TypeOK ==
  /\ shopify \in Versions
  /\ index \in Versions
  /\ registry \in Versions
  /\ shopActive \in BOOLEAN
  /\ hook \in [Hooks -> {"unused", "sent", "creating", "answered"}]
  /\ topic \in [Hooks -> {"UPDATE", "DELETE"}]
  /\ row \in [Hooks -> Rows]
  /\ pc \in [Workers -> WorkerSteps]
  /\ job \in [Workers -> Hooks \union {None}]
  /\ attempt \in [Workers -> 0 .. MaxAttempts]
  /\ fresh \subseteq Workers
  /\ got \in [Workers -> Versions]
  /\ lock \in Workers \union {None}

\* A run was blocked with the version Shopify has now, and the registry has it
\* on record: the product waits for quota recovery, not for a job of a webhook.
Withheld == registry = shopify /\ index # shopify

\* The current attempt of job j, if it has read the product at all, read it as
\* it is now.
WillHandleLatest(j) ==
  \/ row[j].status \in {"PENDING", "FAILED"}
  \/ /\ row[j].status = "PROCESSING"
     /\ \A w \in Workers :
          job[w] = j /\ IsCurrent(j, attempt[w]) =>
            /\ pc[w] = "write" => got[w] = shopify
            /\ pc[w] = "mark" => registry = shopify

\* No edit is lost: while the index differs from Shopify, either the registry has
\* the latest version on record as withheld, or a webhook is on its way, or a
\* job that has yet to read, or has read, the latest version is there to be run
\* or retried.  A block of an earlier version is no excuse.  Coalescing,
\* duplicates, retries, crashes and superseded attempts do not lose it.
NoLostUpdate ==
  shopActive /\ index # shopify =>
    Withheld \/ \E h \in Hooks : hook[h] \in {"sent", "creating"} \/ WillHandleLatest(h)

\* While the index is behind, and not withheld, a webhook is on its way or a job
\* is open: a pending job "has not observed Shopify yet" and a later webhook that
\* joined it is not forgotten (product-sync-job.server.ts).
StaleIndexHasOpenJob ==
  shopActive /\ index # shopify =>
    Withheld \/ \E h \in Hooks :
      hook[h] \in {"sent", "creating"} \/ row[h].status \in Statuses \ {"DONE"}

\* A job that is done is never reopened or failed by a late attempt of it.
DoneIsFinal ==
  [][\A j \in Hooks : row[j].status = "DONE" => row'[j].status = "DONE"]_vars

\* The index never goes back to an older version of the product.
IndexAdvances ==
  [][index' # index => index # Gone /\ (index' = Gone \/ index' > index)]_vars

\* A job that ran out of attempts; the merchant sees it as failed.
Exhausted(j) == row[j].status = "FAILED" /\ row[j].attempts >= MaxAttempts

\* The index catches up with Shopify, or the registry has the latest version on
\* record as withheld, unless jobs ran out of attempts, the shop left, or the
\* merchant restarts failed jobs again and again.
EventuallyHandled ==
  \/ []<>(index = shopify \/ Withheld \/ ~shopActive \/ \E j \in Hooks : Exhausted(j))
  \/ []<><<\E j \in Hooks : RetryByHand(j)>>_vars

\* No job stays in PROCESSING, however its worker ended.
ProcessingEnds ==
  \A j \in Hooks : row[j].status = "PROCESSING" ~> row[j].status # "PROCESSING"
===============================================================================
