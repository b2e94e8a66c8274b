# AI Search Core: TLA+ models and proofs

AI Search Core is a Shopify app: it indexes the products of each shop in a
vector store (Qdrant), answers storefront searches from it, and meters both
against the shop's plan. Several Node.js processes run the same code on one MySQL
database. They share nothing else, so correctness rests on single SQL
statements, leases, compare-and-swap updates and reconciliation passes. These
modules model that part; what a search computes and how a theme is rendered are
left out.

## Inventory

Paths are relative to `src/app/services` unless they start with `routes` or
`prisma`.

| Component | State | Operations | What makes it correct | Module |
|---|---|---|---|---|
| Lease lock, `commerce/lease-lock` | row (owner, leaseUntil) per (shop, resource) | acquire and poll, heartbeat, check, release, clean-up | one certified holder; expired leases reclaimed; no take-over of a live one | `LeaseLock`, `ExclusiveSection` |
| Usage, `commerce/usage` | period counters, reservations, events | reserve, consume, mark, commit, roll back, reconcile, delete | counters equal reservations plus events; one charge per operation; within the limit; nothing pending for ever | `UsageReservation`, `QuotaLedger` |
| Product sync jobs, `products/product-sync-job*`, `product-sync-lock`, `product-webhook-sync` | job rows (status, attempts, updatedAt) | enqueue/coalesce, claim, re-read, lock, recheck, heartbeat, done, failed, sweep, retry | no edit lost; index never goes back; done is final; no job stuck | `ProductSyncJob` |
| Queue worker, `products/product-sync-queue` | per process: running, rerunRequested, timer | kick, drain, poll | every kick is followed by a drain that sees its job | `QueueWorker` |
| Product indexer, `products/product-indexer` | vector payload, registry row | index, skip, stage, publish, repair | both stores agree; nothing half-published is shown; the revision follows | `ProductPublication`, `AtomicListing` |
| Registry and slots, `commerce/indexed-products`, `products/quota-recovery` | registry rows, plan limit | reserve/release slot, block, stage, publish, re-plan eligibility, recover | slots within the limit; what is searchable has its vector | `ProductSlots` |
| Catalog scan, `catalog/*`, `products/catalog-sync` | scan job, cursor, counters | enqueue (under a lease), claim, checkpoint, finish, clean-up, retry | cursor never skips; clean-up only of what the scan proved gone | `CatalogSync` |
| Revision and result cache, `search/search-catalog-revision`, `search/search-result-cache` | revision in SQL, per-process cache, receipts | bump, invalidate, cached read, save, get | no result of an older catalog under the key of a newer one; staleness bounded | `CatalogRevision`, `SearchResultCache` |
| Billing, `commerce/billing-state`, `billing/shopify-app-pricing`, `commerce/reconciliation` | subscription rows, pointers of the shop | webhook, refresh, reconcile, cancel, uninstall | only what was approved is served; settles on what Shopify says | `BillingState` |
| Entitlement, grants, `commerce/entitlement`, `quota-grants`, `plans` | subscription snapshot, grants, caches | read, create, revoke, override | a limit no older than its caches | as `Limits`, `Plans` |
| Shop lifecycle, `commerce/shop-registry`, `routes/webhooks.*` | shop row, settings | install, uninstall, redact | nothing runs for a shop that left | in `ProductSyncJob`, `BillingState` |
| Housekeeping, `maintenance/*` | none of its own | periodic passes | idempotent, safe in several processes | in `UsageReservation` |
| Storefront search, `routes/proxy.ai-search` | receipts, cache, reservation | search, page, click | one reservation per search; saved under the key it began with | in `UsageReservation`, `SearchResultCache` |
| Theme map, `theme/theme-map-v4-*` | in-memory and SQL map | build, invalidate, read | used only with the checksums it was built from | not modelled |
| Query analysis, ranking, theme compilers, renderer, operator dashboard, merchant UI | caches | pure computation and pages | | not modelled |

How they interact: a product webhook (`routes/webhooks.products.*`) inserts or
joins a sync job and kicks the queue. A worker claims a job, takes the product's
lease (`withProductSyncLock` calls `withDistributedLease`), reads the product
from Shopify and calls `indexProduct`, which reads the entitlement, takes a slot
and a reservation, embeds, writes Qdrant and the registry, advances the search
revision and commits the reservation. The catalog scan calls `indexProduct`
too, without the product's lease. A search reads entitlement, revision and
cache, reserves, embeds, queries and commits. Housekeeping resolves what dead
processes left. Hard are: every await is an interleaving point between
processes; a process may die or be suspended at any of them; an UPDATE may be
applied though its caller saw an error; leases and rows go stale by clock; and
Qdrant, Shopify and MySQL share no transaction. `PROJECT.json` lists the
hazards, each at its line with the properties that watch it.

## The modules

`ExclusiveSection` - what `withDistributedLease` promises. A call enters when
nobody holds the resource, may lose it at any time without knowing, and returns
its result only after it was certified while holding it. It does *not* promise
mutual exclusion of the tasks: a suspended holder goes on executing.

`LeaseLock` - the protocol of `lease-lock.server.ts`. `row` is the SQL row;
`pc[c]` is where call `c` stands between two awaits. Insert and Select are two
statements, the `now` of the first was read earlier (`reading`), a heartbeat
UPDATE (`renewAt`) stays in flight after the task, even after the release.
`clock` is real time, `ClockReadings` what a process may read, `Skew` the
largest difference. Errors of every statement, crashes, the periodic clean-up
and shop deletion are actions.

`QuotaLedger` - what reservations promise: each request is refused, or holds its
unit until it is charged or released, once; the counters move with these
decisions and with nothing else.

`UsageReservation` - one billing period. `usage` holds the counters, `row[o]` the
reservation of operation `o` (a search, a vector update, or an indexing that does
not count), `events[o]` the success events, `marker[p]` the
`usageReservationId` in a product's vector payload. An operation reserves,
works, writes, marks, commits, or fails and rolls back; it may crash anywhere.
A reconciliation pass (`plan[r]`) reads a batch, then decides row by row from
what it read and from the marker as it is then. `SlowOps` are operations that
may still run when their reservation times out (30 minutes by default);
`own` is history: the operation itself set `effectAppliedAt`, not a pass that found
its marker. `Limits` are the limits a caller may have read, not only the current one.
Batch limits (200 rows) are left out. `Standing(o)` maps row, events and
progress to the ledger: it outlives the row, which housekeeping deletes.

`ProductSyncJob` - the jobs of one product. The product in Shopify is a version
number or `Gone`; the index holds the version last written. `fresh` says whose
compare-and-swap snapshot (`updatedAt`, status, attempts) still holds. Taking
the product's lease is one step, by `LeaseLock`'s contract: `lock` may be lost
when its holder is gone, or, with `LiveLeaseLoss`, while the holder is only
suspended. Jobs lose their claim when `stale` (no heartbeat for the job lease);
a worker waiting for the lock has no heartbeat, as in the code. Retry delays
are left out: they only postpone a claim. A run may be *blocked* (`Block`): the plan,
the subscription or the quota of vector updates keeps the older vector, or hides the
product, and the job is done all the same (`product-webhook-sync.server.ts:351-365`,
`product-indexer.server.ts:811-978`). `registry` is the version the row was last
written for, so `Withheld` says that the latest version is on record as blocked. The
`REINDEX_*` jobs with which quota recovery indexes such products are not modelled
here: webhooks never join them, and under the lock each is one more run.

`QueueWorker` - how jobs find a worker. `queue[p]` are the flags of process `p`
(`running`, `scheduled`, `rerunRequested`) and the locals of its drain; `task[p]`
its `processNextProductSyncJob` calls. What a process does between two awaits is one
step. `Enqueue` and `Kick` are two: the inserter may be a web process that drains
nothing, or may die between. `TaskThrows` rejects the drain's `Promise.all` and
leaves the other tasks running (`of` becomes false), `broken` and `excused` remember
that. A failed or orphaned job waits and is due again (`TimePasses`). The drain of
the catalog queue is the same with one task.

`CatalogSync` - scans of one shop. `job` is the table of scan jobs; an enqueue reads
(`Ask`) and inserts (`Insert`) in two statements under a lease, or joins a pending
job. A worker claims (UPDATE and re-read are two statements), fetches a page,
indexes its product, which may be blocked and hidden when the subscription ended
meanwhile, saves the cursor, and after the last page lists, checks and takes off
display what the scan did not see, and closes the job. `Stall` is a suspended worker
that loses its lease and goes on when another has claimed. `Age` makes a job
claimable again, `RetryByHand` resets attempts and keeps the cursor, as in the code.
`met` and `down` are history: what was visited, and what was off sale, since the
scan began. Pages hold one product.

`ProductSlots` - the registry as the ledger of product slots. A run of
`indexProduct` (of a webhook job or a policy job), or of a deletion, is `run[w]` at
the statement it makes next; `StartReconcile` reads the entitlement under the
lease `product-policy:reconcile`, `Reconcile` is its transaction
(`planProductEligibility` for all rows). `ChangePlan` moves the shop between
plans, so a limit may be stale from its read on.

`CatalogRevision` - `search-catalog-revision.server.ts`: the `revision` in SQL and,
for each process `p`, the cached value (`revisionCache[p]`) and the SELECT its
calls share (`pendingReads[p]`). UPDATE and SELECT are executed in one step and
answered in another, so that a bump can fall between; `returned` and `floor` are
history. A bump invalidates only its own process; the others wait for `Expire`.

`AtomicListing` - what publication promises to searches, as if the product were
written at once: it is listed as one whole text or not at all, only a text
that was prepared, and texts never go back.

`ProductPublication` - one product in its three stores: `vector` (Qdrant), `profile`
and `registry` (MySQL), and the `revision`. `run` is the one run of `indexProduct`,
or of the unpublish branch, at the call it makes next. Each call returns, is applied
although it is reported as failed, or fails; the process may die before any.
`Caught` says where the catch blocks lead. Texts are numbers in the order of
edition, and stand for everything made of them: document hash, profile, semantic
payload, title, handle. Runs do not overlap, as `ProductSyncJob` justifies for jobs;
the shop's subscription is active and a slot and vector updates are available
(`ProductSlots` has the other branches). The constant `Reverts` says whether the
merchant may restore an earlier text. A run may be cut short anywhere; the history
variable `lostBump` remembers that one was, with everything published and its bump
owed, until the revision is advanced. A row's deletion deletes its profile, and a
profile needs a row, by the foreign key of the schema. `FoundBy`, the texts a search
can find the product by, maps it to `AtomicListing`.

`SearchResultCache` - extends it with searches for one query. `search[s]` keeps the
revision its key was made of and what it found so far; the channels answer in
any order; `receipts[r]` is what is saved under the key of revision `r`. The
revision a search reads is any so far: what `CatalogRevision` allows another
process. A receipt is compared with what a search would find now (`Fresh`).

`BillingState` - what the tables say of a shop's subscriptions. `shopify` is the
truth (`hidden`: created, but not yet in the Admin API), `row` the table
`BillingSubscription`, `shop` the pointers (current, pending) and whether a session
exists. `run[r]` is a reconciliation from the app's page, a webhook, the poll or a
search, at the statement it makes next; each works on the answer and the row it read
before. Webhooks carry only an id, so they may come at any time. The uninstall
webhook is a transaction and, later, the deletion of the sessions; a crash between
leaves them, because the redelivery finds its event recorded. A cancelled
subscription serves until its paid period ends.

`MC*` modules define operations, kinds and symmetry sets for TLC.
`*_proofs` modules hold the theorems; `ServerProcess_proofs` those of
`CatalogRevision` and `QueueWorker`, the two things a process keeps in memory.
Definitions named `X_Something` before an `X` are faulty variants of X used to
validate the properties: with `X` replaced by its variant the named property must
fail.

## What is checked

| Run | Bounds | Shows |
|---|---|---|
| `lease` | 2 calls, skew 1, time to 3 leases | `TypeOK`, `SuccessIsExclusive`, `LostIsLost`, `ImplementsSection`, `LiveOwnerIsNotReplaced`, `CallsEnd`, `OrphanIsReclaimed` |
| `usage_safety` | 2 updates (one slow) of one product and a search, limit 1, 2 passes that overlap on one row at a time | `CountersExact`, `ChargedOnce`, `QuotaHolds`, `AppliedIsCharged`, `ImplementsLedger` |
| `usage_live` | a search and a slow indexing, product deletable | `PendingIsResolved` |
| `job_safety` | 2 webhooks, 2 workers, 2 attempts, 2 edits | `TypeOK`, `NoLostUpdate`, `IndexAdvances` |
| `job_live` | 1 webhook, 2 workers, 2 attempts, retries by hand | `EventuallyHandled`, `ProcessingEnds`, `DoneIsFinal` |
| `job_lost` | 2 webhooks, 2 workers, manual retry of one | finds `StaleIndexHasOpenJob` violated |
| `revision` | 2 processes, 3 calls, 2 bumps | `TypeOK`, `ReadsOwnBumps`, `CallsSettle`, `EveryProcessCatchesUp` |
| `search` | 2 texts, 1 search at a time, 3 bumps | `FailClosed`, `ReceiptsAreCurrent`, `ImplementsListing` |
| `slots` | 2 products, 2 runs, 1 change among three plans | `TypeOK`, `PolicyRunKeepsSlot`, `SearchableIsBacked`, `SlotGrantedWithinLimit` |
| `catalog` | 2 products, 1 job, 2 workers, 2 attempts; an edit and a stall, or a retry by hand | `TypeOK`, `CursorCovered`, `ScanMeetsEveryProduct`, `CleanupSparesLive` |
| `worker` | 2 jobs, a web and a background process, concurrency 2, batch 2, 1 fault | `NoLostWakeup`, `InFlightBounded`, `EveryJobDone` |
| `billing` | 2 subscriptions, a storefront and 1 caller, 1 rare event | `OnlyApprovedIsServed`, `PaidPeriodKept`, `PointerSettles` |

Why the bounds suffice: the interesting cases need two actors on one resource. A
second call gives take-over, lost leases and late heartbeats; with time up to three
lease lengths an owner expires, is replaced, and the new owner expires again. Two
writes of one product give every order of markers; limit 1 with two updates reaches
the quota; two passes read one row at different times while the other update
replaces its vector (`MCBound`: while both are under way they are at the row of an
operation that is not slow, and no other row is stale; one pass alone is unbounded).
Two jobs and two workers give coalescing into a job being claimed, a stale claim,
and opposite orders of fetch and write; two attempts include the retry and
exhaustion. For the revision, two calls in one process give a shared SELECT and one
beside it that was disowned, and the second process bumps behind their back. For
publication, two texts give a vector, a profile and a row of different texts, and
three bumps a publication, its repair, the bump after a lost one, and a search that
keeps the key of before; receipts under older revisions are taken to expire first
(`MCBound`), since nobody begins a search with them; a search may run again and
again, and two at a time share nothing but receipts. Two products on a plan of one
compete for a slot, two runs hold a stale limit and a stale row while a
reconciliation rewrites both. Two products put one before and one after a cursor,
two workers a superseded scan beside its successor; the constraint on edits, stalls
and retries only limits how many of them one behaviour has. Two jobs and a width of
two make a drain wait for one task while the other found nothing, and a third slot
holds the task a broken drain left behind. Two subscriptions are the old and the new
one of a change of plan. The safety properties are also proved without any of these
bounds (below). Runs disable the deadlock check: calls end, operations finish, edits
are bounded, so the systems do stop.

Fairness. `LeaseLock`: a call's own steps happen (its statements return, throw or
time out), time passes, the clean-up timer fires. `UsageReservation`: operations end
or die, time passes, passes are started by an interval and their statements succeed
infinitely often (strong fairness: a database that fails for ever recovers nothing).
`ProductSyncJob`: workers poll and their calls return; strong fairness of Claim and
of the sweep says that processes do not crash before *every* claim; Shopify
redelivers a webhook until it is handled; leases run out. `QueueWorker`: timers fire
and continuations run, the poll ticks, retry delays and leases run out, a dead
process is started again. `CatalogRevision`: statements return or throw, callers use
what they were given, and the entry's seconds pass. `BillingState`: the storefront
is searched again and again, started calls go on, Shopify shows what was created and
expires what nobody approves, and periods end; nothing is assumed of the other
callers, whose calls may die. No fairness is assumed of edits, crashes, heartbeats
or the merchant.

### What the violation shows

`job_lost`: `retryFailedProductSyncJobs` resets `attempts`, the number that
identifies a claim. A worker of the first attempt, still waiting for the
product's lock, passes for the retried attempt's worker and closes a job that a
later webhook had joined. A product that is withheld on record is no
counterexample: the property excepts it. Theorem `StaleHasOpenJob` says that without
retries by hand, and while live workers keep their leases, the property holds.

### Seen while modelling, without a run

Usage. The payload keeps the marker of the last write only: write, crash before the
mark, another run of the same product writes, and the reconciler refunds the first
(`usage.server.ts:819-835`); with two passes, one may have marked it just before.
The reconciler also acts on `effectAppliedAt` as it read it with its batch, and the
rollback asks only for status PENDING: an operation that outlived its time limit,
marks its row after the batch was read and then dies is refunded, which
`product-indexer.server.ts:1161-1163` excludes; `AppliedIsCharged` therefore speaks
of operations within the limit, and of effects that the operation recorded itself or
whose vector still stands.

Jobs. `markProductSyncJobDone` runs inside the task
(`product-sync-job-processor.server.ts:257`); the check of the lease comes after it
(`lease-lock.server.ts:204-207`) and cannot reopen the job. Only `DoneStaysDone`
covers workers that lose their lease while they live. A recovery job's id is
`reindex:<shop>:<product>:policy:<version>`
(`products/quota-recovery.server.ts:35`), unique, and a new period's quota does not
advance the version: once it ran, a second recovery under the same version is taken
for a duplicate, so a product withheld again waits for a change of the policy, a
webhook or a scan.

Publication. `indexProduct` bumps after its last write, for what *this* run
refreshed. If it dies, or the UPDATE fails, between `upsertIndexedProduct` and the
bump, the retried job finds all stores current and does not bump
(`product-indexer.server.ts:678-684`, `1222-1225`): receipts of the old catalog stay
under the current key until they expire, a day by default, or another change of the
shop bumps. The run `search` has these deaths, and `ReceiptsAreCurrent` speaks again
from the next bump (`lostBump`). With `Reverts`, two runs that die after the profile
and before the hash, and an edit back, leave a profile of another text that
`semanticSourceChanged` takes for current; `FailClosed` is checked without.

Slots. Runs of the catalog scan take no product lease and are left out of
`ProductSlots`: with them `SearchableIsBacked` fails. A reconciliation may make
searchable a row whose vector is being replaced (STAGING), and leaves more slots
used than the limit when a write is in flight. `SlotGrantedWithinLimit` lists these
cases.

Catalog. A language change or manual refresh that joins a job retried by hand
and pending again, which keeps cursor and `scanStartedAt`, scans only from that
cursor (`catalog-sync-job.server.ts:553-578`). A pending STOREFRONT_RECONCILE becomes
a SLOT_REFILL by priority. Two scans may be PROCESSING at a time, against
`prisma/schema.prisma:703-704`. A product put on sale after the clean-up asked
Shopify for it is hidden (`catalog-sync-queue.server.ts:142-150`);
`CleanupSparesLive` allows it. A crashed holder's lease of ten minutes
can outlast all attempts, so liveness of scans is not claimed.

Billing. A late ACTIVE answer for the old subscription moves the pointer back,
healed by the next refresh of the storefront; a late PENDING answer for the new one
takes access away until then. A routine reconciliation without charge id resets
`paymentStatus` from PAID to NONE, so that after uninstall and return the paid rest
may be lost, which `routes/webhooks.app.uninstalled.tsx:69-71` promises. A delayed
uninstall webhook that arrives after the return cancels the new row and deletes the
session; a reconciliation in flight reactivates a shop that left. An uninstall
webhook that dies between its transaction and `session.deleteMany` leaves the
sessions for good (`routes/webhooks.app.uninstalled.tsx:183-188`).

## What is proved

TLAPS checks these for every value of the constants: any numbers of callers,
operations, jobs, workers, products, pages, processes and texts, and any values of the
bounds. Every safety invariant and action property of a passing run is stated by
a theorem.

* `LeaseLock_proofs`. `TypeCorrect`. The invariant relates row, `leaseLost` and
  history: a call that was told its lease is lost is not the owner (its token is
  never inserted again once it has entered), and a call that passed the check has
  seen no intruder. From it `LostLeaseStaysLost`, `SuccessExclusive`, and
  `LeaseImplementsSection`: each step is a step or a stutter of `ExclusiveSection`.
  `LiveOwnerKeepsRow`: a lease is taken over only when at most the difference of the
  clocks is left of it.
* `UsageReservation_proofs`. `AccountsExact` by an invariant (`Accounts`) that ties
  each row's status to its events and its place in the operation, and cardinalities
  of the charged sets; `NoDoubleCharge`, `QuotaRespected` follow.
  `ReservationsImplementLedger` maps every step to a decision of `QuotaLedger` or a
  stutter: only a reserve holds or refuses, only a commit or rollback of a held
  reservation decides it, a late one does nothing, and the clamp of the refund at
  zero is never taken because the unit is still counted. `AppliedNotRefunded`, for
  any number of passes, from `Orderly`: for an operation that keeps its time limit
  no pass plans anything while it works, so no pass that read the row as unmarked is
  under way when it marks; and a pass that decided a refund saw another marker,
  which the operation never writes again.
* `ProductSyncJob_proofs`. `DoneStaysDone` needs no assumption. `IndexMovesForward`
  assumes that live workers keep their leases: then the holder of the lock is the
  only worker between fetch and write (`Serial`), and what it read is not older than
  the index (`Ordered`). `NoUpdateLost` assumes also that jobs are not retried by
  hand: then attempt numbers identify claims (`Counted`), so only the current
  attempt may close a job, and it closes it with the latest version in the index or,
  blocked, in the registry. `StaleHasOpenJob` is its corollary in terms of job
  status.
* `ServerProcess_proofs`. For the revision cache, `OwnBumpsRead`: what is cached, or
  will be when an owned SELECT is answered, is at least the revision of the
  process's last returned bump, and a SELECT that was executed satisfies all who
  joined it, because a bump that returns disowns it (`Recent`). `AnswersAreBetween`
  adds the upper side: what a call answers was in MySQL at some time, which is what
  `SearchResultCache` assumes of a key. For the queue worker, `WakeupKept` and
  `FlightBounded` from one invariant (`QueueInv`). `NoLostWakeup` alone is not
  inductive: a round that found nothing ends the drain, and is right to do so only
  if what it read had not the job. `DrainOk` adds that a drain waits only for its
  own tasks while it runs, that found jobs and tasks fit the width it chose, that
  tasks of dead processes are off, and that each drain cut short leaves at most
  `Concurrency - 1` tasks behind.
* `ProductSlots_proofs`. `SlotInv`: a product has one run at a time (`Alone`); what
  is searchable has a vector and no block, and its point is only missing from Qdrant
  when a deletion has unpublished the row (`RowsOk`); what a run remembers of the
  point still holds, and a policy run has the lease and the slot (`RunsOk`). From it
  `PolicySlotKept` and `SearchableBacked`; `SlotsWithinLimit` by cardinalities over
  all rows, also across the transaction of the reconciliation, which grants by
  counting.
* `CatalogSync_proofs`. `ScanInv`: what job `j` still owes a visit lies after its
  cursor, and what is not on sale is in `down[j]` (`JobOk`); it lies also after the
  place that any worker of the job has reached, superseded or not, and is nothing
  once a worker takes the scan for complete (`Reached`); a clean-up only takes off
  products that it listed and that were down (`Cleans`). From it `CheckpointsCover`,
  `CompleteScans` and `CleanupKeepsLive`.
* `BillingState_proofs`. `OnlyApprovedServed`: an answer in flight says ACTIVE only
  of what was approved, and approval is not taken back (`AllApproved`).
  `PaidPeriodStays` from `Periods`: at most one subscription is live at Shopify,
  calls carry only what they were told (`Faithful`), and a graced one is known as
  cancelled with its period to come by its row and by every call that will write it
  or move the pointer for it (`Graced`).
* `SearchResultCache_proofs`. `FailClosedAlways` assumes that no earlier text is
  restored. Then texts only grow and the hash in the registry is never ahead of the
  profile (`Ordered`), so a run that finds the hash of its text may trust the
  profile; from its stage on the vector, and from the source on the profile, are of
  the run's text (`Staged`). From the same invariant `PublicationImplementsListing`:
  each step prepares, lists, withdraws, or is not seen by a search; and by it
  `TextsNeverGoBack`, a property of whole behaviours: once a search could find a
  text, no later search finds an older one, whatever was hidden or deleted between.
  `ReceiptsCurrent` assumes nothing of texts or of where runs end. A run owes a bump
  from its first write (`Owed`); so each of its steps advances the revision, or
  settles nothing and leaves alone what is settled (`Retires`), unless it is cut
  short there, which `lostBump` remembers; in a settled state all that is saved, or
  is being found, under the current revision is current (`Current`).
  `SearchesOnlyRead`: beside any searches the publication is the same, so its
  theorems hold in the composition.

What the proofs assume of the constants are the named assumptions of the modules
(finite sets, distinct names, sizes at least one) and, where a theorem says so, one
of `LiveLeaseLoss = FALSE`, `Retryable = {}`, `~Reverts`. Each of these is a real
case the code does not guard; the sections above say what happens without it.

Only model-checked, because liveness under fairness and ENABLED are beyond the
prover: `CallsEnd`, `OrphanIsReclaimed`, `PendingIsResolved`, `EventuallyHandled`,
`ProcessingEnds`, `CallsSettle`, `EveryProcessCatchesUp`, `EveryJobDone`,
`PointerSettles`.

## Not modelled, and why

Query analysis, ranking and fusion, theme and Liquid compilers, the renderer:
pure computations on text and floating-point numbers, without shared state.
Dashboards and pages: user interface. Theme map lifecycle: a cache of a compiled
text that is checked against the checksums of its source on every use; its
upserts are idempotent and its shared builds have the shape of
`CatalogRevision`. Providers and Qdrant appear only as calls
that may fail or whose answer may be lost. Of billing: plans, prices, trials,
charges and payment evidence, events, the schedule of the poll, the legacy table.
How a limit follows from subscription and grants (`Limits`, `Plans` stand for what a
caller may have read). The clean-up of orphan vectors after a scan.

## Plan

Done: every component the table above gives a module. Left:

1. `Entitlement`: subscription snapshot, grants and their caches, so that a limit is
   derived and its staleness bounded.
2. `ProductPublication` with two runs that overlap, for the catalog scan.
3. A composition of `LeaseLock` and `ProductSyncJob` instead of the lock as one
   step. It is not a step-wise refinement of `ExclusiveSection`: workers call again
   and again, and a job's release is one step where the lease checks and deletes in
   two.
