----------------------------- MODULE CatalogSync -----------------------------
(***************************************************************************)
(* Catalog scans of one shop: the durable jobs (AiSearchCatalogSyncJob),   *)
(* the workers that claim them, scan the catalog page by page from the     *)
(* job's cursor, take stale products off display and close the job, beside *)
(* requests for scans, merchants' edits and the product jobs of webhooks.  *)
(*                                                                         *)
(* Abstractions.  A product is its place in the catalog, a page holds one  *)
(* product.  Clock values are only compared: a job whose updatedAt lies    *)
(* LEASE_MS back is old, and seen[j] are the rows with lastCatalogSeenAt   *)
(* at or after the scanStartedAt of j.  A product job runs as a whole      *)
(* (ProductSyncJob, ProductPublication); of a row only its display is      *)
(* kept.  The leases are the abstract lock LeaseLock implements; a suspen- *)
(* ded worker (Stall) loses its lease and is replaced while it goes on.    *)
(***************************************************************************)
EXTENDS Integers, FiniteSets, FiniteSetsExt

CONSTANTS CatalogSize,  \* number of products
          JobIds,       \* ids a job may get: 1..n, in order
          Reasons,      \* what scans are asked for
          Workers,      \* app instances
          None, Dead,   \* no holder of the lease; a holder that crashed
          MaxAttempts,  \* AI_SEARCH_CATALOG_MAX_ATTEMPTS
          MaxEdits, MaxStalls, MaxRetries  \* bounds: edits, suspensions, retries by hand

ASSUME SizesPositive == /\ CatalogSize \in Nat \ {0} /\ MaxAttempts \in Nat \ {0}
                        /\ MaxEdits \in Nat /\ MaxStalls \in Nat /\ MaxRetries \in Nat
Priority == [INITIAL |-> 10, STOREFRONT_RECONCILE |-> 20, SLOT_REFILL |-> 30,
             PLAN_RECONCILE |-> 40, RECONCILE |-> 50, MANUAL_REFRESH |-> 60,
             LANGUAGE_CHANGE |-> 100]
ASSUME ReasonsKnown == Reasons \subseteq DOMAIN Priority
ASSUME IdsAreNumbers == JobIds \subseteq Nat \ {0} /\ IsFiniteSet(JobIds)
ASSUME HoldersDistinct == None # Dead /\ None \notin Workers /\ Dead \notin Workers

VARIABLES job,    \* the table of jobs
          seen,   \* per job: rows seen since its scan started
          reg,    \* the registry: is there a row, and is it searchable
          store,  \* the product in Shopify
          asked,  \* reason of the enqueue call between its reads and its INSERT
          lease,  \* holder of catalog:process
          wk,     \* the workers
          met,    \* history, per job: products visited since its scan started
          down,   \* history, per job: products off sale at some time since then
          used    \* how much of the bounds is used

vars == <<job, seen, reg, store, asked, lease, wk, met, down, used>>

Products == 1..CatalogSize
Forced == Reasons \ {"INITIAL"}
Fill == {"INITIAL", "SLOT_REFILL"}  \* stopWhenProductLimitReached
Statuses == {"NONE", "PENDING", "PROCESSING", "DONE", "FAILED"}

JobRows == [status: Statuses, attempts: 0..MaxAttempts, cursor: 0..CatalogSize,
            reason: DOMAIN Priority, started: BOOLEAN, old: BOOLEAN]
NoJob == [status |-> "NONE", attempts |-> 0, cursor |-> 0,
          reason |-> "INITIAL", started |-> FALSE, old |-> FALSE]

Steps == {"idle", "claim", "reread", "wait", "page", "item", "save", "list", "clean",
          "drop", "done", "exit", "fail"}
Running == {"page", "item", "save", "list", "clean", "drop", "done", "exit"}
Shelf == {"LIVE", "OFF", "GONE"}
Idle == [pc |-> "idle", id |-> 0, status |-> "NONE", attempt |-> 0, pos |-> 0,
         item |-> 0, more |-> FALSE, fill |-> FALSE, stopped |-> FALSE,
         lost |-> FALSE, batch |-> {}, off |-> {}]

Init == /\ job = [j \in JobIds |-> NoJob]
        /\ seen = [j \in JobIds |-> {}]
        /\ store \in [Products -> {"LIVE", "OFF"}]
        /\ reg = [p \in Products |-> "NONE"]
        /\ asked = None /\ lease = None
        /\ wk = [w \in Workers |-> Idle]
        /\ met = [j \in JobIds |-> {}] /\ down = [j \in JobIds |-> {}]
        /\ used = [edits |-> 0, stalls |-> 0, retries |-> 0]
-----------------------------------------------------------------------------
(* Requests.                                                               *)

WithStatus(s) == {j \in JobIds : job[j].status = s}
Live == {p \in Products : store[p] = "LIVE"}
OnDisplay == {p \in Products : reg[p] = "SHOWN"}

\* the pending job of the highest id takes the request in
Coalesce(reason) ==
  /\ asked = None /\ WithStatus("PENDING") # {}
  /\ LET j == Max(WithStatus("PENDING"))
         higher == reason \in Forced /\ Priority[reason] > Priority[job[j].reason]
     IN higher /\ job' = [job EXCEPT ![j].reason = reason]
  /\ UNCHANGED <<seen, reg, store, asked, lease, wk, met, down, used>>

\* what an INITIAL request may find instead of a pending job
Covered(reason) ==
  /\ reason \notin Forced
  /\ \/ WithStatus("PROCESSING") # {} \/ OnDisplay # {}
     \/ \E j \in WithStatus("FAILED") : job[j].attempts < MaxAttempts

Ask(reason) ==
  /\ asked = None /\ WithStatus("PENDING") = {} /\ ~Covered(reason)
  /\ WithStatus("NONE") # {}
  /\ asked' = reason
  /\ UNCHANGED <<job, seen, reg, store, lease, wk, met, down, used>>

Insert ==
  /\ asked # None
  /\ LET j == Min(WithStatus("NONE"))
     IN job' = [job EXCEPT ![j].status = "PENDING", ![j].reason = asked]
  /\ asked' = None
  /\ UNCHANGED <<seen, reg, store, lease, wk, met, down, used>>

RetryByHand ==
  /\ used.retries < MaxRetries /\ used' = [used EXCEPT !.retries = @ + 1]
  /\ WithStatus("FAILED") # {}
  /\ job' = [job EXCEPT ![Max(WithStatus("FAILED"))].status = "PENDING",
                        ![Max(WithStatus("FAILED"))].attempts = 0]
  /\ UNCHANGED <<seen, reg, store, asked, lease, wk, met, down>>
-----------------------------------------------------------------------------
(* Claiming a job.                                                         *)

Active(statuses) == \E j \in JobIds : job[j].status \in statuses

\* Mutant: one attempt too many.
Claimable_OneMore(j) ==
  /\ job[j].attempts <= MaxAttempts
  /\ \/ job[j].status = "PENDING" /\ ~Active({"PROCESSING"})
     \/ job[j].status = "PROCESSING" /\ job[j].old
     \/ job[j].status = "FAILED" /\ ~Active({"PENDING", "PROCESSING"})

\* candidates: three SELECTs; claimable: what of them is due
Claimable(j) ==
  /\ job[j].attempts < MaxAttempts
  /\ \/ job[j].status = "PENDING" /\ ~Active({"PROCESSING"})
     \/ job[j].status = "PROCESSING" /\ job[j].old
     \/ job[j].status = "FAILED" /\ ~Active({"PENDING", "PROCESSING"})

Select(w) ==
  /\ wk[w].pc = "idle"
  /\ \E j \in JobIds :
       /\ Claimable(j)
       /\ wk' = [wk EXCEPT ![w] = [Idle EXCEPT !.pc = "claim", !.id = j,
                   !.status = job[j].status, !.attempt = job[j].attempts]]
  /\ UNCHANGED <<job, seen, reg, store, asked, lease, met, down, used>>

\* the row a claim compares with: status and attempts, nothing else
Unclaimed(w) == LET r == job[wk[w].id]
                IN r.status = wk[w].status /\ r.attempts = wk[w].attempt

\* the UPDATE of a claim; fresh: it sets scanStartedAt
Claimed(w, fresh) ==
  LET j == wk[w].id
  IN /\ job' = [job EXCEPT ![j].status = "PROCESSING", ![j].started = TRUE,
                   ![j].attempts = @ + 1, ![j].old = FALSE]
     /\ wk' = [wk EXCEPT ![w] = [Idle EXCEPT !.pc = "reread", !.id = j]]
     /\ IF fresh THEN /\ seen' = [seen EXCEPT ![j] = {}] /\ met' = [met EXCEPT ![j] = {}]
                      /\ down' = [down EXCEPT ![j] = Products \ Live]
                 ELSE UNCHANGED <<seen, met, down>>

\* Mutant: scanStartedAt is set by every claim.
Claim_Restarts(w) ==
  /\ wk[w].pc = "claim"
  /\ IF Unclaimed(w) THEN Claimed(w, TRUE)
     ELSE wk' = [wk EXCEPT ![w] = Idle] /\ UNCHANGED <<job, seen, met, down>>
  /\ UNCHANGED <<reg, store, asked, lease, used>>

Claim(w) ==
  /\ wk[w].pc = "claim"
  /\ IF Unclaimed(w) THEN Claimed(w, ~job[wk[w].id].started)
     ELSE wk' = [wk EXCEPT ![w] = Idle] /\ UNCHANGED <<job, seen, met, down>>
  /\ UNCHANGED <<reg, store, asked, lease, used>>

\* the job a worker goes on with is read by a statement of its own: where the
\* process was suspended meanwhile, it may be a later attempt of another worker
Reread(w) ==
  /\ wk[w].pc = "reread"
  /\ LET r == job[wk[w].id]
     IN wk' = [wk EXCEPT ![w].pc = "wait", ![w].attempt = r.attempts,
                 ![w].pos = r.cursor, ![w].fill = r.reason \in Fill]
  /\ UNCHANGED <<job, seen, reg, store, asked, lease, met, down, used>>

\* every claim starts by closing what nobody will claim any more
Terminalize ==
  /\ \E j \in WithStatus("PROCESSING") :
       /\ job[j].old /\ job[j].attempts >= MaxAttempts
       /\ job' = [job EXCEPT ![j].status = "FAILED", ![j].old = FALSE]
  /\ UNCHANGED <<seen, reg, store, asked, lease, wk, met, down, used>>
-----------------------------------------------------------------------------
(* The scan, under the lease catalog:process.                              *)

\* the WHERE clause of checkpoint, progress, heartbeat, done and failed
Current(w) == LET r == job[wk[w].id]
              IN r.status = "PROCESSING" /\ r.attempts = wk[w].attempt
Refreshed(j) == [job EXCEPT ![j].old = FALSE]
Goto(w, pc) == wk' = [wk EXCEPT ![w].pc = pc]
Freed(w) == lease' = IF lease = w THEN None ELSE lease
\* the task is over; no step reads the other locals any more
Leave(w, pc) == wk' = [wk EXCEPT ![w] = [Idle EXCEPT !.pc = pc, !.id = wk[w].id,
                                                   !.attempt = wk[w].attempt]]
\* it throws: the lease is released, then the job is marked failed
Throw(w) == Freed(w) /\ Leave(w, "fail")
World == UNCHANGED <<store, asked, down, used>>

Enter(w) ==
  /\ wk[w].pc = "wait" /\ lease = None
  /\ IF Current(w) THEN lease' = w /\ Goto(w, "page")
                   ELSE wk' = [wk EXCEPT ![w] = Idle] /\ UNCHANGED lease
  /\ World /\ UNCHANGED <<job, seen, reg, met>>

WaitTimesOut(w) ==
  /\ wk[w].pc = "wait" /\ lease # None
  /\ Leave(w, "fail")
  /\ World /\ UNCHANGED <<job, seen, reg, lease, met>>

\* Shopify, the vector store or the database throws, or the subscription ended
TaskFails(w) ==
  /\ wk[w].pc \in {"page", "save", "list", "clean", "drop", "done"}
  /\ Throw(w)
  /\ World /\ UNCHANGED <<job, seen, reg, met>>

StopAtLimit(w) ==
  /\ wk[w].pc = "page" /\ wk[w].fill
  /\ wk' = [wk EXCEPT ![w].stopped = TRUE, ![w].pc = "done"]
  /\ World /\ UNCHANGED <<job, seen, reg, lease, met>>

\* fetchProductsForIndex: the next product on sale, if there is one
FetchPage(w) ==
  /\ wk[w].pc = "page"
  /\ LET ahead == {p \in Live : p > wk[w].pos}
     IN wk' = [wk EXCEPT ![w].pc = IF ahead = {} THEN "save" ELSE "item",
                 ![w].item = IF ahead = {} THEN 0 ELSE Min(ahead),
                 ![w].more = Cardinality(ahead) > 1]
  /\ World /\ UNCHANGED <<job, seen, reg, lease, met>>

Touched(p) == [j \in JobIds |-> seen[j] \cup {p}]
Visited(w) == met' = [met EXCEPT ![wk[w].id] = @ \cup {wk[w].item}]

\* indexProduct: indexed, or blocked: for want of a slot if it is not on display
\* already, or because the subscription ended after the check of the page; the
\* row is touched before and after
IndexItem(w) ==
  /\ wk[w].pc = "item"
  /\ \E shown \in BOOLEAN :
       /\ reg' = [reg EXCEPT ![wk[w].item] = IF shown THEN "SHOWN" ELSE "HIDDEN"]
       /\ \E noSlot \in IF ~shown /\ wk[w].fill /\ reg[wk[w].item] # "SHOWN"
                        THEN BOOLEAN ELSE {FALSE} :
            wk' = [wk EXCEPT ![w].pc = "save", ![w].stopped = noSlot]
  /\ seen' = Touched(wk[w].item) /\ Visited(w)
  /\ World /\ UNCHANGED <<job, lease>>

\* Mutant: the page is passed whether or not a product job was queued.
ItemFails_NotAwaited(w) ==
  /\ wk[w].pc = "item"
  /\ seen' = IF reg[wk[w].item] = "NONE" THEN seen ELSE Touched(wk[w].item)
  /\ Goto(w, "save")
  /\ World /\ UNCHANGED <<job, reg, lease, met>>

\* indexProduct throws: a product job is queued before the page can be passed
ItemFails(w) ==
  /\ wk[w].pc = "item"
  /\ seen' = IF reg[wk[w].item] = "NONE" THEN seen ELSE Touched(wk[w].item)
  /\ IF wk[w].lost
     THEN Throw(w) /\ UNCHANGED met
     ELSE \/ Visited(w) /\ Goto(w, "save") /\ UNCHANGED lease
          \/ Throw(w) /\ UNCHANGED met  \* the INSERT fails too
  /\ World /\ UNCHANGED <<job, reg>>

\* onPageCompleted, and heartbeatLost after the last page
SavePage(w) ==
  /\ wk[w].pc = "save"
  /\ LET on == wk[w].more /\ ~wk[w].stopped
     IN IF wk[w].lost \/ ~Current(w)
        THEN Throw(w) /\ UNCHANGED job
        ELSE /\ job' = [job EXCEPT ![wk[w].id].cursor = IF on THEN wk[w].item ELSE 0,
                                   ![wk[w].id].old = FALSE]
             /\ wk' = [wk EXCEPT ![w].pos = wk[w].item, ![w].item = 0, ![w].more = FALSE,
                         ![w].pc = CASE on -> "page"
                                     [] wk[w].stopped -> "done"
                                     [] OTHER -> "list"]
             /\ UNCHANGED lease
  /\ World /\ UNCHANGED <<seen, reg, met>>

\* Mutant: what the scan did not see is taken to be gone.
ListStale_NoPresence(w) ==
  /\ wk[w].pc = "list"
  /\ LET stale == {p \in Products : reg[p] # "NONE" /\ p \notin seen[wk[w].id]}
     IN wk' = [wk EXCEPT ![w].pc = IF stale = {} THEN "done" ELSE "clean",
                 ![w].batch = stale, ![w].off = stale]
  /\ World /\ UNCHANGED <<job, seen, reg, lease, met>>

\* listStaleIndexedProducts and fetchProductPresenceByIds, again and again
ListStale(w) ==
  /\ wk[w].pc = "list"
  /\ LET stale == {p \in Products : reg[p] # "NONE" /\ p \notin seen[wk[w].id]}
     IN wk' = [wk EXCEPT ![w].pc = IF stale = {} THEN "done" ELSE "clean",
                 ![w].batch = stale, ![w].off = {p \in stale : store[p] # "LIVE"}]
  /\ World /\ UNCHANGED <<job, seen, reg, lease, met>>

Processed(w, p) == LET rest == wk[w].batch \ {p}
                   IN wk' = [wk EXCEPT ![w].batch = rest, ![w].off = @ \ {p},
                               ![w].pc = IF rest = {} THEN "list" ELSE "clean"]
Hidden(p) == reg' = IF reg[p] = "NONE" THEN reg ELSE [reg EXCEPT ![p] = "HIDDEN"]
Seen(p) == seen' = IF reg[p] = "NONE" THEN seen ELSE Touched(p)

KeepStale(w, p) ==
  /\ wk[w].pc = "clean" /\ p \in wk[w].batch \ wk[w].off
  /\ Seen(p) /\ Processed(w, p)
  /\ World /\ UNCHANGED <<job, reg, lease, met>>

\* NOT_SEARCHABLE
HideStale(w, p) ==
  /\ wk[w].pc = "clean" /\ p \in wk[w].off
  /\ Hidden(p) /\ Seen(p) /\ Processed(w, p)
  /\ World /\ UNCHANGED <<job, lease, met>>

\* MISSING: hidden first, dropped later
HideMissing(w, p) ==
  /\ wk[w].pc = "clean" /\ p \in wk[w].off
  /\ Hidden(p) /\ wk' = [wk EXCEPT ![w].pc = "drop", ![w].item = p]
  /\ World /\ UNCHANGED <<job, seen, lease, met>>

DropMissing(w) ==
  /\ wk[w].pc = "drop"
  /\ reg' = [reg EXCEPT ![wk[w].item] = "NONE"]
  /\ seen' = [j \in JobIds |-> seen[j] \ {wk[w].item}]
  /\ LET rest == wk[w].batch \ {wk[w].item}
     IN wk' = [wk EXCEPT ![w].batch = rest, ![w].off = @ \ {wk[w].item}, ![w].item = 0,
                 ![w].pc = IF rest = {} THEN "list" ELSE "clean"]
  /\ World /\ UNCHANGED <<job, lease, met>>

MarkDone(w) ==
  /\ wk[w].pc = "done"
  /\ IF wk[w].lost
     THEN Throw(w) /\ UNCHANGED job
     ELSE /\ job' = IF Current(w)
                    THEN [job EXCEPT ![wk[w].id].status = "DONE", ![wk[w].id].cursor = 0,
                                     ![wk[w].id].old = FALSE]
                    ELSE job
          /\ Leave(w, "exit") /\ UNCHANGED lease
  /\ World /\ UNCHANGED <<seen, reg, met>>

\* the lease is checked and released
Exit(w) ==
  /\ wk[w].pc = "exit" /\ Freed(w)
  /\ IF lease = w THEN wk' = [wk EXCEPT ![w] = Idle] ELSE Leave(w, "fail")
  /\ World /\ UNCHANGED <<job, seen, reg, met>>

MarkFailed(w) ==
  /\ wk[w].pc = "fail"
  /\ job' = IF Current(w) THEN [job EXCEPT ![wk[w].id].status = "FAILED",
                                           ![wk[w].id].old = FALSE]
                          ELSE job
  /\ wk' = [wk EXCEPT ![w] = Idle]
  /\ World /\ UNCHANGED <<seen, reg, lease, met>>

\* heartbeatCatalogSyncJob, and updateCatalogSyncProgress between products
Heartbeat(w) ==
  /\ wk[w].pc \in Running /\ ~wk[w].lost
  /\ IF Current(w)
     THEN job[wk[w].id].old /\ job' = Refreshed(wk[w].id) /\ UNCHANGED wk
     ELSE wk' = [wk EXCEPT ![w].lost = TRUE] /\ UNCHANGED job
  /\ World /\ UNCHANGED <<seen, reg, lease, met>>
-----------------------------------------------------------------------------
(* Failures, and the world around.                                         *)

Owned(j) == \E w \in Workers : wk[w].id = j /\ wk[w].pc \notin {"idle", "claim", "reread"}
                               /\ wk[w].attempt = job[j].attempts
Age(j) ==
  /\ job[j].status = "PROCESSING" /\ ~job[j].old /\ ~Owned(j)
  /\ job' = [job EXCEPT ![j].old = TRUE]
  /\ UNCHANGED <<seen, reg, store, asked, lease, wk, met, down, used>>

\* the process is suspended past its lease and the age of its job, and goes on
Stall(w) ==
  /\ wk[w].pc \in Running /\ lease = w
  /\ used.stalls < MaxStalls /\ used' = [used EXCEPT !.stalls = @ + 1]
  /\ lease' = None
  /\ job' = IF Current(w) THEN [job EXCEPT ![wk[w].id].old = TRUE] ELSE job
  /\ UNCHANGED <<seen, reg, store, asked, wk, met, down>>

Crash(w) ==
  /\ wk[w].pc \notin {"idle", "claim"}
  /\ wk' = [wk EXCEPT ![w] = Idle]
  /\ lease' = IF lease = w THEN Dead ELSE lease
  /\ World /\ UNCHANGED <<job, seen, reg, met>>

LeaseExpires ==
  /\ lease = Dead /\ lease' = None
  /\ UNCHANGED <<job, seen, reg, store, asked, wk, met, down, used>>

Edit(p) ==
  /\ used.edits < MaxEdits /\ used' = [used EXCEPT !.edits = @ + 1]
  /\ \E s \in Shelf \ {store[p]} : store' = [store EXCEPT ![p] = s]
  /\ store[p] # "GONE"
  /\ down' = IF store'[p] = "LIVE" THEN down ELSE [j \in JobIds |-> down[j] \cup {p}]
  /\ UNCHANGED <<job, seen, reg, asked, lease, wk, met>>

\* a product job (of a webhook, a retry or the policy) indexes, or is blocked,
\* unpublishes or deletes; one may be due at any time
ProductJob(p) ==
  /\ \E shown \in IF store[p] = "LIVE" THEN BOOLEAN ELSE {FALSE} :
       reg' = [reg EXCEPT ![p] =
                 CASE shown -> "SHOWN"
                   [] store[p] = "GONE" \/ (store[p] = "OFF" /\ reg[p] = "NONE") -> "NONE"
                   [] OTHER -> "HIDDEN"]
  /\ seen' = IF store[p] = "GONE" THEN [j \in JobIds |-> seen[j] \ {p}] ELSE seen
  /\ UNCHANGED <<job, store, asked, lease, wk, met, down, used>>

Scan(w) ==
  \/ Select(w) \/ Claim(w) \/ Reread(w) \/ Enter(w) \/ WaitTimesOut(w) \/ StopAtLimit(w)
  \/ FetchPage(w) \/ IndexItem(w) \/ ItemFails(w) \/ SavePage(w) \/ ListStale(w)
  \/ (\E p \in Products : KeepStale(w, p) \/ HideStale(w, p) \/ HideMissing(w, p))
  \/ DropMissing(w) \/ MarkDone(w) \/ Exit(w) \/ MarkFailed(w)

Next ==
  \/ \E r \in Reasons : Coalesce(r) \/ Ask(r)
  \/ Insert \/ RetryByHand \/ Terminalize \/ LeaseExpires
  \/ \E w \in Workers : Scan(w) \/ TaskFails(w) \/ Heartbeat(w) \/ Stall(w) \/ Crash(w)
  \/ \E j \in JobIds : Age(j)
  \/ \E p \in Products : Edit(p) \/ ProductJob(p)

Spec == Init /\ [][Next]_vars
-----------------------------------------------------------------------------
(* Properties.                                                             *)

TypeOK ==
  /\ job \in [JobIds -> JobRows] /\ seen \in [JobIds -> SUBSET Products]
  /\ reg \in [Products -> {"NONE", "SHOWN", "HIDDEN"}]
  /\ store \in [Products -> Shelf]
  /\ asked \in Reasons \cup {None} /\ lease \in Workers \cup {None, Dead}
  /\ met \in [JobIds -> SUBSET Products] /\ down \in [JobIds -> SUBSET Products]
  /\ wk \in [Workers -> [pc: Steps, id: JobIds \cup {0}, status: Statuses,
       attempt: 0..MaxAttempts, pos: 0..CatalogSize, item: 0..CatalogSize,
       more: BOOLEAN, fill: BOOLEAN, stopped: BOOLEAN, lost: BOOLEAN,
       batch: SUBSET Products, off: SUBSET Products]]

\* products job j still has to visit: on sale since its scan started
Owed(j) == Products \ (met[j] \cup down[j])

\* A checkpoint never passes a product that was not visited: whatever attempts
\* overlap, every product up to the cursor was indexed or has a product job.
CursorCovered == \A j \in JobIds : Owed(j) \cap 1..job[j].cursor = {}

\* A scan is only taken for complete (its cleanup runs, its job becomes DONE)
\* when every product on sale was visited since the scan started: by the job's
\* attempts together, not by the last one alone.
ScanMeetsEveryProduct ==
  \A w \in Workers : wk[w].pc \in {"list", "clean", "drop", "done"} /\ ~wk[w].stopped
                       => Owed(wk[w].id) = {}

\* A cleanup takes a product off display only if it was off sale at some time
\* since the scan the cleanup belongs to started: whatever the scan itself, its
\* earlier attempts and product jobs beside it did to the product's row.
CleanupSparesLive ==
  [][\A w \in Workers : wk[w].pc \in {"clean", "drop"} /\ wk'[w] # wk[w] =>
       \A p \in Products : reg[p] = "SHOWN" /\ reg'[p] # "SHOWN" =>
                            p \in down[wk[w].id]]_vars
=============================================================================
