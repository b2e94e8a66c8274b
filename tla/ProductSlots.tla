---------------------------- MODULE ProductSlots ----------------------------
(***************************************************************************)
(* The registry of one shop's products (AiSearchIndexedProduct) as the     *)
(* ledger of the plan's product slots.  A row uses a slot when its         *)
(* blockedReason is NULL.  The runs of jobs (webhook and policy jobs) read *)
(* the row, read the entitlement, reserve a slot and write the row some    *)
(* awaits later; the policy reconciliation rewrites every row in one       *)
(* transaction, under the lease product-policy:reconcile, which policy     *)
(* jobs hold too and webhook jobs do not.  The catalog scan's runs, which  *)
(* take no product lease, are left to CatalogSync.                         *)
(*                                                                         *)
(* Abstractions.  A policy job is queued under the current policy version  *)
(* (queued) or is a no-op, since runJobWork compares the versions first.   *)
(* Ties of planProductEligibility (createdAt, id) are left open, as is     *)
(* what Shopify answers.  The recovery statuses and VECTOR_QUOTA_BLOCKED,  *)
(* a slot waiting for its vector, are one status WAITING.  An unlimited    *)
(* plan needs no slots and is left out.  The lease is the abstract lock    *)
(* that LeaseLock implements.                                              *)
(***************************************************************************)
EXTENDS Integers, FiniteSets

CONSTANTS Products,    \* product ids of the shop
          Workers,     \* index runs that may be in flight together
          Plans,       \* entitlements the shop moves between: [active, limit]
          FirstPlan,   \* the one it starts with
          MaxChanges,  \* bound: changes of the plan
          Nobody, Reconciler   \* holders of the policy lease besides Workers

ASSUME ProductsFinite == IsFiniteSet(Products) /\ MaxChanges \in Nat
ASSUME PlansTyped == FirstPlan \in Plans /\ Plans \subseteq [active: BOOLEAN, limit: Nat]
ASSUME HoldersDistinct == /\ Nobody # Reconciler /\ Nobody \notin Products
                          /\ Nobody \notin Workers /\ Reconciler \notin Workers

VARIABLES plan,     \* entitlement.active and the effective product limit
          changes,  \* how often the plan changed (bounded)
          row,      \* AiSearchIndexedProduct
          gone,     \* deleted in Shopify, and not yet here
          vec,      \* the product has a point in Qdrant
          lease,    \* holder of product-policy:reconcile
          recPlan,  \* the entitlement the running reconciliation read
          queued,   \* products with a pending policy job of the current version
          run       \* the index runs

vars == <<plan, changes, gone, row, vec, lease, recPlan, queued, run>>

Statuses == {"NONE", "INDEXED", "RESERVED", "WAITING", "PRODUCT_LIMIT_BLOCKED",
             "SUBSCRIPTION_BLOCKED", "UNPUBLISHED"}
BlockedReasons == {"ABSENT", "NULL", "PRODUCT_LIMIT", "SUBSCRIPTION", "UNPUBLISHED"}
VectorStatuses == {"MISSING", "STAGING", "READY", "STALE"}
Rows == [status: Statuses, hasVector: BOOLEAN, searchable: BOOLEAN,
         blocked: BlockedReasons, vstatus: VectorStatuses]
NoRow == [status |-> "NONE", hasVector |-> FALSE, searchable |-> FALSE,
          blocked |-> "ABSENT", vstatus |-> "MISSING"]

Kinds == {"none", "webhook", "policy", "delete"}
Steps == {"idle", "read", "unpublish", "ineligible", "entitle", "inactive",
          "reserve", "refused", "write", "quota", "stage", "publish",
          "hide", "dropVector", "dropRow"}
Runs == [pc: Steps, kind: Kinds, p: Products \cup {Nobody}, held: BOOLEAN, indexed: BOOLEAN,
         adopt: BOOLEAN, reserved: BOOLEAN, plan: Plans]
IdleRun == [pc |-> "idle", kind |-> "none", p |-> Nobody,
            held |-> FALSE, indexed |-> FALSE, adopt |-> FALSE, reserved |-> FALSE,
            plan |-> FirstPlan]

Init == /\ plan = FirstPlan /\ changes = 0
        /\ row = [p \in Products |-> NoRow]
        /\ vec \in [Products -> BOOLEAN]  \* a Phase-1 shop has vectors and no rows
        /\ lease = Nobody /\ recPlan = FirstPlan
        /\ queued = {} /\ gone = {}
        /\ run = [w \in Workers |-> IdleRun]
-----------------------------------------------------------------------------
(* Row updates.                                                            *)

UsesSlot(r) == r.blocked = "NULL" \/ r.status = "RESERVED"
SlotRows == {p \in Products : UsesSlot(row[p])}
SlotsUsed == Cardinality(SlotRows)
OverLimit == plan.active /\ SlotsUsed > plan.limit
Present(r) == r.status # "NONE"
PolicyBlocked(r) == ~r.searchable /\ r.blocked \in {"PRODUCT_LIMIT", "SUBSCRIPTION"}

reserved(r) == [r EXCEPT !.status = "RESERVED", !.blocked = "NULL"]
staged(r) == [r EXCEPT !.status = "INDEXED", !.hasVector = TRUE, !.searchable = FALSE,
                       !.blocked = "NULL", !.vstatus = "STAGING"]
upserted(r) == [r EXCEPT !.status = "INDEXED", !.hasVector = TRUE, !.searchable = TRUE,
                         !.blocked = "NULL", !.vstatus = "READY"]
unpublished(r) == IF Present(r)
                  THEN [r EXCEPT !.status = "UNPUBLISHED", !.searchable = FALSE,
                                 !.blocked = "UNPUBLISHED"]
                  ELSE r

\* changed: the document differs from the one the row remembers
VectorStatusOf(r, changed) == IF ~r.hasVector THEN "MISSING"
                              ELSE IF changed THEN "STALE" ELSE r.vstatus

ineligible(r, changed) == IF Present(r)
                          THEN [r EXCEPT !.searchable = FALSE,
                                         !.vstatus = VectorStatusOf(r, changed)]
                          ELSE r

\* Mutant: blockedReason is stored as it was passed.
marked_RawReason(r, reason, hasVector, changed) ==
  LET has == r.hasVector \/ hasVector
      quota == reason = "VECTOR_UPDATE_LIMIT"
  IN [status |-> CASE reason = "PRODUCT_LIMIT" -> "PRODUCT_LIMIT_BLOCKED"
                   [] reason = "SUBSCRIPTION_INACTIVE" -> "SUBSCRIPTION_BLOCKED"
                   [] OTHER -> IF hasVector THEN "INDEXED" ELSE "WAITING",
      hasVector |-> has,
      searchable |-> quota /\ has,
      blocked |-> IF quota THEN "NULL" ELSE reason,
      vstatus |-> CASE ~has -> "MISSING"
                    [] has /\ quota -> "STALE"
                    [] has /\ ~quota /\ ~Present(r) -> "READY"
                    [] OTHER -> IF changed THEN "STALE" ELSE r.vstatus]

marked(r, reason, hasVector, changed) ==
  LET has == r.hasVector \/ hasVector
      quota == reason = "VECTOR_UPDATE_LIMIT"
  IN [status |-> CASE reason = "PRODUCT_LIMIT" -> "PRODUCT_LIMIT_BLOCKED"
                   [] reason = "SUBSCRIPTION_INACTIVE" -> "SUBSCRIPTION_BLOCKED"
                   [] OTHER -> IF hasVector THEN "INDEXED" ELSE "WAITING",
      hasVector |-> has,
      searchable |-> quota /\ has,
      blocked |-> CASE quota -> "NULL"
                    [] reason = "SUBSCRIPTION_INACTIVE" -> "SUBSCRIPTION"
                    [] OTHER -> reason,
      vstatus |-> CASE ~has -> "MISSING"
                    [] has /\ quota -> "STALE"
                    [] has /\ ~quota /\ ~Present(r) -> "READY"
                    [] OTHER -> IF changed THEN "STALE" ELSE r.vstatus]
-----------------------------------------------------------------------------
(* Starting a run.                                                         *)

Busy(w) == run[w].pc # "idle"
\* processClaimedProductSyncJob holds product:<id>
Locked(p) == \E w \in Workers : Busy(w) /\ run[w].p = p

Begin(w, p, kind, pc) ==
  run' = [run EXCEPT ![w] = [IdleRun EXCEPT !.pc = pc, !.kind = kind, !.p = p]]

StartWebhook(w, p) ==
  /\ ~Busy(w) /\ ~Locked(p)
  /\ Begin(w, p, "webhook", "read")
  /\ UNCHANGED <<plan, changes, gone, row, vec, lease, recPlan, queued>>

StartDelete(w, p) ==
  /\ ~Busy(w) /\ ~Locked(p) /\ (Present(row[p]) \/ vec[p])
  /\ Begin(w, p, "delete", "hide") /\ gone' = gone \cup {p}
  /\ UNCHANGED <<plan, changes, row, vec, lease, recPlan, queued>>

\* runJobWork: take the lease, then compare version and eligibility
PolicyJobEligible(p) == row[p].blocked = "NULL"
StartPolicy(w, p) ==
  /\ ~Busy(w) /\ ~Locked(p) /\ p \in queued
  /\ lease = Nobody
  /\ IF PolicyJobEligible(p)
     THEN Begin(w, p, "policy", "read") /\ lease' = w /\ UNCHANGED queued
     ELSE queued' = queued \ {p} /\ UNCHANGED <<run, lease>>
  /\ UNCHANGED <<plan, changes, gone, row, vec, recPlan>>
-----------------------------------------------------------------------------
(* indexProduct, syncProductFromWebhook and deleteProductFromAiIndex.      *)

Goto(w, pc) == run' = [run EXCEPT ![w].pc = pc]
\* ... after which no step reads the other locals
GotoEnd(w, pc) == Begin(w, run[w].p, run[w].kind, pc)
\* the job is over: done, or failed for good, or (again) to be retried
Finish(w, again) ==
  /\ run' = [run EXCEPT ![w] = IdleRun]
  /\ lease' = IF lease = w THEN Nobody ELSE lease
  /\ queued' = IF run[w].kind = "policy" /\ ~again THEN queued \ {run[w].p} ELSE queued
Stays == UNCHANGED <<plan, changes, gone, recPlan>>
SetRow(w, r) == row' = [row EXCEPT ![run[w].p] = r]
Row(w) == row[run[w].p]

\* fetchProductForIndexById, then the registry row and the point
Read(w) ==
  /\ run[w].pc = "read"
  /\ \E found \in BOOLEAN :
       /\ found => run[w].p \notin gone
       /\ run' = [run EXCEPT
                 ![w].pc = CASE ~found -> "unpublish"
                             [] found /\ PolicyBlocked(Row(w)) -> "ineligible"
                             [] OTHER -> "entitle",
                 ![w].held = found /\ Row(w).searchable,
                 ![w].indexed = found /\ (vec[run[w].p] \/ Row(w).hasVector),
                 ![w].adopt = found /\ vec[run[w].p]]
  /\ Stays /\ UNCHANGED <<row, vec, lease, queued>>

Unpublish(w) ==
  /\ run[w].pc = "unpublish"
  /\ SetRow(w, unpublished(Row(w))) /\ Finish(w, FALSE)
  /\ Stays /\ UNCHANGED vec

StayBlocked(w) ==
  /\ run[w].pc = "ineligible"
  /\ \E changed \in BOOLEAN : SetRow(w, ineligible(Row(w), changed))
  /\ Finish(w, FALSE)
  /\ Stays /\ UNCHANGED vec

\* getShopEntitlement; adopt: the point carries the current document hash
Entitle(w) ==
  /\ run[w].pc = "entitle"
  /\ \E adopt \in {FALSE, run[w].adopt} :
       run' = [run EXCEPT ![w].adopt = adopt, ![w].held = FALSE,
                 ![w].plan = IF plan.active /\ ~run[w].held THEN plan ELSE @,
                 ![w].pc = CASE ~plan.active -> "inactive"
                             [] plan.active /\ ~run[w].held -> "reserve"
                             [] OTHER -> "write"]
  /\ Stays /\ UNCHANGED <<row, vec, lease, queued>>

BlockInactive(w) ==
  /\ run[w].pc = "inactive"
  /\ \E changed \in BOOLEAN :
       SetRow(w, marked(Row(w), "SUBSCRIPTION_INACTIVE", run[w].indexed, changed))
  /\ Finish(w, FALSE)
  /\ Stays /\ UNCHANGED vec

\* Mutant: reservations are not counted, only products on display.
SlotFree_Displayed(limit) == Cardinality({p \in Products : row[p].searchable}) < limit

\* reserveProductSlot: one transaction, serialised on the shop's settings row
SlotFree(limit) == SlotsUsed < limit
Granted(w, new, pc) ==
  run' = [run EXCEPT ![w].pc = pc, ![w].reserved = new, ![w].plan = FirstPlan]
Reserve(w) ==
  /\ run[w].pc = "reserve"
  /\ IF UsesSlot(Row(w))
     THEN Granted(w, FALSE, "write") /\ UNCHANGED row
     ELSE IF SlotFree(run[w].plan.limit)
     THEN Granted(w, TRUE, "write") /\ SetRow(w, reserved(Row(w)))
     ELSE Granted(w, FALSE, "refused") /\ UNCHANGED row
  /\ Stays /\ UNCHANGED <<vec, lease, queued>>

BlockRefused(w) ==
  /\ run[w].pc = "refused"
  /\ \E changed \in BOOLEAN :
       SetRow(w, marked(Row(w), "PRODUCT_LIMIT", run[w].adopt, changed))
  /\ Finish(w, FALSE)
  /\ Stays /\ UNCHANGED vec

Adopt(w) ==
  /\ run[w].pc = "write" /\ run[w].adopt
  /\ SetRow(w, upserted(Row(w))) /\ Finish(w, FALSE)
  /\ Stays /\ UNCHANGED vec

\* vectorUpdateAllowed was FALSE: keep serving the cached vector
KeepCached(w) ==
  /\ run[w].pc = "write" /\ ~run[w].adopt /\ run[w].indexed
  /\ SetRow(w, marked(Row(w), "VECTOR_UPDATE_LIMIT", TRUE, TRUE)) /\ Finish(w, FALSE)
  /\ Stays /\ UNCHANGED vec

\* releaseProductSlotReservation
Released(w) == IF run[w].reserved /\ Row(w).status = "RESERVED" /\ ~Row(w).hasVector
               THEN SetRow(w, NoRow) ELSE UNCHANGED row

\* reserveProductEmbeddingUsage refused: only a vector update is metered
UsageRefused(w) ==
  /\ run[w].pc = "write" /\ ~run[w].adopt /\ run[w].indexed
  /\ Released(w) /\ Goto(w, "quota")
  /\ Stays /\ UNCHANGED <<vec, lease, queued>>

BlockQuota(w) ==
  /\ run[w].pc = "quota"
  /\ SetRow(w, marked(Row(w), "VECTOR_UPDATE_LIMIT", run[w].indexed, TRUE))
  /\ Finish(w, FALSE)
  /\ Stays /\ UNCHANGED vec

EmbedFails(w) ==
  /\ run[w].pc = "write" /\ ~run[w].adopt
  /\ Released(w) /\ (\E again \in BOOLEAN : Finish(w, again))
  /\ Stays /\ UNCHANGED vec

\* createEmbedding and upsertProductVector (hidden)
WriteVector(w) ==
  /\ run[w].pc = "write" /\ ~run[w].adopt
  /\ vec' = [vec EXCEPT ![run[w].p] = TRUE] /\ GotoEnd(w, "stage")
  /\ Stays /\ UNCHANGED <<row, lease, queued>>

Stage(w) ==
  /\ run[w].pc = "stage"
  /\ SetRow(w, staged(Row(w))) /\ Goto(w, "publish")
  /\ Stays /\ UNCHANGED <<vec, lease, queued>>

\* the profile is durable: Publish; or it is not, even on repair
Publish(w) ==
  /\ run[w].pc = "publish"
  /\ SetRow(w, upserted(Row(w))) /\ (\E again \in BOOLEAN : Finish(w, again))
  /\ Stays /\ UNCHANGED vec
PublishFails(w) ==
  /\ run[w].pc = "publish"
  /\ SetRow(w, staged(Row(w))) /\ (\E again \in BOOLEAN : Finish(w, again))
  /\ Stays /\ UNCHANGED vec

HideDeleted(w) ==
  /\ run[w].pc = "hide"
  /\ SetRow(w, unpublished(Row(w))) /\ Goto(w, "dropVector")
  /\ Stays /\ UNCHANGED <<vec, lease, queued>>
DropVector(w) ==
  /\ run[w].pc = "dropVector"
  /\ vec' = [vec EXCEPT ![run[w].p] = FALSE] /\ Goto(w, "dropRow")
  /\ Stays /\ UNCHANGED <<row, lease, queued>>
DropRow(w) ==
  /\ run[w].pc = "dropRow"
  /\ SetRow(w, NoRow) /\ Finish(w, FALSE)
  \* an id never returns: from here on the model's product is another one
  /\ gone' = IF \E v \in Workers \ {w} : run[v].p = run[w].p
             THEN gone ELSE gone \ {run[w].p}
  /\ UNCHANGED <<plan, changes, recPlan, vec>>

\* the process dies; its leases expire and its job is reclaimed
Crash(w) ==
  /\ Busy(w) /\ Finish(w, TRUE)
  /\ Stays /\ UNCHANGED <<row, vec>>
-----------------------------------------------------------------------------
(* recoverBlockedProducts and planProductEligibility.                      *)

Rank(r) == (IF r.searchable THEN 0 ELSE 2) + (IF r.vstatus = "READY" THEN 0 ELSE 1)
Eligible == {p \in Products : Present(row[p]) /\ row[p].blocked # "UNPUBLISHED"}
Capacity == IF recPlan.active THEN recPlan.limit ELSE 0

\* the first Capacity rows in the order of the sort
Selections == {S \in SUBSET Eligible :
                 /\ Cardinality(S) <= Capacity
                 /\ S # Eligible => Cardinality(S) = Capacity
                 /\ \A p \in S, q \in Eligible \ S : Rank(row[p]) <= Rank(row[q])}

\* Mutant: an unpublished row is treated like any other.
Decided_NoUnpublished(r, chosen) ==
  CASE ~Present(r) -> r
    [] Present(r) /\ chosen ->
         [r EXCEPT !.searchable = r.hasVector, !.blocked = "NULL",
                   !.status = IF r.hasVector THEN "INDEXED" ELSE "WAITING"]
    [] OTHER ->
         [r EXCEPT !.searchable = FALSE,
            !.blocked = IF recPlan.active THEN "PRODUCT_LIMIT" ELSE "SUBSCRIPTION",
            !.status = IF recPlan.active THEN "PRODUCT_LIMIT_BLOCKED"
                                         ELSE "SUBSCRIPTION_BLOCKED"]

Decided(r, chosen) ==
  CASE ~Present(r) -> r
    [] r.blocked = "UNPUBLISHED" ->
         [r EXCEPT !.searchable = FALSE, !.status = "UNPUBLISHED"]
    [] Present(r) /\ r.blocked # "UNPUBLISHED" /\ chosen ->
         [r EXCEPT !.searchable = r.hasVector, !.blocked = "NULL",
                   !.status = IF r.hasVector THEN "INDEXED" ELSE "WAITING"]
    [] OTHER ->
         [r EXCEPT !.searchable = FALSE,
            !.blocked = IF recPlan.active THEN "PRODUCT_LIMIT" ELSE "SUBSCRIPTION",
            !.status = IF recPlan.active THEN "PRODUCT_LIMIT_BLOCKED"
                                         ELSE "SUBSCRIPTION_BLOCKED"]

NeedsReindex(r) == ~r.hasVector \/ r.vstatus # "READY"

\* Mutant: the lease is not waited for.
StartReconcile_NoWait ==
  /\ lease # Reconciler /\ lease' = Reconciler /\ recPlan' = plan
  /\ UNCHANGED <<plan, changes, gone, row, vec, queued, run>>

\* getShopEntitlement under the lease; any caller, at any time
StartReconcile ==
  /\ lease = Nobody /\ lease' = Reconciler /\ recPlan' = plan
  /\ UNCHANGED <<plan, changes, gone, row, vec, queued, run>>

\* reconcileIndexedProductEligibility, then queueReindexRows; what already has
\* a vector is queued within the month's budget only
Reconcile ==
  /\ lease = Reconciler /\ lease' = Nobody /\ recPlan' = FirstPlan
  /\ \E S \in Selections :
       LET changed == \E p \in Products : Decided(row[p], p \in S) # row[p]
           reindex == IF recPlan.active THEN {p \in S : NeedsReindex(row[p])} ELSE {}
       IN \E over \in SUBSET {p \in reindex : row[p].hasVector} :
            /\ row' = [p \in Products |-> Decided(row[p], p \in S)]
            /\ queued' = (IF changed THEN {} ELSE queued) \cup (reindex \ over)
  /\ UNCHANGED <<plan, changes, gone, vec, run>>

CrashReconcile ==
  /\ lease = Reconciler /\ lease' = Nobody /\ recPlan' = FirstPlan
  /\ UNCHANGED <<plan, changes, gone, row, vec, queued, run>>

-----------------------------------------------------------------------------
(* The merchant: plan changes (with or without a reconciliation of their   *)
(* own: a grant can expire silently) and edits in Shopify.                 *)

ChangePlan ==
  /\ changes < MaxChanges /\ changes' = changes + 1
  /\ plan' \in Plans \ {plan}
  /\ UNCHANGED <<gone, row, vec, lease, recPlan, queued, run>>

Start(w) == \E p \in Products :
  StartWebhook(w, p) \/ StartDelete(w, p) \/ StartPolicy(w, p)

RunStep(w) ==
  \/ Read(w) \/ Unpublish(w) \/ StayBlocked(w) \/ Entitle(w) \/ BlockInactive(w)
  \/ Reserve(w) \/ BlockRefused(w) \/ Adopt(w) \/ KeepCached(w) \/ UsageRefused(w)
  \/ BlockQuota(w) \/ EmbedFails(w) \/ WriteVector(w) \/ Stage(w) \/ Publish(w)
  \/ PublishFails(w) \/ HideDeleted(w) \/ DropVector(w) \/ DropRow(w)

Next == \/ \E w \in Workers : Start(w) \/ RunStep(w) \/ Crash(w)
        \/ StartReconcile \/ Reconcile \/ CrashReconcile
        \/ ChangePlan

Spec == Init /\ [][Next]_vars
-----------------------------------------------------------------------------
(* Properties.                                                             *)

TypeOK ==
  /\ gone \subseteq Products
  /\ plan \in Plans /\ recPlan \in Plans /\ changes \in 0..MaxChanges
  /\ row \in [Products -> Rows] /\ vec \in [Products -> BOOLEAN]
  /\ lease \in Workers \cup {Nobody, Reconciler}
  /\ queued \subseteq Products
  /\ run \in [Workers -> Runs]
\* Two runs never take the same last slot: the used slots grow past the limit
\* in force only when a run writes a product that lost its slot after the run's
\* check (a reconciliation preferred another), or when the limit was lowered
\* between a run's or the reconciliation's read and its transaction.
LostSlot(w) == run[w].pc \in {"write", "quota", "stage", "publish"} /\ ~UsesSlot(Row(w))
OldLimit(w) == run[w].pc = "reserve" /\ run[w].plan # plan
SlotGrantedWithinLimit ==
  [][SlotsUsed' > SlotsUsed /\ OverLimit' =>
       \/ \E w \in Workers : LostSlot(w) \/ OldLimit(w)
       \/ lease = Reconciler /\ recPlan # plan]_vars

\* A policy job's product keeps its slot from the job's check to its last write:
\* no downgrade can slip in and be overwritten (product-sync-job-processor).
PolicyRunKeepsSlot ==
  \A w \in Workers : run[w].kind = "policy" => UsesSlot(Row(w))

\* What search may return has its vector in the registry and in Qdrant and is
\* not blocked, whatever a reconciliation reactivates during a deletion.
SearchableIsBacked ==
  \A p \in Products :
    row[p].searchable => row[p].hasVector /\ vec[p] /\ row[p].blocked = "NULL"
=============================================================================
