---------------------------- MODULE BillingState ----------------------------
(***************************************************************************)
(* What a shop's billing tables say of its subscriptions at Shopify.  Any  *)
(* number of callers (the page of the app, the return from an approval, a  *)
(* webhook, the scheduled poll, a storefront search) ask Shopify and write *)
(* the answer to the subscription's row and to the shop's pointer in       *)
(* separate statements, so that answers are written in any order.          *)
(*                                                                         *)
(* Abstractions.  A webhook only says which subscription to ask for, so it *)
(* may be lost, late, repeated or out of order: one may come at any time.  *)
(* DECLINED stands for EXPIRED too.  A period end is unknown, to come or   *)
(* past.  Plans, prices, trials, events, charges and the legacy table are  *)
(* left out; EFFECTIVE and NONE of cancellationStatus differ in no branch. *)
(***************************************************************************)
EXTENDS Integers, FiniteSets

CONSTANTS Subs,       \* subscriptions, in the order of their creation
          First,      \* the active one a shop starts with, or None
          Callers,    \* reconciliations that run at the same time ...
          Storefront, \* ... and the one that searches start, under their lease
          None,
          MaxRare     \* bound: break-offs, freezes and uninstalls, together

ASSUME SubsAreOrdered == /\ Subs \subseteq Nat /\ None \notin Subs
                         /\ First \in Subs \cup {None}
ASSUME CallersAreOthers == Storefront \notin Callers /\ MaxRare \in Nat

VARIABLES shopify,  \* status of each subscription at Shopify
          hidden,   \* subscriptions the Admin API does not return yet
          app,      \* at Shopify: installed; leaving: its webhook is on the way;
                    \* purging: the webhook has yet to delete the shop's sessions
          row,      \* BillingSubscription
          shop,     \* AiSearchShop: pointers; session: of the shop
          run,      \* reconcileShopifySubscriptionFromAdmin, in flight
          rare,     \* how many rare events there were (bounded)
          graced    \* history: cancelled while current; since then nothing was
                    \* approved and no outdated answer acted on

vars == <<shopify, hidden, app, row, shop, run, rare, graced>>
provider == <<shopify, hidden, app>>

Runs == Callers \cup {Storefront}
Statuses == {"none", "PENDING", "ACTIVE", "FROZEN", "CANCELLED", "DECLINED"}
Terminal == {"CANCELLED", "DECLINED"}
Ends == {"none", "future", "past"}
Rows == [status: Statuses, nonRenewing: BOOLEAN, ends: Ends]
NoRow == [status |-> "none", nonRenewing |-> FALSE, ends |-> "none"]

\* gid: the subscription it expects, then the one it was given; status: as
\* observed in a webhook, if it is terminal, then the one given; sync: its source
\* is RECONCILIATION; data: the row it will write, from the answer and the row read
CallRecords == [at: {"idle", "note", "query", "lookup", "terminal", "clear",
                     "read", "replace", "upsert", "pointer"},
                gid: Subs \cup {None}, status: Statuses, data: Rows, sync: BOOLEAN]
Idle == [at |-> "idle", gid |-> None, status |-> "none", data |-> NoRow, sync |-> FALSE]
Query(expected) == [Idle EXCEPT !.at = "query", !.gid = expected]

Init ==
  /\ shopify = [g \in Subs |-> IF g = First THEN "ACTIVE" ELSE "none"] /\ hidden = {}
  /\ app = [installed |-> TRUE, leaving |-> FALSE, purging |-> FALSE]
  /\ row = [g \in Subs |-> IF g = First
                            THEN [NoRow EXCEPT !.status = "ACTIVE", !.ends = "future"]
                            ELSE NoRow]
  /\ shop = [current |-> First, pending |-> None, session |-> TRUE]
  /\ run = [r \in Runs |-> Idle] /\ rare = 0
  /\ graced = {}
-----------------------------------------------------------------------------
(* The snapshot of the shop.                                               *)

\* ensureBillingV2State drops the pointer to a subscription that is over
IsOver(rows, g) == g # None /\ rows[g].status = "CANCELLED" /\ rows[g].ends = "past"
Ensured(rows, s) ==
  IF IsOver(rows, s.current)
  THEN [rows |-> [rows EXCEPT ![s.current].nonRenewing = FALSE],
        shop |-> [s EXCEPT !.current = None]]
  ELSE [rows |-> rows, shop |-> s]

\* the subscription of the snapshot: without a pointer, one with evidence of a
\* paid period that runs on (which ones have it is left open), or else one that
\* waits for approval
Selected(rows, s) ==
  LET running == {g \in Subs : /\ rows[g].ends = "future"
                               /\ rows[g].status \in {"ACTIVE", "CANCELLED"}}
      waiting == {g \in Subs : rows[g].status = "PENDING"}
  IN IF s.current # None THEN {s.current}
     ELSE running \cup (IF waiting # {} THEN waiting ELSE {None})

\* getAccessStatus
HasAccess(g) == \/ row[g].status = "ACTIVE"
                \/ row[g].status = "CANCELLED" /\ row[g].ends = "future"

\* any read of the entitlement
ReadEntitlement ==
  LET e == Ensured(row, shop)
  IN /\ IsOver(row, shop.current)
     /\ row' = e.rows /\ shop' = e.shop
     /\ UNCHANGED <<provider, run, rare, graced>>
-----------------------------------------------------------------------------
(* Who starts a reconciliation.                                            *)

Starts(r, call) == /\ r \in Callers /\ run[r].at = "idle"
                   /\ run' = [run EXCEPT ![r] = call]

\* Mutant: nothing is asked for a shop without a subscription.
SearchRefreshes_OnlyKnown ==
  /\ run[Storefront].at = "idle" /\ shop.session
  /\ LET e == Ensured(row, shop)
     IN /\ row' = e.rows /\ shop' = e.shop
        /\ \E g \in Selected(e.rows, e.shop) \ {None} :
             run' = [run EXCEPT ![Storefront] = [Query(g) EXCEPT !.sync = TRUE]]
  /\ UNCHANGED <<provider, rare, graced>>

\* refreshShopifyAppPricingIfStale, at most one under the lease; the page of the
\* app, too, asks a second time for the subscription of the snapshot
SearchRefreshes ==
  /\ run[Storefront].at = "idle" /\ shop.session
  /\ LET e == Ensured(row, shop)
     IN /\ row' = e.rows /\ shop' = e.shop
        /\ \E g \in Selected(e.rows, e.shop) :
             run' = [run EXCEPT ![Storefront] = [Query(g) EXCEPT !.sync = TRUE]]
  /\ UNCHANGED <<provider, rare, graced>>

\* webhooks.app.subscriptions_update
Webhook(r, g) ==
  /\ shop.session /\ shopify[g] # "none"
  /\ \E observed \in {"none"} \cup ({shopify[g]} \cap Terminal) :
       Starts(r, [Query(g) EXCEPT !.status = observed])
  /\ UNCHANGED <<provider, row, shop, rare, graced>>

\* internal.billing-reconcile: rows whose period ended, and frozen ones
Poll(r, g) ==
  /\ shop.session
  /\ \/ row[g].status = "FROZEN"
     \/ row[g].status = "ACTIVE" /\ row[g].ends = "past"
  /\ Starts(r, [Query(g) EXCEPT !.sync = TRUE])
  /\ UNCHANGED <<provider, row, shop, rare, graced>>

\* the merchant opens the app, after an approval or a reinstall too
OpenApp(r) ==
  /\ Starts(r, Query(None))
  /\ app' = [app EXCEPT !.installed = TRUE]
  /\ shop' = [shop EXCEPT !.session = TRUE]
  /\ UNCHANGED <<shopify, hidden, row, rare, graced>>

\* appSubscriptionCreate, and the pointer to what waits for approval
CreateSubscription(r, g) ==
  /\ shop.session /\ app.installed
  /\ shopify[g] = "none" /\ \A h \in Subs : h < g => shopify[h] # "none"
  /\ shopify' = [shopify EXCEPT ![g] = "PENDING"]
  /\ Starts(r, [Query(g) EXCEPT !.at = "note"])
  /\ UNCHANGED <<hidden, app, row, shop, rare, graced>>

NotePending(r) ==
  /\ run[r].at = "note"
  /\ shop' = [shop EXCEPT !.pending = run[r].gid]
  /\ run' = [run EXCEPT ![r].at = "query"]
  /\ UNCHANGED <<provider, row, rare, graced>>
-----------------------------------------------------------------------------
(* Steps of a reconciliation.                                              *)

Returned == {g \in Subs \ hidden : shopify[g] # "none"}
Newest(S) == {g \in S : \A h \in S : h <= g}

\* queryAdminSubscription: the one expected, or the newest active one
Answer(expected) ==
  IF expected # None THEN Returned \cap {expected}
  ELSE Newest({g \in Returned : shopify[g] = "ACTIVE"})

AskShopify(r) ==
  LET call == run[r]
  IN /\ call.at = "query"
     /\ IF ~app.installed   \* the request is refused
        THEN run' = [run EXCEPT ![r] = Idle]
        ELSE IF Answer(call.gid) # {}
        THEN \E g \in Answer(call.gid) :
               run' = [run EXCEPT ![r] = [Query(g) EXCEPT !.at = "read", !.status = shopify[g]]]
        ELSE run' = [run EXCEPT ![r] = IF call.gid = None THEN Idle
                                       ELSE [call EXCEPT !.at = "lookup"]]
     /\ UNCHANGED <<provider, row, shop, rare, graced>>

\* not returned: the absence of the exact subscription is classified
Lookup(r) ==
  LET call == run[r]
      local == row[call.gid]
      next == IF shop.pending = call.gid /\ call.status = "none" THEN "idle"
              ELSE IF /\ call.status # "none"
                      /\ local.status \notin Terminal \cup {"none"} THEN "terminal"
              ELSE IF /\ local.status \in Terminal
                      /\ call.sync /\ shop.current = call.gid THEN "clear"
              ELSE "idle"
  IN /\ call.at = "lookup"
     /\ run' = [run EXCEPT ![r] =
                  CASE next = "idle" -> Idle
                    [] next = "clear" -> [call EXCEPT !.at = next]
                    [] OTHER -> [call EXCEPT !.at = next, !.data = local]]
     /\ UNCHANGED <<provider, row, shop, rare, graced>>

\* WEBHOOK_TERMINAL: the row is closed with what the webhook said
CloseFromWebhook(r) ==
  LET call == run[r]
  IN /\ call.at = "terminal"
     /\ row' = [row EXCEPT ![call.gid].status = call.status,
                           ![call.gid].nonRenewing =
                              IF call.status = "CANCELLED" THEN call.data.ends = "future"
                              ELSE call.data.nonRenewing]
     /\ run' = [run EXCEPT ![r] = Idle]
     /\ graced' = IF call.gid \in hidden THEN graced ELSE {}
     /\ UNCHANGED <<provider, shop, rare>>

\* SUPERSEDED_TERMINAL, in an authenticated sync
ClearMissing(r) ==
  /\ run[r].at = "clear"
  /\ shop' = IF shop.current = run[r].gid THEN [shop EXCEPT !.current = None] ELSE shop
  /\ run' = [run EXCEPT ![r] = Idle]
  /\ graced' = IF run[r].gid \in hidden THEN graced ELSE {}
  /\ UNCHANGED <<provider, row, rare>>

\* Mutant: a cancellation that was seen before is over.
InPaidWindow_FirstOnly(status, cur) ==
  status = "CANCELLED" /\ cur.ends = "future" /\ cur.status = "ACTIVE"

\* cancellationWindowActive
InPaidWindow(status, cur) ==
  /\ status = "CANCELLED" /\ cur.ends = "future"
  /\ cur.status = "ACTIVE" \/ cur.nonRenewing

\* the row, from the answer and the row cur that was read; only an active
\* subscription comes with the end of its period
RowData(status, cur) ==
  [status |-> status,
   ends |-> IF status = "ACTIVE" THEN "future" ELSE cur.ends,
   nonRenewing |-> IF status = "CANCELLED" THEN InPaidWindow(status, cur) ELSE cur.nonRenewing]

\* reconcileManualShopifySubscription reads the snapshot and the row
ReadRow(r) ==
  LET e == Ensured(row, shop)
      call == run[r]
      cur == e.rows[call.gid]
  IN /\ call.at = "read"
     /\ row' = e.rows /\ shop' = e.shop
     /\ run' = [run EXCEPT ![r] = [call EXCEPT !.data = RowData(call.status, cur),
                    !.at = IF cur = NoRow /\ call.status = "ACTIVE" THEN "replace" ELSE "upsert"]]
     /\ UNCHANGED <<provider, rare, graced>>

\* what the call was told is no longer so
IsLate(call) == call.status # shopify[call.gid]

\* a new active subscription closes the one before
CancelPrevious(r) ==
  LET live == {g \in Subs : row[g].status \in {"ACTIVE", "FROZEN"}}
      previous == IF shop.current # None THEN live \cap {shop.current} ELSE live
  IN /\ run[r].at = "replace"
     /\ IF previous = {} THEN UNCHANGED row
        ELSE \E g \in previous :
               row' = IF g = run[r].gid THEN row ELSE [row EXCEPT ![g].status = "CANCELLED"]
     /\ run' = [run EXCEPT ![r].at = "upsert"]
     /\ graced' = IF IsLate(run[r]) THEN {} ELSE graced
     /\ UNCHANGED <<provider, shop, rare>>

\* the upsert by gid
WriteRow(r) ==
  LET call == run[r]
  IN /\ call.at = "upsert"
     /\ row' = [row EXCEPT ![call.gid] = call.data]
     /\ run' = [run EXCEPT ![r] = [call EXCEPT !.at = "pointer",
                                     !.data = [NoRow EXCEPT !.nonRenewing = call.data.nonRenewing]]]
     /\ graced' = IF IsLate(call) THEN {} ELSE graced
     /\ UNCHANGED <<provider, shop, rare>>

\* Mutant: what waits for approval becomes current.
PointersAfter_Eager(s, call) ==
  IF call.status \in {"ACTIVE", "PENDING"} THEN [s EXCEPT !.current = call.gid] ELSE s

PointersAfter(s, call) ==
  LET g == call.gid
      settled == [s EXCEPT !.pending = IF @ = g THEN None ELSE @]
  IN CASE call.status = "ACTIVE" -> [settled EXCEPT !.current = g]
       [] call.status = "PENDING" -> [s EXCEPT !.pending = g]
       [] call.status \in Terminal ->
            [settled EXCEPT !.current =
               IF @ = g /\ ~(call.status = "CANCELLED" /\ call.data.nonRenewing)
               THEN None ELSE @]
       [] OTHER -> s

\* the last statement, and the snapshot that is returned
MovePointer(r) ==
  LET call == run[r]
      e == Ensured(row, PointersAfter(shop, call))
  IN /\ call.at = "pointer"
     /\ row' = e.rows /\ shop' = e.shop
     /\ run' = [run EXCEPT ![r] = Idle]
     /\ graced' = IF IsLate(call) THEN {} ELSE graced
     /\ UNCHANGED <<provider, rare>>

Reconcile(r) ==
  \/ NotePending(r) \/ AskShopify(r) \/ Lookup(r) \/ CloseFromWebhook(r)
  \/ ClearMissing(r) \/ ReadRow(r) \/ CancelPrevious(r) \/ WriteRow(r) \/ MovePointer(r)

Rare == rare < MaxRare /\ rare' = rare + 1

\* a statement or request throws, or the process dies
BreakOff(r) ==
  /\ run[r].at # "idle" /\ Rare
  /\ run' = [run EXCEPT ![r] = Idle]
  /\ UNCHANGED <<provider, row, shop, graced>>
-----------------------------------------------------------------------------
(* Shopify, the merchant and time.                                         *)

Approve(g) ==
  /\ shopify[g] = "PENDING"
  /\ shopify' = [h \in Subs |-> CASE h = g -> "ACTIVE"
                                  [] shopify[h] \in {"ACTIVE", "FROZEN"} -> "CANCELLED"
                                  [] OTHER -> shopify[h]]
  /\ hidden' = hidden \cup {g} /\ graced' = {}
  /\ UNCHANGED <<app, row, shop, run, rare>>

\* declined by the merchant, or expired
Decline(g) ==
  /\ shopify[g] = "PENDING" /\ shopify' = [shopify EXCEPT ![g] = "DECLINED"]
  /\ UNCHANGED <<hidden, app, row, shop, run, rare, graced>>

Freeze(g) ==
  /\ shopify[g] = "ACTIVE" /\ shopify' = [shopify EXCEPT ![g] = "FROZEN"] /\ Rare
  /\ UNCHANGED <<hidden, app, row, shop, run, graced>>

Unfreeze(g) ==
  /\ shopify[g] = "FROZEN" /\ shopify' = [shopify EXCEPT ![g] = "ACTIVE"]
  /\ UNCHANGED <<hidden, app, row, shop, run, rare, graced>>

CancelSubscription(g) ==
  /\ shopify[g] \in {"ACTIVE", "FROZEN"}
  /\ shopify' = [shopify EXCEPT ![g] = "CANCELLED"]
  /\ graced' = IF /\ shopify[g] = "ACTIVE" /\ shop.current = g
                   /\ row[g].status = "ACTIVE" /\ ~app.leaving
               THEN graced \cup {g} ELSE graced
  /\ UNCHANGED <<hidden, app, row, shop, run, rare>>

BecomeVisible(g) ==
  /\ g \in hidden /\ hidden' = hidden \ {g}
  /\ UNCHANGED <<shopify, app, row, shop, run, rare, graced>>

\* a period that was paid for ends; a later answer may tell of the next one
PeriodEnds(g) ==
  /\ LET writing == {r \in Runs : run[r].gid = g /\ run[r].data.ends = "future"}
     IN /\ row[g].ends = "future" \/ writing # {}
        /\ row' = [row EXCEPT ![g].ends = IF @ = "future" THEN "past" ELSE @]
        /\ run' = [r \in Runs |-> IF r \in writing THEN [run[r] EXCEPT !.data.ends = "past"]
                                  ELSE run[r]]
  /\ UNCHANGED <<provider, shop, rare, graced>>

\* Shopify ends the subscriptions of an app that is uninstalled
Uninstall ==
  /\ app.installed /\ ~app.leaving /\ Rare
  /\ app' = [app EXCEPT !.installed = FALSE, !.leaving = TRUE]
  /\ shopify' = [g \in Subs |-> CASE shopify[g] = "PENDING" -> "DECLINED"
                                  [] shopify[g] \in {"ACTIVE", "FROZEN"} -> "CANCELLED"
                                  [] OTHER -> shopify[g]]
  /\ graced' = {}
  /\ UNCHANGED <<hidden, row, shop, run>>

\* webhooks.app.uninstalled, perhaps after the merchant is back: a transaction
UninstallWebhook ==
  /\ app.leaving /\ app' = [app EXCEPT !.leaving = FALSE, !.purging = TRUE]
  /\ row' = [g \in Subs |-> IF row[g].status \in {"PENDING", "ACTIVE", "FROZEN"}
                            THEN [row[g] EXCEPT !.status = "CANCELLED", !.nonRenewing = FALSE]
                            ELSE row[g]]
  /\ UNCHANGED <<shopify, hidden, shop, run, rare, graced>>

\* then its sessions.  Where the process dies in between this step is never
\* taken: the webhook that comes again finds its event recorded and ends
DeleteSessions ==
  /\ app.purging /\ app' = [app EXCEPT !.purging = FALSE]
  /\ shop' = [shop EXCEPT !.session = FALSE]
  /\ UNCHANGED <<shopify, hidden, row, run, rare, graced>>

Next ==
  \/ ReadEntitlement \/ SearchRefreshes \/ Uninstall \/ UninstallWebhook \/ DeleteSessions
  \/ \E r \in Runs : Reconcile(r) \/ BreakOff(r)
  \/ \E r \in Callers : OpenApp(r)
  \/ \E r \in Callers, g \in Subs : Webhook(r, g) \/ Poll(r, g) \/ CreateSubscription(r, g)
  \/ \E g \in Subs : \/ Approve(g) \/ Decline(g) \/ Freeze(g) \/ Unfreeze(g)
                     \/ CancelSubscription(g) \/ BecomeVisible(g) \/ PeriodEnds(g)

\* The storefront is searched again and again and its calls go on, Shopify shows
\* what it has and expires what nobody approves, and periods end.  Nothing is
\* assumed of the other callers: one may stop for ever between two statements.
Fairness ==
  /\ WF_vars(SearchRefreshes \/ Reconcile(Storefront))
  /\ WF_vars(\E g \in Subs : BecomeVisible(g) \/ Decline(g) \/ PeriodEnds(g))

Spec == Init /\ [][Next]_vars
FairSpec == Spec /\ Fairness
-----------------------------------------------------------------------------
(* Properties.                                                             *)

TypeOK ==
  /\ shopify \in [Subs -> Statuses] /\ hidden \subseteq Subs
  /\ app \in [installed: BOOLEAN, leaving: BOOLEAN, purging: BOOLEAN] /\ row \in [Subs -> Rows]
  /\ shop \in [current: Subs \cup {None}, pending: Subs \cup {None}, session: BOOLEAN]
  /\ run \in [Runs -> CallRecords] /\ rare \in 0..MaxRare
  /\ graced \subseteq Subs

\* Only a subscription that the merchant approved becomes the shop's current
\* one or gives access, however late the answers are written.
Approved == {g \in Subs : shopify[g] \in {"ACTIVE", "FROZEN", "CANCELLED"}}
OnlyApprovedIsServed ==
  /\ shop.current \in Approved \cup {None}
  /\ \A g \in Selected(row, shop) \ {None} : HasAccess(g) => g \in Approved

\* A subscription that was cancelled while it was current stays current until
\* its period is over or another one is approved, whoever reconciles how often,
\* unless the app was uninstalled or an outdated answer was acted on.
PaidPeriodKept ==
  [][\A g \in graced \cap graced' :
       shop.current = g /\ row[g].ends = "future" => shop'.current = g]_vars

\* Whatever was written in between, the pointer and the rows of an installed app
\* come to what Shopify says: what is active is served, what ended is not current.
AgreesWithShopify ==
  \A g \in Subs : /\ shopify[g] = "ACTIVE" => shop.current = g /\ row[g].status = "ACTIVE"
                  /\ shopify[g] \in Terminal => shop.current # g
PointerSettles == <>[](app.installed /\ shop.session) => <>[]AgreesWithShopify
=============================================================================
