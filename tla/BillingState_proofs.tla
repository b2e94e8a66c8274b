-------------------------- MODULE BillingState_proofs --------------------------
(***************************************************************************)
(* Proofs about BillingState, for any subscriptions and callers: its       *)
(* types, that only what was approved is served, and that a paid period is *)
(* kept.                                                                   *)
(***************************************************************************)
EXTENDS BillingState, TLAPS

\* A call that has asked Shopify, or noted what it created, has a subscription.
Named == \A r \in Runs : run[r].at \notin {"idle", "query"} => run[r].gid \in Subs

Typed == TypeOK /\ Named

Shops == [current: Subs \cup {None}, pending: Subs \cup {None}, session: BOOLEAN]
-------------------------------------------------------------------------------
\* The snapshot changes the pointer and the row of what is over, and no more.
LEMMA EnsuredFacts ==
  ASSUME NEW rows \in [Subs -> Rows], NEW s \in Shops,
         NEW e, e = Ensured(rows, s)
  PROVE  /\ e.rows \in [Subs -> Rows] /\ e.shop \in Shops
         /\ \A g \in Subs : /\ e.rows[g].status = rows[g].status
                            /\ e.rows[g].ends = rows[g].ends
                            /\ rows[g].ends # "past" => e.rows[g] = rows[g]
         /\ e.shop.current \in {s.current, None}
         /\ e.shop.current # s.current => IsOver(rows, s.current)
         /\ e.shop.pending = s.pending /\ e.shop.session = s.session
<1>1. CASE IsOver(rows, s.current)
  <2>1. s.current \in Subs /\ rows[s.current].ends = "past"
    BY <1>1 DEF IsOver, Shops
  <2>2. e = [rows |-> [rows EXCEPT ![s.current].nonRenewing = FALSE],
             shop |-> [s EXCEPT !.current = None]]
    BY <1>1 DEF Ensured
  <2>3. e.rows = [rows EXCEPT ![s.current].nonRenewing = FALSE]
    BY <2>2
  <2>4. e.shop = [s EXCEPT !.current = None]
    BY <2>2
  <2>5. e.rows \in [Subs -> Rows]
    BY <2>1, <2>3 DEF Rows
  <2>6. \A g \in Subs : /\ e.rows[g].status = rows[g].status
                        /\ e.rows[g].ends = rows[g].ends
                        /\ rows[g].ends # "past" => e.rows[g] = rows[g]
    BY <2>1, <2>3 DEF Rows
  <2>7. /\ e.shop \in Shops /\ e.shop.current = None
        /\ e.shop.pending = s.pending /\ e.shop.session = s.session
    BY <2>4 DEF Shops
  <2> QED
    BY <1>1, <2>5, <2>6, <2>7
<1>2. CASE ~IsOver(rows, s.current)
  <2>1. e.rows = rows /\ e.shop = s
    BY <1>2 DEF Ensured
  <2> QED
    BY <2>1
<1> QED
  BY <1>1, <1>2

\* The types of what a call may be, and of what it writes.
LEMMA IdleType == Idle \in CallRecords /\ Idle.at = "idle" /\ Idle.gid = None
BY DEF Idle, CallRecords, NoRow, Rows, Statuses, Ends

LEMMA QueryType ==
  ASSUME NEW g \in Subs \cup {None}
  PROVE  /\ Query(g) \in CallRecords /\ Query(g).at = "query" /\ Query(g).gid = g
         /\ [Query(g) EXCEPT !.sync = TRUE] \in CallRecords
         /\ [Query(g) EXCEPT !.sync = TRUE].at = "query"
BY DEF Query, Idle, CallRecords, NoRow, Rows, Statuses, Ends

LEMMA RowDataType ==
  ASSUME NEW status \in Statuses, NEW cur \in Rows
  PROVE  RowData(status, cur) \in Rows
BY DEF RowData, Rows, InPaidWindow, Ends

LEMMA PointersType ==
  ASSUME NEW s \in Shops, NEW call \in CallRecords, call.gid \in Subs
  PROVE  PointersAfter(s, call) \in Shops
<1> DEFINE settled == [s EXCEPT !.pending = IF @ = call.gid THEN None ELSE @]
<1>1. settled \in Shops
  BY DEF Shops
<1>2. CASE call.status = "ACTIVE"
  <2>1. PointersAfter(s, call) = [settled EXCEPT !.current = call.gid]
    BY <1>2 DEF PointersAfter, Terminal
  <2> QED
    BY <1>1, <2>1 DEF Shops
<1>3. CASE call.status = "PENDING"
  <2>1. PointersAfter(s, call) = [s EXCEPT !.pending = call.gid]
    BY <1>3 DEF PointersAfter, Terminal
  <2> QED
    BY <2>1 DEF Shops
<1>4. CASE call.status \in Terminal
  <2> DEFINE ends == settled.current = call.gid
                     /\ ~(call.status = "CANCELLED" /\ call.data.nonRenewing)
  <2>1. PointersAfter(s, call)
           = [settled EXCEPT !.current = IF ends THEN None ELSE settled.current]
    BY <1>4 DEF PointersAfter, Terminal
  <2>2. (IF ends THEN None ELSE settled.current) \in Subs \cup {None}
    BY <1>1 DEF Shops
  <2> QED
    BY <1>1, <2>1, <2>2 DEF Shops
<1>5. CASE call.status \notin {"ACTIVE", "PENDING"} \cup Terminal
  BY <1>5 DEF PointersAfter
<1> QED
  BY <1>2, <1>3, <1>4, <1>5

LEMMA SelectedType ==
  ASSUME NEW rows, NEW s \in Shops, NEW g \in Selected(rows, s)
  PROVE  g \in Subs \cup {None}
BY DEF Selected, Shops
-------------------------------------------------------------------------------
LEMMA TypedInit == Init => Typed
<1> SUFFICES ASSUME Init PROVE Typed
  OBVIOUS
<1>1. NoRow \in Rows /\ [NoRow EXCEPT !.status = "ACTIVE", !.ends = "future"] \in Rows
  BY DEF NoRow, Rows, Statuses, Ends
<1>2. row \in [Subs -> Rows]
  BY <1>1 DEF Init
<1>3. shopify \in [Subs -> Statuses]
  BY DEF Init, Statuses
<1>4. shop \in Shops
  BY SubsAreOrdered DEF Init, Shops
<1>5. run \in [Runs -> CallRecords] /\ Named
  BY IdleType DEF Init, Named
<1>6. rare \in 0..MaxRare
  BY CallersAreOthers DEF Init
<1> QED
  BY <1>2, <1>3, <1>4, <1>5, <1>6 DEF Init, Typed, TypeOK, Shops

\* The actions that leave the calls alone, or start one.
LEMMA TypedOpen == ASSUME Typed, NEW r \in Callers, OpenApp(r) PROVE Typed'
BY QueryType DEF OpenApp, Starts, Typed, TypeOK, Named, Runs

LEMMA TypedStarts ==
  ASSUME Typed, NEW r \in Callers, NEW g \in Subs,
         Webhook(r, g) \/ Poll(r, g) \/ CreateSubscription(r, g)
  PROVE  Typed'
<1> USE DEF Typed, TypeOK, Named, Runs, Starts, provider
<1>1. CASE Webhook(r, g)
  <2>1. PICK observed \in Statuses : run' = [run EXCEPT ![r] = [Query(g) EXCEPT !.status = observed]]
    BY <1>1 DEF Webhook, Statuses
  <2>2. /\ [Query(g) EXCEPT !.status = observed] \in CallRecords
        /\ [Query(g) EXCEPT !.status = observed].at = "query"
    BY <2>1, QueryType DEF CallRecords
  <2> QED
    BY <1>1, <2>1, <2>2 DEF Webhook
<1>2. CASE Poll(r, g)
  BY <1>2, QueryType DEF Poll
<1>3. CASE CreateSubscription(r, g)
  BY <1>3 DEF CreateSubscription, Query, Idle, CallRecords, Statuses, NoRow, Rows, Ends
<1> QED
  BY <1>1, <1>2, <1>3

\* The actions that read the snapshot, or the row.
LEMMA TypedReads ==
  ASSUME Typed, NEW r \in Runs,
         ReadEntitlement \/ SearchRefreshes \/ ReadRow(r) \/ MovePointer(r)
  PROVE  Typed'
<1> USE DEF Typed, TypeOK, Named, provider
<1>1. row \in [Subs -> Rows] /\ shop \in Shops
  BY DEF Shops
<1>2. CASE ReadEntitlement
  <2> DEFINE e == Ensured(row, shop)
  <2>1. e.rows \in [Subs -> Rows] /\ e.shop \in Shops
    BY <1>1, EnsuredFacts
  <2> QED
    BY <1>2, <2>1 DEF ReadEntitlement, Shops
<1>3. CASE SearchRefreshes
  <2> DEFINE e == Ensured(row, shop)
  <2>1. e.rows \in [Subs -> Rows] /\ e.shop \in Shops
    BY <1>1, EnsuredFacts
  <2>2. PICK g \in Selected(e.rows, e.shop) :
          run' = [run EXCEPT ![Storefront] = [Query(g) EXCEPT !.sync = TRUE]]
    BY <1>3 DEF SearchRefreshes
  <2>3. g \in Subs \cup {None}
    BY <2>1, SelectedType
  <2>4. run' \in [Runs -> CallRecords] /\ Named'
    BY <2>2, <2>3, QueryType DEF Runs
  <2> QED
    BY <1>3, <2>1, <2>4 DEF SearchRefreshes, Shops
<1>4. CASE ReadRow(r)
  <2> DEFINE e == Ensured(row, shop)
             call == run[r]
             cur == e.rows[call.gid]
  <2>1. e.rows \in [Subs -> Rows] /\ e.shop \in Shops
    BY <1>1, EnsuredFacts
  <2>2. call \in CallRecords /\ call.gid \in Subs
    BY <1>4 DEF ReadRow
  <2>3. RowData(call.status, cur) \in Rows
    BY <2>1, <2>2, RowDataType DEF CallRecords
  <2>4. PICK at \in {"replace", "upsert"} :
          run' = [run EXCEPT ![r] = [call EXCEPT !.data = RowData(call.status, cur), !.at = at]]
    BY <1>4 DEF ReadRow
  <2>5. run' \in [Runs -> CallRecords] /\ Named'
    BY <2>2, <2>3, <2>4 DEF CallRecords
  <2> QED
    BY <1>4, <2>1, <2>5 DEF ReadRow, Shops
<1>5. CASE MovePointer(r)
  <2> DEFINE e == Ensured(row, PointersAfter(shop, run[r]))
  <2>1. run[r] \in CallRecords /\ run[r].gid \in Subs
    BY <1>5 DEF MovePointer
  <2>2. PointersAfter(shop, run[r]) \in Shops
    BY <1>1, <2>1, PointersType
  <2>3. e.rows \in [Subs -> Rows] /\ e.shop \in Shops
    BY <1>1, <2>2, EnsuredFacts
  <2>4. run' \in [Runs -> CallRecords] /\ Named'
    BY <1>5, IdleType DEF MovePointer
  <2> QED
    BY <1>5, <2>3, <2>4 DEF MovePointer, Shops
<1> QED
  BY <1>2, <1>3, <1>4, <1>5

\* The other steps of a call.
LEMMA TypedSteps ==
  ASSUME Typed, NEW r \in Runs,
         \/ NotePending(r) \/ AskShopify(r) \/ Lookup(r) \/ CloseFromWebhook(r)
         \/ ClearMissing(r) \/ CancelPrevious(r) \/ WriteRow(r) \/ BreakOff(r)
  PROVE  Typed'
<1> USE DEF Typed, TypeOK, Named, provider
<1>0. run[r] \in CallRecords /\ row \in [Subs -> Rows]
  OBVIOUS
<1>1. CASE NotePending(r)
  BY <1>1 DEF NotePending, CallRecords
<1>2. CASE AskShopify(r)
  <2>1. CASE Answer(run[r].gid) # {} /\ app.installed
    <3>1. PICK g \in Answer(run[r].gid) :
            run' = [run EXCEPT ![r] = [Query(g) EXCEPT !.at = "read", !.status = shopify[g]]]
      BY <1>2, <2>1 DEF AskShopify
    <3>2. g \in Subs
      BY DEF Answer, Returned, Newest
    <3>3. [Query(g) EXCEPT !.at = "read", !.status = shopify[g]] \in CallRecords
      BY <3>2 DEF Query, Idle, CallRecords, NoRow, Rows, Statuses, Ends
    <3> QED
      BY <1>2, <3>1, <3>2, <3>3 DEF AskShopify, Query, Idle
  <2>2. CASE ~(Answer(run[r].gid) # {} /\ app.installed)
    <3>1. \/ run' = [run EXCEPT ![r] = Idle]
          \/ (run[r].gid # None /\ run' = [run EXCEPT ![r] = [run[r] EXCEPT !.at = "lookup"]])
      BY <1>2, <2>2 DEF AskShopify
    <3>2. [run[r] EXCEPT !.at = "lookup"] \in CallRecords
      BY <1>0 DEF CallRecords
    <3>3. run' \in [Runs -> CallRecords]
      BY <3>1, <3>2, IdleType
    <3>4. (run'[r].gid = run[r].gid /\ run[r].gid \in Subs) \/ run'[r] = Idle
      BY <1>0, <3>1 DEF CallRecords
    <3>5. Named'
      BY <3>1, <3>4, IdleType
    <3> QED
      BY <1>2, <3>3, <3>5 DEF AskShopify
  <2> QED
    BY <2>1, <2>2
<1>3. CASE Lookup(r)
  <2>1. run[r].gid \in Subs
    BY <1>3 DEF Lookup
  <2>2. \/ run' = [run EXCEPT ![r] = Idle]
        \/ run' = [run EXCEPT ![r] = [run[r] EXCEPT !.at = "clear"]]
        \/ run' = [run EXCEPT ![r] = [run[r] EXCEPT !.at = "terminal", !.data = row[run[r].gid]]]
    BY <1>3 DEF Lookup
  <2>3. row[run[r].gid] \in Rows
    BY <1>0, <2>1
  <2>4. /\ [run[r] EXCEPT !.at = "clear"] \in CallRecords
        /\ [run[r] EXCEPT !.at = "terminal", !.data = row[run[r].gid]] \in CallRecords
        /\ [run[r] EXCEPT !.at = "clear"].gid = run[r].gid
        /\ [run[r] EXCEPT !.at = "terminal", !.data = row[run[r].gid]].gid = run[r].gid
    BY <1>0, <2>3 DEF CallRecords
  <2>5. run' \in [Runs -> CallRecords]
    BY <2>2, <2>4, IdleType
  <2>6. run'[r].gid = run[r].gid \/ run'[r] = Idle
    BY <2>2, <2>4
  <2>7. Named'
    BY <2>1, <2>2, <2>6, IdleType
  <2> QED
    BY <1>3, <2>5, <2>7 DEF Lookup
<1>4. CASE CloseFromWebhook(r)
  <2>1. run[r].gid \in Subs /\ run[r].status \in Statuses
        /\ run[r].data.nonRenewing \in BOOLEAN
    BY <1>0, <1>4 DEF CloseFromWebhook, CallRecords, Rows
  <2>2. row' \in [Subs -> Rows]
    BY <1>4, <2>1 DEF CloseFromWebhook, Rows
  <2> QED
    BY <1>4, <2>2, IdleType DEF CloseFromWebhook
<1>5. CASE ClearMissing(r)
  BY <1>5, IdleType DEF ClearMissing
<1>6. CASE CancelPrevious(r)
  <2>1. row' = row \/ \E g \in Subs : row' = [row EXCEPT ![g].status = "CANCELLED"]
    BY <1>6 DEF CancelPrevious
  <2>2. row' \in [Subs -> Rows]
    BY <2>1 DEF Rows, Statuses
  <2> QED
    BY <1>6, <2>2 DEF CancelPrevious, CallRecords
<1>7. CASE WriteRow(r)
  <2>1. run[r].data \in Rows /\ run[r].gid \in Subs
    BY <1>7 DEF WriteRow, CallRecords
  <2>2. [NoRow EXCEPT !.nonRenewing = run[r].data.nonRenewing] \in Rows
    BY <2>1 DEF NoRow, Rows, Statuses, Ends
  <2> QED
    BY <1>7, <2>1, <2>2 DEF WriteRow, CallRecords
<1>8. CASE BreakOff(r)
  <2>1. rare' \in 0..MaxRare
    BY <1>8, CallersAreOthers DEF BreakOff, Rare
  <2> QED
    BY <1>8, <2>1, IdleType DEF BreakOff
<1> QED
  BY <1>1, <1>2, <1>3, <1>4, <1>5, <1>6, <1>7, <1>8

\* Shopify, the merchant and time.
LEMMA TypedWorld ==
  ASSUME Typed, NEW g \in Subs,
         \/ Approve(g) \/ Decline(g) \/ Freeze(g) \/ Unfreeze(g) \/ CancelSubscription(g)
         \/ BecomeVisible(g) \/ PeriodEnds(g)
  PROVE  Typed'
<1> USE DEF Typed, TypeOK, Named
<1>1. CASE Approve(g)
  BY <1>1 DEF Approve, Statuses
<1>2. CASE Decline(g)
  BY <1>2 DEF Decline, Statuses
<1>3. CASE Freeze(g)
  <2>1. rare' \in 0..MaxRare
    BY <1>3, CallersAreOthers DEF Freeze, Rare
  <2> QED
    BY <1>3, <2>1 DEF Freeze, Statuses
<1>4. CASE Unfreeze(g)
  BY <1>4 DEF Unfreeze, Statuses
<1>5. CASE CancelSubscription(g)
  BY <1>5 DEF CancelSubscription, Statuses
<1>6. CASE BecomeVisible(g)
  BY <1>6 DEF BecomeVisible
<1>7. CASE PeriodEnds(g)
  <2>1. \A d \in Rows : [d EXCEPT !.ends = "past"] \in Rows
    BY DEF Rows, Ends
  <2>2. \A c \in CallRecords : /\ [c EXCEPT !.data.ends = "past"] \in CallRecords
                               /\ [c EXCEPT !.data.ends = "past"].at = c.at
                               /\ [c EXCEPT !.data.ends = "past"].gid = c.gid
    BY <2>1 DEF CallRecords, Rows
  <2>3. run' \in [Runs -> CallRecords] /\ Named'
    BY <1>7, <2>2 DEF PeriodEnds
  <2>4. row' \in [Subs -> Rows]
    BY <1>7 DEF PeriodEnds, Rows, Ends
  <2> QED
    BY <1>7, <2>3, <2>4 DEF PeriodEnds, provider
<1> QED
  BY <1>1, <1>2, <1>3, <1>4, <1>5, <1>6, <1>7

LEMMA TypedUninstall ==
  ASSUME Typed, Uninstall \/ UninstallWebhook \/ DeleteSessions PROVE Typed'
<1> USE DEF Typed, TypeOK, Named
<1>1. CASE Uninstall
  <2>1. rare' \in 0..MaxRare
    BY <1>1, CallersAreOthers DEF Uninstall, Rare
  <2> QED
    BY <1>1, <2>1 DEF Uninstall, Statuses
<1>2. CASE UninstallWebhook
  <2>1. \A d \in Rows : [d EXCEPT !.status = "CANCELLED", !.nonRenewing = FALSE] \in Rows
    BY DEF Rows, Statuses
  <2>2. row' \in [Subs -> Rows]
    BY <1>2, <2>1 DEF UninstallWebhook
  <2> QED
    BY <1>2, <2>2 DEF UninstallWebhook
<1>3. CASE DeleteSessions
  BY <1>3 DEF DeleteSessions
<1> QED
  BY <1>1, <1>2, <1>3

LEMMA TypedNext == Typed /\ [Next]_vars => Typed'
<1> SUFFICES ASSUME Typed, [Next]_vars PROVE Typed'
  OBVIOUS
<1>1. CASE UNCHANGED vars
  BY <1>1 DEF vars, Typed, TypeOK, Named
<1>2. ASSUME NEW r \in Runs, Reconcile(r) \/ BreakOff(r) PROVE Typed'
  BY <1>2, TypedReads, TypedSteps DEF Reconcile
<1>3. ASSUME ReadEntitlement \/ SearchRefreshes PROVE Typed'
  <2>1. Storefront \in Runs
    BY DEF Runs
  <2> QED
    BY <1>3, <2>1, TypedReads
<1>4. ASSUME NEW r \in Callers, NEW g \in Subs,
             Webhook(r, g) \/ Poll(r, g) \/ CreateSubscription(r, g)
      PROVE  Typed'
  BY <1>4, TypedStarts
<1>5. ASSUME NEW g \in Subs,
             \/ Approve(g) \/ Decline(g) \/ Freeze(g) \/ Unfreeze(g)
             \/ CancelSubscription(g) \/ BecomeVisible(g) \/ PeriodEnds(g)
      PROVE  Typed'
  BY <1>5, TypedWorld
<1> QED
  BY <1>1, <1>2, <1>3, <1>4, <1>5, TypedOpen, TypedUninstall DEF Next

\* The types of the tables, of Shopify's answers and of the calls (BillingState).
THEOREM TypeCorrect == Spec => []TypeOK
<1>1. Typed => TypeOK
  BY DEF Typed
<1> QED
  BY <1>1, TypedInit, TypedNext, PTL DEF Spec
-------------------------------------------------------------------------------
\* What serves a shop (an active status, the end of a period that was paid for)
\* comes from a subscription that was approved: in the rows, in the pointer and
\* in what any call was told and will write.
Claims(d) == d.status = "ACTIVE" \/ d.ends # "none"
Sound(c) == \/ c.status \in {"ACTIVE", "FROZEN", "CANCELLED"}
            \/ Claims(c.data)
            => c.gid \in Approved \cup {None}
RowsApproved == \A g \in Subs : Claims(row[g]) => g \in Approved
CurrentApproved == shop.current \in Approved \cup {None}
CallsApproved == \A r \in Runs : Sound(run[r])
AllApproved == RowsApproved /\ CurrentApproved /\ CallsApproved

\* It follows that only what was approved is served.
LEMMA ApprovedServed == AllApproved => OnlyApprovedIsServed
BY DEF AllApproved, RowsApproved, CurrentApproved, Claims, OnlyApprovedIsServed,
       Selected, HasAccess, Approved

LEMMA ApprovedInit == Init => AllApproved
<1> SUFFICES ASSUME Init PROVE AllApproved
  OBVIOUS
<1>1. \A g \in Subs : g = First => g \in Approved
  BY DEF Init, Approved
<1>2. RowsApproved
  BY <1>1 DEF RowsApproved, Claims, Init, NoRow
<1>3. CurrentApproved
  BY <1>1, SubsAreOrdered DEF CurrentApproved, Init
<1>4. CallsApproved
  BY DEF CallsApproved, Sound, Claims, Init, Idle, NoRow
<1> QED
  BY <1>2, <1>3, <1>4 DEF AllApproved

\* Approval is never undone at Shopify.
LEMMA ApprovedGrows ==
  ASSUME Typed,
         \/ Uninstall
         \/ \E g \in Subs : \/ Approve(g) \/ Decline(g) \/ Freeze(g) \/ Unfreeze(g)
                            \/ CancelSubscription(g)
                            \/ \E r \in Callers : CreateSubscription(r, g)
  PROVE  Approved \subseteq Approved'
<1> USE DEF Typed, TypeOK
<1>1. CASE Uninstall
  BY <1>1 DEF Uninstall, Approved
<1>2. ASSUME NEW g \in Subs, Approve(g) PROVE Approved \subseteq Approved'
  BY <1>2 DEF Approve, Approved
<1>3. ASSUME NEW g \in Subs,
             Decline(g) \/ Freeze(g) \/ Unfreeze(g) \/ CancelSubscription(g)
      PROVE  Approved \subseteq Approved'
  BY <1>3 DEF Decline, Freeze, Unfreeze, CancelSubscription, Approved
<1>4. ASSUME NEW g \in Subs, NEW r \in Callers, CreateSubscription(r, g)
      PROVE  Approved \subseteq Approved'
  BY <1>4 DEF CreateSubscription, Approved
<1> QED
  BY <1>1, <1>2, <1>3, <1>4

\* Idle calls and new ones claim nothing.
LEMMA IdleIsSound == Sound(Idle)
BY DEF Sound, Claims, Idle, NoRow

LEMMA QueryIsSound ==
  ASSUME NEW g \in Subs \cup {None}
  PROVE  Sound(Query(g)) /\ Sound([Query(g) EXCEPT !.sync = TRUE])
         /\ Sound([Query(g) EXCEPT !.at = "note"])
BY DEF Sound, Claims, Query, Idle, NoRow

\* When Shopify, or time, moves on.
LEMMA ApprovedWorld ==
  ASSUME Typed, AllApproved, NEW g \in Subs,
         \/ Approve(g) \/ Decline(g) \/ Freeze(g) \/ Unfreeze(g) \/ CancelSubscription(g)
         \/ BecomeVisible(g) \/ PeriodEnds(g) \/ Uninstall \/ UninstallWebhook \/ DeleteSessions
  PROVE  AllApproved'
<1> USE DEF AllApproved, RowsApproved, CurrentApproved, CallsApproved, Sound
<1>1. CASE \/ Approve(g) \/ Decline(g) \/ Freeze(g) \/ Unfreeze(g) \/ CancelSubscription(g)
           \/ Uninstall
  <2>1. Approved \subseteq Approved'
    BY <1>1, ApprovedGrows
  <2>2. row' = row /\ shop' = shop /\ run' = run
    BY <1>1 DEF Approve, Decline, Freeze, Unfreeze, CancelSubscription, Uninstall
  <2> QED
    BY <2>1, <2>2 DEF Claims
<1>2. CASE BecomeVisible(g)
  BY <1>2 DEF BecomeVisible, Approved, Claims
<1>3. CASE PeriodEnds(g)
  <2>1. Approved' = Approved /\ shop' = shop
    BY <1>3 DEF PeriodEnds, Approved, provider
  <2>2. \A h \in Subs : row'[h].status = row[h].status
                        /\ (row'[h].ends # "none" => row[h].ends # "none")
    BY <1>3 DEF PeriodEnds, Typed, TypeOK, Rows
  <2>3. \A r \in Runs : /\ run'[r].status = run[r].status /\ run'[r].gid = run[r].gid
                        /\ run'[r].data.status = run[r].data.status
                        /\ (run'[r].data.ends # "none" => run[r].data.ends # "none")
    BY <1>3 DEF PeriodEnds, Typed, TypeOK, CallRecords, Rows
  <2> QED
    BY <2>1, <2>2, <2>3 DEF Claims
<1>4. CASE UninstallWebhook
  <2>1. Approved' = Approved /\ shop'.current = shop.current /\ run' = run
    BY <1>4 DEF UninstallWebhook, Approved, Typed, TypeOK
  <2>2. \A h \in Subs : Claims(row'[h]) => Claims(row[h])
    BY <1>4 DEF UninstallWebhook, Typed, TypeOK, Rows, Claims
  <2> QED
    BY <2>1, <2>2
<1>5. CASE DeleteSessions
  BY <1>5 DEF DeleteSessions, Approved, Typed, TypeOK, Claims
<1> QED
  BY <1>1, <1>2, <1>3, <1>4, <1>5

\* When a call starts.
LEMMA ApprovedStarts ==
  ASSUME Typed, AllApproved, NEW r \in Callers, NEW g \in Subs,
         OpenApp(r) \/ Webhook(r, g) \/ Poll(r, g) \/ CreateSubscription(r, g)
  PROVE  AllApproved'
<1> USE DEF AllApproved, Typed, TypeOK
<1>1. Approved \subseteq Approved'
  <2>1. CASE CreateSubscription(r, g)
    BY <2>1, ApprovedGrows
  <2>2. CASE OpenApp(r) \/ Webhook(r, g) \/ Poll(r, g)
    BY <2>2 DEF OpenApp, Webhook, Poll, Approved, provider
  <2> QED
    BY <2>1, <2>2
<1>2. row' = row /\ shop'.current = shop.current
  BY DEF OpenApp, Webhook, Poll, CreateSubscription
<1>3. PICK call : run' = [run EXCEPT ![r] = call] /\ Sound(call)
  <2>1. CASE OpenApp(r)
    BY <2>1, QueryIsSound DEF OpenApp, Starts
  <2>2. CASE Webhook(r, g)
    <3>1. PICK observed \in {"none"} \cup ({shopify[g]} \cap Terminal) :
            run' = [run EXCEPT ![r] = [Query(g) EXCEPT !.status = observed]]
      BY <2>2 DEF Webhook, Starts
    <3>2. Sound([Query(g) EXCEPT !.status = observed])
      BY <3>1 DEF Sound, Claims, Query, Idle, NoRow, Approved, Terminal
    <3> QED
      BY <3>1, <3>2
  <2>3. CASE Poll(r, g)
    BY <2>3, QueryIsSound DEF Poll, Starts
  <2>4. CASE CreateSubscription(r, g)
    BY <2>4, QueryIsSound DEF CreateSubscription, Starts
  <2> QED
    BY <2>1, <2>2, <2>3, <2>4
<1>4. \A q \in Runs : Sound(run'[q])
  BY <1>3 DEF CallsApproved, Runs
<1> QED
  BY <1>1, <1>2, <1>4 DEF RowsApproved, CurrentApproved, CallsApproved, Sound, Claims

\* Dropping the pointer to what is over claims nothing.
LEMMA EnsuredIsSound ==
  ASSUME Typed, AllApproved, NEW s \in Shops, s.current \in Approved \cup {None},
         NEW e, e = Ensured(row, s)
  PROVE  /\ e.rows \in [Subs -> Rows] /\ e.shop.current \in Approved \cup {None}
         /\ \A g \in Subs : Claims(e.rows[g]) => g \in Approved
<1>1. row \in [Subs -> Rows]
  BY DEF Typed, TypeOK
<1> QED
  BY <1>1, EnsuredFacts DEF Claims, AllApproved, RowsApproved

\* When the snapshot, or the row, is read, and when the pointer is moved.
LEMMA ApprovedReads ==
  ASSUME Typed, AllApproved, NEW r \in Runs,
         ReadEntitlement \/ SearchRefreshes \/ ReadRow(r) \/ MovePointer(r)
  PROVE  AllApproved'
<1>1. shop \in Shops /\ shop.current \in Approved \cup {None} /\ run \in [Runs -> CallRecords]
  BY DEF Typed, TypeOK, Shops, AllApproved, CurrentApproved
<1>2. Approved' = Approved
  BY DEF ReadEntitlement, SearchRefreshes, ReadRow, MovePointer, Approved, provider
<1>3. ASSUME NEW s \in Shops, s.current \in Approved \cup {None}, NEW e, e = Ensured(row, s),
             row' = e.rows, shop' = e.shop
      PROVE  RowsApproved' /\ CurrentApproved'
  BY <1>2, <1>3, EnsuredIsSound DEF RowsApproved, CurrentApproved
<1>4. ASSUME NEW q \in Runs, NEW c, Sound(c), run' = [run EXCEPT ![q] = c]
      PROVE  CallsApproved'
  <2>1. \A p \in Runs : Sound(run'[p])
    BY <1>1, <1>4 DEF AllApproved, CallsApproved
  <2> QED
    BY <1>2, <2>1 DEF CallsApproved, Sound
<1>5. CASE ReadEntitlement
  <2>1. RowsApproved' /\ CurrentApproved'
    BY <1>1, <1>3, <1>5 DEF ReadEntitlement
  <2>2. CallsApproved'
    BY <1>2, <1>5 DEF ReadEntitlement, AllApproved, CallsApproved, Sound
  <2> QED
    BY <2>1, <2>2 DEF AllApproved
<1>6. CASE SearchRefreshes
  <2> DEFINE e == Ensured(row, shop)
  <2>1. RowsApproved' /\ CurrentApproved'
    BY <1>1, <1>3, <1>6 DEF SearchRefreshes
  <2>2. e.shop \in Shops
    BY <1>1, EnsuredFacts DEF Typed, TypeOK
  <2>3. PICK g \in Selected(e.rows, e.shop) :
          run' = [run EXCEPT ![Storefront] = [Query(g) EXCEPT !.sync = TRUE]]
    BY <1>6 DEF SearchRefreshes
  <2>4. Sound([Query(g) EXCEPT !.sync = TRUE]) /\ Storefront \in Runs
    BY <2>2, <2>3, SelectedType, QueryIsSound DEF Runs
  <2>5. CallsApproved'
    BY <1>4, <2>3, <2>4
  <2> QED
    BY <2>1, <2>5 DEF AllApproved
<1>7. CASE ReadRow(r)
  <2> DEFINE e == Ensured(row, shop)
             call == run[r]
             cur == e.rows[call.gid]
             data == RowData(call.status, cur)
  <2>1. RowsApproved' /\ CurrentApproved'
    BY <1>1, <1>3, <1>7 DEF ReadRow
  <2>2. call \in CallRecords /\ call.gid \in Subs /\ Sound(call)
    BY <1>1, <1>7 DEF ReadRow, Typed, Named, AllApproved, CallsApproved
  <2>3. Claims(cur) => call.gid \in Approved
    BY <1>1, <2>2, EnsuredIsSound
  <2>4. data.status = call.status /\ (data.ends # "none" => call.status = "ACTIVE" \/ Claims(cur))
    BY DEF RowData, Claims
  <2>5. PICK at : run' = [run EXCEPT ![r] = [call EXCEPT !.data = data, !.at = at]]
    BY <1>7 DEF ReadRow
  <2>6. Sound([call EXCEPT !.data = data, !.at = at])
    BY <2>2, <2>3, <2>4 DEF Sound, Claims, CallRecords
  <2>7. CallsApproved'
    BY <1>4, <2>5, <2>6
  <2> QED
    BY <2>1, <2>7 DEF AllApproved
<1>8. CASE MovePointer(r)
  <2> DEFINE s == PointersAfter(shop, run[r])
  <2>1. run[r] \in CallRecords /\ run[r].gid \in Subs /\ Sound(run[r])
    BY <1>1, <1>8 DEF MovePointer, Typed, Named, AllApproved, CallsApproved
  <2>2. s \in Shops
    BY <1>1, <2>1, PointersType
  <2>3. \/ s.current \in {shop.current, None}
        \/ run[r].status = "ACTIVE" /\ s.current = run[r].gid
    BY <1>1 DEF PointersAfter, Shops, Terminal
  <2>4. s.current \in Approved \cup {None}
    BY <1>1, <2>1, <2>3 DEF Sound
  <2>5. RowsApproved' /\ CurrentApproved'
    BY <1>3, <1>8, <2>2, <2>4 DEF MovePointer
  <2>6. CallsApproved'
    BY <1>4, <1>8, IdleIsSound DEF MovePointer
  <2> QED
    BY <2>5, <2>6 DEF AllApproved
<1> QED
  BY <1>5, <1>6, <1>7, <1>8

\* The other steps of a call.
LEMMA ApprovedSteps ==
  ASSUME Typed, AllApproved, NEW r \in Runs,
         \/ NotePending(r) \/ AskShopify(r) \/ Lookup(r) \/ CloseFromWebhook(r)
         \/ ClearMissing(r) \/ CancelPrevious(r) \/ WriteRow(r) \/ BreakOff(r)
  PROVE  AllApproved'
<1> DEFINE call == run[r]
<1>1. Approved' = Approved
  BY DEF NotePending, AskShopify, Lookup, CloseFromWebhook, ClearMissing, CancelPrevious,
         WriteRow, BreakOff, Approved, provider
<1>2. /\ run \in [Runs -> CallRecords] /\ row \in [Subs -> Rows]
      /\ call \in CallRecords /\ Sound(call)
  BY DEF Typed, TypeOK, AllApproved, CallsApproved
<1>3. /\ shop'.current \in Approved \cup {None}
  BY DEF NotePending, AskShopify, Lookup, CloseFromWebhook, ClearMissing, CancelPrevious,
         WriteRow, BreakOff, Typed, TypeOK, AllApproved, CurrentApproved
<1>4. \A g \in Subs : Claims(row'[g]) => g \in Approved
  <2>1. CASE UNCHANGED row
    BY <2>1 DEF AllApproved, RowsApproved
  <2>2. CASE CloseFromWebhook(r)
    <3>1. call.gid \in Subs
      BY <2>2 DEF CloseFromWebhook, Typed, Named
    <3>2. row'[call.gid].status = call.status /\ row'[call.gid].ends = row[call.gid].ends
      BY <1>2, <2>2, <3>1 DEF CloseFromWebhook, Rows
    <3>3. \A g \in Subs : g # call.gid => row'[g] = row[g]
      BY <1>2, <2>2, <3>1 DEF CloseFromWebhook
    <3> QED
      BY <1>2, <3>1, <3>2, <3>3, SubsAreOrdered DEF AllApproved, RowsApproved, Claims, Sound
  <2>3. CASE CancelPrevious(r)
    <3>1. \A g \in Subs : Claims(row'[g]) => Claims(row[g])
      BY <1>2, <2>3 DEF CancelPrevious, Claims, Rows
    <3> QED
      BY <3>1 DEF AllApproved, RowsApproved
  <2>4. CASE WriteRow(r)
    BY <1>2, <2>4, SubsAreOrdered DEF WriteRow, AllApproved, RowsApproved, Claims, Sound
  <2> QED
    BY <2>1, <2>2, <2>3, <2>4 DEF NotePending, AskShopify, Lookup, ClearMissing, BreakOff
<1>5. PICK c : run' = [run EXCEPT ![r] = c] /\ Sound(c)
  <2>1. CASE CloseFromWebhook(r) \/ ClearMissing(r) \/ BreakOff(r)
    BY <2>1, IdleIsSound DEF CloseFromWebhook, ClearMissing, BreakOff
  <2>2. CASE NotePending(r) \/ CancelPrevious(r)
    <3>1. PICK at : run' = [run EXCEPT ![r] = [call EXCEPT !.at = at]]
      BY <2>2 DEF NotePending, CancelPrevious
    <3>2. Sound([call EXCEPT !.at = at])
      BY <1>2 DEF Sound, CallRecords
    <3> QED
      BY <3>1, <3>2
  <2>3. CASE WriteRow(r)
    <3> DEFINE new == [call EXCEPT !.at = "pointer",
                          !.data = [NoRow EXCEPT !.nonRenewing = call.data.nonRenewing]]
    <3>1. Sound(new)
      BY <1>2 DEF Sound, Claims, NoRow, CallRecords
    <3> QED
      BY <2>3, <3>1 DEF WriteRow
  <2>4. CASE AskShopify(r)
    <3>1. CASE Answer(call.gid) # {} /\ app.installed
      <4>1. PICK g \in Answer(call.gid) :
              run' = [run EXCEPT ![r] = [Query(g) EXCEPT !.at = "read", !.status = shopify[g]]]
        BY <2>4, <3>1 DEF AskShopify
      <4>2. g \in Subs
        BY DEF Answer, Returned, Newest
      <4>3. Sound([Query(g) EXCEPT !.at = "read", !.status = shopify[g]])
        BY <4>2 DEF Sound, Claims, Query, Idle, NoRow, Approved
      <4> QED
        BY <4>1, <4>3
    <3>2. CASE ~(Answer(call.gid) # {} /\ app.installed)
      <4>1. \/ run' = [run EXCEPT ![r] = Idle]
            \/ run' = [run EXCEPT ![r] = [call EXCEPT !.at = "lookup"]]
        BY <2>4, <3>2 DEF AskShopify
      <4>2. Sound([call EXCEPT !.at = "lookup"])
        BY <1>2 DEF Sound, CallRecords
      <4> QED
        BY <4>1, <4>2, IdleIsSound
    <3> QED
      BY <3>1, <3>2
  <2>5. CASE Lookup(r)
    <3> DEFINE local == row[call.gid]
    <3>1. \/ run' = [run EXCEPT ![r] = Idle]
          \/ run' = [run EXCEPT ![r] = [call EXCEPT !.at = "clear"]]
          \/ run' = [run EXCEPT ![r] = [call EXCEPT !.at = "terminal", !.data = local]]
      BY <2>5 DEF Lookup
    <3>2. call.gid \in Subs
      BY <2>5 DEF Lookup, Typed, Named
    <3>3. Sound([call EXCEPT !.at = "clear"])
      BY <1>2 DEF Sound, CallRecords
    <3>4. Sound([call EXCEPT !.at = "terminal", !.data = local])
      BY <1>2, <3>2, SubsAreOrdered DEF Sound, CallRecords, AllApproved, RowsApproved
    <3> QED
      BY <3>1, <3>3, <3>4, IdleIsSound
  <2> QED
    BY <2>1, <2>2, <2>3, <2>4, <2>5
<1>6. \A q \in Runs : Sound(run'[q])
  BY <1>2, <1>5 DEF AllApproved, CallsApproved
<1> QED
  BY <1>1, <1>3, <1>4, <1>6 DEF AllApproved, RowsApproved, CurrentApproved, CallsApproved, Sound

LEMMA ApprovedNext == Typed /\ AllApproved /\ [Next]_vars => AllApproved'
<1> SUFFICES ASSUME Typed, AllApproved, [Next]_vars PROVE AllApproved'
  OBVIOUS
<1>1. CASE UNCHANGED vars
  BY <1>1 DEF vars, AllApproved, RowsApproved, CurrentApproved, CallsApproved, Sound, Claims,
              Approved
<1>2. ASSUME NEW r \in Runs, Reconcile(r) \/ BreakOff(r) PROVE AllApproved'
  BY <1>2, ApprovedReads, ApprovedSteps DEF Reconcile
<1>3. ASSUME ReadEntitlement \/ SearchRefreshes PROVE AllApproved'
  <2>1. Storefront \in Runs
    BY DEF Runs
  <2> QED
    BY <1>3, <2>1, ApprovedReads
<1>4. CASE Uninstall \/ UninstallWebhook \/ DeleteSessions
  <2>1. CASE Subs = {}
    BY <1>4, <2>1 DEF Uninstall, UninstallWebhook, DeleteSessions, AllApproved, RowsApproved,
          CurrentApproved, CallsApproved, Sound, Claims, Approved, Typed, TypeOK
  <2>2. ASSUME NEW g \in Subs PROVE AllApproved'
    BY <1>4, ApprovedWorld
  <2> QED
    BY <2>1, <2>2
<1>5. ASSUME NEW r \in Callers, OpenApp(r) PROVE AllApproved'
  <2>1. CASE Subs = {}
    BY <1>5, <2>1, QueryIsSound DEF OpenApp, Starts, AllApproved, RowsApproved,
          CurrentApproved, CallsApproved, Sound, Claims, Approved, Typed, TypeOK, Runs
  <2>2. ASSUME NEW g \in Subs PROVE AllApproved'
    BY <1>5, ApprovedStarts
  <2> QED
    BY <2>1, <2>2
<1>6. ASSUME NEW r \in Callers, NEW g \in Subs,
             Webhook(r, g) \/ Poll(r, g) \/ CreateSubscription(r, g)
      PROVE  AllApproved'
  BY <1>6, ApprovedStarts
<1>7. ASSUME NEW g \in Subs,
             \/ Approve(g) \/ Decline(g) \/ Freeze(g) \/ Unfreeze(g)
             \/ CancelSubscription(g) \/ BecomeVisible(g) \/ PeriodEnds(g)
      PROVE  AllApproved'
  BY <1>7, ApprovedWorld
<1> QED
  BY <1>1, <1>2, <1>3, <1>4, <1>5, <1>6, <1>7 DEF Next

\* Whoever reconciles when, only what the merchant approved becomes current or
\* gives access.
THEOREM OnlyApprovedServed == Spec => []OnlyApprovedIsServed
<1>1. Typed /\ AllApproved /\ [Next]_vars => (Typed /\ AllApproved)'
  BY TypedNext, ApprovedNext
<1>2. Init => Typed /\ AllApproved
  BY TypedInit, ApprovedInit
<1> QED
  BY <1>1, <1>2, ApprovedServed, PTL DEF Spec
-------------------------------------------------------------------------------
\* What a paid period rests on.  A call was told what is final at Shopify, if it
\* is terminal, writes what it was told, and was told of nothing active that
\* Shopify hides; one subscription is live at a time.
Told(c) == c.gid \in Subs /\ c.status \in Terminal => shopify[c.gid] = c.status
Writes(c) == /\ c.at \in {"replace", "upsert"} => c.data.status = c.status
             /\ c.at = "replace" => c.status = "ACTIVE"
Quiet(c) == c.gid \in hidden => c.status # "ACTIVE" /\ c.data.status # "ACTIVE"
Faithful(c) == Told(c) /\ Writes(c) /\ Quiet(c)
RowsQuiet == \A g \in hidden : row[g].status # "ACTIVE"
Live == {g \in Subs : shopify[g] \in {"ACTIVE", "FROZEN"}}
OneLive == \A g, h \in Live : g = h

\* A cancelled subscription in its paid period is known as such by its row, by
\* what a call will write of it and by what one is about to move the pointer for.
InPeriod(g) ==
  row[g].ends = "future" => \/ row[g].status = "ACTIVE"
                            \/ row[g].status = "CANCELLED" /\ row[g].nonRenewing
Keeps(c, g) ==
  c.gid = g /\ c.status = "CANCELLED" =>
    /\ c.at = "upsert" => /\ c.data.ends = row[g].ends
                          /\ row[g].ends = "future" => c.data.nonRenewing
    /\ c.at = "pointer" => (row[g].ends = "future" => c.data.nonRenewing)
Graced(g) == /\ shopify[g] = "CANCELLED" /\ Live = {} /\ g \notin hidden /\ ~app.leaving
             /\ InPeriod(g) /\ \A r \in Runs : Keeps(run[r], g)
Periods == /\ OneLive /\ RowsQuiet /\ \A r \in Runs : Faithful(run[r])
           /\ \A g \in graced : Graced(g)

LEMMA PeriodsInit == Init => Periods
BY DEF Init, Periods, OneLive, Live, RowsQuiet, Faithful, Told, Writes, Quiet, Idle, NoRow, Terminal

\* Calls that are idle or new are faithful and keep every period.
LEMMA NewIsFaithful ==
  ASSUME NEW g \in Subs \cup {None}
  PROVE  /\ Faithful(Idle) /\ Faithful(Query(g)) /\ Faithful([Query(g) EXCEPT !.sync = TRUE])
         /\ Faithful([Query(g) EXCEPT !.at = "note"])
         /\ \A h : /\ Keeps(Idle, h) /\ Keeps(Query(g), h)
                   /\ Keeps([Query(g) EXCEPT !.sync = TRUE], h)
                   /\ Keeps([Query(g) EXCEPT !.at = "note"], h)
BY DEF Faithful, Told, Writes, Quiet, Keeps, Query, Idle, NoRow, Terminal

\* A step of one call, that leaves alone the periods of what stays graced.
LEMMA CallStep ==
  ASSUME Typed, Periods, NEW r \in Runs, NEW c, run' = [run EXCEPT ![r] = c],
         UNCHANGED <<shopify, hidden>>, app'.leaving = app.leaving, graced' \subseteq graced,
         Faithful(c), \A h \in hidden : row'[h].status # "ACTIVE",
         \A g \in graced' : row'[g].ends = row[g].ends /\ InPeriod(g)' /\ Keeps(c, g)
  PROVE  Periods'
<1>1. run \in [Runs -> CallRecords]
  BY DEF Typed, TypeOK
<1>2. Live' = Live /\ OneLive'
  BY DEF Live, OneLive, Periods
<1>3. \A q \in Runs : Faithful(run'[q])
  BY <1>1 DEF Periods
<1>4. \A q \in Runs : Faithful(run[q])'
  BY <1>3 DEF Faithful, Told, Writes, Quiet
<1>5. ASSUME NEW g \in graced' PROVE Graced(g)'
  <2>1. \A q \in Runs : Keeps(run'[q], g)
    BY <1>1 DEF Periods, Graced
  <2>2. \A q \in Runs : Keeps(run[q], g)'
    BY <2>1 DEF Keeps
  <2> QED
    BY <1>2, <2>2 DEF Periods, Graced
<1> QED
  BY <1>2, <1>4, <1>5 DEF Periods, RowsQuiet

\* A new snapshot leaves the periods alone.
LEMMA EnsuredKeeps ==
  ASSUME Typed, Periods, NEW s \in Shops, NEW e, e = Ensured(row, s), row' = e.rows
  PROVE  /\ \A h \in Subs : row'[h].status = row[h].status /\ row'[h].ends = row[h].ends
         /\ \A h \in hidden : row'[h].status # "ACTIVE"
         /\ \A g \in graced : row'[g].ends = row[g].ends /\ InPeriod(g)'
<1>1. row \in [Subs -> Rows] /\ hidden \subseteq Subs /\ graced \subseteq Subs
  BY DEF Typed, TypeOK
<1>2. \A h \in Subs : /\ row'[h].status = row[h].status /\ row'[h].ends = row[h].ends
                      /\ row[h].ends # "past" => row'[h] = row[h]
  BY <1>1, EnsuredFacts
<1> QED
  BY <1>1, <1>2 DEF Periods, RowsQuiet, Graced, InPeriod

\* When Shopify, the merchant or time moves on.
LEMMA PeriodsWorld ==
  ASSUME Typed, AllApproved, Periods, NEW g \in Subs,
         \/ Approve(g) \/ Decline(g) \/ Freeze(g) \/ Unfreeze(g) \/ CancelSubscription(g)
         \/ BecomeVisible(g)
  PROVE  Periods'
<1> USE DEF Periods
<1>1. /\ shopify \in [Subs -> Statuses] /\ row \in [Subs -> Rows] /\ graced \subseteq Subs
      /\ run' = run /\ row' = row /\ app' = app
  BY DEF Typed, TypeOK, Approve, Decline, Freeze, Unfreeze, CancelSubscription, BecomeVisible
<1>2. \A h \in Subs : shopify[h] \in Terminal => shopify'[h] = shopify[h]
  BY <1>1 DEF Approve, Decline, Freeze, Unfreeze, CancelSubscription, BecomeVisible, Terminal
<1>3. \A r \in Runs : Told(run[r])' /\ Writes(run[r])'
  BY <1>1, <1>2 DEF Faithful, Told, Writes
<1>4. CASE Approve(g)
  <2>1. Live' = {g} /\ graced' = {}
    BY <1>1, <1>4 DEF Approve, Live
  <2>2. g \notin Approved /\ hidden' = hidden \cup {g}
    BY <1>4 DEF Approve, Approved
  <2>3. RowsQuiet'
    BY <1>1, <2>2 DEF RowsQuiet, AllApproved, RowsApproved, Claims
  <2>4. \A r \in Runs : Quiet(run[r])'
    BY <1>1, <2>2, SubsAreOrdered
    DEF AllApproved, CallsApproved, Sound, Claims, Faithful, Quiet
  <2> QED
    BY <1>3, <2>1, <2>3, <2>4 DEF OneLive, Faithful
<1>5. CASE Decline(g) \/ Freeze(g) \/ Unfreeze(g) \/ CancelSubscription(g) \/ BecomeVisible(g)
  <2>1. Live' \subseteq Live
    BY <1>1, <1>5 DEF Decline, Freeze, Unfreeze, CancelSubscription, BecomeVisible, Live
  <2>2. hidden' \subseteq hidden
    BY <1>5 DEF Decline, Freeze, Unfreeze, CancelSubscription, BecomeVisible
  <2>3. RowsQuiet' /\ OneLive' /\ \A r \in Runs : Quiet(run[r])'
    BY <1>1, <2>1, <2>2 DEF RowsQuiet, OneLive, Faithful, Quiet
  <2>4. ASSUME NEW h \in graced PROVE Graced(h)'
    BY <1>1, <1>2, <2>1, <2>2 DEF Graced, InPeriod, Keeps, Terminal
  <2>5. CASE graced' = graced
    BY <1>3, <2>3, <2>4, <2>5 DEF Faithful
  <2>6. CASE graced' # graced
    <3>1. /\ CancelSubscription(g) /\ graced' = graced \cup {g}
          /\ shopify[g] = "ACTIVE" /\ row[g].status = "ACTIVE" /\ ~app.leaving
      BY <1>5, <2>6 DEF Decline, Freeze, Unfreeze, CancelSubscription, BecomeVisible
    <3>2. shopify'[g] = "CANCELLED" /\ Live' = {}
      BY <1>1, <3>1 DEF CancelSubscription, Live, OneLive
    <3>3. g \notin hidden' /\ ~app'.leaving
      BY <1>1, <2>2, <3>1 DEF RowsQuiet
    <3>4. InPeriod(g)'
      BY <1>1, <3>1 DEF InPeriod
    <3>5. \A r \in Runs : Keeps(run[r], g)'
      BY <1>1, <3>1 DEF Keeps, Faithful, Told, Terminal
    <3>6. Graced(g)'
      BY <3>2, <3>3, <3>4, <3>5 DEF Graced
    <3> QED
      BY <1>3, <2>3, <2>4, <3>1, <3>6 DEF Faithful
  <2> QED
    BY <2>5, <2>6
<1> QED
  BY <1>4, <1>5

LEMMA PeriodsTime ==
  ASSUME Typed, Periods, NEW g \in Subs, PeriodEnds(g)
  PROVE  Periods'
<1> USE DEF Periods
<1>1. /\ row \in [Subs -> Rows] /\ run \in [Runs -> CallRecords] /\ graced \subseteq Subs
      /\ hidden \subseteq Subs
      /\ UNCHANGED <<shopify, hidden, app, graced>>
  BY DEF Typed, TypeOK, PeriodEnds, provider
<1>2. /\ row'[g].ends # "future"
      /\ \A h \in Subs : row'[h].status = row[h].status /\ (h # g => row'[h] = row[h])
  BY <1>1 DEF PeriodEnds, Rows
<1>3. ASSUME NEW r \in Runs
      PROVE  /\ run'[r].at = run[r].at /\ run'[r].gid = run[r].gid
             /\ run'[r].status = run[r].status /\ run'[r].data.status = run[r].data.status
             /\ run[r].gid # g => run'[r] = run[r]
             /\ run[r].gid = g /\ run[r].data.ends = row[g].ends
                  => run'[r].data.ends = row'[g].ends
  BY <1>1 DEF PeriodEnds, CallRecords, Rows
<1>4. OneLive' /\ RowsQuiet' /\ Live' = Live
  BY <1>1, <1>2 DEF OneLive, Live, RowsQuiet
<1>5. \A r \in Runs : Faithful(run[r])'
  BY <1>1, <1>3 DEF Faithful, Told, Writes, Quiet
<1>6. ASSUME NEW h \in graced PROVE Graced(h)'
  <2>1. InPeriod(h)'
    BY <1>1, <1>2 DEF Graced, InPeriod
  <2>2. \A r \in Runs : Keeps(run[r], h)'
    BY <1>1, <1>2, <1>3 DEF Graced, Keeps
  <2> QED
    BY <1>1, <1>4, <2>1, <2>2 DEF Graced
<1> QED
  BY <1>1, <1>4, <1>5, <1>6

LEMMA PeriodsUninstall ==
  ASSUME Typed, Periods, Uninstall \/ UninstallWebhook
  PROVE  Periods'
<1> USE DEF Periods
<1>1. graced' = {}
  BY DEF Uninstall, UninstallWebhook, Graced
<1>2. shopify \in [Subs -> Statuses] /\ row \in [Subs -> Rows] /\ run' = run /\ hidden' = hidden
      /\ hidden \subseteq Subs
  BY DEF Uninstall, UninstallWebhook, Typed, TypeOK
<1>3. \A h \in Subs : shopify[h] \in Terminal => shopify'[h] = shopify[h]
  BY <1>2 DEF Uninstall, UninstallWebhook, Terminal
<1>4. Live' \subseteq Live
  BY <1>2 DEF Uninstall, UninstallWebhook, Live
<1>5. RowsQuiet'
  <2>1. \A h \in Subs : row'[h].status = "ACTIVE" => row[h].status = "ACTIVE"
    <3>1. CASE Uninstall
      BY <3>1 DEF Uninstall
    <3>2. CASE UninstallWebhook
      <4>1. \A d \in Rows : [d EXCEPT !.status = "CANCELLED", !.nonRenewing = FALSE].status = "CANCELLED"
        BY DEF Rows
      <4> QED
        BY <1>2, <3>2, <4>1 DEF UninstallWebhook
    <3> QED
      BY <3>1, <3>2
  <2> QED
    BY <1>2, <2>1 DEF RowsQuiet
<1>6. \A r \in Runs : Faithful(run[r])'
  BY <1>2, <1>3 DEF Faithful, Told, Writes, Quiet
<1> QED
  BY <1>1, <1>4, <1>5, <1>6 DEF OneLive

LEMMA PeriodsSessions ==
  ASSUME Typed, Periods, DeleteSessions
  PROVE  Periods'
<1>1. UNCHANGED <<shopify, hidden, row, run, graced>> /\ app'.leaving = app.leaving
  BY DEF DeleteSessions, Typed, TypeOK
<1> QED
  BY <1>1 DEF Periods, OneLive, Live, RowsQuiet, Faithful, Told, Writes, Quiet, Graced, InPeriod, Keeps

\* When a call starts.
LEMMA PeriodsStarts ==
  ASSUME Typed, Periods, NEW r \in Callers, NEW g \in Subs,
         Webhook(r, g) \/ Poll(r, g) \/ CreateSubscription(r, g)
  PROVE  Periods'
<1>1. /\ r \in Runs /\ hidden \subseteq Subs /\ graced \subseteq Subs
      /\ \A h \in hidden : row[h].status # "ACTIVE"
      /\ \A h \in graced : InPeriod(h)
  BY DEF Runs, Typed, TypeOK, Periods, RowsQuiet, Graced
<1>2. CASE Webhook(r, g)
  <2>1. PICK observed \in {"none"} \cup ({shopify[g]} \cap Terminal) :
          run' = [run EXCEPT ![r] = [Query(g) EXCEPT !.status = observed]]
    BY <1>2 DEF Webhook, Starts
  <2>2. PICK c : c = [Query(g) EXCEPT !.status = observed]
    OBVIOUS
  <2>3. Faithful(c) /\ \A h : Keeps(c, h)
    BY <2>1, <2>2 DEF Faithful, Told, Writes, Quiet, Keeps, Query, Idle, NoRow, Terminal
  <2>4. \A h \in graced' : InPeriod(h)'
    BY <1>1, <1>2 DEF Webhook, InPeriod
  <2> QED
    BY <1>1, <1>2, <2>1, <2>2, <2>3, <2>4, CallStep DEF Webhook, provider
<1>3. CASE Poll(r, g)
  <2>1. PICK c : c = [Query(g) EXCEPT !.sync = TRUE]
    OBVIOUS
  <2>2. Faithful(c) /\ \A h : Keeps(c, h)
    BY <2>1, NewIsFaithful
  <2>3. \A h \in graced' : InPeriod(h)'
    BY <1>1, <1>3 DEF Poll, InPeriod
  <2> QED
    BY <1>1, <1>3, <2>1, <2>2, <2>3, CallStep DEF Poll, Starts, provider
<1>4. CASE CreateSubscription(r, g)
  <2> DEFINE c == [Query(g) EXCEPT !.at = "note"]
  <2>1. /\ shopify \in [Subs -> Statuses] /\ shopify[g] = "none"
        /\ shopify' = [shopify EXCEPT ![g] = "PENDING"] /\ run' = [run EXCEPT ![r] = c]
        /\ UNCHANGED <<hidden, app, row, graced>> /\ run \in [Runs -> CallRecords]
    BY <1>4 DEF CreateSubscription, Starts, Typed, TypeOK
  <2>2. Live' = Live /\ OneLive' /\ RowsQuiet'
    BY <2>1 DEF Live, OneLive, Periods, RowsQuiet
  <2>3. Faithful(c) /\ \A h : Keeps(c, h)
    BY NewIsFaithful
  <2>4. \A q \in Runs : Faithful(run'[q]) /\ \A h \in graced : Keeps(run'[q], h)
    BY <1>1, <2>1, <2>3 DEF Periods, Graced
  <2>5. \A q \in Runs : Faithful(run[q])' /\ \A h \in graced : Keeps(run[q], h)'
    BY <2>1, <2>4 DEF Faithful, Told, Writes, Quiet, Keeps, Terminal
  <2>6. \A h \in graced : Graced(h)'
    BY <1>1, <2>1, <2>2, <2>5 DEF Periods, Graced, InPeriod
  <2> QED
    BY <2>1, <2>2, <2>5, <2>6 DEF Periods
<1> QED
  BY <1>2, <1>3, <1>4

LEMMA PeriodsOpen ==
  ASSUME Typed, Periods, NEW r \in Callers, OpenApp(r)
  PROVE  Periods'
<1>1. /\ r \in Runs /\ hidden \subseteq Subs /\ graced \subseteq Subs
      /\ \A h \in hidden : row[h].status # "ACTIVE"
      /\ \A h \in graced : InPeriod(h)
      /\ app'.leaving = app.leaving
  BY DEF Runs, Typed, TypeOK, Periods, RowsQuiet, Graced, OpenApp
<1>2. PICK c : c = Query(None)
  OBVIOUS
<1>3. Faithful(c) /\ \A h : Keeps(c, h)
  BY <1>2, NewIsFaithful
<1>4. \A h \in graced' : InPeriod(h)'
  BY <1>1 DEF OpenApp, InPeriod
<1> QED
  BY <1>1, <1>2, <1>3, <1>4, CallStep DEF OpenApp, Starts

\* When the snapshot, or the row, is read, and when the pointer is moved.
LEMMA PeriodsReads ==
  ASSUME Typed, Periods, NEW r \in Runs,
         ReadEntitlement \/ SearchRefreshes \/ ReadRow(r) \/ MovePointer(r)
  PROVE  Periods'
<1>1. /\ shop \in Shops /\ run \in [Runs -> CallRecords] /\ row \in [Subs -> Rows]
      /\ graced \subseteq Subs
  BY DEF Typed, TypeOK, Shops
<1>2. UNCHANGED <<shopify, hidden, app>>
  BY DEF ReadEntitlement, SearchRefreshes, ReadRow, MovePointer, provider
<1>3. CASE ReadEntitlement
  <2>1. /\ \A h \in hidden : row'[h].status # "ACTIVE"
        /\ \A g \in graced : row'[g].ends = row[g].ends /\ InPeriod(g)'
    BY <1>1, <1>3, EnsuredKeeps DEF ReadEntitlement
  <2>2. Live' = Live /\ OneLive' /\ RowsQuiet' /\ run' = run /\ graced' = graced
    BY <1>2, <1>3, <2>1 DEF ReadEntitlement, Live, OneLive, Periods, RowsQuiet
  <2>3. \A q \in Runs : Faithful(run[q])' /\ \A g \in graced : Keeps(run[q], g)'
    BY <1>2, <2>1, <2>2 DEF Faithful, Told, Writes, Quiet, Keeps, Periods, Graced
  <2> QED
    BY <1>2, <2>1, <2>2, <2>3 DEF Periods, Graced
<1>4. CASE SearchRefreshes
  <2> DEFINE e == Ensured(row, shop)
  <2>1. /\ \A h \in hidden : row'[h].status # "ACTIVE"
        /\ \A g \in graced : row'[g].ends = row[g].ends /\ InPeriod(g)'
    BY <1>1, <1>4, EnsuredKeeps DEF SearchRefreshes
  <2>2. e.shop \in Shops
    BY <1>1, EnsuredFacts
  <2>3. PICK g \in Selected(e.rows, e.shop) :
          run' = [run EXCEPT ![Storefront] = [Query(g) EXCEPT !.sync = TRUE]]
    BY <1>4 DEF SearchRefreshes
  <2>4. PICK c : c = [Query(g) EXCEPT !.sync = TRUE]
    OBVIOUS
  <2>5. Faithful(c) /\ (\A h : Keeps(c, h)) /\ Storefront \in Runs
    BY <2>2, <2>3, <2>4, SelectedType, NewIsFaithful DEF Runs
  <2>6. graced' = graced
    BY <1>4 DEF SearchRefreshes
  <2> QED
    BY <1>2, <2>1, <2>3, <2>4, <2>5, <2>6, CallStep
<1>5. CASE ReadRow(r)
  <2> DEFINE e == Ensured(row, shop)
             call == run[r]
             cur == e.rows[call.gid]
  <2>1. /\ \A h \in hidden : row'[h].status # "ACTIVE"
        /\ \A g \in graced : row'[g].ends = row[g].ends /\ InPeriod(g)'
        /\ graced' = graced /\ row' = e.rows
    BY <1>1, <1>5, EnsuredKeeps DEF ReadRow
  <2>2. call \in CallRecords /\ call.gid \in Subs /\ Faithful(call)
    BY <1>1, <1>5 DEF ReadRow, Typed, Named, Periods
  <2>3. PICK at \in {"replace", "upsert"} :
          /\ run' = [run EXCEPT ![r] = [call EXCEPT !.data = RowData(call.status, cur), !.at = at]]
          /\ at = "replace" => call.status = "ACTIVE"
    BY <1>5 DEF ReadRow
  <2>4. PICK c : c = [call EXCEPT !.data = RowData(call.status, cur), !.at = at]
    OBVIOUS
  <2>5. c.at = at /\ c.gid = call.gid /\ c.status = call.status /\ c.data = RowData(call.status, cur)
    BY <2>2, <2>4 DEF CallRecords
  <2>6. Faithful(c)
    BY <2>2, <2>3, <2>5 DEF Faithful, Told, Writes, Quiet, RowData
  <2>7. ASSUME NEW g \in graced PROVE Keeps(c, g)
    <3>1. CASE call.gid = g /\ call.status = "CANCELLED"
      <4>1. cur.ends = row[g].ends /\ (cur.ends = "future" => cur.status = "ACTIVE" \/ cur.nonRenewing)
        BY <2>1, <3>1 DEF InPeriod
      <4>2. c.data.ends = cur.ends /\ (cur.ends = "future" => c.data.nonRenewing)
        BY <2>5, <3>1, <4>1 DEF RowData, InPaidWindow
      <4> QED
        BY <2>3, <2>5, <4>1, <4>2 DEF Keeps
    <3>2. CASE ~(call.gid = g /\ call.status = "CANCELLED")
      BY <2>5, <3>2 DEF Keeps
    <3> QED
      BY <3>1, <3>2
  <2> QED
    BY <1>2, <2>1, <2>3, <2>4, <2>6, <2>7, CallStep
<1>6. CASE MovePointer(r)
  <2> DEFINE s == PointersAfter(shop, run[r])
  <2>1. run[r] \in CallRecords /\ run[r].gid \in Subs
    BY <1>1, <1>6 DEF MovePointer, Typed, Named
  <2>2. s \in Shops
    BY <1>1, <2>1, PointersType
  <2>3. /\ \A h \in hidden : row'[h].status # "ACTIVE"
        /\ \A g \in graced : row'[g].ends = row[g].ends /\ InPeriod(g)'
    BY <1>6, <2>2, EnsuredKeeps DEF MovePointer
  <2>4. PICK c : c = Idle
    OBVIOUS
  <2>5. Faithful(c) /\ \A h : Keeps(c, h)
    BY <2>4, NewIsFaithful
  <2>6. graced' \subseteq graced /\ run' = [run EXCEPT ![r] = c]
    BY <1>6, <2>4 DEF MovePointer
  <2> QED
    BY <1>2, <2>3, <2>5, <2>6, CallStep
<1> QED
  BY <1>3, <1>4, <1>5, <1>6

\* The other steps of a call: those that leave the rows alone, then the writes.
LEMMA PeriodsQuietSteps ==
  ASSUME Typed, Periods, NEW r \in Runs,
         NotePending(r) \/ AskShopify(r) \/ Lookup(r) \/ ClearMissing(r) \/ BreakOff(r)
  PROVE  Periods'
<1> DEFINE call == run[r]
<1>1. /\ call \in CallRecords /\ row \in [Subs -> Rows] /\ run \in [Runs -> CallRecords]
      /\ graced \subseteq Subs /\ hidden \subseteq Subs /\ Faithful(call)
      /\ \A g \in graced : InPeriod(g) /\ Keeps(call, g)
  BY DEF Typed, TypeOK, Periods, Graced
<1>2. UNCHANGED <<shopify, hidden, app, row>> /\ graced' \subseteq graced
  BY DEF NotePending, AskShopify, Lookup, ClearMissing, BreakOff, provider
<1>3. PICK c : run' = [run EXCEPT ![r] = c] /\ Faithful(c) /\ \A g \in graced : Keeps(c, g)
  <2>1. CASE ClearMissing(r) \/ BreakOff(r)
    BY <2>1, NewIsFaithful DEF ClearMissing, BreakOff
  <2>2. CASE NotePending(r)
    <3>1. Faithful([call EXCEPT !.at = "query"])
      BY <1>1 DEF Faithful, Told, Writes, Quiet, CallRecords
    <3>2. \A g : Keeps([call EXCEPT !.at = "query"], g)
      BY <1>1 DEF Keeps, CallRecords
    <3> QED
      BY <2>2, <3>1, <3>2 DEF NotePending
  <2>3. CASE AskShopify(r)
    <3>1. CASE Answer(call.gid) # {} /\ app.installed
      <4>1. PICK g \in Answer(call.gid) :
              run' = [run EXCEPT ![r] = [Query(g) EXCEPT !.at = "read", !.status = shopify[g]]]
        BY <2>3, <3>1 DEF AskShopify
      <4>2. g \in Subs \ hidden
        BY DEF Answer, Returned, Newest
      <4>3. Faithful([Query(g) EXCEPT !.at = "read", !.status = shopify[g]])
        BY <4>2 DEF Faithful, Told, Writes, Quiet, Query, Idle, NoRow
      <4>4. \A h : Keeps([Query(g) EXCEPT !.at = "read", !.status = shopify[g]], h)
        BY DEF Keeps, Query, Idle
      <4> QED
        BY <4>1, <4>3, <4>4
    <3>2. CASE ~(Answer(call.gid) # {} /\ app.installed)
      <4>1. \/ run' = [run EXCEPT ![r] = Idle]
            \/ run' = [run EXCEPT ![r] = [call EXCEPT !.at = "lookup"]]
        BY <2>3, <3>2 DEF AskShopify
      <4>2. Faithful([call EXCEPT !.at = "lookup"])
        BY <1>1 DEF Faithful, Told, Writes, Quiet, CallRecords
      <4>3. \A h : Keeps([call EXCEPT !.at = "lookup"], h)
        BY <1>1 DEF Keeps, CallRecords
      <4> QED
        BY <4>1, <4>2, <4>3, NewIsFaithful
    <3> QED
      BY <3>1, <3>2
  <2>4. CASE Lookup(r)
    <3> DEFINE local == row[call.gid]
               clear == [call EXCEPT !.at = "clear"]
               terminal == [call EXCEPT !.at = "terminal", !.data = local]
    <3>1. \/ run' = [run EXCEPT ![r] = Idle]
          \/ run' = [run EXCEPT ![r] = clear]
          \/ run' = [run EXCEPT ![r] = terminal]
      BY <2>4 DEF Lookup
    <3>2. call.gid \in hidden => local.status # "ACTIVE"
      BY DEF Periods, RowsQuiet
    <3>3. /\ clear.at = "clear" /\ clear.gid = call.gid /\ clear.status = call.status
          /\ clear.data = call.data
          /\ terminal.at = "terminal" /\ terminal.gid = call.gid
          /\ terminal.status = call.status /\ terminal.data = local
      BY <1>1 DEF CallRecords
    <3>4. Faithful(clear) /\ \A h : Keeps(clear, h)
      BY <1>1, <3>3 DEF Faithful, Told, Writes, Quiet, Keeps
    <3>5. Faithful(terminal) /\ \A h : Keeps(terminal, h)
      BY <1>1, <3>2, <3>3 DEF Faithful, Told, Writes, Quiet, Keeps
    <3> QED
      BY <3>1, <3>4, <3>5, NewIsFaithful
  <2> QED
    BY <2>1, <2>2, <2>3, <2>4
<1>4. /\ \A h \in hidden : row'[h].status # "ACTIVE"
      /\ \A g \in graced' : row'[g].ends = row[g].ends /\ InPeriod(g)'
  BY <1>1, <1>2 DEF InPeriod, Periods, RowsQuiet
<1> QED
  BY <1>2, <1>3, <1>4, CallStep

LEMMA PeriodsWrites ==
  ASSUME Typed, Periods, NEW r \in Runs,
         CloseFromWebhook(r) \/ CancelPrevious(r) \/ WriteRow(r)
  PROVE  Periods'
<1> DEFINE call == run[r]
<1>1. /\ call \in CallRecords /\ row \in [Subs -> Rows] /\ call.gid \in Subs
      /\ graced \subseteq Subs /\ hidden \subseteq Subs /\ Faithful(call)
      /\ \A h \in hidden : row[h].status # "ACTIVE"
      /\ \A g \in graced : InPeriod(g) /\ Keeps(call, g)
  BY DEF Typed, TypeOK, Named, Periods, RowsQuiet, Graced, CloseFromWebhook, CancelPrevious, WriteRow
<1>2. UNCHANGED <<shopify, hidden, app>> /\ graced' \subseteq graced
  BY DEF CloseFromWebhook, CancelPrevious, WriteRow, provider
<1>3. CASE CloseFromWebhook(r)
  <2>1. /\ row'[call.gid].status = call.status
        /\ \A g \in Subs : g # call.gid => row'[g] = row[g]
    BY <1>1, <1>3 DEF CloseFromWebhook, Rows
  <2>2. \A h \in hidden : row'[h].status # "ACTIVE"
    BY <1>1, <2>1 DEF Faithful, Quiet
  <2>3. \A g \in graced' : g # call.gid
    BY <1>3 DEF CloseFromWebhook, Periods, Graced
  <2>4. \A g \in graced' : row'[g] = row[g]
    BY <1>1, <1>2, <2>1, <2>3
  <2>5. \A g \in graced' : row'[g].ends = row[g].ends /\ InPeriod(g)'
    BY <1>1, <1>2, <2>4 DEF InPeriod
  <2>6. PICK c : c = Idle
    OBVIOUS
  <2>7. Faithful(c) /\ \A h : Keeps(c, h)
    BY <2>6, NewIsFaithful
  <2>8. run' = [run EXCEPT ![r] = c]
    BY <1>3, <2>6 DEF CloseFromWebhook
  <2> QED
    BY <1>2, <2>2, <2>5, <2>7, <2>8, CallStep
<1>4. CASE CancelPrevious(r)
  <2>1. call.status = "ACTIVE" /\ call.data.status = call.status /\ call.at = "replace"
    BY <1>1, <1>4 DEF CancelPrevious, Faithful, Writes
  <2>2. graced' = {}
    BY <1>1, <1>4, <2>1 DEF CancelPrevious, IsLate, Periods, Graced, Live
  <2>3. \A h \in hidden : row'[h].status # "ACTIVE"
    <3>1. row' = row \/ \E g \in Subs : row' = [row EXCEPT ![g].status = "CANCELLED"]
      BY <1>4 DEF CancelPrevious
    <3> QED
      BY <1>1, <3>1 DEF Rows
  <2>4. PICK c : c = [call EXCEPT !.at = "upsert"]
    OBVIOUS
  <2>5. Faithful(c)
    BY <1>1, <2>1, <2>4 DEF Faithful, Told, Writes, Quiet, CallRecords
  <2>6. run' = [run EXCEPT ![r] = c]
    BY <1>4, <2>4 DEF CancelPrevious
  <2> QED
    BY <1>2, <2>2, <2>3, <2>5, <2>6, CallStep
<1>5. CASE WriteRow(r)
  <2>1. /\ call.at = "upsert" /\ call.data.status = call.status
        /\ row' = [row EXCEPT ![call.gid] = call.data]
    BY <1>1, <1>5 DEF WriteRow, Faithful, Writes
  <2>2. \A h \in hidden : row'[h].status # "ACTIVE"
    BY <1>1, <2>1 DEF Faithful, Quiet
  <2>3. ASSUME NEW g \in graced'
        PROVE  /\ row'[g].ends = row[g].ends /\ InPeriod(g)'
               /\ call.gid = g => (row[g].ends = "future" => call.data.nonRenewing)
    <3>1. g \in graced /\ shopify[g] = "CANCELLED" /\ call.status = shopify[call.gid]
      BY <1>2, <1>5 DEF WriteRow, IsLate, Periods, Graced
    <3>2. CASE g # call.gid
      BY <1>1, <2>1, <3>1, <3>2 DEF InPeriod
    <3>3. CASE g = call.gid
      <4>1. row'[g] = call.data /\ call.data.status = "CANCELLED"
        BY <1>1, <2>1, <3>1, <3>3
      <4>2. call.data.ends = row[g].ends /\ (row[g].ends = "future" => call.data.nonRenewing)
        BY <1>1, <2>1, <3>1, <3>3 DEF Keeps
      <4> QED
        BY <3>3, <4>1, <4>2 DEF InPeriod
    <3> QED
      BY <3>2, <3>3
  <2>4. PICK c : c = [call EXCEPT !.at = "pointer",
                         !.data = [NoRow EXCEPT !.nonRenewing = call.data.nonRenewing]]
    OBVIOUS
  <2>5. /\ c.at = "pointer" /\ c.gid = call.gid /\ c.status = call.status
        /\ c.data.nonRenewing = call.data.nonRenewing /\ c.data.status = "none"
    BY <1>1, <2>4 DEF CallRecords, NoRow
  <2>6. Faithful(c)
    BY <1>1, <2>5 DEF Faithful, Told, Writes, Quiet
  <2>7. \A g \in graced' : Keeps(c, g)
    BY <2>3, <2>5 DEF Keeps
  <2>8. run' = [run EXCEPT ![r] = c]
    BY <1>5, <2>4 DEF WriteRow
  <2> QED
    BY <1>2, <2>2, <2>3, <2>6, <2>7, <2>8, CallStep
<1> QED
  BY <1>3, <1>4, <1>5

LEMMA PeriodsNext == Typed /\ AllApproved /\ Periods /\ [Next]_vars => Periods'
<1> SUFFICES ASSUME Typed, AllApproved, Periods, [Next]_vars PROVE Periods'
  OBVIOUS
<1>1. CASE UNCHANGED vars
  BY <1>1 DEF vars, Periods, OneLive, Live, RowsQuiet, Faithful, Told, Writes, Quiet,
              Graced, InPeriod, Keeps
<1>2. ASSUME NEW r \in Runs, Reconcile(r) \/ BreakOff(r) PROVE Periods'
  BY <1>2, PeriodsReads, PeriodsQuietSteps, PeriodsWrites DEF Reconcile
<1>3. ASSUME ReadEntitlement \/ SearchRefreshes PROVE Periods'
  <2>1. Storefront \in Runs
    BY DEF Runs
  <2> QED
    BY <1>3, <2>1, PeriodsReads
<1>4. ASSUME NEW r \in Callers, NEW g \in Subs,
             Webhook(r, g) \/ Poll(r, g) \/ CreateSubscription(r, g)
      PROVE  Periods'
  BY <1>4, PeriodsStarts
<1>5. ASSUME NEW g \in Subs,
             \/ Approve(g) \/ Decline(g) \/ Freeze(g) \/ Unfreeze(g)
             \/ CancelSubscription(g) \/ BecomeVisible(g) \/ PeriodEnds(g)
      PROVE  Periods'
  BY <1>5, PeriodsWorld, PeriodsTime
<1> QED
  BY <1>1, <1>2, <1>3, <1>4, <1>5, PeriodsOpen, PeriodsUninstall, PeriodsSessions DEF Next

\* A step that moves the pointer away from a graced subscription in its period
\* would have to act on an answer that is late, or know the period as over.
LEMMA GracedStays ==
  ASSUME Typed, Periods, [Next]_vars, NEW g \in graced \cap graced',
         shop.current = g, row[g].ends = "future"
  PROVE  shop'.current = g
<1>1. /\ g \in Subs /\ Graced(g) /\ shop \in Shops /\ row \in [Subs -> Rows]
      /\ ~IsOver(row, g) /\ g # None
  BY SubsAreOrdered DEF Typed, TypeOK, Periods, Shops, IsOver
<1>2. ASSUME NEW e, e = Ensured(row, shop), shop' = e.shop PROVE shop'.current = g
  BY <1>1, <1>2 DEF Ensured
<1>3. CASE ReadEntitlement \/ SearchRefreshes
  BY <1>2, <1>3 DEF ReadEntitlement, SearchRefreshes
<1>4. ASSUME NEW r \in Runs, ReadRow(r) PROVE shop'.current = g
  BY <1>2, <1>4 DEF ReadRow
<1>5. ASSUME NEW r \in Runs, ClearMissing(r) PROVE shop'.current = g
  BY <1>1, <1>5 DEF ClearMissing, Graced
<1>6. ASSUME NEW r \in Runs, MovePointer(r) PROVE shop'.current = g
  <2> DEFINE s == PointersAfter(shop, run[r])
             e == Ensured(row, s)
  <2>1. /\ run[r].gid \in Subs /\ run[r] \in CallRecords /\ shop' = e.shop
        /\ run[r].status = shopify[run[r].gid] /\ run[r].at = "pointer"
    BY <1>6 DEF MovePointer, IsLate, Typed, TypeOK, Named
  <2>2. run[r].status # "ACTIVE"
    BY <1>1, <2>1 DEF Graced, Live
  <2>3. run[r].gid = g => run[r].status = "CANCELLED" /\ run[r].data.nonRenewing
    BY <1>1, <2>1 DEF Graced, Keeps
  <2>4. s.current = g
    <3>1. CASE run[r].gid = g
      BY <1>1, <2>3, <3>1 DEF PointersAfter, Terminal, Shops
    <3>2. CASE run[r].gid # g
      BY <1>1, <2>2, <3>2 DEF PointersAfter, Shops, Terminal
    <3> QED
      BY <3>1, <3>2
  <2>5. e.shop = s
    BY <1>1, <2>4 DEF Ensured
  <2> QED
    BY <2>1, <2>4, <2>5
<1>7. ASSUME NEW r \in Runs,
             \/ NotePending(r) \/ AskShopify(r) \/ Lookup(r) \/ CloseFromWebhook(r)
             \/ CancelPrevious(r) \/ WriteRow(r) \/ BreakOff(r)
      PROVE  shop'.current = g
  BY <1>1, <1>7 DEF NotePending, AskShopify, Lookup, CloseFromWebhook, CancelPrevious,
                    WriteRow, BreakOff, Shops
<1>8. CASE \/ Uninstall \/ UninstallWebhook \/ DeleteSessions \/ \E r \in Callers : OpenApp(r)
  BY <1>1, <1>8 DEF Uninstall, UninstallWebhook, DeleteSessions, OpenApp, Shops
<1>9. ASSUME NEW r \in Callers, NEW h \in Subs,
             Webhook(r, h) \/ Poll(r, h) \/ CreateSubscription(r, h)
      PROVE  shop'.current = g
  BY <1>9 DEF Webhook, Poll, CreateSubscription
<1>10. ASSUME NEW h \in Subs,
              \/ Approve(h) \/ Decline(h) \/ Freeze(h) \/ Unfreeze(h)
              \/ CancelSubscription(h) \/ BecomeVisible(h) \/ PeriodEnds(h)
       PROVE  shop'.current = g
  BY <1>10 DEF Approve, Decline, Freeze, Unfreeze, CancelSubscription, BecomeVisible, PeriodEnds
<1>11. CASE UNCHANGED vars
  BY <1>11 DEF vars
<1> QED
  BY <1>3, <1>4, <1>5, <1>6, <1>7, <1>8, <1>9, <1>10, <1>11 DEF Next, Reconcile

\* A subscription cancelled while it was current stays current until its period
\* is over, however many calls reconcile it, in any order.
THEOREM PaidPeriodStays == Spec => PaidPeriodKept
<1> DEFINE Inv == Typed /\ AllApproved /\ Periods
           Stays == \A g \in graced \cap graced' :
                      shop.current = g /\ row[g].ends = "future" => shop'.current = g
<1>1. Inv /\ [Next]_vars => Inv'
  BY TypedNext, ApprovedNext, PeriodsNext
<1>2. Init => Inv
  BY TypedInit, ApprovedInit, PeriodsInit
<1>3. Inv /\ [Next]_vars => [Stays]_vars
  BY GracedStays
<1> QED
  BY <1>1, <1>2, <1>3, PTL DEF Spec, PaidPeriodKept
===============================================================================
