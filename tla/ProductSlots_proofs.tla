-------------------------- MODULE ProductSlots_proofs --------------------------
(***************************************************************************)
(* Proofs about ProductSlots, for any products, workers and plans: its     *)
(* types, that a policy job's product keeps its slot, and that what is     *)
(* searchable is backed by a vector in both stores.                        *)
(***************************************************************************)
EXTENDS ProductSlots, FiniteSetTheorems, TLAPS

Deleting == {"hide", "dropVector", "dropRow"}

\* A row, the point of its product in Qdrant, and whether Shopify deleted the
\* product: only a deletion that has unpublished the row may drop the point first.
RowOk(r, point, deleted) ==
  /\ r.status = "NONE" => r = NoRow
  /\ r.searchable => r.hasVector /\ r.blocked = "NULL"
  /\ r.hasVector /\ ~point => deleted /\ r.blocked = "UNPUBLISHED"

\* A run of that product.  What it remembers of the point still holds, since it
\* is the product's only run; a policy run holds the lease, and so its slot.
RunOk(c, r, point, deleted, holds) ==
  /\ c.kind = "policy" => holds /\ ~c.reserved /\ UsesSlot(r) /\ c.pc \notin Deleting
  /\ deleted => c.pc \in {"read", "unpublish"} \cup Deleting
  /\ c.pc \in Deleting => deleted /\ ~c.indexed /\ ~c.adopt
  /\ c.pc \in {"dropVector", "dropRow"} => r = NoRow \/ r.blocked = "UNPUBLISHED"
  /\ c.indexed \/ c.adopt \/ c.pc \in {"stage", "publish"} => point

RowFits(r, point, p) == RowOk(r, point, p \in gone)
RunFits(c, r, point, p, w) == RunOk(c, r, point, p \in gone, lease = w)
Alone == \A v, w \in Workers : Busy(v) /\ Busy(w) /\ run[v].p = run[w].p => v = w
RowsOk == \A p \in Products : RowOk(row[p], vec[p], p \in gone)
RunsOk == \A w \in Workers :
            /\ Busy(w) => /\ run[w].p \in Products
                          /\ RunOk(run[w], row[run[w].p], vec[run[w].p],
                                   run[w].p \in gone, lease = w)
            /\ ~Busy(w) => run[w] = IdleRun
SlotInv == TypeOK /\ Alone /\ RowsOk /\ RunsOk
-------------------------------------------------------------------------------
LEMMA RecordTypes == NoRow \in Rows /\ IdleRun \in Runs /\ IdleRun.pc = "idle" /\ IdleRun.kind = "none"
BY PlansTyped DEF NoRow, Rows, Statuses, BlockedReasons, VectorStatuses, IdleRun, Runs, Steps, Kinds

LEMMA NoRowOk == \A point, deleted : RowOk(NoRow, point, deleted)
BY DEF RowOk, NoRow

\* Every way to write a row, of a product that is not being deleted, keeps it
\* consistent, if what is said of its vector is so.
LEMMA WritesOk ==
  ASSUME NEW r \in Rows, NEW point \in BOOLEAN, RowOk(r, point, FALSE)
  PROVE  /\ reserved(r) \in Rows /\ RowOk(reserved(r), point, FALSE)
         /\ staged(r) \in Rows /\ (point => RowOk(staged(r), point, FALSE))
         /\ upserted(r) \in Rows /\ (point => RowOk(upserted(r), point, FALSE))
         /\ \A changed \in BOOLEAN :
              ineligible(r, changed) \in Rows /\ RowOk(ineligible(r, changed), point, FALSE)
<1> USE DEF RowOk, Rows, Statuses, BlockedReasons, VectorStatuses
<1>1. reserved(r) \in Rows /\ RowOk(reserved(r), point, FALSE)
  BY DEF reserved
<1>2. staged(r) \in Rows /\ (point => RowOk(staged(r), point, FALSE))
  BY DEF staged
<1>3. upserted(r) \in Rows /\ (point => RowOk(upserted(r), point, FALSE))
  BY DEF upserted
<1>4. ASSUME NEW changed \in BOOLEAN
      PROVE  ineligible(r, changed) \in Rows /\ RowOk(ineligible(r, changed), point, FALSE)
  <2>1. VectorStatusOf(r, changed) \in VectorStatuses
    BY DEF VectorStatusOf
  <2> QED
    BY <2>1 DEF ineligible, Present
<1> QED
  BY <1>1, <1>2, <1>3, <1>4

LEMMA MarkedOk ==
  ASSUME NEW r \in Rows, NEW point \in BOOLEAN, RowOk(r, point, FALSE),
         NEW reason \in {"PRODUCT_LIMIT", "SUBSCRIPTION_INACTIVE", "VECTOR_UPDATE_LIMIT"},
         NEW has \in BOOLEAN, has => point, NEW changed \in BOOLEAN
  PROVE  /\ marked(r, reason, has, changed) \in Rows
         /\ RowOk(marked(r, reason, has, changed), point, FALSE)
<1> DEFINE m == marked(r, reason, has, changed)
<1>1. m.status \in Statuses \ {"NONE"} /\ m.blocked \in BlockedReasons
  BY DEF marked, Statuses, BlockedReasons
<1>2. m.vstatus \in VectorStatuses
  BY DEF marked, Rows, VectorStatuses
<1>3. /\ m.hasVector \in BOOLEAN /\ m.searchable \in BOOLEAN
      /\ m.searchable => m.hasVector /\ m.blocked = "NULL"
      /\ m.hasVector => r.hasVector \/ has
  BY DEF marked, Rows
<1>4. m = [status |-> m.status, hasVector |-> m.hasVector, searchable |-> m.searchable,
           blocked |-> m.blocked, vstatus |-> m.vstatus]
  BY DEF marked
<1>5. m \in Rows
  BY <1>1, <1>2, <1>3, <1>4 DEF Rows
<1> QED
  BY <1>1, <1>3, <1>5 DEF RowOk

\* Unpublishing is right for a deleted product too.
LEMMA UnpublishedOk ==
  ASSUME NEW r \in Rows, NEW point \in BOOLEAN, NEW deleted \in BOOLEAN, RowOk(r, point, deleted)
  PROVE  /\ unpublished(r) \in Rows /\ RowOk(unpublished(r), point, deleted)
         /\ unpublished(r) = NoRow \/ unpublished(r).blocked = "UNPUBLISHED"
BY DEF unpublished, Present, RowOk, Rows, Statuses, BlockedReasons

\* So is the decision of the reconciliation, which keeps what is unpublished and
\* every slot that it chose.
LEMMA DecidedOk ==
  ASSUME NEW r \in Rows, NEW point \in BOOLEAN, NEW deleted \in BOOLEAN, RowOk(r, point, deleted),
         NEW chosen \in BOOLEAN
  PROVE  /\ Decided(r, chosen) \in Rows /\ RowOk(Decided(r, chosen), point, deleted)
         /\ r = NoRow \/ r.blocked = "UNPUBLISHED"
              => Decided(r, chosen) = NoRow \/ Decided(r, chosen).blocked = "UNPUBLISHED"
<1> USE DEF Present, RowOk, Rows, Statuses, BlockedReasons, NoRow
<1>1. CASE ~Present(r)
  <2>1. Decided(r, chosen) = r
    BY <1>1 DEF Decided
  <2> QED
    BY <1>1, <2>1
<1>2. CASE Present(r) /\ r.blocked = "UNPUBLISHED"
  <2>1. Decided(r, chosen) = [r EXCEPT !.searchable = FALSE, !.status = "UNPUBLISHED"]
    BY <1>2 DEF Decided
  <2> QED
    BY <1>2, <2>1
<1>3. CASE Present(r) /\ r.blocked # "UNPUBLISHED" /\ chosen
  <2>1. PICK status \in {"INDEXED", "WAITING"} :
          Decided(r, chosen) = [r EXCEPT !.searchable = r.hasVector, !.blocked = "NULL",
                                         !.status = status]
    BY <1>3 DEF Decided
  <2>2. PICK d : d = Decided(r, chosen)
    OBVIOUS
  <2>3. /\ d.searchable = r.hasVector /\ d.blocked = "NULL" /\ d.status = status
        /\ d.hasVector = r.hasVector /\ d \in Rows
    BY <2>1, <2>2
  <2>4. RowOk(d, point, deleted)
    BY <1>3, <2>3
  <2>5. r # NoRow /\ r.blocked # "UNPUBLISHED"
    BY <1>3
  <2> HIDE DEF RowOk, NoRow, Rows, Present
  <2> QED
    BY <2>2, <2>3, <2>4, <2>5
<1>4. CASE Present(r) /\ r.blocked # "UNPUBLISHED" /\ ~chosen
  <2>1. PICK status \in {"PRODUCT_LIMIT_BLOCKED", "SUBSCRIPTION_BLOCKED"},
             blocked \in {"PRODUCT_LIMIT", "SUBSCRIPTION"} :
          Decided(r, chosen) = [r EXCEPT !.searchable = FALSE, !.blocked = blocked,
                                         !.status = status]
    BY <1>4 DEF Decided
  <2>2. PICK d : d = Decided(r, chosen)
    OBVIOUS
  <2>3. /\ ~d.searchable /\ d.blocked = blocked /\ d.status = status
        /\ d.hasVector = r.hasVector /\ d \in Rows
    BY <2>1, <2>2
  <2>4. RowOk(d, point, deleted)
    BY <1>4, <2>3
  <2>5. r # NoRow /\ r.blocked # "UNPUBLISHED"
    BY <1>4
  <2> HIDE DEF RowOk, NoRow, Rows, Present
  <2> QED
    BY <2>2, <2>3, <2>4, <2>5
<1> QED
  BY <1>1, <1>2, <1>3, <1>4
-------------------------------------------------------------------------------
LEMMA SlotInit == Init => SlotInv
<1> SUFFICES ASSUME Init PROVE SlotInv
  OBVIOUS
<1>1. TypeOK
  BY RecordTypes, PlansTyped, ProductsFinite DEF Init, TypeOK
<1>2. Alone /\ RunsOk
  BY RecordTypes DEF Init, Alone, RunsOk, Busy
<1>3. RowsOk
  BY NoRowOk DEF Init, RowsOk
<1> QED
  BY <1>1, <1>2, <1>3 DEF SlotInv

\* What a step of one run may do: it writes its product's row and point, goes on
\* or ends.  The runs of other products do not notice.
LEMMA RunFrame ==
  ASSUME SlotInv, NEW w \in Workers, Busy(w),
         NEW c \in Runs, NEW r \in Rows, NEW point \in BOOLEAN, NEW p, p = run[w].p,
         row' = [row EXCEPT ![p] = r], vec' = [vec EXCEPT ![p] = point],
         run' = [run EXCEPT ![w] = c], UNCHANGED <<plan, recPlan, changes>>,
         queued' \subseteq Products,
         RowOk(r, point, p \in gone'),
         \/ /\ c.pc # "idle" /\ c.p = p /\ UNCHANGED <<gone, lease>>
            /\ RunOk(c, r, point, p \in gone, lease = w)
         \/ /\ c = IdleRun /\ gone' \in {gone, gone \ {p}}
            /\ lease' = IF lease = w THEN Nobody ELSE lease
  PROVE  SlotInv'
<1> USE DEF SlotInv, Busy
<1>1. /\ p \in Products /\ row \in [Products -> Rows] /\ vec \in [Products -> BOOLEAN]
      /\ run \in [Workers -> Runs] /\ gone' \subseteq gone
  BY DEF RunsOk, TypeOK
<1>2. TypeOK'
  BY <1>1 DEF TypeOK
<1>3. /\ run'[w] = c /\ \A v \in Workers : v # w => run'[v] = run[v]
      /\ row'[p] = r /\ vec'[p] = point
      /\ \A q \in Products : q # p => /\ row'[q] = row[q] /\ vec'[q] = vec[q]
                                      /\ (q \in gone' <=> q \in gone)
  BY <1>1
<1>4. \A v \in Workers : v # w /\ Busy(v) => run[v].p # p /\ run[v].p \in Products
  BY DEF Alone, RunsOk
<1>5. Alone'
  BY <1>3, <1>4, RecordTypes DEF Alone
<1>6. RowsOk'
  BY <1>3 DEF RowsOk
<1>7. ASSUME NEW v \in Workers, v # w
      PROVE  /\ Busy(v)' => /\ run'[v].p \in Products
                            /\ RunOk(run'[v], row'[run'[v].p], vec'[run'[v].p],
                                     run'[v].p \in gone', lease' = v)
             /\ ~Busy(v)' => run'[v] = IdleRun
  <2>1. CASE Busy(v)
    <3>1. /\ run'[v] = run[v] /\ run[v].p \in Products /\ row'[run[v].p] = row[run[v].p]
          /\ vec'[run[v].p] = vec[run[v].p] /\ (run[v].p \in gone' <=> run[v].p \in gone)
      BY <1>3, <1>4, <1>7, <2>1
    <3>2. lease = v => lease' = v
      BY <1>7
    <3>3. RunOk(run[v], row[run[v].p], vec[run[v].p], run[v].p \in gone, lease = v)
      BY <1>7, <2>1 DEF RunsOk
    <3>4. RunOk(run[v], row[run[v].p], vec[run[v].p], run[v].p \in gone', lease' = v)
      BY <3>1, <3>2, <3>3 DEF RunOk
    <3> QED
      BY <2>1, <3>1, <3>4
  <2>2. CASE ~Busy(v)
    BY <1>3, <1>7, <2>2 DEF RunsOk
  <2> QED
    BY <2>1, <2>2
<1>8. CASE c = IdleRun
  <2>1. ~Busy(w)' /\ run'[w] = IdleRun
    BY <1>3, <1>8, RecordTypes
  <2> QED
    BY <1>2, <1>5, <1>6, <1>7, <2>1 DEF RunsOk
<1>9. CASE /\ c.pc # "idle" /\ c.p = p /\ UNCHANGED <<gone, lease>>
           /\ RunOk(c, r, point, p \in gone, lease = w)
  <2>1. RunOk(run'[w], row'[p], vec'[p], p \in gone', lease' = w) /\ run'[w].p = p
    BY <1>3, <1>9
  <2> QED
    BY <1>1, <1>2, <1>5, <1>6, <1>7, <1>9, <2>1, <1>3 DEF RunsOk
<1> QED
  BY <1>8, <1>9

\* What a run at work may rely on.
LEMMA RunFacts ==
  ASSUME SlotInv, NEW w \in Workers, Busy(w), NEW p, p = run[w].p
  PROVE  /\ p \in Products /\ row[p] \in Rows /\ Row(w) = row[p] /\ vec[p] \in BOOLEAN
         /\ run[w] \in Runs /\ run[w].pc # "idle"
         /\ RowOk(row[p], vec[p], p \in gone)
         /\ RunOk(run[w], row[p], vec[p], p \in gone, lease = w)
         /\ run[w].pc \notin {"read", "unpublish"} \cup Deleting => p \notin gone
         /\ row = [row EXCEPT ![p] = row[p]] /\ vec = [vec EXCEPT ![p] = vec[p]]
BY DEF SlotInv, TypeOK, RowsOk, RunsOk, Busy, Row, RunOk

\* A run that ends leaves a consistent row.
LEMMA RunEnds ==
  ASSUME SlotInv, NEW w \in Workers, Busy(w), NEW again \in BOOLEAN, Finish(w, again),
         NEW p, p = run[w].p, NEW r \in Rows, row' = [row EXCEPT ![p] = r],
         UNCHANGED <<vec, plan, recPlan, changes>>, gone' \in {gone, gone \ {p}},
         RowOk(r, vec[p], p \in gone')
  PROVE  SlotInv'
<1>1. /\ vec' = [vec EXCEPT ![p] = vec[p]] /\ vec[p] \in BOOLEAN
  BY RunFacts
<1>2. /\ run' = [run EXCEPT ![w] = IdleRun] /\ queued' \subseteq Products
      /\ lease' = IF lease = w THEN Nobody ELSE lease
  BY DEF Finish, SlotInv, TypeOK
<1>3. PICK point \in BOOLEAN : point = vec[p]
  BY <1>1
<1>4. PICK c \in Runs : c = IdleRun
  BY RecordTypes
<1> QED
  BY <1>1, <1>2, <1>3, <1>4, RunFrame DEF RowOk

\* The steps that write a row of a product on sale and end the run.
LEMMA LastSteps ==
  ASSUME SlotInv, NEW w \in Workers,
         \/ StayBlocked(w) \/ BlockInactive(w) \/ BlockRefused(w) \/ Adopt(w)
         \/ KeepCached(w) \/ BlockQuota(w) \/ EmbedFails(w) \/ Publish(w) \/ PublishFails(w)
  PROVE  SlotInv'
<1> DEFINE p == run[w].p
<1>1. /\ Busy(w) /\ p \notin gone /\ UNCHANGED <<vec, plan, recPlan, changes, gone>>
      /\ p \in Products /\ row[p] \in Rows /\ vec[p] \in BOOLEAN /\ Row(w) = row[p]
      /\ RowOk(row[p], vec[p], FALSE) /\ (run[w].indexed => vec[p]) /\ (run[w].adopt => vec[p])
      /\ run[w].pc = "publish" => vec[p]
      /\ run[w] \in Runs /\ row = [row EXCEPT ![p] = row[p]]
  <2>1. /\ Busy(w) /\ UNCHANGED <<vec, plan, recPlan, changes, gone>>
        /\ run[w].pc \notin {"read", "unpublish"} \cup Deleting
    BY DEF StayBlocked, BlockInactive, BlockRefused, Adopt, KeepCached, BlockQuota, EmbedFails,
           Publish, PublishFails, Busy, Stays, Deleting
  <2>2. /\ p \in Products /\ row[p] \in Rows /\ vec[p] \in BOOLEAN /\ Row(w) = row[p]
        /\ run[w] \in Runs /\ p \notin gone /\ RowOk(row[p], vec[p], p \in gone)
        /\ RunOk(run[w], row[p], vec[p], p \in gone, lease = w)
        /\ row = [row EXCEPT ![p] = row[p]]
    BY <2>1, RunFacts
  <2>3. RowOk(row[p], vec[p], FALSE)
    BY <2>2 DEF RowOk
  <2>4. /\ (run[w].indexed => vec[p]) /\ (run[w].adopt => vec[p])
        /\ run[w].pc = "publish" => vec[p]
    BY <2>2 DEF RunOk
  <2> QED
    BY <2>1, <2>2, <2>3, <2>4
<1>2. run[w].indexed \in BOOLEAN /\ run[w].adopt \in BOOLEAN
  BY <1>1 DEF Runs
<1>3. PICK r \in Rows, again \in BOOLEAN :
        row' = [row EXCEPT ![p] = r] /\ RowOk(r, vec[p], FALSE) /\ Finish(w, again)
  <2>1. CASE StayBlocked(w)
    BY <1>1, <2>1, WritesOk DEF StayBlocked, SetRow
  <2>2. CASE BlockInactive(w)
    <3>1. PICK changed \in BOOLEAN :
            row' = [row EXCEPT ![p] = marked(row[p], "SUBSCRIPTION_INACTIVE", run[w].indexed, changed)]
      BY <1>1, <2>2 DEF BlockInactive, SetRow
    <3>2. PICK has \in BOOLEAN : has = run[w].indexed /\ (has => vec[p])
      BY <1>1, <1>2
    <3>3. /\ marked(row[p], "SUBSCRIPTION_INACTIVE", has, changed) \in Rows
          /\ RowOk(marked(row[p], "SUBSCRIPTION_INACTIVE", has, changed), vec[p], FALSE)
      BY <1>1, <3>2, MarkedOk
    <3> QED
      BY <2>2, <3>1, <3>2, <3>3 DEF BlockInactive
  <2>3. CASE BlockRefused(w)
    <3>1. PICK changed \in BOOLEAN :
            row' = [row EXCEPT ![p] = marked(row[p], "PRODUCT_LIMIT", run[w].adopt, changed)]
      BY <1>1, <2>3 DEF BlockRefused, SetRow
    <3>2. PICK has \in BOOLEAN : has = run[w].adopt /\ (has => vec[p])
      BY <1>1, <1>2
    <3>3. /\ marked(row[p], "PRODUCT_LIMIT", has, changed) \in Rows
          /\ RowOk(marked(row[p], "PRODUCT_LIMIT", has, changed), vec[p], FALSE)
      BY <1>1, <3>2, MarkedOk
    <3> QED
      BY <2>3, <3>1, <3>2, <3>3 DEF BlockRefused
  <2>4. CASE Adopt(w)
    BY <1>1, <2>4, WritesOk DEF Adopt, SetRow
  <2>5. CASE KeepCached(w)
    <3>1. row' = [row EXCEPT ![p] = marked(row[p], "VECTOR_UPDATE_LIMIT", TRUE, TRUE)] /\ vec[p]
      BY <1>1, <2>5 DEF KeepCached, SetRow
    <3> QED
      BY <1>1, <2>5, <3>1, MarkedOk DEF KeepCached
  <2>6. CASE BlockQuota(w)
    <3>1. row' = [row EXCEPT ![p] = marked(row[p], "VECTOR_UPDATE_LIMIT", run[w].indexed, TRUE)]
      BY <1>1, <2>6 DEF BlockQuota, SetRow
    <3>2. PICK has \in BOOLEAN : has = run[w].indexed /\ (has => vec[p])
      BY <1>1, <1>2
    <3>3. /\ marked(row[p], "VECTOR_UPDATE_LIMIT", has, TRUE) \in Rows
          /\ RowOk(marked(row[p], "VECTOR_UPDATE_LIMIT", has, TRUE), vec[p], FALSE)
      BY <1>1, <3>2, MarkedOk
    <3> QED
      BY <2>6, <3>1, <3>2, <3>3 DEF BlockQuota
  <2>7. CASE EmbedFails(w)
    <3>1. row' = [row EXCEPT ![p] = NoRow] \/ row' = [row EXCEPT ![p] = row[p]]
      BY <1>1, <2>7 DEF EmbedFails, Released, SetRow
    <3> QED
      BY <1>1, <2>7, <3>1, NoRowOk, RecordTypes DEF EmbedFails
  <2>8. CASE Publish(w)
    BY <1>1, <2>8, WritesOk DEF Publish, SetRow
  <2>9. CASE PublishFails(w)
    BY <1>1, <2>9, WritesOk DEF PublishFails, SetRow
  <2> QED
    BY <2>1, <2>2, <2>3, <2>4, <2>5, <2>6, <2>7, <2>8, <2>9
<1>4. RowOk(r, vec[p], p \in gone')
  BY <1>1, <1>3 DEF RowOk
<1> QED
  BY <1>1, <1>3, <1>4, RunEnds

\* The other ways to end.
LEMMA OtherEnds ==
  ASSUME SlotInv, NEW w \in Workers, Unpublish(w) \/ DropRow(w) \/ Crash(w)
  PROVE  SlotInv'
<1> DEFINE p == run[w].p
<1>1. Busy(w)
  BY DEF Unpublish, DropRow, Crash, Busy
<1>2. /\ p \in Products /\ row[p] \in Rows /\ vec[p] \in BOOLEAN /\ Row(w) = row[p]
      /\ RowOk(row[p], vec[p], p \in gone) /\ row = [row EXCEPT ![p] = row[p]]
  BY <1>1, RunFacts
<1>3. CASE Unpublish(w)
  <2>1. unpublished(row[p]) \in Rows /\ RowOk(unpublished(row[p]), vec[p], p \in gone)
    <3>1. CASE p \in gone
      <4>1. RowOk(row[p], vec[p], TRUE)
        BY <1>2, <3>1 DEF RowOk
      <4>2. unpublished(row[p]) \in Rows /\ RowOk(unpublished(row[p]), vec[p], TRUE)
        BY <1>2, <4>1, UnpublishedOk
      <4> QED
        BY <3>1, <4>2 DEF RowOk
    <3>2. CASE p \notin gone
      <4>1. RowOk(row[p], vec[p], FALSE)
        BY <1>2, <3>2 DEF RowOk
      <4>2. unpublished(row[p]) \in Rows /\ RowOk(unpublished(row[p]), vec[p], FALSE)
        BY <1>2, <4>1, UnpublishedOk
      <4> QED
        BY <3>2, <4>2 DEF RowOk
    <3> QED
      BY <3>1, <3>2
  <2>2. row' = [row EXCEPT ![p] = unpublished(row[p])] /\ Finish(w, FALSE)
        /\ UNCHANGED <<vec, plan, recPlan, changes, gone>>
    BY <1>2, <1>3 DEF Unpublish, SetRow, Stays
  <2>3. RowOk(unpublished(row[p]), vec[p], p \in gone')
    BY <2>1, <2>2
  <2> QED
    BY <1>1, <2>1, <2>2, <2>3, RunEnds
<1>4. CASE DropRow(w)
  <2>1. row' = [row EXCEPT ![p] = NoRow] /\ Finish(w, FALSE)
        /\ UNCHANGED <<vec, plan, recPlan, changes>> /\ gone' \in {gone, gone \ {p}}
    BY <1>4 DEF DropRow, SetRow
  <2> QED
    BY <1>1, <2>1, NoRowOk, RecordTypes, RunEnds
<1>5. CASE Crash(w)
  <2>1. row' = [row EXCEPT ![p] = row[p]] /\ Finish(w, TRUE)
        /\ UNCHANGED <<vec, plan, recPlan, changes, gone>>
    BY <1>2, <1>5 DEF Crash, Stays
  <2>2. RowOk(row[p], vec[p], p \in gone')
    BY <1>2, <2>1
  <2> QED
    BY <1>1, <1>2, <2>1, <2>2, RunEnds
<1> QED
  BY <1>3, <1>4, <1>5

\* A run that goes on.
LEMMA RunGoes ==
  ASSUME SlotInv, NEW w \in Workers, Busy(w), NEW p, p = run[w].p,
         NEW c \in Runs, c.pc # "idle", c.p = p, NEW r \in Rows, NEW point \in BOOLEAN,
         row' = [row EXCEPT ![p] = r], vec' = [vec EXCEPT ![p] = point],
         run' = [run EXCEPT ![w] = c],
         UNCHANGED <<plan, recPlan, changes, gone, lease, queued>>,
         RowFits(r, point, p), RunFits(c, r, point, p, w)
  PROVE  SlotInv'
<1>1. queued' \subseteq Products
  BY DEF SlotInv, TypeOK
<1> QED
  BY <1>1, RunFrame DEF RowOk, RunOk, RowFits, RunFits

\* ... and leaves the point alone.
LEMMA RunGoesOn ==
  ASSUME SlotInv, NEW w \in Workers, Busy(w), NEW p, p = run[w].p,
         NEW c \in Runs, c.pc # "idle", c.p = p, NEW r \in Rows,
         row' = [row EXCEPT ![p] = r], run' = [run EXCEPT ![w] = c],
         UNCHANGED <<vec, plan, recPlan, changes, gone, lease, queued>>,
         RowFits(r, vec[p], p), RunFits(c, r, vec[p], p, w)
  PROVE  SlotInv'
<1>1. vec' = [vec EXCEPT ![p] = vec[p]] /\ vec[p] \in BOOLEAN
  BY RunFacts
<1>2. PICK point \in BOOLEAN : point = vec[p]
  BY <1>1
<1>3. RowFits(r, point, p) /\ RunFits(c, r, point, p, w)
  BY <1>2
<1>4. vec' = [vec EXCEPT ![p] = point]
  BY <1>1, <1>2
<1>5. UNCHANGED <<plan, recPlan, changes, gone, lease, queued>>
        /\ queued' \subseteq Products
  BY DEF SlotInv, TypeOK
<1> QED
  BY <1>2, <1>4, <1>5, RunFrame DEF RowOk, RunOk, RowFits, RunFits

LEMMA ReadGoes ==
  ASSUME SlotInv, NEW w \in Workers, Read(w) PROVE SlotInv'
<1> DEFINE p == run[w].p
<1>1. Busy(w) /\ run[w].pc = "read"
  BY DEF Read, Busy
<1>2. /\ p \in Products /\ row[p] \in Rows /\ vec[p] \in BOOLEAN /\ Row(w) = row[p]
      /\ run[w] \in Runs /\ RowOk(row[p], vec[p], p \in gone)
      /\ RunOk(run[w], row[p], vec[p], p \in gone, lease = w)
      /\ row = [row EXCEPT ![p] = row[p]] /\ vec = [vec EXCEPT ![p] = vec[p]]
  BY <1>1, RunFacts
<1>3. PICK found \in BOOLEAN, pc \in {"unpublish", "ineligible", "entitle"} :
        /\ found => p \notin gone
        /\ ~found <=> pc = "unpublish"
        /\ run' = [run EXCEPT ![w].pc = pc, ![w].held = found /\ Row(w).searchable,
                              ![w].indexed = found /\ (vec[p] \/ Row(w).hasVector),
                              ![w].adopt = found /\ vec[p]]
  BY DEF Read
<1>4. PICK held \in BOOLEAN, indexed \in BOOLEAN, adopt \in BOOLEAN :
        /\ held = (found /\ row[p].searchable) /\ indexed = (found /\ (vec[p] \/ row[p].hasVector))
        /\ adopt = (found /\ vec[p])
  BY <1>2 DEF Rows
<1>5. PICK c : c = [run[w] EXCEPT !.pc = pc, !.held = held, !.indexed = indexed, !.adopt = adopt]
  OBVIOUS
<1>6. /\ c \in Runs /\ c.pc = pc /\ c.p = p /\ c.kind = run[w].kind
      /\ c.reserved = run[w].reserved /\ c.indexed = indexed /\ c.adopt = adopt
  BY <1>2, <1>5 DEF Runs, Steps
<1>7. run' = [run EXCEPT ![w] = c]
  BY <1>2, <1>3, <1>4, <1>5 DEF SlotInv, TypeOK
<1>8. RunFits(c, row[p], vec[p], p, w) /\ RowFits(row[p], vec[p], p)
  BY <1>2, <1>3, <1>4, <1>6 DEF RunFits, RowFits, RunOk, RowOk, Deleting
<1>9. UNCHANGED <<vec, plan, recPlan, changes, gone, lease, queued>>
      /\ row' = [row EXCEPT ![p] = row[p]]
  BY <1>2 DEF Read, Stays
<1>10. c.pc # "idle"
  BY <1>3, <1>6
<1> QED
  BY <1>1, <1>2, <1>6, <1>7, <1>8, <1>9, <1>10, RunGoesOn

LEMMA EntitleGoes ==
  ASSUME SlotInv, NEW w \in Workers, Entitle(w) PROVE SlotInv'
<1> DEFINE p == run[w].p
<1>1. Busy(w) /\ run[w].pc = "entitle"
  BY DEF Entitle, Busy
<1>2. /\ p \in Products /\ row[p] \in Rows /\ vec[p] \in BOOLEAN /\ Row(w) = row[p]
      /\ run[w] \in Runs /\ RowOk(row[p], vec[p], p \in gone)
      /\ RunOk(run[w], row[p], vec[p], p \in gone, lease = w)
      /\ row = [row EXCEPT ![p] = row[p]] /\ vec = [vec EXCEPT ![p] = vec[p]]
  BY <1>1, RunFacts
<1>3. PICK adopt \in {FALSE, run[w].adopt} :
        run' = [run EXCEPT ![w].adopt = adopt, ![w].held = FALSE,
                  ![w].plan = IF plan.active /\ ~run[w].held THEN plan ELSE run[w].plan,
                  ![w].pc = CASE ~plan.active -> "inactive"
                              [] plan.active /\ ~run[w].held -> "reserve"
                              [] OTHER -> "write"]
  BY DEF Entitle
<1>10. PICK limits \in Plans :
         limits = IF plan.active /\ ~run[w].held THEN plan ELSE run[w].plan
  BY <1>2 DEF SlotInv, TypeOK, Runs
<1>11. PICK pc \in {"inactive", "reserve", "write"} :
         pc = CASE ~plan.active -> "inactive"
                [] plan.active /\ ~run[w].held -> "reserve"
                [] OTHER -> "write"
  OBVIOUS
<1>4. PICK c : c = [run[w] EXCEPT !.adopt = adopt, !.held = FALSE, !.plan = limits, !.pc = pc]
  OBVIOUS
<1>5. /\ c \in Runs /\ c.pc = pc /\ c.p = p /\ c.kind = run[w].kind
      /\ c.reserved = run[w].reserved /\ c.indexed = run[w].indexed /\ c.adopt = adopt
  BY <1>2, <1>3, <1>10, <1>11, <1>4 DEF Runs, Steps
<1>6. run' = [run EXCEPT ![w] = c]
  BY <1>3, <1>10, <1>11, <1>4 DEF SlotInv, TypeOK
<1>7. RunFits(c, row[p], vec[p], p, w) /\ RowFits(row[p], vec[p], p)
  BY <1>1, <1>2, <1>3, <1>5 DEF RunFits, RowFits, RunOk, Deleting
<1>8. UNCHANGED <<row, vec, plan, recPlan, changes, gone, lease, queued>>
  BY DEF Entitle, Stays
<1> QED
  BY <1>1, <1>2, <1>11, <1>5, <1>6, <1>7, <1>8, RunGoesOn

\* The reservation: a row that uses a slot keeps it, and nothing is given back.
LEMMA ReserveGoes ==
  ASSUME SlotInv, NEW w \in Workers, Reserve(w) PROVE SlotInv'
<1> DEFINE p == run[w].p
<1>1. Busy(w) /\ run[w].pc = "reserve"
  BY DEF Reserve, Busy
<1>2. /\ p \in Products /\ row[p] \in Rows /\ vec[p] \in BOOLEAN /\ Row(w) = row[p]
      /\ run[w] \in Runs /\ RowOk(row[p], vec[p], p \in gone) /\ p \notin gone
      /\ RunOk(run[w], row[p], vec[p], p \in gone, lease = w)
      /\ row = [row EXCEPT ![p] = row[p]] /\ vec = [vec EXCEPT ![p] = vec[p]]
  BY <1>1, RunFacts DEF Deleting
<1>3. PICK new \in BOOLEAN, pc \in {"write", "refused"}, r \in {row[p], reserved(row[p])} :
        /\ run' = [run EXCEPT ![w].pc = pc, ![w].reserved = new, ![w].plan = FirstPlan]
        /\ row' = [row EXCEPT ![p] = r]
        /\ UsesSlot(row[p]) => ~new /\ r = row[p]
  <2>1. CASE UsesSlot(row[p])
    BY <1>2, <2>1 DEF Reserve, Granted, SetRow
  <2>2. CASE ~UsesSlot(row[p]) /\ SlotFree(run[w].plan.limit)
    BY <1>2, <2>2 DEF Reserve, Granted, SetRow
  <2>3. CASE ~UsesSlot(row[p]) /\ ~SlotFree(run[w].plan.limit)
    BY <1>2, <2>3 DEF Reserve, Granted, SetRow
  <2> QED
    BY <2>1, <2>2, <2>3
<1>4. r \in Rows /\ RowOk(r, vec[p], p \in gone)
  <2>1. RowOk(row[p], vec[p], FALSE)
    BY <1>2 DEF RowOk
  <2>2. reserved(row[p]) \in Rows /\ RowOk(reserved(row[p]), vec[p], FALSE)
    BY <1>2, <2>1, WritesOk
  <2> QED
    BY <1>2, <1>3, <2>1, <2>2 DEF RowOk
<1>5. PICK c : c = [run[w] EXCEPT !.pc = pc, !.reserved = new, !.plan = FirstPlan]
  OBVIOUS
<1>6. /\ c \in Runs /\ c.pc = pc /\ c.p = p /\ c.kind = run[w].kind
      /\ c.reserved = new /\ c.indexed = run[w].indexed /\ c.adopt = run[w].adopt
  BY <1>2, <1>5, PlansTyped DEF Runs, Steps
<1>7. run' = [run EXCEPT ![w] = c]
  BY <1>3, <1>5 DEF SlotInv, TypeOK
<1>8. RunFits(c, r, vec[p], p, w) /\ RowFits(r, vec[p], p)
  BY <1>2, <1>3, <1>4, <1>6 DEF RunFits, RowFits, RunOk, Deleting
<1>9. UNCHANGED <<vec, plan, recPlan, changes, gone, lease, queued>>
  BY DEF Reserve, Stays
<1> QED
  BY <1>1, <1>2, <1>3, <1>4, <1>6, <1>7, <1>8, <1>9, RunGoesOn

\* The reservation of usage is refused: a slot the run took is given back.
LEMMA UsageGoes ==
  ASSUME SlotInv, NEW w \in Workers, UsageRefused(w) PROVE SlotInv'
<1> DEFINE p == run[w].p
<1>1. Busy(w) /\ run[w].pc = "write"
  BY DEF UsageRefused, Busy
<1>2. /\ p \in Products /\ row[p] \in Rows /\ vec[p] \in BOOLEAN /\ Row(w) = row[p]
      /\ run[w] \in Runs /\ RowOk(row[p], vec[p], p \in gone)
      /\ RunOk(run[w], row[p], vec[p], p \in gone, lease = w)
      /\ row = [row EXCEPT ![p] = row[p]] /\ vec = [vec EXCEPT ![p] = vec[p]]
  BY <1>1, RunFacts
<1>3. PICK r \in {row[p], NoRow} :
        row' = [row EXCEPT ![p] = r] /\ (~run[w].reserved => r = row[p])
  BY <1>2 DEF UsageRefused, Released, SetRow
<1>4. PICK c : c = [run[w] EXCEPT !.pc = "quota"]
  OBVIOUS
<1>5. /\ c \in Runs /\ c.pc = "quota" /\ c.p = p /\ c.kind = run[w].kind
      /\ c.reserved = run[w].reserved /\ c.indexed = run[w].indexed /\ c.adopt = run[w].adopt
  BY <1>2, <1>4 DEF Runs, Steps
<1>6. run' = [run EXCEPT ![w] = c]
  BY <1>4 DEF UsageRefused, Goto, SlotInv, TypeOK
<1>7. r \in Rows /\ RowOk(r, vec[p], p \in gone)
  BY <1>2, <1>3, NoRowOk, RecordTypes
<1>8. RunFits(c, r, vec[p], p, w) /\ RowFits(r, vec[p], p)
  BY <1>1, <1>2, <1>3, <1>5, <1>7 DEF RunFits, RowFits, RunOk, Deleting
<1>9. UNCHANGED <<vec, plan, recPlan, changes, gone, lease, queued>>
  BY DEF UsageRefused, Stays
<1> QED
  BY <1>1, <1>3, <1>5, <1>6, <1>7, <1>8, <1>9, RunGoesOn

\* The vector is written; its row follows.
LEMMA VectorGoes ==
  ASSUME SlotInv, NEW w \in Workers, WriteVector(w) PROVE SlotInv'
<1> DEFINE p == run[w].p
<1>1. Busy(w) /\ run[w].pc = "write"
  BY DEF WriteVector, Busy
<1>2. /\ p \in Products /\ row[p] \in Rows /\ vec[p] \in BOOLEAN /\ Row(w) = row[p]
      /\ run[w] \in Runs /\ RowOk(row[p], vec[p], p \in gone)
      /\ RunOk(run[w], row[p], vec[p], p \in gone, lease = w)
      /\ row = [row EXCEPT ![p] = row[p]] /\ vec = [vec EXCEPT ![p] = vec[p]]
      /\ p \notin gone
  BY <1>1, RunFacts DEF Deleting
<1>3. PICK c : c = [IdleRun EXCEPT !.pc = "stage", !.kind = run[w].kind, !.p = p]
  OBVIOUS
<1>4. /\ c \in Runs /\ c.pc = "stage" /\ c.p = p /\ c.kind = run[w].kind
      /\ ~c.reserved /\ ~c.indexed /\ ~c.adopt
  BY <1>2, <1>3, PlansTyped DEF Runs, Steps, IdleRun, Kinds
<1>5. PICK point \in BOOLEAN : point = TRUE
  OBVIOUS
<1>6. /\ run' = [run EXCEPT ![w] = c] /\ row' = [row EXCEPT ![p] = row[p]]
      /\ vec' = [vec EXCEPT ![p] = point]
      /\ UNCHANGED <<plan, recPlan, changes, gone, lease, queued>> /\ queued' \subseteq Products
  BY <1>2, <1>3, <1>5 DEF WriteVector, GotoEnd, Begin, Stays, SlotInv, TypeOK
<1>7. RowOk(row[p], point, p \in gone')
  BY <1>2, <1>5, <1>6 DEF RowOk
<1>8. RunOk(c, row[p], point, p \in gone, lease = w)
  BY <1>1, <1>2, <1>4, <1>5 DEF RunOk, Deleting
<1> QED
  BY <1>1, <1>2, <1>4, <1>6, <1>7, <1>8, RunFrame DEF RowOk, RunOk

LEMMA StageGoes ==
  ASSUME SlotInv, NEW w \in Workers, Stage(w) PROVE SlotInv'
<1> DEFINE p == run[w].p
<1>1. Busy(w) /\ run[w].pc = "stage"
  BY DEF Stage, Busy
<1>2. /\ p \in Products /\ row[p] \in Rows /\ vec[p] \in BOOLEAN /\ Row(w) = row[p]
      /\ run[w] \in Runs /\ RowOk(row[p], vec[p], p \in gone)
      /\ RunOk(run[w], row[p], vec[p], p \in gone, lease = w)
      /\ row = [row EXCEPT ![p] = row[p]] /\ vec = [vec EXCEPT ![p] = vec[p]]
      /\ p \notin gone
  BY <1>1, RunFacts DEF Deleting
<1>3. PICK c : c = [run[w] EXCEPT !.pc = "publish"]
  OBVIOUS
<1>4. /\ c \in Runs /\ c.pc = "publish" /\ c.p = p /\ c.kind = run[w].kind
      /\ c.reserved = run[w].reserved /\ c.indexed = run[w].indexed /\ c.adopt = run[w].adopt
  BY <1>2, <1>3 DEF Runs, Steps
<1>5. PICK r : r = staged(row[p])
  OBVIOUS
<1>6. /\ run' = [run EXCEPT ![w] = c] /\ row' = [row EXCEPT ![p] = r]
      /\ UNCHANGED <<vec, plan, recPlan, changes, gone, lease, queued>>
  BY <1>2, <1>3, <1>5 DEF Stage, Goto, SetRow, Stays, SlotInv, TypeOK
<1>7. vec[p]
  BY <1>1, <1>2 DEF RunOk
<1>8. r \in Rows /\ RowOk(r, vec[p], FALSE) /\ r.blocked = "NULL"
  <2>1. RowOk(row[p], vec[p], FALSE)
    BY <1>2 DEF RowOk
  <2>2. r \in Rows /\ RowOk(r, vec[p], FALSE)
    BY <1>2, <1>5, <1>7, <2>1, WritesOk
  <2> QED
    BY <1>2, <1>5, <2>2 DEF staged, Rows
<1>9. RunFits(c, r, vec[p], p, w) /\ RowFits(r, vec[p], p)
  BY <1>1, <1>2, <1>4, <1>7, <1>8 DEF RunFits, RowFits, RunOk, RowOk, Deleting, UsesSlot
<1> QED
  BY <1>1, <1>4, <1>6, <1>8, <1>9, RunGoesOn

\* A deletion: hidden first, then out of Qdrant.
LEMMA HideGoes ==
  ASSUME SlotInv, NEW w \in Workers, HideDeleted(w) PROVE SlotInv'
<1> DEFINE p == run[w].p
<1>1. Busy(w) /\ run[w].pc = "hide"
  BY DEF HideDeleted, Busy
<1>2. /\ p \in Products /\ row[p] \in Rows /\ vec[p] \in BOOLEAN /\ Row(w) = row[p]
      /\ run[w] \in Runs /\ RowOk(row[p], vec[p], p \in gone)
      /\ RunOk(run[w], row[p], vec[p], p \in gone, lease = w)
      /\ row = [row EXCEPT ![p] = row[p]] /\ vec = [vec EXCEPT ![p] = vec[p]]
  BY <1>1, RunFacts
<1>3. p \in gone
  BY <1>1, <1>2 DEF RunOk, Deleting
<1>4. PICK c : c = [run[w] EXCEPT !.pc = "dropVector"]
  OBVIOUS
<1>5. /\ c \in Runs /\ c.pc = "dropVector" /\ c.p = p /\ c.kind = run[w].kind
      /\ c.reserved = run[w].reserved /\ c.indexed = run[w].indexed /\ c.adopt = run[w].adopt
  BY <1>2, <1>4 DEF Runs, Steps
<1>6. PICK r : r = unpublished(row[p])
  OBVIOUS
<1>7. /\ run' = [run EXCEPT ![w] = c] /\ row' = [row EXCEPT ![p] = r]
      /\ UNCHANGED <<vec, plan, recPlan, changes, gone, lease, queued>>
  BY <1>2, <1>4, <1>6 DEF HideDeleted, Goto, SetRow, Stays, SlotInv, TypeOK
<1>8. r \in Rows /\ RowOk(r, vec[p], TRUE) /\ (r = NoRow \/ r.blocked = "UNPUBLISHED")
  <2>1. RowOk(row[p], vec[p], TRUE)
    BY <1>2, <1>3 DEF RowOk
  <2> QED
    BY <1>2, <1>6, <2>1, UnpublishedOk
<1>9. RunFits(c, r, vec[p], p, w) /\ RowFits(r, vec[p], p)
  BY <1>1, <1>2, <1>3, <1>5, <1>8 DEF RunFits, RowFits, RunOk, RowOk, Deleting
<1> QED
  BY <1>1, <1>5, <1>7, <1>8, <1>9, RunGoesOn

LEMMA DropGoes ==
  ASSUME SlotInv, NEW w \in Workers, DropVector(w) PROVE SlotInv'
<1> DEFINE p == run[w].p
<1>1. Busy(w) /\ run[w].pc = "dropVector"
  BY DEF DropVector, Busy
<1>2. /\ p \in Products /\ row[p] \in Rows /\ vec[p] \in BOOLEAN /\ Row(w) = row[p]
      /\ run[w] \in Runs /\ RowOk(row[p], vec[p], p \in gone)
      /\ RunOk(run[w], row[p], vec[p], p \in gone, lease = w)
      /\ row = [row EXCEPT ![p] = row[p]] /\ vec = [vec EXCEPT ![p] = vec[p]]
  BY <1>1, RunFacts
<1>3. /\ p \in gone /\ (row[p] = NoRow \/ row[p].blocked = "UNPUBLISHED")
      /\ run[w].kind # "policy"
  BY <1>1, <1>2 DEF RunOk, Deleting
<1>4. PICK point \in BOOLEAN : point = FALSE
  OBVIOUS
<1>5. PICK c : c = [run[w] EXCEPT !.pc = "dropRow"]
  OBVIOUS
<1>6. /\ c \in Runs /\ c.pc = "dropRow" /\ c.p = p /\ c.kind = run[w].kind
      /\ c.indexed = run[w].indexed /\ c.adopt = run[w].adopt
  BY <1>2, <1>5 DEF Runs, Steps
<1>7. /\ run' = [run EXCEPT ![w] = c] /\ row' = [row EXCEPT ![p] = row[p]]
      /\ vec' = [vec EXCEPT ![p] = point]
      /\ UNCHANGED <<plan, recPlan, changes, gone, lease, queued>> /\ queued' \subseteq Products
  BY <1>2, <1>4, <1>5 DEF DropVector, Goto, Stays, SlotInv, TypeOK
<1>8. RowOk(row[p], point, p \in gone')
  BY <1>2, <1>3, <1>4, <1>7 DEF RowOk, NoRow
<1>9. ~c.indexed /\ ~c.adopt
  BY <1>1, <1>2, <1>6 DEF RunOk, Deleting
<1>10. RunOk(c, row[p], point, p \in gone, lease = w)
  BY <1>3, <1>4, <1>6, <1>9 DEF RunOk, Deleting
<1> QED
  BY <1>1, <1>2, <1>6, <1>7, <1>8, <1>10, RunFrame DEF RowOk, RunOk

\* A run starts, on a product that no other run has.
LEMMA StartFrame ==
  ASSUME SlotInv, NEW w \in Workers, ~Busy(w), NEW p \in Products, ~Locked(p),
         NEW c \in Runs, c.pc # "idle", c.p = p, run' = [run EXCEPT ![w] = c],
         UNCHANGED <<row, vec, plan, recPlan, changes>>, queued' \subseteq Products,
         gone' \in {gone, gone \cup {p}},
         lease' = lease \/ (lease = Nobody /\ lease' = w),
         RunOk(c, row[p], vec[p], p \in gone', lease' = w)
  PROVE  SlotInv'
<1> USE DEF SlotInv, Busy
<1>1. run \in [Workers -> Runs] /\ gone \subseteq Products /\ TypeOK'
  BY DEF TypeOK
<1>2. run'[w] = c /\ \A v \in Workers : v # w => run'[v] = run[v]
  BY <1>1
<1>3. \A v \in Workers : v # w /\ Busy(v) => run[v].p # p /\ run[v].p \in Products
  BY DEF Locked, RunsOk
<1>4. Alone'
  BY <1>2, <1>3 DEF Alone
<1>5. RowsOk'
  BY DEF RowsOk, RowOk
<1>6. ASSUME NEW v \in Workers, v # w
      PROVE  /\ Busy(v)' => /\ run'[v].p \in Products
                            /\ RunOk(run'[v], row'[run'[v].p], vec'[run'[v].p],
                                     run'[v].p \in gone', lease' = v)
             /\ ~Busy(v)' => run'[v] = IdleRun
  <2>1. lease = v => lease' = v
    BY <1>6, HoldersDistinct
  <2>2. CASE Busy(v)
    <3>1. run[v].p \in gone' <=> run[v].p \in gone
      BY <1>3, <1>6, <2>2
    <3>2. RunOk(run[v], row[run[v].p], vec[run[v].p], run[v].p \in gone, lease = v)
      BY <1>6, <2>2 DEF RunsOk
    <3>3. RunOk(run[v], row[run[v].p], vec[run[v].p], run[v].p \in gone', lease' = v)
      BY <2>1, <3>1, <3>2 DEF RunOk
    <3> QED
      BY <1>2, <1>3, <1>6, <2>2, <3>3
  <2>3. CASE ~Busy(v)
    BY <1>2, <1>6, <2>3 DEF RunsOk
  <2> QED
    BY <2>2, <2>3
<1>7. RunOk(run'[w], row'[p], vec'[p], p \in gone', lease' = w) /\ run'[w].p = p
  BY <1>2
<1> QED
  BY <1>1, <1>2, <1>4, <1>5, <1>6, <1>7 DEF RunsOk

LEMMA StartsOk ==
  ASSUME SlotInv, NEW w \in Workers, NEW p \in Products,
         StartWebhook(w, p) \/ StartDelete(w, p) \/ StartPolicy(w, p)
  PROVE  SlotInv'
<1>1. /\ row[p] \in Rows /\ RowOk(row[p], vec[p], p \in gone) /\ queued \subseteq Products
      /\ ~Busy(w) /\ ~Locked(p)
  BY DEF SlotInv, TypeOK, RowsOk, StartWebhook, StartDelete, StartPolicy
<1>2. ASSUME NEW kind \in Kinds, NEW pc \in Steps
      PROVE  /\ [IdleRun EXCEPT !.pc = pc, !.kind = kind, !.p = p] \in Runs
             /\ [IdleRun EXCEPT !.pc = pc, !.kind = kind, !.p = p].pc = pc
             /\ [IdleRun EXCEPT !.pc = pc, !.kind = kind, !.p = p].kind = kind
             /\ [IdleRun EXCEPT !.pc = pc, !.kind = kind, !.p = p].p = p
             /\ ~[IdleRun EXCEPT !.pc = pc, !.kind = kind, !.p = p].reserved
             /\ ~[IdleRun EXCEPT !.pc = pc, !.kind = kind, !.p = p].indexed
             /\ ~[IdleRun EXCEPT !.pc = pc, !.kind = kind, !.p = p].adopt
  BY PlansTyped DEF IdleRun, Runs, Steps, Kinds
<1>3. CASE StartWebhook(w, p)
  <2>1. PICK c : c = [IdleRun EXCEPT !.pc = "read", !.kind = "webhook", !.p = p]
    OBVIOUS
  <2>2. /\ c \in Runs /\ c.pc = "read" /\ c.p = p /\ c.kind = "webhook"
        /\ ~c.indexed /\ ~c.adopt
    BY <1>2, <2>1 DEF Kinds, Steps
  <2>3. /\ run' = [run EXCEPT ![w] = c] /\ lease' = lease /\ gone' = gone
        /\ UNCHANGED <<row, vec, plan, recPlan, changes>> /\ queued' \subseteq Products
    BY <1>1, <1>3, <2>1 DEF StartWebhook, Begin
  <2>4. RunOk(c, row[p], vec[p], p \in gone', lease' = w)
    BY <2>2 DEF RunOk, Deleting
  <2> QED
    BY <1>1, <2>2, <2>3, <2>4, StartFrame DEF RunOk
<1>4. CASE StartDelete(w, p)
  <2>1. PICK c : c = [IdleRun EXCEPT !.pc = "hide", !.kind = "delete", !.p = p]
    OBVIOUS
  <2>2. /\ c \in Runs /\ c.pc = "hide" /\ c.p = p /\ c.kind = "delete"
        /\ ~c.indexed /\ ~c.adopt
    BY <1>2, <2>1 DEF Kinds, Steps
  <2>3. /\ run' = [run EXCEPT ![w] = c] /\ lease' = lease /\ gone' = gone \cup {p}
        /\ UNCHANGED <<row, vec, plan, recPlan, changes>> /\ queued' \subseteq Products
    BY <1>1, <1>4, <2>1 DEF StartDelete, Begin
  <2>4. RunOk(c, row[p], vec[p], p \in gone', lease' = w)
    BY <2>2, <2>3 DEF RunOk, Deleting
  <2> QED
    BY <1>1, <2>2, <2>3, <2>4, StartFrame DEF RunOk
<1>5. CASE StartPolicy(w, p) /\ PolicyJobEligible(p)
  <2>1. PICK c : c = [IdleRun EXCEPT !.pc = "read", !.kind = "policy", !.p = p]
    OBVIOUS
  <2>2. /\ c \in Runs /\ c.pc = "read" /\ c.p = p /\ c.kind = "policy"
        /\ ~c.reserved /\ ~c.indexed /\ ~c.adopt
    BY <1>2, <2>1 DEF Kinds, Steps
  <2>3. /\ run' = [run EXCEPT ![w] = c] /\ lease = Nobody /\ lease' = w /\ gone' = gone
        /\ UNCHANGED <<row, vec, plan, recPlan, changes>> /\ queued' \subseteq Products
    BY <1>1, <1>5, <2>1 DEF StartPolicy, Begin
  <2>4. UsesSlot(row[p])
    BY <1>5 DEF PolicyJobEligible, UsesSlot
  <2>5. RunOk(c, row[p], vec[p], p \in gone', lease' = w)
    BY <2>2, <2>3, <2>4 DEF RunOk, Deleting
  <2> QED
    BY <1>1, <2>2, <2>3, <2>5, StartFrame DEF RunOk
<1>6. CASE StartPolicy(w, p) /\ ~PolicyJobEligible(p)
  <2>1. UNCHANGED <<plan, changes, row, gone, vec, lease, recPlan, run>> /\ queued' \subseteq Products
    BY <1>1, <1>6 DEF StartPolicy
  <2> QED
    BY <2>1 DEF SlotInv, TypeOK, Alone, RowsOk, RunsOk, Busy
<1> QED
  BY <1>3, <1>4, <1>5, <1>6

\* The reconciliation: it holds the lease, so no policy run is under way.
LEMMA ReconcileOk ==
  ASSUME SlotInv, Reconcile PROVE SlotInv'
<1>1. /\ row \in [Products -> Rows] /\ vec \in [Products -> BOOLEAN]
      /\ UNCHANGED <<plan, changes, gone, vec, run>> /\ recPlan' = FirstPlan
      /\ lease = Reconciler /\ lease' = Nobody
  BY DEF SlotInv, TypeOK, Reconcile
<1>2. PICK S \in SUBSET Products :
        /\ row' = [p \in Products |-> Decided(row[p], p \in S)]
        /\ queued' \subseteq Products
  BY DEF Reconcile, Selections, Eligible, SlotInv, TypeOK
<1>3. ASSUME NEW p \in Products
      PROVE  /\ row'[p] \in Rows /\ RowOk(row'[p], vec[p], p \in gone)
             /\ row[p] = NoRow \/ row[p].blocked = "UNPUBLISHED"
                  => row'[p] = NoRow \/ row'[p].blocked = "UNPUBLISHED"
  <2>1. row[p] \in Rows /\ vec[p] \in BOOLEAN /\ RowOk(row[p], vec[p], p \in gone)
    BY <1>1 DEF SlotInv, RowsOk
  <2>2. ASSUME NEW deleted \in BOOLEAN, deleted <=> p \in gone
        PROVE  /\ row'[p] \in Rows /\ RowOk(row'[p], vec[p], p \in gone)
               /\ row[p] = NoRow \/ row[p].blocked = "UNPUBLISHED"
                    => row'[p] = NoRow \/ row'[p].blocked = "UNPUBLISHED"
    <3>1. RowOk(row[p], vec[p], deleted)
      BY <2>1, <2>2 DEF RowOk
    <3>2. row'[p] \in {Decided(row[p], TRUE), Decided(row[p], FALSE)}
      <4>1. row'[p] = Decided(row[p], p \in S)
        BY <1>2
      <4>2. CASE p \in S
        BY <4>1, <4>2 DEF Decided
      <4>3. CASE p \notin S
        BY <4>1, <4>3 DEF Decided
      <4> QED
        BY <4>2, <4>3
    <3>3. /\ row'[p] \in Rows /\ RowOk(row'[p], vec[p], deleted)
          /\ row[p] = NoRow \/ row[p].blocked = "UNPUBLISHED"
               => row'[p] = NoRow \/ row'[p].blocked = "UNPUBLISHED"
      BY <2>1, <3>1, <3>2, DecidedOk
    <3> QED
      BY <2>2, <3>3 DEF RowOk
  <2>3. CASE p \in gone
    BY <2>2, <2>3
  <2>4. CASE p \notin gone
    BY <2>2, <2>4
  <2> QED
    BY <2>3, <2>4
<1>4. TypeOK'
  <2>1. row' \in [Products -> Rows]
    BY <1>2, <1>3
  <2> QED
    BY <1>1, <1>2, <2>1, PlansTyped DEF SlotInv, TypeOK
<1>5. Alone' /\ RowsOk'
  BY <1>1, <1>3 DEF SlotInv, Alone, RowsOk, Busy
<1>6. ASSUME NEW w \in Workers, Busy(w), NEW p, p = run[w].p
      PROVE  p \in Products /\ RunOk(run[w], row'[p], vec[p], p \in gone, lease' = w)
  <2>1. p \in Products /\ RunOk(run[w], row[p], vec[p], p \in gone, lease = w)
    BY <1>6 DEF SlotInv, RunsOk
  <2>2. run[w].kind # "policy"
    BY <1>1, <2>1, HoldersDistinct DEF RunOk
  <2> QED
    BY <1>3, <2>1, <2>2 DEF RunOk
<1>7. RunsOk'
  BY <1>1, <1>6 DEF SlotInv, RunsOk, Busy
<1> QED
  BY <1>4, <1>5, <1>7 DEF SlotInv

LEMMA SlotNext == SlotInv /\ [Next]_vars => SlotInv'
<1> SUFFICES ASSUME SlotInv, [Next]_vars PROVE SlotInv'
  OBVIOUS
<1>1. ASSUME NEW w \in Workers, Start(w) PROVE SlotInv'
  BY <1>1, StartsOk DEF Start
<1>2. ASSUME NEW w \in Workers, RunStep(w) \/ Crash(w) PROVE SlotInv'
  BY <1>2, LastSteps, OtherEnds, ReadGoes, EntitleGoes, ReserveGoes, UsageGoes,
     VectorGoes, StageGoes, HideGoes, DropGoes DEF RunStep
<1>3. CASE StartReconcile \/ CrashReconcile
  <2>1. /\ UNCHANGED <<plan, changes, gone, row, vec, queued, run>>
        /\ lease \notin Workers /\ lease' \in {Nobody, Reconciler} /\ recPlan' \in Plans
    BY <1>3, HoldersDistinct, PlansTyped
    DEF StartReconcile, CrashReconcile, SlotInv, TypeOK
  <2>2. TypeOK' /\ Alone' /\ RowsOk'
    BY <2>1 DEF SlotInv, TypeOK, Alone, RowsOk, Busy
  <2>3. RunsOk'
    BY <2>1 DEF SlotInv, RunsOk, RunOk, Busy
  <2> QED
    BY <2>2, <2>3 DEF SlotInv
<1>4. CASE ChangePlan
  <2>1. UNCHANGED <<gone, row, vec, lease, recPlan, queued, run>> /\ plan' \in Plans
        /\ changes' \in 0..MaxChanges
    BY <1>4, ProductsFinite DEF ChangePlan, SlotInv, TypeOK
  <2>2. TypeOK'
    BY <2>1 DEF SlotInv, TypeOK
  <2> QED
    BY <2>1, <2>2 DEF SlotInv, Alone, RowsOk, RunsOk, Busy
<1>5. CASE UNCHANGED vars
  BY <1>5 DEF vars, SlotInv, TypeOK, Alone, RowsOk, RunsOk, Busy
<1> QED
  BY <1>1, <1>2, <1>3, <1>4, <1>5, ReconcileOk DEF Next

\* The types of the registry, the plans, the runs and the lease (ProductSlots).
THEOREM TypeCorrect == Spec => []TypeOK
<1>1. SlotInv => TypeOK
  BY DEF SlotInv
<1> QED
  BY <1>1, SlotInit, SlotNext, PTL DEF Spec

\* A policy run keeps its product's slot to its last write: the reconciliation
\* is locked out by the lease, other runs by the product's, and what the run
\* itself does takes no slot it would give back.
THEOREM PolicySlotKept == Spec => []PolicyRunKeepsSlot
<1>1. SlotInv => PolicyRunKeepsSlot
  BY RecordTypes DEF SlotInv, RunsOk, RunOk, PolicyRunKeepsSlot, Row
<1> QED
  BY <1>1, SlotInit, SlotNext, PTL DEF Spec

\* What is searchable has its vector in both stores: only a deletion drops a
\* point before its row, and after it has unpublished the row for good.
THEOREM SearchableBacked == Spec => []SearchableIsBacked
<1>1. SlotInv => SearchableIsBacked
  BY DEF SlotInv, RowsOk, RowOk, SearchableIsBacked
<1> QED
  BY <1>1, SlotInit, SlotNext, PTL DEF Spec
-------------------------------------------------------------------------------
\* The used slots are finitely many, and do not grow unless a row takes one.
LEMMA SlotsFinite ==
  /\ IsFiniteSet(SlotRows) /\ SlotsUsed \in Nat
  /\ IsFiniteSet(SlotRows') /\ SlotsUsed' \in Nat
<1>1. SlotRows \subseteq Products /\ SlotRows' \subseteq Products
  BY DEF SlotRows
<1> QED
  BY <1>1, ProductsFinite, FS_Subset, FS_CardinalityType DEF SlotsUsed

LEMMA SlotTaken ==
  ASSUME SlotsUsed' > SlotsUsed
  PROVE  \E p \in Products : ~UsesSlot(row[p]) /\ UsesSlot(row'[p])
<1> SUFFICES ASSUME \A p \in Products : UsesSlot(row'[p]) => UsesSlot(row[p])
             PROVE  FALSE
  OBVIOUS
<1>1. SlotRows' \subseteq SlotRows
  BY DEF SlotRows
<1>2. Cardinality(SlotRows') <= Cardinality(SlotRows)
  BY <1>1, SlotsFinite, FS_Subset
<1> QED
  BY <1>2, SlotsFinite DEF SlotsUsed

\* A reservation takes one slot at most.
LEMMA OneMore ==
  ASSUME SlotInv, NEW p \in Products, NEW r, row' = [row EXCEPT ![p] = r]
  PROVE  SlotsUsed' <= SlotsUsed + 1
<1>1. SlotRows' \subseteq SlotRows \cup {p}
  BY DEF SlotRows, SlotInv, TypeOK
<1>2. IsFiniteSet(SlotRows) /\ Cardinality(SlotRows) \in Nat
  BY SlotsFinite, FS_CardinalityType
<1>a. IsFiniteSet(SlotRows \cup {p})
  BY <1>2, FS_AddElement
<1>b. Cardinality(SlotRows \cup {p})
        = IF p \in SlotRows THEN Cardinality(SlotRows) ELSE Cardinality(SlotRows) + 1
  BY <1>2, FS_AddElement
<1>3. Cardinality(SlotRows') <= Cardinality(SlotRows \cup {p})
  BY <1>1, <1>a, FS_Subset
<1> QED
  BY <1>2, <1>b, <1>3, SlotsFinite DEF SlotsUsed

\* Of the steps of a run, the reservation takes a slot within the limit it read;
\* the others take one only for a product that lost its slot after the check.
LEMMA RunTakesSlot ==
  ASSUME SlotInv, NEW w \in Workers, RunStep(w) \/ Crash(w), NEW q \in Products,
         ~UsesSlot(row[q]), UsesSlot(row'[q]), OverLimit'
  PROVE  LostSlot(w) \/ OldLimit(w)
<1> DEFINE p == run[w].p
<1>1. Busy(w)
  BY DEF RunStep, Read, Unpublish, StayBlocked, Entitle, BlockInactive, Reserve, BlockRefused,
         Adopt, KeepCached, UsageRefused, BlockQuota, EmbedFails, WriteVector, Stage, Publish,
         PublishFails, HideDeleted, DropVector, DropRow, Crash, Busy
<1>2. p \in Products /\ row[p] \in Rows /\ Row(w) = row[p] /\ row \in [Products -> Rows]
  BY <1>1, RunFacts DEF SlotInv, TypeOK
<1>3. row' # row
  OBVIOUS
<1>4. PICK r : row' = [row EXCEPT ![p] = r]
  BY <1>2, <1>3
  DEF RunStep, Read, Unpublish, StayBlocked, Entitle, BlockInactive, Reserve, BlockRefused,
      Adopt, KeepCached, UsageRefused, BlockQuota, EmbedFails, WriteVector, Stage, Publish,
      PublishFails, HideDeleted, DropVector, DropRow, Crash, SetRow, Released
<1>5. q = p /\ row'[p] = r /\ ~UsesSlot(row[p]) /\ UsesSlot(r)
  BY <1>2, <1>4
<1>6. CASE run[w].pc \in {"write", "quota", "stage", "publish"}
  BY <1>2, <1>5, <1>6 DEF LostSlot
<1>7. CASE Reserve(w)
  <2>1. SlotsUsed < run[w].plan.limit
    BY <1>2, <1>3, <1>5, <1>7 DEF Reserve, SlotFree
  <2>2. SlotsUsed' <= SlotsUsed + 1
    BY <1>2, <1>4, OneMore
  <2>3. plan' = plan /\ run[w].plan \in Plans /\ plan \in Plans
    BY <1>7 DEF Reserve, Stays, SlotInv, TypeOK, Runs
  <2>4. run[w].plan # plan
    BY <2>1, <2>2, <2>3, SlotsFinite, PlansTyped DEF OverLimit
  <2> QED
    BY <1>7, <2>4 DEF OldLimit, Reserve
<1>8. CASE BlockInactive(w)
  <2>1. PICK changed \in BOOLEAN :
          row' = [row EXCEPT ![p] = marked(row[p], "SUBSCRIPTION_INACTIVE", run[w].indexed, changed)]
    BY <1>2, <1>8 DEF BlockInactive, SetRow, Row
  <2>2. ~UsesSlot(marked(row[p], "SUBSCRIPTION_INACTIVE", run[w].indexed, changed))
    BY DEF UsesSlot, marked
  <2> QED
    BY <1>2, <1>5, <2>1, <2>2
<1>12. CASE BlockRefused(w)
  <2>1. PICK changed \in BOOLEAN :
          row' = [row EXCEPT ![p] = marked(row[p], "PRODUCT_LIMIT", run[w].adopt, changed)]
    BY <1>2, <1>12 DEF BlockRefused, SetRow, Row
  <2>2. ~UsesSlot(marked(row[p], "PRODUCT_LIMIT", run[w].adopt, changed))
    BY DEF UsesSlot, marked
  <2> QED
    BY <1>2, <1>5, <2>1, <2>2
<1>9. CASE Unpublish(w) \/ HideDeleted(w)
  <2>1. row'[p] = unpublished(row[p])
    BY <1>2, <1>9 DEF Unpublish, HideDeleted, SetRow
  <2>2. ~UsesSlot(unpublished(row[p]))
    BY <1>2, <1>5 DEF UsesSlot, unpublished, Rows
  <2> QED
    BY <1>5, <2>1, <2>2
<1>10. CASE StayBlocked(w)
  <2>1. PICK changed : row'[p] = ineligible(row[p], changed)
    BY <1>2, <1>10 DEF StayBlocked, SetRow
  <2>2. ~UsesSlot(ineligible(row[p], changed))
    BY <1>2, <1>5 DEF UsesSlot, ineligible, Rows
  <2> QED
    BY <1>5, <2>1, <2>2
<1>11. CASE DropRow(w)
  <2>1. row'[p] = NoRow
    BY <1>2, <1>11 DEF DropRow, SetRow
  <2> QED
    BY <1>5, <2>1 DEF UsesSlot, NoRow
<1> QED
  BY <1>3, <1>6, <1>7, <1>8, <1>9, <1>10, <1>11, <1>12
  DEF RunStep, Read, Entitle, Adopt, KeepCached, UsageRefused, BlockQuota, EmbedFails,
      WriteVector, Stage, Publish, PublishFails, DropVector, Crash

\* The reconciliation chooses within the limit it read.
LEMMA ReconcileTakesSlots ==
  ASSUME SlotInv, Reconcile, OverLimit'
  PROVE  lease = Reconciler /\ recPlan # plan
<1>1. PICK S \in Selections : row' = [p \in Products |-> Decided(row[p], p \in S)]
  BY DEF Reconcile
<1>2. S \subseteq Products /\ Cardinality(S) <= Capacity
  BY <1>1 DEF Selections, Eligible
<1>3. SlotRows' \subseteq S
  <2> SUFFICES ASSUME NEW p \in Products, p \notin S PROVE ~UsesSlot(row'[p])
    BY DEF SlotRows
  <2>1. row[p] \in Rows /\ RowOk(row[p], vec[p], p \in gone)
    BY DEF SlotInv, TypeOK, RowsOk
  <2>2. row'[p] = Decided(row[p], FALSE)
    BY <1>1 DEF Decided
  <2>3. CASE ~Present(row[p])
    BY <2>1, <2>2, <2>3 DEF Decided, UsesSlot, RowOk, NoRow, Present
  <2>4. CASE Present(row[p]) /\ row[p].blocked = "UNPUBLISHED"
    <3>1. row'[p] = [row[p] EXCEPT !.searchable = FALSE, !.status = "UNPUBLISHED"]
      BY <2>2, <2>4 DEF Decided
    <3> QED
      BY <2>1, <2>4, <3>1 DEF UsesSlot, Rows
  <2>5. CASE Present(row[p]) /\ row[p].blocked # "UNPUBLISHED"
    <3>1. PICK status \in {"PRODUCT_LIMIT_BLOCKED", "SUBSCRIPTION_BLOCKED"},
               blocked \in {"PRODUCT_LIMIT", "SUBSCRIPTION"} :
            row'[p] = [row[p] EXCEPT !.searchable = FALSE, !.blocked = blocked,
                                     !.status = status]
      BY <2>2, <2>5 DEF Decided
    <3> QED
      BY <2>1, <3>1 DEF UsesSlot, Rows
  <2> QED
    BY <2>3, <2>4, <2>5
<1>4. SlotsUsed' <= Cardinality(S) /\ Cardinality(S) \in Nat
  BY <1>2, <1>3, ProductsFinite, FS_Subset, FS_CardinalityType DEF SlotsUsed
<1>5. plan' = plan /\ plan \in Plans /\ recPlan \in Plans /\ lease = Reconciler
  BY DEF Reconcile, SlotInv, TypeOK
<1>6. recPlan = plan => FALSE
  BY <1>2, <1>4, <1>5, SlotsFinite, PlansTyped DEF OverLimit, Capacity
<1> QED
  BY <1>5, <1>6

\* No two runs take the same last slot, and no reconciliation overspends, for
\* want of more than a stale read of the limit or a slot that was taken away.
THEOREM SlotsWithinLimit == Spec => SlotGrantedWithinLimit
<1> DEFINE Within ==
             SlotsUsed' > SlotsUsed /\ OverLimit' =>
               \/ \E w \in Workers : LostSlot(w) \/ OldLimit(w)
               \/ lease = Reconciler /\ recPlan # plan
<1>1. SlotInv /\ [Next]_vars => [Within]_vars
  <2> SUFFICES ASSUME SlotInv, Next, SlotsUsed' > SlotsUsed, OverLimit'
               PROVE  \/ \E w \in Workers : LostSlot(w) \/ OldLimit(w)
                      \/ lease = Reconciler /\ recPlan # plan
    OBVIOUS
  <2>1. PICK q \in Products : ~UsesSlot(row[q]) /\ UsesSlot(row'[q])
    BY SlotTaken
  <2>2. \/ \E w \in Workers : RunStep(w) \/ Crash(w)
        \/ Reconcile
    BY <2>1 DEF Next, Start, StartWebhook, StartDelete, StartPolicy, StartReconcile,
               CrashReconcile, ChangePlan
  <2> QED
    BY <2>1, <2>2, RunTakesSlot, ReconcileTakesSlots
<1> QED
  BY <1>1, SlotInit, SlotNext, PTL DEF Spec, SlotGrantedWithinLimit
===============================================================================
