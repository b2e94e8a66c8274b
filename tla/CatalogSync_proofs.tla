-------------------------- MODULE CatalogSync_proofs --------------------------
(***************************************************************************)
(* Proofs about CatalogSync, for a catalog of any size and any jobs and    *)
(* workers: its types, that no checkpoint passes a product that was not    *)
(* visited, that only complete scans are cleaned up after, and that the    *)
(* cleanup takes nothing on sale off display.                              *)
(***************************************************************************)
EXTENDS CatalogSync, FiniteSetTheorems, WellFoundedInduction, TLAPS

Tasks == [pc: Steps, id: JobIds \cup {0}, status: Statuses,
          attempt: 0..MaxAttempts, pos: 0..CatalogSize, item: 0..CatalogSize,
          more: BOOLEAN, fill: BOOLEAN, stopped: BOOLEAN, lost: BOOLEAN,
          batch: SUBSET Products, off: SUBSET Products]

\* A worker about to claim has a job in mind that has an attempt left; one whose
\* claim was made has the job; one at a product has one.
Claims == \A w \in Workers : /\ wk[w].pc # "idle" => wk[w].id \in JobIds
                             /\ wk[w].pc = "claim" => wk[w].attempt < MaxAttempts
                             /\ wk[w].pc = "item" => wk[w].item \in Products

Typed == TypeOK /\ Claims
-------------------------------------------------------------------------------
(* Types *)

LEMMA TaskTyped == Idle \in Tasks /\ Idle.pc = "idle"
BY SizesPositive DEF Idle, Tasks, Steps, Statuses

\* The smallest of some products.
LEMMA MinOfProducts ==
  ASSUME NEW S \in SUBSET Products, S # {}
  PROVE  Min(S) \in S /\ \A x \in S : Min(S) <= x
<1> DEFINE Below == {1..x : x \in S}
<1>1. \A x \in S : x \in Nat /\ 1 <= x /\ 1..x \subseteq Products /\ x \in 1..x
  BY SizesPositive DEF Products
<1>2. Below \subseteq FiniteSubsetsOf(Products) /\ Below # {}
  <2>1. \A x \in S : IsFiniteSet(1..x)
    BY <1>1, FS_Interval
  <2> QED
    BY <1>1, <2>1 DEF FiniteSubsetsOf
<1>3. PICK B \in Below : \A A \in Below : ~ (<<A, B>> \in StrictSubsetOrdering(Products))
  BY <1>2, WFMin, FS_StrictSubsetOrderingWellFounded
<1>4. PICK m \in S : B = 1..m
  OBVIOUS
<1>5. ASSUME NEW x \in S, x < m
      PROVE  FALSE
  <2>1. 1..x \in Below /\ 1..x \subseteq 1..m /\ m \in 1..m /\ m \notin 1..x
    BY <1>1, <1>5
  <2> QED
    BY <1>1, <1>3, <1>4, <2>1 DEF StrictSubsetOrdering
<1>6. \A x \in S : m <= x
  BY <1>1, <1>5
<1> HIDE DEF Below
<1> QED
  BY <1>6 DEF Min

LEMMA TypedInit == Init => Typed
BY SizesPositive, TaskTyped
DEF Init, Typed, TypeOK, Claims, Idle, Tasks, JobRows, NoJob, Statuses, Shelf, Products, Priority, Steps

\* The tables, beside the workers.
Tables ==
  /\ job \in [JobIds -> JobRows] /\ seen \in [JobIds -> SUBSET Products]
  /\ reg \in [Products -> {"NONE", "SHOWN", "HIDDEN"}]
  /\ store \in [Products -> Shelf]
  /\ asked \in Reasons \cup {None} /\ lease \in Workers \cup {None, Dead}
  /\ met \in [JobIds -> SUBSET Products] /\ down \in [JobIds -> SUBSET Products]

TaskTypes(w) == /\ wk[w] \in Tasks
                /\ wk[w].pc # "idle" => wk[w].id \in JobIds
                /\ wk[w].pc = "claim" => wk[w].attempt < MaxAttempts
                /\ wk[w].pc = "item" => wk[w].item \in Products

LEMMA Numbers ==
  CatalogSize \in Nat /\ MaxAttempts \in Nat \ {0} /\ JobIds \subseteq Nat \ {0}
BY SizesPositive, IdsAreNumbers

LEMMA Parts ==
  Typed <=> /\ Tables /\ wk \in [Workers -> Tasks]
            /\ \A w \in Workers : TaskTypes(w)
<1>1. TypeOK <=> Tables /\ wk \in [Workers -> Tasks]
  BY DEF TypeOK, Tables, Tasks
<1>2. wk \in [Workers -> Tasks] => (Claims <=> \A w \in Workers : TaskTypes(w))
  BY DEF Claims, TaskTypes
<1> QED
  BY <1>1, <1>2 DEF Typed

LEMMA PartsNext ==
  Tables' /\ wk' \in [Workers -> Tasks] /\ (\A w \in Workers : TaskTypes(w)') => Typed'
<1>1. Tables' /\ wk' \in [Workers -> Tasks] => TypeOK'
  BY DEF TypeOK, Tables, Tasks
<1>2. (\A w \in Workers : TaskTypes(w)') => Claims'
  BY DEF Claims, TaskTypes
<1> QED
  BY <1>1, <1>2 DEF Typed

\* The other workers stand still, and w does what its types allow.
Turn(w) == /\ wk' \in [Workers -> Tasks] /\ TaskTypes(w)'
           /\ \A v \in Workers \ {w} : wk'[v] = wk[v]

LEMMA TypedStep ==
  ASSUME Typed, NEW w \in Workers, Turn(w), Tables'
  PROVE  Typed'
<1>1. \A v \in Workers : TaskTypes(v)
  BY Parts
<1>2. \A v \in Workers : TaskTypes(v)'
  BY <1>1 DEF TaskTypes, Turn
<1> QED
  BY <1>2, PartsNext DEF Turn

\* The ends of a task.
LEMMA LeaveTyped ==
  ASSUME wk \in [Workers -> Tasks], NEW w \in Workers, TaskTypes(w), wk[w].pc # "idle",
         NEW pc \in {"fail", "exit"}, Leave(w, pc)
  PROVE  Turn(w)
<1>1. wk'[w] = [Idle EXCEPT !.pc = pc, !.id = wk[w].id, !.attempt = wk[w].attempt]
  BY DEF Leave
<1>2. wk'[w] \in Tasks
  BY TaskTyped DEF Leave, Tasks, Steps
<1>3. wk'[w].id = wk[w].id /\ wk'[w].pc = pc
  BY <1>1, TaskTyped DEF Tasks
<1>4. TaskTypes(w)'
  BY <1>2, <1>3 DEF TaskTypes
<1> QED
  BY <1>2, <1>4 DEF Turn, Leave

LEMMA EndTyped ==
  ASSUME wk \in [Workers -> Tasks], NEW w \in Workers, wk' = [wk EXCEPT ![w] = Idle]
  PROVE  Turn(w)
BY TaskTyped DEF Turn, TaskTypes

LEMMA GotoTyped ==
  ASSUME wk \in [Workers -> Tasks], NEW w \in Workers, TaskTypes(w), wk[w].pc # "idle",
         NEW pc \in Steps \ {"claim", "item"}, Goto(w, pc)
  PROVE  Turn(w)
<1>1. wk'[w] \in Tasks /\ wk'[w].id = wk[w].id /\ wk'[w].pc = pc
  BY DEF Goto, Tasks
<1>2. TaskTypes(w)'
  BY <1>1 DEF TaskTypes
<1> QED
  BY <1>1, <1>2 DEF Turn, Goto

LEMMA FreedTyped ==
  ASSUME NEW w \in Workers, lease \in Workers \cup {None, Dead}, Freed(w)
  PROVE  lease' \in Workers \cup {None, Dead}
BY DEF Freed

LEMMA TouchedTyped ==
  ASSUME seen \in [JobIds -> SUBSET Products], NEW p \in Products
  PROVE  Touched(p) \in [JobIds -> SUBSET Products]
BY DEF Touched

LEMMA VisitedTyped ==
  ASSUME met \in [JobIds -> SUBSET Products], NEW w \in Workers,
         wk[w].item \in Products, Visited(w)
  PROVE  met' \in [JobIds -> SUBSET Products]
BY DEF Visited

\* A field of a job's row.
LEMMA JobTyped ==
  ASSUME job \in [JobIds -> JobRows], NEW j \in JobIds
  PROVE  /\ \A st \in Statuses : [job EXCEPT ![j].status = st, ![j].old = FALSE] \in [JobIds -> JobRows]
         /\ \A b \in BOOLEAN : [job EXCEPT ![j].old = b] \in [JobIds -> JobRows]
         /\ \A c \in 0..CatalogSize :
              /\ [job EXCEPT ![j].cursor = c, ![j].old = FALSE] \in [JobIds -> JobRows]
              /\ [job EXCEPT ![j].status = "DONE", ![j].cursor = c, ![j].old = FALSE]
                   \in [JobIds -> JobRows]
<1>1. job[j] \in JobRows
  OBVIOUS
<1>2. /\ \A st \in Statuses : [job[j] EXCEPT !.status = st, !.old = FALSE] \in JobRows
      /\ \A b \in BOOLEAN : [job[j] EXCEPT !.old = b] \in JobRows
      /\ \A c \in 0..CatalogSize :
           /\ [job[j] EXCEPT !.cursor = c, !.old = FALSE] \in JobRows
           /\ [job[j] EXCEPT !.status = "DONE", !.cursor = c, !.old = FALSE] \in JobRows
  BY <1>1 DEF JobRows, Statuses
<1> QED
  BY <1>1, <1>2

LEMMA TypedSelect ==
  ASSUME Typed, NEW w \in Workers, Select(w)
  PROVE  Typed'
<1>0. wk[w] \in Tasks /\ wk \in [Workers -> Tasks] /\ TaskTypes(w) /\ Tables
  BY Parts
<1>w. wk[w] \in Tasks /\ wk \in [Workers -> Tasks] /\ TaskTypes(w)
  BY <1>0
<1>1. PICK j \in JobIds :
        /\ job[j].attempts < MaxAttempts
        /\ wk' = [wk EXCEPT ![w] = [Idle EXCEPT !.pc = "claim", !.id = j,
                     !.status = job[j].status, !.attempt = job[j].attempts]]
  BY DEF Select, Claimable
<1>2. job[j].attempts \in 0..MaxAttempts /\ job[j].status \in Statuses
  BY <1>0 DEF Tables, JobRows
<1>3. wk'[w] \in Tasks
  BY <1>w, <1>1, <1>2, TaskTyped DEF Tasks, Steps
<1>4. wk'[w].id = j /\ wk'[w].attempt = job[j].attempts
  BY <1>w, <1>1, TaskTyped DEF Tasks
<1>5. Turn(w)
  BY <1>w, <1>1, <1>3, <1>4 DEF Turn, TaskTypes
<1>6. Tables'
  BY <1>0 DEF Tables, Select
<1> QED
  BY <1>5, <1>6, TypedStep

LEMMA TypedClaim ==
  ASSUME Typed, NEW w \in Workers, Claim(w)
  PROVE  Typed'
<1>0. wk[w] \in Tasks /\ wk \in [Workers -> Tasks] /\ TaskTypes(w) /\ Tables
  BY Parts
<1>w. wk[w] \in Tasks /\ wk \in [Workers -> Tasks] /\ TaskTypes(w)
  BY <1>0
<1> DEFINE j == wk[w].id
           r == job[j]
<1>1. j \in JobIds /\ wk[w].pc = "claim" /\ wk[w].attempt < MaxAttempts
  BY <1>w DEF Claim, TaskTypes
<1>2. r \in JobRows /\ r.attempts \in 0..MaxAttempts
  BY <1>0, <1>1 DEF Tables, JobRows
<1>3. CASE Unclaimed(w)
  <2>1. /\ wk' = [wk EXCEPT ![w] = [Idle EXCEPT !.pc = "reread", !.id = j]]
        /\ job' = [job EXCEPT ![j].status = "PROCESSING", ![j].started = TRUE,
                       ![j].attempts = r.attempts + 1, ![j].old = FALSE]
    BY <1>3 DEF Claim, Claimed
  <2>2. r.attempts + 1 \in 0..MaxAttempts
    BY <1>1, <1>2, <1>3, Numbers DEF Unclaimed
  <2>3. wk'[w] \in Tasks
    BY <1>w, <1>1, <2>1, TaskTyped DEF Tasks, Steps
  <2>4. wk'[w].id = j /\ wk'[w].pc = "reread"
    BY <1>w, <2>1, TaskTyped DEF Tasks
  <2>5. Turn(w)
    BY <1>w, <1>1, <2>1, <2>3, <2>4 DEF Turn, TaskTypes
  <2>6. job' \in [JobIds -> JobRows]
    BY <1>0, <1>1, <2>1, <2>2 DEF Tables, JobRows, Statuses
  <2>7. /\ seen' \in [JobIds -> SUBSET Products] /\ met' \in [JobIds -> SUBSET Products]
        /\ down' \in [JobIds -> SUBSET Products]
    BY <1>0, <1>1, <1>3 DEF Claim, Claimed, Tables
  <2>8. Tables'
    BY <1>0, <2>6, <2>7 DEF Tables, Claim
  <2> QED
    BY <2>5, <2>8, TypedStep
<1>4. CASE ~Unclaimed(w)
  <2>1. Turn(w)
    BY <1>w, <1>4, EndTyped DEF Claim
  <2>2. Tables'
    BY <1>0, <1>4 DEF Claim, Tables
  <2> QED
    BY <2>1, <2>2, TypedStep
<1> QED
  BY <1>3, <1>4

LEMMA TypedReread ==
  ASSUME Typed, NEW w \in Workers, Reread(w)
  PROVE  Typed'
<1>0. wk[w] \in Tasks /\ wk \in [Workers -> Tasks] /\ TaskTypes(w) /\ Tables
  BY Parts
<1>w. wk[w] \in Tasks /\ wk \in [Workers -> Tasks] /\ TaskTypes(w)
  BY <1>0
<1>1. wk[w].id \in JobIds
  BY <1>w DEF Reread, TaskTypes
<1>2. PICK a, c, f : /\ a = job[wk[w].id].attempts /\ c = job[wk[w].id].cursor
                     /\ f = (job[wk[w].id].reason \in Fill)
  OBVIOUS
<1>3. a \in 0..MaxAttempts /\ c \in 0..CatalogSize /\ f \in BOOLEAN
  BY <1>0, <1>1, <1>2 DEF Tables, JobRows
<1>4. wk' = [wk EXCEPT ![w].pc = "wait", ![w].attempt = a, ![w].pos = c, ![w].fill = f]
  BY <1>2 DEF Reread
<1>5. wk'[w] \in Tasks /\ wk'[w].id = wk[w].id /\ wk'[w].pc = "wait"
  BY <1>w, <1>3, <1>4 DEF Tasks, Steps
<1>6. Turn(w)
  BY <1>w, <1>1, <1>4, <1>5 DEF Turn, TaskTypes
<1>7. Tables'
  BY <1>0 DEF Tables, Reread
<1> QED
  BY <1>6, <1>7, TypedStep

LEMMA TypedEnter ==
  ASSUME Typed, NEW w \in Workers, Enter(w)
  PROVE  Typed'
<1>0. wk[w] \in Tasks /\ wk \in [Workers -> Tasks] /\ TaskTypes(w) /\ Tables
  BY Parts
<1>w. wk[w] \in Tasks /\ wk \in [Workers -> Tasks] /\ TaskTypes(w)
  BY <1>0
<1>a. wk'[w] \in Tasks
  BY <1>w, TaskTyped DEF Tasks, Steps, Enter, Goto
<1>b. TaskTypes(w)'
  BY <1>w, <1>a, TaskTyped DEF TaskTypes, Tasks, Enter, Goto
<1>c. wk' = [wk EXCEPT ![w] = wk'[w]]
  BY <1>w DEF Enter, Goto
<1>4. Turn(w)
  BY <1>w, <1>a, <1>b, <1>c DEF Turn
<1>2. Tables'
  BY <1>0 DEF Tables, TaskTypes, Tasks, Enter, World
<1> QED
  BY <1>2, <1>4, TypedStep

LEMMA TypedWaitTimesOut ==
  ASSUME Typed, NEW w \in Workers, WaitTimesOut(w)
  PROVE  Typed'
<1>0. wk[w] \in Tasks /\ wk \in [Workers -> Tasks] /\ TaskTypes(w) /\ Tables
  BY Parts
<1>w. wk[w] \in Tasks /\ wk \in [Workers -> Tasks] /\ TaskTypes(w)
  BY <1>0
<1>a. wk'[w] \in Tasks
  BY <1>w, TaskTyped DEF Tasks, Steps, WaitTimesOut, Leave
<1>b. TaskTypes(w)'
  BY <1>w, <1>a, TaskTyped DEF TaskTypes, Tasks, WaitTimesOut, Leave
<1>c. wk' = [wk EXCEPT ![w] = wk'[w]]
  BY <1>w DEF WaitTimesOut, Leave
<1>4. Turn(w)
  BY <1>w, <1>a, <1>b, <1>c DEF Turn
<1>2. Tables'
  BY <1>0 DEF Tables, TaskTypes, Tasks, WaitTimesOut, World
<1> QED
  BY <1>2, <1>4, TypedStep

LEMMA TypedStopAtLimit ==
  ASSUME Typed, NEW w \in Workers, StopAtLimit(w)
  PROVE  Typed'
<1>0. wk[w] \in Tasks /\ wk \in [Workers -> Tasks] /\ TaskTypes(w) /\ Tables
  BY Parts
<1>w. wk[w] \in Tasks /\ wk \in [Workers -> Tasks] /\ TaskTypes(w)
  BY <1>0
<1>a. wk'[w] \in Tasks
  BY <1>w, TaskTyped DEF Tasks, Steps, StopAtLimit
<1>b. TaskTypes(w)'
  BY <1>w, <1>a, TaskTyped DEF TaskTypes, Tasks, StopAtLimit
<1>c. wk' = [wk EXCEPT ![w] = wk'[w]]
  BY <1>w DEF StopAtLimit
<1>4. Turn(w)
  BY <1>w, <1>a, <1>b, <1>c DEF Turn
<1>2. Tables'
  BY <1>0 DEF Tables, TaskTypes, Tasks, StopAtLimit, World
<1> QED
  BY <1>2, <1>4, TypedStep

LEMMA TypedFetchPage ==
  ASSUME Typed, NEW w \in Workers, FetchPage(w)
  PROVE  Typed'
<1>0. wk[w] \in Tasks /\ wk \in [Workers -> Tasks] /\ TaskTypes(w) /\ Tables
  BY Parts
<1>w. wk[w] \in Tasks /\ wk \in [Workers -> Tasks] /\ TaskTypes(w)
  BY <1>0
<1> DEFINE ahead == {p \in Live : p > wk[w].pos}
<1>1. ahead \subseteq Products
  BY DEF Live
<1>2. PICK item \in 0..CatalogSize : item = IF ahead = {} THEN 0 ELSE Min(ahead)
  BY <1>1, MinOfProducts, Numbers DEF Products
<1>3. PICK more \in BOOLEAN : more = (Cardinality(ahead) > 1)
  <2>1. CASE Cardinality(ahead) > 1
    BY <2>1
  <2>2. CASE ~(Cardinality(ahead) > 1)
    <3>1. (Cardinality(ahead) > 1) = FALSE
      BY <2>2, SMT
    <3> QED
      BY <3>1
  <2> QED
    BY <2>1, <2>2
<1>4. PICK pc \in {"save", "item"} : pc = IF ahead = {} THEN "save" ELSE "item"
  OBVIOUS
<1>b. pc = "item" => item \in Products
  BY <1>1, <1>2, <1>4, MinOfProducts
<1>5. wk' = [wk EXCEPT ![w].pc = pc, ![w].item = item, ![w].more = more]
  BY <1>2, <1>3, <1>4 DEF FetchPage
<1>6. wk'[w] \in Tasks /\ wk'[w].id = wk[w].id /\ wk'[w].pc = pc /\ wk'[w].item = item
  BY <1>w, <1>5 DEF Tasks, Steps
<1>7. Turn(w)
  BY <1>w, <1>b, <1>5, <1>6 DEF Turn, TaskTypes, FetchPage
<1>8. Tables'
  BY <1>0 DEF Tables, FetchPage, World
<1> QED
  BY <1>7, <1>8, TypedStep

LEMMA TypedIndexItem ==
  ASSUME Typed, NEW w \in Workers, IndexItem(w)
  PROVE  Typed'
<1>0. wk[w] \in Tasks /\ wk \in [Workers -> Tasks] /\ TaskTypes(w) /\ Tables
  BY Parts
<1>w. wk[w] \in Tasks /\ wk \in [Workers -> Tasks] /\ TaskTypes(w)
  BY <1>0
<1>1. wk[w].item \in Products /\ wk[w].id \in JobIds
  BY <1>w DEF IndexItem, TaskTypes
<1>2. PICK noSlot \in BOOLEAN : wk' = [wk EXCEPT ![w].pc = "save", ![w].stopped = noSlot]
  BY DEF IndexItem
<1>3. wk'[w] \in Tasks /\ wk'[w].id = wk[w].id /\ wk'[w].pc = "save"
  BY <1>w, <1>2 DEF Tasks, Steps
<1>4. Turn(w)
  BY <1>w, <1>1, <1>2, <1>3 DEF Turn, TaskTypes
<1>5. seen' \in [JobIds -> SUBSET Products] /\ met' \in [JobIds -> SUBSET Products]
  BY <1>0, <1>1, TouchedTyped, VisitedTyped DEF Tables, IndexItem
<1>6. reg' \in [Products -> {"NONE", "SHOWN", "HIDDEN"}]
  BY <1>0, <1>1 DEF Tables, IndexItem
<1>7. Tables'
  BY <1>0, <1>5, <1>6 DEF Tables, IndexItem, World
<1> QED
  BY <1>4, <1>7, TypedStep

LEMMA TypedItemFails ==
  ASSUME Typed, NEW w \in Workers, ItemFails(w)
  PROVE  Typed'
<1>0. wk[w] \in Tasks /\ wk \in [Workers -> Tasks] /\ TaskTypes(w) /\ Tables
  BY Parts
<1>w. wk[w] \in Tasks /\ wk \in [Workers -> Tasks] /\ TaskTypes(w)
  BY <1>0
<1>1. wk[w].item \in Products /\ wk[w].id \in JobIds /\ wk[w].pc = "item"
  BY <1>w DEF ItemFails, TaskTypes
<1>2. Throw(w) \/ (Goto(w, "save") /\ UNCHANGED lease)
  <2>1. CASE wk[w].lost
    BY <2>1 DEF ItemFails
  <2>2. CASE ~wk[w].lost
    BY <2>2 DEF ItemFails
  <2> QED
    BY <2>1, <2>2
<1>3. Throw(w) => Leave(w, "fail") /\ Freed(w)
  BY DEF Throw
<1>4. Turn(w)
  BY <1>w, <1>1, <1>2, <1>3, LeaveTyped, GotoTyped DEF Steps
<1>5. seen' \in [JobIds -> SUBSET Products] /\ met' \in [JobIds -> SUBSET Products]
  BY <1>0, <1>1, TouchedTyped, VisitedTyped DEF Tables, ItemFails
<1>6. lease' \in Workers \cup {None, Dead}
  BY <1>0, <1>2, <1>3, FreedTyped DEF Tables
<1>7. Tables'
  BY <1>0, <1>5, <1>6 DEF Tables, ItemFails, World
<1> QED
  BY <1>4, <1>7, TypedStep

LEMMA TypedSavePage ==
  ASSUME Typed, NEW w \in Workers, SavePage(w)
  PROVE  Typed'
<1>0. wk[w] \in Tasks /\ wk \in [Workers -> Tasks] /\ TaskTypes(w) /\ Tables
  BY Parts
<1>w. wk[w] \in Tasks /\ wk \in [Workers -> Tasks] /\ TaskTypes(w)
  BY <1>0
<1> DEFINE on == wk[w].more /\ ~wk[w].stopped
<1>1. wk[w].id \in JobIds /\ wk[w].pc = "save" /\ wk[w].item \in 0..CatalogSize /\ 0 \in 0..CatalogSize
  BY <1>w, Numbers DEF SavePage, TaskTypes, Tasks
<1>2. CASE Throw(w) /\ UNCHANGED job
  <2>1. Leave(w, "fail") /\ Freed(w)
    BY <1>2 DEF Throw
  <2>2. Turn(w)
    BY <1>w, <1>1, <2>1, LeaveTyped
  <2>3. lease' \in Workers \cup {None, Dead}
    BY <1>0, <2>1, FreedTyped DEF Tables
  <2>4. Tables'
    BY <1>0, <1>2, <2>3 DEF Tables, SavePage, World
  <2> QED
    BY <2>2, <2>4, TypedStep
<1>3. CASE ~(wk[w].lost \/ ~Current(w))
  <2>1. PICK pc \in {"page", "done", "list"} :
          wk' = [wk EXCEPT ![w].pos = wk[w].item, ![w].item = 0, ![w].more = FALSE, ![w].pc = pc]
    <3>1. (CASE on -> "page" [] wk[w].stopped -> "done" [] OTHER -> "list") \in {"page", "done", "list"}
      BY <1>w DEF Tasks
    <3> QED
      BY <1>3, <3>1 DEF SavePage
  <2>2. wk'[w] \in Tasks /\ wk'[w].id = wk[w].id /\ wk'[w].pc = pc
    BY <1>w, <1>1, <2>1 DEF Tasks, Steps
  <2>3. Turn(w)
    BY <1>w, <1>1, <2>1, <2>2 DEF Turn, TaskTypes
  <2>4. PICK c \in 0..CatalogSize :
          job' = [job EXCEPT ![wk[w].id].cursor = c, ![wk[w].id].old = FALSE]
    BY <1>1, <1>3 DEF SavePage
  <2>5. job' \in [JobIds -> JobRows]
    BY <1>0, <1>1, <2>4, JobTyped DEF Tables
  <2>6. Tables'
    BY <1>0, <1>3, <2>5 DEF Tables, SavePage, World
  <2> QED
    BY <2>3, <2>6, TypedStep
<1> QED
  BY <1>2, <1>3 DEF SavePage

LEMMA TypedListStale ==
  ASSUME Typed, NEW w \in Workers, ListStale(w)
  PROVE  Typed'
<1>0. wk[w] \in Tasks /\ wk \in [Workers -> Tasks] /\ TaskTypes(w) /\ Tables
  BY Parts
<1>w. wk[w] \in Tasks /\ wk \in [Workers -> Tasks] /\ TaskTypes(w)
  BY <1>0
<1>a. wk'[w] \in Tasks
  BY <1>w, TaskTyped DEF Tasks, Steps, ListStale
<1>b. TaskTypes(w)'
  BY <1>w, <1>a, TaskTyped DEF TaskTypes, Tasks, ListStale
<1>c. wk' = [wk EXCEPT ![w] = wk'[w]]
  BY <1>w DEF ListStale
<1>4. Turn(w)
  BY <1>w, <1>a, <1>b, <1>c DEF Turn
<1>2. Tables'
  BY <1>0 DEF Tables, TaskTypes, Tasks, ListStale, World
<1> QED
  BY <1>2, <1>4, TypedStep

LEMMA TypedDropMissing ==
  ASSUME Typed, NEW w \in Workers, DropMissing(w)
  PROVE  Typed'
<1>0. wk[w] \in Tasks /\ wk \in [Workers -> Tasks] /\ TaskTypes(w) /\ Tables
  BY Parts
<1>w. wk[w] \in Tasks /\ wk \in [Workers -> Tasks] /\ TaskTypes(w)
  BY <1>0
<1>1. wk[w].id \in JobIds /\ wk[w].pc = "drop"
  BY <1>w DEF DropMissing, TaskTypes
<1>2. PICK pc \in {"list", "clean"}, rest \in SUBSET Products, off \in SUBSET Products :
        wk' = [wk EXCEPT ![w].batch = rest, ![w].off = off, ![w].item = 0, ![w].pc = pc]
  <2>1. wk[w].batch \ {wk[w].item} \subseteq Products /\ wk[w].off \ {wk[w].item} \subseteq Products
    BY <1>w DEF Tasks
  <2>2. (IF wk[w].batch \ {wk[w].item} = {} THEN "list" ELSE "clean") \in {"list", "clean"}
    OBVIOUS
  <2> QED
    BY <2>1, <2>2 DEF DropMissing
<1>a. pc \in Steps /\ 0 \in 0..CatalogSize
  BY Numbers DEF Steps
<1>3. wk'[w] \in Tasks /\ wk'[w].id = wk[w].id /\ wk'[w].pc = pc
  BY <1>w, <1>a, <1>2 DEF Tasks
<1>4. Turn(w)
  BY <1>w, <1>1, <1>2, <1>3 DEF Turn, TaskTypes
<1>7. Tables'
  BY <1>0 DEF Tables, DropMissing, World
<1> QED
  BY <1>4, <1>7, TypedStep

LEMMA TypedMarkDone ==
  ASSUME Typed, NEW w \in Workers, MarkDone(w)
  PROVE  Typed'
<1>0. wk[w] \in Tasks /\ wk \in [Workers -> Tasks] /\ TaskTypes(w) /\ Tables
  BY Parts
<1>w. wk[w] \in Tasks /\ wk \in [Workers -> Tasks] /\ TaskTypes(w)
  BY <1>0
<1>1. wk[w].id \in JobIds /\ wk[w].pc = "done"
  BY <1>w DEF MarkDone, TaskTypes
<1>2. \/ Leave(w, "fail") /\ Freed(w) /\ UNCHANGED job
      \/ Leave(w, "exit") /\ UNCHANGED lease
  BY DEF MarkDone, Throw
<1>3. \/ UNCHANGED job
      \/ job' = [job EXCEPT ![wk[w].id].status = "DONE", ![wk[w].id].cursor = 0,
                            ![wk[w].id].old = FALSE]
  BY DEF MarkDone
<1>4. Turn(w)
  BY <1>w, <1>1, <1>2, LeaveTyped
<1>5. job' \in [JobIds -> JobRows]
  BY <1>0, <1>1, <1>3, Numbers DEF Tables, JobRows, Statuses
<1>6. lease' \in Workers \cup {None, Dead}
  BY <1>0, <1>2, FreedTyped DEF Tables
<1>7. Tables'
  BY <1>0, <1>5, <1>6 DEF Tables, MarkDone, World
<1> QED
  BY <1>4, <1>7, TypedStep

LEMMA TypedExit ==
  ASSUME Typed, NEW w \in Workers, Exit(w)
  PROVE  Typed'
<1>0. wk[w] \in Tasks /\ wk \in [Workers -> Tasks] /\ TaskTypes(w) /\ Tables
  BY Parts
<1>w. wk[w] \in Tasks /\ wk \in [Workers -> Tasks] /\ TaskTypes(w)
  BY <1>0
<1>1. wk[w].id \in JobIds /\ wk[w].pc = "exit" /\ Freed(w)
  BY <1>w DEF Exit, TaskTypes
<1>2. wk' = [wk EXCEPT ![w] = Idle] \/ Leave(w, "fail")
  BY DEF Exit
<1>4. Turn(w)
  BY <1>w, <1>1, <1>2, LeaveTyped, EndTyped
<1>6. lease' \in Workers \cup {None, Dead}
  BY <1>0, <1>1, FreedTyped DEF Tables
<1>7. Tables'
  BY <1>0, <1>6 DEF Tables, Exit, World
<1> QED
  BY <1>4, <1>7, TypedStep

LEMMA TypedMarkFailed ==
  ASSUME Typed, NEW w \in Workers, MarkFailed(w)
  PROVE  Typed'
<1>0. wk[w] \in Tasks /\ wk \in [Workers -> Tasks] /\ TaskTypes(w) /\ Tables
  BY Parts
<1>w. wk[w] \in Tasks /\ wk \in [Workers -> Tasks] /\ TaskTypes(w)
  BY <1>0
<1>1. wk[w].id \in JobIds /\ wk[w].pc = "fail"
  BY <1>w DEF MarkFailed, TaskTypes
<1>3. \/ UNCHANGED job
      \/ job' = [job EXCEPT ![wk[w].id].status = "FAILED", ![wk[w].id].old = FALSE]
  BY DEF MarkFailed
<1>4. Turn(w)
  BY <1>w, EndTyped DEF MarkFailed
<1>5. job' \in [JobIds -> JobRows]
  BY <1>0, <1>1, <1>3 DEF Tables, JobRows, Statuses
<1>7. Tables'
  BY <1>0, <1>5 DEF Tables, MarkFailed, World
<1> QED
  BY <1>4, <1>7, TypedStep

LEMMA TypedTaskFails ==
  ASSUME Typed, NEW w \in Workers, TaskFails(w)
  PROVE  Typed'
<1>0. wk[w] \in Tasks /\ wk \in [Workers -> Tasks] /\ TaskTypes(w) /\ Tables
  BY Parts
<1>w. wk[w] \in Tasks /\ wk \in [Workers -> Tasks] /\ TaskTypes(w)
  BY <1>0
<1>a. wk'[w] \in Tasks
  BY <1>w, TaskTyped DEF Tasks, Steps, TaskFails, Throw, Leave
<1>b. TaskTypes(w)'
  BY <1>w, <1>a, TaskTyped DEF TaskTypes, Tasks, TaskFails, Throw, Leave
<1>c. wk' = [wk EXCEPT ![w] = wk'[w]]
  BY <1>w DEF TaskFails, Throw, Leave
<1>4. Turn(w)
  BY <1>w, <1>a, <1>b, <1>c DEF Turn
<1>2. Tables'
  BY <1>0 DEF Tables, TaskTypes, Tasks, TaskFails, Throw, Freed, World
<1> QED
  BY <1>2, <1>4, TypedStep

LEMMA TypedHeartbeat ==
  ASSUME Typed, NEW w \in Workers, Heartbeat(w)
  PROVE  Typed'
<1>0. wk[w] \in Tasks /\ wk \in [Workers -> Tasks] /\ TaskTypes(w) /\ Tables
  BY Parts
<1>w. wk[w] \in Tasks /\ wk \in [Workers -> Tasks] /\ TaskTypes(w)
  BY <1>0
<1>1. wk[w].id \in JobIds /\ wk[w].pc \in Running
  BY <1>w DEF Heartbeat, TaskTypes, Running
<1>2. UNCHANGED wk \/ wk' = [wk EXCEPT ![w].lost = TRUE]
  BY DEF Heartbeat
<1>3. UNCHANGED job \/ job' = [job EXCEPT ![wk[w].id].old = FALSE]
  BY DEF Heartbeat, Refreshed
<1>a. wk'[w] \in Tasks /\ wk'[w].id = wk[w].id /\ wk'[w].pc = wk[w].pc /\ wk'[w].item = wk[w].item
  <2>1. CASE UNCHANGED wk
    BY <1>w, <2>1
  <2>2. CASE wk' = [wk EXCEPT ![w].lost = TRUE]
    BY <1>w, <2>2 DEF Tasks
  <2> QED
    BY <1>2, <2>1, <2>2
<1>4. Turn(w)
  BY <1>w, <1>1, <1>2, <1>a DEF Turn, TaskTypes, Running
<1>5. job' \in [JobIds -> JobRows]
  <2>1. CASE UNCHANGED job
    BY <1>0, <2>1 DEF Tables
  <2>2. CASE job' = [job EXCEPT ![wk[w].id].old = FALSE]
    <3>1. job[wk[w].id] \in JobRows /\ [job[wk[w].id] EXCEPT !.old = FALSE] \in JobRows
      BY <1>0, <1>1 DEF Tables, JobRows
    <3> QED
      BY <1>0, <1>1, <2>2, <3>1 DEF Tables
  <2> QED
    BY <1>3, <2>1, <2>2
<1>7. Tables'
  BY <1>0, <1>5 DEF Tables, Heartbeat, World
<1> QED
  BY <1>4, <1>7, TypedStep

LEMMA TypedStall ==
  ASSUME Typed, NEW w \in Workers, Stall(w)
  PROVE  Typed'
<1>0. wk[w] \in Tasks /\ wk \in [Workers -> Tasks] /\ TaskTypes(w) /\ Tables
  BY Parts
<1>w. wk[w] \in Tasks /\ wk \in [Workers -> Tasks] /\ TaskTypes(w)
  BY <1>0
<1>1. wk[w].id \in JobIds
  BY <1>w DEF Stall, TaskTypes, Running
<1>3. UNCHANGED job \/ job' = [job EXCEPT ![wk[w].id].old = TRUE]
  BY DEF Stall
<1>4. Turn(w)
  BY <1>w DEF Turn, TaskTypes, Stall
<1>5. job' \in [JobIds -> JobRows]
  <2>1. CASE UNCHANGED job
    BY <1>0, <2>1 DEF Tables
  <2>2. CASE job' = [job EXCEPT ![wk[w].id].old = TRUE]
    <3>1. job[wk[w].id] \in JobRows /\ [job[wk[w].id] EXCEPT !.old = TRUE] \in JobRows
      BY <1>0, <1>1 DEF Tables, JobRows
    <3> QED
      BY <1>0, <1>1, <2>2, <3>1 DEF Tables
  <2> QED
    BY <1>3, <2>1, <2>2
<1>7. Tables'
  BY <1>0, <1>5 DEF Tables, Stall
<1> QED
  BY <1>4, <1>7, TypedStep

LEMMA TypedCrash ==
  ASSUME Typed, NEW w \in Workers, Crash(w)
  PROVE  Typed'
<1>0. wk[w] \in Tasks /\ wk \in [Workers -> Tasks] /\ TaskTypes(w) /\ Tables
  BY Parts
<1>w. wk[w] \in Tasks /\ wk \in [Workers -> Tasks] /\ TaskTypes(w)
  BY <1>0
<1>a. wk'[w] \in Tasks
  BY <1>w, TaskTyped DEF Tasks, Steps, Crash
<1>b. TaskTypes(w)'
  BY <1>w, <1>a, TaskTyped DEF TaskTypes, Tasks, Crash
<1>c. wk' = [wk EXCEPT ![w] = wk'[w]]
  BY <1>w DEF Crash
<1>4. Turn(w)
  BY <1>w, <1>a, <1>b, <1>c DEF Turn
<1>2. Tables'
  BY <1>0 DEF Tables, TaskTypes, Tasks, Crash, World
<1> QED
  BY <1>2, <1>4, TypedStep

LEMMA TypedKeepStale ==
  ASSUME Typed, NEW w \in Workers, NEW p \in Products, KeepStale(w, p)
  PROVE  Typed'
<1>0. wk[w] \in Tasks /\ wk \in [Workers -> Tasks] /\ TaskTypes(w) /\ Tables
  BY Parts
<1>w. wk[w] \in Tasks /\ wk \in [Workers -> Tasks] /\ TaskTypes(w)
  BY <1>0
<1>a. wk'[w] \in Tasks
  BY <1>w, TaskTyped DEF Tasks, Steps, KeepStale, Processed
<1>b. TaskTypes(w)'
  BY <1>w, <1>a, TaskTyped DEF TaskTypes, Tasks, KeepStale, Processed
<1>c. wk' = [wk EXCEPT ![w] = wk'[w]]
  BY <1>w DEF KeepStale, Processed
<1>4. Turn(w)
  BY <1>w, <1>a, <1>b, <1>c DEF Turn
<1>2. Tables'
  BY <1>0 DEF Tables, TaskTypes, Tasks, KeepStale, Seen, Touched, World
<1> QED
  BY <1>2, <1>4, TypedStep

LEMMA TypedHideStale ==
  ASSUME Typed, NEW w \in Workers, NEW p \in Products, HideStale(w, p)
  PROVE  Typed'
<1>0. wk[w] \in Tasks /\ wk \in [Workers -> Tasks] /\ TaskTypes(w) /\ Tables
  BY Parts
<1>w. wk[w] \in Tasks /\ wk \in [Workers -> Tasks] /\ TaskTypes(w)
  BY <1>0
<1>a. wk'[w] \in Tasks
  BY <1>w, TaskTyped DEF Tasks, Steps, HideStale, Processed
<1>b. TaskTypes(w)'
  BY <1>w, <1>a, TaskTyped DEF TaskTypes, Tasks, HideStale, Processed
<1>c. wk' = [wk EXCEPT ![w] = wk'[w]]
  BY <1>w DEF HideStale, Processed
<1>4. Turn(w)
  BY <1>w, <1>a, <1>b, <1>c DEF Turn
<1>2. Tables'
  BY <1>0 DEF Tables, TaskTypes, Tasks, HideStale, Hidden, Seen, Touched, World
<1> QED
  BY <1>2, <1>4, TypedStep

LEMMA TypedHideMissing ==
  ASSUME Typed, NEW w \in Workers, NEW p \in Products, HideMissing(w, p)
  PROVE  Typed'
<1>0. wk[w] \in Tasks /\ wk \in [Workers -> Tasks] /\ TaskTypes(w) /\ Tables
  BY Parts
<1>w. wk[w] \in Tasks /\ wk \in [Workers -> Tasks] /\ TaskTypes(w)
  BY <1>0
<1>1. wk[w].id \in JobIds /\ wk' = [wk EXCEPT ![w].pc = "drop", ![w].item = p]
  BY <1>w DEF HideMissing, TaskTypes
<1>2. p \in 0..CatalogSize
  BY Numbers DEF Products
<1>3. wk'[w] \in Tasks /\ wk'[w].id = wk[w].id /\ wk'[w].pc = "drop"
  BY <1>w, <1>1, <1>2 DEF Tasks, Steps
<1>4. Turn(w)
  BY <1>w, <1>1, <1>3 DEF Turn, TaskTypes
<1>7. Tables'
  BY <1>0 DEF Tables, HideMissing, Hidden, World
<1> QED
  BY <1>4, <1>7, TypedStep

\* What happens beside the workers.
LEMMA TypedBeside ==
  ASSUME Typed, UNCHANGED wk, Tables'
  PROVE  Typed'
BY Parts, PartsNext DEF TaskTypes

\* A row is written, if its id is one.
LEMMA RowWritten ==
  ASSUME Tables, NEW j, NEW r, job' = [job EXCEPT ![j] = r], j \in JobIds => r \in JobRows
  PROVE  job' \in [JobIds -> JobRows]
<1>1. CASE j \in JobIds
  BY <1>1 DEF Tables
<1>2. CASE j \notin JobIds
  BY <1>2 DEF Tables
<1> QED
  BY <1>1, <1>2

LEMMA TypedWorld ==
  ASSUME Typed,
         \/ \E r \in Reasons : Coalesce(r) \/ Ask(r)
         \/ Insert \/ RetryByHand \/ Terminalize \/ LeaseExpires
         \/ \E j \in JobIds : Age(j)
         \/ \E p \in Products : Edit(p) \/ ProductJob(p)
  PROVE  Typed'
<1>0. /\ Tables /\ 0 \in 0..MaxAttempts
      /\ \A j \in JobIds : job[j] \in JobRows
  BY Parts, Numbers DEF Tables
<1>1. ASSUME NEW reason \in Reasons, Coalesce(reason)
      PROVE  Typed'
  <2> DEFINE j == Max(WithStatus("PENDING"))
  <2>1. PICK r : /\ r = [job[j] EXCEPT !.reason = reason]
                 /\ job' = [job EXCEPT ![j] = r]
    BY <1>1 DEF Coalesce
  <2>2. reason \in DOMAIN Priority
    BY ReasonsKnown
  <2>3. j \in JobIds => r \in JobRows
    BY <1>0, <2>1, <2>2 DEF JobRows
  <2>4. Tables'
    BY <1>0, <1>1, <2>1, <2>3, RowWritten DEF Tables, Coalesce
  <2> QED
    BY <1>1, <2>4, TypedBeside DEF Coalesce
<1>2. ASSUME NEW reason \in Reasons, Ask(reason)
      PROVE  Typed'
  BY <1>0, <1>2, TypedBeside DEF Ask, Tables
<1>3. CASE Insert
  <2> DEFINE j == Min(WithStatus("NONE"))
  <2>1. PICK r : /\ r = [job[j] EXCEPT !.status = "PENDING", !.reason = asked]
                 /\ job' = [job EXCEPT ![j] = r]
    BY <1>3 DEF Insert
  <2>2. asked \in DOMAIN Priority /\ "PENDING" \in Statuses
    BY <1>0, <1>3, ReasonsKnown DEF Insert, Tables, Statuses
  <2>3. j \in JobIds => r \in JobRows
    BY <1>0, <2>1, <2>2 DEF JobRows
  <2>4. Tables'
    BY <1>0, <1>3, <2>1, <2>3, RowWritten DEF Tables, Insert
  <2> QED
    BY <1>3, <2>4, TypedBeside DEF Insert
<1>4. CASE RetryByHand
  <2> DEFINE j == Max(WithStatus("FAILED"))
  <2>1. PICK r : /\ r = [job[j] EXCEPT !.status = "PENDING", !.attempts = 0]
                 /\ job' = [job EXCEPT ![j] = r]
    BY <1>4 DEF RetryByHand
  <2>2. "PENDING" \in Statuses
    BY DEF Statuses
  <2>3. j \in JobIds => r \in JobRows
    BY <1>0, <2>1, <2>2 DEF JobRows
  <2>4. Tables'
    BY <1>0, <1>4, <2>1, <2>3, RowWritten DEF Tables, RetryByHand
  <2> QED
    BY <1>4, <2>4, TypedBeside DEF RetryByHand
<1>5. CASE Terminalize
  <2>0. PICK j \in WithStatus("PROCESSING") :
          job' = [job EXCEPT ![j].status = "FAILED", ![j].old = FALSE]
    BY <1>5 DEF Terminalize
  <2>1. PICK r : /\ r = [job[j] EXCEPT !.status = "FAILED", !.old = FALSE]
                 /\ job' = [job EXCEPT ![j] = r]
    BY <2>0
  <2>2. "FAILED" \in Statuses
    BY DEF Statuses
  <2>3. j \in JobIds => r \in JobRows
    BY <1>0, <2>1, <2>2 DEF JobRows
  <2>4. Tables'
    BY <1>0, <1>5, <2>1, <2>3, RowWritten DEF Tables, Terminalize
  <2> QED
    BY <1>5, <2>4, TypedBeside DEF Terminalize
<1>6. CASE LeaseExpires
  BY <1>0, <1>6, TypedBeside DEF LeaseExpires, Tables
<1>7. ASSUME NEW j \in JobIds, Age(j)
      PROVE  Typed'
  <2>1. PICK r : /\ r = [job[j] EXCEPT !.old = TRUE]
                 /\ job' = [job EXCEPT ![j] = r]
    BY <1>7 DEF Age
  <2>3. j \in JobIds => r \in JobRows
    BY <1>0, <2>1 DEF JobRows
  <2>4. Tables'
    BY <1>0, <1>7, <2>1, <2>3, RowWritten DEF Tables, Age
  <2> QED
    BY <1>7, <2>4, TypedBeside DEF Age
<1>8. ASSUME NEW p \in Products, Edit(p)
      PROVE  Typed'
  <2>1. store' \in [Products -> Shelf]
    BY <1>0, <1>8 DEF Edit, Tables
  <2>2. down' \in [JobIds -> SUBSET Products]
    BY <1>0, <1>8 DEF Edit, Tables
  <2>3. Tables'
    BY <1>0, <1>8, <2>1, <2>2 DEF Tables, Edit
  <2> QED
    BY <1>8, <2>3, TypedBeside DEF Edit
<1>9. ASSUME NEW p \in Products, ProductJob(p)
      PROVE  Typed'
  <2>1. reg' \in [Products -> {"NONE", "SHOWN", "HIDDEN"}]
    BY <1>0, <1>9 DEF ProductJob, Tables
  <2>2. seen' \in [JobIds -> SUBSET Products]
    BY <1>0, <1>9 DEF ProductJob, Tables
  <2>3. Tables'
    BY <1>0, <1>9, <2>1, <2>2 DEF Tables, ProductJob
  <2> QED
    BY <1>9, <2>3, TypedBeside DEF ProductJob
<1> QED
  BY <1>1, <1>2, <1>3, <1>4, <1>5, <1>6, <1>7, <1>8, <1>9

LEMMA TypedNext == Typed /\ [Next]_vars => Typed'
<1> SUFFICES ASSUME Typed, [Next]_vars PROVE Typed'
  OBVIOUS
<1>1. ASSUME NEW w \in Workers, Scan(w)
      PROVE  Typed'
  BY <1>1, TypedSelect, TypedClaim, TypedReread, TypedEnter, TypedWaitTimesOut, TypedStopAtLimit,
     TypedFetchPage, TypedIndexItem, TypedItemFails, TypedSavePage, TypedListStale,
     TypedDropMissing, TypedMarkDone, TypedExit, TypedMarkFailed, TypedKeepStale,
     TypedHideStale, TypedHideMissing DEF Scan
<1>2. ASSUME NEW w \in Workers, TaskFails(w) \/ Heartbeat(w) \/ Stall(w) \/ Crash(w)
      PROVE  Typed'
  BY <1>2, TypedTaskFails, TypedHeartbeat, TypedStall, TypedCrash
<1>3. CASE UNCHANGED vars
  <2>1. Tables'
    BY <1>3, Parts DEF vars, Tables
  <2> QED
    BY <1>3, <2>1, TypedBeside DEF vars
<1> QED
  BY <1>1, <1>2, <1>3, TypedWorld DEF Next

\* The tables and the workers' locals keep their types.
THEOREM TypeCorrect == Spec => []TypeOK
<1>1. Typed => TypeOK
  BY DEF Typed
<1> QED
  BY <1>1, TypedInit, TypedNext, PTL DEF Spec
-------------------------------------------------------------------------------
(* Scans *)

Working(w) == wk[w].pc \notin {"idle", "claim"}

\* What is still owed to a job lies after its cursor.
JobOk(j) == /\ ~job[j].started => job[j].cursor = 0
            /\ job[j].started => Products \ Live \subseteq down[j]
            /\ \A x \in Owed(j) : x > job[j].cursor

\* What is still owed lies after the place a worker has reached, and is nothing
\* once it takes its scan for complete; what it found gone was gone.
Reached(t, owed) ==
  /\ t.pc \in {"wait", "page", "item", "save"} => \A x \in owed : x > t.pos
  /\ t.pc = "item" => \A x \in owed : x >= t.item
  /\ t.pc = "save" => \A x \in owed : x > t.item
  /\ t.pc \in {"item", "save"} /\ ~t.more => \A x \in owed : x <= t.item
  /\ t.pc \in {"list", "clean", "drop", "done"} /\ ~t.stopped => owed = {}
Cleans(t, gone) ==
  /\ t.pc \in {"clean", "drop"} => t.off \subseteq t.batch /\ t.off \subseteq gone
  /\ t.pc = "drop" => t.item \in gone
TaskOk(w) == Working(w) => /\ job[wk[w].id].started
                           /\ Reached(wk[w], Owed(wk[w].id))
                           /\ Cleans(wk[w], down[wk[w].id])

Scans == (\A j \in JobIds : JobOk(j)) /\ (\A w \in Workers : TaskOk(w))
LEMMA ScansInit == Init => Scans
<1> SUFFICES ASSUME Init PROVE Scans
  OBVIOUS
<1>1. \A w \in Workers : ~Working(w)
  BY TaskTyped DEF Init, Working
<1>2. \A j \in JobIds : JobOk(j)
  BY DEF Init, JobOk, NoJob, Owed, Products
<1> QED
  BY <1>1, <1>2 DEF Scans, TaskOk

\* A step after which no more is owed to job j, and its cursor is where it was
\* or at the start again.
OwedNext(j) == Products \ (met'[j] \cup down'[j])
JobKept(j) ==
  /\ OwedNext(j) \subseteq Owed(j) /\ down[j] \subseteq down'[j]
  /\ job'[j].started = job[j].started /\ job'[j].cursor \in {0, job[j].cursor}
  /\ Live \ Live' \subseteq down'[j]

LEMMA JobStays ==
  ASSUME NEW j \in JobIds, JobOk(j), JobKept(j)
  PROVE  JobOk(j)'
<1>1. \A x \in Owed(j)' : x \in Owed(j) /\ x > 0
  BY DEF JobKept, Owed, OwedNext, Products
<1>2. \A x \in Owed(j)' : x > job'[j].cursor
  BY <1>1 DEF JobKept, JobOk
<1>3. job'[j].started => Products \ Live' \subseteq down'[j]
  BY DEF JobKept, JobOk
<1> QED
  BY <1>2, <1>3 DEF JobKept, JobOk

\* What there is to show of a worker after a step.
LEMMA NextTask ==
  ASSUME NEW w \in Workers, NEW j, wk'[w].id = j,
         wk'[w].pc \notin {"idle", "claim"} => /\ job'[j].started
                                                /\ Reached(wk'[w], OwedNext(j))
                                                /\ Cleans(wk'[w], down'[j])
  PROVE  TaskOk(w)'
BY DEF TaskOk, Working, Owed, OwedNext

\* A worker that stands still.
LEMMA TaskStays ==
  ASSUME NEW w \in Workers, TaskOk(w), wk'[w] = wk[w],
         Working(w) => JobKept(wk[w].id)
  PROVE  TaskOk(w)'
<1> SUFFICES ASSUME Working(w) PROVE TaskOk(w)'
  BY DEF TaskOk, Working
<1> DEFINE j == wk[w].id
<1>1. OwedNext(j) \subseteq Owed(j) /\ down[j] \subseteq down'[j] /\ job'[j].started
  BY DEF JobKept, TaskOk
<1>2. Reached(wk[w], Owed(j)) /\ Cleans(wk[w], down[j])
  BY DEF TaskOk
<1>3. Reached(wk'[w], OwedNext(j))
  BY <1>1, <1>2 DEF Reached
<1>4. Cleans(wk'[w], down'[j])
  BY <1>1, <1>2 DEF Cleans
<1> QED
  BY <1>1, <1>3, <1>4, NextTask

\* A step of w, beside which the other workers stand still.
Others(w) == \A v \in Workers \ {w} : wk'[v] = wk[v]

LEMMA ScansStep ==
  ASSUME Typed, Scans, NEW w \in Workers, Others(w),
         \A j \in JobIds : JobKept(j), TaskOk(w)'
  PROVE  Scans'
<1>1. \A v \in Workers : Working(v) => wk[v].id \in JobIds
  BY DEF Typed, Claims, Working
<1>2. \A v \in Workers \ {w} : TaskOk(v)'
  BY <1>1, TaskStays DEF Scans, Others
<1>3. \A j \in JobIds : JobOk(j)'
  BY JobStays DEF Scans
<1> QED
  BY <1>2, <1>3 DEF Scans

\* Steps that touch neither a job nor what is owed to it, or only a row's other
\* fields, or that visit one more product.
RowsKept == \A j \in JobIds : /\ job'[j].started = job[j].started
                              /\ job'[j].cursor \in {0, job[j].cursor}

LEMMA QuietStep ==
  ASSUME UNCHANGED <<store, down>>, RowsKept,
         \A j \in JobIds : met[j] \subseteq met'[j]
  PROVE  \A j \in JobIds : JobKept(j)
BY DEF JobKept, RowsKept, Owed, OwedNext, Live

LEMMA SameJobs ==
  ASSUME UNCHANGED <<job, met, store, down>>
  PROVE  /\ \A j \in JobIds : JobKept(j)
         /\ \A j : OwedNext(j) = Owed(j) /\ down'[j] = down[j] /\ job'[j] = job[j]
<1>1. RowsKept /\ \A j \in JobIds : met[j] \subseteq met'[j]
  BY DEF RowsKept
<1> QED
  BY <1>1, QuietStep DEF Owed, OwedNext

\* A worker out of its scan.
LEMMA TaskOver ==
  ASSUME NEW w \in Workers, TaskOk(w), Working(w), wk'[w].pc \in {"exit", "fail"},
         wk'[w].id = wk[w].id, job'[wk[w].id].started = job[wk[w].id].started
  PROVE  TaskOk(w)'
BY NextTask DEF TaskOk, Working, Reached, Cleans

LEMMA NoTask ==
  ASSUME NEW w \in Workers, wk'[w].pc \in {"idle", "claim"}
  PROVE  TaskOk(w)'
BY DEF TaskOk, Working

\* The facts each step of a worker starts from.
LEMMA AtWork ==
  ASSUME Typed, Scans, NEW w \in Workers, Working(w)
  PROVE  /\ wk \in [Workers -> Tasks] /\ wk[w] \in Tasks /\ wk[w].id \in JobIds
         /\ job[wk[w].id].started /\ TaskOk(w) /\ JobOk(wk[w].id)
         /\ Reached(wk[w], Owed(wk[w].id)) /\ Cleans(wk[w], down[wk[w].id])
BY Parts DEF TaskTypes, Scans, TaskOk, Working

LEMMA LeaveOver ==
  ASSUME wk \in [Workers -> Tasks], NEW w \in Workers, NEW pc \in {"fail", "exit"}, Leave(w, pc)
  PROVE  wk'[w].pc = pc /\ wk'[w].id = wk[w].id /\ Others(w)
<1>1. wk'[w] = [Idle EXCEPT !.pc = pc, !.id = wk[w].id, !.attempt = wk[w].attempt]
  BY DEF Leave
<1>2. wk'[w].pc = pc /\ wk'[w].id = wk[w].id
  BY <1>1, TaskTyped DEF Tasks
<1> QED
  BY <1>2 DEF Others, Leave

\* The steps that only take a worker out of its task.
LEMMA ScansEnd ==
  ASSUME Typed, Scans, NEW w \in Workers,
         WaitTimesOut(w) \/ TaskFails(w) \/ Exit(w) \/ Crash(w) \/ Select(w)
  PROVE  Scans'
<1>0. UNCHANGED <<job, met, store, down>>
  BY DEF WaitTimesOut, TaskFails, Exit, Crash, Select, World
<1>w. wk \in [Workers -> Tasks] /\ TaskOk(w)
  BY Parts DEF Scans
<1>1. CASE WaitTimesOut(w) \/ TaskFails(w) \/ (Exit(w) /\ Leave(w, "fail"))
  <2>1. Working(w) /\ Leave(w, "fail")
    BY <1>1 DEF WaitTimesOut, TaskFails, Exit, Throw, Working
  <2>2. Others(w) /\ TaskOk(w)'
    BY <1>0, <1>w, <2>1, LeaveOver, TaskOver
  <2> QED
    BY <1>0, <2>2, SameJobs, ScansStep
<1>2. CASE wk' = [wk EXCEPT ![w] = Idle]
  <2>1. Others(w) /\ TaskOk(w)'
    BY <1>w, <1>2, NoTask, TaskTyped DEF Others
  <2> QED
    BY <1>0, <2>1, SameJobs, ScansStep
<1>3. CASE Select(w)
  <2>1. PICK j \in JobIds :
          wk' = [wk EXCEPT ![w] = [Idle EXCEPT !.pc = "claim", !.id = j,
                       !.status = job[j].status, !.attempt = job[j].attempts]]
    BY <1>3 DEF Select
  <2>2. wk'[w].pc = "claim"
    BY <1>w, <2>1, TaskTyped DEF Tasks
  <2>3. Others(w) /\ TaskOk(w)'
    BY <1>w, <2>1, <2>2, NoTask DEF Others
  <2> QED
    BY <1>0, <2>3, SameJobs, ScansStep
<1> QED
  BY <1>1, <1>2, <1>3 DEF Exit, Crash

\* The steps of a scan that write no row of a job and visit nothing.
LEMMA ScansWalk ==
  ASSUME Typed, Scans, NEW w \in Workers, Working(w), UNCHANGED <<job, met, store, down>>,
         Others(w), wk'[w].id = wk[w].id,
         Reached(wk'[w], Owed(wk[w].id)), Cleans(wk'[w], down[wk[w].id])
  PROVE  Scans'
<1>1. job[wk[w].id].started
  BY AtWork
<1>2. TaskOk(w)'
  BY <1>1, NextTask, SameJobs
<1> QED
  BY <1>2, SameJobs, ScansStep

LEMMA ScansEnter ==
  ASSUME Typed, Scans, NEW w \in Workers, Enter(w)
  PROVE  Scans'
<1>0. Working(w) /\ UNCHANGED <<job, met, store, down>>
  BY DEF Enter, Working, World
<1>1. wk[w] \in Tasks /\ wk \in [Workers -> Tasks] /\ Reached(wk[w], Owed(wk[w].id)) /\ wk[w].pc = "wait"
  BY <1>0, AtWork DEF Enter
<1>2. CASE wk' = [wk EXCEPT ![w] = Idle]
  <2>1. Others(w) /\ TaskOk(w)'
    BY <1>1, <1>2, NoTask, TaskTyped DEF Others
  <2> QED
    BY <1>0, <2>1, SameJobs, ScansStep
<1>3. CASE Goto(w, "page")
  <2>1. wk'[w].pc = "page" /\ wk'[w].id = wk[w].id /\ wk'[w].pos = wk[w].pos /\ Others(w)
    BY <1>1, <1>3 DEF Goto, Tasks, Others
  <2>2. Reached(wk'[w], Owed(wk[w].id)) /\ Cleans(wk'[w], down[wk[w].id])
    BY <1>1, <2>1 DEF Reached, Cleans
  <2> QED
    BY <1>0, <2>1, <2>2, ScansWalk
<1> QED
  BY <1>2, <1>3 DEF Enter

LEMMA ScansStopAtLimit ==
  ASSUME Typed, Scans, NEW w \in Workers, StopAtLimit(w)
  PROVE  Scans'
<1>0. Working(w) /\ UNCHANGED <<job, met, store, down>>
  BY DEF StopAtLimit, Working, World
<1>1. wk[w] \in Tasks /\ wk \in [Workers -> Tasks]
  BY <1>0, AtWork
<1>2. wk'[w].pc = "done" /\ wk'[w].id = wk[w].id /\ wk'[w].stopped /\ Others(w)
  BY <1>1 DEF StopAtLimit, Tasks, Others
<1>3. Reached(wk'[w], Owed(wk[w].id)) /\ Cleans(wk'[w], down[wk[w].id])
  BY <1>2 DEF Reached, Cleans
<1> QED
  BY <1>0, <1>2, <1>3, ScansWalk

\* Of a set of products of which there is not more than one.
LEMMA AtMostOne ==
  ASSUME NEW S \in SUBSET Products, ~(Cardinality(S) > 1), NEW x \in S, NEW y \in S
  PROVE  x = y
<1>1. IsFiniteSet(Products)
  BY Numbers, FS_Interval DEF Products
<1>2. IsFiniteSet(S) /\ Cardinality(S) \in Nat
  BY <1>1, FS_Subset, FS_CardinalityType
<1>3. Cardinality(S) # 0
  BY <1>2, FS_EmptySet
<1>4. Cardinality(S) = 1
  BY <1>2, <1>3
<1>5. PICK z : S = {z}
  BY <1>2, <1>4, FS_Singleton
<1> QED
  BY <1>5

\* The page that is read holds the next product still owed, if any is owed.
LEMMA ScansFetchPage ==
  ASSUME Typed, Scans, NEW w \in Workers, FetchPage(w)
  PROVE  Scans'
<1>0. Working(w) /\ UNCHANGED <<job, met, store, down>>
  BY DEF FetchPage, Working, World
<1> DEFINE owed == Owed(wk[w].id)
           ahead == {p \in Live : p > wk[w].pos}
<1>1. /\ wk[w] \in Tasks /\ wk \in [Workers -> Tasks] /\ wk[w].pc = "page"
      /\ Reached(wk[w], owed) /\ JobOk(wk[w].id) /\ job[wk[w].id].started
  BY <1>0, AtWork DEF FetchPage
<1>2. ahead \subseteq Products /\ owed \subseteq Products
  BY DEF Live, Owed
<1>3. owed \subseteq ahead
  BY <1>1 DEF JobOk, Reached, Owed
<1>4. PICK item, more, pc :
        /\ item = (IF ahead = {} THEN 0 ELSE Min(ahead))
        /\ more = (Cardinality(ahead) > 1)
        /\ pc = (IF ahead = {} THEN "save" ELSE "item")
  OBVIOUS
<1>5. wk' = [wk EXCEPT ![w].pc = pc, ![w].item = item, ![w].more = more]
  BY <1>4 DEF FetchPage
<1>6. /\ wk'[w].pc = pc /\ wk'[w].item = item /\ wk'[w].more = more
      /\ wk'[w].id = wk[w].id /\ wk'[w].pos = wk[w].pos /\ Others(w)
  BY <1>1, <1>5 DEF Tasks, Others
<1>7. pc \in {"save", "item"}
  BY <1>4
<1>8. \A x \in owed : x > wk[w].pos
  BY <1>1 DEF Reached
<1>9. CASE ahead = {}
  <2>1. owed = {} /\ pc = "save"
    BY <1>3, <1>4, <1>9
  <2>2. Reached(wk'[w], owed) /\ Cleans(wk'[w], down[wk[w].id])
    BY <1>6, <2>1 DEF Reached, Cleans
  <2> QED
    BY <1>0, <1>6, <2>2, ScansWalk
<1>10. CASE ahead # {}
  <2>1. item \in ahead /\ pc = "item" /\ \A x \in owed : item <= x
    BY <1>2, <1>3, <1>4, <1>10, MinOfProducts
  <2>2. ASSUME ~more, NEW x \in owed
        PROVE  x <= item
    <3>1. ~(Cardinality(ahead) > 1)
      BY <1>4, <2>2
    <3>2. x = item
      BY <1>2, <1>3, <2>1, <3>1, AtMostOne
    <3> QED
      BY <1>2, <3>2 DEF Products
  <2>3. \A x \in owed : x >= item
    BY <1>2, <2>1 DEF Products
  <2>4. Reached(wk'[w], owed) /\ Cleans(wk'[w], down[wk[w].id])
    BY <1>6, <1>8, <2>1, <2>2, <2>3 DEF Reached, Cleans
  <2> QED
    BY <1>0, <1>6, <2>4, ScansWalk
<1> QED
  BY <1>9, <1>10

\* The cleanup starts from what is gone.
LEMMA ScansListStale ==
  ASSUME Typed, Scans, NEW w \in Workers, ListStale(w)
  PROVE  Scans'
<1>0. Working(w) /\ UNCHANGED <<job, met, store, down>>
  BY DEF ListStale, Working, World
<1>1. /\ wk[w] \in Tasks /\ wk \in [Workers -> Tasks] /\ wk[w].pc = "list"
      /\ Reached(wk[w], Owed(wk[w].id)) /\ JobOk(wk[w].id) /\ job[wk[w].id].started
  BY <1>0, AtWork DEF ListStale
<1> DEFINE stale == {p \in Products : reg[p] # "NONE" /\ p \notin seen[wk[w].id]}
           off == {p \in stale : store[p] # "LIVE"}
<1>2. PICK pc \in {"done", "clean"} :
        wk' = [wk EXCEPT ![w].pc = pc, ![w].batch = stale, ![w].off = off]
  <2>1. (IF stale = {} THEN "done" ELSE "clean") \in {"done", "clean"}
    OBVIOUS
  <2> QED
    BY <2>1 DEF ListStale
<1>3. /\ wk'[w].pc = pc /\ wk'[w].batch = stale /\ wk'[w].off = off
      /\ wk'[w].id = wk[w].id /\ wk'[w].stopped = wk[w].stopped /\ Others(w)
  BY <1>1, <1>2 DEF Tasks, Others
<1>4. off \subseteq stale /\ off \subseteq down[wk[w].id]
  BY <1>1, <1>2 DEF JobOk, Live
<1>5. Reached(wk'[w], Owed(wk[w].id)) /\ Cleans(wk'[w], down[wk[w].id])
  BY <1>1, <1>3, <1>4 DEF Reached, Cleans
<1> QED
  BY <1>0, <1>3, <1>5, ScansWalk

LEMMA ScansClean ==
  ASSUME Typed, Scans, NEW w \in Workers,
         DropMissing(w) \/ \E p \in Products : KeepStale(w, p) \/ HideStale(w, p)
  PROVE  Scans'
<1>0. Working(w) /\ UNCHANGED <<job, met, store, down>>
  BY DEF DropMissing, KeepStale, HideStale, Working, World
<1>1. /\ wk[w] \in Tasks /\ wk \in [Workers -> Tasks] /\ wk[w].pc \in {"clean", "drop"}
      /\ Reached(wk[w], Owed(wk[w].id)) /\ Cleans(wk[w], down[wk[w].id])
  BY <1>0, AtWork DEF DropMissing, KeepStale, HideStale
<1>2. PICK pc \in {"list", "clean"}, p \in 0..CatalogSize :
        \/ wk' = [wk EXCEPT ![w].batch = wk[w].batch \ {p}, ![w].off = wk[w].off \ {p},
                            ![w].pc = pc]
        \/ wk' = [wk EXCEPT ![w].batch = wk[w].batch \ {p}, ![w].off = wk[w].off \ {p},
                            ![w].item = 0, ![w].pc = pc]
  <2>0. \A p \in 0..CatalogSize :
          (IF wk[w].batch \ {p} = {} THEN "list" ELSE "clean") \in {"list", "clean"}
    OBVIOUS
  <2>1. CASE DropMissing(w)
    <3>1. wk[w].item \in 0..CatalogSize
      BY <1>1 DEF Tasks
    <3> QED
      BY <2>0, <2>1, <3>1 DEF DropMissing
  <2>2. ASSUME NEW p \in Products, KeepStale(w, p) \/ HideStale(w, p)
        PROVE  wk' = [wk EXCEPT ![w].batch = wk[w].batch \ {p}, ![w].off = wk[w].off \ {p},
                        ![w].pc = IF wk[w].batch \ {p} = {} THEN "list" ELSE "clean"]
    BY <2>2 DEF KeepStale, HideStale, Processed
  <2>3. Products \subseteq 0..CatalogSize
    BY Numbers DEF Products
  <2> QED
    BY <2>0, <2>1, <2>2, <2>3
<1>3. /\ wk'[w].pc = pc /\ wk'[w].batch = wk[w].batch \ {p} /\ wk'[w].off = wk[w].off \ {p}
      /\ wk'[w].id = wk[w].id /\ wk'[w].stopped = wk[w].stopped /\ Others(w)
  BY <1>1, <1>2 DEF Tasks, Others
<1>4. Reached(wk'[w], Owed(wk[w].id)) /\ Cleans(wk'[w], down[wk[w].id])
  BY <1>1, <1>3 DEF Reached, Cleans
<1> QED
  BY <1>0, <1>3, <1>4, ScansWalk

LEMMA ScansHideMissing ==
  ASSUME Typed, Scans, NEW w \in Workers, NEW p \in Products, HideMissing(w, p)
  PROVE  Scans'
<1>0. Working(w) /\ UNCHANGED <<job, met, store, down>>
  BY DEF HideMissing, Working, World
<1>1. /\ wk[w] \in Tasks /\ wk \in [Workers -> Tasks] /\ wk[w].pc = "clean" /\ p \in wk[w].off
      /\ Reached(wk[w], Owed(wk[w].id)) /\ Cleans(wk[w], down[wk[w].id])
  BY <1>0, AtWork DEF HideMissing
<1>2. wk' = [wk EXCEPT ![w].pc = "drop", ![w].item = p]
  BY DEF HideMissing
<1>3. /\ wk'[w].pc = "drop" /\ wk'[w].batch = wk[w].batch /\ wk'[w].off = wk[w].off
      /\ wk'[w].item = p /\ wk'[w].id = wk[w].id /\ wk'[w].stopped = wk[w].stopped /\ Others(w)
  BY <1>1, <1>2 DEF Tasks, Others
<1>4. Reached(wk'[w], Owed(wk[w].id)) /\ Cleans(wk'[w], down[wk[w].id])
  BY <1>1, <1>3 DEF Reached, Cleans
<1> QED
  BY <1>0, <1>3, <1>4, ScansWalk

\* The steps that write a row of a job: its cursor stays or starts again.
LEMMA RowFields ==
  ASSUME Tables, NEW j \in JobIds, NEW r, job' = [job EXCEPT ![j] = r],
         r.started = job[j].started, r.cursor \in {0, job[j].cursor}
  PROVE  RowsKept
BY DEF RowsKept, Tables

\* Heartbeats, a suspension and the closing of a job.
LEMMA ScansRow ==
  ASSUME Typed, Scans, NEW w \in Workers,
         Heartbeat(w) \/ Stall(w) \/ MarkDone(w) \/ MarkFailed(w)
  PROVE  Scans'
<1>0. Working(w) /\ UNCHANGED <<met, store, down>>
  BY DEF Heartbeat, Stall, MarkDone, MarkFailed, Working, Running, World
<1>1. /\ wk[w] \in Tasks /\ wk \in [Workers -> Tasks] /\ wk[w].id \in JobIds /\ TaskOk(w)
      /\ Reached(wk[w], Owed(wk[w].id)) /\ Cleans(wk[w], down[wk[w].id])
      /\ job[wk[w].id].started
  BY <1>0, AtWork
<1>2. Tables /\ job[wk[w].id] \in JobRows
  BY <1>1, Parts DEF Tables
<1>3. RowsKept
  <2>1. CASE UNCHANGED job
    BY <2>1 DEF RowsKept
  <2>2. CASE \E b \in BOOLEAN : job' = [job EXCEPT ![wk[w].id].old = b]
    <3>1. PICK b \in BOOLEAN : job' = [job EXCEPT ![wk[w].id].old = b]
      BY <2>2
    <3>2. PICK r : r = [job[wk[w].id] EXCEPT !.old = b] /\ job' = [job EXCEPT ![wk[w].id] = r]
      BY <3>1
    <3> QED
      BY <1>1, <1>2, <3>2, RowFields DEF JobRows
  <2>3. CASE MarkDone(w) /\ job' = [job EXCEPT ![wk[w].id].status = "DONE",
                                       ![wk[w].id].cursor = 0, ![wk[w].id].old = FALSE]
    <3>1. PICK r : /\ r = [job[wk[w].id] EXCEPT !.status = "DONE", !.cursor = 0, !.old = FALSE]
                   /\ job' = [job EXCEPT ![wk[w].id] = r]
      BY <2>3
    <3> QED
      BY <1>1, <1>2, <3>1, RowFields DEF JobRows
  <2>4. CASE MarkFailed(w) /\ job' = [job EXCEPT ![wk[w].id].status = "FAILED",
                                                 ![wk[w].id].old = FALSE]
    <3>1. PICK r : /\ r = [job[wk[w].id] EXCEPT !.status = "FAILED", !.old = FALSE]
                   /\ job' = [job EXCEPT ![wk[w].id] = r]
      BY <2>4
    <3> QED
      BY <1>1, <1>2, <3>1, RowFields DEF JobRows
  <2> QED
    BY <2>1, <2>2, <2>3, <2>4 DEF Heartbeat, Stall, MarkDone, MarkFailed, Refreshed
<1>4. \A j \in JobIds : JobKept(j)
  BY <1>0, <1>3, QuietStep
<1>5. job'[wk[w].id].started = job[wk[w].id].started
  BY <1>1, <1>3 DEF RowsKept
<1>6. CASE Heartbeat(w) \/ Stall(w)
  <2>1. UNCHANGED wk \/ wk' = [wk EXCEPT ![w].lost = TRUE]
    BY <1>6 DEF Heartbeat, Stall
  <2>2. /\ wk'[w].pc = wk[w].pc /\ wk'[w].pos = wk[w].pos /\ wk'[w].item = wk[w].item
        /\ wk'[w].more = wk[w].more /\ wk'[w].stopped = wk[w].stopped
        /\ wk'[w].batch = wk[w].batch /\ wk'[w].off = wk[w].off
        /\ wk'[w].id = wk[w].id /\ Others(w)
    <3>1. CASE UNCHANGED wk
      BY <3>1 DEF Others
    <3>2. CASE wk' = [wk EXCEPT ![w].lost = TRUE]
      BY <1>1, <3>2 DEF Tasks, Others
    <3> QED
      BY <2>1, <3>1, <3>2
  <2>3. OwedNext(wk[w].id) = Owed(wk[w].id) /\ down'[wk[w].id] = down[wk[w].id]
    BY <1>0 DEF Owed, OwedNext
  <2>4. Reached(wk'[w], OwedNext(wk[w].id)) /\ Cleans(wk'[w], down'[wk[w].id])
    BY <1>1, <2>2, <2>3 DEF Reached, Cleans
  <2>5. TaskOk(w)'
    BY <1>1, <1>5, <2>2, <2>4, NextTask
  <2> QED
    BY <1>4, <2>2, <2>5, ScansStep
<1>7. CASE MarkDone(w)
  <2>1. PICK pc \in {"fail", "exit"} : Leave(w, pc)
    BY <1>7 DEF MarkDone, Throw
  <2>2. TaskOk(w)' /\ Others(w)
    BY <1>0, <1>1, <1>5, <2>1, LeaveOver, TaskOver
  <2> QED
    BY <1>4, <2>2, ScansStep
<1>8. CASE MarkFailed(w)
  <2>1. Others(w) /\ TaskOk(w)'
    BY <1>1, <1>8, NoTask, TaskTyped DEF Others, MarkFailed
  <2> QED
    BY <1>4, <2>1, ScansStep
<1> QED
  BY <1>6, <1>7, <1>8

\* The product of the page is visited: what is still owed lies after it.
LEMMA ScansVisit ==
  ASSUME Typed, Scans, NEW w \in Workers, wk[w].pc = "item", UNCHANGED <<job, store, down>>,
         Visited(w), Others(w), wk'[w].pc = "save", wk'[w].id = wk[w].id,
         wk'[w].pos = wk[w].pos, wk'[w].item = wk[w].item, wk'[w].more = wk[w].more
  PROVE  Scans'
<1>0. Working(w) /\ Tables
  BY Parts DEF Working
<1>1. /\ wk[w] \in Tasks /\ wk[w].id \in JobIds /\ job[wk[w].id].started
      /\ Reached(wk[w], Owed(wk[w].id)) /\ wk[w].item \in Products
  BY <1>0, AtWork, Parts DEF TaskTypes
<1> DEFINE j == wk[w].id
           rest == OwedNext(j)
<1>2. met'[j] = met[j] \cup {wk[w].item} /\ \A i \in JobIds : met[i] \subseteq met'[i]
  BY <1>0, <1>1 DEF Visited, Tables
<1>3. \A i \in JobIds : JobKept(i)
  BY <1>2, QuietStep DEF RowsKept
<1>4. \A x \in rest : x \in Owed(j) /\ x # wk[w].item /\ x \in Products
  BY <1>2 DEF Owed, OwedNext
<1>5. \A x \in rest : x > wk[w].pos /\ x > wk[w].item /\ (~wk[w].more => x <= wk[w].item)
  BY <1>1, <1>4 DEF Reached, Products
<1>6. Reached(wk'[w], rest) /\ Cleans(wk'[w], down'[j])
  BY <1>5 DEF Reached, Cleans
<1>7. TaskOk(w)'
  BY <1>1, <1>6, NextTask
<1> QED
  BY <1>3, <1>7, ScansStep

LEMMA ScansItem ==
  ASSUME Typed, Scans, NEW w \in Workers, IndexItem(w) \/ ItemFails(w)
  PROVE  Scans'
<1>0. Working(w) /\ wk[w].pc = "item" /\ UNCHANGED <<job, store, down>>
  BY DEF IndexItem, ItemFails, Working, World
<1>1. wk[w] \in Tasks /\ wk \in [Workers -> Tasks] /\ TaskOk(w)
  BY <1>0, AtWork
<1>2. CASE Visited(w) /\ \E stopped \in BOOLEAN :
              \/ wk' = [wk EXCEPT ![w].pc = "save", ![w].stopped = stopped]
              \/ wk' = [wk EXCEPT ![w].pc = "save"]
  <2>1. /\ wk'[w].pc = "save" /\ wk'[w].id = wk[w].id /\ wk'[w].pos = wk[w].pos
        /\ wk'[w].item = wk[w].item /\ wk'[w].more = wk[w].more /\ Others(w)
    BY <1>1, <1>2 DEF Tasks, Others
  <2> QED
    BY <1>0, <1>2, <2>1, ScansVisit
<1>3. CASE Leave(w, "fail") /\ UNCHANGED met
  <2>1. TaskOk(w)' /\ Others(w)
    BY <1>0, <1>1, <1>3, LeaveOver, TaskOver
  <2> QED
    BY <1>0, <1>3, <2>1, SameJobs, ScansStep
<1>4. CASE IndexItem(w)
  <2>1. Visited(w) /\ \E stopped \in BOOLEAN : wk' = [wk EXCEPT ![w].pc = "save", ![w].stopped = stopped]
    BY <1>4 DEF IndexItem
  <2> QED
    BY <1>2, <2>1
<1>5. CASE ItemFails(w)
  <2>1. \/ Leave(w, "fail") /\ UNCHANGED met
        \/ Visited(w) /\ Goto(w, "save")
    <3>1. CASE wk[w].lost
      BY <1>5, <3>1 DEF ItemFails, Throw
    <3>2. CASE ~wk[w].lost
      BY <1>5, <3>2 DEF ItemFails, Throw
    <3> QED
      BY <3>1, <3>2
  <2> QED
    BY <1>2, <1>3, <2>1 DEF Goto
<1> QED
  BY <1>4, <1>5

\* A checkpoint: the cursor moves to the page's product, before all that is owed.
LEMMA ScansSavePage ==
  ASSUME Typed, Scans, NEW w \in Workers, SavePage(w)
  PROVE  Scans'
<1>0. Working(w) /\ wk[w].pc = "save" /\ UNCHANGED <<met, store, down>>
  BY DEF SavePage, Working, World
<1> DEFINE j == wk[w].id
           on == wk[w].more /\ ~wk[w].stopped
<1>1. /\ wk[w] \in Tasks /\ wk \in [Workers -> Tasks] /\ TaskOk(w) /\ j \in JobIds
      /\ Reached(wk[w], Owed(j)) /\ job[j].started
  BY <1>0, AtWork
<1>2. CASE Throw(w) /\ UNCHANGED job
  <2>1. TaskOk(w)' /\ Others(w)
    BY <1>0, <1>1, <1>2, LeaveOver, TaskOver DEF Throw
  <2> QED
    BY <1>0, <1>2, <2>1, SameJobs, ScansStep
<1>3. CASE ~(wk[w].lost \/ ~Current(w))
  <2>1. Tables /\ job[j] \in JobRows
    BY <1>1, Parts DEF Tables
  <2>2. PICK c : c = (IF on THEN wk[w].item ELSE 0)
    OBVIOUS
  <2>3. PICK r : r = [job[j] EXCEPT !.cursor = c, !.old = FALSE] /\ job' = [job EXCEPT ![j] = r]
    <3>1. job' = [job EXCEPT ![j].cursor = (IF on THEN wk[w].item ELSE 0), ![j].old = FALSE]
      BY <1>3 DEF SavePage
    <3>2. job' = [job EXCEPT ![j].cursor = c, ![j].old = FALSE]
      BY <2>2, <3>1
    <3> HIDE DEF j
    <3> QED
      BY <3>2
  <2>4. /\ job'[j].started = job[j].started /\ job'[j].cursor = c
        /\ \A i \in JobIds \ {j} : job'[i] = job[i]
    BY <1>1, <2>1, <2>3 DEF JobRows, Tables
  <2>5. PICK pc : pc = (CASE on -> "page" [] wk[w].stopped -> "done" [] OTHER -> "list")
    OBVIOUS
  <2>6. wk' = [wk EXCEPT ![w].pos = wk[w].item, ![w].item = 0, ![w].more = FALSE, ![w].pc = pc]
    BY <1>3, <2>5 DEF SavePage
  <2>7. /\ wk'[w].pc = pc /\ wk'[w].pos = wk[w].item /\ wk'[w].stopped = wk[w].stopped
        /\ wk'[w].id = j /\ Others(w)
    BY <1>1, <2>6 DEF Tasks, Others
  <2>8. /\ pc \in {"page", "done", "list"} /\ (pc = "page" => on)
        /\ pc \in {"done", "list"} /\ ~wk[w].stopped => ~wk[w].more
    BY <1>1, <2>5 DEF Tasks
  <2>9. \A x \in Owed(j) : x > wk[w].item /\ (~wk[w].more => x <= wk[w].item)
    BY <1>0, <1>1 DEF Reached
  <2>10. ~wk[w].more => Owed(j) = {}
    BY <1>1, <2>9 DEF Owed, Products, Tasks
  <2>11. OwedNext(j) = Owed(j) /\ down'[j] = down[j]
    BY <1>0 DEF Owed, OwedNext
  <2>12. Reached(wk'[w], OwedNext(j)) /\ Cleans(wk'[w], down'[j])
    BY <2>7, <2>8, <2>9, <2>10, <2>11 DEF Reached, Cleans
  <2>13. TaskOk(w)'
    BY <1>1, <2>4, <2>7, <2>12, NextTask
  <2>14. \A v \in Workers \ {w} : TaskOk(v)'
    <3>1. ASSUME NEW v \in Workers \ {w}
          PROVE  TaskOk(v)'
      <4>1. wk'[v] = wk[v] /\ TaskOk(v)
        BY <2>7 DEF Others, Scans
      <4>2. CASE Working(v)
        <5>1. wk[v].id \in JobIds /\ job[wk[v].id].started
          BY <4>1, <4>2, AtWork
        <5>2. job'[wk[v].id].started
          BY <1>1, <2>4, <5>1
        <5>3. OwedNext(wk[v].id) = Owed(wk[v].id) /\ down'[wk[v].id] = down[wk[v].id]
          BY <1>0 DEF Owed, OwedNext
        <5>4. Reached(wk[v], Owed(wk[v].id)) /\ Cleans(wk[v], down[wk[v].id])
          BY <4>1, <4>2 DEF TaskOk
        <5>5. Reached(wk'[v], OwedNext(wk[v].id)) /\ Cleans(wk'[v], down'[wk[v].id])
          BY <4>1, <5>3, <5>4
        <5> QED
          BY <4>1, <5>2, <5>5, NextTask
      <4>3. CASE ~Working(v)
        BY <4>1, <4>3, NoTask DEF Working
      <4> QED
        BY <4>2, <4>3
    <3> QED
      BY <3>1
  <2>15. ASSUME NEW i \in JobIds
         PROVE  JobOk(i)'
    <3>1. CASE i # j
      <4>1. JobKept(i)
        BY <1>0, <2>4, <3>1 DEF JobKept, Owed, OwedNext, Live
      <4> QED
        BY <4>1, JobStays DEF Scans
    <3>2. CASE i = j
      <4>1. JobOk(i) /\ job'[i].started /\ job[i].started
        BY <1>1, <2>4, <3>2 DEF Scans
      <4>2. \A x \in Owed(i) : x > 0 /\ x > wk[w].item
        BY <2>9, <3>2 DEF Owed, Products
      <4>3. \A x \in Owed(i) : x > job'[i].cursor
        BY <2>2, <2>4, <3>2, <4>2
      <4>4. Owed(i)' = Owed(i) /\ UNCHANGED <<store, down>>
        BY <1>0 DEF Owed
      <4> QED
        BY <4>1, <4>3, <4>4 DEF JobOk, Live
    <3> QED
      BY <3>1, <3>2
  <2> QED
    BY <2>13, <2>14, <2>15 DEF Scans
<1> QED
  BY <1>2, <1>3 DEF SavePage

\* A claim goes on from the cursor of its job; the first one starts the scan.
LEMMA ScansClaim ==
  ASSUME Typed, Scans, NEW w \in Workers, Claim(w)
  PROVE  Scans'
<1>0. UNCHANGED store
  BY DEF Claim
<1>1. wk \in [Workers -> Tasks] /\ TaskTypes(w) /\ Tables
  BY Parts
<1>2. CASE ~Unclaimed(w)
  <2>1. wk' = [wk EXCEPT ![w] = Idle] /\ UNCHANGED <<job, met, down>>
    BY <1>2 DEF Claim
  <2>2. Others(w) /\ TaskOk(w)'
    BY <1>1, <2>1, NoTask, TaskTyped DEF Others
  <2> QED
    BY <1>0, <2>1, <2>2, SameJobs, ScansStep
<1>3. CASE Unclaimed(w)
  <2>0. PICK j : j = wk[w].id
    OBVIOUS
  <2>1. j \in JobIds /\ job[j] \in JobRows /\ JobOk(j)
    BY <1>1, <2>0 DEF Claim, TaskTypes, Tables, Scans
  <2>2. /\ job' = [job EXCEPT ![j].status = "PROCESSING", ![j].started = TRUE,
                     ![j].attempts = @ + 1, ![j].old = FALSE]
        /\ wk' = [wk EXCEPT ![w] = [Idle EXCEPT !.pc = "reread", !.id = j]]
    BY <1>3, <2>0 DEF Claim, Claimed
  <2>3. \/ job[j].started /\ UNCHANGED <<met, down>>
        \/ /\ ~job[j].started /\ met' = [met EXCEPT ![j] = {}]
           /\ down' = [down EXCEPT ![j] = Products \ Live]
    BY <1>3, <2>0 DEF Claim, Claimed
  <2>4. PICK r : /\ r = [job[j] EXCEPT !.status = "PROCESSING", !.started = TRUE,
                           !.attempts = job[j].attempts + 1, !.old = FALSE]
                 /\ job' = [job EXCEPT ![j] = r]
    BY <2>2
  <2>5. /\ job'[j].started /\ job'[j].cursor = job[j].cursor
        /\ \A i \in JobIds \ {j} : job'[i] = job[i]
    BY <1>1, <2>1, <2>4 DEF JobRows, Tables
  <2>6. wk'[w].pc = "reread" /\ wk'[w].id = j /\ Others(w)
    BY <1>1, <2>2, TaskTyped DEF Tasks, Others
  <2>7. \A x \in OwedNext(j) : x > job[j].cursor
    <3>1. CASE job[j].started
      BY <2>1, <2>3, <3>1 DEF JobOk, Owed, OwedNext
    <3>2. CASE ~job[j].started
      BY <2>1, <3>2 DEF JobOk, OwedNext, Products
    <3> QED
      BY <3>1, <3>2
  <2>8. Products \ Live \subseteq down'[j]
    <3>1. CASE job[j].started
      BY <2>1, <2>3, <3>1 DEF JobOk
    <3>2. CASE ~job[j].started
      BY <1>1, <2>1, <2>3, <3>2 DEF Tables
    <3> QED
      BY <3>1, <3>2
  <2>9. \A i \in JobIds \ {j} : met'[i] = met[i] /\ down'[i] = down[i]
    BY <1>1, <2>1, <2>3 DEF Tables
  <2>10. ASSUME NEW i \in JobIds
         PROVE  JobOk(i)'
    <3>1. CASE i # j
      <4>1. JobKept(i)
        BY <1>0, <2>5, <2>9, <3>1 DEF JobKept, Owed, OwedNext, Live
      <4> QED
        BY <4>1, JobStays DEF Scans
    <3>2. CASE i = j
      <4>1. Owed(i)' = OwedNext(i)
        BY DEF Owed, OwedNext
      <4> QED
        BY <1>0, <2>5, <2>7, <2>8, <3>2, <4>1 DEF JobOk, Live
    <3> QED
      BY <3>1, <3>2
  <2>11. TaskOk(w)'
    <3>1. Reached(wk'[w], OwedNext(j)) /\ Cleans(wk'[w], down'[j])
      BY <2>6 DEF Reached, Cleans
    <3> QED
      BY <2>5, <2>6, <3>1, NextTask
  <2>12. ASSUME NEW v \in Workers \ {w}
         PROVE  TaskOk(v)'
    <3>1. wk'[v] = wk[v] /\ TaskOk(v)
      BY <2>6 DEF Others, Scans
    <3>2. CASE Working(v)
      <4>1. wk[v].id \in JobIds /\ job[wk[v].id].started
        BY <3>2, AtWork
      <4>2. JobKept(wk[v].id)
        <5>1. PICK i : i = wk[v].id
          OBVIOUS
        <5>2. JobKept(i)
          <6>1. met'[i] = met[i] /\ down'[i] = down[i]
            BY <2>3, <2>9, <4>1, <5>1
          <6>2. job'[i].started = job[i].started /\ job'[i].cursor = job[i].cursor
            BY <2>1, <2>5, <4>1, <5>1 DEF JobRows
          <6> QED
            BY <1>0, <6>1, <6>2 DEF JobKept, Owed, OwedNext, Live
        <5>3. Live' = Live
          BY <1>0 DEF Live
        <5> QED
          BY <5>1, <5>2 DEF JobKept, OwedNext, Owed
      <4> QED
        BY <3>1, <4>2, TaskStays
    <3>3. CASE ~Working(v)
      BY <3>1, <3>3, NoTask DEF Working
    <3> QED
      BY <3>2, <3>3
  <2> QED
    BY <2>10, <2>11, <2>12 DEF Scans
<1> QED
  BY <1>2, <1>3

LEMMA ScansReread ==
  ASSUME Typed, Scans, NEW w \in Workers, Reread(w)
  PROVE  Scans'
<1>1. Working(w) /\ UNCHANGED <<job, met, store, down>>
  BY DEF Reread, Working
<1>2. wk \in [Workers -> Tasks] /\ wk[w] \in Tasks
  BY Parts
<1>3. JobOk(wk[w].id) /\ job[wk[w].id].started
  BY <1>1, AtWork
<1>4. PICK a, c, f : /\ c = job[wk[w].id].cursor
                     /\ wk' = [wk EXCEPT ![w].pc = "wait", ![w].attempt = a,
                                         ![w].pos = c, ![w].fill = f]
  BY DEF Reread
<1>5. wk'[w].pc = "wait" /\ wk'[w].id = wk[w].id /\ wk'[w].pos = c /\ Others(w)
  BY <1>2, <1>4 DEF Tasks, Others
<1>6. Reached(wk'[w], Owed(wk[w].id)) /\ Cleans(wk'[w], down[wk[w].id])
  BY <1>3, <1>4, <1>5 DEF Reached, Cleans, JobOk
<1>7. TaskOk(w)'
  BY <1>1, <1>3, <1>5, <1>6, SameJobs, NextTask
<1> QED
  BY <1>1, <1>5, <1>7, SameJobs, ScansStep

\* What happens beside the workers: a product that goes off sale is noted.
LEMMA ScansBeside ==
  ASSUME Typed, Scans, UNCHANGED wk, \A j \in JobIds : JobKept(j)
  PROVE  Scans'
<1>1. \A w \in Workers : Working(w) => wk[w].id \in JobIds
  BY DEF Typed, Claims, Working
<1> QED
  BY <1>1, TaskStays, JobStays DEF Scans

\* A row is written; its cursor and its start are kept.
LEMMA RowKept ==
  ASSUME Tables, NEW j, NEW r, job' = [job EXCEPT ![j] = r],
         j \in JobIds => r.started = job[j].started /\ r.cursor = job[j].cursor
  PROVE  RowsKept
<1>1. CASE j \in JobIds
  BY <1>1 DEF Tables, RowsKept
<1>2. CASE j \notin JobIds
  BY <1>2 DEF Tables, RowsKept
<1> QED
  BY <1>1, <1>2

LEMMA ScansWorld ==
  ASSUME Typed, Scans,
         \/ \E r \in Reasons : Coalesce(r) \/ Ask(r)
         \/ Insert \/ RetryByHand \/ Terminalize \/ LeaseExpires
         \/ \E j \in JobIds : Age(j)
         \/ \E p \in Products : Edit(p) \/ ProductJob(p)
  PROVE  Scans'
<1>0. Tables /\ \A j \in JobIds : job[j] \in JobRows
  BY Parts DEF Tables
<1>1. ASSUME UNCHANGED <<wk, store, met, down>>, RowsKept
      PROVE  Scans'
  BY <1>1, QuietStep, ScansBeside
<1>2. ASSUME NEW reason \in Reasons, Coalesce(reason)
      PROVE  Scans'
  <2> DEFINE j == Max(WithStatus("PENDING"))
  <2>1. PICK r : r = [job[j] EXCEPT !.reason = reason] /\ job' = [job EXCEPT ![j] = r]
    BY <1>2 DEF Coalesce
  <2>2. j \in JobIds => r.started = job[j].started /\ r.cursor = job[j].cursor
    BY <1>0, <2>1 DEF JobRows
  <2> HIDE DEF j
  <2>3. RowsKept
    BY <1>0, <2>1, <2>2, RowKept
  <2> QED
    BY <1>1, <1>2, <2>3 DEF Coalesce
<1>3. CASE Insert
  <2> DEFINE j == Min(WithStatus("NONE"))
  <2>1. PICK r : /\ r = [job[j] EXCEPT !.status = "PENDING", !.reason = asked]
                 /\ job' = [job EXCEPT ![j] = r]
    BY <1>3 DEF Insert
  <2>2. j \in JobIds => r.started = job[j].started /\ r.cursor = job[j].cursor
    BY <1>0, <2>1 DEF JobRows
  <2> HIDE DEF j
  <2>3. RowsKept
    BY <1>0, <2>1, <2>2, RowKept
  <2> QED
    BY <1>1, <1>3, <2>3 DEF Insert
<1>4. CASE RetryByHand
  <2> DEFINE j == Max(WithStatus("FAILED"))
  <2>1. PICK r : /\ r = [job[j] EXCEPT !.status = "PENDING", !.attempts = 0]
                 /\ job' = [job EXCEPT ![j] = r]
    BY <1>4 DEF RetryByHand
  <2>2. j \in JobIds => r.started = job[j].started /\ r.cursor = job[j].cursor
    BY <1>0, <2>1 DEF JobRows
  <2> HIDE DEF j
  <2>3. RowsKept
    BY <1>0, <2>1, <2>2, RowKept
  <2> QED
    BY <1>1, <1>4, <2>3 DEF RetryByHand
<1>5. CASE Terminalize
  <2>1. PICK j \in WithStatus("PROCESSING") :
          job' = [job EXCEPT ![j].status = "FAILED", ![j].old = FALSE]
    BY <1>5 DEF Terminalize
  <2>2. PICK r : /\ r = [job[j] EXCEPT !.status = "FAILED", !.old = FALSE]
                 /\ job' = [job EXCEPT ![j] = r]
    BY <2>1
  <2>3. j \in JobIds => r.started = job[j].started /\ r.cursor = job[j].cursor
    BY <1>0, <2>2 DEF JobRows
  <2>4. RowsKept
    BY <1>0, <2>2, <2>3, RowKept
  <2> QED
    BY <1>1, <1>5, <2>4 DEF Terminalize
<1>6. ASSUME NEW j \in JobIds, Age(j)
      PROVE  Scans'
  <2>1. PICK r : r = [job[j] EXCEPT !.old = TRUE] /\ job' = [job EXCEPT ![j] = r]
    BY <1>6 DEF Age
  <2>2. r.started = job[j].started /\ r.cursor = job[j].cursor
    BY <1>0, <2>1 DEF JobRows
  <2>3. RowsKept
    BY <1>0, <2>1, <2>2, RowKept
  <2> QED
    BY <1>1, <1>6, <2>3 DEF Age
<1>7. ASSUME UNCHANGED job, UNCHANGED <<wk, store, met, down>>
      PROVE  Scans'
  BY <1>1, <1>7 DEF RowsKept
<1>8. ASSUME NEW p \in Products, Edit(p)
      PROVE  Scans'
  <2>1. UNCHANGED <<job, wk, met>>
    BY <1>8 DEF Edit
  <2>2. \A j \in JobIds : down[j] \subseteq down'[j] /\ Live \ Live' \subseteq down'[j]
    <3>1. PICK s \in Shelf : store' = [store EXCEPT ![p] = s]
      BY <1>8 DEF Edit
    <3>2. store'[p] = s /\ \A q \in Products \ {p} : store'[q] = store[q]
      BY <1>0, <3>1 DEF Tables
    <3>3. CASE s = "LIVE"
      BY <1>8, <3>2, <3>3 DEF Edit, Live
    <3>4. CASE s # "LIVE"
      <4>1. down' = [j \in JobIds |-> down[j] \cup {p}]
        BY <1>8, <3>2, <3>4 DEF Edit
      <4>2. Live \ Live' \subseteq {p}
        BY <3>2 DEF Live
      <4> QED
        BY <4>1, <4>2
    <3> QED
      BY <3>3, <3>4
  <2>3. \A j \in JobIds : JobKept(j)
    BY <2>1, <2>2 DEF JobKept, Owed, OwedNext
  <2> QED
    BY <2>1, <2>3, ScansBeside
<1> QED
  BY <1>2, <1>3, <1>4, <1>5, <1>6, <1>7, <1>8 DEF Ask, LeaseExpires, ProductJob

LEMMA ScansNext == Typed /\ Scans /\ [Next]_vars => Scans'
<1> SUFFICES ASSUME Typed, Scans, [Next]_vars PROVE Scans'
  OBVIOUS
<1>1. ASSUME NEW w \in Workers, Scan(w)
      PROVE  Scans'
  BY <1>1, ScansEnd, ScansEnter, ScansStopAtLimit, ScansFetchPage, ScansListStale, ScansClean,
     ScansHideMissing, ScansRow, ScansItem, ScansSavePage, ScansClaim, ScansReread DEF Scan
<1>2. ASSUME NEW w \in Workers, TaskFails(w) \/ Heartbeat(w) \/ Stall(w) \/ Crash(w)
      PROVE  Scans'
  BY <1>2, ScansEnd, ScansRow
<1>3. CASE UNCHANGED vars
  BY <1>3, SameJobs, ScansBeside DEF vars
<1> QED
  BY <1>1, <1>2, <1>3, ScansWorld DEF Next

\* A step of a cleanup that takes a product off display.
LEMMA TakenDown ==
  ASSUME Typed, Scans, [Next]_vars, NEW w \in Workers, wk[w].pc \in {"clean", "drop"},
         wk'[w] # wk[w], NEW p \in Products, reg[p] = "SHOWN", reg'[p] # "SHOWN"
  PROVE  p \in down[wk[w].id]
<1>0. reg \in [Products -> {"NONE", "SHOWN", "HIDDEN"}] /\ wk \in [Workers -> Tasks]
  BY Parts DEF Tables
<1>1. ASSUME NEW v \in Workers, IndexItem(v)
      PROVE  FALSE
  BY <1>0, <1>1 DEF IndexItem
<1>2. ASSUME NEW v \in Workers, NEW q \in Products, HideStale(v, q) \/ HideMissing(v, q)
      PROVE  p \in down[wk[w].id]
  <2>1. /\ wk[v] \in Tasks /\ Working(v) /\ wk[v].pc = "clean" /\ q \in wk[v].off
        /\ Hidden(q) /\ Others(v)
    BY <1>0, <1>2 DEF HideStale, HideMissing, Processed, Working, Others
  <2>2. Cleans(wk[v], down[wk[v].id])
    BY <2>1, AtWork
  <2>3. q = p
    BY <1>0, <2>1 DEF Hidden
  <2>4. v = w
    BY <2>1 DEF Others
  <2> QED
    BY <2>1, <2>2, <2>3, <2>4 DEF Cleans
<1>3. ASSUME NEW v \in Workers, DropMissing(v)
      PROVE  p \in down[wk[w].id]
  <2>1. /\ wk[v] \in Tasks /\ Working(v) /\ wk[v].pc = "drop" /\ Others(v)
        /\ reg' = [reg EXCEPT ![wk[v].item] = "NONE"]
    BY <1>0, <1>3 DEF DropMissing, Working, Others
  <2>2. Cleans(wk[v], down[wk[v].id])
    BY <2>1, AtWork
  <2>3. wk[v].item = p
    BY <1>0, <2>1
  <2>4. v = w
    BY <2>1 DEF Others
  <2> QED
    BY <2>1, <2>2, <2>3, <2>4 DEF Cleans
<1>4. ASSUME NEW v \in Workers,
             \/ Select(v) \/ Claim(v) \/ Reread(v) \/ Enter(v) \/ WaitTimesOut(v)
             \/ StopAtLimit(v) \/ FetchPage(v) \/ ItemFails(v) \/ SavePage(v) \/ ListStale(v)
             \/ (\E q \in Products : KeepStale(v, q))
             \/ MarkDone(v) \/ Exit(v) \/ MarkFailed(v)
             \/ TaskFails(v) \/ Heartbeat(v) \/ Stall(v) \/ Crash(v)
      PROVE  UNCHANGED reg
  BY <1>4 DEF Select, Claim, Reread, Enter, WaitTimesOut, StopAtLimit, FetchPage, ItemFails,
     SavePage, ListStale, KeepStale, MarkDone, Exit, MarkFailed, TaskFails, Heartbeat, Stall, Crash
<1>5. ASSUME NEW v \in Workers, Scan(v)
      PROVE  UNCHANGED reg \/ p \in down[wk[w].id]
  BY <1>1, <1>2, <1>3, <1>4, <1>5 DEF Scan
<1>6. ASSUME \/ \E r \in Reasons : Coalesce(r) \/ Ask(r)
             \/ Insert \/ RetryByHand \/ Terminalize \/ LeaseExpires
             \/ \E j \in JobIds : Age(j)
             \/ \E q \in Products : Edit(q) \/ ProductJob(q)
             \/ UNCHANGED vars
      PROVE  UNCHANGED wk
  BY <1>6 DEF Coalesce, Ask, Insert, RetryByHand, Terminalize, LeaseExpires, Age, Edit,
     ProductJob, vars
<1> QED
  BY <1>4, <1>5, <1>6 DEF Next

ScanInv == Typed /\ Scans

LEMMA ScanInvariant == Spec => []ScanInv
<1>1. Init => ScanInv
  BY TypedInit, ScansInit DEF ScanInv
<1>2. ScanInv /\ [Next]_vars => ScanInv'
  BY TypedNext, ScansNext DEF ScanInv
<1> QED
  BY <1>1, <1>2, PTL DEF Spec

\* A checkpoint never passes a product that was not visited.
THEOREM CheckpointsCover == Spec => []CursorCovered
<1>1. ScanInv => CursorCovered
  <2> SUFFICES ASSUME ScanInv, NEW j \in JobIds, NEW x \in Owed(j) \cap 1..job[j].cursor
               PROVE  FALSE
    BY DEF CursorCovered
  <2>1. x > job[j].cursor /\ x <= job[j].cursor /\ job[j].cursor \in Nat /\ x \in Nat
    BY Parts, Numbers DEF ScanInv, Scans, JobOk, Tables, JobRows
  <2> QED
    BY <2>1
<1> QED
  BY <1>1, ScanInvariant, PTL

\* Only a scan that met every product on sale is taken for complete.
THEOREM CompleteScans == Spec => []ScanMeetsEveryProduct
<1>1. ScanInv => ScanMeetsEveryProduct
  BY DEF ScanInv, Scans, TaskOk, Working, Reached, ScanMeetsEveryProduct
<1> QED
  BY <1>1, ScanInvariant, PTL

\* The cleanup takes no product off display that was on sale all the while.
THEOREM CleanupKeepsLive == Spec => CleanupSparesLive
<1> DEFINE Spares == \A w \in Workers : wk[w].pc \in {"clean", "drop"} /\ wk'[w] # wk[w] =>
             \A p \in Products : reg[p] = "SHOWN" /\ reg'[p] # "SHOWN" =>
                                  p \in down[wk[w].id]
<1>1. ScanInv /\ [Next]_vars => [Spares]_vars
  BY TakenDown DEF ScanInv
<1>2. Init => ScanInv
  BY TypedInit, ScansInit DEF ScanInv
<1>3. ScanInv /\ [Next]_vars => ScanInv'
  BY TypedNext, ScansNext DEF ScanInv
<1> QED
  BY <1>1, <1>2, <1>3, PTL DEF Spec, CleanupSparesLive
===============================================================================
