------------------------- MODULE ServerProcess_proofs -------------------------
(***************************************************************************)
(* Proofs about what each server process keeps in memory: its cache of the *)
(* catalog revision (CatalogRevision) and the drain of its job queue       *)
(* (QueueWorker).  For any processes and calls: types, and that a process  *)
(* reads its own bumps; for any jobs, processes, width and batch size:     *)
(* types, that no wakeup is lost, and how many jobs can be in flight.      *)
(***************************************************************************)
EXTENDS CatalogRevision, QueueWorker, FiniteSetTheorems, TLAPS

(* The revision cache *)

Reading(c) == call[c].stage \in {"select", "answer"}

\* Nothing is known of a bump that was not made.
Bounded ==
  /\ \A p \in Processes : updates[p] <= revision /\ returned[p] <= revision
  /\ \A c \in Calls : call[c].floor <= returned[ProcOf[c]]

\* A shared SELECT is one of the process's calls in flight.
Shared ==
  /\ \A p \in Processes :
       pendingReads[p] # None => Reading(pendingReads[p]) /\ ProcOf[pendingReads[p]] = p
  /\ \A d \in Calls :
       call[d].stage = "join" => call[d].leader # None /\ Reading(call[d].leader)

\* A SELECT that was executed answers all whom it will be given to: the cache
\* only if no bump disowned it, those who joined it because they did so before.
Recent ==
  /\ \A p \in Processes : revisionCache[p] # None => returned[p] <= revisionCache[p]
  /\ \A c \in Calls : call[c].stage = "answer" =>
       /\ call[c].floor <= call[c].value
       /\ Owns(c) => returned[ProcOf[c]] <= call[c].value
       /\ \A d \in Calls : call[d].stage = "join" /\ call[d].leader = c
                             => call[d].floor <= call[c].value

Inv == TypeOK /\ Bounded /\ Shared /\ Recent /\ ReadsOwnBumps

-------------------------------------------------------------------------------
\* The constants, as the proofs use them.
LEMMA Constants ==
  /\ \A c \in Calls : ProcOf[c] \in Processes
  /\ None \notin Calls
  /\ \A r \in Revisions : r # None
  /\ \A r : r \in Revisions <=> r \in Int /\ 0 <= r /\ r <= MaxRevision
  /\ MaxRevision \in Int /\ 0 <= MaxRevision
BY RevisionAssumption DEF RevisionAssumption, Revisions

LEMMA InitInv == Init => Inv
<1> SUFFICES ASSUME Init PROVE Inv
  OBVIOUS
<1> USE Constants DEF Init, NoCall
<1>1. TypeOK
  BY DEF TypeOK, CallStates, Stages
<1>2. Bounded /\ Shared /\ Recent /\ ReadsOwnBumps
  BY DEF Bounded, Shared, Recent, ReadsOwnBumps
<1> QED
  BY <1>1, <1>2 DEF Inv

LEMMA BumpKeeps == ASSUME Inv, NEW p \in Processes, Bump(p) PROVE Inv'
<1> USE Constants DEF Bump
<1>1. TypeOK'
  BY DEF Inv, TypeOK, CallStates, Stages, Bounded
<1>2. Bounded'
  BY DEF Inv, TypeOK, CallStates, Stages, Bounded
<1>3. Shared'
  BY DEF Inv, TypeOK, CallStates, Stages, Shared, Reading
<1>4. Recent'
  BY DEF Inv, TypeOK, CallStates, Stages, Bounded, Shared, Reading, Recent, Owns
<1>5. ReadsOwnBumps'
  BY DEF Inv, TypeOK, CallStates, Stages, Bounded, Recent, Owns, ReadsOwnBumps
<1> QED
  BY <1>1, <1>2, <1>3, <1>4, <1>5 DEF Inv

LEMMA BumpReturnsKeeps == ASSUME Inv, NEW p \in Processes, BumpReturns(p) PROVE Inv'
<1> USE Constants DEF BumpReturns, ReadsAfterBump
<1>1. TypeOK'
  BY DEF Inv, TypeOK, CallStates, Stages, Bounded
<1>2. Bounded'
  BY DEF Inv, TypeOK, CallStates, Stages, Bounded
<1>3. Shared'
  BY DEF Inv, TypeOK, CallStates, Stages, Shared, Reading
<1>4. Recent'
  BY DEF Inv, TypeOK, CallStates, Stages, Bounded, Shared, Reading, Recent, Owns
<1>5. ReadsOwnBumps'
  BY DEF Inv, TypeOK, CallStates, Stages, Bounded, Recent, Owns, ReadsOwnBumps
<1> QED
  BY <1>1, <1>2, <1>3, <1>4, <1>5 DEF Inv

LEMMA BumpThrowsKeeps == ASSUME Inv, NEW p \in Processes, BumpThrows(p) PROVE Inv'
<1> USE Constants DEF BumpThrows
<1>1. TypeOK'
  BY DEF Inv, TypeOK, CallStates, Stages, Bounded
<1>2. Bounded'
  BY DEF Inv, TypeOK, CallStates, Stages, Bounded
<1>3. Shared'
  BY DEF Inv, TypeOK, CallStates, Stages, Shared, Reading
<1>4. Recent'
  BY DEF Inv, TypeOK, CallStates, Stages, Bounded, Shared, Reading, Recent, Owns
<1>5. ReadsOwnBumps'
  BY DEF Inv, TypeOK, CallStates, Stages, Bounded, Recent, Owns, ReadsOwnBumps
<1> QED
  BY <1>1, <1>2, <1>3, <1>4, <1>5 DEF Inv

LEMMA ExpireKeeps == ASSUME Inv, NEW p \in Processes, Expire(p) PROVE Inv'
<1> USE Constants DEF Expire
<1>1. TypeOK'
  BY DEF Inv, TypeOK, CallStates, Stages, Bounded
<1>2. Bounded'
  BY DEF Inv, TypeOK, CallStates, Stages, Bounded
<1>3. Shared'
  BY DEF Inv, TypeOK, CallStates, Stages, Shared, Reading
<1>4. Recent'
  BY DEF Inv, TypeOK, CallStates, Stages, Bounded, Shared, Reading, Recent, Owns
<1>5. ReadsOwnBumps'
  BY DEF Inv, TypeOK, CallStates, Stages, Bounded, Recent, Owns, ReadsOwnBumps
<1> QED
  BY <1>1, <1>2, <1>3, <1>4, <1>5 DEF Inv

LEMMA HitKeeps == ASSUME Inv, NEW c \in Calls, Hit(c) PROVE Inv'
<1> USE Constants DEF Hit, Entered, NoCall
<1>1. TypeOK'
  BY DEF Inv, TypeOK, CallStates, Stages, Bounded
<1>2. Bounded'
  BY DEF Inv, TypeOK, CallStates, Stages, Bounded
<1>3. Shared'
  BY DEF Inv, TypeOK, CallStates, Stages, Shared, Reading
<1>4. Recent'
  BY DEF Inv, TypeOK, CallStates, Stages, Bounded, Shared, Reading, Recent, Owns
<1>5. ReadsOwnBumps'
  BY DEF Inv, TypeOK, CallStates, Stages, Bounded, Recent, Owns, ReadsOwnBumps
<1> QED
  BY <1>1, <1>2, <1>3, <1>4, <1>5 DEF Inv

LEMMA JoinKeeps == ASSUME Inv, NEW c \in Calls, Join(c) PROVE Inv'
<1> USE Constants DEF Join, Entered, NoCall
<1>1. TypeOK'
  <2>1. call'[c] \in CallStates
    <3>1. call'[c] = [stage |-> "join", value |-> 0, floor |-> returned[ProcOf[c]],
                      leader |-> pendingReads[ProcOf[c]]]
      BY DEF Inv, TypeOK
    <3>2. 0 \in Revisions /\ returned[ProcOf[c]] \in Revisions
      BY DEF Inv, TypeOK
    <3>3. pendingReads[ProcOf[c]] \in Calls \union {None}
      BY DEF Inv, TypeOK
    <3> QED
      BY <3>1, <3>2, <3>3 DEF CallStates, Stages
  <2>2. call' = [call EXCEPT ![c] = call'[c]]
    BY DEF Inv, TypeOK
  <2>3. call' \in [Calls -> CallStates]
    BY <2>1, <2>2 DEF Inv, TypeOK
  <2> QED
    BY <2>3 DEF Inv, TypeOK
<1>2. Bounded'
  BY DEF Inv, TypeOK, CallStates, Stages, Bounded
<1>3. Shared'
  BY DEF Inv, TypeOK, CallStates, Stages, Shared, Reading
<1>4. Recent'
  BY DEF Inv, TypeOK, CallStates, Stages, Bounded, Shared, Reading, Recent, Owns
<1>5. ReadsOwnBumps'
  BY DEF Inv, TypeOK, CallStates, Stages, Bounded, Recent, Owns, ReadsOwnBumps
<1> QED
  BY <1>1, <1>2, <1>3, <1>4, <1>5 DEF Inv

LEMMA SendKeeps == ASSUME Inv, NEW c \in Calls, Send(c) PROVE Inv'
<1> USE Constants DEF Send, Entered, NoCall
<1>1. TypeOK'
  <2>1. call'[c] \in CallStates
    <3>1. call'[c] = [stage |-> "select", value |-> 0, floor |-> returned[ProcOf[c]],
                      leader |-> None]
      BY DEF Inv, TypeOK
    <3>2. 0 \in Revisions /\ returned[ProcOf[c]] \in Revisions
      BY DEF Inv, TypeOK
    <3>3. None \in Calls \union {None}
      BY DEF Inv, TypeOK
    <3> QED
      BY <3>1, <3>2, <3>3 DEF CallStates, Stages
  <2>2. call' = [call EXCEPT ![c] = call'[c]]
    BY DEF Inv, TypeOK
  <2>3. call' \in [Calls -> CallStates]
    BY <2>1, <2>2 DEF Inv, TypeOK
  <2> QED
    BY <2>3 DEF Inv, TypeOK
<1>2. Bounded'
  BY DEF Inv, TypeOK, CallStates, Stages, Bounded
<1>3. Shared'
  BY DEF Inv, TypeOK, CallStates, Stages, Shared, Reading
<1>4. Recent'
  BY DEF Inv, TypeOK, CallStates, Stages, Bounded, Shared, Reading, Recent, Owns
<1>5. ReadsOwnBumps'
  BY DEF Inv, TypeOK, CallStates, Stages, Bounded, Recent, Owns, ReadsOwnBumps
<1> QED
  BY <1>1, <1>2, <1>3, <1>4, <1>5 DEF Inv

LEMMA SelectKeeps == ASSUME Inv, NEW c \in Calls, Select(c) PROVE Inv'
<1> USE Constants DEF Select
<1>1. TypeOK'
  <2>1. [call[c] EXCEPT !.stage = "answer", !.value = revision] \in CallStates
    BY DEF Inv, TypeOK, CallStates, Stages
  <2>2. call' = [call EXCEPT ![c] = [call[c] EXCEPT !.stage = "answer", !.value = revision]]
    BY DEF Inv, TypeOK
  <2> QED
    BY <2>1, <2>2 DEF Inv, TypeOK
<1>2. Bounded'
  <2>1. \A d \in Calls : call'[d].floor = call[d].floor
    BY DEF Inv, TypeOK, CallStates
  <2> QED
    BY <2>1 DEF Inv, Bounded
<1>3. Shared'
  BY DEF Inv, TypeOK, CallStates, Stages, Shared, Reading
<1>4. Recent'
  <2> USE DEF Inv, TypeOK, CallStates, Bounded, Recent, Owns
  <2>1. \A p \in Processes : revisionCache'[p] # None => returned'[p] <= revisionCache'[p]
    OBVIOUS
  <2>2. ASSUME NEW d \in Calls, call'[d].stage = "answer", d # c
        PROVE  /\ call'[d].floor <= call'[d].value
               /\ Owns(d)' => returned'[ProcOf[d]] <= call'[d].value
               /\ \A e \in Calls : call'[e].stage = "join" /\ call'[e].leader = d
                                     => call'[e].floor <= call'[d].value
    BY <2>2
  <2>3. call'[c].value = revision
    OBVIOUS
  <2>4. /\ call'[c].floor <= revision
        /\ returned'[ProcOf[c]] <= revision
    OBVIOUS
  <2>5. ASSUME NEW e \in Calls PROVE call'[e].floor <= revision
    OBVIOUS
  <2> QED
    BY <2>1, <2>2, <2>3, <2>4, <2>5
<1>5. ReadsOwnBumps'
  BY DEF Inv, TypeOK, CallStates, Stages, Bounded, Recent, Owns, ReadsOwnBumps
<1> QED
  BY <1>1, <1>2, <1>3, <1>4, <1>5 DEF Inv

LEMMA AnswerKeeps == ASSUME Inv, NEW c \in Calls, Answer(c) PROVE Inv'
<1> USE Constants DEF Answer, Owns, ReadsAfter, Settle, NoCall
<1>1. TypeOK'
  <2>1. ASSUME NEW d \in Calls PROVE call'[d] \in CallStates
    BY DEF Inv, TypeOK, CallStates, Stages
  <2>2. call' \in [Calls -> CallStates]
    BY <2>1
  <2>3. revisionCache' \in [Processes -> Revisions \union {None}]
    BY DEF Inv, TypeOK, CallStates
  <2>4. pendingReads' \in [Processes -> Calls \union {None}]
    BY DEF Inv, TypeOK
  <2> QED
    BY <2>2, <2>3, <2>4 DEF Inv, TypeOK
<1>2. Bounded'
  BY DEF Inv, TypeOK, CallStates, Stages, Bounded
<1>3. Shared'
  <2>1. ASSUME NEW d \in Calls, Reading(d), d # c PROVE Reading(d)'
    BY <2>1 DEF Inv, TypeOK, Reading
  <2>2. ASSUME NEW p \in Processes, NEW q \in Calls, pendingReads'[p] = q
        PROVE  Reading(q)' /\ ProcOf[q] = p
    <3>1. pendingReads[p] = q /\ q # c
      BY <2>2 DEF Inv, TypeOK, Shared
    <3> QED
      BY <2>1, <3>1 DEF Inv, Shared
  <2>3. ASSUME NEW d \in Calls, call'[d].stage = "join"
        PROVE  call'[d].leader # None /\ call'[d].leader \in Calls
    BY <2>3 DEF Inv, TypeOK, CallStates, Shared
  <2>4. ASSUME NEW d \in Calls, call'[d].stage = "join", NEW e \in Calls,
               call'[d].leader = e
        PROVE  Reading(e)'
    <3>1. call[d].stage = "join" /\ call[d].leader = e /\ e # c
      BY <2>4 DEF Inv, TypeOK
    <3> QED
      BY <2>1, <3>1 DEF Inv, Shared
  <2>5. \A p \in Processes : pendingReads'[p] # None => pendingReads'[p] \in Calls
    BY <1>1 DEF TypeOK
  <2> QED
    BY <2>2, <2>3, <2>4, <2>5 DEF Shared, Reading
<1>4. Recent'
  <2>1. ASSUME NEW p \in Processes, revisionCache'[p] # None
        PROVE  returned'[p] <= revisionCache'[p]
    BY <2>1 DEF Inv, TypeOK, CallStates, Recent
  <2>2. ASSUME NEW d \in Calls, call'[d].stage \in {"answer", "join"}
        PROVE  call'[d] = call[d] /\ d # c
    BY <2>2 DEF Inv, TypeOK
  <2>3. ASSUME NEW d \in Calls, call'[d].stage = "answer"
        PROVE  /\ call'[d].floor <= call'[d].value
               /\ Owns(d)' => returned'[ProcOf[d]] <= call'[d].value
    BY <2>2, <2>3 DEF Inv, TypeOK, CallStates, Recent
  <2>4. ASSUME NEW d \in Calls, call'[d].stage = "answer", NEW e \in Calls,
               call'[e].stage = "join" /\ call'[e].leader = d
        PROVE  call'[e].floor <= call'[d].value
    BY <2>2, <2>4 DEF Inv, Recent
  <2> QED
    BY <2>1, <2>3, <2>4 DEF Recent
<1>5. ReadsOwnBumps'
  <2> SUFFICES ASSUME NEW d \in Calls, call'[d].stage = "done"
               PROVE  call'[d].floor <= call'[d].value
    BY DEF Inv, TypeOK, CallStates, ReadsOwnBumps
  <2>1. CASE d = c \/ (call[d].stage = "join" /\ call[d].leader = c)
    BY <2>1 DEF Inv, TypeOK, CallStates, Recent
  <2>2. CASE ~(d = c \/ (call[d].stage = "join" /\ call[d].leader = c))
    BY <2>2 DEF Inv, TypeOK, CallStates, ReadsOwnBumps
  <2> QED
    BY <2>1, <2>2
<1> QED
  BY <1>1, <1>2, <1>3, <1>4, <1>5 DEF Inv

LEMMA ThrowKeeps == ASSUME Inv, NEW c \in Calls, Throw(c) PROVE Inv'
<1> USE Constants DEF Throw, Owns, ReadsAfter, Settle, NoCall
<1>1. TypeOK'
  BY DEF Inv, TypeOK, CallStates, Stages, Bounded
<1>2. Bounded'
  BY DEF Inv, TypeOK, CallStates, Stages, Bounded
<1>3. Shared'
  BY DEF Inv, TypeOK, CallStates, Stages, Shared, Reading
<1>4. Recent'
  BY DEF Inv, TypeOK, CallStates, Stages, Bounded, Shared, Reading, Recent, Owns
<1>5. ReadsOwnBumps'
  BY DEF Inv, TypeOK, CallStates, Stages, Bounded, Recent, Owns, ReadsOwnBumps
<1> QED
  BY <1>1, <1>2, <1>3, <1>4, <1>5 DEF Inv

LEMMA FinishKeeps == ASSUME Inv, NEW c \in Calls, Finish(c) PROVE Inv'
<1> USE Constants DEF Finish, NoCall
<1>1. TypeOK'
  BY DEF Inv, TypeOK, CallStates, Stages, Bounded
<1>2. Bounded'
  BY DEF Inv, TypeOK, CallStates, Stages, Bounded
<1>3. Shared'
  BY DEF Inv, TypeOK, CallStates, Stages, Shared, Reading
<1>4. Recent'
  BY DEF Inv, TypeOK, CallStates, Stages, Bounded, Shared, Reading, Recent, Owns
<1>5. ReadsOwnBumps'
  BY DEF Inv, TypeOK, CallStates, Stages, Bounded, Recent, Owns, ReadsOwnBumps
<1> QED
  BY <1>1, <1>2, <1>3, <1>4, <1>5 DEF Inv

-------------------------------------------------------------------------------
\* The inductive invariant of the revision cache: what is cached or will be is no
\* older than the process's last bump, and what is shared belongs to a call.
THEOREM SpecInv == Spec => []Inv
<1>1. Inv /\ [Next]_vars => Inv'
  <2> SUFFICES ASSUME Inv, [Next]_vars PROVE Inv'
    OBVIOUS
  <2>1. CASE \E p \in Processes : Bump(p) \/ BumpReturns(p) \/ BumpThrows(p) \/ Expire(p)
    BY <2>1, BumpKeeps, BumpReturnsKeeps, BumpThrowsKeeps, ExpireKeeps
  <2>2. ASSUME NEW c \in Calls, Hit(c) \/ Join(c) \/ Send(c) \/ Select(c) PROVE Inv'
    BY <2>2, HitKeeps, JoinKeeps, SendKeeps, SelectKeeps
  <2>3. ASSUME NEW c \in Calls, Answer(c) \/ Throw(c) \/ Finish(c) PROVE Inv'
    BY <2>3, AnswerKeeps, ThrowKeeps, FinishKeeps
  <2>4. CASE UNCHANGED vars
    BY <2>4 DEF vars, Inv, TypeOK, Bounded, Shared, Reading, Recent, Owns, ReadsOwnBumps
  <2> QED
    BY <2>1, <2>2, <2>3, <2>4 DEF Next
<1> QED
  BY InitInv, <1>1, PTL DEF Spec

\* Types of the revision cache, for any processes and calls.
THEOREM TypeCorrect == Spec => []TypeOK
<1>1. Inv => TypeOK
  BY DEF Inv
<1> QED
  BY SpecInv, <1>1, PTL

\* A call that begins after a bump of its process has returned answers with that
\* revision or a later one: a SELECT still in flight cannot bring an older one
\* back (getSearchCatalogRevisionCached, bumpSearchRevision).
THEOREM OwnBumpsRead == Spec => []ReadsOwnBumps
<1>1. Inv => ReadsOwnBumps
  BY DEF Inv
<1> QED
  BY SpecInv, <1>1, PTL

\* What is cached or was answered is not ahead of MySQL.
NoneAhead ==
  /\ \A p \in Processes : revisionCache[p] # None => revisionCache[p] <= revision
  /\ \A c \in Calls : call[c].value <= revision

LEMMA NoneAheadKept == ASSUME Inv, NoneAhead, [Next]_vars PROVE NoneAhead'
<1> USE Constants DEF NoCall
<1>1. /\ revision \in Int /\ 0 <= revision
      /\ revisionCache \in [Processes -> Revisions \union {None}]
      /\ call \in [Calls -> CallStates]
      /\ \A c \in Calls : call[c].value \in Int
      /\ \A p \in Processes : revisionCache[p] # None => revisionCache[p] \in Int
  BY DEF Inv, TypeOK, CallStates
<1>2. ASSUME NEW p \in Processes, Bump(p) PROVE NoneAhead'
  BY <1>1, <1>2 DEF NoneAhead, Bump
<1>3. ASSUME NEW p \in Processes, BumpReturns(p) \/ BumpThrows(p) \/ Expire(p)
      PROVE  NoneAhead'
  BY <1>1, <1>3 DEF NoneAhead, BumpReturns, BumpThrows, Expire
<1>4. ASSUME NEW c \in Calls, Hit(c) PROVE NoneAhead'
  <2>1. \A d \in Calls : call'[d].value \in {call[d].value, revisionCache[ProcOf[c]]}
    BY <1>1, <1>4 DEF Hit, Entered, CallStates
  <2>2. revisionCache[ProcOf[c]] <= revision
    BY <1>4 DEF NoneAhead, Hit
  <2>3. UNCHANGED <<revision, revisionCache>>
    BY <1>4 DEF Hit
  <2> QED
    BY <2>1, <2>2, <2>3 DEF NoneAhead
<1>5. ASSUME NEW c \in Calls, Join(c) \/ Send(c) PROVE NoneAhead'
  <2>1. CASE Join(c)
    <3>1. \A d \in Calls : call'[d].value \in {call[d].value, 0}
      BY <1>1, <2>1 DEF Join, Entered, CallStates
    <3>2. UNCHANGED <<revision, revisionCache>>
      BY <2>1 DEF Join
    <3> QED
      BY <1>1, <3>1, <3>2 DEF NoneAhead
  <2>2. CASE Send(c)
    <3>1. \A d \in Calls : call'[d].value \in {call[d].value, 0}
      BY <1>1, <2>2 DEF Send, Entered, CallStates
    <3>2. UNCHANGED <<revision, revisionCache>>
      BY <2>2 DEF Send
    <3> QED
      BY <1>1, <3>1, <3>2 DEF NoneAhead
  <2> QED
    BY <1>5, <2>1, <2>2
<1>6. ASSUME NEW c \in Calls, Select(c) \/ Finish(c) PROVE NoneAhead'
  BY <1>1, <1>6 DEF NoneAhead, Select, Finish, CallStates
<1>7. ASSUME NEW c \in Calls, Answer(c) PROVE NoneAhead'
  <2>1. \A d \in Calls : call'[d].value \in {call[c].value, call[d].value}
    BY <1>1, <1>7 DEF Answer, Settle, CallStates
  <2>2. \A p \in Processes : revisionCache'[p] \in {call[c].value, revisionCache[p]}
    BY <1>1, <1>7 DEF Answer
  <2> QED
    BY <1>1, <1>7, <2>1, <2>2 DEF NoneAhead, Answer
<1>8. ASSUME NEW c \in Calls, Throw(c) PROVE NoneAhead'
  <2>1. \A d \in Calls : call'[d].value \in {0, call[d].value}
    BY <1>1, <1>8 DEF Throw, Settle, CallStates
  <2> QED
    BY <1>1, <1>8, <2>1 DEF NoneAhead, Throw
<1>9. CASE UNCHANGED vars
  BY <1>9 DEF vars, NoneAhead
<1> QED
  BY <1>2, <1>3, <1>4, <1>5, <1>6, <1>7, <1>8, <1>9 DEF Next

\* A call answers with a revision that MySQL had between the last bump its process
\* knew of when it began, and now.  SearchResultCache assumes the upper half of
\* the revision that a search makes its key of.
THEOREM AnswersAreBetween ==
  Spec => [](\A c \in Calls : call[c].stage = "done" =>
               call[c].floor <= call[c].value /\ call[c].value <= revision)
<1>1. Init => NoneAhead
  BY Constants DEF Init, NoCall, NoneAhead
<1>2. Inv /\ NoneAhead /\ [Next]_vars => NoneAhead'
  BY NoneAheadKept
<1>3. Inv /\ NoneAhead => \A c \in Calls : call[c].stage = "done" =>
                            call[c].floor <= call[c].value /\ call[c].value <= revision
  BY Constants DEF Inv, TypeOK, CallStates, ReadsOwnBumps, NoneAhead
<1> QED
  BY SpecInv, <1>1, <1>2, <1>3, PTL DEF Spec

-------------------------------------------------------------------------------
(* The queue worker *)

Of(tasks)      == {s \in Slots : tasks[s].of}
Orphans(tasks) == {s \in Slots : tasks[s].at # "off" /\ ~tasks[s].of}

\* The drain of a process: it waits for no more tasks than the width it chose,
\* those that found a job included, and every drain cut short left at most
\* Concurrency - 1 tasks behind.
DrainOk(p, q, tasks, cut) ==
  /\ q.processed < BatchSize
  /\ q.found + Cardinality(Of(tasks)) <= Width(q.processed)
  /\ Cardinality(Orphans(tasks)) <= cut * (Concurrency - 1)
  /\ \A s \in Slots : tasks[s].of => tasks[s].at # "off" /\ q.running
  /\ q.scheduled \/ q.running => p \in Enabled

\* Awake(p, j), of the values.
Wakes(q, tasks, j) ==
  \/ q.scheduled
  \/ /\ q.running
     /\ \/ q.rerunRequested \/ q.found > 0
        \/ \E s \in Slots : /\ tasks[s].of
                            /\ \/ tasks[s].at \in {"select", "work"}
                               \/ j \in tasks[s].seen

DrainsOk ==
  /\ broken \in [Procs -> Nat]
  /\ \A p \in Procs : DrainOk(p, queue[p], task[p], broken[p])
  /\ \A j \in Jobs : kicker[j] \in up \cup {Nobody}
  /\ \A p \in Procs \ up, s \in Slots : task[p][s].at = "off"

QueueInv == QueueTypeOK /\ DrainsOk /\ NoLostWakeup

-------------------------------------------------------------------------------
\* Facts about the constants and about sets of tasks.
LEMMA Sizes ==
  /\ Concurrency \in Int /\ 1 <= Concurrency
  /\ BatchSize \in Int /\ 1 <= BatchSize
  /\ Enabled \subseteq Procs /\ Nobody \notin Procs /\ Nobody \notin Jobs
BY SizesPositive, EnabledAreProcs DEF SizesPositive, EnabledAreProcs

\* A round is at least one task wide, and at most Concurrency.
LEMMA WidthFits ==
  ASSUME NEW n \in Int, 0 <= n, n < BatchSize
  PROVE  Width(n) \in Int /\ 1 <= Width(n) /\ Width(n) <= Concurrency
BY Sizes DEF Width

LEMMA SlotSets ==
  ASSUME NEW T \in SUBSET Slots
  PROVE  IsFiniteSet(T) /\ Cardinality(T) \in Int /\ 0 <= Cardinality(T)
<1>1. IsFiniteSet(Slots)
  BY SizesPositive DEF SizesPositive
<1>2. IsFiniteSet(T)
  BY <1>1, FS_Subset
<1> QED
  BY <1>2, FS_CardinalityType

LEMMA SetsGrow ==
  ASSUME NEW T \in SUBSET Slots, NEW U \in SUBSET T
  PROVE  Cardinality(U) <= Cardinality(T)
BY SlotSets, FS_Subset

LEMMA SetsShrink ==
  ASSUME NEW T \in SUBSET Slots, NEW s \in T
  PROVE  Cardinality(T \ {s}) = Cardinality(T) - 1
BY SlotSets, FS_RemoveElement

LEMMA SetsJoin ==
  ASSUME NEW T \in SUBSET Slots, NEW U \in SUBSET Slots
  PROVE  Cardinality(T \cup U) <= Cardinality(T) + Cardinality(U)
<1>1. /\ IsFiniteSet(T) /\ IsFiniteSet(U)
      /\ Cardinality(T) \in Int /\ Cardinality(U) \in Int
      /\ Cardinality(T \cap U) \in Int /\ 0 <= Cardinality(T \cap U)
  <2>1. T \cap U \in SUBSET Slots
    OBVIOUS
  <2> QED
    BY <2>1, SlotSets
<1>2. Cardinality(T \cup U) = Cardinality(T) + Cardinality(U) - Cardinality(T \cap U)
  BY <1>1, FS_Union
<1> QED
  BY <1>1, <1>2

LEMMA SetsEmpty ==
  ASSUME NEW T \in SUBSET Slots
  PROVE  Cardinality(T) = 0 <=> T = {}
BY SlotSets, FS_EmptySet

\* What one more drain cut short may leave behind.
LEMMA CutsAdd ==
  ASSUME NEW c \in Nat
  PROVE  /\ c * (Concurrency - 1) \in Int /\ 0 <= c * (Concurrency - 1)
         /\ (c + 1) * (Concurrency - 1) = c * (Concurrency - 1) + (Concurrency - 1)
<1>1. PICK k \in Nat : k = Concurrency - 1
  BY Sizes
<1>2. c * k \in Nat /\ (c + 1) * k = c * k + k
  OBVIOUS
<1> QED
  BY <1>1, <1>2

-------------------------------------------------------------------------------
\* A queue's state while it is counting: found may be the whole width.
Counting == [running: BOOLEAN, scheduled: BOOLEAN, rerunRequested: BOOLEAN,
             processed: Int, found: Int]

LEMMA QueuesCount == Queues \subseteq Counting
<1>1. 0..BatchSize \subseteq Int /\ 0..Concurrency - 1 \subseteq Int
  BY Sizes
<1> QED
  BY <1>1 DEF Queues, Counting

\* A round that starts keeps the drain in order and looks at every job.
LEMMA RoundOk ==
  ASSUME QueueTypeOK, NEW p \in Procs, NEW tasks \in [Slots -> Tasks], NEW q \in Counting,
         NEW n \in Int, 0 <= n, n < BatchSize, NEW cut \in Nat,
         q.running, p \in Enabled, Of(tasks) = {},
         Cardinality(Orphans(tasks)) <= cut * (Concurrency - 1),
         RoundStarts(p, tasks, q, n)
  PROVE  \E q2 \in Queues, t2 \in [Slots -> Tasks] :
           /\ queue' = [queue EXCEPT ![p] = q2] /\ task' = [task EXCEPT ![p] = t2]
           /\ DrainOk(p, q2, t2, cut) /\ \A j \in Jobs : Wakes(q2, t2, j)
<1>1. PICK new \in SUBSET {s \in Slots : tasks[s].at = "off"} :
        /\ Cardinality(new) = Width(n)
        /\ task' = [task EXCEPT ![p] = [s \in Slots |->
                      IF s \in new THEN [NoTask EXCEPT !.at = "select", !.of = TRUE]
                                   ELSE tasks[s]]]
        /\ queue' = [queue EXCEPT ![p] = [q EXCEPT !.processed = n, !.found = 0]]
  BY DEF RoundStarts
<1> DEFINE t2 == [s \in Slots |->
                   IF s \in new THEN [NoTask EXCEPT !.at = "select", !.of = TRUE]
                                ELSE tasks[s]]
           q2 == [q EXCEPT !.processed = n, !.found = 0]
<1>2. q2 \in Queues /\ q2.processed = n /\ q2.found = 0 /\ q2.running
  <2>1. n \in 0..BatchSize /\ 0 \in 0..Concurrency - 1
    BY Sizes
  <2> QED
    BY <2>1 DEF Queues, Counting
<1>3. t2 \in [Slots -> Tasks]
  BY DEF Tasks, NoTask
<1>4. Of(t2) = new
  BY DEF Of, NoTask
<1>5. Cardinality(new) = Width(n) /\ 1 <= Width(n) /\ Width(n) \in Int
  BY <1>1, WidthFits
<1>6. Cardinality(Orphans(t2)) <= cut * (Concurrency - 1)
  <2>1. Orphans(t2) \subseteq Orphans(tasks) /\ Orphans(tasks) \subseteq Slots
    BY DEF Orphans, NoTask
  <2>2. Cardinality(Orphans(t2)) <= Cardinality(Orphans(tasks))
    BY <2>1, SetsGrow
  <2>3. Cardinality(Orphans(t2)) \in Int /\ Cardinality(Orphans(tasks)) \in Int
    BY <2>1, SlotSets
  <2> QED
    BY <2>2, <2>3, CutsAdd
<1>7. \A s \in Slots : t2[s].of => t2[s].at # "off"
  BY DEF Of, NoTask
<1>8. DrainOk(p, q2, t2, cut)
  BY <1>2, <1>4, <1>5, <1>6, <1>7 DEF DrainOk
<1>9. \E s \in Slots : s \in new
  BY <1>5, SetsEmpty
<1>10. \A j \in Jobs : Wakes(q2, t2, j)
  BY <1>2, <1>9 DEF Wakes, NoTask
<1> QED
  BY <1>1, <1>2, <1>3, <1>8, <1>10

\* How a drain that was kicked looks.
LEMMA KickedOk ==
  ASSUME NEW p \in Procs, NEW q \in Queues
  PROVE  /\ Kicked(p, q) \in Queues
         /\ Kicked(p, q).running = q.running
         /\ Kicked(p, q).processed = q.processed /\ Kicked(p, q).found = q.found
         /\ q.scheduled => Kicked(p, q).scheduled
         /\ q.rerunRequested => Kicked(p, q).rerunRequested
         /\ p \in Enabled => Kicked(p, q).scheduled
                             \/ (q.running /\ Kicked(p, q).rerunRequested)
         /\ p \notin Enabled => Kicked(p, q) = q
BY DEF Kicked, Queues

\* A drain ends with its flags down, and kicks if it was asked to or was full.
LEMMA EndedOk ==
  ASSUME NEW p \in Procs, NEW q \in Counting, NEW full \in BOOLEAN
  PROVE  /\ Ended(p, q, full) \in Queues
         /\ ~Ended(p, q, full).running
         /\ Ended(p, q, full).processed = 0 /\ Ended(p, q, full).found = 0
         /\ q.scheduled => Ended(p, q, full).scheduled
         /\ p \in Enabled /\ (q.rerunRequested \/ full) => Ended(p, q, full).scheduled
         /\ Ended(p, q, full).scheduled => q.scheduled \/ p \in Enabled
<1> DEFINE idle == [FreshQueue EXCEPT !.scheduled = q.scheduled]
<1>1. /\ idle \in Queues /\ ~idle.running /\ idle.processed = 0 /\ idle.found = 0
      /\ idle.scheduled = q.scheduled
  <2>1. 0 \in 0..BatchSize /\ 0 \in 0..Concurrency - 1
    BY Sizes
  <2> QED
    BY <2>1 DEF Queues, Counting, FreshQueue
<1>2. Ended(p, q, full) = IF q.rerunRequested \/ full THEN Kicked(p, idle) ELSE idle
  BY DEF Ended
<1> HIDE DEF idle
<1> QED
  BY <1>1, <1>2, KickedOk

-------------------------------------------------------------------------------
\* The end of a task: the drain stays in order, and a job it was going to look
\* at is still looked at, unless this task looked and found nothing.
LEMMA TaskEndsOk ==
  ASSUME QueueTypeOK, DrainsOk, NEW p \in Procs, NEW s \in Slots, NEW foundJob \in BOOLEAN,
         task[p][s].at # "off", TaskEnds(p, s, foundJob)
  PROVE  \E q2 \in Queues, t2 \in [Slots -> Tasks] :
           /\ queue' = [queue EXCEPT ![p] = q2] /\ task' = [task EXCEPT ![p] = t2]
           /\ DrainOk(p, q2, t2, broken[p])
           /\ \A j \in Jobs :
                /\ Wakes(queue[p], task[p], j)
                /\ foundJob \/ (task[p][s].at = "claim" /\ j \notin task[p][s].seen)
                => Wakes(q2, t2, j)
<1> DEFINE tasks == [task[p] EXCEPT ![s] = NoTask]
           q == [queue[p] EXCEPT !.found = IF foundJob THEN @ + 1 ELSE @]
           processed == q.processed + q.found
<1>1. /\ queue[p] \in Queues /\ task[p] \in [Slots -> Tasks]
      /\ queue \in [Procs -> Queues] /\ task \in [Procs -> [Slots -> Tasks]]
      /\ DrainOk(p, queue[p], task[p], broken[p]) /\ broken[p] \in Nat
  BY DEF QueueTypeOK, DrainsOk
<1>2. /\ tasks \in [Slots -> Tasks]
      /\ Of(tasks) = Of(task[p]) \ {s} /\ Orphans(tasks) = Orphans(task[p]) \ {s}
      /\ Of(task[p]) \subseteq Slots /\ Orphans(task[p]) \subseteq Slots
      /\ \A t \in Slots : t # s => tasks[t] = task[p][t]
      /\ ~tasks[s].of
  BY <1>1 DEF Tasks, NoTask, Of, Orphans
<1>3. Cardinality(Orphans(tasks)) <= broken[p] * (Concurrency - 1)
  <2>1. /\ Cardinality(Orphans(tasks)) <= Cardinality(Orphans(task[p]))
        /\ Cardinality(Orphans(tasks)) \in Int /\ Cardinality(Orphans(task[p])) \in Int
    BY <1>2, SetsGrow, SlotSets
  <2>2. Cardinality(Orphans(task[p])) <= broken[p] * (Concurrency - 1)
    BY <1>1 DEF DrainOk
  <2> QED
    BY <1>1, <2>1, <2>2, CutsAdd
<1>4. \A t \in Slots : tasks[t].of => tasks[t].at # "off" /\ queue[p].running
  BY <1>1, <1>2 DEF DrainOk
<1>5. /\ queue[p].processed \in Int /\ 0 <= queue[p].processed
      /\ queue[p].processed < BatchSize
      /\ queue[p].found \in Int /\ 0 <= queue[p].found
      /\ queue[p].found + Cardinality(Of(task[p])) <= Width(queue[p].processed)
      /\ Cardinality(Of(task[p])) \in Int /\ Cardinality(Of(tasks)) \in Int
      /\ 0 <= Cardinality(Of(tasks))
      /\ Width(queue[p].processed) \in Int
      /\ Width(queue[p].processed) <= Concurrency
      /\ 1 <= Width(queue[p].processed)
  <2>1. /\ queue[p].processed \in 0..BatchSize /\ queue[p].found \in 0..Concurrency - 1
        /\ queue[p].processed < BatchSize
        /\ queue[p].found + Cardinality(Of(task[p])) <= Width(queue[p].processed)
    BY <1>1 DEF Queues, DrainOk
  <2>2. /\ Cardinality(Of(task[p])) \in Int /\ Cardinality(Of(tasks)) \in Int
        /\ 0 <= Cardinality(Of(tasks))
    BY <1>2, SlotSets
  <2> QED
    BY <2>1, <2>2, Sizes, WidthFits
<1>6. CASE ~task[p][s].of
  <2>1. task' = [task EXCEPT ![p] = tasks] /\ queue' = [queue EXCEPT ![p] = queue[p]]
    BY <1>1, <1>6 DEF TaskEnds
  <2>2. Of(tasks) = Of(task[p])
    BY <1>2, <1>6 DEF Of
  <2>3. DrainOk(p, queue[p], tasks, broken[p])
    BY <1>1, <1>3, <1>4, <2>2 DEF DrainOk
  <2>4. \A j \in Jobs : Wakes(queue[p], task[p], j) => Wakes(queue[p], tasks, j)
    BY <1>2, <1>6 DEF Wakes
  <2> QED
    BY <1>1, <1>2, <2>1, <2>3, <2>4
<1>7. CASE task[p][s].of
  <2>1. /\ queue[p].running /\ p \in Enabled
        /\ Cardinality(Of(tasks)) = Cardinality(Of(task[p])) - 1
    BY <1>1, <1>2, <1>7, SetsShrink DEF DrainOk, Of
  <2>2. /\ q.running /\ q.processed = queue[p].processed /\ q.scheduled = queue[p].scheduled
        /\ q.rerunRequested = queue[p].rerunRequested
        /\ q.found = IF foundJob THEN queue[p].found + 1 ELSE queue[p].found
    BY <1>1, <2>1 DEF Queues
  <2>3. q.found \in Int /\ 0 <= q.found /\ q.found + Cardinality(Of(tasks)) <= Width(q.processed)
    BY <1>5, <2>1, <2>2
  <2>4. q \in Counting
    BY <1>1, <1>5, <2>3 DEF Queues, Counting
  <2>5. CASE \E t \in Slots : tasks[t].of
    <3>1. task' = [task EXCEPT ![p] = tasks] /\ queue' = [queue EXCEPT ![p] = q]
      BY <1>7, <2>5 DEF TaskEnds
    <3>2. Cardinality(Of(tasks)) # 0
      BY <1>2, <2>5, SetsEmpty DEF Of
    <3>3. q.found \in 0..Concurrency - 1
      BY <1>5, <2>2, <2>3, <3>2, Sizes
    <3>4. q \in Queues
      BY <1>1, <3>3 DEF Queues
    <3>5. DrainOk(p, q, tasks, broken[p])
      BY <1>3, <1>4, <1>5, <2>1, <2>2, <2>3 DEF DrainOk
    <3>6. ASSUME NEW j \in Jobs, Wakes(queue[p], task[p], j),
                 foundJob \/ (task[p][s].at = "claim" /\ j \notin task[p][s].seen)
          PROVE  Wakes(q, tasks, j)
      <4>1. CASE foundJob
        BY <4>1, <1>5, <2>2 DEF Wakes
      <4>2. CASE ~foundJob
        BY <4>2, <3>6, <2>2, <1>2 DEF Wakes
      <4> QED
        BY <4>1, <4>2
    <3> HIDE DEF q, tasks
    <3> QED
      BY <1>2, <3>1, <3>4, <3>5, <3>6
  <2>6. CASE ~(\E t \in Slots : tasks[t].of) /\ q.found > 0 /\ processed < BatchSize
    <3>1. RoundStarts(p, tasks, q, processed)
      BY <1>7, <2>6 DEF TaskEnds
    <3>2. Of(tasks) = {}
      BY <2>6 DEF Of
    <3>3. processed \in Int /\ 0 <= processed /\ processed < BatchSize
      BY <1>5, <2>2, <2>3, <2>6
    <3>4. PICK q2 \in Queues, t2 \in [Slots -> Tasks] :
            /\ queue' = [queue EXCEPT ![p] = q2] /\ task' = [task EXCEPT ![p] = t2]
            /\ DrainOk(p, q2, t2, broken[p]) /\ \A j \in Jobs : Wakes(q2, t2, j)
      <4> HIDE DEF q, tasks, processed
      <4> QED
        BY <1>1, <1>2, <1>3, <2>1, <2>2, <2>4, <3>1, <3>2, <3>3, RoundOk
    <3> QED
      BY <3>4
  <2>7. CASE ~(\E t \in Slots : tasks[t].of) /\ ~(q.found > 0 /\ processed < BatchSize)
    <3> DEFINE full == processed >= BatchSize
               q2 == Ended(p, q, full)
    <3>1. task' = [task EXCEPT ![p] = tasks] /\ queue' = [queue EXCEPT ![p] = q2]
      BY <1>7, <2>7 DEF TaskEnds
    <3>2. Of(tasks) = {} /\ Cardinality(Of(tasks)) = 0
      BY <2>7, SetsEmpty DEF Of
    <3>3. full \in BOOLEAN
      OBVIOUS
    <3>4. /\ q2 \in Queues /\ ~q2.running /\ q2.processed = 0 /\ q2.found = 0
          /\ q.scheduled => q2.scheduled
          /\ q.rerunRequested \/ full => q2.scheduled
      <4> HIDE DEF q, full
      <4> QED
        BY <2>1, <2>4, <3>3, EndedOk
    <3>5. DrainOk(p, q2, tasks, broken[p])
      <4>1. 1 <= Width(0) /\ Width(0) \in Int
        BY WidthFits, Sizes
      <4>2. \A t \in Slots : ~tasks[t].of
        BY <2>7
      <4> HIDE DEF q2, tasks
      <4> QED
        BY <1>3, <2>1, <3>2, <3>4, <4>1, <4>2, Sizes DEF DrainOk
    <3>6. ASSUME NEW j \in Jobs, Wakes(queue[p], task[p], j),
                 foundJob \/ (task[p][s].at = "claim" /\ j \notin task[p][s].seen)
          PROVE  Wakes(q2, tasks, j)
      <4>1. CASE queue[p].scheduled \/ queue[p].rerunRequested \/ q.found > 0
        <5>1. q.found > 0 => full
          BY <1>5, <2>2, <2>3, <2>7, Sizes
        <5>2. q2.scheduled
          <6> HIDE DEF q2, full
          <6> QED
            BY <4>1, <2>2, <3>4, <5>1
        <5> QED
          BY <5>2 DEF Wakes
      <4>2. CASE ~(queue[p].scheduled \/ queue[p].rerunRequested \/ q.found > 0)
        <5>1. ~foundJob /\ ~(queue[p].found > 0)
          BY <4>2, <1>5, <2>2
        <5>2. \A t \in Slots : t # s => ~task[p][t].of
          BY <1>2, <2>7
        <5> QED
          BY <3>6, <4>2, <5>1, <5>2 DEF Wakes
      <4> QED
        BY <4>1, <4>2
    <3> HIDE DEF q2, tasks
    <3> QED
      BY <1>2, <3>1, <3>4, <3>5, <3>6
  <2> QED
    BY <2>5, <2>6, <2>7
<1> QED
  BY <1>6, <1>7

-------------------------------------------------------------------------------
\* Every step disturbs at most one process; the others keep what they promise.
LEMMA OthersStand ==
  ASSUME QueueInv, NEW p \in Procs, NEW q2 \in Queues, NEW t2 \in [Slots -> Tasks],
         NEW cut \in Nat, queue' = [queue EXCEPT ![p] = q2],
         task' = [task EXCEPT ![p] = t2], broken' = [broken EXCEPT ![p] = cut],
         DrainOk(p, q2, t2, cut), \A j \in Jobs : kicker'[j] \in up' \cup {Nobody},
         \A o \in Procs \ up' : o = p \/ o \notin up,
         p \in up' \/ \A s \in Slots : t2[s].at = "off"
  PROVE  queue' \in [Procs -> Queues] /\ task' \in [Procs -> [Slots -> Tasks]] /\ DrainsOk'
<1>1. /\ queue \in [Procs -> Queues] /\ task \in [Procs -> [Slots -> Tasks]]
      /\ broken \in [Procs -> Nat]
      /\ \A o \in Procs : DrainOk(o, queue[o], task[o], broken[o])
      /\ \A o \in Procs \ up, s \in Slots : task[o][s].at = "off"
  BY DEF QueueInv, QueueTypeOK, DrainsOk
<1>2. /\ queue' \in [Procs -> Queues] /\ task' \in [Procs -> [Slots -> Tasks]]
      /\ broken' \in [Procs -> Nat]
      /\ queue'[p] = q2 /\ task'[p] = t2 /\ broken'[p] = cut
      /\ \A o \in Procs \ {p} : /\ queue'[o] = queue[o] /\ task'[o] = task[o]
                                /\ broken'[o] = broken[o]
  BY <1>1
<1>3. \A o \in Procs : DrainOk(o, queue'[o], task'[o], broken'[o])
  BY <1>1, <1>2
<1>4. \A o \in Procs \ up', s \in Slots : task'[o][s].at = "off"
  BY <1>1, <1>2
<1> QED
  BY <1>2, <1>3, <1>4 DEF DrainsOk

LEMMA AwakeWakes ==
  ASSUME NEW p \in Procs, NEW j \in Jobs
  PROVE  Awake(p, j) <=> Wakes(queue[p], task[p], j)
BY DEF Awake, Wakes

LEMMA AwakeWakesNext ==
  ASSUME NEW p \in Procs, NEW j \in Jobs
  PROVE  Awake(p, j)' <=> Wakes(queue'[p], task'[p], j)
BY DEF Awake, Wakes

\* Who was awake stays awake if the process that moves does.
LEMMA NobodyForgets ==
  ASSUME QueueInv, NEW p \in Procs, NEW q2 \in Queues, NEW t2 \in [Slots -> Tasks],
         queue' = [queue EXCEPT ![p] = q2], task' = [task EXCEPT ![p] = t2], up' = up,
         \A j \in Jobs :
           job'[j] = "pending" /\ kicker'[j] = Nobody /\ j \notin excused' =>
             \/ p \in up /\ Wakes(q2, t2, j)
             \/ /\ job[j] = "pending" /\ kicker[j] = Nobody /\ j \notin excused
                /\ Wakes(queue[p], task[p], j) => Wakes(q2, t2, j)
  PROVE  NoLostWakeup'
<1> SUFFICES ASSUME NEW j \in Jobs, job'[j] = "pending", kicker'[j] = Nobody,
                    j \notin excused'
             PROVE  \E o \in up' : Awake(o, j)'
  BY DEF NoLostWakeup
<1>1. /\ up \subseteq Procs /\ queue'[p] = q2 /\ task'[p] = t2
      /\ \A o \in Procs \ {p} : queue'[o] = queue[o] /\ task'[o] = task[o]
  BY DEF QueueInv, QueueTypeOK
<1>2. CASE p \in up /\ Wakes(q2, t2, j)
  BY <1>1, <1>2, AwakeWakesNext
<1>3. CASE ~(p \in up /\ Wakes(q2, t2, j))
  <2>1. /\ job[j] = "pending" /\ kicker[j] = Nobody /\ j \notin excused
        /\ Wakes(queue[p], task[p], j) => Wakes(q2, t2, j)
    BY <1>3
  <2>2. PICK o \in up : Awake(o, j)
    BY <2>1 DEF QueueInv, NoLostWakeup
  <2>3. o \in Procs /\ Wakes(queue[o], task[o], j)
    BY <1>1, <2>2, AwakeWakes
  <2>4. Wakes(queue'[o], task'[o], j)
    BY <1>1, <2>1, <2>3
  <2>5. Awake(o, j)'
    BY <2>3, <2>4, AwakeWakesNext
  <2> QED
    BY <2>5
<1> QED
  BY <1>2, <1>3

\* A process without tasks, as it dies or starts.
LEMMA EmptyDrain ==
  ASSUME NEW p \in Procs, NEW q \in Queues, NEW cut \in Nat,
         q.processed = 0, q.found = 0, ~q.running, q.scheduled => p \in Enabled,
         NEW t2 \in [Slots -> Tasks], \A s \in Slots : t2[s].at = "off" /\ ~t2[s].of
  PROVE  DrainOk(p, q, t2, cut)
<1>1. Of(t2) = {} /\ Orphans(t2) = {}
  BY DEF Of, Orphans
<1>2. Cardinality(Of(t2)) = 0 /\ Cardinality(Orphans(t2)) = 0
  BY <1>1, SetsEmpty
<1>3. 1 <= Width(0) /\ Width(0) \in Int
  BY WidthFits, Sizes
<1>4. 0 <= cut * (Concurrency - 1)
  BY CutsAdd
<1> QED
  BY <1>2, <1>3, <1>4, Sizes DEF DrainOk

LEMMA StartedOk ==
  ASSUME NEW p \in Procs
  PROVE  /\ Started(p) \in Queues /\ ~Started(p).running
         /\ Started(p).processed = 0 /\ Started(p).found = 0
         /\ Started(p).scheduled => p \in Enabled
         /\ FreshQueue \in Queues /\ ~FreshQueue.running /\ ~FreshQueue.scheduled
         /\ FreshQueue.processed = 0 /\ FreshQueue.found = 0
<1>1. 0 \in 0..BatchSize /\ 0 \in 0..Concurrency - 1
  BY Sizes
<1>2. PICK b \in BOOLEAN : b <=> p \in Enabled
  OBVIOUS
<1>3. Started(p) = [FreshQueue EXCEPT !.scheduled = b]
  BY <1>2 DEF Started
<1> QED
  BY <1>1, <1>2, <1>3 DEF FreshQueue, Queues

LEMMA QueueInitInv == QueueInit => QueueInv
<1> SUFFICES ASSUME QueueInit PROVE QueueInv
  OBVIOUS
<1>1. /\ NoTask \in Tasks /\ ~NoTask.of /\ NoTask.at = "off"
  BY DEF NoTask, Tasks
<1>3. QueueTypeOK
  BY <1>1, StartedOk, SizesPositive DEF QueueInit, QueueTypeOK, States, SizesPositive
<1>4. ASSUME NEW p \in Procs
      PROVE  DrainOk(p, queue[p], task[p], broken[p])
  <2>1. PICK q2 \in Queues, t2 \in [Slots -> Tasks], cut \in Nat :
          /\ q2 = queue[p] /\ t2 = task[p] /\ cut = broken[p] /\ q2 = Started(p)
          /\ \A s \in Slots : t2[s] = NoTask
    BY <1>1, <1>3, StartedOk DEF QueueInit
  <2> QED
    BY <1>1, <2>1, StartedOk, EmptyDrain
<1>5. DrainsOk
  BY <1>4 DEF QueueInit, DrainsOk, NoTask
<1>6. NoLostWakeup
  BY DEF QueueInit, NoLostWakeup
<1> QED
  BY <1>3, <1>5, <1>6 DEF QueueInv

-------------------------------------------------------------------------------
\* The steps of a process's drain.
LEMMA DrainStartsKeeps ==
  ASSUME QueueInv, NEW p \in Procs, DrainStarts(p)
  PROVE  QueueInv'
<1> DEFINE q == [queue[p] EXCEPT !.scheduled = FALSE]
<1>1. /\ queue[p] \in Queues /\ task[p] \in [Slots -> Tasks] /\ p \in up
      /\ queue \in [Procs -> Queues] /\ task \in [Procs -> [Slots -> Tasks]]
      /\ DrainOk(p, queue[p], task[p], broken[p])
      /\ broken \in [Procs -> Nat] /\ broken[p] \in Nat
      /\ p \in Enabled /\ queue[p].scheduled
      /\ UNCHANGED <<job, kicker, up, faults, broken, excused>>
  BY DEF QueueInv, QueueTypeOK, DrainsOk, DrainStarts, DrainOk
<1>2. PICK q2 \in Queues, t2 \in [Slots -> Tasks] :
        /\ queue' = [queue EXCEPT ![p] = q2] /\ task' = [task EXCEPT ![p] = t2]
        /\ DrainOk(p, q2, t2, broken[p]) /\ \A j \in Jobs : Wakes(q2, t2, j)
  <2>1. CASE queue[p].running
    <3> DEFINE q2 == [q EXCEPT !.rerunRequested = TRUE]
    <3>1. /\ q2 \in Queues /\ q2.running /\ q2.rerunRequested
          /\ q2.processed = queue[p].processed /\ q2.found = queue[p].found
      BY <1>1, <2>1 DEF Queues
    <3>2. queue' = [queue EXCEPT ![p] = q2] /\ task' = [task EXCEPT ![p] = task[p]]
      BY <1>1, <2>1 DEF DrainStarts, Queues
    <3>3. DrainOk(p, q2, task[p], broken[p])
      BY <1>1, <2>1, <3>1 DEF DrainOk
    <3>4. \A j \in Jobs : Wakes(q2, task[p], j)
      BY <3>1 DEF Wakes
    <3> HIDE DEF q2
    <3> QED
      BY <1>1, <3>1, <3>2, <3>3, <3>4
  <2>2. CASE ~queue[p].running
    <3> DEFINE q1 == [q EXCEPT !.running = TRUE]
    <3>1. q1 \in Counting /\ q1.running
      <4>1. q \in Queues
        BY <1>1 DEF Queues
      <4>2. q \in Counting
        BY <4>1, QueuesCount
      <4> HIDE DEF q
      <4> QED
        BY <4>2 DEF Counting
    <3>2. RoundStarts(p, task[p], q1, 0)
      <4>1. ~q.running
        BY <1>1, <2>2 DEF Queues
      <4>2. IF q.running THEN queue' = [queue EXCEPT ![p] = [q EXCEPT !.rerunRequested = TRUE]]
                              /\ UNCHANGED task
                         ELSE RoundStarts(p, task[p], q1, 0)
        BY DEF DrainStarts
      <4> HIDE DEF q, q1
      <4> QED
        BY <4>1, <4>2
    <3>3. Of(task[p]) = {}
      BY <1>1, <2>2 DEF DrainOk, Of
    <3>4. Cardinality(Orphans(task[p])) <= broken[p] * (Concurrency - 1)
      BY <1>1 DEF DrainOk
    <3>5. 0 \in Int /\ 0 < BatchSize /\ QueueTypeOK
      BY Sizes DEF QueueInv
    <3> HIDE DEF q1
    <3> QED
      BY <1>1, <3>1, <3>2, <3>3, <3>4, <3>5, RoundOk
  <2> QED
    BY <2>1, <2>2
<1>3. /\ \A j \in Jobs : kicker'[j] \in up' \cup {Nobody}
      /\ broken' = [broken EXCEPT ![p] = broken[p]] /\ up' = up /\ p \in up'
  BY <1>1 DEF QueueInv, DrainsOk
<1>4. queue' \in [Procs -> Queues] /\ task' \in [Procs -> [Slots -> Tasks]] /\ DrainsOk'
  BY <1>1, <1>2, <1>3, OthersStand
<1>5. QueueTypeOK'
  BY <1>1, <1>4 DEF QueueInv, QueueTypeOK
<1>6. NoLostWakeup'
  BY <1>1, <1>2, NobodyForgets
<1> QED
  BY <1>4, <1>5, <1>6 DEF QueueInv

LEMMA SelectCandidatesKeeps ==
  ASSUME QueueInv, NEW p \in Procs, NEW s \in Slots, SelectCandidates(p, s)
  PROVE  QueueInv'
<1> DEFINE t2 == [task[p] EXCEPT ![s].at = "claim", ![s].seen = Claimable]
<1>1. /\ queue[p] \in Queues /\ task[p] \in [Slots -> Tasks] /\ task[p][s].at = "select"
      /\ queue \in [Procs -> Queues] /\ task \in [Procs -> [Slots -> Tasks]]
      /\ DrainOk(p, queue[p], task[p], broken[p])
      /\ broken \in [Procs -> Nat] /\ broken[p] \in Nat
      /\ UNCHANGED <<job, kicker, up, queue, faults, broken, excused>>
  BY DEF QueueInv, QueueTypeOK, DrainsOk, SelectCandidates
<1>2. /\ t2 \in [Slots -> Tasks] /\ task' = [task EXCEPT ![p] = t2]
      /\ t2[s].at = "claim" /\ t2[s].seen = Claimable /\ t2[s].of = task[p][s].of
      /\ \A t \in Slots : t # s => t2[t] = task[p][t]
  <2>1. Claimable \in SUBSET Jobs
    BY DEF Claimable
  <2> HIDE DEF Claimable
  <2>2. task' = [task EXCEPT ![p] = t2]
    BY <1>1 DEF SelectCandidates
  <2> QED
    BY <1>1, <2>1, <2>2 DEF Tasks
<1> HIDE DEF t2
<1>3. Of(t2) = Of(task[p]) /\ Orphans(t2) = Orphans(task[p])
  BY <1>1, <1>2 DEF Of, Orphans
<1>4. DrainOk(p, queue[p], t2, broken[p])
  BY <1>1, <1>2, <1>3 DEF DrainOk
<1>5. /\ \A j \in Jobs : kicker'[j] \in up' \cup {Nobody}
      /\ broken' = [broken EXCEPT ![p] = broken[p]]
      /\ queue' = [queue EXCEPT ![p] = queue[p]] /\ up' = up /\ p \in up'
  BY <1>1 DEF QueueInv, DrainsOk
<1>6. queue' \in [Procs -> Queues] /\ task' \in [Procs -> [Slots -> Tasks]] /\ DrainsOk'
  <2>1. PICK q2 \in Queues, cut \in Nat : q2 = queue[p] /\ cut = broken[p]
    BY <1>1
  <2>2. /\ queue' = [queue EXCEPT ![p] = q2] /\ broken' = [broken EXCEPT ![p] = cut]
        /\ DrainOk(p, q2, t2, cut)
    BY <1>4, <1>5, <2>1
  <2> QED
    BY <1>2, <1>5, <2>2, OthersStand
<1>7. QueueTypeOK'
  BY <1>1, <1>6 DEF QueueInv, QueueTypeOK
<1>8. ASSUME NEW j \in Jobs, job[j] = "pending", Wakes(queue[p], task[p], j)
      PROVE  Wakes(queue[p], t2, j)
  <2>1. j \in Claimable
    BY <1>8 DEF Claimable
  <2> QED
    BY <1>1, <1>2, <1>8, <2>1 DEF Wakes
<1>9. NoLostWakeup'
  BY <1>1, <1>2, <1>5, <1>8, NobodyForgets
<1> QED
  BY <1>6, <1>7, <1>9 DEF QueueInv

\* What the steps of a task find before them.
LEMMA TaskFacts ==
  ASSUME QueueInv, NEW p \in Procs, NEW s \in Slots
  PROVE  /\ QueueTypeOK /\ DrainsOk
         /\ queue[p] \in Queues /\ task[p] \in [Slots -> Tasks] /\ broken[p] \in Nat
         /\ task[p][s] \in Tasks /\ task[p][s].job \in Jobs \cup {Nobody}
         /\ queue \in [Procs -> Queues] /\ task \in [Procs -> [Slots -> Tasks]]
         /\ broken \in [Procs -> Nat] /\ job \in [Jobs -> States]
         /\ DrainOk(p, queue[p], task[p], broken[p])
         /\ \A j \in Jobs : kicker[j] \in up \cup {Nobody}
         /\ task[p][s].at # "off" => p \in up
BY DEF QueueInv, QueueTypeOK, DrainsOk, Tasks

\* A task that is over: what it does to its job makes no job pending.
LEMMA TaskOverKeeps ==
  ASSUME QueueInv, NEW p \in Procs, NEW s \in Slots, NEW foundJob \in BOOLEAN,
         task[p][s].at # "off", TaskEnds(p, s, foundJob),
         foundJob \/ (task[p][s].at = "claim" /\ job' = job
                      /\ task[p][s].seen \cap Claimable = {}),
         job' \in [Jobs -> States], faults' \in 0..MaxFaults,
         \A j \in Jobs : job'[j] = "pending" => job[j] = "pending",
         UNCHANGED <<kicker, up, broken, excused>>
  PROVE  QueueInv'
<1>1. /\ QueueTypeOK /\ DrainsOk /\ broken[p] \in Nat /\ broken \in [Procs -> Nat]
      /\ \A j \in Jobs : kicker[j] \in up \cup {Nobody}
  BY TaskFacts
<1>2. PICK q2 \in Queues, t2 \in [Slots -> Tasks] :
        /\ queue' = [queue EXCEPT ![p] = q2] /\ task' = [task EXCEPT ![p] = t2]
        /\ DrainOk(p, q2, t2, broken[p])
        /\ \A j \in Jobs :
             /\ Wakes(queue[p], task[p], j)
             /\ foundJob \/ (task[p][s].at = "claim" /\ j \notin task[p][s].seen)
             => Wakes(q2, t2, j)
  BY <1>1, TaskEndsOk
<1>3. /\ \A j \in Jobs : kicker'[j] \in up' \cup {Nobody}
      /\ broken' = [broken EXCEPT ![p] = broken[p]] /\ up' = up /\ p \in up'
  BY <1>1, TaskFacts
<1>4. queue' \in [Procs -> Queues] /\ task' \in [Procs -> [Slots -> Tasks]] /\ DrainsOk'
  BY <1>1, <1>2, <1>3, OthersStand
<1>5. QueueTypeOK'
  BY <1>1, <1>4 DEF QueueTypeOK
<1>6. ASSUME NEW j \in Jobs, job[j] = "pending", Wakes(queue[p], task[p], j)
      PROVE  Wakes(q2, t2, j)
  <2>1. ~foundJob => j \notin task[p][s].seen
    BY <1>6 DEF Claimable
  <2> QED
    BY <1>2, <1>6, <2>1
<1>7. NoLostWakeup'
  <2>1. up' = up
    OBVIOUS
  <2>2. ASSUME NEW j \in Jobs, job'[j] = "pending", kicker'[j] = Nobody, j \notin excused'
        PROVE  /\ job[j] = "pending" /\ kicker[j] = Nobody /\ j \notin excused
               /\ Wakes(queue[p], task[p], j) => Wakes(q2, t2, j)
    BY <1>6, <2>2
  <2> QED
    BY <1>2, <2>1, <2>2, NobodyForgets
<1> QED
  BY <1>4, <1>5, <1>7 DEF QueueInv

LEMMA FinishJobKeeps ==
  ASSUME QueueInv, NEW p \in Procs, NEW s \in Slots, FinishJob(p, s)
  PROVE  QueueInv'
<1>1. /\ task[p][s].at # "off" /\ TaskEnds(p, s, TRUE)
      /\ job' = [job EXCEPT ![task[p][s].job] = "done"]
      /\ UNCHANGED <<kicker, up, faults, broken, excused>>
  BY DEF FinishJob
<1>2. job' \in [Jobs -> States] /\ \A j \in Jobs : job'[j] = "pending" => job[j] = "pending"
  BY <1>1, TaskFacts DEF States
<1>3. faults' \in 0..MaxFaults
  BY <1>1 DEF QueueInv, QueueTypeOK
<1> QED
  BY <1>1, <1>2, <1>3, TaskOverKeeps

LEMMA FaultCounts == ASSUME QueueInv, Fault PROVE faults' \in 0..MaxFaults
BY SizesPositive DEF QueueInv, QueueTypeOK, Fault, SizesPositive

LEMMA FailJobKeeps ==
  ASSUME QueueInv, NEW p \in Procs, NEW s \in Slots, FailJob(p, s)
  PROVE  QueueInv'
<1>1. /\ task[p][s].at # "off" /\ TaskEnds(p, s, TRUE) /\ Fault
      /\ job' = [job EXCEPT ![task[p][s].job] = "waiting"]
      /\ UNCHANGED <<kicker, up, broken, excused>>
  BY DEF FailJob
<1>2. job' \in [Jobs -> States] /\ \A j \in Jobs : job'[j] = "pending" => job[j] = "pending"
  BY <1>1, TaskFacts DEF States
<1> QED
  BY <1>1, <1>2, FaultCounts, TaskOverKeeps

LEMMA ClaimJobKeeps ==
  ASSUME QueueInv, NEW p \in Procs, NEW s \in Slots, ClaimJob(p, s)
  PROVE  QueueInv'
<1>1. task[p][s].at = "claim" /\ UNCHANGED <<kicker, up, faults, broken>>
  BY DEF ClaimJob
<1>2. CASE task[p][s].seen \cap Claimable = {}
  <2>1. TaskEnds(p, s, FALSE) /\ UNCHANGED <<job, excused>>
    BY <1>2 DEF ClaimJob
  <2>2. job' \in [Jobs -> States] /\ \A j \in Jobs : job'[j] = "pending" => job[j] = "pending"
    BY <2>1, TaskFacts
  <2>3. faults' \in 0..MaxFaults
    BY <1>1 DEF QueueInv, QueueTypeOK
  <2> QED
    BY <1>1, <1>2, <2>1, <2>2, <2>3, TaskOverKeeps
<1>3. ASSUME NEW j \in task[p][s].seen \cap Claimable,
             job' = [job EXCEPT ![j] = "running"],
             task' = [task EXCEPT ![p][s].at = "work", ![p][s].job = j, ![p][s].seen = {}],
             excused' = excused \ {j}, UNCHANGED queue
      PROVE  QueueInv'
  <2> DEFINE t2 == [task[p] EXCEPT ![s].at = "work", ![s].job = j, ![s].seen = {}]
  <2>0. j \in Jobs
    BY DEF Claimable
  <2>1. /\ t2 \in [Slots -> Tasks] /\ task' = [task EXCEPT ![p] = t2]
        /\ t2[s].at = "work" /\ t2[s].of = task[p][s].of
        /\ \A t \in Slots : t # s => t2[t] = task[p][t]
    <3>1. /\ task[p] \in [Slots -> Tasks] /\ task \in [Procs -> [Slots -> Tasks]]
          /\ task[p][s] \in Tasks
      BY TaskFacts
    <3>2. task' = [task EXCEPT ![p] = t2]
      BY <1>3, <3>1
    <3>3. t2[s] = [task[p][s] EXCEPT !.at = "work", !.job = j, !.seen = {}]
      BY <3>1
    <3>4. t2[s] \in Tasks /\ t2[s].at = "work" /\ t2[s].of = task[p][s].of
      BY <2>0, <3>1, <3>3 DEF Tasks
    <3> QED
      BY <3>1, <3>2, <3>4
  <2> HIDE DEF t2
  <2>2. Of(t2) = Of(task[p]) /\ Orphans(t2) = Orphans(task[p])
    BY <1>1, <2>1 DEF Of, Orphans
  <2>3. PICK q2 \in Queues, cut \in Nat : q2 = queue[p] /\ cut = broken[p]
    BY TaskFacts
  <2>4. DrainOk(p, q2, t2, cut)
    BY <1>1, <2>1, <2>2, <2>3, TaskFacts DEF DrainOk
  <2>5. /\ \A i \in Jobs : kicker'[i] \in up' \cup {Nobody}
        /\ broken' = [broken EXCEPT ![p] = cut]
        /\ queue' = [queue EXCEPT ![p] = q2] /\ up' = up /\ p \in up'
    BY <1>1, <1>3, <2>3, TaskFacts
  <2>6. queue' \in [Procs -> Queues] /\ task' \in [Procs -> [Slots -> Tasks]] /\ DrainsOk'
    BY <2>1, <2>4, <2>5, OthersStand
  <2>7. QueueTypeOK'
    BY <1>1, <1>3, <2>0, <2>6, TaskFacts DEF QueueTypeOK, States
  <2>8. ASSUME NEW i \in Jobs, job'[i] = "pending", i \notin excused'
        PROVE  /\ job[i] = "pending" /\ i \notin excused
               /\ Wakes(queue[p], task[p], i) => Wakes(q2, t2, i)
    <3>1. i # j /\ job[i] = "pending" /\ i \notin excused
      BY <1>3, <2>0, <2>8, TaskFacts
    <3>2. Wakes(queue[p], task[p], i) => Wakes(q2, t2, i)
      BY <1>1, <2>1, <2>3 DEF Wakes
    <3> QED
      BY <3>1, <3>2
  <2>9. NoLostWakeup'
    BY <1>1, <2>1, <2>5, <2>8, NobodyForgets
  <2> QED
    BY <2>6, <2>7, <2>9 DEF QueueInv
<1> QED
  BY <1>2, <1>3 DEF ClaimJob

\* A task that throws ends the drain that waits for it; the others it waited for,
\* at most Concurrency - 1, are left behind, and what was pending is excused.
LEMMA TaskThrowsKeeps ==
  ASSUME QueueInv, NEW p \in Procs, NEW s \in Slots, TaskThrows(p, s)
  PROVE  QueueInv'
<1> DEFINE t2 == [t \in Slots |->
                   IF t = s THEN NoTask
                   ELSE [task[p][t] EXCEPT !.of = @ /\ ~task[p][s].of]]
<1>1. /\ task[p][s].at # "off" /\ Fault /\ UNCHANGED <<kicker, up>>
      /\ job' = IF task[p][s].at = "work" THEN [job EXCEPT ![task[p][s].job] = "waiting"]
                                          ELSE job
      /\ task' = [task EXCEPT ![p] = t2]
  BY DEF TaskThrows
<1>2. /\ job' \in [Jobs -> States] /\ faults' \in 0..MaxFaults
      /\ \A j \in Jobs : job'[j] = "pending" => job[j] = "pending"
      /\ \A j \in Jobs : kicker'[j] \in up' \cup {Nobody}
      /\ up' = up /\ p \in up'
  BY <1>1, TaskFacts, FaultCounts DEF States
<1>3. PICK gone \in BOOLEAN : gone <=> task[p][s].of
  OBVIOUS
<1>4. /\ t2 \in [Slots -> Tasks] /\ ~t2[s].of /\ t2[s].at = "off"
      /\ \A t \in Slots : t # s => /\ t2[t].at = task[p][t].at /\ t2[t].seen = task[p][t].seen
                                   /\ t2[t].of <=> task[p][t].of /\ ~gone
  <2>1. NoTask \in Tasks /\ ~NoTask.of /\ NoTask.at = "off"
    BY DEF NoTask, Tasks
  <2>2. ASSUME NEW t \in Slots, t # s
        PROVE  /\ t2[t] \in Tasks
               /\ t2[t].at = task[p][t].at /\ t2[t].seen = task[p][t].seen
               /\ t2[t].of <=> task[p][t].of /\ ~gone
    <3>1. PICK b \in BOOLEAN : b <=> task[p][t].of /\ ~gone
      OBVIOUS
    <3>2. b = (task[p][t].of /\ ~task[p][s].of)
      BY <1>3, <3>1
    <3>3. t2[t] = [task[p][t] EXCEPT !.of = b]
      BY <2>2, <3>2
    <3>4. task[p][t] \in Tasks
      BY TaskFacts
    <3> QED
      BY <3>1, <3>3, <3>4 DEF Tasks
  <2>3. t2[s] = NoTask
    OBVIOUS
  <2> HIDE DEF t2
  <2>4. ASSUME NEW t \in Slots PROVE t2[t] \in Tasks
    BY <2>1, <2>2, <2>3
  <2>5. t2 = [t \in Slots |-> t2[t]]
    BY DEF t2
  <2> QED
    BY <2>1, <2>2, <2>3, <2>4, <2>5
<1> HIDE DEF t2
<1>5. /\ Of(task[p]) \in SUBSET Slots /\ Orphans(task[p]) \in SUBSET Slots
      /\ Of(t2) \in SUBSET Slots /\ Orphans(t2) \in SUBSET Slots
      /\ Cardinality(Of(task[p])) \in Int /\ Cardinality(Orphans(task[p])) \in Int
      /\ Cardinality(Of(t2)) \in Int /\ Cardinality(Orphans(t2)) \in Int
  BY SlotSets DEF Of, Orphans
<1>6. CASE ~task[p][s].of
  <2>1. UNCHANGED <<queue, broken, excused>>
    BY <1>6 DEF TaskThrows
  <2>2. PICK q2 \in Queues, cut \in Nat : q2 = queue[p] /\ cut = broken[p]
    BY TaskFacts
  <2>3. Of(t2) = Of(task[p]) /\ Orphans(t2) \in SUBSET Orphans(task[p])
    BY <1>3, <1>4, <1>6 DEF Of, Orphans
  <2>4. Cardinality(Orphans(t2)) <= Cardinality(Orphans(task[p]))
    BY <1>5, <2>3, SetsGrow
  <2>5. DrainOk(p, q2, t2, cut)
    <3>1. DrainOk(p, q2, task[p], cut)
      BY <2>2, TaskFacts
    <3>2. Cardinality(Orphans(t2)) <= cut * (Concurrency - 1)
      BY <1>5, <2>4, <3>1, CutsAdd DEF DrainOk
    <3> QED
      BY <1>3, <1>4, <1>6, <2>3, <3>1, <3>2 DEF DrainOk
  <2>6. queue' = [queue EXCEPT ![p] = q2] /\ broken' = [broken EXCEPT ![p] = cut]
    BY <2>1, <2>2, TaskFacts
  <2>7. queue' \in [Procs -> Queues] /\ task' \in [Procs -> [Slots -> Tasks]] /\ DrainsOk'
    BY <1>1, <1>2, <1>4, <2>5, <2>6, OthersStand
  <2>8. QueueTypeOK'
    BY <1>1, <1>2, <2>1, <2>7, TaskFacts DEF QueueTypeOK
  <2>9. ASSUME NEW j \in Jobs, Wakes(queue[p], task[p], j) PROVE Wakes(q2, t2, j)
    BY <1>3, <1>4, <1>6, <2>2, <2>9 DEF Wakes
  <2>10. NoLostWakeup'
    <3>1. up' = up
      BY <1>1
    <3>2. ASSUME NEW j \in Jobs, job'[j] = "pending", kicker'[j] = Nobody, j \notin excused'
          PROVE  /\ job[j] = "pending" /\ kicker[j] = Nobody /\ j \notin excused
                 /\ Wakes(queue[p], task[p], j) => Wakes(q2, t2, j)
      BY <1>1, <1>2, <2>1, <2>9, <3>2
    <3> QED
      BY <1>1, <1>4, <2>6, <3>1, <3>2, NobodyForgets
  <2> QED
    BY <2>7, <2>8, <2>10 DEF QueueInv
<1>7. CASE task[p][s].of
  <2>1. /\ queue' = [queue EXCEPT ![p] = Ended(p, queue[p], FALSE)]
        /\ broken' = [broken EXCEPT ![p] = @ + 1]
        /\ excused' = excused \cup {j \in Jobs : job[j] = "pending"}
    BY <1>7 DEF TaskThrows
  <2>2. PICK q2 \in Queues : q2 = Ended(p, queue[p], FALSE)
    BY TaskFacts, EndedOk, QueuesCount
  <2>3. /\ ~q2.running /\ q2.processed = 0 /\ q2.found = 0
        /\ q2.scheduled => queue[p].scheduled \/ p \in Enabled
    BY <2>2, TaskFacts, EndedOk, QueuesCount
  <2>4. PICK cut \in Nat : cut = broken[p] + 1
    BY TaskFacts
  <2>5. \A t \in Slots : ~t2[t].of
    BY <1>3, <1>4, <1>7
  <2>6. Of(t2) = {} /\ Orphans(t2) \in SUBSET (Orphans(task[p]) \cup (Of(task[p]) \ {s}))
    BY <1>4, <2>5 DEF Of, Orphans
  <2>7. Cardinality(Orphans(t2)) <= cut * (Concurrency - 1)
    <3> DEFINE rest == Of(task[p]) \ {s}
    <3>1. /\ s \in Of(task[p]) /\ Cardinality(rest) = Cardinality(Of(task[p])) - 1
      BY <1>5, <1>7, SetsShrink DEF Of
    <3>2. rest \in SUBSET Slots
      BY <1>5
    <3> HIDE DEF rest
    <3>3. Cardinality(Orphans(task[p]) \cup rest)
            <= Cardinality(Orphans(task[p])) + Cardinality(rest)
      BY <1>5, <3>2, SetsJoin
    <3>4. (Orphans(task[p]) \cup rest) \in SUBSET Slots
      BY <1>5, <3>2
    <3>5. /\ Cardinality(Orphans(t2)) <= Cardinality(Orphans(task[p]) \cup rest)
          /\ Cardinality(Orphans(task[p]) \cup rest) \in Int
      BY <2>6, <3>4, SetsGrow, SlotSets DEF rest
    <3>6. /\ Cardinality(Of(task[p])) <= Concurrency
          /\ Cardinality(Orphans(task[p])) <= broken[p] * (Concurrency - 1)
      <4>1. /\ queue[p].processed \in 0..BatchSize /\ queue[p].processed < BatchSize
            /\ queue[p].found \in 0..Concurrency - 1
            /\ queue[p].found + Cardinality(Of(task[p])) <= Width(queue[p].processed)
            /\ Cardinality(Orphans(task[p])) <= broken[p] * (Concurrency - 1)
        BY TaskFacts DEF DrainOk, Queues
      <4>2. Width(queue[p].processed) \in Int /\ Width(queue[p].processed) <= Concurrency
        BY <4>1, Sizes, WidthFits
      <4> QED
        BY <1>5, <4>1, <4>2, Sizes
    <3>7. /\ broken[p] * (Concurrency - 1) \in Int
          /\ cut * (Concurrency - 1) = broken[p] * (Concurrency - 1) + (Concurrency - 1)
      BY <2>4, TaskFacts, CutsAdd
    <3> QED
      BY <1>5, <3>1, <3>3, <3>5, <3>6, <3>7, Sizes
  <2>8. DrainOk(p, q2, t2, cut)
    <3>1. Cardinality(Of(t2)) = 0 /\ 1 <= Width(0) /\ Width(0) \in Int
      BY <1>5, <2>6, SetsEmpty, WidthFits, Sizes
    <3>2. q2.scheduled => p \in Enabled
      BY <2>3, TaskFacts DEF DrainOk
    <3> QED
      BY <2>3, <2>5, <2>7, <3>1, <3>2, Sizes DEF DrainOk
  <2>9. queue' = [queue EXCEPT ![p] = q2] /\ broken' = [broken EXCEPT ![p] = cut]
    BY <2>1, <2>2, <2>4, TaskFacts
  <2>10. queue' \in [Procs -> Queues] /\ task' \in [Procs -> [Slots -> Tasks]] /\ DrainsOk'
    BY <1>1, <1>2, <1>4, <2>8, <2>9, OthersStand
  <2>11. QueueTypeOK'
    BY <1>1, <1>2, <2>1, <2>10, TaskFacts DEF QueueTypeOK
  <2>12. NoLostWakeup'
    BY <1>2, <2>1 DEF NoLostWakeup
  <2> QED
    BY <2>10, <2>11, <2>12 DEF QueueInv
<1> QED
  BY <1>6, <1>7

-------------------------------------------------------------------------------
\* Kicks, time and processes that die or start.

\* A kick leaves the tasks alone and whoever is awake awake.
LEMMA KickDrain ==
  ASSUME QueueInv, NEW p \in Procs, NEW cut \in Nat, cut = broken[p],
         NEW q2 \in Queues, q2 = Kicked(p, queue[p])
  PROVE  /\ DrainOk(p, q2, task[p], cut)
         /\ \A j \in Jobs : Wakes(queue[p], task[p], j) => Wakes(q2, task[p], j)
         /\ \A j \in Jobs : p \in Enabled => Wakes(q2, task[p], j)
<1>1. /\ q2.running = queue[p].running /\ q2.processed = queue[p].processed
      /\ q2.found = queue[p].found
      /\ queue[p].scheduled => q2.scheduled
      /\ queue[p].rerunRequested => q2.rerunRequested
      /\ p \in Enabled => q2.scheduled \/ (queue[p].running /\ q2.rerunRequested)
      /\ p \notin Enabled => q2 = queue[p]
  BY TaskFacts, KickedOk DEF QueueInv, QueueTypeOK
<1>2. DrainOk(p, queue[p], task[p], cut)
  BY DEF QueueInv, DrainsOk
<1>3. DrainOk(p, q2, task[p], cut)
  BY <1>1, <1>2 DEF DrainOk
<1>4. ASSUME NEW j \in Jobs, Wakes(queue[p], task[p], j) PROVE Wakes(q2, task[p], j)
  BY <1>1, <1>4 DEF Wakes
<1>5. ASSUME NEW j \in Jobs, p \in Enabled PROVE Wakes(q2, task[p], j)
  BY <1>1, <1>5 DEF Wakes
<1> QED
  BY <1>3, <1>4, <1>5

LEMMA KickKeeps ==
  ASSUME QueueInv, NEW j \in Jobs, Kick(j)
  PROVE  QueueInv'
<1>1. PICK p \in Procs : p = kicker[j] /\ p \in up
  BY Sizes DEF Kick, QueueInv, QueueTypeOK, DrainsOk
<1>2. /\ queue[p] \in Queues /\ task[p] \in [Slots -> Tasks] /\ broken[p] \in Nat
      /\ task \in [Procs -> [Slots -> Tasks]] /\ broken \in [Procs -> Nat]
      /\ queue \in [Procs -> Queues] /\ kicker \in [Jobs -> Procs \cup {Nobody}]
      /\ \A i \in Jobs : kicker[i] \in up \cup {Nobody}
  BY DEF QueueInv, QueueTypeOK, DrainsOk
<1>3. PICK q2 \in Queues, t2 \in [Slots -> Tasks], cut \in Nat :
        q2 = Kicked(p, queue[p]) /\ t2 = task[p] /\ cut = broken[p]
  BY <1>2, KickedOk
<1>4. /\ queue' = [queue EXCEPT ![p] = q2] /\ task' = [task EXCEPT ![p] = t2]
      /\ broken' = [broken EXCEPT ![p] = cut] /\ kicker' = [kicker EXCEPT ![j] = Nobody]
      /\ excused' = (IF p \in Enabled THEN excused ELSE excused \cup {j})
      /\ UNCHANGED <<job, up, faults>>
  BY <1>1, <1>2, <1>3 DEF Kick
<1>5. /\ DrainOk(p, q2, t2, cut)
      /\ \A i \in Jobs : Wakes(queue[p], task[p], i) => Wakes(q2, t2, i)
      /\ \A i \in Jobs : p \in Enabled => Wakes(q2, t2, i)
  BY <1>3, KickDrain
<1>6. /\ \A i \in Jobs : kicker'[i] \in up' \cup {Nobody}
      /\ up' = up /\ p \in up'
  BY <1>1, <1>2, <1>4
<1>7. queue' \in [Procs -> Queues] /\ task' \in [Procs -> [Slots -> Tasks]] /\ DrainsOk'
  BY <1>4, <1>5, <1>6, OthersStand
<1>8. QueueTypeOK'
  BY <1>4, <1>7 DEF QueueInv, QueueTypeOK
<1>9. NoLostWakeup'
  <2>1. ASSUME NEW i \in Jobs, job'[i] = "pending", kicker'[i] = Nobody, i \notin excused'
        PROVE  \/ p \in up /\ Wakes(q2, t2, i)
               \/ /\ job[i] = "pending" /\ kicker[i] = Nobody /\ i \notin excused
                  /\ Wakes(queue[p], task[p], i) => Wakes(q2, t2, i)
    BY <1>1, <1>2, <1>4, <1>5, <2>1
  <2>2. up' = up
    BY <1>4
  <2> QED
    BY <1>4, <2>1, <2>2, NobodyForgets
<1> QED
  BY <1>7, <1>8, <1>9 DEF QueueInv

LEMMA PollKeeps ==
  ASSUME QueueInv, NEW p \in Procs, Poll(p)
  PROVE  QueueInv'
<1>1. /\ queue[p] \in Queues /\ task[p] \in [Slots -> Tasks] /\ broken[p] \in Nat
      /\ task \in [Procs -> [Slots -> Tasks]] /\ broken \in [Procs -> Nat]
      /\ queue \in [Procs -> Queues]
      /\ \A i \in Jobs : kicker[i] \in up \cup {Nobody}
  BY DEF QueueInv, QueueTypeOK, DrainsOk
<1>2. PICK q2 \in Queues, t2 \in [Slots -> Tasks], cut \in Nat :
        q2 = Kicked(p, queue[p]) /\ t2 = task[p] /\ cut = broken[p]
  BY <1>1, KickedOk
<1>3. /\ queue' = [queue EXCEPT ![p] = q2] /\ task' = [task EXCEPT ![p] = t2]
      /\ broken' = [broken EXCEPT ![p] = cut]
      /\ UNCHANGED <<job, kicker, up, faults, excused>>
  BY <1>1, <1>2 DEF Poll
<1>4. /\ DrainOk(p, q2, t2, cut)
      /\ \A i \in Jobs : Wakes(queue[p], task[p], i) => Wakes(q2, t2, i)
  BY <1>2, KickDrain
<1>5. /\ \A i \in Jobs : kicker'[i] \in up' \cup {Nobody}
      /\ up' = up /\ p \in up'
  BY <1>1, <1>3 DEF Poll
<1>6. queue' \in [Procs -> Queues] /\ task' \in [Procs -> [Slots -> Tasks]] /\ DrainsOk'
  BY <1>3, <1>4, <1>5, OthersStand
<1>7. QueueTypeOK'
  BY <1>3, <1>6 DEF QueueInv, QueueTypeOK
<1>8. NoLostWakeup'
  BY <1>3, <1>4, NobodyForgets
<1> QED
  BY <1>6, <1>7, <1>8 DEF QueueInv

LEMMA EnqueueKeeps ==
  ASSUME QueueInv, NEW p \in Procs, NEW j \in Jobs, Enqueue(p, j)
  PROVE  QueueInv'
<1>1. /\ p \in up /\ job' = [job EXCEPT ![j] = "pending"]
      /\ kicker' = [kicker EXCEPT ![j] = p]
      /\ UNCHANGED <<up, queue, task, faults, broken, excused>>
  BY DEF Enqueue
<1>2. /\ QueueTypeOK' /\ DrainsOk'
  BY <1>1 DEF QueueInv, QueueTypeOK, DrainsOk, States
<1>3. ASSUME NEW o \in Procs, NEW i \in Jobs PROVE Awake(o, i)' <=> Awake(o, i)
  BY <1>1 DEF Awake
<1>4. NoLostWakeup'
  BY <1>1, <1>3, Sizes DEF QueueInv, QueueTypeOK, NoLostWakeup
<1> QED
  BY <1>2, <1>4 DEF QueueInv

LEMMA TimePassesKeeps ==
  ASSUME QueueInv, NEW j \in Jobs, TimePasses(j)
  PROVE  QueueInv'
<1>1. /\ job' = [job EXCEPT ![j] = "due"]
      /\ UNCHANGED <<kicker, up, queue, task, faults, broken, excused>>
  BY DEF TimePasses
<1>2. /\ QueueTypeOK' /\ DrainsOk'
  BY <1>1 DEF QueueInv, QueueTypeOK, DrainsOk, States
<1>3. ASSUME NEW o \in Procs, NEW i \in Jobs PROVE Awake(o, i)' <=> Awake(o, i)
  BY <1>1 DEF Awake
<1>4. NoLostWakeup'
  BY <1>1, <1>3 DEF QueueInv, QueueTypeOK, NoLostWakeup
<1> QED
  BY <1>2, <1>4 DEF QueueInv

LEMMA CrashKeeps ==
  ASSUME QueueInv, NEW p \in Procs, Crash(p)
  PROVE  QueueInv'
<1>1. /\ p \in up /\ Fault /\ up' = up \ {p}
      /\ job' = [j \in Jobs |-> IF \E s \in Slots : task[p][s].job = j
                                THEN "waiting" ELSE job[j]]
      /\ kicker' = [j \in Jobs |-> IF kicker[j] = p THEN Nobody ELSE kicker[j]]
      /\ queue' = [queue EXCEPT ![p] = FreshQueue]
      /\ task' = [task EXCEPT ![p] = [s \in Slots |-> NoTask]]
      /\ excused' = excused \cup {j \in Jobs : job[j] = "pending"}
      /\ broken' = broken
  BY DEF Crash
<1>2. PICK t2 \in [Slots -> Tasks] : t2 = [s \in Slots |-> NoTask]
  <2>1. NoTask \in Tasks
    BY DEF NoTask, Tasks
  <2> QED
    BY <2>1
<1>3. PICK q2 \in Queues, cut \in Nat : q2 = FreshQueue /\ cut = broken[p]
  BY StartedOk DEF QueueInv, DrainsOk
<1>4. DrainOk(p, q2, t2, cut)
  BY <1>2, <1>3, StartedOk, EmptyDrain DEF NoTask
<1>5. /\ \A j \in Jobs : kicker'[j] \in up' \cup {Nobody}
      /\ \A o \in Procs \ up' : o = p \/ o \notin up
      /\ \A s \in Slots : t2[s].at = "off"
  BY <1>1, <1>2 DEF QueueInv, DrainsOk, NoTask
<1>6. broken' = [broken EXCEPT ![p] = cut]
  BY <1>1, <1>3 DEF QueueInv, DrainsOk
<1>7. queue' \in [Procs -> Queues] /\ task' \in [Procs -> [Slots -> Tasks]] /\ DrainsOk'
  BY <1>1, <1>2, <1>3, <1>4, <1>5, <1>6, OthersStand
<1>8. QueueTypeOK'
  <2>1. faults' \in 0..MaxFaults
    BY <1>1, FaultCounts
  <2>2. job' \in [Jobs -> States] /\ kicker' \in [Jobs -> Procs \cup {Nobody}]
    BY <1>1 DEF QueueInv, QueueTypeOK, States
  <2> QED
    BY <1>1, <1>7, <2>1, <2>2 DEF QueueInv, QueueTypeOK
<1>9. NoLostWakeup'
  BY <1>1 DEF NoLostWakeup
<1> QED
  BY <1>7, <1>8, <1>9 DEF QueueInv

LEMMA RestartKeeps ==
  ASSUME QueueInv, NEW p \in Procs, Restart(p)
  PROVE  QueueInv'
<1>1. /\ p \notin up /\ up' = up \cup {p} /\ queue' = [queue EXCEPT ![p] = Started(p)]
      /\ UNCHANGED <<job, kicker, task, faults, broken, excused>>
  BY DEF Restart
<1>2. PICK q2 \in Queues, t2 \in [Slots -> Tasks], cut \in Nat :
        q2 = Started(p) /\ t2 = task[p] /\ cut = broken[p]
  BY StartedOk DEF QueueInv, QueueTypeOK, DrainsOk
<1>3. \A s \in Slots : t2[s].at = "off" /\ ~t2[s].of
  BY <1>1, <1>2 DEF QueueInv, DrainsOk, DrainOk
<1>4. DrainOk(p, q2, t2, cut)
  BY <1>2, <1>3, StartedOk, EmptyDrain
<1>5. /\ queue' = [queue EXCEPT ![p] = q2] /\ task' = [task EXCEPT ![p] = t2]
      /\ broken' = [broken EXCEPT ![p] = cut] /\ p \in up'
      /\ \A o \in Procs \ up' : o = p \/ o \notin up
      /\ \A j \in Jobs : kicker'[j] \in up' \cup {Nobody}
  BY <1>1, <1>2 DEF QueueInv, QueueTypeOK, DrainsOk
<1>6. queue' \in [Procs -> Queues] /\ task' \in [Procs -> [Slots -> Tasks]] /\ DrainsOk'
  BY <1>4, <1>5, OthersStand
<1>7. QueueTypeOK'
  BY <1>1, <1>6 DEF QueueInv, QueueTypeOK
<1>8. NoLostWakeup'
  <2>1. ASSUME NEW o \in up, NEW j \in Jobs, Awake(o, j) PROVE Awake(o, j)'
    <3>1. o \in Procs /\ o # p
      BY <1>1 DEF QueueInv, QueueTypeOK
    <3>2. queue'[o] = queue[o] /\ task'[o] = task[o]
      BY <1>1, <3>1 DEF QueueInv, QueueTypeOK
    <3> QED
      BY <2>1, <3>1, <3>2, AwakeWakes, AwakeWakesNext
  <2> QED
    BY <1>1, <2>1 DEF QueueInv, NoLostWakeup
<1> QED
  BY <1>6, <1>7, <1>8 DEF QueueInv

-------------------------------------------------------------------------------
LEMMA QueueStepKeeps == QueueInv /\ [QueueNext]_queueVars => QueueInv'
<1> SUFFICES ASSUME QueueInv, [QueueNext]_queueVars PROVE QueueInv'
  OBVIOUS
<1>1. ASSUME NEW p \in Procs, DrainStarts(p) \/ Poll(p) \/ Crash(p) \/ Restart(p)
      PROVE  QueueInv'
  BY <1>1, DrainStartsKeeps, PollKeeps, CrashKeeps, RestartKeeps
<1>2. ASSUME NEW p \in Procs, NEW s \in Slots,
             Work(p, s) \/ FailJob(p, s) \/ TaskThrows(p, s)
      PROVE  QueueInv'
  BY <1>2, SelectCandidatesKeeps, ClaimJobKeeps, FinishJobKeeps, FailJobKeeps, TaskThrowsKeeps DEF Work
<1>3. ASSUME NEW j \in Jobs, Kick(j) \/ TimePasses(j) \/ (\E p \in Procs : Enqueue(p, j))
      PROVE  QueueInv'
  BY <1>3, KickKeeps, TimePassesKeeps, EnqueueKeeps
<1>4. CASE UNCHANGED queueVars
  BY <1>4 DEF queueVars, QueueInv, QueueTypeOK, DrainsOk, NoLostWakeup, Awake
<1> QED
  BY <1>1, <1>2, <1>3, <1>4 DEF QueueNext

\* The inductive invariant of the queue worker: types, what a drain waits for and
\* leaves behind, and that somebody is awake for every kicked job.
THEOREM QueueSpecInv == QueueSpec => []QueueInv
BY QueueInitInv, QueueStepKeeps, PTL DEF QueueSpec

\* Types of the queue worker, for any jobs, processes, width and batch size.
THEOREM QueueTypeCorrect == QueueSpec => []QueueTypeOK
<1>1. QueueInv => QueueTypeOK
  BY DEF QueueInv
<1> QED
  BY QueueSpecInv, <1>1, PTL

\* A job whose inserter has kicked has a drain scheduled, asked for again, or with
\* a look at it still to come, whatever processes kick, poll, die and start
\* (kickProductSyncQueue and the finally block of drainProductSyncQueue).
THEOREM WakeupKept == QueueSpec => []NoLostWakeup
<1>1. QueueInv => NoLostWakeup
  BY DEF QueueInv
<1> QED
  BY QueueSpecInv, <1>1, PTL

\* A process has Concurrency jobs in flight at most, and Concurrency - 1 more for
\* each drain that an error cut short (Promise.all of drainProductSyncQueue).
THEOREM FlightBounded == QueueSpec => []InFlightBounded
<1>1. QueueInv => InFlightBounded
  <2> SUFFICES ASSUME QueueInv, NEW p \in Procs
               PROVE  InFlight(p) <= Concurrency + broken[p] * (Concurrency - 1)
    BY DEF InFlightBounded
  <2> DEFINE busy == {s \in Slots : task[p][s].at # "off"}
  <2>1. /\ DrainOk(p, queue[p], task[p], broken[p]) /\ broken[p] \in Nat
        /\ queue[p].processed \in 0..BatchSize /\ queue[p].found \in 0..Concurrency - 1
    BY DEF QueueInv, QueueTypeOK, DrainsOk, Queues
  <2>2. /\ Of(task[p]) \in SUBSET Slots /\ Orphans(task[p]) \in SUBSET Slots
        /\ busy = Of(task[p]) \cup Orphans(task[p])
    BY <2>1 DEF Of, Orphans, DrainOk
  <2>3. /\ Cardinality(Of(task[p])) \in Int /\ Cardinality(Orphans(task[p])) \in Int
        /\ Cardinality(busy) <= Cardinality(Of(task[p])) + Cardinality(Orphans(task[p]))
        /\ Cardinality(busy) \in Int
    BY <2>2, SlotSets, SetsJoin
  <2>4. Width(queue[p].processed) \in Int /\ Width(queue[p].processed) <= Concurrency
    BY <2>1, WidthFits, Sizes DEF DrainOk
  <2>5. /\ Cardinality(Of(task[p])) <= Concurrency
        /\ Cardinality(Orphans(task[p])) <= broken[p] * (Concurrency - 1)
    BY <2>1, <2>3, <2>4, Sizes DEF DrainOk
  <2>6. InFlight(p) = Cardinality(busy)
    BY DEF InFlight
  <2> HIDE DEF busy
  <2> QED
    BY <2>1, <2>3, <2>5, <2>6, CutsAdd, Sizes
<1> QED
  BY QueueSpecInv, <1>1, PTL
===============================================================================
