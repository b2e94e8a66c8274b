---------------------------- MODULE CatalogRevision ----------------------------
(***************************************************************************)
(* search/search-catalog-revision.server.ts: the catalog revision of one   *)
(* shop, which whoever changes search results advances in MySQL, and the   *)
(* cache of it that each server process keeps for its searches.            *)
(*                                                                         *)
(* Concurrent calls of getSearchCatalogRevisionCached in a process share   *)
(* one SELECT.  A bump made by the process clears its cache and disowns    *)
(* the SELECT in flight, which may have been executed before the UPDATE;   *)
(* other processes see the bump when their entry expires.                  *)
(***************************************************************************)
EXTENDS Naturals

CONSTANTS
  Processes,
  Calls,        \* calls of getSearchCatalogRevisionCached; each may come again
  ProcOf,       \* ProcOf[c]: the process c is made in
  None,
  MaxRevision   \* bound: the revision is not advanced beyond it

ASSUME RevisionAssumption ==
  /\ ProcOf \in [Calls -> Processes]
  /\ None \notin Nat \union Calls
  /\ MaxRevision \in Nat

VARIABLES
  revision,     \* AiSearchShopSettings.catalogRevision
  updates,      \* updates[p]: UPDATEs of p applied whose answer p has not seen
  revisionCache,
  pendingReads, \* pendingReads[p]: the call whose SELECT p's calls share, or None
  call,         \* call[c]: where c stands and what it knows
  returned      \* history: the revision when p's last bump had returned

vars == <<revision, updates, revisionCache, pendingReads, call, returned>>

Revisions == 0 .. MaxRevision
Stages    == {"idle", "select", "answer", "join", "done"}

\* floor, history: returned when the call began.
CallStates == [stage : Stages, value : Revisions, floor : Revisions,
               leader : Calls \union {None}]

NoCall == [stage |-> "idle", value |-> 0, floor |-> 0, leader |-> None]

TypeOK ==
  /\ revision \in Revisions
  /\ updates \in [Processes -> Revisions]
  /\ revisionCache \in [Processes -> Revisions \union {None}]
  /\ pendingReads \in [Processes -> Calls \union {None}]
  /\ call \in [Calls -> CallStates]
  /\ returned \in [Processes -> Revisions]

Init ==
  /\ revision = 0
  /\ updates = [p \in Processes |-> 0]
  /\ revisionCache = [p \in Processes |-> None]
  /\ pendingReads = [p \in Processes |-> None]
  /\ call = [c \in Calls |-> NoCall]
  /\ returned = [p \in Processes |-> 0]

-------------------------------------------------------------------------------
(* The writers *)

\* MySQL executes the UPDATE of a bump made by p.
Bump(p) ==
  /\ revision < MaxRevision
  /\ revision' = revision + 1
  /\ updates' = [updates EXCEPT ![p] = @ + 1]
  /\ UNCHANGED <<revisionCache, pendingReads, call, returned>>

\* Mutant: the SELECT in flight survives the invalidation.
ReadsAfterBump_Kept(p) == pendingReads

ReadsAfterBump(p) == [pendingReads EXCEPT ![p] = None]

\* The answer of the UPDATE arrives: invalidateSearchCatalogRevisionCache.
BumpReturns(p) ==
  /\ updates[p] > 0
  /\ updates' = [updates EXCEPT ![p] = @ - 1]
  /\ revisionCache' = [revisionCache EXCEPT ![p] = None]
  /\ pendingReads' = ReadsAfterBump(p)
  /\ returned' = [returned EXCEPT ![p] = revision]
  /\ UNCHANGED <<revision, call>>

\* Mutant: the error of an UPDATE that was never applied counts as one.
BumpThrows_Unapplied(p) ==
  /\ updates' = [updates EXCEPT ![p] = @ - 1]
  /\ UNCHANGED <<revision, revisionCache, pendingReads, call, returned>>

\* The answer is lost: the bump throws before it invalidates.
BumpThrows(p) ==
  /\ updates[p] > 0
  /\ updates' = [updates EXCEPT ![p] = @ - 1]
  /\ UNCHANGED <<revision, revisionCache, pendingReads, call, returned>>

-------------------------------------------------------------------------------
(* getSearchCatalogRevisionCached *)

Entered(c, stage) == [NoCall EXCEPT !.stage = stage, !.floor = returned[ProcOf[c]]]

\* A live entry of the cache answers at once.
Hit(c) ==
  LET p == ProcOf[c]
  IN /\ call[c].stage = "idle"
     /\ revisionCache[p] # None
     /\ call' = [call EXCEPT ![c] = [Entered(c, "done") EXCEPT !.value = revisionCache[p]]]
     /\ UNCHANGED <<revision, updates, revisionCache, pendingReads, returned>>

\* A SELECT in flight is joined.
Join(c) ==
  LET p == ProcOf[c]
  IN /\ call[c].stage = "idle"
     /\ revisionCache[p] = None
     /\ pendingReads[p] # None
     /\ call' = [call EXCEPT ![c] = [Entered(c, "join") EXCEPT !.leader = pendingReads[p]]]
     /\ UNCHANGED <<revision, updates, revisionCache, pendingReads, returned>>

\* Otherwise the call sends the SELECT.
Send(c) ==
  LET p == ProcOf[c]
  IN /\ call[c].stage = "idle"
     /\ revisionCache[p] = None
     /\ pendingReads[p] = None
     /\ call' = [call EXCEPT ![c] = Entered(c, "select")]
     /\ pendingReads' = [pendingReads EXCEPT ![p] = c]
     /\ UNCHANGED <<revision, updates, revisionCache, returned>>

\* MySQL executes it.
Select(c) ==
  /\ call[c].stage = "select"
  /\ call' = [call EXCEPT ![c].stage = "answer", ![c].value = revision]
  /\ UNCHANGED <<revision, updates, revisionCache, pendingReads, returned>>

Owns(c) == pendingReads[ProcOf[c]] = c

\* Mutant: the entry of a settled SELECT is not removed.
ReadsAfter_Kept(c) == pendingReads

\* Only the owner of the entry removes it.
ReadsAfter(c) ==
  IF Owns(c) THEN [pendingReads EXCEPT ![ProcOf[c]] = None] ELSE pendingReads

\* Its promise settles for the caller and for those who joined.
Settle(c, outcome) ==
  [d \in Calls |-> IF d = c \/ (call[d].stage = "join" /\ call[d].leader = c)
                   THEN [outcome EXCEPT !.floor = call[d].floor]
                   ELSE call[d]]

\* The answer arrives; it is cached unless a bump disowned the SELECT.
Answer(c) ==
  /\ call[c].stage = "answer"
  /\ revisionCache' = IF Owns(c)
                      THEN [revisionCache EXCEPT ![ProcOf[c]] = call[c].value]
                      ELSE revisionCache
  /\ pendingReads' = ReadsAfter(c)
  /\ call' = Settle(c, [NoCall EXCEPT !.stage = "done", !.value = call[c].value])
  /\ UNCHANGED <<revision, updates, returned>>

\* The SELECT fails, before or after it was executed.
Throw(c) ==
  /\ call[c].stage \in {"select", "answer"}
  /\ pendingReads' = ReadsAfter(c)
  /\ call' = Settle(c, NoCall)
  /\ UNCHANGED <<revision, updates, revisionCache, returned>>

\* The caller has used its value.
Finish(c) ==
  /\ call[c].stage = "done"
  /\ call' = [call EXCEPT ![c] = NoCall]
  /\ UNCHANGED <<revision, updates, revisionCache, pendingReads, returned>>

\* Mutant: each use of the entry extends its life.
Expire_Sliding(p) ==
  /\ revisionCache[p] # None
  /\ \A c \in Calls : ProcOf[c] = p => call[c].stage = "idle"
  /\ revisionCache' = [revisionCache EXCEPT ![p] = None]
  /\ UNCHANGED <<revision, updates, pendingReads, call, returned>>

\* REVISION_CACHE_TTL_MS are over, or newer shops evict the entry.
Expire(p) ==
  /\ revisionCache[p] # None
  /\ revisionCache' = [revisionCache EXCEPT ![p] = None]
  /\ UNCHANGED <<revision, updates, pendingReads, call, returned>>

Next ==
  \/ \E p \in Processes : Bump(p) \/ BumpReturns(p) \/ BumpThrows(p) \/ Expire(p)
  \/ \E c \in Calls : Hit(c) \/ Join(c) \/ Send(c) \/ Select(c) \/ Answer(c)
                      \/ Throw(c) \/ Finish(c)

Spec == Init /\ [][Next]_vars

\* Statements return or throw, callers go on, and time passes.
Fairness ==
  /\ \A p \in Processes : WF_vars(Expire(p)) /\ WF_vars(BumpReturns(p) \/ BumpThrows(p))
  /\ \A c \in Calls : /\ WF_vars(Select(c) \/ Throw(c))
                      /\ WF_vars(Answer(c) \/ Throw(c))
                      /\ WF_vars(Finish(c))

FairSpec == Spec /\ Fairness

-------------------------------------------------------------------------------
(* Properties *)

\* A call that begins after a bump of its own process returned answers with that
\* revision or a later one, whatever SELECTs were in flight: a process reads its
\* own writes (getSearchCatalogRevisionCached, invalidate...Cache).
ReadsOwnBumps ==
  \A c \in Calls : call[c].stage = "done" => call[c].value >= call[c].floor

\* No call waits for ever, not even one that joined a SELECT which was disowned.
CallsSettle ==
  \A c \in Calls : call[c].stage # "idle" ~> call[c].stage \in {"idle", "done"}

\* A bump, of any process, is eventually what every process answers with.
EveryProcessCatchesUp ==
  \A p \in Processes, r \in Revisions :
    revision >= r ~> [](\A c \in Calls :
                          ProcOf[c] = p /\ call[c].stage = "done" => call[c].value >= r)
==============================================================================
