----------------------- MODULE SearchResultCache_proofs -----------------------
(***************************************************************************)
(* Proofs about ProductPublication and SearchResultCache, for any          *)
(* searches, texts and prices: their types; that publication is            *)
(* fail-closed as long as the merchant does not restore an earlier text;   *)
(* and that receipts under the current revision are current unless a run   *)
(* ends, everything published, without its bump.                           *)
(***************************************************************************)
EXTENDS SearchResultCache, Integers, TLAPS

(* Publication *)

\* The text the stores may have got to.
Latest == IF run = Idle THEN shopify.doc ELSE run.doc

\* Texts grow, in all stores up to that of the run; the hash of the registry by
\* which a run knows the profile as current is not ahead of the profile.
Ordered ==
  /\ run # Idle => run.doc \in Docs /\ run.doc <= shopify.doc
  /\ vector.doc <= Latest
  /\ profile <= Latest
  /\ registry.doc <= Latest
  /\ registry.source <= profile

\* From the stage on the vector is of the run's text, and from the source on the
\* profile too.
Staged ==
  run # Idle =>
    /\ run.step \in {"stage", "profile", "source", "show", "publish"}
         => vector.doc = run.doc
    /\ run.mode = "skip" => vector.doc = run.doc
    /\ run.mode = "index" /\ run.step = "bump" => vector.doc = run.doc
    /\ run.step \in {"source", "show", "publish"} => profile = run.doc
    /\ run.step = "mark" => run.mode = "unpublish"
    /\ run.step = "hide" => run.mode # "index"

\* Published as a whole, except that the deletion of the row, which hides the
\* product, deletes the profile before the vector.
Whole ==
  /\ vector.shown => profile \in {vector.doc, 0}
  /\ Searchable(registry) => profile # 0 /\ registry.doc <= profile

Inv == PubTypeOK /\ Ordered /\ Staged /\ Whole

-------------------------------------------------------------------------------
\* The texts, as the proofs use them.
LEMMA Numbers ==
  /\ \A d \in Docs : d \in Int /\ 1 <= d /\ d \in Texts
  /\ \A d \in Texts : d \in Int /\ 0 <= d
  /\ 0 \in Texts
  /\ \A r : r \in 0 .. MaxRevision <=> r \in Int /\ 0 <= r /\ r <= MaxRevision
  /\ MaxRevision \in Int /\ 0 <= MaxRevision
BY PublicationAssumption DEF PublicationAssumption, Texts

\* A run in progress is told from Idle by its step.
LEMMA Running ==
  ASSUME PubTypeOK
  PROVE  /\ run.step # "idle" => run # Idle /\ run \in Runs
         /\ run # Idle => run.step \in Steps
         /\ Idle.step = "idle"
BY DEF PubTypeOK, Runs, Idle, Steps

\* The next step of a run is a run, or its end.
LEMMA Changed ==
  ASSUME NEW r \in Runs
  PROVE  /\ \A st \in Steps : [r EXCEPT !.step = st] \in Runs
         /\ \A m \in Modes : [r EXCEPT !.mode = m] \in Runs
         /\ [r EXCEPT !.due = TRUE] \in Runs
         /\ \A b \in BOOLEAN : [r EXCEPT !.slot = b] \in Runs
BY DEF Runs

LEMMA NextRuns ==
  ASSUME run \in Runs
  PROVE  /\ \A st \in Steps : Goto(st) \in Runs
         /\ Caught \in Runs \union {Idle}
         /\ \A o \in Outcomes, st \in Steps : Owing(After(o, st)) \in Runs \union {Idle}
         /\ \A o \in Outcomes, st \in Steps : After(o, st) \in Runs \union {Idle}
         /\ \A o \in Outcomes, b \in BOOLEAN : AfterWrites(o, b) \in Runs \union {Idle}
<1>1. \A st \in Steps : Goto(st) \in Runs
  BY Changed DEF Goto
<1>2. "stage" \in Steps /\ "profile" \in Steps /\ "hide" \in Steps /\ "bump" \in Steps
      /\ "repair" \in Modes
  BY DEF Steps, Modes
<1>3. [Goto("stage") EXCEPT !.mode = "repair"] \in Runs
  BY <1>1, <1>2, Changed
<1>4. Caught \in Runs \union {Idle}
  BY <1>1, <1>2, <1>3 DEF Caught
<1>5. \A o \in Outcomes, st \in Steps : After(o, st) \in Runs \union {Idle}
  BY <1>1, <1>4 DEF After
<1>6. ASSUME NEW r \in Runs \union {Idle} PROVE Owing(r) \in Runs \union {Idle}
  BY Changed DEF Owing
<1>7. [Goto("bump") EXCEPT !.due = TRUE] \in Runs
  BY <1>1, <1>2, Changed
<1>8. \A o \in Outcomes, b \in BOOLEAN : AfterWrites(o, b) \in Runs \union {Idle}
  BY <1>4, <1>7 DEF AfterWrites, Outcomes
<1> QED
  BY <1>1, <1>4, <1>5, <1>6, <1>8

LEMMA InitInv == PubInit => Inv
<1> SUFFICES ASSUME PubInit PROVE Inv
  OBVIOUS
<1> USE Numbers DEF PubInit
<1>1. PubTypeOK
  <2>1. lostBump \in BOOLEAN
    BY Zenon DEF PubInit
  <2> QED
    BY <2>1 DEF PubTypeOK, NoRow, Rows, Statuses
<1>2. Ordered /\ Staged /\ Whole
  BY DEF Ordered, Staged, Whole, Latest, NoRow, Searchable
<1> QED
  BY <1>1, <1>2 DEF Inv

LEMMA FirstRefreshStep ==
  /\ FirstRefresh \in {"profile", "show", "publish"}
  /\ FirstRefresh # "profile" => registry.source = run.doc
BY DEF FirstRefresh, ProfileStale

LEMMA NoteTyped ==
  ASSUME lostBump \in BOOLEAN, NEW cutShort, NoteLoss(cutShort)
  PROVE  lostBump' \in BOOLEAN
<1>1. CASE cutShort /\ LosesBump
  BY <1>1, Zenon DEF NoteLoss
<1>2. CASE ~(cutShort /\ LosesBump) /\ revision' # revision
  BY <1>2, Zenon DEF NoteLoss
<1>3. CASE ~(cutShort /\ LosesBump) /\ revision' = revision
  BY <1>3, Zenon DEF NoteLoss
<1> QED
  BY <1>1, <1>2, <1>3

LEMMA StepTypes == PubTypeOK /\ [PubNext]_pubVars => PubTypeOK'
<1> SUFFICES ASSUME PubTypeOK, [PubNext]_pubVars PROVE PubTypeOK'
  OBVIOUS
<1> USE Numbers, Running
<1>1. CASE Fetch
  <2>0. Fetch
    BY <1>1
  <2>1. run' \in Runs \union {Idle}
    BY <2>0 DEF Fetch, NewRun, Runs, Steps, Modes, PubTypeOK
  <2> QED
    BY <2>0, <2>1 DEF Fetch, PubTypeOK
<1>2. CASE ReadStores
  <2>0. ReadStores
    BY <1>2
  <2>1. run' \in Runs \union {Idle}
    <3>1. PICK st \in Steps, m \in Modes :
            run' = Idle \/ run' = [run EXCEPT !.step = st, !.mode = m]
      BY <2>0, FirstRefreshStep DEF ReadStores, Steps, Modes
    <3>2. [run EXCEPT !.step = st, !.mode = m] \in Runs
      BY <2>0, Running DEF Runs, ReadStores
    <3> QED
      BY <3>1, <3>2
  <2> QED
    BY <2>0, <2>1 DEF ReadStores, PubTypeOK
<1>3. CASE ReserveSlot
  <2>0. ReserveSlot
    BY <1>3
  <2>1. run' \in Runs \union {Idle}
    <3>1. PICK st \in Steps, b \in BOOLEAN :
            run' = Idle \/ run' = [Goto(st) EXCEPT !.slot = b]
      BY <2>0, FirstRefreshStep DEF ReserveSlot, Steps
    <3>2. Goto(st) \in Runs
      BY <2>0, NextRuns DEF ReserveSlot
    <3> QED
      BY <3>1, <3>2, Changed
  <2>2. registry' \in Rows
    BY <2>0 DEF ReserveSlot, PubTypeOK, Rows, Runs, Statuses
  <2> QED
    BY <2>0, <2>1, <2>2 DEF ReserveSlot, PubTypeOK
<1>4. CASE WriteVector
  <2>0. WriteVector
    BY <1>4
  <2>1. run' \in Runs \union {Idle}
    <3>1. run \in Runs /\ "stage" \in Steps /\ "release" \in Steps
      BY <2>0 DEF WriteVector, Steps
    <3>2. ASSUME NEW m \in {"index", "repair"}
          PROVE [Goto("stage") EXCEPT !.mode = m, !.due = TRUE, !.slot = FALSE] \in Runs
      BY <3>1 DEF Goto, Runs, Modes
    <3> QED
      BY <2>0, <3>1, <3>2, NextRuns DEF WriteVector, Outcomes
  <2>2. vector' \in [doc : Texts, price : Prices, shown : BOOLEAN]
    BY <2>0 DEF WriteVector, WrittenVector, PubTypeOK, Rows, Runs, Statuses
  <2> QED
    BY <2>0, <2>1, <2>2 DEF WriteVector, PubTypeOK
<1>5. CASE ReleaseSlot
  <2>0. ReleaseSlot
    BY <1>5
  <2>1. run' \in Runs \union {Idle}
    BY <2>0 DEF ReleaseSlot
  <2>2. registry' \in Rows /\ profile' \in Texts
    <3>1. NoRow \in Rows
      BY DEF NoRow, Rows, Statuses
    <3> QED
      BY <2>0, <3>1 DEF ReleaseSlot, PubTypeOK
  <2> QED
    BY <2>0, <2>1, <2>2 DEF ReleaseSlot, PubTypeOK
<1>6. CASE Stage
  <2>0. Stage
    BY <1>6
  <2>1. run' \in Runs \union {Idle}
    BY <2>0, NextRuns DEF Stage, PubTypeOK, Steps
  <2>2. registry' \in Rows
    BY <2>0 DEF Stage, PubTypeOK, Rows, Runs, Statuses
  <2> QED
    BY <2>0, <2>1, <2>2 DEF Stage, PubTypeOK
<1>7. CASE WriteProfile
  <2>0. WriteProfile
    BY <1>7
  <2>1. run' \in Runs \union {Idle}
    BY <2>0, NextRuns DEF WriteProfile, PubTypeOK, Steps
  <2>2. profile' \in Texts
    BY <2>0 DEF WriteProfile, PubTypeOK, Rows, Runs, Statuses
  <2> QED
    BY <2>0, <2>1, <2>2 DEF WriteProfile, PubTypeOK
<1>8. CASE WriteSource
  <2>0. WriteSource
    BY <1>8
  <2>1. run' \in Runs \union {Idle}
    BY <2>0, NextRuns DEF WriteSource, PubTypeOK, Steps
  <2>2. registry' \in Rows
    BY <2>0 DEF WriteSource, PubTypeOK, Rows, Runs, Statuses
  <2>3. lostBump' \in BOOLEAN
    BY <2>0, NoteTyped DEF WriteSource, PubTypeOK
  <2> QED
    BY <2>0, <2>1, <2>2, <2>3 DEF WriteSource, PubTypeOK
<1>9. CASE ShowVector
  <2>0. ShowVector
    BY <1>9
  <2>1. run' \in Runs \union {Idle}
    BY <2>0, NextRuns DEF ShowVector, PubTypeOK, Steps
  <2>2. vector' \in [doc : Texts, price : Prices, shown : BOOLEAN]
    BY <2>0 DEF ShowVector, PubTypeOK, Rows, Runs, Statuses
  <2>3. lostBump' \in BOOLEAN
    BY <2>0, NoteTyped DEF ShowVector, PubTypeOK
  <2> QED
    BY <2>0, <2>1, <2>2, <2>3 DEF ShowVector, PubTypeOK
<1>10. CASE Publish
  <2>0. Publish
    BY <1>10
  <2>1. run' \in Runs \union {Idle}
    <3>1. run \in Runs
      BY <2>0 DEF Publish
    <3>2. OwesBump \in BOOLEAN
      BY <3>1 DEF OwesBump, RegistryStale, ProfileStale, Searchable, Runs
    <3> QED
      BY <2>0, <3>1, <3>2, NextRuns DEF Publish
  <2>2. registry' \in Rows
    BY <2>0 DEF Publish, PublishedRow, PubTypeOK, Rows, Runs, Statuses
  <2>3. lostBump' \in BOOLEAN
    BY <2>0, NoteTyped DEF Publish, PubTypeOK
  <2> QED
    BY <2>0, <2>1, <2>2, <2>3 DEF Publish, PubTypeOK
<1>11. CASE MarkUnpublished
  <2>0. MarkUnpublished
    BY <1>11
  <2>1. run' \in Runs \union {Idle}
    <3>1. run \in Runs /\ "hide" \in Steps
      BY <2>0 DEF MarkUnpublished, Steps
    <3>2. \A b \in BOOLEAN : [Goto("hide") EXCEPT !.due = b] \in Runs
      BY <3>1 DEF Goto, Runs
    <3> QED
      BY <2>0, <3>1, <3>2 DEF MarkUnpublished
  <2>2. registry' \in Rows
    BY <2>0 DEF MarkUnpublished, PubTypeOK, Rows, Runs, Statuses
  <2> QED
    BY <2>0, <2>1, <2>2 DEF MarkUnpublished, PubTypeOK
<1>12. CASE HideVector
  <2>0. HideVector
    BY <1>12
  <2>1. run' \in Runs \union {Idle}
    <3>1. run \in Runs
      BY <2>0 DEF HideVector
    <3>2. run.due \in BOOLEAN
      BY <3>1 DEF Runs
    <3> QED
      BY <2>0, <3>1, <3>2, NextRuns DEF HideVector
  <2>2. vector' \in [doc : Texts, price : Prices, shown : BOOLEAN]
    BY <2>0 DEF HideVector, PubTypeOK, Rows, Runs, Statuses
  <2> QED
    BY <2>0, <2>1, <2>2 DEF HideVector, PubTypeOK
<1>13. CASE Bump
  <2>0. Bump
    BY <1>13
  <2>1. run' \in Runs \union {Idle}
    BY <2>0, NextRuns DEF Bump, PubTypeOK, Steps
  <2>2. revision' \in 0 .. MaxRevision
    BY <2>0 DEF Bump, PubTypeOK, Rows, Runs, Statuses
  <2>3. lostBump' \in BOOLEAN
    BY <2>0, NoteTyped DEF Bump, PubTypeOK
  <2> QED
    BY <2>0, <2>1, <2>2, <2>3 DEF Bump, PubTypeOK
<1>14. CASE Stop
  <2>1. lostBump' \in BOOLEAN
    BY <1>14, NoteTyped DEF Stop, PubTypeOK
  <2> QED
    BY <1>14, <2>1 DEF Stop, PubTypeOK
<1>15. CASE Edit
  BY <1>15 DEF Edit, PubTypeOK
<1>16. CASE BumpElsewhere
  <2>1. lostBump' \in BOOLEAN
    BY <1>16, Zenon DEF BumpElsewhere
  <2> QED
    BY <1>16, <2>1 DEF BumpElsewhere, PubTypeOK
<1>17. CASE UNCHANGED pubVars
  BY <1>17 DEF pubVars, PubTypeOK
<1> QED
  BY <1>1, <1>2, <1>3, <1>4, <1>5, <1>6, <1>7, <1>8, <1>9, <1>10, <1>11, <1>12,
     <1>13, <1>14, <1>15, <1>16, <1>17 DEF PubNext, RunStep

\* What ProfileStale concludes from: the hash of the run's text is in the
\* registry only if the profile is of that text.
LEMMA ProfileKnown ==
  ASSUME Inv, run # Idle, registry.source = run.doc PROVE profile = run.doc
<1>1. registry.source <= profile /\ profile <= run.doc
  BY DEF Inv, Ordered, Latest
<1>2. run.doc \in Int /\ profile \in Int
  BY Numbers DEF Inv, PubTypeOK, Runs
<1> QED
  BY <1>1, <1>2

LEMMA FetchKeeps == ASSUME Inv, PubTypeOK', Fetch PROVE Inv'
<1> USE Numbers, Running DEF Inv, Fetch, NewRun
<1>1. Ordered'
  BY DEF PubTypeOK, Runs, Rows, Ordered, Staged, Latest, Idle
<1>2. Staged'
  BY DEF PubTypeOK, Runs, Rows, Ordered, Staged, Latest, Idle
<1>3. Whole'
  BY DEF PubTypeOK, Runs, Rows, Ordered, Staged, Whole, Latest, Searchable, Idle
<1> QED
  BY <1>1, <1>2, <1>3

LEMMA ReadStoresKeeps == ASSUME Inv, PubTypeOK', ReadStores PROVE Inv'
<1> USE Numbers, Running DEF Inv, ReadStores
<1>1. CASE run' = Idle
  BY <1>1 DEF PubTypeOK, Runs, Rows, Ordered, Staged, Whole, Latest, Searchable, Idle
<1>2. CASE run' # Idle
  <2>1. run' \in Runs /\ run \in Runs /\ run # Idle
    BY <1>2 DEF PubTypeOK
  <2>2. run'.doc = run.doc /\ run'.mode \in {"skip", "index"}
    BY <1>2, <2>1 DEF Runs, Goto
  <2>3. run'.mode = "skip" => vector.doc = run.doc
    BY <1>2, <2>1 DEF Staged, Runs, Goto
  <2>4. run'.step \in {"slot", "vector", "profile", "show", "publish"}
    BY <1>2, <2>1, FirstRefreshStep DEF Runs, Goto
  <2>5. run'.step \in {"profile", "show", "publish"} =>
          run'.mode = "skip" /\ (run'.step # "profile" => registry.source = run.doc)
    BY <1>2, <2>1, FirstRefreshStep DEF Runs, Goto
  <2>6. registry.source = run.doc => profile = run.doc
    BY <2>1, ProfileKnown
  <2>7. Ordered'
    BY <1>2, <2>1, <2>2 DEF PubTypeOK, Runs, Rows, Ordered, Latest, Outcomes
  <2>8. Staged'
    BY <1>2, <2>2, <2>3, <2>4, <2>5, <2>6 DEF Staged
  <2>9. Whole'
    BY DEF PubTypeOK, Rows, Whole, Searchable, Outcomes
  <2> QED
    BY <2>7, <2>8, <2>9
<1> QED
  BY <1>1, <1>2

LEMMA ReserveSlotKeeps == ASSUME Inv, PubTypeOK', ReserveSlot PROVE Inv'
<1> USE Numbers, Running DEF Inv, ReserveSlot
<1>1. CASE run' = Idle
  BY <1>1 DEF PubTypeOK, Runs, Rows, Ordered, Staged, Whole, Latest, Searchable, Idle, Outcomes
<1>2. CASE run' # Idle
  <2>1. run' \in Runs /\ run \in Runs /\ run # Idle
    BY <1>2 DEF PubTypeOK
  <2>2. run'.doc = run.doc /\ run'.mode = run.mode
    BY <1>2, <2>1 DEF Runs, Goto
  <2>3. run'.mode = "skip" => vector.doc = run.doc
    BY <1>2, <2>1 DEF Staged, Runs, Goto
  <2>4. run'.step \in {"slot", "vector", "profile", "show", "publish"}
    BY <1>2, <2>1, FirstRefreshStep DEF Runs, Goto
  <2>5. run'.step \in {"profile", "show", "publish"} =>
          run'.mode = "skip" /\ (run'.step # "profile" => registry.source = run.doc)
    BY <1>2, <2>1, FirstRefreshStep DEF Runs, Goto
  <2>6. registry.source = run.doc => profile = run.doc
    BY <2>1, ProfileKnown
  <2>7. Ordered'
    BY <1>2, <2>1, <2>2 DEF PubTypeOK, Runs, Rows, Ordered, Latest, Outcomes
  <2>8. Staged'
    BY <1>2, <2>2, <2>3, <2>4, <2>5, <2>6 DEF Staged
  <2>9. Whole'
    BY DEF PubTypeOK, Rows, Whole, Searchable, Outcomes
  <2> QED
    BY <2>7, <2>8, <2>9
<1> QED
  BY <1>1, <1>2

LEMMA WriteVectorKeeps == ASSUME Inv, PubTypeOK', WriteVector PROVE Inv'
<1> USE Numbers, Running DEF Inv, WriteVector
<1>1. run \in Runs /\ run # Idle
  OBVIOUS
<1>2. vector' = vector \/ (vector'.doc = run.doc /\ ~vector'.shown)
  BY DEF WrittenVector
<1>3. \/ run' = Idle
      \/ run' = Goto("release")
      \/ /\ vector'.doc = run.doc
         /\ run' \in Runs
         /\ run'.doc = run.doc /\ run'.step = "stage" /\ run'.mode \in {"index", "repair"}
  <2>1. PICK o \in Outcomes :
          /\ vector' = IF o = "refused" THEN vector ELSE WrittenVector
          /\ IF o = "done"
             THEN \E mode \in {"index", "repair"} :
                    run' = [Goto("stage") EXCEPT !.mode = mode, !.due = TRUE, !.slot = FALSE]
             ELSE run' = IF run.slot THEN Goto("release") ELSE Idle
    OBVIOUS
  <2>2. CASE o = "done"
    <3>1. PICK mode \in {"index", "repair"} :
            run' = [Goto("stage") EXCEPT !.mode = mode, !.due = TRUE, !.slot = FALSE]
      BY <2>1, <2>2
    <3>2. /\ run'.doc = run.doc /\ run'.step = "stage" /\ run'.mode = mode
          /\ run' # Idle
      BY <1>1, <3>1 DEF Goto, Runs, Idle
    <3>3. run' \in Runs
      BY <3>2 DEF PubTypeOK
    <3>4. vector'.doc = run.doc
      BY <2>1, <2>2 DEF WrittenVector
    <3> QED
      BY <3>2, <3>3, <3>4
  <2>3. CASE o # "done"
    BY <2>1, <2>3
  <2> QED
    BY <2>2, <2>3
<1>4. Ordered'
  BY <1>1, <1>2, <1>3 DEF PubTypeOK, Runs, Rows, Ordered, Latest, Goto
<1>5. Staged'
  <2>1. CASE run' = Idle
    BY <2>1 DEF Staged
  <2>2. CASE run' = Goto("release")
    <3>1. run'.step = "release" /\ run'.mode = run.mode
      BY <1>1, <2>2 DEF Goto, Runs
    <3>2. run'.mode = "skip" => vector'.doc = run'.doc
      BY <1>1, <1>2, <2>2 DEF Goto, Runs, Staged
    <3> QED
      BY <3>1, <3>2 DEF Staged
  <2>3. CASE vector'.doc = run'.doc /\ run'.step = "stage"
    BY <2>3 DEF Staged
  <2> QED
    BY <1>3, <2>1, <2>2, <2>3
<1>6. Whole'
  BY <1>2 DEF PubTypeOK, Whole, Searchable
<1> QED
  BY <1>4, <1>5, <1>6

LEMMA ReleaseSlotKeeps == ASSUME Inv, PubTypeOK', ReleaseSlot PROVE Inv'
<1> USE Numbers, Running DEF Inv, ReleaseSlot, NoRow
<1>1. Ordered'
  BY DEF PubTypeOK, Runs, Rows, Ordered, Staged, Latest, Idle
<1>2. Staged'
  BY DEF PubTypeOK, Runs, Rows, Ordered, Staged, Latest, Idle
<1>3. Whole'
  BY DEF PubTypeOK, Runs, Rows, Ordered, Staged, Whole, Latest, Searchable, Idle
<1> QED
  BY <1>1, <1>2, <1>3

LEMMA StageKeeps == ASSUME Inv, PubTypeOK', Stage PROVE Inv'
<1> USE Numbers, Running DEF Inv, Stage, After, Goto, Caught, Outcomes
<1>1. Ordered'
  BY DEF PubTypeOK, Runs, Rows, Ordered, Staged, Latest, Idle
<1>2. Staged'
  BY DEF PubTypeOK, Runs, Rows, Ordered, Staged, Latest, Idle
<1>3. Whole'
  BY DEF PubTypeOK, Runs, Rows, Ordered, Staged, Whole, Latest, Searchable, Idle
<1> QED
  BY <1>1, <1>2, <1>3

LEMMA WriteProfileKeeps == ASSUME Inv, PubTypeOK', WriteProfile PROVE Inv'
<1> USE Numbers, Running DEF Inv, WriteProfile, Owing, After, Goto, Caught, Outcomes
<1>1. Ordered'
  BY DEF PubTypeOK, Runs, Rows, Ordered, Staged, Latest, Idle
<1>2. Staged'
  BY DEF PubTypeOK, Runs, Rows, Ordered, Staged, Latest, Idle
<1>3. Whole'
  BY DEF PubTypeOK, Runs, Rows, Ordered, Staged, Whole, Latest, Searchable, Idle
<1> QED
  BY <1>1, <1>2, <1>3

LEMMA WriteSourceKeeps == ASSUME Inv, PubTypeOK', WriteSource PROVE Inv'
<1> USE Numbers, Running DEF Inv, WriteSource, Owing, After, Goto, Caught, Outcomes
<1>1. Ordered'
  BY DEF PubTypeOK, Runs, Rows, Ordered, Staged, Latest, Idle
<1>2. Staged'
  BY DEF PubTypeOK, Runs, Rows, Ordered, Staged, Latest, Idle
<1>3. Whole'
  BY DEF PubTypeOK, Runs, Rows, Ordered, Staged, Whole, Latest, Searchable, Idle
<1> QED
  BY <1>1, <1>2, <1>3

LEMMA ShowVectorKeeps == ASSUME Inv, PubTypeOK', ShowVector PROVE Inv'
<1> USE Numbers, Running DEF Inv, ShowVector, Owing, After, Goto, Caught, Outcomes
<1>1. Ordered'
  BY DEF PubTypeOK, Runs, Rows, Ordered, Staged, Latest, Idle
<1>2. Staged'
  BY DEF PubTypeOK, Runs, Rows, Ordered, Staged, Latest, Idle
<1>3. Whole'
  BY DEF PubTypeOK, Runs, Rows, Ordered, Staged, Whole, Latest, Searchable, Idle
<1> QED
  BY <1>1, <1>2, <1>3

LEMMA PublishKeeps == ASSUME Inv, PubTypeOK', Publish PROVE Inv'
<1> USE Numbers, Running DEF Inv, Publish, PublishedRow, AfterWrites, Goto, Caught, Outcomes
<1>1. Ordered'
  BY DEF PubTypeOK, Runs, Rows, Ordered, Staged, Latest, Idle
<1>2. Staged'
  BY DEF PubTypeOK, Runs, Rows, Ordered, Staged, Latest, Idle
<1>3. Whole'
  BY DEF PubTypeOK, Runs, Rows, Ordered, Staged, Whole, Latest, Searchable, Idle
<1> QED
  BY <1>1, <1>2, <1>3

LEMMA MarkUnpublishedKeeps == ASSUME Inv, PubTypeOK', MarkUnpublished PROVE Inv'
<1> USE Numbers, Running DEF Inv, MarkUnpublished, Goto, Outcomes
<1>1. Ordered'
  BY DEF PubTypeOK, Runs, Rows, Ordered, Staged, Latest, Idle
<1>2. Staged'
  BY DEF PubTypeOK, Runs, Rows, Ordered, Staged, Latest, Idle
<1>3. Whole'
  BY DEF PubTypeOK, Runs, Rows, Ordered, Staged, Whole, Latest, Searchable, Idle
<1> QED
  BY <1>1, <1>2, <1>3

LEMMA HideVectorKeeps == ASSUME Inv, PubTypeOK', HideVector PROVE Inv'
<1> USE Numbers, Running DEF Inv, HideVector, AfterWrites, Goto, Caught, Outcomes
<1>1. Ordered'
  BY DEF PubTypeOK, Runs, Rows, Ordered, Staged, Latest, Idle
<1>2. Staged'
  BY DEF PubTypeOK, Runs, Rows, Ordered, Staged, Latest, Idle
<1>3. Whole'
  BY DEF PubTypeOK, Runs, Rows, Ordered, Staged, Whole, Latest, Searchable, Idle
<1> QED
  BY <1>1, <1>2, <1>3

LEMMA BumpKeeps == ASSUME Inv, PubTypeOK', Bump PROVE Inv'
<1> USE Numbers, Running DEF Inv, Bump, Caught, Goto, Outcomes
<1>1. Ordered'
  BY DEF PubTypeOK, Runs, Rows, Ordered, Staged, Latest, Idle
<1>2. Staged'
  BY DEF PubTypeOK, Runs, Rows, Ordered, Staged, Latest, Idle
<1>3. Whole'
  BY DEF PubTypeOK, Runs, Rows, Ordered, Staged, Whole, Latest, Searchable, Idle
<1> QED
  BY <1>1, <1>2, <1>3

LEMMA StopKeeps == ASSUME Inv, PubTypeOK', Stop PROVE Inv'
<1> USE Numbers, Running DEF Inv, Stop
<1>1. Ordered'
  BY DEF PubTypeOK, Runs, Rows, Ordered, Staged, Latest, Idle
<1>2. Staged'
  BY DEF PubTypeOK, Runs, Rows, Ordered, Staged, Latest, Idle
<1>3. Whole'
  BY DEF PubTypeOK, Runs, Rows, Ordered, Staged, Whole, Latest, Searchable, Idle
<1> QED
  BY <1>1, <1>2, <1>3

LEMMA EditKeeps == ASSUME Inv, PubTypeOK', Edit, ~Reverts PROVE Inv'
<1> USE Numbers, Running DEF Inv, Edit
<1>1. Ordered'
  BY DEF PubTypeOK, Runs, Rows, Ordered, Staged, Latest, Idle
<1>2. Staged'
  BY DEF PubTypeOK, Runs, Rows, Ordered, Staged, Latest, Idle
<1>3. Whole'
  BY DEF PubTypeOK, Runs, Rows, Ordered, Staged, Whole, Latest, Searchable, Idle
<1> QED
  BY <1>1, <1>2, <1>3

LEMMA BumpElsewhereKeeps == ASSUME Inv, PubTypeOK', BumpElsewhere PROVE Inv'
<1> USE Numbers, Running DEF Inv, BumpElsewhere
<1>1. Ordered'
  BY DEF PubTypeOK, Runs, Rows, Ordered, Staged, Latest, Idle
<1>2. Staged'
  BY DEF PubTypeOK, Runs, Rows, Ordered, Staged, Latest, Idle
<1>3. Whole'
  BY DEF PubTypeOK, Runs, Rows, Ordered, Staged, Whole, Latest, Searchable, Idle
<1> QED
  BY <1>1, <1>2, <1>3

-------------------------------------------------------------------------------
\* Types of the publication, whatever the merchant does.
THEOREM TypeCorrect == PubSpec => []PubTypeOK
<1>1. PubInit => PubTypeOK
  BY InitInv DEF Inv
<1> QED
  BY <1>1, StepTypes, PTL DEF PubSpec

\* The publication's invariant, as long as no earlier text is restored.
LEMMA PublicationInv == ASSUME ~Reverts PROVE PubSpec => []Inv
<1>1. Inv /\ [PubNext]_pubVars => Inv'
  <2> SUFFICES ASSUME Inv, [PubNext]_pubVars PROVE Inv'
    OBVIOUS
  <2>1. PubTypeOK'
    BY StepTypes DEF Inv
  <2>2. CASE UNCHANGED pubVars
    BY <2>2, <2>1 DEF pubVars, Inv, Ordered, Staged, Whole, Latest, Searchable
  <2> QED
    BY <2>1, <2>2, FetchKeeps, ReadStoresKeeps, ReserveSlotKeeps, WriteVectorKeeps,
       ReleaseSlotKeeps, StageKeeps, WriteProfileKeeps, WriteSourceKeeps,
       ShowVectorKeeps, PublishKeeps, MarkUnpublishedKeeps, HideVectorKeeps,
       BumpKeeps, StopKeeps, EditKeeps, BumpElsewhereKeeps
    DEF PubNext, RunStep
<1> QED
  BY InitInv, <1>1, PTL DEF PubSpec

\* Nothing half-published is shown, as long as no earlier text is restored:
\* whatever calls fail and wherever runs are cut short, the next run trusts only
\* what the stores then say (indexProduct).
THEOREM FailClosedAlways == ASSUME ~Reverts PROVE PubSpec => []FailClosed
<1>1. Inv => FailClosed
  BY Numbers DEF Inv, PubTypeOK, Rows, Whole, FailClosed
<1> QED
  BY PublicationInv, <1>1, PTL

-------------------------------------------------------------------------------
(* The publication as an atomic listing *)

\* A product that is found is found by one text.
LEMMA FoundByOne ==
  ASSUME Inv
  PROVE  /\ FoundBy = IF Searchable(registry) THEN {profile} ELSE {}
         /\ Searchable(registry) => profile # 0
BY DEF Inv, Whole, FoundBy

LEMMA FoundByOneNext ==
  ASSUME Inv'
  PROVE  FoundBy' = IF Searchable(registry') THEN {profile'} ELSE {}
BY DEF Inv, Whole, FoundBy

\* Steps that change neither Shopify, the vector's text nor what is found.
LEMMA Unseen ==
  ASSUME shopify'.doc = shopify.doc, vector'.doc = vector.doc, FoundBy' = FoundBy
  PROVE  [Listing!Next]_(Listing!vars)
BY DEF Listing!vars

LEMMA QuietSteps ==
  ASSUME Inv, Inv',
         Fetch \/ ReadStores \/ ReserveSlot \/ ReleaseSlot \/ WriteSource \/ Bump \/ Stop
         \/ BumpElsewhere
  PROVE  [Listing!Next]_(Listing!vars)
<1>1. UNCHANGED <<shopify, vector>>
  BY DEF Fetch, ReadStores, ReserveSlot, ReleaseSlot, WriteSource, Bump, Stop, BumpElsewhere
<1>2. Searchable(registry') <=> Searchable(registry)
  <2>1. CASE Fetch \/ ReadStores \/ Bump \/ Stop \/ BumpElsewhere
    BY <2>1 DEF Fetch, ReadStores, Bump, Stop, BumpElsewhere
  <2>2. CASE ReserveSlot
    BY <2>2 DEF ReserveSlot, Searchable, Inv, PubTypeOK, Rows
  <2>3. CASE ReleaseSlot
    BY <2>3 DEF ReleaseSlot, Searchable, NoRow, Inv, PubTypeOK, Rows
  <2>4. CASE WriteSource
    BY <2>4 DEF WriteSource, Searchable, Inv, PubTypeOK, Rows
  <2> QED
    BY <2>1, <2>2, <2>3, <2>4
<1>3. Searchable(registry) => profile' = profile
  BY DEF Fetch, ReadStores, ReserveSlot, ReleaseSlot, WriteSource, Bump, Stop, BumpElsewhere,
         Searchable
<1>4. FoundBy' = FoundBy
  BY <1>2, <1>3, FoundByOne, FoundByOneNext
<1> QED
  BY <1>1, <1>4, Unseen

LEMMA WriteVectorPrepares ==
  ASSUME Inv, Inv', WriteVector
  PROVE  [Listing!Next]_(Listing!vars)
<1>1. UNCHANGED <<shopify, profile, registry>>
  BY DEF WriteVector
<1>2. FoundBy' = FoundBy
  BY <1>1, FoundByOne, FoundByOneNext
<1>3. vector' = vector \/ vector'.doc = run.doc
  BY DEF WriteVector, WrittenVector
<1>4. run.doc \in Docs /\ run.doc <= shopify.doc /\ vector.doc <= run.doc
  BY Running DEF Inv, Ordered, Latest, WriteVector
<1>5. CASE vector'.doc = run.doc
  <2>1. Listing!Prepare
    BY <1>1, <1>2, <1>4, <1>5 DEF Listing!Prepare
  <2> QED
    BY <2>1 DEF Listing!Next
<1>6. CASE vector' = vector
  BY <1>1, <1>2, <1>6, Unseen
<1> QED
  BY <1>3, <1>5, <1>6

\* Steps after which the product is found by the vector's text, or not at all.
LEMMA ListsOrWithdraws ==
  ASSUME Inv, Inv', UNCHANGED shopify, vector'.doc = vector.doc,
         Searchable(registry') => profile' = vector.doc /\ vector.doc \in Docs
  PROVE  [Listing!Next]_(Listing!vars)
<1>1. CASE Searchable(registry')
  <2>1. FoundBy' = {vector.doc}
    BY <1>1, FoundByOneNext
  <2>2. Listing!List
    BY <1>1, <2>1 DEF Listing!List
  <2> QED
    BY <2>2 DEF Listing!Next
<1>2. CASE ~Searchable(registry')
  <2>1. FoundBy' = {}
    BY <1>2, FoundByOneNext
  <2>2. Listing!Withdraw
    BY <2>1 DEF Listing!Withdraw
  <2> QED
    BY <2>2 DEF Listing!Next
<1> QED
  BY <1>1, <1>2

LEMMA ListingSteps ==
  ASSUME Inv, Inv', Stage \/ WriteProfile \/ Publish \/ MarkUnpublished
  PROVE  [Listing!Next]_(Listing!vars)
<1>1. /\ UNCHANGED <<shopify, vector>> /\ run # Idle /\ run.doc \in Docs
      /\ registry \in Rows
  BY Running DEF Stage, WriteProfile, Publish, MarkUnpublished, Inv, Ordered, PubTypeOK
<1>2. CASE Stage
  <2>1. (~Searchable(registry')) \/ registry' = registry
    BY <1>1, <1>2 DEF Stage, Searchable, Rows
  <2>2. CASE ~Searchable(registry')
    BY <1>1, <2>2, ListsOrWithdraws
  <2>3. CASE registry' = registry
    <3>1. profile' = profile
      BY <1>2 DEF Stage
    <3>2. FoundBy' = FoundBy
      BY <2>3, <3>1, FoundByOne, FoundByOneNext
    <3> QED
      BY <1>1, <3>2, Unseen
  <2> QED
    BY <2>1, <2>2, <2>3
<1>3. CASE WriteProfile
  <2>1. registry' = registry /\ (profile' = profile \/ profile' = run.doc)
    BY <1>3 DEF WriteProfile
  <2>2. vector.doc = run.doc
    BY <1>1, <1>3 DEF WriteProfile, Inv, Staged
  <2>3. CASE profile' = run.doc
    BY <1>1, <2>2, <2>3, ListsOrWithdraws
  <2>4. CASE profile' = profile
    <3>1. FoundBy' = FoundBy
      BY <2>1, <2>4, FoundByOne, FoundByOneNext
    <3> QED
      BY <1>1, <3>1, Unseen
  <2> QED
    BY <2>1, <2>3, <2>4
<1>4. CASE Publish
  <2>1. profile' = profile /\ profile = run.doc /\ vector.doc = run.doc
    BY <1>1, <1>4 DEF Publish, Inv, Staged
  <2> QED
    BY <1>1, <2>1, ListsOrWithdraws
<1>5. CASE MarkUnpublished
  <2>1. profile' = profile /\ ((~Searchable(registry')) \/ registry' = registry)
    BY <1>1, <1>5 DEF MarkUnpublished, Searchable, Rows
  <2>2. CASE ~Searchable(registry')
    BY <1>1, <2>2, ListsOrWithdraws
  <2>3. CASE registry' = registry
    <3>1. FoundBy' = FoundBy
      BY <2>1, <2>3, FoundByOne, FoundByOneNext
    <3> QED
      BY <1>1, <3>1, Unseen
  <2> QED
    BY <2>1, <2>2, <2>3
<1> QED
  BY <1>2, <1>3, <1>4, <1>5

LEMMA PayloadSteps ==
  ASSUME Inv, Inv', ShowVector \/ HideVector
  PROVE  [Listing!Next]_(Listing!vars)
<1>1. UNCHANGED <<shopify, profile, registry>>
  BY DEF ShowVector, HideVector
<1>2. vector'.doc = vector.doc
  BY DEF ShowVector, HideVector, Inv, PubTypeOK
<1>3. FoundBy' = FoundBy
  BY <1>1, FoundByOne, FoundByOneNext
<1> QED
  BY <1>1, <1>2, <1>3, Unseen

LEMMA EditIsEdit ==
  ASSUME Inv, Inv', Edit, ~Reverts
  PROVE  [Listing!Next]_(Listing!vars)
<1>1. UNCHANGED <<vector, profile, registry>>
  BY DEF Edit
<1>2. FoundBy' = FoundBy
  BY <1>1, FoundByOne, FoundByOneNext
<1>3. PICK d \in Docs : d >= shopify.doc /\ shopify'.doc = d
  BY DEF Edit
<1>4. shopify.doc <= d
  BY <1>3, Numbers DEF Inv, PubTypeOK
<1>5. Listing!Edit
  BY <1>1, <1>2, <1>3, <1>4 DEF Listing!Edit
<1> QED
  BY <1>5 DEF Listing!Next

LEMMA ListingStep ==
  ASSUME Inv, Inv', ~Reverts, [PubNext]_pubVars
  PROVE  [Listing!Next]_(Listing!vars)
<1>1. CASE UNCHANGED pubVars
  BY <1>1 DEF pubVars, Listing!vars, FoundBy, Searchable
<1> QED
  BY <1>1, QuietSteps, WriteVectorPrepares, ListingSteps, PayloadSteps, EditIsEdit
     DEF PubNext, RunStep

\* Three stores written one by one, by runs that fail and die between any two
\* calls, implement an atomic listing: every step of the publication is a step of
\* AtomicListing or leaves what searches find as it was (indexProduct, its repair,
\* syncProductFromWebhook).
THEOREM PublicationImplementsListing == ASSUME ~Reverts PROVE PubSpec => ImplementsListing
<1>1. PubInit => Listing!Init
  BY DEF PubInit, Listing!Init, FoundBy, Searchable, NoRow
<1>2. Inv /\ Inv' /\ [PubNext]_pubVars => [Listing!Next]_(Listing!vars)
  BY ListingStep
<1> QED
  BY <1>1, <1>2, PublicationInv, PTL DEF PubSpec, ImplementsListing, Listing!Spec

\* What is listed was prepared; and from a text t on, nothing older.
WasPrepared  == \A e \in FoundBy : e <= vector.doc
NothingOlder(t) == t <= vector.doc /\ \A e \in FoundBy : t <= e

LEMMA ListingKeepsOrder ==
  ASSUME Inv, Inv', NEW t \in Docs, [Listing!Next]_(Listing!vars)
  PROVE  /\ WasPrepared => WasPrepared'
         /\ NothingOlder(t) => NothingOlder(t)'
<1> USE DEF WasPrepared, NothingOlder
<1>1. /\ t \in Int /\ vector.doc \in Int /\ vector'.doc \in Int
      /\ \A e \in FoundBy : e \in Int
  BY Numbers DEF Inv, PubTypeOK, FoundBy
<1>2. CASE Listing!Edit
  BY <1>2 DEF Listing!Edit
<1>3. CASE Listing!Prepare
  BY <1>1, <1>3 DEF Listing!Prepare
<1>4. CASE Listing!List
  BY <1>1, <1>4 DEF Listing!List
<1>5. CASE Listing!Withdraw
  BY <1>5 DEF Listing!Withdraw
<1>6. CASE UNCHANGED Listing!vars
  BY <1>6 DEF Listing!vars
<1> QED
  BY <1>2, <1>3, <1>4, <1>5, <1>6 DEF Listing!Next

\* Once a search could find the product by a text, no later search finds it by an
\* older one, not even after it was hidden, unpublished, or its row deleted.
THEOREM TextsNeverGoBack ==
  ASSUME ~Reverts, NEW t \in Docs
  PROVE  PubSpec => []((\E d \in FoundBy : t <= d) => [](\A e \in FoundBy : t <= e))
<1> DEFINE Found == \E d \in FoundBy : t <= d
           Newer == \A e \in FoundBy : t <= e
<1>1. PubInit => WasPrepared
  <2> SUFFICES ASSUME PubInit PROVE WasPrepared
    OBVIOUS
  <2>1. FoundBy = {}
    BY DEF PubInit, FoundBy, Searchable, NoRow
  <2> QED
    BY <2>1 DEF WasPrepared
<1>2. Inv /\ Inv' /\ [PubNext]_pubVars => (WasPrepared => WasPrepared')
  BY ListingStep, ListingKeepsOrder
<1>3. Inv /\ Inv' /\ [PubNext]_pubVars => (NothingOlder(t) => NothingOlder(t)')
  BY ListingStep, ListingKeepsOrder
<1>4. Inv /\ WasPrepared /\ Found => NothingOlder(t)
  <2> SUFFICES ASSUME Inv, WasPrepared, Found PROVE NothingOlder(t)
    OBVIOUS
  <2>1. FoundBy = {profile} /\ t <= profile /\ profile <= vector.doc
    BY FoundByOne DEF WasPrepared
  <2>2. t \in Int /\ profile \in Int /\ vector.doc \in Int
    BY Numbers DEF Inv, PubTypeOK
  <2> QED
    BY <2>1, <2>2 DEF NothingOlder
<1>5. NothingOlder(t) => Newer
  BY DEF NothingOlder
<1> HIDE DEF Found, Newer
<1>6. PubSpec => [](Found => []Newer)
  BY <1>1, <1>2, <1>3, <1>4, <1>5, PublicationInv, PTL DEF PubSpec
<1> QED
  BY <1>6 DEF Found, Newer

-------------------------------------------------------------------------------
(* Searches and receipts *)

\* The stores hold one published text, and no bump is owed, or was lost, for how
\* they came to.
Settled == /\ Coherent(vector, profile, registry)
           /\ run = Idle \/ ~run.due
           /\ ~lostBump

\* What a run owes: nothing before its first write, a bump after it.  A run that
\* writes the profile has found its hash stale; one that hides the product of an
\* unpublished row has nothing to make coherent.
Owed ==
  run # Idle =>
    /\ run.step \in {"read", "slot", "vector", "release", "mark"} => ~run.due
    /\ run.step = "bump" \/ run.mode = "repair" => run.due
    /\ run.mode = "index" /\ run.step \in {"stage", "profile", "source", "show", "publish"}
         => run.due
    /\ run.step = "profile" /\ run.mode = "skip"
         => registry.source # run.doc /\ vector.doc = run.doc
    /\ run.mode = "skip" => vector.doc = run.doc
    /\ run.step = "stage" => run.mode \in {"index", "repair"}
    /\ run.step = "mark" => run.mode = "unpublish"
    /\ run.step = "hide" => run.mode \in {"repair", "unpublish"}
    /\ run.mode = "unpublish" =>
         /\ run.step \in {"mark", "hide", "bump"}
         /\ run.step # "mark" => ~Searchable(registry)

\* Nobody knows a revision that was not made.
Known ==
  /\ \A r \in Revisions : revision < r => receipts[r] = None
  /\ \A s \in Searches : search[s].key <= revision

\* What search s has found is what a search would find now.
Partial(s) ==
  /\ "vectors" \notin search[s].left =>
       search[s].found.vector = vector.doc /\ search[s].found.price = vector.price
  /\ "profiles" \notin search[s].left => search[s].found.profile = profile

\* In a settled state what is saved, or will be, under the current revision is
\* what a search would find.
Current ==
  Settled =>
    /\ receipts[revision] \in {None, Fresh}
    /\ \A s \in Searches :
         search[s].stage # "idle" /\ search[s].key = revision => Partial(s)

\* A search saves when both channels have answered.
Answered == \A s \in Searches : search[s].stage # "retrieve" => search[s].left = {}

CacheInv == TypeOK /\ Owed /\ Known /\ Answered /\ Current

\* What a step of the publication does for those who share results: it advances
\* the revision, or settles nothing and changes nothing that is settled.
Retires ==
  \/ revision < revision'
  \/ /\ revision' = revision
     /\ Settled' => Settled /\ vector' = vector /\ profile' = profile

-------------------------------------------------------------------------------
LEMMA FetchRetires ==
  ASSUME PubTypeOK, PubTypeOK', Owed, Fetch PROVE Owed' /\ Retires
<1> USE Numbers, Running DEF Fetch, NewRun
<1>1. Owed'
  BY DEF PubTypeOK, Runs, Rows, Owed, Searchable, Idle
<1>2. Retires
  BY DEF PubTypeOK, Runs, Rows, Owed, Searchable, Idle, Retires, Settled, Coherent
<1> QED
  BY <1>1, <1>2

LEMMA ReadStoresRetires ==
  ASSUME PubTypeOK, PubTypeOK', Owed, ReadStores PROVE Owed' /\ Retires
<1> USE Numbers, Running DEF ReadStores, FirstRefresh, ProfileStale, PayloadStale, RegistryStale
<1>1. Owed'
  <2>1. CASE run' = Idle
    BY <2>1 DEF Owed
  <2>2. CASE run' # Idle
    <3>1. run \in Runs /\ run # Idle
      OBVIOUS
    <3>2. /\ run'.step \in {"slot", "vector", "profile", "show", "publish"}
          /\ run'.mode \in {"skip", "index"} /\ run'.doc = run.doc /\ ~run'.due
      BY <2>2, <3>1 DEF Runs, Owed
    <3>3. run'.mode = "skip" => vector.doc = run.doc
      BY <2>2, <3>1 DEF Runs
    <3>4. run'.step \in {"profile", "show", "publish"} => run'.mode = "skip"
      BY <2>2, <3>1 DEF Runs
    <3>5. run'.step = "profile" => registry.source # run.doc
      BY <2>2, <3>1 DEF Runs
    <3>6. run'.step = "vector" \/ run'.step = "slot" \/ run'.mode = "skip"
      BY <3>2, <3>4
    <3> QED
      BY <3>2, <3>3, <3>4, <3>5, <3>6 DEF Owed
  <2> QED
    BY <2>1, <2>2
<1>2. Retires
  BY DEF PubTypeOK, Runs, Rows, Owed, Searchable, Idle, Retires, Settled, Coherent
<1> QED
  BY <1>1, <1>2

LEMMA ReserveSlotRetires ==
  ASSUME PubTypeOK, PubTypeOK', Owed, ReserveSlot PROVE Owed' /\ Retires
<1> USE Numbers, Running DEF ReserveSlot, FirstRefresh, ProfileStale, PayloadStale, RegistryStale,
                         Goto, Outcomes
<1>1. Owed'
  BY DEF PubTypeOK, Runs, Rows, Owed, Searchable, Idle
<1>2. Retires
  BY DEF PubTypeOK, Runs, Rows, Owed, Searchable, Idle, Retires, Settled, Coherent
<1> QED
  BY <1>1, <1>2

LEMMA WriteVectorRetires ==
  ASSUME PubTypeOK, PubTypeOK', Owed, WriteVector PROVE Owed' /\ Retires
<1> USE Numbers, Running DEF WriteVector, WrittenVector, Goto, Outcomes
<1>1. Owed'
  <2>1. run \in Runs /\ run # Idle /\ run.step = "vector" /\ ~run.due /\ run.mode # "unpublish"
    BY DEF Owed
  <2>2. PICK o \in Outcomes :
          /\ vector' = IF o = "refused" THEN vector ELSE WrittenVector
          /\ IF o = "done"
             THEN \E mode \in {"index", "repair"} :
                    run' = [Goto("stage") EXCEPT !.mode = mode, !.due = TRUE, !.slot = FALSE]
             ELSE run' = IF run.slot THEN Goto("release") ELSE Idle
    OBVIOUS
  <2>3. CASE o = "done"
    <3>1. PICK mode \in {"index", "repair"} :
            run' = [Goto("stage") EXCEPT !.mode = mode, !.due = TRUE, !.slot = FALSE]
      BY <2>2, <2>3
    <3>2. run'.step = "stage" /\ run'.mode = mode /\ run'.due
      BY <2>1, <3>1 DEF Runs
    <3> QED
      BY <3>2 DEF Owed
  <2>4. CASE run' = Goto("release")
    <3>1. /\ run'.step = "release" /\ run'.mode = run.mode /\ ~run'.due /\ run'.doc = run.doc
      BY <2>1, <2>4 DEF Runs
    <3>2. vector'.doc = vector.doc \/ vector'.doc = run.doc
      BY <2>2
    <3> QED
      BY <2>1, <3>1, <3>2 DEF Owed
  <2>5. CASE run' = Idle
    BY <2>5 DEF Owed
  <2> QED
    BY <2>2, <2>3, <2>4, <2>5
<1>2. Retires
  BY DEF PubTypeOK, Runs, Rows, Owed, Searchable, Idle, Retires, Settled, Coherent
<1> QED
  BY <1>1, <1>2

LEMMA ReleaseSlotRetires ==
  ASSUME PubTypeOK, PubTypeOK', Owed, ReleaseSlot PROVE Owed' /\ Retires
<1> USE Numbers, Running DEF ReleaseSlot, NoRow
<1>1. Owed'
  BY DEF PubTypeOK, Runs, Rows, Owed, Searchable, Idle
<1>2. Retires
  BY DEF PubTypeOK, Runs, Rows, Owed, Searchable, Idle, Retires, Settled, Coherent
<1> QED
  BY <1>1, <1>2

LEMMA StageRetires ==
  ASSUME PubTypeOK, PubTypeOK', Owed, Stage PROVE Owed' /\ Retires
<1> USE Numbers, Running DEF Stage, After, Goto, Caught, Outcomes
<1>1. Owed'
  BY DEF PubTypeOK, Runs, Rows, Owed, Searchable, Idle
<1>2. Retires
  <2>1. run \in Runs /\ run # Idle /\ run.due /\ run.mode \in {"index", "repair"}
    BY DEF Owed
  <2>2. run' \in Runs /\ run' # Idle /\ run'.due
    <3>1. run' \in {Goto("profile"), [Goto("stage") EXCEPT !.mode = "repair"]}
      BY <2>1
    <3> QED
      BY <2>1, <3>1 DEF Runs, Idle, PubTypeOK
  <2> QED
    BY <2>2 DEF Retires, Settled
<1> QED
  BY <1>1, <1>2

LEMMA WriteProfileRetires ==
  ASSUME PubTypeOK, PubTypeOK', Owed, WriteProfile PROVE Owed' /\ Retires
<1> USE Numbers, Running DEF WriteProfile, Owing, After, Goto, Caught, Outcomes
<1>1. Owed'
  BY DEF PubTypeOK, Runs, Rows, Owed, Searchable, Idle
<1>2. Retires
  <2>1. run \in Runs /\ run # Idle /\ run.mode # "unpublish" /\ run.mode \in Modes
    BY DEF Owed, Runs
  <2>2. CASE run.mode = "skip" /\ run' = Idle
    <3>1. ~Coherent(vector', profile', registry')
      BY <2>1, <2>2 DEF Owed, Coherent, PubTypeOK, Rows
    <3> QED
      BY <3>1 DEF Retires, Settled
  <2>3. CASE run' # Idle /\ run'.due
    BY <2>3 DEF Retires, Settled
  <2>4. (run.mode = "skip" /\ run' = Idle) \/ (run' # Idle /\ run'.due)
    BY <2>1 DEF Runs, Owed, Modes, Idle
  <2> QED
    BY <2>2, <2>3, <2>4
<1> QED
  BY <1>1, <1>2

LEMMA WriteSourceRetires ==
  ASSUME PubTypeOK, PubTypeOK', Owed, WriteSource PROVE Owed' /\ Retires
<1> USE Numbers, Running DEF WriteSource, Owing, After, Goto, Caught, Outcomes, NoteLoss, LosesBump
<1>1. Owed'
  BY DEF PubTypeOK, Runs, Rows, Owed, Searchable, Idle
<1>2. Retires
  BY DEF PubTypeOK, Runs, Rows, Owed, Searchable, Idle, Retires, Settled, Coherent
<1> QED
  BY <1>1, <1>2

LEMMA ShowVectorRetires ==
  ASSUME PubTypeOK, PubTypeOK', Owed, ShowVector PROVE Owed' /\ Retires
<1> USE Numbers, Running DEF ShowVector, Owing, After, Goto, Caught, Outcomes, NoteLoss, LosesBump
<1>1. Owed'
  BY DEF PubTypeOK, Runs, Rows, Owed, Searchable, Idle
<1>2. Retires
  BY DEF PubTypeOK, Runs, Rows, Owed, Searchable, Idle, Retires, Settled, Coherent
<1> QED
  BY <1>1, <1>2

LEMMA PublishRetires ==
  ASSUME PubTypeOK, PubTypeOK', Owed, Publish PROVE Owed' /\ Retires
<1> USE Numbers, Running DEF Publish, PublishedRow, OwesBump, RegistryStale, AfterWrites,
                         Goto, Caught, Outcomes, NoteLoss, LosesBump
<1>1. Owed'
  BY DEF PubTypeOK, Runs, Rows, Owed, Searchable, Idle
<1>2. Retires
  <2>1. run \in Runs /\ run # Idle /\ run.mode # "unpublish" /\ run.mode \in Modes
    BY DEF Owed, Runs
  <2>2. PICK o \in Outcomes :
          /\ registry' = IF o = "refused" THEN registry ELSE PublishedRow
          /\ run' = AfterWrites(o, OwesBump)
          /\ NoteLoss(o # "done")
    OBVIOUS
  <2>3. CASE run' # Idle
    <3>1. run'.due
      BY <2>1, <2>2, <2>3 DEF Owed, Runs, Modes
    <3> QED
      BY <2>3, <3>1 DEF Retires, Settled
  <2>4. CASE run' = Idle /\ o = "done"
    <3>1. ~run.due /\ ~RegistryStale
      BY <2>1, <2>2, <2>4 DEF Runs, Idle
    <3>2. registry'.doc = registry.doc /\ registry'.source = registry.source /\ Searchable(registry)
      BY <2>2, <2>4, <3>1 DEF PubTypeOK, Rows
    <3> QED
      BY <3>1, <3>2 DEF Retires, Settled, Coherent
  <2>5. CASE run' = Idle /\ o # "done"
    <3>1. NoteLoss(TRUE)
      BY <2>2, <2>5
    <3> QED
      BY <2>5, <3>1 DEF Retires, Settled, PubTypeOK
  <2> QED
    BY <2>3, <2>4, <2>5
<1> QED
  BY <1>1, <1>2

LEMMA MarkUnpublishedRetires ==
  ASSUME PubTypeOK, PubTypeOK', Owed, MarkUnpublished PROVE Owed' /\ Retires
<1> USE Numbers, Running DEF MarkUnpublished, Goto, Outcomes
<1>1. Owed'
  BY DEF PubTypeOK, Runs, Rows, Owed, Searchable, Idle
<1>2. Retires
  BY DEF PubTypeOK, Runs, Rows, Owed, Searchable, Idle, Retires, Settled, Coherent
<1> QED
  BY <1>1, <1>2

LEMMA HideVectorRetires ==
  ASSUME PubTypeOK, PubTypeOK', Owed, HideVector PROVE Owed' /\ Retires
<1> USE Numbers, Running DEF HideVector, AfterWrites, Goto, Caught, Outcomes
<1>1. Owed'
  BY DEF PubTypeOK, Runs, Rows, Owed, Searchable, Idle
<1>2. Retires
  BY DEF PubTypeOK, Runs, Rows, Owed, Searchable, Idle, Retires, Settled, Coherent
<1> QED
  BY <1>1, <1>2

LEMMA BumpRetires ==
  ASSUME PubTypeOK, PubTypeOK', Owed, Bump PROVE Owed' /\ Retires
<1> USE Numbers, Running DEF Bump, Caught, Goto, Outcomes, NoteLoss, LosesBump
<1>1. Owed'
  BY DEF PubTypeOK, Runs, Rows, Owed, Searchable, Idle
<1>2. Retires
  BY DEF PubTypeOK, Runs, Rows, Owed, Searchable, Idle, Retires, Settled, Coherent
<1> QED
  BY <1>1, <1>2

LEMMA StopRetires ==
  ASSUME PubTypeOK, PubTypeOK', Owed, Stop PROVE Owed' /\ Retires
<1> USE Numbers, Running DEF Stop, NoteLoss, LosesBump
<1>1. Owed'
  BY DEF PubTypeOK, Runs, Rows, Owed, Searchable, Idle
<1>2. Retires
  BY DEF PubTypeOK, Runs, Rows, Owed, Searchable, Idle, Retires, Settled, Coherent
<1> QED
  BY <1>1, <1>2

LEMMA EditRetires ==
  ASSUME PubTypeOK, PubTypeOK', Owed, Edit PROVE Owed' /\ Retires
<1> USE Numbers, Running DEF Edit
<1>1. Owed'
  BY DEF PubTypeOK, Runs, Rows, Owed, Searchable, Idle
<1>2. Retires
  BY DEF PubTypeOK, Runs, Rows, Owed, Searchable, Idle, Retires, Settled, Coherent
<1> QED
  BY <1>1, <1>2

LEMMA BumpElsewhereRetires ==
  ASSUME PubTypeOK, PubTypeOK', Owed, BumpElsewhere PROVE Owed' /\ Retires
<1> USE Numbers, Running DEF BumpElsewhere
<1>1. Owed'
  BY DEF PubTypeOK, Runs, Rows, Owed, Searchable, Idle
<1>2. Retires
  BY DEF PubTypeOK, Runs, Rows, Owed, Searchable, Idle, Retires, Settled, Coherent
<1> QED
  BY <1>1, <1>2

-------------------------------------------------------------------------------
LEMMA PublicationRetires ==
  ASSUME PubTypeOK, PubTypeOK', Owed, PubNext PROVE Owed' /\ Retires
BY FetchRetires, ReadStoresRetires, ReserveSlotRetires, WriteVectorRetires,
   ReleaseSlotRetires, StageRetires, WriteProfileRetires, WriteSourceRetires,
   ShowVectorRetires, PublishRetires, MarkUnpublishedRetires, HideVectorRetires,
   BumpRetires, StopRetires, EditRetires, BumpElsewhereRetires
   DEF PubNext, RunStep

LEMMA Types == TypeOK /\ [Next]_vars => TypeOK'
<1> SUFFICES ASSUME TypeOK, [Next]_vars PROVE TypeOK'
  OBVIOUS
<1> USE Numbers DEF TypeOK
<1>1. CASE PubNext /\ UNCHANGED <<search, receipts>>
  BY <1>1, StepTypes DEF Revisions
<1>2. CASE \E s \in Searches : SearchStep(s)
  <2>1. PICK s \in Searches : SearchStep(s)
    BY <1>2
  <2>2. PubTypeOK'
    BY <2>1 DEF SearchStep, Begin, RetrieveVectors, RetrieveProfiles, Filter, Save,
                Abandon, pubVars, PubTypeOK
  <2>3. search' = [search EXCEPT ![s] = search'[s]]
    BY <2>1 DEF SearchStep, Begin, RetrieveVectors, RetrieveProfiles, Filter, Save, Abandon
  <2>4. Nothing \in Findings /\ NoSearch \in SearchStates
    BY DEF NoSearch, SearchStates, Findings, Nothing, Texts, Revisions
  <2>5. search'[s] \in SearchStates
    <3>1. CASE Begin(s)
      <4>1. PICK r \in 0 .. revision :
              search'[s] = [NoSearch EXCEPT !.stage = "retrieve", !.key = r, !.left = Channels]
        BY <3>1 DEF Begin
      <4>2. r \in Revisions
        BY DEF PubTypeOK, Revisions
      <4> QED
        BY <2>4, <4>1, <4>2 DEF SearchStates
    <3>2. CASE RetrieveVectors(s) \/ RetrieveProfiles(s) \/ Filter(s)
      BY <2>4, <3>2 DEF RetrieveVectors, RetrieveProfiles, Filter, SearchStates, Findings,
                        PubTypeOK
    <3>3. CASE Save(s) \/ Abandon(s)
      BY <2>4, <3>3 DEF Save, Abandon
    <3> QED
      BY <2>1, <3>1, <3>2, <3>3 DEF SearchStep
  <2>6. receipts' \in [Revisions -> Findings \union {None}]
    BY <2>1 DEF SearchStep, Begin, RetrieveVectors, RetrieveProfiles, Filter, Save,
                Abandon, SearchStates
  <2> QED
    BY <2>2, <2>3, <2>5, <2>6
<1>3. CASE \E r \in Revisions : ExpireReceipt(r)
  BY <1>3 DEF ExpireReceipt, pubVars, PubTypeOK
<1>4. CASE UNCHANGED vars
  BY <1>4 DEF vars, PubTypeOK
<1> QED
  BY <1>1, <1>2, <1>3, <1>4 DEF Next

\* A step of the publication leaves current what is under the current revision.
LEMMA PublicationKeeps ==
  ASSUME CacheInv, TypeOK', PubNext, UNCHANGED <<search, receipts>>
  PROVE  CacheInv'
<1>1. Owed' /\ Retires /\ Answered'
  BY PublicationRetires DEF CacheInv, TypeOK, Answered
<1>2. /\ revision \in Int /\ revision' \in Int /\ revision' \in Revisions
      /\ \A r \in Revisions : r \in Int
      /\ \A s \in Searches : search[s].key \in Int
  BY Numbers DEF CacheInv, TypeOK, PubTypeOK, SearchStates, Revisions
<1>3. CASE revision < revision'
  <2>1. Known'
    BY <1>2, <1>3 DEF CacheInv, Known
  <2>2. receipts[revision'] = None
    BY <1>2, <1>3 DEF CacheInv, Known
  <2>3. \A s \in Searches : search[s].key # revision'
    BY <1>2, <1>3 DEF CacheInv, Known
  <2>4. Current'
    BY <2>2, <2>3 DEF Current
  <2> QED
    BY <1>1, <2>1, <2>4 DEF CacheInv
<1>4. CASE revision' = revision /\ (Settled' => Settled /\ vector' = vector /\ profile' = profile)
  <2>1. Known'
    BY <1>4 DEF CacheInv, Known
  <2>2. Current'
    BY <1>4 DEF CacheInv, Current, Partial, Fresh
  <2> QED
    BY <1>1, <2>1, <2>2 DEF CacheInv
<1> QED
  BY <1>1, <1>3, <1>4 DEF Retires

\* A search that finds the stores settled finds what is current, and saves it
\* under the revision it began with.
LEMMA SearchKeeps ==
  ASSUME CacheInv, TypeOK', NEW s \in Searches, SearchStep(s) PROVE CacheInv'
<1> USE DEF CacheInv
<1>1. UNCHANGED pubVars
  BY DEF SearchStep, Begin, RetrieveVectors, RetrieveProfiles, Filter, Save, Abandon
<1>2. Owed' /\ (Settled' <=> Settled) /\ Fresh' = Fresh
  BY <1>1 DEF pubVars, Owed, Settled, Coherent, Searchable, Fresh
<1>3. ASSUME NEW t \in Searches, t # s PROVE search'[t] = search[t]
  BY <1>3 DEF SearchStep, Begin, RetrieveVectors, RetrieveProfiles, Filter, Save, Abandon, TypeOK
<1>4. /\ revision \in Int /\ revision \in Revisions /\ \A r \in Revisions : r \in Int
      /\ revision' = revision /\ vector' = vector /\ profile' = profile
  BY <1>1, Numbers DEF TypeOK, PubTypeOK, Revisions, pubVars
<1>5. search[s] \in SearchStates /\ search[s].key <= revision
  BY DEF TypeOK, Known
<1>6. \/ Begin(s) /\ search'[s].key \in 0 .. revision
      \/ /\ RetrieveVectors(s) \/ RetrieveProfiles(s) \/ Filter(s)
         /\ search'[s].key = search[s].key /\ search[s].stage = "retrieve"
      \/ (Save(s) \/ Abandon(s)) /\ search'[s] = NoSearch
  <2>1. CASE Begin(s)
    BY <2>1 DEF Begin, TypeOK, NoSearch
  <2>2. CASE RetrieveVectors(s)
    BY <1>5, <2>2 DEF RetrieveVectors, TypeOK, SearchStates, Answered
  <2>3. CASE RetrieveProfiles(s)
    BY <1>5, <2>3 DEF RetrieveProfiles, TypeOK, SearchStates, Answered
  <2>4. CASE Filter(s)
    BY <1>5, <2>4 DEF Filter, TypeOK, SearchStates
  <2>5. CASE Save(s) \/ Abandon(s)
    BY <2>5 DEF Save, Abandon, TypeOK
  <2> QED
    BY <2>1, <2>2, <2>3, <2>4, <2>5 DEF SearchStep
<1>7. ASSUME Settled, search'[s].stage # "idle", search'[s].key = revision PROVE Partial(s)'
  <2>1. vector.shown /\ Searchable(registry)
    BY <1>7 DEF Settled, Coherent
  <2>2. CASE Begin(s)
    BY <1>4, <2>2 DEF Begin, Partial, NoSearch, Channels, TypeOK
  <2>3. ASSUME search[s].stage = "retrieve", search'[s].key = search[s].key PROVE Partial(s)
    BY <1>7, <2>3 DEF Current
  <2>4. CASE RetrieveVectors(s)
    <3>1. search[s].stage = "retrieve"
      BY <1>5, <2>4 DEF RetrieveVectors, Answered
    <3>2. /\ search'[s].key = search[s].key
          /\ search'[s].left = search[s].left \ {"vectors"}
          /\ search'[s].found.vector = vector.doc /\ search'[s].found.price = vector.price
          /\ search'[s].found.profile = search[s].found.profile
      BY <1>5, <2>1, <2>4 DEF RetrieveVectors, TypeOK, SearchStates, Findings
    <3>3. Partial(s)
      BY <2>3, <3>1, <3>2
    <3> QED
      BY <1>4, <3>2, <3>3 DEF Partial
  <2>5. CASE RetrieveProfiles(s)
    <3>1. search[s].stage = "retrieve"
      BY <1>5, <2>5 DEF RetrieveProfiles, Answered
    <3>2. /\ search'[s].key = search[s].key
          /\ search'[s].left = search[s].left \ {"profiles"}
          /\ search'[s].found.vector = search[s].found.vector
          /\ search'[s].found.price = search[s].found.price
          /\ search'[s].found.profile = profile
      BY <1>5, <2>1, <2>5 DEF RetrieveProfiles, TypeOK, SearchStates, Findings
    <3>3. Partial(s)
      BY <2>3, <3>1, <3>2
    <3> QED
      BY <1>4, <3>2, <3>3 DEF Partial
  <2>6. CASE Filter(s)
    BY <1>4, <1>5, <1>6, <2>1, <2>3, <2>6
       DEF Filter, Begin, Save, Abandon, NoSearch, Partial, TypeOK, SearchStates
  <2>7. CASE search'[s] = NoSearch
    BY <1>7, <2>7 DEF NoSearch
  <2> QED
    BY <1>6, <2>2, <2>4, <2>5, <2>6, <2>7
<1>8. Known'
  <2>1. receipts' = receipts
        \/ receipts' = [receipts EXCEPT ![search[s].key] = search[s].found]
    BY DEF SearchStep, Begin, RetrieveVectors, RetrieveProfiles, Filter, Save, Abandon
  <2>2. search[s].key \in Int
    BY <1>4, <1>5 DEF SearchStates
  <2>3. ASSUME NEW r \in Revisions, revision < r PROVE receipts'[r] = None
    BY <1>4, <1>5, <2>1, <2>2, <2>3 DEF TypeOK, Known
  <2>4. search'[s].key <= revision
    BY <1>4, <1>5, <1>6, Numbers DEF NoSearch, TypeOK, PubTypeOK
  <2> QED
    BY <1>3, <1>4, <2>3, <2>4 DEF Known
<1>9. ASSUME Settled PROVE receipts'[revision] \in {None, Fresh}
  <2>1. CASE Save(s) /\ receipts' # receipts
    <3>1. search[s].stage = "save" /\ search[s].left = {}
      BY <2>1 DEF Save, Answered
    <3>2. CASE search[s].key = revision
      <4>1. Partial(s)
        BY <1>9, <3>1, <3>2 DEF Current
      <4>2. search[s].found = Fresh
        BY <1>5, <3>1, <4>1 DEF Partial, Fresh, SearchStates, Findings
      <4> QED
        BY <1>4, <2>1, <3>2, <4>2 DEF Save, TypeOK
    <3>3. CASE search[s].key # revision
      BY <1>4, <1>9, <2>1, <3>3 DEF Save, TypeOK, Current
    <3> QED
      BY <3>2, <3>3
  <2>2. CASE receipts' = receipts
    BY <1>9, <2>2 DEF Current
  <2> QED
    BY <2>1, <2>2 DEF SearchStep, Begin, RetrieveVectors, RetrieveProfiles, Filter, Abandon
<1>10. Current'
  BY <1>2, <1>3, <1>4, <1>7, <1>9 DEF Current, Partial
<1>11. Answered'
  <2>1. search'[s].stage # "retrieve" => search'[s].left = {}
    <3>1. CASE Begin(s)
      BY <3>1 DEF Begin, NoSearch, TypeOK
    <3>2. CASE RetrieveVectors(s) \/ RetrieveProfiles(s)
      BY <1>5, <3>2 DEF RetrieveVectors, RetrieveProfiles, Answered, TypeOK, SearchStates
    <3>3. CASE Filter(s)
      BY <1>5, <3>3 DEF Filter, TypeOK, SearchStates
    <3>4. CASE search'[s] = NoSearch
      BY <3>4 DEF NoSearch
    <3> QED
      BY <1>6, <3>1, <3>2, <3>3, <3>4
  <2> QED
    BY <1>3, <2>1 DEF Answered
<1> QED
  BY <1>2, <1>8, <1>10, <1>11

LEMMA ExpiryKeeps ==
  ASSUME CacheInv, TypeOK', NEW r \in Revisions, ExpireReceipt(r) PROVE CacheInv'
BY DEF CacheInv, ExpireReceipt, pubVars, Owed, Settled, Coherent, Searchable, Known, Answered,
       Current, Partial, Fresh, TypeOK

-------------------------------------------------------------------------------
LEMMA SearchInit == Init => TypeOK
<1> SUFFICES ASSUME Init PROVE TypeOK
  OBVIOUS
<1>1. PubTypeOK
  BY InitInv DEF Init, Inv
<1>2. NoSearch \in SearchStates
  BY Numbers DEF NoSearch, SearchStates, Findings, Nothing, Revisions
<1> QED
  BY <1>1, <1>2 DEF Init, TypeOK

\* Types of searches and receipts, for any searches and texts.
THEOREM SearchTypeCorrect == Spec => []TypeOK
BY SearchInit, Types, PTL DEF Spec

\* Receipts under the current revision are what a search would find now, for any
\* searches and texts, also when the merchant restores one, and wherever runs are
\* cut short: the only cut that leaves an older receipt current is after the last
\* write and before the bump, and it does so until the shop's next bump
\* (indexProduct, saveSearchQueryCache).
THEOREM ReceiptsCurrent == Spec => []ReceiptsAreCurrent
<1>1. Init => CacheInv
  <2> SUFFICES ASSUME Init PROVE CacheInv
    OBVIOUS
  <2>1. TypeOK
    BY SearchInit
  <2>2. Owed /\ Answered
    BY DEF Init, PubInit, Owed, Answered, NoSearch
  <2>3. Known
    BY Numbers DEF Init, PubInit, Known, NoSearch
  <2>4. Current
    BY Numbers DEF Init, PubInit, Current, NoSearch, Revisions
  <2> QED
    BY <2>1, <2>2, <2>3, <2>4 DEF CacheInv
<1>2. CacheInv /\ [Next]_vars => CacheInv'
  <2> SUFFICES ASSUME CacheInv, [Next]_vars PROVE CacheInv'
    OBVIOUS
  <2>1. TypeOK'
    BY Types DEF CacheInv
  <2>2. CASE UNCHANGED vars
    BY <2>1, <2>2 DEF CacheInv, vars, Owed, Settled, Coherent, Searchable, Known, Answered,
                      Current, Partial, Fresh
  <2> QED
    BY <2>1, <2>2, PublicationKeeps, SearchKeeps, ExpiryKeeps DEF Next
<1>3. CacheInv => ReceiptsAreCurrent
  BY DEF CacheInv, Current, Settled, ReceiptsAreCurrent
<1> QED
  BY <1>1, <1>2, <1>3, PTL DEF Spec

\* Searches read the publication and never change it: what is proved of the
\* publication holds with searches beside it (handleSearch only reads the stores).
THEOREM SearchesOnlyRead == Spec => PubSpec
<1>1. Init => PubInit
  BY DEF Init
<1>2. [Next]_vars => [PubNext]_pubVars
  <2> SUFFICES ASSUME [Next]_vars PROVE [PubNext]_pubVars
    OBVIOUS
  <2>1. ASSUME NEW s \in Searches, SearchStep(s) PROVE UNCHANGED pubVars
    BY <2>1 DEF SearchStep, Begin, RetrieveVectors, RetrieveProfiles, Filter, Save, Abandon
  <2>2. ASSUME NEW r \in Revisions, ExpireReceipt(r) PROVE UNCHANGED pubVars
    BY <2>2 DEF ExpireReceipt
  <2>3. CASE UNCHANGED vars
    BY <2>3 DEF vars, pubVars
  <2> QED
    BY <2>1, <2>2, <2>3 DEF Next
<1> QED
  BY <1>1, <1>2, PTL DEF Spec, PubSpec
===============================================================================
