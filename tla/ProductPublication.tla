-------------------------- MODULE ProductPublication --------------------------
(***************************************************************************)
(* products/product-indexer.server.ts and the unpublish branch of          *)
(* products/product-webhook-sync.server.ts: how one product of a shop is   *)
(* published to the storefront search.                                     *)
(*                                                                         *)
(* The product lives in three places that share no transaction: the vector *)
(* point in Qdrant, the semantic profile and the registry row in MySQL.    *)
(* A run writes them one by one, and the last thing it does is to advance  *)
(* the shop's catalog revision, from which the keys of cached search       *)
(* results are made.  Every call may fail, applied or not, and the process *)
(* may die between any two; the durable job then runs again.               *)
(*                                                                         *)
(* Runs for the product do not overlap (withProductSyncLock).  The shop    *)
(* has a plan slot and vector updates left.                                *)
(***************************************************************************)
EXTENDS Naturals

CONSTANTS
  Docs,         \* the product's texts, positive numbers in order of edition
  Prices,
  Reverts,      \* may the merchant restore an earlier text?
  MaxRevision   \* bound: the revision is not advanced beyond it

ASSUME PublicationAssumption ==
  /\ Docs \subseteq Nat \ {0}
  /\ Docs # {}
  /\ Prices # {}
  /\ Reverts \in BOOLEAN
  /\ MaxRevision \in Nat

VARIABLES
  shopify,   \* the product as Shopify returns it
  vector,    \* the Qdrant point; doc 0: there is none
  profile,   \* the text the semantic profile was made of; 0: no profile
  registry,  \* the row of AiSearchIndexedProduct
  revision,  \* catalogRevision of AiSearchShopSettings
  run,       \* the run in progress, at the call it makes next
  lostBump   \* history: a run was cut short, everything published, before its
             \* bump, and the revision was not advanced since

pubVars == <<shopify, vector, profile, registry, revision, run, lostBump>>

Texts == Docs \union {0}

Statuses == {"NONE", "PRODUCT_SLOT_RESERVED", "STAGING", "READY", "UNPUBLISHED"}

Modes == {"index", "skip", "repair", "unpublish"}

Steps == {"read", "slot", "vector", "release", "stage", "profile",
          "source", "show", "publish", "mark", "hide", "bump"}

\* slot: it inserted a slot reservation; due: it owes the revision a bump.
Runs == [step : Steps, mode : Modes, doc : Texts, price : Prices,
         slot : BOOLEAN, due : BOOLEAN]

\* status STAGING and READY stand for INDEXED with that vectorStatus; the row
\* is searchable exactly when READY.
Rows == [status : Statuses, doc : Texts, source : Texts, hasVector : BOOLEAN]

NoRow == [status |-> "NONE", doc |-> 0, source |-> 0, hasVector |-> FALSE]

Searchable(row) == row.status = "READY"

NewRun(step, mode) ==
  [step |-> step, mode |-> mode, doc |-> shopify.doc, price |-> shopify.price,
   slot |-> FALSE, due |-> FALSE]

\* No run in progress.
Idle == [step |-> "idle"]

PubTypeOK ==
  /\ shopify \in [doc : Docs, price : Prices, active : BOOLEAN]
  /\ vector \in [doc : Texts, price : Prices, shown : BOOLEAN]
  /\ profile \in Texts
  /\ registry \in Rows
  /\ revision \in 0 .. MaxRevision
  /\ run \in Runs \union {Idle}
  /\ lostBump \in BOOLEAN

PubInit ==
  \E d \in Docs, c \in Prices :
    /\ \A e \in Docs : d <= e
    /\ shopify = [doc |-> d, price |-> c, active |-> TRUE]
    /\ vector = [doc |-> 0, price |-> c, shown |-> FALSE]
    /\ profile = 0
    /\ registry = NoRow
    /\ revision = 0
    /\ run = Idle
    /\ lostBump = FALSE

-------------------------------------------------------------------------------
(* Calls and their failures *)

\* A call returns; is applied but reported as failed; or fails unapplied.
Outcomes == {"done", "applied", "refused"}

\* The stores agree on one published text: a run that reads them finds nothing
\* to refresh.
Coherent(v, prof, row) ==
  /\ v.shown
  /\ Searchable(row)
  /\ {prof, row.doc, row.source} = {v.doc}

\* The run ends without the bump it owes, and leaves nothing for its successor to
\* refresh, so that none of them will make it.
LosesBump ==
  /\ run' = Idle
  /\ run.due \/ <<vector, profile, registry>>' # <<vector, profile, registry>>
  /\ Coherent(vector', profile', registry')
  /\ revision' = revision

NoteLoss(cutShort) ==
  lostBump' = IF cutShort /\ LosesBump THEN TRUE
              ELSE IF revision' # revision THEN FALSE ELSE lostBump

Goto(step) == [run EXCEPT !.step = step]

\* Where an exception leads: to the catch blocks of indexProduct once the vector
\* is written, to the end of the run elsewhere.
Caught ==
  CASE run.mode = "index" /\ run.step \notin {"slot", "vector", "release"}
         -> [Goto("stage") EXCEPT !.mode = "repair"]
    [] run.mode = "repair" /\ run.step = "stage" -> Goto("profile")
    [] run.mode = "repair" /\ run.step \in {"profile", "source", "show", "publish"}
         -> Goto("hide")
    [] run.mode = "repair" /\ run.step = "hide" -> Goto("bump")
    [] OTHER -> Idle

\* The run goes on, and what it has changed will need a bump.
Owing(r) == IF r = Idle THEN Idle ELSE [r EXCEPT !.due = TRUE]

After(o, next) == IF o = "done" THEN Goto(next) ELSE Caught

\* After the last write: the bump, if one is owed.
AfterWrites(o, owed) ==
  CASE o # "done" -> Caught
    [] o = "done" /\ owed -> [Goto("bump") EXCEPT !.due = TRUE]
    [] OTHER -> Idle

-------------------------------------------------------------------------------
(* indexProduct *)

\* The job fetches the product; Shopify returns null for an inactive one.
Fetch ==
  /\ run = Idle
  /\ run' = IF shopify.active
            THEN NewRun("read", "index")
            ELSE NewRun("mark", "unpublish")
  /\ UNCHANGED <<shopify, vector, profile, registry, revision, lostBump>>

ProfileStale  == registry.source # run.doc
PayloadStale  == vector.price # run.price \/ ~vector.shown
RegistryStale == ~Searchable(registry) \/ registry.doc # run.doc

\* Mutant: the point is shown before the profile is written.
FirstRefresh_ShowFirst ==
  IF PayloadStale THEN "show" ELSE IF ProfileStale THEN "profile" ELSE "publish"

\* What a run that does not embed has to do first.
FirstRefresh ==
  IF ProfileStale THEN "profile" ELSE IF PayloadStale THEN "show" ELSE "publish"

\* The reads of all three stores, and the choice they make: an unchanged text is
\* not embedded again unless its enrichment is due.
ReadStores ==
  /\ run.step = "read"
  /\ \/ run' = Idle   \* one of them fails
     \/ \E enrichmentDue \in BOOLEAN :
       /\ enrichmentDue => registry.hasVector
       /\ LET skips == vector.doc = run.doc /\ ~enrichmentDue
              first == IF ~Searchable(registry) THEN "slot"
                       ELSE IF skips THEN FirstRefresh
                       ELSE "vector"
          IN run' = [run EXCEPT !.step = first,
                                !.mode = IF skips THEN "skip" ELSE "index"]
  /\ UNCHANGED <<shopify, vector, profile, registry, revision, lostBump>>

\* reserveProductSlot: a plan without a limit takes no row.
ReserveSlot ==
  /\ run.step = "slot"
  /\ \E o \in Outcomes, limited \in BOOLEAN :
       LET inserts == limited /\ registry.status \in {"NONE", "UNPUBLISHED"}
           next == IF run.mode = "skip"
                   THEN FirstRefresh
                   ELSE "vector"
       IN /\ registry' = IF inserts /\ o # "refused"
                         THEN [registry EXCEPT !.status = "PRODUCT_SLOT_RESERVED",
                                               !.doc = run.doc]
                         ELSE registry
          /\ run' = IF o = "done"
                    THEN [Goto(next) EXCEPT !.slot = inserts]
                    ELSE Idle
  /\ UNCHANGED <<shopify, vector, profile, revision, lostBump>>

\* Mutant: the point is visible before registry and profile are durable.
WrittenVector_Shown ==
  [doc |-> run.doc, price |-> run.price, shown |-> TRUE]

WrittenVector == [doc |-> run.doc, price |-> run.price, shown |-> FALSE]

\* The embedding and the point, first phase: hidden.  A call that follows, the
\* mark of the reservation, may fail too.  The usage itself is UsageReservation.
WriteVector ==
  /\ run.step = "vector"
  /\ \E o \in Outcomes :
       /\ vector' = IF o = "refused" THEN vector ELSE WrittenVector
       /\ IF o = "done"
          THEN \E mode \in {"index", "repair"} :
                 run' = [Goto("stage") EXCEPT !.mode = mode, !.due = TRUE, !.slot = FALSE]
          ELSE run' = IF run.slot THEN Goto("release") ELSE Idle
  /\ UNCHANGED <<shopify, profile, registry, revision, lostBump>>

\* releaseProductSlotReservation; with the row goes its profile (ON DELETE).
ReleaseSlot ==
  /\ run.step = "release"
  /\ \/ /\ registry.status = "PRODUCT_SLOT_RESERVED"
        /\ ~registry.hasVector
        /\ registry' = NoRow
        /\ profile' = 0
     \/ UNCHANGED <<registry, profile>>
  /\ run' = Idle
  /\ UNCHANGED <<shopify, vector, revision, lostBump>>

\* stageIndexedProductVectorUpdate
Stage ==
  /\ run.step = "stage"
  /\ \E o \in Outcomes :
       /\ registry' = IF o = "refused" THEN registry
                      ELSE [registry EXCEPT !.status = "STAGING", !.doc = run.doc,
                                            !.hasVector = TRUE]
       /\ run' = After(o, "profile")
  /\ UNCHANGED <<shopify, vector, profile, revision, lostBump>>

\* replaceProductShopContextWithTerms, replaceProductWithDeterministicShopContext;
\* a profile belongs to a row (foreign key).
WriteProfile ==
  /\ run.step = "profile"
  /\ \E o \in Outcomes :
       /\ registry.status = "NONE" => o = "refused"
       /\ profile' = IF o = "refused" THEN profile ELSE run.doc
       /\ run' = Owing(After(o, "source"))
  /\ UNCHANGED <<shopify, vector, registry, revision, lostBump>>

\* updateIndexedProductEnrichmentState, markIndexedProductSemanticSourceChanged
WriteSource ==
  /\ run.step = "source"
  /\ UNCHANGED <<shopify, vector, profile, revision>>
  /\ \E o \in Outcomes :
       /\ registry' = IF o = "refused" \/ registry.status = "NONE" THEN registry
                      ELSE [registry EXCEPT !.source = run.doc]
       /\ run' = Owing(After(o, IF run.mode = "skip" /\ ~PayloadStale
                                THEN "publish" ELSE "show"))
       /\ NoteLoss(o # "done")

\* updateProductVectorPayloadByPointId, searchable: true
ShowVector ==
  /\ run.step = "show"
  /\ UNCHANGED <<shopify, profile, registry, revision>>
  /\ \E o \in Outcomes :
       /\ vector' = IF o = "refused" THEN vector
                    ELSE [vector EXCEPT !.shown = TRUE, !.price = run.price]
       /\ run' = Owing(After(o, "publish"))
       /\ NoteLoss(o # "done")

\* upsertIndexedProduct
PublishedRow == [registry EXCEPT !.status = "READY", !.doc = run.doc,
                                 !.hasVector = TRUE]

\* Mutant: a row that was left in STAGING is no reason to bump.
OwesBump_NoRegistry == run.due

OwesBump == run.due \/ RegistryStale

Publish ==
  /\ run.step = "publish"
  /\ UNCHANGED <<shopify, vector, profile, revision>>
  /\ \E o \in Outcomes :
       /\ registry' = IF o = "refused" THEN registry ELSE PublishedRow
       /\ run' = AfterWrites(o, OwesBump)
       /\ NoteLoss(o # "done")

\* markIndexedProductUnpublished tells whether it changed the row.
MarkUnpublished ==
  /\ run.step = "mark"
  /\ \E o \in Outcomes :
       LET changes == registry.status \notin {"NONE", "UNPUBLISHED"}
       IN /\ registry' = IF changes /\ o # "refused"
                         THEN [registry EXCEPT !.status = "UNPUBLISHED"]
                         ELSE registry
          /\ run' = IF o = "done" THEN [Goto("hide") EXCEPT !.due = changes] ELSE Idle
  /\ UNCHANGED <<shopify, vector, profile, revision, lostBump>>

\* searchable: false, by the unpublish branch and by a repair that failed.
HideVector ==
  /\ run.step = "hide"
  /\ \E o \in Outcomes :
       /\ vector' = IF o = "refused" THEN vector ELSE [vector EXCEPT !.shown = FALSE]
       /\ run' = AfterWrites(o, run.due)
  /\ UNCHANGED <<shopify, profile, registry, revision, lostBump>>

\* The UPDATE of bumpSearchRevision.
Bump ==
  /\ run.step = "bump"
  /\ revision < MaxRevision
  /\ UNCHANGED <<shopify, vector, profile, registry>>
  /\ \E o \in Outcomes :
       /\ revision' = IF o = "refused" THEN revision ELSE revision + 1
       /\ run' = IF o = "done" THEN Idle ELSE Caught
       /\ NoteLoss(o # "done")

\* The process dies.
Stop ==
  /\ run # Idle
  /\ run' = Idle
  /\ UNCHANGED <<shopify, vector, profile, registry, revision>>
  /\ NoteLoss(TRUE)

-------------------------------------------------------------------------------
(* The merchant, and the other products of the shop *)

Edit ==
  /\ \E d \in Docs, c \in Prices, a \in BOOLEAN :
       /\ Reverts \/ d >= shopify.doc
       /\ shopify' = [doc |-> d, price |-> c, active |-> a]
  /\ UNCHANGED <<vector, profile, registry, revision, run, lostBump>>

BumpElsewhere ==
  /\ revision < MaxRevision
  /\ revision' = revision + 1
  /\ lostBump' = FALSE
  /\ UNCHANGED <<shopify, vector, profile, registry, run>>

RunStep ==
  \/ Fetch \/ ReadStores \/ ReserveSlot \/ WriteVector \/ ReleaseSlot
  \/ Stage \/ WriteProfile \/ WriteSource \/ ShowVector \/ Publish
  \/ MarkUnpublished \/ HideVector \/ Bump \/ Stop

PubNext == RunStep \/ Edit \/ BumpElsewhere

PubSpec == PubInit /\ [][PubNext]_pubVars

\* What a search shows of the product was published as a whole: the vector and
\* the profile it is found by, and the row it is filtered by, are of one text;
\* only a repair that could not stage the row shows an older row for a moment.
FailClosed ==
  Searchable(registry) =>
    /\ vector.shown => profile = vector.doc
    /\ profile >= registry.doc

\* The texts a search may find the product by: that of its profile, if the row
\* is searchable, and that of its vector, if the point is shown too.
FoundBy == IF Searchable(registry)
           THEN {profile} \union (IF vector.shown THEN {vector.doc} ELSE {})
           ELSE {}

\* The publication seen through its searches, for AtomicListing.
Listing == INSTANCE AtomicListing WITH
  edition  <- shopify.doc,
  prepared <- vector.doc,
  listed   <- FoundBy

\* Three stores that are written one by one, by runs that fail and die, look to
\* a search like one that is written at once: it lists one whole text, no older
\* than any it listed before (indexProduct, its repair, the unpublish branch).
ImplementsListing == Listing!Spec
==============================================================================
