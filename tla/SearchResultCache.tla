--------------------------- MODULE SearchResultCache ---------------------------
(***************************************************************************)
(* search/search-result-cache.server.ts as routes/proxy.ai-search.ts uses  *)
(* it: storefront searches, and the receipts by which they share results.  *)
(*                                                                         *)
(* A search first reads the catalog revision and makes its cache key of    *)
(* it.  Then it retrieves, from stores that a run of ProductPublication    *)
(* may be changing meanwhile, and saves what it found under that key for a *)
(* day.  The revision it reads comes from the cache of its process:        *)
(* CatalogRevision says what that may be, here it is any revision so far.  *)
(*                                                                         *)
(* The searches are for one query, which the product answers.              *)
(***************************************************************************)
EXTENDS ProductPublication

CONSTANTS
  Searches,
  None

ASSUME SearchAssumption == None \notin Prices

VARIABLES
  search,     \* search[s]: where s stands, its key, what it has found
  receipts    \* receipts[r]: what is saved under the key of revision r

vars == <<shopify, vector, profile, registry, revision, run, lostBump, search, receipts>>

Revisions == 0 .. MaxRevision

\* The evidence by which the product was found: the text and price of its
\* vector, the text of its profile.
Findings == [vector : Texts, price : Prices \union {None}, profile : Texts]
Nothing  == [vector |-> 0, price |-> None, profile |-> 0]

Channels == {"vectors", "profiles"}

\* left: the channels whose answers are still to come.
SearchStates == [stage : {"idle", "retrieve", "save"}, key : Revisions,
                 left : SUBSET Channels, found : Findings]

NoSearch == [stage |-> "idle", key |-> 0, left |-> {}, found |-> Nothing]

TypeOK ==
  /\ PubTypeOK
  /\ search \in [Searches -> SearchStates]
  /\ receipts \in [Revisions -> Findings \union {None}]

Init ==
  /\ PubInit
  /\ search = [s \in Searches |-> NoSearch]
  /\ receipts = [r \in Revisions |-> None]

-------------------------------------------------------------------------------

\* buildSearchQueryCacheIdentity and getSearchQueryCache: the key is made of a
\* revision that may be older than MySQL's.  A receipt under it, filtered by the
\* registry, would answer the search; otherwise the search retrieves.
Begin(s) ==
  /\ search[s].stage = "idle"
  /\ \E r \in 0 .. revision :
       /\ receipts[r] = None
       /\ search' = [search EXCEPT ![s] = [NoSearch EXCEPT !.stage = "retrieve",
                                             !.key = r, !.left = Channels]]
  /\ UNCHANGED <<receipts, pubVars>>

\* Qdrant, restricted to searchable points.
RetrieveVectors(s) ==
  /\ "vectors" \in search[s].left
  /\ search' = [search EXCEPT ![s].left = @ \ {"vectors"},
                  ![s].found = IF vector.shown
                               THEN [@ EXCEPT !.vector = vector.doc, !.price = vector.price]
                               ELSE @]
  /\ UNCHANGED <<receipts, pubVars>>

\* The structured and lexical channels: profiles of searchable rows.
RetrieveProfiles(s) ==
  /\ "profiles" \in search[s].left
  /\ search' = [search EXCEPT ![s].left = @ \ {"profiles"},
                  ![s].found.profile = IF Searchable(registry) THEN profile ELSE 0]
  /\ UNCHANGED <<receipts, pubVars>>

\* filterCandidatesAgainstRegistry
Filter(s) ==
  /\ search[s].stage = "retrieve"
  /\ search[s].left = {}
  /\ search' = [search EXCEPT ![s].stage = "save",
                  ![s].found = IF Searchable(registry) THEN @ ELSE Nothing]
  /\ UNCHANGED <<receipts, pubVars>>

\* saveSearchQueryCache, under the key made before the retrieval.  Nothing is
\* saved of a fallback, of an empty result without a proof, or when the call
\* fails.
Save(s) ==
  /\ search[s].stage = "save"
  /\ \/ receipts' = [receipts EXCEPT ![search[s].key] = search[s].found]
     \/ UNCHANGED receipts
  /\ search' = [search EXCEPT ![s] = NoSearch]
  /\ UNCHANGED pubVars

\* The search fails or its process dies.
Abandon(s) ==
  /\ search[s].stage # "idle"
  /\ search' = [search EXCEPT ![s] = NoSearch]
  /\ UNCHANGED <<receipts, pubVars>>

\* Housekeeping deletes the receipts of yesterday.
ExpireReceipt(r) ==
  /\ receipts[r] # None
  /\ receipts' = [receipts EXCEPT ![r] = None]
  /\ UNCHANGED <<search, pubVars>>

SearchStep(s) ==
  \/ Begin(s) \/ RetrieveVectors(s) \/ RetrieveProfiles(s) \/ Filter(s)
  \/ Save(s) \/ Abandon(s)

Next ==
  \/ PubNext /\ UNCHANGED <<search, receipts>>
  \/ \E s \in Searches : SearchStep(s)
  \/ \E r \in Revisions : ExpireReceipt(r)

Spec == Init /\ [][Next]_vars

-------------------------------------------------------------------------------
(* Properties *)

\* What a search finds now, if no step comes in between.
Fresh == [vector |-> vector.doc, price |-> vector.price, profile |-> profile]

\* When no run is in progress and the stores hold one published text, a receipt
\* under the current revision is what a search would find now: the bump of
\* indexProduct retires every result from before and during the publication.  A
\* run may be cut short anywhere; only where that was after its last write and
\* before its bump do older receipts stay, and only until the shop's next bump.
ReceiptsAreCurrent ==
  run = Idle /\ Coherent(vector, profile, registry) /\ ~lostBump
    => receipts[revision] \in {None, Fresh}
==============================================================================
