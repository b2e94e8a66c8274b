-------------------------- MODULE MCSearchResultCache --------------------------
(* One search beside the publication of one product, for TLC. *)
EXTENDS SearchResultCache

\* Receipts under an older revision answer searches that began with it and
\* change nothing else: they may as well expire before the revision advances.
MCBound == \A r \in Revisions : r < revision => receipts[r] = None
==============================================================================
