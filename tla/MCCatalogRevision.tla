-------------------------- MODULE MCCatalogRevision --------------------------
EXTENDS CatalogRevision, TLC

CONSTANTS p1, p2, c1, c2, c3

\* Two calls in the process whose bumps race with them, one in another.
Server == c1 :> p1 @@ c2 :> p1 @@ c3 :> p2
==============================================================================
