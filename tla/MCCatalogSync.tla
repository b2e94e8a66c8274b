---------------------------- MODULE MCCatalogSync ----------------------------
(* A catalog that is on sale as a whole when it is first scanned.            *)
EXTENDS CatalogSync, TLC

MCSymmetry == Permutations(Workers)
MCInit == Init /\ store = [p \in Products |-> "LIVE"]
MCBound == used.edits + used.stalls + 2 * used.retries <= 2
MCSpec == MCInit /\ [][Next]_vars
==============================================================================
