--------------------------- MODULE MCProductSyncJob ---------------------------
(* Symmetric workers, and webhooks where none of them may be retried, for TLC. *)
EXTENDS ProductSyncJob, TLC

WorkerSymmetry == Permutations(Workers)
FullSymmetry   == Permutations(Workers) \union Permutations(Hooks)
===============================================================================
