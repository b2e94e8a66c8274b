--------------------------- MODULE MCBillingState ---------------------------
(* Two subscriptions, a storefront and one other caller, for TLC. *)
EXTENDS BillingState, TLC

TwoSubs == 1..2
===============================================================================
