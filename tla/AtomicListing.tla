----------------------------- MODULE AtomicListing -----------------------------
(***************************************************************************)
(* What the publication of a product promises to those who search the      *)
(* shop, as if the product lived in one place and were written at once.    *)
(* It is listed under one text, as a whole, or it is not listed; what is   *)
(* listed was prepared from a text that Shopify had by then; and texts     *)
(* never go back, not even across a time when the product was not listed.  *)
(***************************************************************************)
EXTENDS Naturals

CONSTANT Docs       \* the product's texts, in order of edition

VARIABLES edition,  \* the text in Shopify
          prepared, \* the text made ready for listing; 0: none yet
          listed    \* the texts a search may find the product by

vars == <<edition, prepared, listed>>

Init ==
  /\ edition \in Docs
  /\ prepared = 0
  /\ listed = {}

\* The merchant edits the product.
Edit ==
  /\ \E d \in Docs : edition <= d /\ edition' = d
  /\ UNCHANGED <<prepared, listed>>

\* A text is embedded and stored; the product stays listed as it was.
Prepare ==
  /\ \E d \in Docs : prepared <= d /\ d <= edition /\ prepared' = d
  /\ UNCHANGED <<edition, listed>>

\* From one step to the next every search finds the prepared text.
List ==
  /\ prepared \in Docs
  /\ listed' = {prepared}
  /\ UNCHANGED <<edition, prepared>>

Withdraw ==
  /\ listed' = {}
  /\ UNCHANGED <<edition, prepared>>

Next == Edit \/ Prepare \/ List \/ Withdraw

Spec == Init /\ [][Next]_vars
================================================================================
