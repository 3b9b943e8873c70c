--------------------------- MODULE MCListingContent --------------------------
(* Finite instances of ListingContent. *)
EXTENDS ListingContent, TLC
=============================================================================
