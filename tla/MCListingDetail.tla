-------------------------- MODULE MCListingDetail --------------------------
(* ListingDetailPage for TLC. *)
EXTENDS ListingDetailPage

\* Listing a has two photos, b one.
TwoAndOne(l) == IF l = "a" THEN 2 ELSE 1
=============================================================================
