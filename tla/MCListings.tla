----------------------------- MODULE MCListings -----------------------------
(* Listings for TLC: which of its sets are interchangeable. *)
EXTENDS Listings, TLC

Symmetric == Permutations(Requests) \union Permutations(Keys) \union Permutations(Contents)
                \union Permutations(Ids)
=============================================================================
