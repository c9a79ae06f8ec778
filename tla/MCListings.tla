----------------------------- MODULE MCListings -----------------------------
(* Small instances of Listings and Catalog for TLC. *)
EXTENDS Listings, TLC

MCAmount == {1, 2}

Symmetry ==
  Permutations(Handler) \cup Permutations(Code) \cup Permutations(Country)
=============================================================================
