----------------------------- MODULE MCListing -----------------------------
(* A small instance of Listing: up to three pages of two.                  *)
EXTENDS Listing, TLC

CONSTANTS c1, c2, c3, c4, c5

MCContents == {c1, c2, c3, c4, c5}
Symmetry == Permutations(Contents)

=============================================================================
