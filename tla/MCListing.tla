----------------------------- MODULE MCListing -----------------------------
(* A small instance of Listing for TLC. *)
EXTENDS Listing

\* Without a size, and with refused, small and too large ones.
Sizes == {-1, 0, 1, 4}
=============================================================================
