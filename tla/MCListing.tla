----------------------------- MODULE MCListing ------------------------------
(* Small instances of Listing for TLC, in halves: numbers around the       *)
(* boundaries of the page arithmetic, some of them negative, and those     *)
(* that are no page and no size at all.                                    *)
EXTENDS Listing, TLC

MCRole == {"admin"}
MCInput == {-4, -1, 0, 1, 2, 3, 4, 6} \cup Infinite
MCWholeInput == {2, 4, 6}

Symmetry == Permutations(Id) \cup Permutations(Email)

=============================================================================
