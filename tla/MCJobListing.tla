---------------------------- MODULE MCJobListing ----------------------------
(* Small instances of the job listing for TLC. *)
EXTENDS JobListing, TLC

CONSTANTS j1, j2, j3, j4, k1

FiveJobs   == {j1, j2, j3, j4, k1}
OneForeign == {k1}

\* Ints are -8..7; a 4 and a 5 have a product that wraps to 0.
SomeTexts  == {NoNumber, -9, 0, 1, 4, 5, 9}
OneOrTwo   == {1, 2}

ListingSymmetry == Permutations({j1, j2, j3, j4})
=============================================================================
