--------------------------- MODULE MCLoanServicing ---------------------------
(* LoanServicing on small instances: see the .cfg files for their sizes.    *)
EXTENDS LoanServicing, TLC

Symmetry == Permutations(Receipts) \cup Permutations(Workers)
=============================================================================
