--------------------------- MODULE MCMpesaDeposit ---------------------------
(* MpesaDeposit on small instances: see the .cfg files for their sizes.     *)
EXTENDS MpesaDeposit, TLC

Symmetry == Permutations(Checkouts) \cup Permutations(TransIds) \cup Permutations(Workers)
=============================================================================
