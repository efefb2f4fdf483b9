----------------------------- MODULE MCB2CPayout -----------------------------
(* B2CPayout on small instances: see the .cfg files for their sizes.        *)
EXTENDS B2CPayout, TLC

\* Conversations, and requests served by users, are interchangeable.
Symmetry == Permutations(Conversations) \cup Permutations(Workers \ {Sweeper})
==============================================================================
