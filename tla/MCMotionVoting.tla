---------------------------- MODULE MCMotionVoting ----------------------------
(* MotionVoting on small instances: see the .cfg files for their sizes.     *)
EXTENDS MotionVoting, TLC

Symmetry == Permutations(Members) \cup Permutations(Workers)
=============================================================================
