--------------------------- MODULE MCPaymentIntake ---------------------------
(* PaymentIntake on small instances: see the .cfg files for their sizes.    *)
EXTENDS PaymentIntake, TLC

CONSTANT ThePenalty

\* Every fine intent of an instance pays the same penalty.
OnePenalty == {ThePenalty}
PaysThePenalty == [i \in Fines |-> ThePenalty]

Symmetry == Permutations(Workers) \cup Permutations(Desk)
==============================================================================
