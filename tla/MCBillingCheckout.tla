-------------------------- MODULE MCBillingCheckout --------------------------
(* BillingCheckout on small instances: see the .cfg files for their sizes.  *)
EXTENDS BillingCheckout, TLC

CONSTANTS
    Old, New,           \* credits
    First, Second,      \* invoices
    Free, Paid, Other   \* subscriptions

Order == [c \in Credits |-> IF c = Old THEN 1 ELSE 2]
Symmetry == Permutations(Workers)
Bonus == [c \in Credits |-> 1]
=============================================================================
