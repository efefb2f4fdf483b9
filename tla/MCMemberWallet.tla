--------------------------- MODULE MCMemberWallet ---------------------------
(* MemberWallet on small instances: see the .cfg files for their sizes.     *)
EXTENDS MemberWallet

CONSTANTS
    Ann, Ben,                   \* members
    AnnToBen, BenToAnn,
    Gift, Topup,                \* a contribution, a deposit
    Cash, Fare, Rent            \* withdrawals

\* Ann has all the money at first and withdraws once; Ben withdraws twice, and
\* his deposit comes in beside that.
Requester == [r \in Requests |-> IF r \in {AnnToBen, Gift, Cash} THEN Ann ELSE Ben]
Recipient == [t \in Transfers |-> IF t = BenToAnn THEN Ann ELSE Ben]
\* Ann's withdrawal is of two units, everything else of one.
Sums == [r \in Requests |-> IF r = Cash THEN 2 ELSE 1]
Savings == [m \in Members |-> IF m = Ann THEN 2 ELSE 0]
=============================================================================
