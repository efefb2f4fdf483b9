---------------------------- MODULE WalletPromise ----------------------------
(***************************************************************************)
(* What the member wallets promise, whatever the code goes through to keep *)
(* it: a request moves its amount once, all of it, between the two         *)
(* accounts it names, and only money that is there.  Some requests may     *)
(* spoil the wallets they name, whose balance is then not kept any more;   *)
(* every other wallet is still exact.                                      *)
(***************************************************************************)
EXTENDS Naturals

CONSTANTS
    Requests,   \* idempotency keys of requests
    Source,     \* where a request takes its money: a wallet, or outside them
    Target,     \* where it brings it
    Amount,     \* how much
    Fragile,    \* requests that may spoil a wallet
    Start       \* what every wallet begins with

VARIABLES
    balance,    \* money in each wallet that is kept
    done        \* requests that have moved their money

Init ==
    /\ balance = Start
    /\ done = {}

Kept == DOMAIN balance

Afforded(r) == Source[r] \in Kept => balance[Source[r]] >= Amount[r]

Moved(r) ==
    [a \in Kept |->
        CASE a = Source[r] -> balance[a] - Amount[r]
          [] a = Target[r] -> balance[a] + Amount[r]
          [] OTHER         -> balance[a]]

Move(r) ==
    /\ r \notin done
    /\ Afforded(r)
    /\ balance' = Moved(r)
    /\ done' = done \cup {r}

Spoil(r) ==
    /\ r \in Fragile
    /\ balance' = [a \in Kept \ {Source[r], Target[r]} |-> balance[a]]
    /\ done' = done \cup {r}

Next == \E r \in Requests : Move(r) \/ Spoil(r)

Spec == Init /\ [][Next]_<<balance, done>>
=============================================================================
