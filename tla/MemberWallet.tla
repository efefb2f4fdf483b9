----------------------------- MODULE MemberWallet -----------------------------
(***************************************************************************)
(* The wallets of members (src/apps/finance/member_wallet_workflow.py):    *)
(* transfers between members, contributions to the chama's wallet,         *)
(* withdrawals, which lock their amount until they complete, and deposits, *)
(* which a payment's callback posts (src/apps/payments/unified_services.py).*)
(*                                                                         *)
(* A request is one database transaction.  It locks rows one by one        *)
(* (select_for_update), so two requests may wait for each other, and the   *)
(* database then breaks one of them off.  What it reads under its locks    *)
(* cannot change, so its reads and writes are one step when the locks are  *)
(* held; what it reads before its locks is kept in work.                   *)
(***************************************************************************)
EXTENDS Integers, Sequences, FiniteSets, FiniteSetsExt

CONSTANTS
    Members,
    Chama,          \* the owner of the chama's wallet
    Transfers,      \* idempotency keys of transfers
    Contributions,  \* idempotency keys of contributions from the wallet
    Withdrawals,    \* payment intents of withdrawals
    Deposits,       \* payment intents of deposits whose money has arrived
    By,             \* the member a request belongs to
    To,             \* the member a transfer goes to
    Amount,         \* the amount of a request
    Opening,        \* available balance of a member at the start
    MinRemaining,   \* MIN_REMAINING_WALLET_BALANCE
    Stub,           \* settings.MPESA_USE_STUB
    Workers,        \* processes that serve requests
    None

Requests == Transfers \cup Contributions \cup Withdrawals \cup Deposits

ASSUME WalletAssumption ==
    /\ By \in [Requests -> Members]
    /\ To \in [Transfers -> Members]
    /\ \A t \in Transfers : To[t] # By[t]
    /\ Amount \in [Requests -> Nat \ {0}]
    /\ Opening \in [Members -> Nat]
    /\ MinRemaining \in Nat
    /\ Stub \in BOOLEAN
    /\ Chama \notin Members
    /\ None \notin Requests \cup Members \cup {Chama}
    /\ Transfers \cap (Contributions \cup Withdrawals \cup Deposits) = {}
    /\ Contributions \cap (Withdrawals \cup Deposits) = {}
    /\ Withdrawals \cap Deposits = {}

VARIABLES
    avail,      \* Wallet.available_balance of members
    locked,     \* Wallet.locked_balance of members
    pot,        \* Wallet.available_balance of the chama
    status,     \* PaymentIntent.status of withdrawals
    entries,    \* LedgerEntry rows with status success
    work,       \* what each worker is doing
    astray      \* history: members whose wallet a stale save has hit

vars == <<avail, locked, pot, status, entries, work, astray>>

WithdrawalStatus == {"none", "PENDING", "SUCCESS"}

\* A ledger entry; its key is the idempotency_key, unique in a chama.
Key == {"debit", "credit", "contribution-debit", "wallet-withdrawal", "wallet-topup"}
Entry == [key : Key, of : Requests, wallet : Members \cup {Chama},
          direction : {"debit", "credit"}]

\* read: the deposit has read the balance in seen; holds: row locks taken.
Job == [of      : Requests \cup {None},
        refresh : BOOLEAN,
        read    : BOOLEAN,
        seen    : Nat,
        holds   : 0..3]

Idle == [of |-> None, refresh |-> FALSE, read |-> FALSE, seen |-> 0, holds |-> 0]

TypeOK ==
    /\ avail \in [Members -> Nat]
    /\ locked \in [Members -> Nat]
    /\ pot \in Nat
    /\ status \in [Withdrawals -> WithdrawalStatus]
    /\ entries \subseteq Entry
    /\ work \in [Workers -> Job]
    /\ astray \subseteq Members

Init ==
    /\ avail = Opening
    /\ locked = [m \in Members |-> 0]
    /\ pot = 0
    /\ status = [x \in Withdrawals |-> "none"]
    /\ entries = {}
    /\ work = [w \in Workers |-> Idle]
    /\ astray = {}

-----------------------------------------------------------------------------
(* Row locks.                                                              *)

Wallet(a) == <<"wallet", a>>
\* Selecting the recipient's membership FOR UPDATE with its user locks both.
User(m) == <<"user", m>>
Intent(x) == <<"intent", x>>

\* Rows a request locks, in the order of the code.
Plan(r) ==
    IF r \in Transfers THEN <<User(To[r]), Wallet(By[r]), Wallet(To[r])>>
    ELSE IF r \in Contributions THEN <<Wallet(By[r]), Wallet(Chama)>>
    ELSE <<Wallet(By[r])>>

PlanOf(job) ==
    IF job.refresh THEN <<Intent(job.of), Wallet(By[job.of])>> ELSE Plan(job.of)

Held(w) ==
    IF work[w] = Idle THEN {} ELSE {PlanOf(work[w])[i] : i \in 1..work[w].holds}

LocksLeft(w) == work[w].holds < Len(PlanOf(work[w]))

\* The next row w needs.  At the end it is its own user, which its new rows
\* refer to: foreign keys are checked when the transaction commits.
Wanted(w) ==
    IF LocksLeft(w) THEN PlanOf(work[w])[work[w].holds + 1] ELSE User(By[work[w].of])

Waits(w, v) == v # w /\ work[w] # Idle /\ Wanted(w) \in Held(v)
Free(w) == \A v \in Workers : ~Waits(w, v)

\* w is one of some workers that wait for each other.
Deadlocked(w) ==
    \E C \in SUBSET Workers :
        /\ w \in C
        /\ \A c \in C : (\E d \in C : Waits(c, d)) /\ (\E d \in C : Waits(d, c))

Done(w) == work' = [work EXCEPT ![w] = Idle]

-----------------------------------------------------------------------------
(* A request begins, and takes its locks.                                  *)

\* A member's request, or the callback of a deposit.  It may be a repeat.
Begin(w, r) ==
    /\ work[w] = Idle
    /\ work' = [work EXCEPT ![w] = [Idle EXCEPT !.of = r]]
    /\ UNCHANGED <<avail, locked, pot, status, entries, astray>>

\* refresh_member_wallet_withdrawal: the intent is read without a lock.
BeginRefresh(w, x) ==
    /\ work[w] = Idle
    /\ Stub
    /\ status[x] = "PENDING"
    /\ work' = [work EXCEPT ![w] = [Idle EXCEPT !.of = x, !.refresh = TRUE]]
    /\ UNCHANGED <<avail, locked, pot, status, entries, astray>>

\* _post_wallet_deposit_to_member_wallet reads the wallet without a lock.
ReadWallet(w) ==
    /\ work[w].of \in Deposits
    /\ ~work[w].read
    /\ work' = [work EXCEPT ![w].read = TRUE, ![w].seen = avail[By[work[w].of]]]
    /\ UNCHANGED <<avail, locked, pot, status, entries, astray>>

TakeLock(w) ==
    /\ work[w] # Idle
    /\ work[w].of \in Deposits => work[w].read
    /\ LocksLeft(w)
    /\ Free(w)
    /\ work' = [work EXCEPT ![w].holds = @ + 1]
    /\ UNCHANGED <<avail, locked, pot, status, entries, astray>>

\* The database breaks a deadlock, another check refuses the request (a
\* penalty, an overdue loan, the daily limit), or the process dies.
RollBack(w) ==
    /\ work[w] # Idle
    /\ Done(w)
    /\ UNCHANGED <<avail, locked, pot, status, entries, astray>>

-----------------------------------------------------------------------------
(* The rest of the transaction, when every lock is held.                   *)

Ready(w) == work[w] # Idle /\ ~LocksLeft(w) /\ Free(w)

Posted(key, r) == \E e \in entries : e.key = key /\ e.of = r
Line(key, r, a, direction) ==
    [key |-> key, of |-> r, wallet |-> a, direction |-> direction]

\* Mutant: the balance is checked, the idempotency key is not.
MovesAgain(t) == avail[By[t]] >= Amount[t]
\* Mutant: the key is checked, the balance is not.
MovesUnbacked(t) == ~Posted("debit", t)
\* A repeat finds its debit entry and answers with it.
Moves(t) == ~Posted("debit", t) /\ avail[By[t]] >= Amount[t]

Transfer(w) ==
    LET t == work[w].of IN
    /\ t \in Transfers
    /\ Ready(w)
    /\ IF Moves(t)
       THEN /\ avail' = [avail EXCEPT ![By[t]] = @ - Amount[t], ![To[t]] = @ + Amount[t]]
            /\ entries' = entries \cup {Line("debit", t, By[t], "debit"),
                                        Line("credit", t, To[t], "credit")}
       ELSE UNCHANGED <<avail, entries>>
    /\ Done(w)
    /\ UNCHANGED <<locked, pot, status, astray>>

\* _create_wallet_details: a payment from the member's wallet to the chama's.
PayChama(c) ==
    /\ avail' = [avail EXCEPT ![By[c]] = @ - Amount[c]]
    /\ pot' = pot + Amount[c]
PaymentLines(c) == {Line("debit", c, By[c], "debit"), Line("credit", c, Chama, "credit")}

\* The contribution then posts its debit a second time, with a key of its own,
\* and saves the balance it read before less the amount: the same value.
Contribute(w) ==
    LET c == work[w].of IN
    /\ c \in Contributions
    /\ Ready(w)
    /\ IF avail[By[c]] >= Amount[c] /\ ~Posted("debit", c)
       THEN /\ PayChama(c)
            /\ entries' = entries \cup PaymentLines(c)
                             \cup {Line("contribution-debit", c, By[c], "debit")}
       ELSE UNCHANGED <<avail, pot, entries>>
    /\ Done(w)
    /\ UNCHANGED <<locked, status, astray>>

\* create_member_wallet_withdrawal; a repeated key breaks a unique constraint.
RequestWithdrawal(w) ==
    LET x == work[w].of IN
    /\ x \in Withdrawals
    /\ ~work[w].refresh
    /\ Ready(w)
    /\ IF status[x] = "none" /\ avail[By[x]] >= Amount[x] + MinRemaining
       THEN /\ avail' = [avail EXCEPT ![By[x]] = @ - Amount[x]]
            /\ locked' = [locked EXCEPT ![By[x]] = @ + Amount[x]]
            /\ status' = [status EXCEPT ![x] = "PENDING"]
       ELSE UNCHANGED <<avail, locked, status>>
    /\ Done(w)
    /\ UNCHANGED <<pot, entries, astray>>

\* Mutant: the locked balance is not compared with the amount.
CompletesAlways(x) == TRUE
Completes(x) == locked[By[x]] >= Amount[x]

\* _complete_member_wallet_withdrawal_success does not look at the status again:
\* completed a second time, a withdrawal takes what another one has locked.
CompleteWithdrawal(w) ==
    LET x == work[w].of IN
    /\ x \in Withdrawals
    /\ work[w].refresh
    /\ Ready(w)
    /\ IF Completes(x)
       THEN /\ locked' = [locked EXCEPT ![By[x]] = @ - Amount[x]]
            /\ status' = [status EXCEPT ![x] = "SUCCESS"]
            /\ entries' = entries \cup {Line("wallet-withdrawal", x, By[x], "debit")}
            /\ astray' = IF status[x] = "PENDING" THEN astray ELSE astray \cup {By[x]}
       ELSE UNCHANGED <<locked, status, entries, astray>>
    /\ Done(w)
    /\ UNCHANGED <<avail, pot>>

\* The balance saved is the one read before the lock: what was saved between
\* is lost.
PostDeposit(w) ==
    LET d == work[w].of IN
    /\ d \in Deposits
    /\ work[w].read
    /\ Ready(w)
    /\ IF ~Posted("wallet-topup", d)
       THEN /\ avail' = [avail EXCEPT ![By[d]] = work[w].seen + Amount[d]]
            /\ entries' = entries \cup {Line("wallet-topup", d, By[d], "credit")}
            /\ astray' = IF work[w].seen = avail[By[d]] THEN astray ELSE astray \cup {By[d]}
       ELSE UNCHANGED <<avail, entries, astray>>
    /\ Done(w)
    /\ UNCHANGED <<locked, pot, status>>

Finish(w) ==
    \/ Transfer(w) \/ Contribute(w)
    \/ RequestWithdrawal(w) \/ CompleteWithdrawal(w)
    \/ PostDeposit(w)

Next ==
    \E w \in Workers :
        \/ \E r \in Requests : Begin(w, r)
        \/ \E x \in Withdrawals : BeginRefresh(w, x)
        \/ ReadWallet(w) \/ TakeLock(w) \/ RollBack(w)
        \/ Finish(w)

\* Mutant: nobody breaks a deadlock.
BreakNothing(w) == FALSE /\ UNCHANGED vars
Break(w) == Deadlocked(w) /\ RollBack(w)

\* A worker goes on while it can; the queue for a row's lock is served in
\* order; the database looks for deadlocks.
Fairness ==
    /\ \A w \in Workers :
          WF_vars(ReadWallet(w)) /\ SF_vars(TakeLock(w)) /\ SF_vars(Finish(w))
    /\ WF_vars(\E w \in Workers : Break(w))

Spec == Init /\ [][Next]_vars
FairSpec == Spec /\ Fairness

-----------------------------------------------------------------------------
(* Correctness.                                                            *)

\* Money is locked in a member's wallet exactly while the member's withdrawal
\* is pending: of two refreshes that both found it pending one takes it.  (With
\* a second withdrawal the later refresh takes the amount from its lock.)
Alone(x) == \A y \in Withdrawals : By[y] = By[x] => y = x
LockedIsPending ==
    \A x \in Withdrawals :
        Alone(x) => locked[By[x]] = IF status[x] = "PENDING" THEN Amount[x] ELSE 0

\* The requests have the effects WalletPromise names, once each, whatever
\* repeats, stale reads and broken deadlocks they go through: a balance is the
\* sum of what was moved until a deposit saves one that is out of date over it,
\* or a withdrawal is completed a second time, and both hit no other wallet.
Promise ==
    INSTANCE WalletPromise WITH
        Source   <- [r \in Requests |-> IF r \in Deposits THEN None ELSE By[r]],
        Target   <- [r \in Requests |->
                        IF r \in Transfers THEN To[r]
                        ELSE IF r \in Contributions THEN Chama
                        ELSE IF r \in Withdrawals THEN None ELSE By[r]],
        Fragile  <- Withdrawals \cup Deposits,
        Start    <- [a \in Members \cup {Chama} |-> IF a = Chama THEN 0 ELSE Opening[a]],
        balance  <- [a \in (Members \ astray) \cup {Chama} |->
                        IF a = Chama THEN pot ELSE avail[a] + locked[a]],
        done     <- {e.of : e \in entries}
MovesOnce == Promise!Spec

\* Every request ends, although transfers in opposite directions, and a
\* transfer and a request of its recipient, may wait for each other.
EveryRequestEnds == \A w \in Workers : work[w] # Idle ~> work[w] = Idle
=============================================================================
