-------------------------- MODULE MemberWalletProofs --------------------------
(***************************************************************************)
(* What holds of MemberWallet for any members, requests and workers.  The  *)
(* inductive invariant joins the types, the lock of a member's only        *)
(* withdrawal to its status, and the ledger to what has been done: it is   *)
(* what makes a repeated request, or a second refresh, a stutter of        *)
(* WalletPromise.                                                          *)
(***************************************************************************)
EXTENDS MemberWallet, TLAPS

\* An entry tells that its request has had its effect.
EntriesSound ==
    \A e \in entries :
        /\ e.of \in Transfers \cup Contributions => Posted("debit", e.of)
        /\ e.of \in Withdrawals => status[e.of] = "SUCCESS"
        /\ e.of \in Deposits => Posted("wallet-topup", e.of)

IInv == TypeOK /\ LockedIsPending /\ EntriesSound

-----------------------------------------------------------------------------
\* A plan has at most three rows.
LEMMA PlanLength ==
  ASSUME NEW w \in Workers, TypeOK, LocksLeft(w)
  PROVE  work[w].holds + 1 \in 0..3
<1>1. work[w].holds \in 0..3
  BY DEF TypeOK, Job
<1>2. Len(PlanOf(work[w])) \in 0..3
  <2>1. /\ Len(<<Intent(work[w].of), Wallet(By[work[w].of])>>) = 2
        /\ Len(<<User(To[work[w].of]), Wallet(By[work[w].of]), Wallet(To[work[w].of])>>) = 3
        /\ Len(<<Wallet(By[work[w].of]), Wallet(Chama)>>) = 2
        /\ Len(<<Wallet(By[work[w].of])>>) = 1
    OBVIOUS
  <2> QED
    BY <2>1 DEF PlanOf, Plan
<1> DEFINE length == Len(PlanOf(work[w]))
<1>3. work[w].holds < length
  BY DEF LocksLeft
<1>4. length \in 0..3
  BY <1>2
<1> HIDE DEF length
<1> QED
  BY <1>1, <1>3, <1>4

\* Idle is a job.
LEMMA IdleJob == Idle \in Job
  BY DEF Idle, Job

\* The initial states satisfy the invariant.
LEMMA InitInv == Init => IInv
<1> SUFFICES ASSUME Init PROVE IInv
  OBVIOUS
<1>1. TypeOK
  BY WalletAssumption, IdleJob DEF Init, TypeOK, WithdrawalStatus
<1>2. LockedIsPending
  BY WalletAssumption DEF Init, LockedIsPending, Requests
<1>3. EntriesSound
  BY DEF Init, EntriesSound
<1> QED
  BY <1>1, <1>2, <1>3 DEF IInv

\* The steps before the last one write nothing but work.
LEMMA QuietTypes ==
  ASSUME TypeOK, NEW w \in Workers,
         \/ \E r \in Requests : Begin(w, r)
         \/ \E x \in Withdrawals : BeginRefresh(w, x)
         \/ ReadWallet(w) \/ TakeLock(w) \/ RollBack(w)
  PROVE  TypeOK' /\ UNCHANGED <<avail, locked, pot, status, entries, astray>>
<1>1. UNCHANGED <<avail, locked, pot, status, entries, astray>>
  BY DEF Begin, BeginRefresh, ReadWallet, TakeLock, RollBack
<1>2. work' \in [Workers -> Job]
  <2>1. ASSUME NEW r \in Requests, Begin(w, r) PROVE work' \in [Workers -> Job]
    BY <2>1 DEF Begin, Idle, TypeOK, Job
  <2>2. ASSUME NEW x \in Withdrawals, BeginRefresh(w, x) PROVE work' \in [Workers -> Job]
    BY <2>2 DEF BeginRefresh, Idle, TypeOK, Job, Requests
  <2>3. ASSUME ReadWallet(w) PROVE work' \in [Workers -> Job]
    <3>1. avail[By[work[w].of]] \in Nat
      BY <2>3, WalletAssumption DEF ReadWallet, TypeOK, Requests
    <3> QED
      BY <2>3, <3>1 DEF ReadWallet, TypeOK, Job
  <2>4. ASSUME TakeLock(w) PROVE work' \in [Workers -> Job]
    BY <2>4, PlanLength DEF TakeLock, TypeOK, Job
  <2>5. ASSUME RollBack(w) PROVE work' \in [Workers -> Job]
    BY <2>5, IdleJob DEF RollBack, Done, TypeOK
  <2> QED
    BY <2>1, <2>2, <2>3, <2>4, <2>5
<1> QED
  BY <1>1, <1>2 DEF TypeOK

\* A new ledger line is an entry.
LEMMA LineIsEntry ==
  ASSUME NEW key \in Key, NEW r \in Requests, NEW a \in Members \cup {Chama},
         NEW d \in {"debit", "credit"}
  PROVE  Line(key, r, a, d) \in Entry
  BY DEF Line, Entry

\* The last step of a request keeps the types: no balance goes below zero.
LEMMA FinishTypes ==
  ASSUME TypeOK, NEW w \in Workers, Finish(w)
  PROVE  TypeOK'
<1>1. work' \in [Workers -> Job]
  BY IdleJob
  DEF Finish, Transfer, Contribute, RequestWithdrawal, CompleteWithdrawal, PostDeposit, Done,
      TypeOK
<1> DEFINE r == work[w].of
<1>0. astray' \subseteq Members
  BY WalletAssumption
  DEF Finish, Transfer, Contribute, RequestWithdrawal, CompleteWithdrawal, PostDeposit,
      TypeOK, Requests
<1>2. CASE Transfer(w)
  <2>1. r \in Transfers /\ r \in Requests /\ By[r] \in Members /\ To[r] \in Members
        /\ By[r] # To[r] /\ Amount[r] \in Nat
    BY <1>2, WalletAssumption DEF Transfer, Requests
  <2>2. avail' \in [Members -> Nat]
    BY <1>2, <2>1 DEF Transfer, Moves, TypeOK
  <2>3. entries' \subseteq Entry
    BY <1>2, <2>1, LineIsEntry DEF Transfer, TypeOK, Key
  <2> QED
    BY <1>0, <1>1, <1>2, <2>2, <2>3 DEF Transfer, TypeOK
<1>3. CASE Contribute(w)
  <2>1. r \in Contributions /\ r \in Requests /\ By[r] \in Members /\ Amount[r] \in Nat
    BY <1>3, WalletAssumption DEF Contribute, Requests
  <2>2. avail' \in [Members -> Nat] /\ pot' \in Nat
    BY <1>3, <2>1 DEF Contribute, PayChama, TypeOK
  <2>3. entries' \subseteq Entry
    BY <1>3, <2>1, LineIsEntry DEF Contribute, PayChama, PaymentLines, TypeOK, Key
  <2> QED
    BY <1>0, <1>1, <1>3, <2>2, <2>3 DEF Contribute, TypeOK
<1>4. CASE RequestWithdrawal(w)
  <2>1. r \in Withdrawals /\ By[r] \in Members /\ Amount[r] \in Nat /\ MinRemaining \in Nat
    BY <1>4, WalletAssumption DEF RequestWithdrawal, Requests
  <2>2. avail' \in [Members -> Nat] /\ locked' \in [Members -> Nat]
    BY <1>4, <2>1 DEF RequestWithdrawal, TypeOK
  <2>3. status' \in [Withdrawals -> WithdrawalStatus]
    BY <1>4, <2>1 DEF RequestWithdrawal, TypeOK, WithdrawalStatus
  <2> QED
    BY <1>0, <1>1, <1>4, <2>2, <2>3 DEF RequestWithdrawal, TypeOK
<1>5. CASE CompleteWithdrawal(w)
  <2>1. r \in Withdrawals /\ r \in Requests /\ By[r] \in Members /\ Amount[r] \in Nat
    BY <1>5, WalletAssumption DEF CompleteWithdrawal, Requests
  <2>2. locked' \in [Members -> Nat]
    BY <1>5, <2>1 DEF CompleteWithdrawal, Completes, TypeOK
  <2>3. status' \in [Withdrawals -> WithdrawalStatus]
    BY <1>5, <2>1 DEF CompleteWithdrawal, TypeOK, WithdrawalStatus
  <2>4. entries' \subseteq Entry
    BY <1>5, <2>1, LineIsEntry DEF CompleteWithdrawal, TypeOK, Key
  <2> QED
    BY <1>0, <1>1, <1>5, <2>2, <2>3, <2>4 DEF CompleteWithdrawal, TypeOK
<1>6. CASE PostDeposit(w)
  <2>1. r \in Deposits /\ r \in Requests /\ By[r] \in Members /\ Amount[r] \in Nat
    BY <1>6, WalletAssumption DEF PostDeposit, Requests
  <2>2. work[w].seen \in Nat
    BY DEF TypeOK, Job
  <2>3. avail' \in [Members -> Nat]
    BY <1>6, <2>1, <2>2 DEF PostDeposit, TypeOK
  <2>4. entries' \subseteq Entry
    BY <1>6, <2>1, LineIsEntry DEF PostDeposit, TypeOK, Key
  <2> QED
    BY <1>0, <1>1, <1>6, <2>3, <2>4 DEF PostDeposit, TypeOK
<1> QED
  BY <1>2, <1>3, <1>4, <1>5, <1>6 DEF Finish

-----------------------------------------------------------------------------
\* Only the two withdrawal steps touch locks and statuses, each of both.
LEMMA FinishLocks ==
  ASSUME TypeOK, LockedIsPending, NEW w \in Workers, Finish(w)
  PROVE  LockedIsPending'
<1> DEFINE r == work[w].of
<1>1. CASE UNCHANGED <<locked, status>>
  BY <1>1 DEF LockedIsPending, Alone
<1>2. CASE RequestWithdrawal(w)
  <2>1. r \in Withdrawals /\ By[r] \in Members /\ Amount[r] \in Nat \ {0}
    BY <1>2, WalletAssumption DEF RequestWithdrawal, Requests
  <2> SUFFICES ASSUME NEW x \in Withdrawals, Alone(x)
               PROVE  locked'[By[x]] = IF status'[x] = "PENDING" THEN Amount[x] ELSE 0
    BY DEF LockedIsPending, Alone
  <2>2. x # r => By[x] # By[r]
    BY <2>1 DEF Alone
  <2>3. locked[By[x]] = IF status[x] = "PENDING" THEN Amount[x] ELSE 0
    BY DEF LockedIsPending
  <2>4. By[x] \in Members /\ Amount[x] \in Nat
    BY WalletAssumption DEF Requests
  <2> QED
    BY <1>2, <2>1, <2>2, <2>3, <2>4 DEF RequestWithdrawal, TypeOK
<1>3. CASE CompleteWithdrawal(w)
  <2>1. r \in Withdrawals /\ By[r] \in Members /\ Amount[r] \in Nat \ {0}
    BY <1>3, WalletAssumption DEF CompleteWithdrawal, Requests
  <2> SUFFICES ASSUME NEW x \in Withdrawals, Alone(x)
               PROVE  locked'[By[x]] = IF status'[x] = "PENDING" THEN Amount[x] ELSE 0
    BY DEF LockedIsPending, Alone
  <2>2. x # r => By[x] # By[r]
    BY <2>1 DEF Alone
  <2>3. locked[By[x]] = IF status[x] = "PENDING" THEN Amount[x] ELSE 0
    BY DEF LockedIsPending
  <2>4. By[x] \in Members /\ Amount[x] \in Nat
    BY WalletAssumption DEF Requests
  <2> QED
    BY <1>3, <2>1, <2>2, <2>3, <2>4 DEF CompleteWithdrawal, Completes, TypeOK
<1> QED
  BY <1>1, <1>2, <1>3 DEF Finish, Transfer, Contribute, PostDeposit

\* A completed withdrawal stays completed, and entries are never removed.
LEMMA FinishEntries ==
  ASSUME TypeOK, EntriesSound, NEW w \in Workers, Finish(w)
  PROVE  EntriesSound'
<1> DEFINE r == work[w].of
<1>1. CASE Transfer(w)
  <2>1. CASE UNCHANGED entries
    BY <1>1, <2>1 DEF Transfer, EntriesSound, Posted
  <2>2. CASE entries' = entries \cup {Line("debit", r, By[r], "debit"),
                                      Line("credit", r, To[r], "credit")}
    <3>1. r \in Transfers /\ r \notin Withdrawals \cup Deposits /\ status' = status
      BY <1>1, WalletAssumption DEF Transfer
    <3>6. /\ Line("debit", r, By[r], "debit") \in entries'
          /\ Line("debit", r, By[r], "debit").key = "debit"
          /\ Line("debit", r, By[r], "debit").of = r
      BY <2>2 DEF Line
    <3>2. \E e \in entries' : e.key = "debit" /\ e.of = r
      BY <3>6
    <3>3. \A key, q : Posted(key, q) => Posted(key, q)'
      BY <2>2 DEF Posted
    <3>4. \A e \in entries' : e \in entries \/ e.of = r
      BY <2>2 DEF Line
    <3>5. \A e \in entries' : e.of = r => Posted("debit", e.of)'
      BY <3>2 DEF Posted
    <3> QED
      BY <3>1, <3>3, <3>4, <3>5 DEF EntriesSound
  <2> QED
    BY <1>1, <2>1, <2>2 DEF Transfer
<1>2. CASE Contribute(w)
  <2>1. CASE UNCHANGED entries
    BY <1>2, <2>1 DEF Contribute, EntriesSound, Posted
  <2>2. CASE entries' = entries \cup {Line("debit", r, By[r], "debit"),
                                      Line("credit", r, Chama, "credit")}
                                \cup {Line("contribution-debit", r, By[r], "debit")}
    <3>1. r \in Contributions /\ r \notin Withdrawals \cup Deposits /\ status' = status
      BY <1>2, WalletAssumption DEF Contribute
    <3>6. /\ Line("debit", r, By[r], "debit") \in entries'
          /\ Line("debit", r, By[r], "debit").key = "debit"
          /\ Line("debit", r, By[r], "debit").of = r
      BY <2>2 DEF Line
    <3>2. \E e \in entries' : e.key = "debit" /\ e.of = r
      BY <3>6
    <3>3. \A key, q : Posted(key, q) => Posted(key, q)'
      BY <2>2 DEF Posted
    <3>4. \A e \in entries' : e \in entries \/ e.of = r
      BY <2>2 DEF Line
    <3>5. \A e \in entries' : e.of = r => Posted("debit", e.of)'
      BY <3>2 DEF Posted
    <3> QED
      BY <3>1, <3>3, <3>4, <3>5 DEF EntriesSound
  <2> QED
    BY <1>2, <2>1, <2>2 DEF Contribute, PaymentLines
<1>3. CASE RequestWithdrawal(w)
  <2>1. \A x \in Withdrawals : status[x] = "SUCCESS" => status'[x] = "SUCCESS"
    BY <1>3 DEF RequestWithdrawal, TypeOK
  <2> QED
    BY <1>3, <2>1 DEF RequestWithdrawal, EntriesSound, Posted
<1>4. CASE CompleteWithdrawal(w)
  <2>1. CASE UNCHANGED <<entries, status>>
    BY <2>1 DEF EntriesSound, Posted
  <2>2. CASE /\ entries' = entries \cup {Line("wallet-withdrawal", r, By[r], "debit")}
             /\ status' = [status EXCEPT ![r] = "SUCCESS"]
    <3>1. r \in Withdrawals /\ status'[r] = "SUCCESS"
      BY <1>4, <2>2 DEF CompleteWithdrawal, TypeOK
    <3>2. \A x \in Withdrawals : status[x] = "SUCCESS" => status'[x] = "SUCCESS"
      BY <2>2 DEF TypeOK
    <3>3. Line("wallet-withdrawal", r, By[r], "debit").of = r
      BY DEF Line
    <3>4. \A key, q : Posted(key, q) => Posted(key, q)'
      BY <2>2 DEF Posted
    <3>5. r \notin Transfers \cup Contributions \cup Deposits
      BY <3>1, WalletAssumption
    <3> QED
      BY <2>2, <3>1, <3>2, <3>3, <3>4, <3>5 DEF EntriesSound
  <2> QED
    BY <1>4, <2>1, <2>2 DEF CompleteWithdrawal
<1>5. CASE PostDeposit(w)
  <2>1. CASE UNCHANGED entries
    BY <1>5, <2>1 DEF PostDeposit, EntriesSound, Posted
  <2>2. CASE entries' = entries \cup {Line("wallet-topup", r, By[r], "credit")}
    BY <1>5, <2>2, WalletAssumption DEF PostDeposit, EntriesSound, Posted, Line
  <2> QED
    BY <1>5, <2>1, <2>2 DEF PostDeposit
<1> QED
  BY <1>1, <1>2, <1>3, <1>4, <1>5 DEF Finish

\* Every step preserves the invariant.
LEMMA StepInv == IInv /\ [Next]_vars => IInv'
<1> SUFFICES ASSUME IInv, [Next]_vars PROVE IInv'
  OBVIOUS
<1>1. CASE UNCHANGED vars
  BY <1>1 DEF vars, IInv, TypeOK, LockedIsPending, Alone, EntriesSound, Posted
<1>2. ASSUME NEW w \in Workers, Finish(w) PROVE IInv'
  BY <1>2, FinishTypes, FinishLocks, FinishEntries DEF IInv
<1>3. ASSUME NEW w \in Workers,
             \/ \E r \in Requests : Begin(w, r)
             \/ \E x \in Withdrawals : BeginRefresh(w, x)
             \/ ReadWallet(w) \/ TakeLock(w) \/ RollBack(w)
      PROVE  IInv'
  <2>1. TypeOK' /\ UNCHANGED <<avail, locked, pot, status, entries, astray>>
    BY <1>3, QuietTypes DEF IInv
  <2> QED
    BY <2>1 DEF IInv, LockedIsPending, Alone, EntriesSound, Posted
<1> QED
  BY <1>1, <1>2, <1>3 DEF Next

\* Every reachable state satisfies the invariant.
THEOREM Invariance == Spec => []IInv
  BY InitInv, StepInv, PTL DEF Spec

\* Balances, statuses, ledger lines and jobs have their types: in particular
\* no interleaving of requests takes a balance below zero.
THEOREM TypeCorrect == Spec => []TypeOK
<1>1. IInv => TypeOK
  BY DEF IInv
<1> QED
  BY <1>1, Invariance, PTL

\* The lock of a member's only withdrawal is its amount while it is pending
\* and nothing otherwise, whatever refreshes run beside each other.
THEOREM LockedWhilePending == Spec => []LockedIsPending
<1>1. IInv => LockedIsPending
  BY DEF IInv
<1> QED
  BY <1>1, Invariance, PTL

-----------------------------------------------------------------------------
(* Refinement.  A request moves its amount in the wallets that are kept,   *)
(* or, as a stale deposit or a second completion, spoils its member's.      *)

Kept == (Members \ astray) \cup {Chama}
balanceOf == [a \in Kept |-> IF a = Chama THEN pot ELSE avail[a] + locked[a]]
doneOf == {e.of : e \in entries}

\* The wallet a request takes its amount from, and the one it brings it to.
Source(r) == IF r \in Deposits THEN None ELSE By[r]
Target(r) ==
    IF r \in Transfers THEN To[r]
    ELSE IF r \in Contributions THEN Chama
    ELSE IF r \in Withdrawals THEN None ELSE By[r]

\* The two as the promise is given them.
LEMMA Named ==
  ASSUME NEW r \in Requests
  PROVE  /\ [q \in Requests |-> IF q \in Deposits THEN None ELSE By[q]][r] = Source(r)
         /\ [q \in Requests |->
                IF q \in Transfers THEN To[q]
                ELSE IF q \in Contributions THEN Chama
                ELSE IF q \in Withdrawals THEN None ELSE By[q]][r] = Target(r)
  BY DEF Source, Target

\* What the promise makes of the balances when a request moves its amount.
LEMMA MovedIs ==
  ASSUME NEW r \in Requests
  PROVE  Promise!Moved(r) =
            [a \in Kept |->
                CASE a = Source(r) -> balanceOf[a] - Amount[r]
                  [] a = Target(r) -> balanceOf[a] + Amount[r]
                  [] OTHER         -> balanceOf[a]]
<1>1. Promise!Kept = Kept
  BY DEF Promise!Kept, Kept
<1> QED
  BY <1>1, Named DEF Promise!Moved, balanceOf, Kept

\* Balances that change pointwise as a request moves its amount.
LEMMA MovesAs ==
  ASSUME NEW r \in Requests, Source(r) # Target(r), UNCHANGED astray,
         \A a \in Kept :
            balanceOf'[a] = IF a = Source(r) THEN balanceOf[a] - Amount[r]
                            ELSE IF a = Target(r) THEN balanceOf[a] + Amount[r]
                            ELSE balanceOf[a]
  PROVE  balanceOf' = Promise!Moved(r)
<1> DEFINE m == [a \in Kept |->
                    CASE a = Source(r) -> balanceOf[a] - Amount[r]
                      [] a = Target(r) -> balanceOf[a] + Amount[r]
                      [] OTHER         -> balanceOf[a]]
<1>1. \A a \in Kept : balanceOf'[a] = m[a]
  OBVIOUS
<1>2. balanceOf' = [a \in Kept |-> balanceOf'[a]]
  BY DEF balanceOf, Kept
<1>3. m = [a \in Kept |-> m[a]]
  OBVIOUS
<1>4. m = Promise!Moved(r)
  BY MovedIs
<1> QED
  BY <1>1, <1>2, <1>3, <1>4

\* A request that touches its member's wallet only, and spoils it.
LEMMA SpoilsAs ==
  ASSUME NEW r \in Withdrawals \cup Deposits, By[r] \in Members, None \notin Members \cup {Chama},
         Chama \notin Members, r \notin Transfers \cup Contributions,
         astray' = astray \cup {By[r]}, UNCHANGED pot,
         \A a \in Members \ {By[r]} : avail'[a] = avail[a] /\ locked'[a] = locked[a],
         doneOf' = doneOf \cup {r}
  PROVE  Promise!Next
<1>1. r \in Requests
  BY DEF Requests
<1>2. Kept' = Kept \ {By[r]}
  BY DEF Kept
<1>3. {Source(r), Target(r)} \cap (Members \cup {Chama}) = {By[r]}
  BY WalletAssumption DEF Source, Target
<1>4. Kept \ {Source(r), Target(r)} = Kept'
  BY <1>2, <1>3 DEF Kept
<1>5. balanceOf' = [a \in Kept \ {Source(r), Target(r)} |-> balanceOf[a]]
  <2>1. \A a \in Kept' : balanceOf'[a] = balanceOf[a]
    BY <1>2 DEF balanceOf, Kept
  <2>2. balanceOf' = [a \in Kept' |-> balanceOf'[a]]
    BY DEF balanceOf, Kept
  <2> QED
    BY <1>4, <2>1, <2>2
<1>6. Promise!Kept = Kept
  BY DEF Promise!Kept, Kept
<1>7. Promise!Spoil(r)
  BY <1>1, <1>5, <1>6, Named DEF Promise!Spoil, balanceOf, doneOf, Kept
<1> QED
  BY <1>1, <1>7 DEF Promise!Next

\* New entries of one request make it done.
LEMMA DoneGrows ==
  ASSUME NEW r, NEW S, S # {}, \A e \in S : e.of = r, entries' = entries \cup S
  PROVE  doneOf' = doneOf \cup {r}
  BY DEF doneOf

\* A transfer that finds no debit entry moves its amount for the first time.
LEMMA TransferMoves ==
  ASSUME IInv, NEW w \in Workers, Transfer(w)
  PROVE  Promise!Next \/ UNCHANGED <<balanceOf, doneOf>>
<1> DEFINE t == work[w].of
<1>1. /\ t \in Transfers /\ t \in Requests /\ t \notin Deposits
      /\ By[t] \in Members /\ To[t] \in Members
      /\ By[t] # To[t] /\ Amount[t] \in Nat /\ Chama \notin Members
      /\ locked \in [Members -> Nat] /\ avail \in [Members -> Nat]
  BY WalletAssumption DEF Transfer, Requests, IInv, TypeOK
<1>2. CASE ~Moves(t)
  BY <1>2 DEF Transfer, balanceOf, Kept, doneOf
<1>3. CASE Moves(t)
  <2>1. /\ avail' = [avail EXCEPT ![By[t]] = @ - Amount[t], ![To[t]] = @ + Amount[t]]
        /\ entries' = entries \cup {Line("debit", t, By[t], "debit"),
                                    Line("credit", t, To[t], "credit")}
        /\ locked' = locked /\ pot' = pot /\ astray' = astray
    BY <1>3 DEF Transfer
  <2>2. t \notin doneOf
    BY <1>1, <1>3 DEF Moves, IInv, EntriesSound, doneOf
  <2>3. doneOf' = doneOf \cup {t}
    <3> DEFINE S == {Line("debit", t, By[t], "debit"), Line("credit", t, To[t], "credit")}
    <3>1. S # {} /\ \A e \in S : e.of = t
      BY DEF Line
    <3> QED
      BY <2>1, <3>1, DoneGrows
  <2>4. avail[By[t]] >= Amount[t]
    BY <1>3 DEF Moves
  <2>5. Promise!Afforded(t)
    BY <1>1, <2>4 DEF Promise!Afforded, Promise!Kept
  <2>6. balanceOf' = Promise!Moved(t)
    <3>1. \A a \in Kept :
             balanceOf'[a] = IF a = By[t] THEN balanceOf[a] - Amount[t]
                             ELSE IF a = To[t] THEN balanceOf[a] + Amount[t]
                             ELSE balanceOf[a]
      BY <1>1, <2>1 DEF balanceOf, Kept
    <3>2. Source(t) = By[t] /\ Target(t) = To[t] /\ Source(t) # Target(t)
      BY <1>1 DEF Source, Target
    <3> HIDE DEF balanceOf, Kept, t
    <3> QED
      BY <1>1, <2>1, <3>1, <3>2, MovesAs
  <2>7. \E r \in Requests : Promise!Move(r)
    BY <1>1, <2>2, <2>3, <2>5, <2>6 DEF Promise!Move, balanceOf, Kept, doneOf
  <2> QED
    BY <2>7 DEF Promise!Next
<1> QED
  BY <1>2, <1>3

\* A contribution that finds no debit entry moves its amount to the chama.
LEMMA ContributeMoves ==
  ASSUME IInv, NEW w \in Workers, Contribute(w)
  PROVE  Promise!Next \/ UNCHANGED <<balanceOf, doneOf>>
<1> DEFINE c == work[w].of
<1>1. /\ c \in Contributions /\ c \in Requests /\ c \notin Deposits /\ c \notin Transfers
      /\ By[c] \in Members /\ Amount[c] \in Nat /\ Chama \notin Members
      /\ locked \in [Members -> Nat] /\ avail \in [Members -> Nat] /\ pot \in Nat
  BY WalletAssumption DEF Contribute, Requests, IInv, TypeOK
<1>2. CASE UNCHANGED <<avail, pot, entries>>
  BY <1>2 DEF Contribute, balanceOf, Kept, doneOf
<1>3. CASE avail[By[c]] >= Amount[c] /\ ~Posted("debit", c)
  <2>1. /\ avail' = [avail EXCEPT ![By[c]] = @ - Amount[c]]
        /\ pot' = pot + Amount[c]
        /\ entries' = entries \cup {Line("debit", c, By[c], "debit"),
                                    Line("credit", c, Chama, "credit"),
                                    Line("contribution-debit", c, By[c], "debit")}
        /\ locked' = locked /\ astray' = astray
    BY <1>3 DEF Contribute, PayChama, PaymentLines
  <2>2. c \notin doneOf
    BY <1>1, <1>3 DEF IInv, EntriesSound, doneOf
  <2>3. doneOf' = doneOf \cup {c}
    <3> DEFINE S == {Line("debit", c, By[c], "debit"), Line("credit", c, Chama, "credit"),
                     Line("contribution-debit", c, By[c], "debit")}
    <3>1. S # {} /\ \A e \in S : e.of = c
      BY DEF Line
    <3> QED
      BY <2>1, <3>1, DoneGrows
  <2>4. Promise!Afforded(c)
    BY <1>1, <1>3 DEF Promise!Afforded, Promise!Kept
  <2>5. balanceOf' = Promise!Moved(c)
    <3>1. \A a \in Kept :
             balanceOf'[a] = IF a = By[c] THEN balanceOf[a] - Amount[c]
                             ELSE IF a = Chama THEN balanceOf[a] + Amount[c]
                             ELSE balanceOf[a]
      BY <1>1, <2>1 DEF balanceOf, Kept
    <3>2. Source(c) = By[c] /\ Target(c) = Chama /\ Source(c) # Target(c)
      BY <1>1 DEF Source, Target
    <3> HIDE DEF balanceOf, Kept, c
    <3> QED
      BY <1>1, <2>1, <3>1, <3>2, MovesAs
  <2>6. \E r \in Requests : Promise!Move(r)
    BY <1>1, <2>2, <2>3, <2>4, <2>5 DEF Promise!Move, balanceOf, Kept, doneOf
  <2> QED
    BY <2>6 DEF Promise!Next
<1> QED
  BY <1>2, <1>3 DEF Contribute

\* Locking money for a withdrawal moves none.
LEMMA RequestMovesNothing ==
  ASSUME IInv, NEW w \in Workers, RequestWithdrawal(w)
  PROVE  UNCHANGED <<balanceOf, doneOf>>
<1> DEFINE x == work[w].of
<1>1. /\ x \in Withdrawals /\ By[x] \in Members /\ Amount[x] \in Nat /\ Chama \notin Members
      /\ locked \in [Members -> Nat] /\ avail \in [Members -> Nat]
  BY WalletAssumption DEF RequestWithdrawal, Requests, IInv, TypeOK
<1>2. /\ pot' = pot /\ entries' = entries /\ astray' = astray
      /\ \A m \in Members : avail'[m] + locked'[m] = avail[m] + locked[m]
  BY <1>1 DEF RequestWithdrawal
<1> QED
  BY <1>2 DEF balanceOf, Kept, doneOf

\* A pending withdrawal completes and takes what is locked; completed again, it
\* takes what another one has locked, and spoils the wallet.
LEMMA CompleteMoves ==
  ASSUME IInv, NEW w \in Workers, CompleteWithdrawal(w)
  PROVE  Promise!Next \/ UNCHANGED <<balanceOf, doneOf>>
<1> DEFINE x == work[w].of
<1>1. /\ x \in Withdrawals /\ x \in Requests /\ x \notin Deposits
      /\ x \notin Transfers \cup Contributions
      /\ By[x] \in Members /\ Amount[x] \in Nat \ {0}
      /\ Chama \notin Members /\ None \notin Members \cup {Chama}
      /\ locked \in [Members -> Nat] /\ avail \in [Members -> Nat]
  BY WalletAssumption DEF CompleteWithdrawal, Requests, IInv, TypeOK
<1>2. CASE ~Completes(x)
  BY <1>2 DEF CompleteWithdrawal, balanceOf, Kept, doneOf
<1>3. CASE Completes(x)
  <2>1. /\ locked' = [locked EXCEPT ![By[x]] = @ - Amount[x]]
        /\ entries' = entries \cup {Line("wallet-withdrawal", x, By[x], "debit")}
        /\ avail' = avail /\ pot' = pot
        /\ astray' = IF status[x] = "PENDING" THEN astray ELSE astray \cup {By[x]}
    BY <1>3 DEF CompleteWithdrawal
  <2>2. doneOf' = doneOf \cup {x}
    <3> DEFINE S == {Line("wallet-withdrawal", x, By[x], "debit")}
    <3>1. S # {} /\ \A e \in S : e.of = x
      BY DEF Line
    <3> QED
      BY <2>1, <3>1, DoneGrows
  <2>3. CASE status[x] # "PENDING"
    <3>1. \A a \in Members \ {By[x]} : avail'[a] = avail[a] /\ locked'[a] = locked[a]
      BY <1>1, <2>1
    <3>2. astray' = astray \cup {By[x]}
      BY <2>1, <2>3
    <3> HIDE DEF x
    <3> QED
      BY <1>1, <2>1, <2>2, <3>1, <3>2, SpoilsAs
  <2>4. CASE status[x] = "PENDING"
    <3>1. x \notin doneOf
      BY <1>1, <2>4 DEF IInv, EntriesSound, doneOf
    <3>2. avail[By[x]] + locked[By[x]] >= Amount[x]
      BY <1>1, <1>3 DEF Completes
    <3>3. Promise!Afforded(x)
      BY <1>1, <3>2 DEF Promise!Afforded, Promise!Kept
    <3>4. balanceOf' = Promise!Moved(x)
      <4>1. \A a \in Kept :
               balanceOf'[a] = IF a = By[x] THEN balanceOf[a] - Amount[x] ELSE balanceOf[a]
        BY <1>1, <2>1, <2>4 DEF balanceOf, Kept
      <4>2. Source(x) = By[x] /\ Target(x) = None /\ Source(x) # Target(x)
        BY <1>1 DEF Source, Target
      <4>3. None \notin Kept /\ UNCHANGED astray
        BY <1>1, <2>1, <2>4 DEF Kept
      <4> HIDE DEF balanceOf, Kept, x
      <4> QED
        BY <1>1, <4>1, <4>2, <4>3, MovesAs
    <3>5. \E r \in Requests : Promise!Move(r)
      BY <1>1, <2>2, <3>1, <3>3, <3>4 DEF Promise!Move, balanceOf, Kept, doneOf
    <3> QED
      BY <3>5 DEF Promise!Next
  <2> QED
    BY <2>3, <2>4
<1> QED
  BY <1>2, <1>3

\* A deposit that is posted for the first time adds its amount to the balance,
\* or saves a balance that is out of date over it.
LEMMA DepositMoves ==
  ASSUME IInv, NEW w \in Workers, PostDeposit(w)
  PROVE  Promise!Next \/ UNCHANGED <<balanceOf, doneOf>>
<1> DEFINE d == work[w].of
<1>1. /\ d \in Deposits /\ d \in Requests /\ d \notin Withdrawals
      /\ d \notin Transfers \cup Contributions
      /\ By[d] \in Members /\ Amount[d] \in Nat
      /\ Chama \notin Members /\ None \notin Members \cup {Chama}
      /\ locked \in [Members -> Nat] /\ avail \in [Members -> Nat]
  BY WalletAssumption DEF PostDeposit, Requests, IInv, TypeOK
<1>2. CASE UNCHANGED <<avail, entries, astray>>
  BY <1>2 DEF PostDeposit, balanceOf, Kept, doneOf
<1>3. CASE ~Posted("wallet-topup", d)
  <2>1. /\ avail' = [avail EXCEPT ![By[d]] = work[w].seen + Amount[d]]
        /\ entries' = entries \cup {Line("wallet-topup", d, By[d], "credit")}
        /\ astray' = IF work[w].seen = avail[By[d]] THEN astray ELSE astray \cup {By[d]}
        /\ locked' = locked /\ pot' = pot
    BY <1>3 DEF PostDeposit
  <2>2. doneOf' = doneOf \cup {d}
    <3> DEFINE S == {Line("wallet-topup", d, By[d], "credit")}
    <3>1. S # {} /\ \A e \in S : e.of = d
      BY DEF Line
    <3> QED
      BY <2>1, <3>1, DoneGrows
  <2>3. CASE work[w].seen # avail[By[d]]
    <3>1. \A a \in Members \ {By[d]} : avail'[a] = avail[a] /\ locked'[a] = locked[a]
      BY <1>1, <2>1
    <3>2. astray' = astray \cup {By[d]}
      BY <2>1, <2>3
    <3> HIDE DEF d
    <3> QED
      BY <1>1, <2>1, <2>2, <3>1, <3>2, SpoilsAs
  <2>4. CASE work[w].seen = avail[By[d]]
    <3>1. d \notin doneOf
      BY <1>1, <1>3 DEF IInv, EntriesSound, doneOf
    <3>2. Source(d) = None /\ Target(d) = By[d] /\ Source(d) # Target(d)
      BY <1>1 DEF Source, Target
    <3>3. None \notin Kept /\ UNCHANGED astray
      BY <1>1, <2>1, <2>4 DEF Kept
    <3>4. Promise!Afforded(d)
      BY <1>1, <3>3 DEF Promise!Afforded, Promise!Kept, Kept
    <3>5. balanceOf' = Promise!Moved(d)
      <4>1. \A a \in Kept :
               balanceOf'[a] = IF a = By[d] THEN balanceOf[a] + Amount[d] ELSE balanceOf[a]
        BY <1>1, <2>1, <2>4 DEF balanceOf, Kept
      <4> HIDE DEF balanceOf, Kept, d
      <4> QED
        BY <1>1, <3>2, <3>3, <4>1, MovesAs
    <3>6. \E r \in Requests : Promise!Move(r)
      BY <1>1, <2>2, <3>1, <3>4, <3>5 DEF Promise!Move, balanceOf, Kept, doneOf
    <3> QED
      BY <3>6 DEF Promise!Next
  <2> QED
    BY <2>3, <2>4
<1> QED
  BY <1>2, <1>3 DEF PostDeposit

\* The initial states are those of the promise.
LEMMA PromiseInit ==
  ASSUME Init
  PROVE  Promise!Init
<1>1. balanceOf = [a \in Members \cup {Chama} |-> IF a = Chama THEN 0 ELSE Opening[a]]
  BY WalletAssumption DEF Init, balanceOf, Kept
<1>2. doneOf = {}
  BY DEF Init, doneOf
<1> QED
  BY <1>1, <1>2 DEF Promise!Init, balanceOf, Kept, doneOf

\* Every behaviour of the code is one in which each request moves its amount
\* once or not at all; repeats and broken deadlocks are stutters, and a stale
\* deposit or a second completion spoils the wallet of its member and no other.
THEOREM KeepsPromise == Spec => MovesOnce
<1>1. Init => Promise!Init
  BY PromiseInit
<1>2. IInv /\ [Next]_vars => [Promise!Next]_<<balanceOf, doneOf>>
  <2> SUFFICES ASSUME IInv, [Next]_vars
               PROVE  Promise!Next \/ UNCHANGED <<balanceOf, doneOf>>
    OBVIOUS
  <2>1. CASE UNCHANGED vars
    BY <2>1 DEF vars, balanceOf, Kept, doneOf
  <2>2. ASSUME NEW w \in Workers, Finish(w)
        PROVE  Promise!Next \/ UNCHANGED <<balanceOf, doneOf>>
    BY <2>2, TransferMoves, ContributeMoves, RequestMovesNothing, CompleteMoves, DepositMoves
    DEF Finish
  <2>3. ASSUME NEW w \in Workers,
               \/ \E r \in Requests : Begin(w, r)
               \/ \E x \in Withdrawals : BeginRefresh(w, x)
               \/ ReadWallet(w) \/ TakeLock(w) \/ RollBack(w)
        PROVE  Promise!Next \/ UNCHANGED <<balanceOf, doneOf>>
    <3>1. UNCHANGED <<avail, locked, pot, status, entries, astray>>
      BY <2>3, QuietTypes DEF IInv
    <3> QED
      BY <3>1 DEF balanceOf, Kept, doneOf
  <2> QED
    BY <2>1, <2>2, <2>3 DEF Next
<1>3. Spec => [][Promise!Next]_<<balanceOf, doneOf>>
  BY <1>2, Invariance, PTL DEF Spec
<1>4. [][Promise!Next]_<<balanceOf, doneOf>> <=> [][Promise!Next]_<<
         [a \in (Members \ astray) \cup {Chama} |->
             IF a = Chama THEN pot ELSE avail[a] + locked[a]],
         {e.of : e \in entries}>>
  BY DEF balanceOf, Kept, doneOf
<1> QED
  BY <1>1, <1>3, <1>4, PTL DEF MovesOnce, Promise!Spec, Spec
=============================================================================
