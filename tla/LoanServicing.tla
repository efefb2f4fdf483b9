---------------------------- MODULE LoanServicing ----------------------------
(***************************************************************************)
(* A loan after its approval (src/apps/finance/services.py): it is         *)
(* disbursed, repaid at the desk, by M-Pesa or out of savings, swept every *)
(* morning for what is overdue, restructured, written off.                 *)
(*                                                                         *)
(* Every operation is one transaction that reads the loan and its schedule *)
(* without locks, computes, and saves the fields it computed; a row that   *)
(* it saved stays locked until it commits.  The callback of an M-Pesa      *)
(* payment alone locks the loan first.  Amounts are kept by installment    *)
(* and component, where the code keeps the loan's balances and its books   *)
(* by component.                                                           *)
(***************************************************************************)
EXTENDS Integers, FiniteSets, Functions

CONSTANTS
    Installments,   \* their number
    Principal,      \* of an installment
    Interest,       \* of an installment
    Charge,         \* the penalty of an overdue installment
    Receipts,       \* of payments at the desk and by M-Pesa
    Amounts,        \* that are paid
    Requests,       \* the kinds of requests that are made
    MaxAge,         \* bound on the age of an installment
    MaxWriteOffs,   \* bound on the number of write-offs begun
    Workers,        \* web and Celery processes
    None

Row == 1..Installments
\* What a payment goes to, in this order.
Component == {"penalty", "interest", "principal"}
Slot == Row \X Component
Offset == "OFFSET"
Kind == {"desk", "mpesa", "offset", "sweep", "restructure", "write off", "disburse"}

ASSUME LoanAssumption ==
    /\ Installments \in Nat \ {0}
    /\ Principal \in Nat \ {0}
    /\ Interest \in Nat
    /\ Charge \in Nat
    /\ Amounts \subseteq Nat \ {0}
    /\ Offset \notin Receipts
    /\ Requests \subseteq Kind \ {"sweep"}
    /\ MaxAge \in 0..3
    /\ MaxWriteOffs \in Nat
    /\ None \notin Receipts \cup {Offset} \cup Kind

VARIABLES
    loan,       \* the Loan row
    schedule,   \* the InstallmentSchedule rows
    age,        \* of each installment: 0, past due 1, past grace 2, in default 3
    request,    \* the loan's LoanRestructureRequest
    posted,     \* receipt_code of the Repayment rows
    received,   \* history: what the journal has received
    charged,    \* what the journal has charged as penalty on an installment
    lent,       \* the disbursement is in the journal
    writeoffs,  \* history: write-offs begun
    lost,       \* history: a save has undone what another payment had saved
    work        \* what each worker is doing

vars == <<loan, schedule, age, request, posted, received, charged, lent,
          writeoffs, lost, work>>

\* APPROVED stands for APPROVED and DISBURSING, ACTIVE for ACTIVE and DUE_SOON.
LoanStatus == {"APPROVED", "DISBURSED", "ACTIVE", "OVERDUE", "RESTRUCTURED", "PAID",
               "DEFAULTED", "DEFAULTED_RECOVERING", "WRITTEN_OFF", "RECOVERED_FROM_OFFSET"}
InstallmentStatus == {"DUE", "PARTIAL", "PAID", "OVERDUE"}
\* due: the summands of the outstanding amounts; defaulted: defaulted_at is set.
Loan == [status : LoanStatus, due : [Slot -> Nat], defaulted : BOOLEAN]
Schedule == [expected : [Slot -> Nat], paid : [Slot -> Nat], status : [Row -> InstallmentStatus]]
Step == {"idle", "look", "read", "write", "total", "save"}
\* status, defaulted, rows: as they were read; of rows later those in writes, as
\* it has saved them.  since: what became of the schedule meanwhile.
Job == [kind : Kind \cup {None}, step : Step, receipt : Receipts \cup {Offset, None},
        amount : Nat, status : LoanStatus, defaulted : BOOLEAN, rows : Schedule,
        writes : SUBSET Row, since : {"nothing", "paid", "replaced"},
        taken : [Slot -> Nat], charges : SUBSET Row, due : [Slot -> Nat]]

Nothing == [s \in Slot |-> 0]
\* generate_schedule.
NewSchedule ==
    [expected |-> [s \in Slot |-> CASE s[2] = "principal" -> Principal
                                    [] s[2] = "interest"  -> Interest
                                    [] s[2] = "penalty"   -> 0],
     paid |-> Nothing,
     status |-> [i \in Row |-> "DUE"]]
NewLoan == [status |-> "APPROVED", due |-> NewSchedule.expected, defaulted |-> FALSE]
Idle == [kind |-> None, step |-> "idle", receipt |-> None, amount |-> 0,
         status |-> "APPROVED", defaulted |-> FALSE, rows |-> NewSchedule, writes |-> {},
         since |-> "nothing", taken |-> Nothing, charges |-> {}, due |-> Nothing]

TypeOK ==
    /\ loan \in Loan
    /\ schedule \in Schedule
    /\ age \in [Row -> 0..MaxAge]
    /\ request \in {"none", "requested", "applied"}
    /\ posted \subseteq Receipts \cup {Offset}
    /\ received \in [Slot -> Nat]
    /\ charged \in [Row -> Nat]
    /\ lent \in BOOLEAN
    /\ writeoffs \in 0..MaxWriteOffs
    /\ lost \in BOOLEAN
    /\ work \in [Workers -> Job]

Init ==
    /\ loan = NewLoan
    /\ schedule = NewSchedule
    /\ age = [i \in Row |-> 0]
    /\ request = "none"
    /\ posted = {}
    /\ received = Nothing
    /\ charged = [i \in Row |-> 0]
    /\ lent = FALSE
    /\ writeoffs = 0
    /\ lost = FALSE
    /\ work = [w \in Workers |-> Idle]

At(w, step) == work[w].step = step
Is(w, kinds) == work[w].kind \in kinds
Payer == {"desk", "mpesa", "offset"}
RollBack(w) == work' = [work EXCEPT ![w] = Idle]

\* Mutant: the difference is not cut off at zero, nor the right way round.
OwedBackwards(rows) == [s \in Slot |-> rows.paid[s] - rows.expected[s]]
Owed(rows) ==
    [s \in Slot |-> IF rows.paid[s] < rows.expected[s] THEN rows.expected[s] - rows.paid[s] ELSE 0]
Owes(due) == \E s \in Slot : due[s] > 0

\* The schedule as a request sees it that has saved some of its rows.
Merged(job) ==
    LET Saved(new, old) == [s \in Slot |-> IF s[1] \in job.writes THEN new[s] ELSE old[s]] IN
    [expected |-> Saved(job.rows.expected, schedule.expected),
     paid     |-> Saved(job.rows.paid, schedule.paid),
     status   |-> [i \in Row |-> IF i \in job.writes THEN job.rows.status[i]
                                 ELSE schedule.status[i]]]

-----------------------------------------------------------------------------
(* What a request makes of the rows it has read.                           *)

Rank(c) == CASE c = "penalty" -> 1 [] c = "interest" -> 2 [] c = "principal" -> 3
Before(s, t) == s[1] < t[1] \/ (s[1] = t[1] /\ Rank(s[2]) < Rank(t[2]))

\* All before s is settled, and amount goes to s.
UpTo(owed, s, amount) ==
    [t \in Slot |-> IF Before(t, s) THEN owed[t] ELSE IF t = s THEN amount ELSE 0]

\* How _apply_amount_to_loan_schedule spreads an amount.  Nowhere, when more is
\* paid than is owed.
Allocations(rows, amount) ==
    LET owed == Owed(rows)
        Last == {p \in Slot \X (1..amount) :
                   p[2] <= owed[p[1]] /\ SumFunction(UpTo(owed, p[1], p[2])) = amount}
    IN  {UpTo(owed, p[1], p[2]) : p \in Last}

StatusOf(rows, paid, i) ==
    LET Sum(f) == f[<<i, "penalty">>] + f[<<i, "interest">>] + f[<<i, "principal">>] IN
    IF Sum(paid) >= Sum(rows.expected) THEN "PAID"
    ELSE IF Sum(paid) > 0 THEN "PARTIAL"
    ELSE IF age[i] >= 1 THEN "OVERDUE"
    ELSE "DUE"

\* An installment is charged once, when it is past its grace and nothing of it
\* was paid.
Chargeable(rows, i) ==
    /\ StatusOf(rows, rows.paid, i) = "OVERDUE"
    /\ age[i] >= 2
    /\ rows.expected[<<i, "penalty">>] = 0
    /\ Charge > 0

\* Mutant: the loop ends before it saves the last installment.
VisitedBefore(taken) == {i \in Row : \E s \in Slot : s[1] > i /\ taken[s] > 0}

\* What it saves.  The loop over the installments ends once nothing is left of
\* a payment; it saves all it has come by, the settled ones as well.
Visited(taken) == {i \in Row : \E s \in Slot : s[1] >= i /\ taken[s] > 0}
Charged(rows) == {i \in Row : Chargeable(rows, i)}
Revised(rows) == {i \in Row : StatusOf(rows, rows.paid, i) # rows.status[i]}

Wanted(w) ==
    IF At(w, "write")
    THEN IF Is(w, Payer)
         THEN UNION {Visited(taken) : taken \in Allocations(work[w].rows, work[w].amount)}
         ELSE Charged(work[w].rows) \cup Revised(work[w].rows)
    ELSE IF At(w, "save") /\ Is(w, {"restructure"}) THEN Row ELSE {}

-----------------------------------------------------------------------------
(* Locks.  A row that was saved, and a receipt that was entered, are locked *)
(* until the transaction ends.                                              *)

Underway(w) == work[w].step \in {"write", "total", "save"}
HoldsLoan(w) == Is(w, {"mpesa"}) \/ (Is(w, {"restructure"}) /\ At(w, "save"))
HoldsRows(w) == IF At(w, "total") \/ At(w, "save") THEN work[w].writes ELSE {}

LoanBlocks(w, v) == At(w, "save") /\ HoldsLoan(v)
RowsBlock(w, v) == Wanted(w) \cap HoldsRows(v) # {}
ReceiptBlocks(w, v) ==
    At(w, "read") /\ Underway(v) /\ work[w].receipt = work[v].receipt /\ work[w].receipt \in Receipts

Blocks(w, v) == v # w /\ (LoanBlocks(w, v) \/ RowsBlock(w, v) \/ ReceiptBlocks(w, v))
Free(w) == \A v \in Workers : ~Blocks(w, v)
LoanFree(w) == \A v \in Workers \ {w} : ~HoldsLoan(v)

\* The database sees that two wait for each other, and aborts one.
Deadlocked(w) == \E v \in Workers : Blocks(w, v) /\ Blocks(v, w)

Break(w) ==
    /\ Deadlocked(w)
    /\ RollBack(w)
    /\ UNCHANGED <<loan, schedule, age, request, posted, received, charged, lent,
                   writeoffs, lost>>

-----------------------------------------------------------------------------
(* Payments: post_repayment, called from the desk and, with the loan       *)
(* locked, by the callback of M-Pesa; offset_loan_from_savings.            *)

NotRepayable == {"PAID", "WRITTEN_OFF"}

Begin(w, job) ==
    /\ At(w, "idle")
    /\ work' = [work EXCEPT ![w] = [job EXCEPT !.status = loan.status,
                                           !.defaulted = loan.defaulted]]
    /\ UNCHANGED <<loan, schedule, age, request, posted, received, charged, lent,
                   writeoffs, lost>>

BeginRepayment(w, kind, r, a) ==
    /\ loan.status \notin NotRepayable
    /\ kind = "mpesa" => LoanFree(w)
    /\ Begin(w, [Idle EXCEPT !.kind = kind, !.step = "read", !.receipt = r, !.amount = a])

BeginOffset(w, a) ==
    /\ a <= SumFunction(loan.due)
    /\ Begin(w, [Idle EXCEPT !.kind = "offset", !.step = "read", !.receipt = Offset,
                             !.amount = a])

\* The receipt is entered, and the schedule is read, without a lock.
\* receipt_code is unique.
ReadSchedule(w) ==
    /\ At(w, "read")
    /\ Is(w, Payer \cup {"sweep"})
    /\ Free(w)
    /\ IF work[w].receipt \in posted \cap Receipts THEN RollBack(w)
       ELSE work' = [work EXCEPT ![w].step = "write", ![w].rows = schedule]
    /\ UNCHANGED <<loan, schedule, age, request, posted, received, charged, lent,
                   writeoffs, lost>>

\* Mutant: the whole row is saved, with the amounts expected when it was read.
CreditedWhole(rows, taken) ==
    LET paid == [s \in Slot |-> rows.paid[s] + taken[s]] IN
    [expected |-> [s \in Slot |-> IF s[1] \in Visited(taken) THEN rows.expected[s]
                                  ELSE schedule.expected[s]],
     paid |-> [s \in Slot |-> IF s[1] \in Visited(taken) THEN paid[s] ELSE schedule.paid[s]],
     status |-> [i \in Row |-> IF i \in Visited(taken) THEN StatusOf(rows, paid, i)
                               ELSE schedule.status[i]]]

\* The rows as saved: the fields it computed from what it had read, over the
\* rows as they are.
Credited(rows, taken) ==
    LET paid == [s \in Slot |-> rows.paid[s] + taken[s]] IN
    [schedule EXCEPT
        !.paid = [s \in Slot |-> IF s[1] \in Visited(taken) THEN paid[s] ELSE @[s]],
        !.status = [i \in Row |-> IF i \in Visited(taken) THEN StatusOf(rows, paid, i)
                                  ELSE @[i]]]

\* Mutant: an installment is saved by its place in the schedule.
GoneNever(job) == FALSE
Gone(job) == job.since = "replaced"

\* A row that is gone cannot be saved; more than is owed is refused; an offset
\* enters its receipt now, and there is one of a loan.
Apply(w) ==
    /\ At(w, "write")
    /\ Is(w, Payer)
    /\ Free(w)
    /\ LET job == work[w]
           fits == Allocations(job.rows, job.amount)
       IN  IF Gone(job) \/ fits = {} \/ job.receipt \in posted THEN RollBack(w)
           ELSE \E taken \in fits :
                    work' = [work EXCEPT ![w] =
                        [job EXCEPT !.step = "total", !.amount = 0, !.taken = taken,
                                    !.rows = Credited(job.rows, taken),
                                    !.writes = Visited(taken)]]
    /\ UNCHANGED <<loan, schedule, age, request, posted, received, charged, lent,
                   writeoffs, lost>>

\* Mutant: the balances are reduced by what was paid, not read again.
TotalReduced(w) ==
    /\ At(w, "total")
    /\ work' = [work EXCEPT ![w].step = "save",
                   ![w].due = [s \in Slot |-> IF work[w].taken[s] < loan.due[s]
                                              THEN loan.due[s] - work[w].taken[s] ELSE 0]]
    /\ UNCHANGED <<loan, schedule, age, request, posted, received, charged, lent,
                   writeoffs, lost>>

\* _recalculate_loan_balances: the loan is saved, once it is free.
Total(w) ==
    /\ At(w, "total")
    /\ work' = [work EXCEPT ![w].step = "save", ![w].due = Owed(Merged(work[w]))]
    /\ UNCHANGED <<loan, schedule, age, request, posted, received, charged, lent,
                   writeoffs, lost>>

\* What the other requests have read is overtaken.
Overtaken(w, by) ==
    [v \in Workers |->
        IF v = w THEN Idle
        ELSE IF At(v, "write") /\ work[v].since # "replaced" THEN [work[v] EXCEPT !.since = by]
        ELSE work[v]]

HasOverdue(rows) == \E i \in Row : rows.status[i] = "OVERDUE"

\* _update_loan_status_after_repayment_change; its loan is the one it read.
StatusAfterPayment(job) ==
    IF ~Owes(job.due) THEN "PAID"
    ELSE IF job.defaulted THEN "DEFAULTED_RECOVERING"
    ELSE IF HasOverdue(Merged(job)) THEN "OVERDUE"
    ELSE "ACTIVE"

StatusAfterOffset(job) == IF Owes(job.due) THEN loan.status ELSE "RECOVERED_FROM_OFFSET"

CommitPayment(w) ==
    LET job == work[w] IN
    /\ At(w, "save")
    /\ Is(w, Payer)
    /\ Free(w)
    /\ schedule' = Merged(job)
    /\ loan' = [loan EXCEPT
           !.due = job.due,
           !.status = IF job.kind = "offset" THEN StatusAfterOffset(job)
                      ELSE StatusAfterPayment(job)]
    /\ posted' = posted \cup {job.receipt}
    /\ received' = [s \in Slot |-> received[s] + job.taken[s]]
    /\ lost' = (lost \/ job.since = "paid")
    /\ work' = Overtaken(w, "paid")
    /\ UNCHANGED <<age, request, charged, lent, writeoffs>>

-----------------------------------------------------------------------------
(* The sweep: loans_overdue_default_sweep, refresh_loan_delinquency.       *)

\* Mutant: only loans that are late are swept.
SweptLate == {"OVERDUE", "DEFAULTED", "DEFAULTED_RECOVERING"}
Swept == {"APPROVED", "DISBURSED", "ACTIVE", "OVERDUE", "DEFAULTED", "DEFAULTED_RECOVERING"}

\* The loan is selected; its turn comes later.  The job runner lets one sweep
\* run at a time.
BeginSweep(w) ==
    /\ loan.status \in Swept
    /\ \A v \in Workers : ~Is(v, {"sweep"})
    /\ Begin(w, [Idle EXCEPT !.kind = "sweep", !.step = "look"])

Look(w) ==
    /\ At(w, "look")
    /\ work' = [work EXCEPT ![w].step = "read", ![w].status = loan.status,
                              ![w].defaulted = loan.defaulted]
    /\ UNCHANGED <<loan, schedule, age, request, posted, received, charged, lent,
                   writeoffs, lost>>

Refreshed(rows) ==
    [schedule EXCEPT
        !.expected = [s \in Slot |-> IF s[2] = "penalty" /\ s[1] \in Charged(rows) THEN Charge
                                     ELSE @[s]],
        !.status = [i \in Row |-> IF i \in Revised(rows) THEN StatusOf(rows, rows.paid, i)
                                  ELSE @[i]]]

\* The rows that changed are saved.
Refresh(w) ==
    /\ At(w, "write")
    /\ Is(w, {"sweep"})
    /\ Free(w)
    /\ LET job == work[w] IN
       IF Gone(job) /\ Wanted(w) # {} THEN RollBack(w)
       ELSE work' = [work EXCEPT ![w] =
                [job EXCEPT !.step = "total", !.rows = Refreshed(job.rows),
                            !.writes = Wanted(w), !.charges = Charged(job.rows)]]
    /\ UNCHANGED <<loan, schedule, age, request, posted, received, charged, lent,
                   writeoffs, lost>>

\* The default is counted from the earliest overdue installment.
InDefault(rows) ==
    \E i \in Row :
        /\ rows.status[i] = "OVERDUE" /\ age[i] >= 3
        /\ \A j \in 1..i-1 : rows.status[j] # "OVERDUE"

StatusAfterSweep(job, rows) ==
    IF ~Owes(job.due) THEN "PAID"
    ELSE IF InDefault(rows) THEN "DEFAULTED"
    ELSE IF HasOverdue(rows) THEN "OVERDUE"
    ELSE "ACTIVE"

CommitSweep(w) ==
    LET job == work[w]
        status == StatusAfterSweep(job, Merged(job))
    IN  /\ At(w, "save")
        /\ Is(w, {"sweep"})
        /\ Free(w)
        /\ schedule' = Merged(job)
        /\ charged' = [i \in Row |-> charged[i] + IF i \in job.charges THEN Charge ELSE 0]
        /\ loan' = [status |-> status, due |-> job.due,
                    defaulted |-> job.defaulted \/ status = "DEFAULTED"]
        /\ RollBack(w)
        /\ UNCHANGED <<age, request, posted, received, lent, writeoffs, lost>>

\* contributions_mark_overdue_and_penalize: one UPDATE, of any loan's rows.  It
\* waits for those that are locked, and looks at them again.
PastDue == {i \in Row : schedule.status[i] = "DUE" /\ age[i] >= 1}

MarkOverdue ==
    /\ PastDue # {}
    /\ \A w \in Workers : HoldsRows(w) \cap PastDue = {}
    /\ schedule' = [schedule EXCEPT
           !.status = [i \in Row |-> IF i \in PastDue THEN "OVERDUE" ELSE @[i]]]
    /\ UNCHANGED <<loan, age, request, posted, received, charged, lent, writeoffs, lost, work>>

-----------------------------------------------------------------------------
(* Restructuring, write-off, disbursement; time.                           *)

\* A loan being disbursed can be restructured too.
AskRestructure ==
    /\ request = "none"
    /\ loan.status \in Swept
    /\ request' = "requested"
    /\ UNCHANGED <<loan, schedule, age, posted, received, charged, lent, writeoffs, lost, work>>

\* Mutant: the repayments are not looked for.
UnpaidOrNot == TRUE
Unpaid == posted = {}

\* review_loan_restructure looks for repayments, not at the loan's status ...
BeginRestructure(w) ==
    /\ request = "requested"
    /\ Unpaid
    /\ Begin(w, [Idle EXCEPT !.kind = "restructure", !.step = "read"])

\* ... saves the loan, which locks it ...
SaveTerms(w) ==
    /\ At(w, "read")
    /\ Is(w, {"restructure"})
    /\ LoanFree(w)
    /\ work' = [work EXCEPT ![w].step = "save"]
    /\ UNCHANGED <<loan, schedule, age, request, posted, received, charged, lent,
                   writeoffs, lost>>

\* ... and puts a new schedule in place of the old one.
CommitRestructure(w) ==
    /\ At(w, "save")
    /\ Is(w, {"restructure"})
    /\ Free(w)
    /\ schedule' = NewSchedule
    /\ age' = [i \in Row |-> 0]
    /\ charged' = [i \in Row |-> 0]
    /\ loan' = [loan EXCEPT !.status = "RESTRUCTURED", !.due = NewSchedule.expected]
    /\ request' = "applied"
    /\ lost' = (lost \/ posted # {})
    /\ work' = Overtaken(w, "replaced")
    /\ UNCHANGED <<posted, received, lent, writeoffs>>

BeginWriteOff(w) ==
    /\ Owes(loan.due)
    /\ writeoffs < MaxWriteOffs
    /\ At(w, "idle")
    /\ work' = [work EXCEPT ![w] = [Idle EXCEPT !.kind = "write off", !.step = "save",
                                               !.status = loan.status]]
    /\ writeoffs' = writeoffs + 1
    /\ UNCHANGED <<loan, schedule, age, request, posted, received, charged, lent, lost>>

CommitWriteOff(w) ==
    /\ At(w, "save")
    /\ Is(w, {"write off"})
    /\ Free(w)
    /\ loan' = [loan EXCEPT !.status = "WRITTEN_OFF", !.due = Nothing]
    /\ RollBack(w)
    /\ UNCHANGED <<schedule, age, request, posted, received, charged, lent, writeoffs, lost>>

\* disburse_loan.
BeginDisbursement(w) ==
    /\ loan.status = "APPROVED"
    /\ Begin(w, [Idle EXCEPT !.kind = "disburse", !.step = "save"])

\* The idempotency_key of the journal is unique, but the desk may name another
\* one.  The callback of a payout makes the loan ACTIVE in the same transaction.
CommitDisbursement(w) ==
    /\ At(w, "save")
    /\ Is(w, {"disburse"})
    /\ Free(w)
    /\ \/ lent /\ UNCHANGED <<loan, lent>>
       \/ \E status \in {"DISBURSED", "ACTIVE"} :
              /\ lent' = TRUE
              /\ loan' = [loan EXCEPT !.status = status, !.due = Owed(schedule)]
    /\ RollBack(w)
    /\ UNCHANGED <<schedule, age, request, posted, received, charged, writeoffs, lost>>

\* Earlier installments are due before later ones.  The sweep runs at six in the
\* morning, and no request lasts until the next one.
GrowOlder(i) ==
    /\ \A w \in Workers : At(w, "idle")
    /\ age[i] < MaxAge
    /\ \A j \in 1..i-1 : age[j] > age[i] \/ age[j] = MaxAge
    /\ age' = [age EXCEPT ![i] = @ + 1]
    /\ UNCHANGED <<loan, schedule, request, posted, received, charged, lent, writeoffs, lost, work>>

Continue(w) ==
    \/ Look(w)
    \/ ReadSchedule(w)
    \/ Apply(w)
    \/ Total(w)
    \/ CommitPayment(w)
    \/ Refresh(w)
    \/ CommitSweep(w)
    \/ SaveTerms(w)
    \/ CommitRestructure(w)
    \/ CommitWriteOff(w)
    \/ CommitDisbursement(w)
    \/ Break(w)

Next ==
    \/ \E w \in Workers :
        \/ \E kind \in {"desk", "mpesa"} \cap Requests, r \in Receipts, a \in Amounts :
              BeginRepayment(w, kind, r, a)
        \/ "offset" \in Requests /\ \E a \in Amounts : BeginOffset(w, a)
        \/ BeginSweep(w)
        \/ BeginRestructure(w)
        \/ "write off" \in Requests /\ BeginWriteOff(w)
        \/ "disburse" \in Requests /\ BeginDisbursement(w)
        \/ Continue(w)
    \/ "restructure" \in Requests /\ AskRestructure
    \/ \E i \in Row : GrowOlder(i)
    \/ MarkOverdue

\* The database grants a lock to who waits for it, and the schedule starts the
\* sweep again and again, on whichever process is free.
Fairness ==
    /\ \A w \in Workers : SF_vars(Continue(w))
    /\ SF_vars(\E w \in Workers : BeginSweep(w))

Spec == Init /\ [][Next]_vars
FairSpec == Spec /\ Fairness

-----------------------------------------------------------------------------
(* Properties.                                                             *)

\* However stale the rows a request computes from, no installment is credited
\* with more than is expected of it: allocations come from one reading, and
\* saves name their fields, so that a penalty charged meanwhile stays.
PaidWithinExpected ==
    \A s \in Slot : schedule.paid[s] <= schedule.expected[s]

\* The penalty that an installment expects is the penalty that the journal has
\* charged for it, whatever was saved over the row since.
PenaltiesAreBooked ==
    \A i \in Row : schedule.expected[<<i, "penalty">>] = charged[i]

\* Unless one payment has overtaken another, what the journal has received for
\* an installment is what the schedule shows as paid.
BooksFollowSchedule ==
    ~lost => \A s \in Slot : received[s] = schedule.paid[s]

Settled == {"PAID", "RECOVERED_FROM_OFFSET"}

\* A loan that is paid is taken up again only by a request that had read it
\* before it was, or by a payment that another one has overtaken.
\* review_loan_restructure relies on the repayments it finds.
SettledIsFinal ==
    [][(loan.status \in Settled /\ loan'.status \notin Settled /\ ~lost) =>
            \E w \in Workers :
                At(w, "save") /\ (work[w].status \notin Settled \/ work[w].since = "paid")]_vars

\* A loan that counts as paid owes nothing, unless one payment has overtaken
\* another: a penalty charged while the last payment was on its way keeps the
\* loan open, whichever of the two commits first.
PaidOwesNothing ==
    loan.status = "PAID" /\ ~lost => ~Owes(Owed(schedule))

\* A loan with nothing left to pay ends up settled or written off: a sweep that
\* puts an old status back over it is followed by one that does not.
PaidUpIsSettled ==
    (\A s \in Slot : Owed(schedule)[s] = 0) ~> (loan.status \in Settled \cup {"WRITTEN_OFF"})
=============================================================================
