# A formal model of the MyChama backend

MyChama runs savings groups (chamas): members contribute, borrow, are fined, vote and are paid
out, mostly over M-Pesa. The backend is a Django/DRF application with Celery workers on
PostgreSQL. This directory models its money paths in TLA+, checks the models with TLC and proves
theorems about them with TLAPS. All paths below are under `src/`.

## 1. Inventory

### What makes this code hard

* **Autocommit handlers.** `ATOMIC_REQUESTS` is off. A handler without `transaction.atomic` commits
  statement by statement; an object read at its start may be stale when it is saved. `send_b2c_payout`,
  the approvals and `verify_payment` are of this kind, with a call to the provider in the middle.
* **Callbacks.** The provider answers a request with an acknowledgement and later calls back, once or
  several times, before or after a queue timeout, and in any order. Callbacks run in one transaction.
* **Retries.** Celery jobs resend failed payouts and expire stale intents beside the users' requests.
* **Two doors.** A loan can be disbursed through its payment intent or directly through
  `LoanDisburseView`; a wallet is written by four services, some with and some without a row lock.
* **Lost replies and dead processes.** A request can stop between two statements; nothing is undone.

### Components

| component | state it keeps | operations | interacts with | must hold | status |
|---|---|---|---|---|---|
| B2C payouts, `apps/payments/services.py`, `tasks.py` | `PaymentIntent`, `WithdrawalApprovalLog`, `MpesaB2CPayout` | request, approve, reject, send, resend, result, timeout | provider (HTTP and callbacks), finance journal, loans | only approved money is sent; an acknowledged payout is booked; a booked one was paid; no callback undoes an acknowledgement | **modelled**: `B2CPayout` |
| deposits and repayments of the payment workflow, `apps/payments/services.py` | `PaymentIntent`, `MpesaSTKTransaction`, `MpesaC2BTransaction`, `PaymentRefund` | push, callback, paybill validation and confirmation, expiry, refund | provider, finance | what counts as paid is booked, and the reverse; a split is whole; a paid push stays paid | **modelled** but for refunds: `MpesaDeposit` |
| unified intents, `apps/payments/unified_services.py`, `unified_tasks.py` | `PaymentIntent`, `PaymentTransaction`, `PaymentReceipt` | create, verify, webhook, expire, refund, dispute, reconcile | provider, finance, penalties, member wallet | a payment is credited at most once and only if paid; SUCCESS has its receipt | **modelled** for M-Pesa: create, webhook, verify, expire: `PaymentIntake` |
| penalties, `apps/finance/services.py` | `Penalty.status`, `amount_paid` | issue, pay, mark paid, waive | unified intents, journal | shows no more as paid than the journal holds; fines by M-Pesa settle it once | paying, marking and waiving: `PaymentIntake` |
| loans, `apps/finance/services.py` | `Loan`, instalments, repayments, restructure requests, guarantors | apply, approve, disburse, repay, offset, sweep, penalise, restructure, write off, top up | payouts, journal, wallets | the schedule follows the journal; nothing overpaid; a settled loan stays settled; a paid-up loan is settled in the end | **modelled** from the decision on the application on: `B2CPayout`, `LoanServicing` |
| journal, `apps/finance/services.py` | `JournalEntry`, `LedgerEntry` | balanced posting under an idempotency key | everything that moves money | what each operation has posted agrees with the rows it changed | postings of the modelled operations |
| member wallet, `apps/finance/member_wallet_workflow.py` | `Wallet.available_balance`, `locked_balance`, wallet `LedgerEntry` | deposit, withdraw (lock, complete), transfer, contribute | unified intents, chama wallet | never negative; a request moves its amount at most once; a lock lasts as long as its withdrawal is pending; deadlocks are broken | **modelled**: `MemberWallet` |
| billing, `apps/billing/` | `Invoice`, `BillingCredit`, `BillingCreditAllocation`, `Subscription`, `BillingWebhookEvent` | checkout, reserve, apply, release, renew, revoke, lapse | provider | a credit is spent or given back once; spent only for a payment; a payment settles its invoice | **modelled** for M-Pesa: `BillingCheckout` |
| governance, `apps/governance/` | `Motion`, `MotionVote`, `MotionResult`; role changes, approval requests | open, vote, count, close, edit | chama memberships, Celery | the count is of the votes; counting closes no motion without its result, which stands; an expired one is closed | motions **modelled**: `MotionVoting` |
| issues, `apps/issues/` | issue status, assignments, appeals | triage, escalate, resolve, appeal, auto-close | notifications | closed stays closed unless reopened | not modelled |
| security, `apps/security/` | PIN secrets, lockouts, audit chain | verify PIN, lock out, unlock, chain audit records | accounts | failures are counted; a lockout is not skipped | not modelled |
| accounts, `apps/accounts/` | users, OTP tokens, sessions, KYC | issue and verify OTP, screen, expire | SMS and KYC providers | one live OTP; attempts bounded | not modelled |
| automations, `apps/automations/`, `config/celery_schedule.py` | job runs, cache lock | run a job under a lock of 600 s | all jobs | one run of a job at a time | its schedules enter the models as fairness |
| rotation payouts, `apps/payouts/` | `Payout`, rotation order | trigger, approve, send, confirm | provider, chama | member paid once per cycle | not modelled: its steps call methods that do not exist |
| the rest: chama, meetings, investments, notifications, messaging, ai, analytics, reports, exports, search, privacy and the thin service modules | their own rows | create, read, update | | | not modelled: see section 11 |

`PROJECT.json` lists every component with its sources, and under `hazards` every place where this
code is hard to test, each with the property that watches it or the reason none does yet.

## 2. Plan

Each row is a module of the system with its abstract specification, the module that gives it to TLC, and its
proofs. No two of them write the same row in the code except where the table says so.

| module | with | meets the others at |
|---|---|---|
| `B2CPayout` | `PayoutPromise`, `MCB2CPayout`, `B2CPayoutProofs` | `Loan.status`, which `Service` lets the sweep of `LoanServicing` change |
| `PaymentIntake` | `PaymentPromise`, `MCPaymentIntake`, `PaymentIntakeProofs` | a settled wallet deposit is a `Deposits` member of `MemberWallet` |
| `MpesaDeposit` | `PaymentPromise`, `MCMpesaDeposit`, `MpesaDepositProofs` | its repayments are requests of kind "mpesa" in `LoanServicing`; `Accepted` stands for what finance answers |
| `LoanServicing` | `MCLoanServicing`, `LoanServicingProofs`, `LoanSettledProofs` | `BeginDisbursement`, `CommitDisbursement` stand for what `B2CPayout` does to a loan |
| `MemberWallet` | `WalletPromise`, `MCMemberWallet`, `MemberWalletProofs` | |
| `BillingCheckout` | `MCBillingCheckout`, `BillingCheckoutProofs` | |
| `MotionVoting` | `MCMotionVoting`, `MotionVotingProofs` | |

The models are not composed into one: the places where they meet are abstracted on each side to what the
other can do there at any time, which is weaker than the composition and keeps the instances within reach.

Left, in the order of what it would add: the maker-checker refund up to its approval; loan applications,
guarantors and top-ups, before the requested loan that `B2CPayout` begins with; the status machine of issues; PIN
lockouts; the job lock.

Each module declares its parameters as CONSTANTS with named assumptions, has one action per operation
or per statement group of an autocommit handler, and uses no RECURSIVE operator, so that it can be
proved about. A definition whose comment begins with "Mutant" is a plausible error in the definition that
follows it and has no other use: `PROJECT.json` pairs each with the property that would catch it.

## 3. The B2C payout workflow

### State

| variable | in the code |
|---|---|
| `intent` | `PaymentIntent.status` of withdrawals and loan disbursements |
| `loan` | `Loan.status`, from the requested loan to paid out; REQUESTED stands for REVIEW too, ACTIVE for every later status |
| `logs` | `WithdrawalApprovalLog`: who approved an intent |
| `row` | `MpesaB2CPayout.status` by originator conversation id |
| `asked`, `provider` | external: what the provider was asked under a conversation, and what it did |
| `heard` | external: results the provider has had answered |
| `ledger` | journal postings of payouts: the intent and the idempotency key (a conversation, or the key of a direct disbursement) |
| `req` | what a web request or the sweep holds between two statements |

### Actions

| action | code |
|---|---|
| `RequestWithdrawal` | `request_withdrawal` |
| `BeginDecision`, `ApproveLoan`, `DeferLoan` | `FinanceService.approve_loan`, `review_loan`, `reject_loan`: the loan is read without a lock, and saved; an approval creates the disbursement intent, and the others put the loan off or reject it |
| `BeginApproval`, `LogApproval`, `FinishApproval` | `approve_withdrawal_intent`: read and check; create the log and read the state; save the status |
| `BeginRejection`, `FinishRejection` | `reject_withdrawal_intent`, `reject_loan_disbursement_intent` |
| `SweepPick` | `payments_retry_failed_b2c_payouts` chooses an intent |
| `BeginSend`, `MarkDisbursing`, `CallProvider`, `RecordPayout`, `FinishSend` | `send_b2c_payout`: checks; loan marked; request to the provider; row created; intent saved as PENDING |
| `Abandon` | an exception or a dead process between two statements: nothing is undone |
| `Decide` | external: the provider pays or refuses |
| `ResultPaid`, `ResultRefused`, `ResultUnmatched` | `process_b2c_result`, one transaction; `ResultUnmatched` is a result whose row does not exist yet, which is answered and dropped |
| `ResultTimeout` | `process_b2c_timeout` |
| `BeginDirectDisbursement`, `CommitDirectDisbursement` | `LoanDisburseView` and the admin console: `FinanceService.disburse_loan` on a loan read without a lock |
| `Service` | `refresh_loan_delinquency`, a repayment: they save the status they compute over a loan that is being disbursed (`LoanServicing` has it in detail) |

### Abstractions

* Roles are two fixed sets, `Treasurers` and `Admins`. Amounts do not appear: an intent is booked or not.
* The check of the chama's balance in `send_b2c_payout` is left to the environment. A send it refuses
  changes nothing, and no posting of this module changes its outcome: every journal is balanced, and the
  balance it computes counts all credits and debits of the chama's journals alike.
* `PostingRefused` stands for every reason `disburse_loan` has to refuse a loan's posting: closed month,
  liquidity reserve, missing disburser, loan not disbursable. A withdrawal's posting can be refused only
  if no user at all can be named as its actor; that case is left out.
* The callbacks hold row locks on the payout and its intent and are one step each. The loan is read in
  them without a lock, and a callback is not split between that read and its posting: it posts beside a
  direct disbursement in the model when that one has read the loan first. In the statement of
  `DisbursedOnce` a callback that has read its loan is one of the requests that saw it disbursable.
* The branch of `process_b2c_result` for intents of kind `member_wallet_withdrawal` is not modelled: no
  code creates a payout row for such an intent.
* Reading the approvals after creating one's own log row is one step with the creation.
* `Conversations` bounds the number of requests to the provider, `DirectKeys` the direct disbursements.

### Properties

Safety, in every interleaving: `SentWasApproved`, `AcknowledgedIsBooked`, `BookedWasPaid`,
`SuccessfulRowIsFinal`, and the type invariant.

`DisbursedOnce` is about loans. `disburse_loan` and the decisions read the loan without a lock, so two requests
that both find it disbursable may both post, and a late decision may save its status over a later one (section
12). What holds is that this is the only way: once the loan has left the statuses in which it is approved or
disbursed, and whoever read it there is through (`Over`), no retry, late result, refusal or direct disbursement
books anything for it, and it stays out of them. That holds too of a loan that was made active before
its money was sent.

`PromiseKept` is the refinement of
`PayoutPromise`, an abstract workflow whose steps are: approve, open a conversation for an approved
intent, book, acknowledge. Its mapping takes `approved` from the approval log, `opened` from `asked`, `acked`
from the SUCCESS rows and `booked` from the postings made under conversations.

Liveness: `PaidIsAcknowledged`. The fairness is the provider's only: it decides every
conversation it accepted (`WF Decide`) and calls back with the result until it is answered
(`WF CallBack`). Safaricom documents both, and the code depends on them: no job asks for the result of a
payout. Nothing is assumed of users, of the sweep or of queue timeouts. The property leaves out payouts
whose result came before their row existed, since the code drops that result.

### Runs

| run | instance | shows |
|---|---|---|
| `b2c_withdrawal` | 1 withdrawal, 1 treasurer, 1 admin, 2 conversations, 2 requests at a time and the sweep, under the provider's fairness | type invariant, `SentWasApproved`, `AcknowledgedIsBooked`, `BookedWasPaid`, `SuccessfulRowIsFinal`, `PaidIsAcknowledged` |
| `b2c_loan` | 1 requested loan, 2 conversations, 1 direct key, 2 requests at a time and the sweep | `DisbursedOnce`, `PromiseKept` |

Why the bounds suffice: two intents never share a row, a log or a conversation, so one intent
of each kind shows every interference with it, each in a run of its own. Two conversations are the first
number at which one can be stale against the other, and fewer than the sweep's limit of three attempts.
Two requests and the sweep give three concurrent senders, two decisions that cross, or a decision beside a
disbursement; the direct key and two conversations allow three postings of one loan. The instance of one treasurer and one admin is
the least that can approve. The theorems below hold for all sizes.
Symmetry is over conversations and over the requests served by users, which no definition tells
apart; the liveness run uses none. Deadlock is not checked: an instance stops when its conversations are used up.

## 4. The M-Pesa intake

### State

| variable | in the code |
|---|---|
| `status` | `PaymentIntent.status`; "none" until the creating transaction commits |
| `checkout` | external: what became of the STK push |
| `txn` | `PaymentTransaction.status` of the intent's one transaction row |
| `receipts` | intents with a `PaymentReceipt`, which is made in the transaction that makes the business record |
| `heard` | external: intents with a callback that was answered |
| `penalty` | `Penalty.status` and `amount_paid` |
| `posted` | journal credits to `penalty_receivable`: penalty, who posted, amount, payment or waiver |
| `barred` | contributions that `post_contribution` would refuse now |
| `req`, `desk` | what a worker, and a treasurer's request, hold between two steps |

### Actions

| action | code |
|---|---|
| `AskForMoney`, `CommitIntent`, `RollBackIntent` | `create_payment_intent`, one transaction with the push inside it: the push is out before the commit, and stays out if the commit fails |
| `MemberAnswers` | external: the member pays, refuses, or lets the prompt time out |
| `CallbackPaid`, `CallbackDeclined`, `CallbackDropped` | `process_webhook`, `_handle_webhook_success` and `_failure`, `_finalize_mpesa_callback_success` and `_failure`: the row is locked and checked again, so each is one step. A callback is dropped when no committed row matches it, the row is terminal or has its receipt, or the business event refuses the money: the exception is recorded in the webhook log and swallowed |
| `BeginVerify`, `QueryProvider`, `QueryFails`, `SaveVerification`, `VerificationRefused` | `verify_payment`: unlocked read, query, transaction that checks the transition from that read and saves every field |
| `EligibilityChanges` | what `post_contribution` looks at changes: the member or the contribution type is active or not, the month is open or closed |
| `Expire` | `expire_pending_payments`, for one row of its UPDATE |
| `BeginMarkPaid`, `CommitMarkPaid`, `BeginWaive`, `CommitWaive` | `mark_penalty_paid` and `waive_penalty` from their views: unlocked read and check, then save and posting |

`Settle` is `_handle_successful_payment` with `_finalize_business_event`, in the transaction of the callback or
of the query that calls it.

### Abstractions

* A fine pays one unit of its penalty; `PenaltyAmount` is the penalty in units. A fine's business event
  refuses the money because of the penalty, whose state is in the model; a contribution's because of rows
  outside it, so it may begin and cease to be refused at any time (`EligibilityChanges`). The wallet deposit, which
  is a purpose of its own, belongs to the member wallet's module.
* The callback's unlocked look at the row before it locks it is subsumed by the check under the lock.
* A callback whose transaction dies is one that was not delivered, and is not an action of its own.
* What the query may answer is read off the result codes the adapter tells apart: an undecided push is
  "pending" or an error, a declined one may be "pending" too (codes 1037 and 1), a decided one is not changed
  any more. The configuration with `MPESA_USE_STUB`, where every query succeeds, is not modelled.
* `verify_payment` saves every field; only the status and the transaction's status are kept here. The
  business record's link in the metadata, which a stale save also takes back, is left out.
* `mark_penalty_paid` from the desk pays what was outstanding when it read: its serializer takes no amount.
* `Desk` is a set of idempotency keys, so each desk request runs once. `expire_pending_payments` and
  `reconcile_payments` are in no schedule; the model lets them run at any time or never.

### Properties and runs

| run | instance | shows |
|---|---|---|
| `intake_core` | 1 contribution, 1 fine, 1 penalty of two units, 2 workers, 2 desk requests | type invariant; `PromiseKept`, the refinement of `PaymentPromise` (below); `ReceiptWasPaid`; `PaidIsPosted`: stale saves may lose money of `amount_paid`, never invent it (money is counted in units, `CreditsOf`) |
| `intake_fines` | 2 fines for 1 penalty of one unit, 2 workers, 1 desk request, under the provider's fairness | `FinesNotOvercollected`; `CallbackSettles` |

Why the bounds suffice: intents meet only at a penalty they share, and two for one penalty show that. A
stale query needs one worker, two stale queries of the same intent two. Two desk requests are the least that
can be stale against each other, and two units the least with a PARTIAL penalty. Symmetry is over workers and
desk requests, and is not used in `intake_fines`, which checks liveness. Deadlock is not checked: an instance
stops when every intent has ended.

Fairness: the provider calls back at least once about a decided push (`WF FirstCallback`), as Safaricom documents.
Nothing is assumed of members, queries, the desk or the tasks. `CallbackSettles` is stated for
intents that are committed when the callback comes, and unless the intent expires or its business event refuses; a callback before the commit is dropped, and nothing in
the schedule asks again.

### What both services promise (`PaymentPromise`)

`PaymentPromise` is the abstract specification of money that comes in, which this module and `MpesaDeposit`
both implement. Its state is what payments were made for (`paidFor`), the postings (`books`) and the intents
shown as paid (`shown`). A payment is booked once, in all its parts, for the intent it was made for; what is
booked stays booked; an intent is shown as paid only while a payment of it is in the books. An intent may be
hidden at any time: both services let a stale save take a paid intent out of SUCCESS. It is not promised that
an intent is paid once, since a reopened one can be (section 12).

| in `PaymentPromise` | in `PaymentIntake` | in `MpesaDeposit` |
|---|---|---|
| `paidFor` | the intent itself, when its push was paid | `asked`, when the payment was made in full |
| `books` | intents with a receipt and, for a fine, a posting | `journal` |
| `shown` | SUCCESS | SUCCESS |

`Book` is the settlement by callback or query on one side, and the accepted posting of callback or confirmation
on the other; `Show` is a query that saves SUCCESS again over an expiry or a stale PENDING; a posting that is
refused, wholly or in its second part, is a `Hide`.

## 5. Deposits and repayments (`MpesaDeposit`)

A member either asks for a push and confirms it on the phone, or pays to the paybill under a reference that the
service gave out. A split payment repays a loan with one part and is a contribution with the other.

| variable | in the code |
|---|---|
| `intent` | `PaymentIntent.status` |
| `tx` | `MpesaSTKTransaction.status` of a push, `MpesaC2BTransaction.processing_status` of a paybill payment |
| `latest` | the newest `MpesaSTKTransaction` of an intent, which the expiry task and a repeated request look at |
| `asked`, `provider` | external: the intent a payment was made for, and what became of it |
| `journal` | postings: the intent, its part, the payment whose receipt code they carry |
| `req` | what a request or a confirmation holds between two statements |

| action | code |
|---|---|
| `Ask`, `Push`, `RecordCheckout`, `SavePending`, `Abandon` | `initiate_deposit_stk`, `initiate_split_stk`, `initiate_loan_repayment_stk`, statement by statement: intent, provider, transaction row, and PENDING saved over whatever the intent has become |
| `MemberAnswers`, `PayBill` | external: the member pays a push or refuses it; pays to the paybill the amount or another |
| `CallbackPaid`, `CallbackFailed`, `CallbackOfPaidIntent` | `process_stk_callback` with `_post_intent_success`; it locks transaction, intent and chama and is one step |
| `Expire` | `expire_pending_stk`, for one intent |
| `GiveReference` | `create_deposit_c2b_intent`, `create_split_c2b_intent`, `create_loan_repayment_c2b_intent` |
| `BeginConfirmation`, `CommitConfirmation`, `ConfirmShort`, `ConfirmAgain` | `process_c2b_confirmation`: a transaction that reads its intent without a lock |

Abstractions: `Accepted` is the choice of finance: it takes the posting, refuses it, or takes the repayment of
a split and refuses its contribution. A refusal that is not a `FinanceServiceError` rolls the callback back,
which is a callback that was not delivered. "Short" is a payment that the service does not take for one: of
another amount, or, for a push, reported without its receipt number. A receipt number names one payment, so
that no push finds its own on another one's row (`payments/services.py:3174`); Safaricom guarantees it, and the
models of external payments have it by construction. Callbacks for an unknown push are dropped in the code and
disabled here. Left out: the copies in `PaymentTransaction`, M-Pesa fees, allocation rules, usage counters,
notifications and metadata.

Run `deposit_core`: one split intent with two pushes and one paybill intent with two payments, two processes.
It shows `SettledIsBooked`, `BookedWasPaid`, `ExpiredIsUnpaid`, `PaidPushIsFinal`, and `PromiseKept`, the
refinement of `PaymentPromise`. Two
pushes are the least at which one is answered after the other was booked, two processes the least at which a
stale PENDING crosses another request's callback. The two kinds of intent share nothing but the processes.
Symmetry over pushes, payments and processes is sound: nothing tells them apart and no liveness is checked
(the code promises none: a push nobody answers expires).

## 6. Loans (`LoanServicing`)

A loan after its approval, its schedule, and what reads and writes them. Each operation is one database
transaction that reads loan and schedule without locks, computes, and saves the fields it computed with
`update_fields`; PostgreSQL keeps a saved row locked until the transaction ends. Only the callback of an
M-Pesa payment locks the loan first. So a transaction is a sequence of steps, and a step that saves waits for
the rows it saves.

| variable | in the code |
|---|---|
| `loan` | `Loan.status`, the outstanding amounts by instalment and component, whether `defaulted_at` is set |
| `schedule` | `InstallmentSchedule`: expected and paid by component, status |
| `age` | time, by instalment: due, past due, past its grace, in default |
| `request` | the status of the loan's `LoanRestructureRequest` |
| `posted`, `received`, `charged`, `lent` | `Repayment.receipt_code`; what the journal has received, charged as penalty and paid out |
| `lost`, `writeoffs` | history: a payment's save has undone another's; how many write-offs began |
| `work` | what each transaction has read and saved |

| action | code |
|---|---|
| `BeginRepayment`, `BeginOffset`, `ReadSchedule`, `Apply`, `Total`, `CommitPayment` | `post_repayment` from the desk and from `_finalize_business_event`; `offset_loan_from_savings`; with `_apply_amount_to_loan_schedule`, `_recalculate_loan_balances`, `_update_loan_status_after_repayment_change` |
| `BeginSweep`, `Look`, `ReadSchedule`, `Refresh`, `Total`, `CommitSweep` | `loans_overdue_default_sweep`, `refresh_loan_delinquency` |
| `MarkOverdue` | `contributions_mark_overdue_and_penalize`: one UPDATE of the rows that are due and past their date, which waits for rows that are locked |
| `AskRestructure`, `BeginRestructure`, `SaveTerms`, `CommitRestructure` | `request_loan_restructure`, `review_loan_restructure`, `generate_schedule` |
| `BeginWriteOff`, `CommitWriteOff` | `write_off_loan` |
| `BeginDisbursement`, `CommitDisbursement` | `disburse_loan` |
| `GrowOlder`, `Break` | time; PostgreSQL aborts one of two transactions that wait for each other |

Abstractions: APPROVED stands for APPROVED and DISBURSING, ACTIVE for ACTIVE and DUE_SOON. A loan has one
restructure request, which keeps the number of instalments; a rejected one changes nothing else. Time passes
only when no request is under way: the sweep runs at six in the morning and no request lasts until the next
one. `reverse_repayment` is left out because both of its callers lock through a nullable join, which
PostgreSQL refuses (`process_refund`, `resolve_dispute` in `unified_services.py`). The tasks
`loans_auto_close_when_paid` and `loans_delinquency_monitor` are in no schedule. The penalties that
`contributions_mark_overdue_and_penalize` and `loans_auto_penalty_calculator` issue are `Penalty` rows, paid as
in section 4, and leave the schedule alone. A second approval of the loan, decided from a stale read, would
make its schedule anew; it is left out here (`B2CPayout` has the stale decision).

| run | instance | shows |
|---|---|---|
| `loan_core` | two instalments, payments of one or two units at the desk, by M-Pesa and out of savings, the sweep, the marking task and a restructuring, two processes, up to an age past grace | `PaidWithinExpected`, `PenaltiesAreBooked`, `BooksFollowSchedule`, `PaidOwesNothing`, `SettledIsFinal` |
| `loan_settles` | one instalment up to default, desk, M-Pesa, a write-off, a disbursement | `PaidUpIsSettled` |

Two instalments are the least at which an amount is spread and the oldest matters; payments of one and two
units pay a part, all of an instalment, or one and a part of the next; two processes are the least that
overlap. `BooksFollowSchedule` and `PaidOwesNothing` are stated up to the first time one payment overtakes
another (`lost`), since the second save then undoes the first (section 12). `SettledIsFinal` lets two kinds of
request take a settled loan up again with their save: one that had read the loan before it was settled, and a
payment or offset that another payment committed under (`since = "paid"`), which is the step that sets `lost`.

Fairness, for `loan_settles`: a transaction goes on and gets the locks it waits for (`SF Continue`: PostgreSQL
queues for a row lock, and breaks deadlocks), and the schedule starts the sweep again and again
(`config/celery_schedule.py:50`).

## 7. Member wallets (`MemberWallet`)

| variable | in the code |
|---|---|
| `avail`, `locked`, `pot` | `Wallet.available_balance` and `locked_balance` of members, and the chama's wallet |
| `status` | `PaymentIntent.status` of withdrawals |
| `entries` | the successful `LedgerEntry` rows with their idempotency keys |
| `work` | the request of each process and the row locks it has taken |
| `astray` | history: members whose wallet a stale save has hit |

| action | code |
|---|---|
| `Begin`, `TakeLock` | a request, and its next `select_for_update`; `Plan` and `PlanOf` list the rows in the order of the code |
| `Transfer`, `Contribute`, `RequestWithdrawal` | `create_member_wallet_transfer`, `_contribution`, `_withdrawal`, with `_create_wallet_details` |
| `BeginRefresh`, `CompleteWithdrawal` | `refresh_member_wallet_withdrawal`, `_complete_member_wallet_withdrawal_success` |
| `ReadWallet`, `PostDeposit` | `_post_wallet_deposit_to_member_wallet`: unlocked read, then a save of the balance read plus the amount |
| `RollBack`, `Break` | another check refuses, the process dies; the database breaks a deadlock |

A request is one transaction and what it reads under its locks cannot change, so its writes are one step when
all locks are held. Locks are still taken one by one, because that is where requests wait for each other.
`select_related("user").select_for_update()` locks the user's row as well, so that a transfer and a request of
its recipient can wait for each other, not only opposite transfers.

Not modelled: `_release_member_wallet_withdrawal_lock`, which runs for a FAILED withdrawal, while no reachable
path marks one so. Withdrawals complete only under `MPESA_USE_STUB` (`Stub`); their provider is unknown to the
factory, and otherwise they stay PENDING and their money locked.

`WalletPromise` is the abstract specification: a request moves its amount once, between the two accounts it
names, if the money is there (`Move`). Some requests are `Fragile`: they may spoil the wallets they name
(`Spoil`), whose balance is not kept from then on; every other wallet stays exact. `MovesOnce` says that
`MemberWallet` implements it, with `balance` mapped to available plus locked of the chama and of the members
who are not `astray`, and `done` to the requests that have an entry. Fragile are deposits and withdrawals: a
deposit that saves the balance it read before another request of its member changed it, and a completion of a
withdrawal that is completed already, which takes its amount from the lock of another (section 12). So the
property says of these faults of the code how far they reach: to the member who asked, and to no other wallet.
It states balances, not ledger entries: the second debit of a contribution (section 12) is in `entries`, and
is no second movement.

Run `wallet_core`: Ann has two units and Ben none. They send each other one, Ann contributes and withdraws, Ben
has a deposit beside two withdrawals, and refreshes run on both processes. That is the least in which opposite
transfers can deadlock, requests compete for a balance that does not suffice for all, a deposit crosses its
member's other requests, and a refresh comes late beside another withdrawal. It shows `LockedIsPending`,
`MovesOnce` and `EveryRequestEnds`. `LockedIsPending` is stated for a member's only withdrawal, for the reason
given above. Deadlock is checked: some request is always possible.

Fairness: the queue for a row's lock is served in order and a transaction that has its locks finishes (`SF
TakeLock`, `SF Finish`), and the database looks for deadlocks (`WF Break`). Nothing is assumed of members, who
may ask or not.

## 8. Billing (`BillingCheckout`)

| variable | in the code |
|---|---|
| `credit`, `alloc` | `BillingCredit.remaining_amount`, `BillingCreditAllocation` |
| `invoice` | `Invoice`: status, `total_amount`, whether `provider_transaction_id` and `paid_at` are set |
| `prompt` | external: what became of the M-Pesa prompt |
| `sub` | `Subscription`: status, whether the period is over, the checkout in `provider_subscription_id` |
| `handled` | invoices whose `BillingWebhookEvent` has `processed_at` |
| `work` | what a view or task holds between two saves |

| action | code |
|---|---|
| `BeginCheckout`, `ReleaseStale`, `Reserve`, `Ask`, `Find` | `CheckoutView.post`, `create_checkout_invoice`, `reserve_credits_for_invoice` |
| `BeginRenewal`, `Create` | `process_payment_retries`, which asks before it creates the invoice |
| `BeginCallback`, `Subscribe`, `Link`, `Apply`, `Pay`, `ReleaseFailed`, `Fail`, `Answer` | `MpesaWebhookView.post`, `confirm_checkout_subscription`, `change_plan`, `apply_reserved_credits`, `mark_invoice_paid`, `mark_invoice_failed` |
| `BeginSweep`, `Sweep`, `Void` | `release_stale_credit_reservations_for_all` |
| `Revise`, `BeginRevoke`, `Revoke`, `CreditExpires` | `update_billing_credit`, `revoke_billing_credit`, `expires_at` |
| `BeginLapse`, `Lapse`, `PeriodEnds` | `process_subscription_lifecycle`; time |
| `Crash` | a process dies between two saves |

The three functions on reservations lock the credits they change and are one step each; everything else saves
row by row without a transaction. Prices are units of credit; plans, taxes and periods are left out. A declined
callback also sets the subscription its invoice is linked to, if any, to PAST_DUE (`billing/views.py:1194`);
only the callback of a payment links one (`billing/services.py:547`), and a prompt is decided once, so that no
declined callback of the model finds one, and the save is left out. Not
modelled: the Stripe view, manual confirmation by staff, cancelling and scheduled downgrades, entitlements and
metering: they write other rows.

| run | instance | shows |
|---|---|---|
| `billing_core` | two credits of one unit, a price of two, a checkout and a renewal, two processes | `CreditConserved`, `SpentWhenPaid` |
| `billing_settles` | one credit, one checkout, one crash, two processes | `PaidIsSettled` |

Two credits are the least with an order in which they are used up; a checkout and a renewal compete for them,
and the checkout's invoice can be discounted fully, in part or not. Two processes suffice for a sweep or a
second callback to cross a first. `CreditConserved` counts the units that allocations hold (`Held`), and
leaves credits out that staff set to another amount.
`PaidIsSettled` is about payments whose invoice the callback can find; the others are dropped (section 12).

Fairness: a process that lives goes on, and Safaricom repeats a callback until it is answered (`SF
BeginCallback`). Nothing is assumed of members, staff, or the billing tasks, which are in no schedule.

## 9. Motions (`MotionVoting`)

| variable | in the code |
|---|---|
| `type`, `status`, `endTime` | `Motion.vote_type`, `status`, `end_time` |
| `now` | the clock |
| `active` | members with an active, approved membership in a voting role |
| `vote`, `result` | `MotionVote`, `MotionResult` (with the history variable `settled`: counting began when no vote could come any more) |
| `work` | what a request or the task has read and counted (with the history variable `rested`: it found the motion at rest) |
| `closedByEdit`, `deferred` | history: an edit has given the motion the status CLOSED, has put its end off |

| action | code |
|---|---|
| `BeginCast`, `CheckWindow`, `SaveVote` | `MotionViewSet.cast_vote` |
| `BeginClose`, `BeginResults`, `BeginCount`, `Count`, `Store`, `Close` | `close`, `results` and `_finalize_motion`, which a late vote runs too: five counts, the result, the status |
| `BeginSchedule` | `close_expired_voting`; it counts, stores and closes by the same steps with a rule of its own (`Passed`) |
| `BeginEdit`, `SaveEdit` | `update` of the view set, open to any active member: the row is read, and saved whole with the status and the end the form gives, any of them (`Statuses`, `Ends`; `None` is a form that leaves the field out) |
| `Tick`, `Leave`, `Crash` | the clock, members, processes |

Every query is a transaction of its own. Edits of the kind of motion, the quorum, the roles and the start,
deletion, and the check of `start_time` are left out. `governance/voting_service.py` is used nowhere. The percentages are exact here; the code rounds a
floating-point product up (section 12).

| run | instance | shows |
|---|---|---|
| `motion_core` | a unanimous motion and two members, two requests to vote, one edit to any status and to an end that is sooner, later or left, two processes | `SettledCountIsExact`, `VerdictStands` |
| `motion_closes` | a special motion and one member, one vote, one edit that opens, closes or defers it, one crash, two processes, the clock up to the later end | `ClosedHasResult`, `ExpiredIsClosed` |

An edit may close a motion that nobody counted, reopen one that was, or put its end off (section 12). Each
property names the edit that would decide it, and holds beside all others:

* `ClosedHasResult`: a closed motion has a result unless an edit gave it that status (`closedByEdit`). A stale
  edit, a crash between the two saves or a second count do not matter.
* `SettledCountIsExact`: a count that began after the last possible vote is exact until an edit puts the end
  off (`deferred`). Edits that close, cancel or reopen the motion, or bring its end forward, do not matter.
* `VerdictStands`: a motion that is closed with a result, and has nobody at work on it who began earlier, keeps
  votes and verdict, and goes on so until an edit gives it another status. A motion that an edit closed
  without a result is not at rest, since a reader's or an official's count may still give it one.
* `ExpiredIsClosed`: a motion open past its end is closed unless an edit puts the end off.

A unanimous motion is where a request's rule and the task's differ most, so that two finalizers store
different results. Two members and two votes let a vote come in between the counts and be changed; one edit is
the least that can be stale against a count, a vote or a closing, and each kind of edit is one; the
theorems hold for any number. Deadlock is checked: a motion can always be asked for.

Fairness: a process that lives goes on, and the schedule starts the task again and again
(`config/celery_schedule.py:140`).

## 10. Proofs

All theorems are of the form `Spec => ...` and hold for every value of the constants that satisfies the named
assumption of the module: any number of members, intents, instalments, processes, any bound on counters. Each
proof has an inductive invariant `IInv` that TLC was given first, one lemma for each action or group of
actions, and a lemma that puts them together. Every safety property that a run checks, invariant, action
property or refinement, is a theorem here.

Sums of money are counted. A sum over a set of rows is a fold, and what a fold yields needs induction; so
the models take an amount as a set of that many units (`Units` in `PaymentIntake`, `Held` in
`BillingCheckout`), and the sum is the cardinality of a union of disjoint sets, about which the library's
theorems on finite sets say what the proofs need.

### B2CPayoutProofs

`B2CPayoutProofs` proves, for every value of the constants that satisfies the four assumptions of `B2CPayout`:
`TypeCorrect`, `OnlyApprovedIsSent`, `NothingPaidIsUnbooked`, `NothingUnpaidIsBooked`,
`AcknowledgementIsFinal`, `DisbursementIsOver` and `KeepsPromise`.

The safety invariants are not inductive. `IInv` adds to them:

* `RequestsSound`: what a request holds agrees with the shared state its stage implies, so that a send past its
  check is for an intent with both approvals (approvals are never withdrawn: `ApprovalIsForGood`);
* `UsedWhenAsked`: a conversation was asked for an intent exactly when the provider knows it;
* `RowsWereAsked`: a payout row has a conversation with an intent;
* `SuccessIsBooked`: an intent that is SUCCESS has a posting under a conversation. This is what carries
  `AcknowledgedIsBooked`: a result for an intent already SUCCESS books nothing, and relies on the booking that
  made it SUCCESS.

There is one lemma per action (`CallProviderInv`, `ResultPaidInv`, ...), lemmas for what groups of actions
leave alone (`Frame`, `StillBooked`, `CallbackFrame`), and `StepInv` puts them together. `DisbursementIsOver` needs
the type invariant only, and two lemmas: no step makes a new request that saw the loan disbursable
(`NobodyReturns`), and without one no step gives the loan such a status or a posting (`StatusStays`). The
refinement maps each action to a step of `PayoutPromise` or to a stutter.

### PaymentIntakeProofs

`PaymentIntakeProofs` proves, under `IntakeAssumption` alone, `IntakeTypeCorrect`, `NoSuccessWithoutReceipt`,
`NoReceiptWithoutMoney`, `FinesStayWithinPenalty`, `PaidIsInTheJournal` and `KeepsPromise`. Its `IInv` adds `RequestsSound` (an answer a worker
holds still agrees with the provider: a push is decided once), `DeskSound` (a desk request names a penalty)
and `FailureWasDeclined` (only a declined push is shown as failed or cancelled), which is why the stale save
of `verify_payment` can never turn a credited payment into a failed one. `SettleInv` is the lemma that
callback and query share. That `amount_paid` stays within the penalty's amount is part of the type invariant,
and holds for all interleavings of unlocked desk requests, because they save absolute values.

`FinesStayWithinPenalty` proves `FinesNotOvercollected` from `IInv` and a second invariant, `FinesAreInPaid`: the
unit postings of fines for a penalty are finitely many and no more than its `amount_paid`. A settlement adds one to
both under the penalty's lock, and a desk request, however stale, saves the whole amount or leaves it.

`PaidIsInTheJournal` proves `PaidIsPosted` from these and a third, `JournalCovers`: a posting is made once under
its key (`PostedOnce`), so that a new one adds its amount (`AddCredits`); and what a desk request read as paid
is covered by the journal from then on (`ReadIsPosted`), because postings are never taken back. A desk request
that saves over a newer row therefore shows no more than the journal held when it read, plus what it posts.

`KeepsPromise` is the refinement of `PaymentPromise`. `StepKinds` says that a step settles an intent that has no
receipt and was paid, saves a status (SUCCESS only over a receipt), moves a push, or does none of these;
`FinesArePosted` (a fine with a receipt has its posting) makes the receipts the abstract books.

### MpesaDepositProofs

`DepositTypeCorrect`, `SettlementsAreBooked`, `BookingsWerePaid`, `SplitsAreWhole`, `PaidPushesDoNotExpire`,
`PaidPushesStay` and `KeepsPromise`: every property of the module's run. To the invariants `IInv` adds
`KnownIsAsked` and `LatestIsOwn` (rows belong to the intent they were made for), `UnusedIsNew` (a payment that
was never made has no row), `SuccessIsPaid` (a push that is SUCCESS was paid, so no callback of it declines)
and `RequestsSound` (what a request holds, and that no two hold the same new push).

For `KeepsPromise`, the refinement of `PaymentPromise`, one more is needed, `NoRowNoPosting`: a paybill payment
without a row has no posting, so that its confirmation books it for the first time. A push's callback is
protected by the unique receipt code instead (`NewReceipt`). `SplitsAreWhole` states on the side what the
promise's single step `Book` implies: both parts are posted or none.

### LoanServicingProofs

`TypeCorrectness`, `PaymentsFitSchedule`, `PenaltiesStayBooked`, `ScheduleShowsBooks`. The invariants are
about the rows' amounts, which marking a row overdue leaves alone; what makes them inductive is `RequestsConsistent`: rows that a request read and has not seen
overtaken are the rows as they are, but for penalties charged since, and what it took from a payment fits what
it read; and `RequestsApart`: no two requests hold the same row, and there is one sweep. `NothingYet` (no
receipt, nothing received) is what the restructuring, which looks for repayments only, relies on.

### LoanSettledProofs

`PaidLoansOweNothing` and `SettledLoansStay`: what a loan's status says about its schedule. They rest on `IInv`
of `LoanServicingProofs` and on `SInv`, which holds until one payment has overtaken another (`lost`).

What could go wrong is a penalty: the sweep charges an instalment while the payment that settles the loan is on
its way, and each computes the loan's status from rows that the other has not saved. `Threat` is the set of
instalments that a sweep would charge now (`Ripe`) or that one on its way is about to (`Pending`). `Orderly`
says of it:

* a threatened instalment has been paid only after all before it (`InOrder`): payments go to the oldest first,
  and one that has been paid anything is not charged any more;
* a payment that computes a settled loan holds the lock of every threatened instalment (`PaymentFits`), so that
  the sweep that would charge it waits, and then finds the row paid;
* a sweep that computes a settled loan has nothing to charge, and one that charges computes a loan that owes
  (`SweepFits`);
* a settled loan owes nothing (`LoanFits`), and requests other than payments and sweeps have found it unsettled
  (`Fits`).

There is a lemma for each step of a request (`TotalOrderly`, `CommitPaymentOrderly`, `CommitSweepOrderly`, ...),
lemmas that a request's facts survive the steps of the others (`PaymentStillFits`, `SweepStillFits`,
`PaidStillFits`), and `NextOrderly` puts them together.

### MemberWalletProofs

`TypeCorrect` (balances never go below zero), `LockedWhilePending`, and `KeepsPromise`, the refinement of
`WalletPromise`. `EntriesSound` is the added conjunct: an entry tells that its request had its effect.

`KeepsPromise` has no condition on who asks for what. Each request that finishes is a `Move` between the wallets
still kept (`MovesAs`; `TransferMoves`, `ContributeMoves`), a `Spoil` (`SpoilsAs`: a deposit whose reading was
stale, a completion of what was completed), or leaves balances and entries alone (`RequestMovesNothing`: to lock
money moves none). `CompleteMoves` and `DepositMoves` decide between them.

### BillingCheckoutProofs

`BillingTypeCorrect` and `SpentOnlyWhenPaid`. `IInv` adds `JobsNamed`, `Confirming` (who confirms or applies
does so for an invoice that was earned), `MadeAlone` and `Unmade` (an invoice being made is known to one
process only, one that is not made has nothing reserved) and `Kinds` (a renewal is asked for before it
exists).

`CreditsAreConserved` proves `CreditConserved`. What it adds to `IInv` is `TakenOnce`: who creates an invoice or
takes credits for it is alone with it and finds no allocation of it, which is why reserving never saves over
an allocation that holds something. `ReplaceHeld` is the lemma on which every step rests: when one invoice's
allocations change, what is held of a credit changes by as much (`ReleaseConserves`, `ApplyConserves`,
`ReserveConserves`).

### MotionVotingProofs

`MotionTypeCorrect`, `ClosedIsDecided`, `SettledIsExact`, `RestStands`, for any statuses and ends that edits give.
`ResultsFound` says that who is about to close, or found the motion closed by a count, leaves a result;
`CountsExact` that the numbers of a settled count agree with the votes, which cannot change until the end is put
off (`VotesStay`); `RestedLeave` that who found the motion at rest will not write. `RestGoesOn` adds that rest
ends with an edit's save of another status and with nothing else.

### Only model-checked

Liveness under fairness is out of the prover's reach: `PaidIsAcknowledged`, `CallbackSettles`,
`EveryRequestEnds`, `PaidIsSettled`, `ExpiredIsClosed`, `PaidUpIsSettled`. TLC checks them on their instances.

## 11. Not modelled

* **Refunds and disputes.** `process_refund` (both services) and `resolve_dispute` lock through a nullable
  join, an error on PostgreSQL, so that a refund ends at its approval.
* **Loans before the decision on them**: applications, guarantors, eligibility, top-ups. One request at a time on rows of
  their own; the next thing to model.
* **Cash, bank and card payments**: verified by one person on one row; the card services are switched off.
* **Rotation payouts**: `trigger` and the steps after it call `NotificationService.create_notification` and
  `Chama.get_treasurer`, which do not exist.
* **Role changes, delegations, rules, approval requests** of governance. `ApprovalRequestViewSet` prefetches
  "steps", which is no field, so its decisions cannot be reached.
* **Investments**: `redeem_investment` computes the principal before it locks the position and does not look
  again.
* **Security, accounts, automations**: PIN failures are counted from an unlocked read
  (`security/pin_service.py:140`); the job lock expires after 600 s, whatever its holder does
  (`automations/services.py:147`).
* **`finance/services_new.py`, `governance/voting_service.py`**: nothing calls them.
* **The rest** is read-only (analytics, reports, search, dashboards, AI), input and output (providers,
  notifications), or one request on one row.

## 12. Observations

What the code does, in the models, that a reader of its comments and tests may not expect. The properties
above are stated so that they hold in spite of it.

*Payouts.* The `LedgerEntry` key "prevents double entries" (`finance/models.py:1718`), but a payout's key
names the conversation: two paid conversations of one withdrawal are booked twice, and stale saves reopen an
intent for a second. The sweep's limit of three attempts counts rows, not attempts whose reply was lost
(`payments/tasks.py:303`). A cancelled intent with both approvals can still be sent
(`payments/services.py:2451`). A direct disbursement looks at no approval of the intent
(`finance/views.py:1434`). Two disbursements that both read the loan as disbursable both post, under two keys
(`finance/services.py:3704`). A second decision on an application that read the loan before the first saves
APPROVED or REJECTED over what the loan has become, a disbursed one too (`finance/services.py:3538`, `3659`). A loan stays DISBURSING after an error of the provider
(`payments/services.py:2479`).

*Intake.* `verify_payment` saves the status it read over a terminal one (`payments/unified_services.py:1454`).
The desk and a callback can both post a penalty in full, and a waiver can be saved over a payment
(`finance/services.py:4933`, `4991`).

*Deposits.* A repeated request for a reference with a used key makes a paid intent PENDING. A repeated paybill
confirmation turns a POSTED row into DUPLICATE, and the reconciliation counts POSTED ones. A payment of the
wrong amount, or a second push that is declined or reported without its receipt, fails a paid intent; a second payment of a paid intent is answered
and not posted. When a stale PENDING has reopened an intent, the repeated callback of its booked push is
refused by a settled loan, and marks push and intent FAILED (`payments/services.py:3246`).

*Loans.* Two payments at the desk compute from the same rows: the second's save undoes the first's credit, and
the journal keeps both. Two write-offs with different keys post twice; a stale sweep or payment revives a
written-off loan. RESTRUCTURED loans are in no sweep's list. The sweep makes an approved loan ACTIVE, and it
cannot be disbursed any more (`finance/tasks.py:857`); if its payout is paid after that, the intent fails. One cent makes an instalment PARTIAL, which is never
OVERDUE (`finance/services.py:4634`). A payment computed before a penalty was charged marks its instalment
PAID. A restructuring drops penalties that the journal keeps. A loan has one offset, since its receipt code is
fixed.

*Wallets.* A deposit saves the balance it read before another request changed it
(`payments/unified_services.py:4607`). A contribution enters its debit under two keys. Of two withdrawals of a
member, a late second refresh of the first takes its amount from the lock of the other.

*Billing.* A callback before `provider_transaction_id` is saved is marked processed, and its repeats are
dropped. Two deliveries of one callback can both create a subscription (`billing/services.py:486`). A callback
after the reservation was released settles the invoice at the discounted price. The sweep's VOID can be saved
over PAID. Renewals ask for the full price and discount the invoice afterwards, so that the callback's amount
is refused. PAST_DUE never becomes UNPAID. `revoke_billing_credit` looks for reservations without a lock.

*Motions.* Any active member's update may close a motion without a count, reopen a decided one or move its end,
since status and end are writable fields of an unrestricted view set (`governance/serializers.py:324`,
`governance/views.py:778`). The task has the majority rule for every type: a unanimous motion nobody closed by hand passes with
one yes (`governance/tasks.py:137`). Two finalizers may store different results. A late vote on a cancelled
motion closes it. The quorum is rounded up from a floating-point product (`core/algorithms/governance.py:26`).
