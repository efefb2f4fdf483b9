----------------------------- MODULE B2CPayout -----------------------------
(***************************************************************************)
(* Money leaving a chama over M-Pesa B2C, as PaymentWorkflowService does   *)
(* it (src/apps/payments/services.py): a withdrawal or a loan disbursement *)
(* is a payment intent; a treasurer and then an admin approve it; someone  *)
(* sends it to the provider; the provider's callbacks settle it; a Celery  *)
(* job resends what failed.                                                *)
(*                                                                         *)
(* Approve, reject and send run in autocommit: every statement commits by  *)
(* itself, and what a request read at its start may be stale when it       *)
(* writes.  They are therefore several steps each, and their state between *)
(* the steps is req[w].  The callbacks run in one database transaction     *)
(* that locks the payout row with its intent, and are one step each.       *)
(***************************************************************************)
EXTENDS Naturals, FiniteSets

CONSTANTS
    Withdrawals,    \* payment intents of type WITHDRAWAL
    Loans,          \* payment intents of type LOAN_DISBURSEMENT, one a loan
    Treasurers,     \* users whose effective role is TREASURER
    Admins,         \* users whose effective role is CHAMA_ADMIN
    Conversations,  \* originator conversation ids: how many sends there can be
    DirectKeys,     \* ledger keys of disbursements that bypass the intent
    Workers,        \* processes that serve requests
    Sweeper,        \* the one that runs payments_retry_failed_b2c_payouts
    MaxAttempts,    \* sends after which the sweep gives up: 3 in the code
    None

Intents == Withdrawals \cup Loans
Users == Treasurers \cup Admins

ASSUME IntentsAssumption ==
    /\ Withdrawals \cap Loans = {}
    /\ None \notin Intents
ASSUME ConversationsAssumption ==
    /\ Conversations \cap DirectKeys = {}
    /\ None \notin Conversations
ASSUME UsersAssumption ==
    /\ Treasurers \cap Admins = {}
    /\ None \notin Users
ASSUME SweepAssumption ==
    /\ Sweeper \in Workers
    /\ MaxAttempts \in Nat

VARIABLES
    intent,     \* PaymentIntent.status, "none" before the row exists
    loan,       \* Loan.status, from the application on
    logs,       \* users with an approval in WithdrawalApprovalLog
    row,        \* MpesaB2CPayout.status by conversation, "none" if no row
    asked,      \* the intent a conversation was opened for at the provider
    provider,   \* what the provider did with the conversation
    heard,      \* conversations whose result a callback has been answered
    ledger,     \* journal postings of payouts: <<intent, idempotency key>>
    req         \* what each worker holds between two statements

vars == <<intent, loan, logs, row, asked, provider, heard, ledger, req>>

IntentStatus == {"none", "INITIATED", "PENDING", "SUCCESS", "FAILED", "CANCELLED"}
\* REQUESTED stands for REVIEW as well, and ACTIVE for every status of a loan
\* that is being repaid or is settled.
LoanStatus == {"REQUESTED", "REJECTED", "APPROVED", "DISBURSING", "DISBURSED", "ACTIVE"}
RowStatus == {"none", "PENDING", "SUCCESS", "FAILED", "TIMEOUT"}
ProviderState == {"unused", "accepted", "silent", "paid", "refused"}
Stage == {"idle", "picked", "checked", "marked", "accepted", "recorded",
          "approving", "logged", "rejecting", "deciding", "disbursing"}

Request == [stage : Stage,
            of    : Intents \cup {None},
            conv  : Conversations \cup {None},
            by    : Users \cup {None},
            ready : BOOLEAN]

Idle == [stage |-> "idle", of |-> None, conv |-> None, by |-> None, ready |-> FALSE]
At(stage, i) == [Idle EXCEPT !.stage = stage, !.of = i]

TypeOK ==
    /\ intent \in [Intents -> IntentStatus]
    /\ loan \in [Loans -> LoanStatus]
    /\ logs \in [Intents -> SUBSET Users]
    /\ row \in [Conversations -> RowStatus]
    /\ asked \in [Conversations -> Intents \cup {None}]
    /\ provider \in [Conversations -> ProviderState]
    /\ heard \subseteq Conversations
    /\ ledger \subseteq Intents \X (Conversations \cup DirectKeys)
    /\ req \in [Workers -> Request]

Init ==
    /\ intent = [i \in Intents |-> "none"]
    /\ loan = [l \in Loans |-> "REQUESTED"]
    /\ logs = [i \in Intents |-> {}]
    /\ row = [o \in Conversations |-> "none"]
    /\ asked = [o \in Conversations |-> None]
    /\ provider = [o \in Conversations |-> "unused"]
    /\ heard = {}
    /\ ledger = {}
    /\ req = [w \in Workers |-> Idle]

-----------------------------------------------------------------------------
(* Intents: request_withdrawal; approve_loan for a disbursement, which, as *)
(* review_loan and reject_loan do, reads the loan without a lock and saves *)
(* the decision whatever the status has become.                            *)

RequestWithdrawal(i) ==
    /\ i \in Withdrawals
    /\ intent[i] = "none"
    /\ intent' = [intent EXCEPT ![i] = "INITIATED"]
    /\ UNCHANGED <<loan, logs, row, asked, provider, heard, ledger, req>>

BeginDecision(w, l) ==
    /\ w # Sweeper
    /\ req[w] = Idle
    /\ loan[l] = "REQUESTED"
    /\ req' = [req EXCEPT ![w] = At("deciding", l)]
    /\ UNCHANGED <<intent, loan, logs, row, asked, provider, heard, ledger>>

\* The approval makes sure in the same transaction that there is an intent for
\* the disbursement: the key loan-disbursement:<loan id> finds any earlier one.
ApproveLoan(w) ==
    LET l == req[w].of
    IN  /\ req[w].stage = "deciding"
        /\ loan' = [loan EXCEPT ![l] = "APPROVED"]
        /\ intent' = [intent EXCEPT ![l] = IF @ = "none" THEN "INITIATED" ELSE @]
        /\ req' = [req EXCEPT ![w] = Idle]
        /\ UNCHANGED <<logs, row, asked, provider, heard, ledger>>

\* Sent to the admin by the treasurer's review, or rejected.
DeferLoan(w) ==
    /\ req[w].stage = "deciding"
    /\ \E status \in {"REQUESTED", "REJECTED"} :
          loan' = [loan EXCEPT ![req[w].of] = status]
    /\ req' = [req EXCEPT ![w] = Idle]
    /\ UNCHANGED <<intent, logs, row, asked, provider, heard, ledger>>

-----------------------------------------------------------------------------
(* approve_withdrawal_intent: read the intent and check; create the log    *)
(* row and read the approval state; save the intent.                       *)

ApprovalState(approvers) ==
    [treasurer |-> approvers \cap Treasurers # {},
     admin     |-> approvers \cap Admins # {}]

BothApproved(i) ==
    ApprovalState(logs[i]).treasurer /\ ApprovalState(logs[i]).admin

BeginApproval(w, i, u) ==
    /\ w # Sweeper
    /\ req[w] = Idle
    /\ intent[i] \notin {"none", "SUCCESS", "CANCELLED"}
    /\ u \notin logs[i]
    /\ u \in Admins => ApprovalState(logs[i]).treasurer
    /\ req' = [req EXCEPT ![w] = [At("approving", i) EXCEPT !.by = u]]
    /\ UNCHANGED <<intent, loan, logs, row, asked, provider, heard, ledger>>

LogApproval(w) ==
    LET i == req[w].of
        approvers == logs[i] \cup {req[w].by}
        state == ApprovalState(approvers)
    IN  /\ req[w].stage = "approving"
        /\ logs' = [logs EXCEPT ![i] = approvers]
        /\ req' = [req EXCEPT ![w] =
                     [At("logged", i) EXCEPT !.ready = state.treasurer /\ state.admin]]
        /\ UNCHANGED <<intent, loan, row, asked, provider, heard, ledger>>

\* Writes the status whatever it has become since the intent was read.
FinishApproval(w) ==
    /\ req[w].stage = "logged"
    /\ intent' = [intent EXCEPT ![req[w].of] =
                    IF req[w].ready THEN "PENDING" ELSE "INITIATED"]
    /\ req' = [req EXCEPT ![w] = Idle]
    /\ UNCHANGED <<loan, logs, row, asked, provider, heard, ledger>>

(* reject_withdrawal_intent and reject_loan_disbursement_intent.           *)

BeginRejection(w, i) ==
    /\ w # Sweeper
    /\ req[w] = Idle
    /\ intent[i] \notin {"none", "SUCCESS", "CANCELLED"}
    /\ req' = [req EXCEPT ![w] = At("rejecting", i)]
    /\ UNCHANGED <<intent, loan, logs, row, asked, provider, heard, ledger>>

FinishRejection(w) ==
    /\ req[w].stage = "rejecting"
    /\ intent' = [intent EXCEPT ![req[w].of] = "CANCELLED"]
    /\ req' = [req EXCEPT ![w] = Idle]
    /\ UNCHANGED <<loan, logs, row, asked, provider, heard, ledger>>

-----------------------------------------------------------------------------
(* send_b2c_payout.  The check of the chama's balance is a condition of    *)
(* the environment: every posting of this module is a balanced journal,    *)
(* which moves credits and debits alike, so no payout changes the outcome  *)
(* of that check, and a send it refuses changes nothing.                   *)

AttemptsOf(i) == {o \in Conversations : asked[o] = i /\ row[o] # "none"}

\* payments_retry_failed_b2c_payouts picks an intent with a failed attempt.
SweepPick(i) ==
    /\ req[Sweeper] = Idle
    /\ \E o \in AttemptsOf(i) : row[o] \in {"FAILED", "TIMEOUT"}
    /\ Cardinality(AttemptsOf(i)) < MaxAttempts
    /\ req' = [req EXCEPT ![Sweeper] = At("picked", i)]
    /\ UNCHANGED <<intent, loan, logs, row, asked, provider, heard, ledger>>

\* Mutant: one approval is enough.
SendableOnOneApproval(i) ==
    /\ intent[i] \notin {"none", "SUCCESS"}
    /\ logs[i] # {}
    /\ i \in Loans => loan[i] = "APPROVED"

Sendable(i) ==
    /\ intent[i] \notin {"none", "SUCCESS"}
    /\ BothApproved(i)
    /\ i \in Loans => loan[i] = "APPROVED"

\* Read the intent, the approvals and the loan, and check them.
BeginSend(w, i) ==
    /\ req[w] = IF w = Sweeper THEN At("picked", i) ELSE Idle
    /\ Sendable(i)
    /\ req' = [req EXCEPT ![w] = At("checked", i)]
    /\ UNCHANGED <<intent, loan, logs, row, asked, provider, heard, ledger>>

MarkDisbursing(w) ==
    /\ req[w].stage = "checked"
    /\ req[w].of \in Loans
    /\ loan' = [loan EXCEPT ![req[w].of] = "DISBURSING"]
    /\ req' = [req EXCEPT ![w].stage = "marked"]
    /\ UNCHANGED <<intent, logs, row, asked, provider, heard, ledger>>

\* The provider takes the request.  A reply without an originator id, or
\* with a ResponseCode other than 0, is taken for an acceptance as well, and
\* no callback will ever name it: "silent".
CallProvider(w, o) ==
    LET i == req[w].of
    IN  /\ req[w].stage = IF i \in Loans THEN "marked" ELSE "checked"
        /\ provider[o] = "unused"
        /\ asked' = [asked EXCEPT ![o] = i]
        /\ \E reply \in {"accepted", "silent"} :
              provider' = [provider EXCEPT ![o] = reply]
        /\ req' = [req EXCEPT ![w].stage = "accepted", ![w].conv = o]
        /\ UNCHANGED <<intent, loan, logs, row, heard, ledger>>

\* MpesaB2CPayout.objects.create; originator_conversation_id is unique.
RecordPayout(w) ==
    /\ req[w].stage = "accepted"
    /\ row[req[w].conv] = "none"
    /\ row' = [row EXCEPT ![req[w].conv] = "PENDING"]
    /\ req' = [req EXCEPT ![w].stage = "recorded"]
    /\ UNCHANGED <<intent, loan, logs, asked, provider, heard, ledger>>

\* Writes PENDING whatever the status has become since BeginSend.
FinishSend(w) ==
    /\ req[w].stage = "recorded"
    /\ intent' = [intent EXCEPT ![req[w].of] = "PENDING"]
    /\ req' = [req EXCEPT ![w] = Idle]
    /\ UNCHANGED <<loan, logs, row, asked, provider, heard, ledger>>

\* A request ends between two statements: the provider client raised (it
\* does so on a timeout too, when the provider may have taken the request),
\* a check of its own refused it, or the process died.  Nothing is undone.
Abandon(w) ==
    /\ req[w] # Idle
    /\ req' = [req EXCEPT ![w] = Idle]
    /\ UNCHANGED <<intent, loan, logs, row, asked, provider, heard, ledger>>

-----------------------------------------------------------------------------
(* The provider, external: it pays or refuses a conversation it accepted,  *)
(* once, and calls back with the result until it is answered, perhaps more *)
(* than once, and in any order.                                            *)

Decide(o) ==
    /\ provider[o] = "accepted"
    /\ \E outcome \in {"paid", "refused"} :
          provider' = [provider EXCEPT ![o] = outcome]
    /\ UNCHANGED <<intent, loan, logs, row, asked, heard, ledger, req>>

(* process_b2c_result                                                      *)

Disbursable == {"APPROVED", "DISBURSING"}

\* Mutant: any intent that has ended counts as posted.
PostedOnceEnded(i) == intent[i] \in {"SUCCESS", "FAILED", "CANCELLED"}

AlreadyPosted(i) == intent[i] = "SUCCESS"

\* _post_intent_success: an intent already SUCCESS is not posted again.
PostIntentSuccess(o) ==
    LET i == asked[o]
    IN  \/ /\ AlreadyPosted(i)
           /\ UNCHANGED <<intent, loan, ledger>>
        \/ /\ ~AlreadyPosted(i)
           /\ i \in Withdrawals
           /\ ledger' = ledger \cup {<<i, o>>}
           /\ intent' = [intent EXCEPT ![i] = "SUCCESS"]
           /\ UNCHANGED loan
        \/ /\ ~AlreadyPosted(i)
           /\ i \in Loans
           /\ loan[i] \in Disbursable
           /\ ledger' = ledger \cup {<<i, o>>}
           /\ loan' = [loan EXCEPT ![i] = "ACTIVE"]
           /\ intent' = [intent EXCEPT ![i] = "SUCCESS"]

\* disburse_loan refuses: the loan is not disbursable any more, or the
\* member, the month, the liquidity reserve or the disburser is in the way.
\* The intent is marked failed and the loan stays as it is.
PostingRefused(o) ==
    /\ asked[o] \in Loans
    /\ ~AlreadyPosted(asked[o])
    /\ intent' = [intent EXCEPT ![asked[o]] = "FAILED"]
    /\ UNCHANGED <<loan, ledger>>

\* Mutant: the intent is closed with a status no payout has.
ExpireIntent(o) ==
    /\ intent' = [intent EXCEPT ![asked[o]] = "EXPIRED"]
    /\ UNCHANGED <<loan, ledger>>

\* Mutant: a loan goes back to approved whatever its status.
FailIntentOfAnyLoan(o) ==
    /\ intent' = [intent EXCEPT ![asked[o]] = "FAILED"]
    /\ loan' = [l \in Loans |-> IF l = asked[o] THEN "APPROVED" ELSE loan[l]]
    /\ UNCHANGED ledger

\* _mark_failed does not look at the status it overwrites; a loan being
\* disbursed goes back to approved.
FailIntent(o) ==
    LET i == asked[o]
    IN  /\ intent' = [intent EXCEPT ![i] = "FAILED"]
        /\ loan' = [l \in Loans |->
                      IF l = i /\ loan[l] = "DISBURSING" THEN "APPROVED" ELSE loan[l]]
        /\ UNCHANGED ledger

\* Mutants: the check for a processed row is dropped, or only a row that is
\* still PENDING takes a result.
OpenToAnyResult(o) == row[o] # "none"
OpenWhilePending(o) == row[o] = "PENDING"

\* A row that is SUCCESS takes no further result.
OpenToResult(o) == row[o] \notin {"none", "SUCCESS"}

\* Mutant: whatever the result code, a result is a success.
AnyResultIsPaid(o) == provider[o] \in {"paid", "refused"}

\* The ResultCode is 0.
IsPaid(o) == provider[o] = "paid"

ResultPaid(o) ==
    /\ IsPaid(o)
    /\ OpenToResult(o)
    /\ \/ /\ PostIntentSuccess(o)
          /\ row' = [row EXCEPT ![o] = "SUCCESS"]
       \/ /\ PostingRefused(o)
          /\ row' = [row EXCEPT ![o] = "FAILED"]
    /\ heard' = heard \cup {o}
    /\ UNCHANGED <<logs, asked, provider, req>>

ResultRefused(o) ==
    /\ provider[o] = "refused"
    /\ OpenToResult(o)
    /\ FailIntent(o)
    /\ row' = [row EXCEPT ![o] = "FAILED"]
    /\ heard' = heard \cup {o}
    /\ UNCHANGED <<logs, asked, provider, req>>

\* The result outran RecordPayout: it is answered as accepted, and dropped.
ResultUnmatched(o) ==
    /\ provider[o] \in {"paid", "refused"}
    /\ row[o] = "none"
    /\ heard' = heard \cup {o}
    /\ UNCHANGED <<intent, loan, logs, row, asked, provider, ledger, req>>

(* process_b2c_timeout: the queue timeout says nothing of the outcome, and *)
(* may come before or after the result.                                    *)

\* Mutant: the timeout handler does not look at the row's status.
OpenToLateTimeout(o) == row[o] # "none"

OpenToTimeout(o) == row[o] \notin {"none", "SUCCESS"}

ResultTimeout(o) ==
    /\ provider[o] \in {"accepted", "paid", "refused"}
    /\ OpenToTimeout(o)
    /\ FailIntent(o)
    /\ row' = [row EXCEPT ![o] = "TIMEOUT"]
    /\ UNCHANGED <<logs, asked, provider, heard, req>>

-----------------------------------------------------------------------------
(* FinanceService.disburse_loan called by LoanDisburseView or by the admin *)
(* console, beside the intent: one transaction, but the loan is read       *)
(* without a lock and the status it was read with may be stale.            *)

BeginDirectDisbursement(w, i) ==
    /\ w # Sweeper
    /\ req[w] = Idle
    /\ i \in Loans
    /\ loan[i] \in Disbursable
    /\ req' = [req EXCEPT ![w] = At("disbursing", i)]
    /\ UNCHANGED <<intent, loan, logs, row, asked, provider, heard, ledger>>

\* The journal's idempotency key is unique in the chama; it is the client's,
\* or loan_disburse:<loan id>.
CommitDirectDisbursement(w, key) ==
    LET i == req[w].of
    IN  /\ req[w].stage = "disbursing"
        /\ \A j \in Intents : <<j, key>> \notin ledger
        /\ ledger' = ledger \cup {<<i, key>>}
        /\ loan' = [loan EXCEPT ![i] = "DISBURSED"]
        /\ req' = [req EXCEPT ![w] = Idle]
        /\ UNCHANGED <<intent, logs, row, asked, provider, heard>>

\* Beside all this a loan that was once approved is serviced (LoanServicing).
\* The daily sweep picks approved and disbursing loans as well, and a repayment
\* refuses rejected and settled ones only: either leaves the loan ACTIVE.
Service(i) ==
    /\ i \in Loans
    /\ intent[i] # "none"
    /\ loan' = [loan EXCEPT ![i] = "ACTIVE"]
    /\ UNCHANGED <<intent, logs, row, asked, provider, heard, ledger, req>>

-----------------------------------------------------------------------------
LoanDecision ==
    \E w \in Workers :
        \/ \E l \in Loans : BeginDecision(w, l)
        \/ ApproveLoan(w)
        \/ DeferLoan(w)

Approval ==
    \E w \in Workers :
        \/ \E i \in Intents, u \in Users : BeginApproval(w, i, u)
        \/ LogApproval(w)
        \/ FinishApproval(w)

Rejection ==
    \E w \in Workers :
        \/ \E i \in Intents : BeginRejection(w, i)
        \/ FinishRejection(w)

Sending ==
    \/ \E i \in Intents : SweepPick(i)
    \/ \E w \in Workers :
        \/ \E i \in Intents : BeginSend(w, i)
        \/ MarkDisbursing(w)
        \/ \E o \in Conversations : CallProvider(w, o)
        \/ RecordPayout(w)
        \/ FinishSend(w)

Callback ==
    \E o \in Conversations :
        \/ ResultPaid(o)
        \/ ResultRefused(o)
        \/ ResultUnmatched(o)
        \/ ResultTimeout(o)

DirectDisbursement ==
    \E w \in Workers :
        \/ \E i \in Intents : BeginDirectDisbursement(w, i)
        \/ \E key \in DirectKeys : CommitDirectDisbursement(w, key)

Next ==
    \/ \E i \in Intents : RequestWithdrawal(i) \/ Service(i)
    \/ LoanDecision
    \/ Approval
    \/ Rejection
    \/ Sending
    \/ \E w \in Workers : Abandon(w)
    \/ \E o \in Conversations : Decide(o)
    \/ Callback
    \/ DirectDisbursement

Spec == Init /\ [][Next]_vars

\* The provider decides what it accepted, and calls back until it is answered.
\* Nothing is assumed of the users, of the sweep or of queue timeouts.
CallBack(o) ==
    /\ o \notin heard
    /\ ResultPaid(o) \/ ResultRefused(o) \/ ResultUnmatched(o)

ProviderFairness ==
    \A o \in Conversations : WF_vars(Decide(o)) /\ WF_vars(CallBack(o))

FairSpec == Spec /\ ProviderFairness

-----------------------------------------------------------------------------
(* What holds in every interleaving.                                       *)

BookingsOf(i) == {e \in ledger : e[1] = i}

\* The provider is asked to pay only what a treasurer and an admin approved,
\* whoever asks and however stale the request: send_b2c_payout and the sweep.
SentWasApproved == \A o \in Conversations : asked[o] # None => BothApproved(asked[o])

\* A payout acknowledged as paid is in the ledger under its own conversation,
\* or under an earlier one of the same intent that settled it first: the
\* callback never acknowledges money that nothing accounts for.
AcknowledgedIsBooked ==
    \A o \in Conversations :
        row[o] = "SUCCESS" => \E c \in Conversations : <<asked[o], c>> \in ledger

\* A posting of a callback is for money the provider did send, for the intent
\* it was sent for, and the row that caused it stays acknowledged; timeouts,
\* refusals and repeated callbacks book nothing.
BookedWasPaid ==
    \A o \in Conversations, i \in Intents :
        <<i, o>> \in ledger => provider[o] = "paid" /\ asked[o] = i /\ row[o] = "SUCCESS"

\* No late, repeated or contradictory callback reopens an acknowledged payout.
SuccessfulRowIsFinal ==
    [][\A o \in Conversations : row[o] = "SUCCESS" => row'[o] = "SUCCESS"]_vars

\* The loan is no longer to be approved or disbursed, and no request under way
\* had found that it was.
Over(l) ==
    /\ loan[l] \notin Disbursable \cup {"REQUESTED"}
    /\ \A w \in Workers :
          req[w].of = l => req[w].stage \notin {"deciding", "checked", "disbursing"}

\* Once a loan has left the statuses in which it is disbursed, and the requests
\* that saw it there are through, it stays out of them and nothing more is
\* booked for it: no retry, refused or timed-out conversation, late result or
\* direct disbursement disburses it again, nor, if the sweep has made it active
\* before its money was sent, for the first time.
DisbursedOnce ==
    [][\A l \in Loans : Over(l) => Over(l)' /\ BookingsOf(l)' = BookingsOf(l)]_vars

\* The workflow keeps the promise of PayoutPromise.
Promise == INSTANCE PayoutPromise WITH
    approved <- {i \in Intents : BothApproved(i)},
    opened   <- asked,
    acked    <- {o \in Conversations : row[o] = "SUCCESS"},
    booked   <- {e \in ledger : e[2] \in Conversations}

PromiseKept == Promise!Spec

\* Money the provider paid for a withdrawal is acknowledged in the end, even
\* when a queue timeout or a failed retry came first, unless its result came
\* before the payout had a row.
PaidIsAcknowledged ==
    \A o \in Conversations :
        (provider[o] = "paid" /\ asked[o] \in Withdrawals /\ row[o] # "none" /\ o \notin heard)
            ~> row[o] = "SUCCESS"

=============================================================================
