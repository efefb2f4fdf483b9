---------------------------- MODULE PaymentIntake ----------------------------
(***************************************************************************)
(* Money coming into a chama over M-Pesa, as UnifiedPaymentService does it *)
(* (src/apps/payments/unified_services.py): a payment intent asks the      *)
(* member's phone for money (an STK push); the provider's callback, or a   *)
(* query by verify_payment, settles it; a task expires what stays open.    *)
(* Some intents pay a fine, which treasurers may settle or waive by hand   *)
(* at the same time (src/apps/finance/services.py).                        *)
(*                                                                         *)
(* The callback locks the intent's row, so it is one step.  verify_payment *)
(* reads the row without a lock, asks the provider, and saves what it then *)
(* believes; a desk request reads the penalty and later saves it: both are *)
(* several steps, and req and desk hold what they read.                    *)
(***************************************************************************)
EXTENDS Naturals, FiniteSets

CONSTANTS
    Intents,        \* unified payment intents paid by M-Pesa
    Fines,          \* those of purpose FINE; the others are contributions
    Penalties,      \* penalties of members
    PenaltyOf,      \* the penalty a fine intent pays one unit of
    PenaltyAmount,  \* units of money in a penalty
    Desk,           \* idempotency keys of the treasurers' requests
    Workers,        \* processes that serve members' requests
    None

ASSUME IntakeAssumption ==
    /\ Fines \subseteq Intents
    /\ PenaltyOf \in [Fines -> Penalties]
    /\ PenaltyAmount \in Nat \ {0}
    /\ Intents \cap Desk = {}
    /\ None \notin Intents \cup Penalties

VARIABLES
    status,     \* PaymentIntent.status, "none" before the row is committed
    checkout,   \* what became of the push at the provider
    txn,        \* PaymentTransaction.status, "none" if there is no row
    receipts,   \* intents with a PaymentReceipt, their business record made
    heard,      \* intents with a callback that was answered
    penalty,    \* Penalty.status and amount_paid
    posted,     \* credits to penalty_receivable
    barred,     \* contributions that could not be posted now
    req,        \* what each worker holds between two steps
    desk        \* what each desk request holds between two steps

vars == <<status, checkout, txn, receipts, heard, penalty, posted, barred, req, desk>>

PaymentStatus ==
    {"none", "INITIATED", "PENDING", "SUCCESS", "FAILED", "CANCELLED", "EXPIRED"}
TransactionStatus == {"none", "RECEIVED", "VERIFIED", "FAILED"}
PenaltyStatus == {"UNPAID", "PARTIAL", "PAID", "WAIVED"}
Checkout == {"unused", "prompted", "paid", "declined"}
Answer == {"success", "pending", "failed", "cancelled"}

Request == [stage  : {"idle", "creating", "asking", "answered"},
            of     : Intents \cup {None},
            seen   : PaymentStatus,
            answer : Answer]

DeskRequest == [stage : {"new", "marking", "waiving", "done"},
                of    : Penalties \cup {None},
                paid  : 0..PenaltyAmount]

Posting == [of : Penalties, by : Intents \cup Desk, amount : 0..PenaltyAmount,
            waiver : BOOLEAN]

Idle == [stage |-> "idle", of |-> None, seen |-> "none", answer |-> "pending"]

TypeOK ==
    /\ status \in [Intents -> PaymentStatus]
    /\ checkout \in [Intents -> Checkout]
    /\ txn \in [Intents -> TransactionStatus]
    /\ receipts \subseteq Intents
    /\ heard \subseteq Intents
    /\ penalty \in [Penalties -> [status : PenaltyStatus, paid : 0..PenaltyAmount]]
    /\ posted \subseteq Posting
    /\ barred \subseteq Intents \ Fines
    /\ req \in [Workers -> Request]
    /\ desk \in [Desk -> DeskRequest]

Init ==
    /\ status = [i \in Intents |-> "none"]
    /\ checkout = [i \in Intents |-> "unused"]
    /\ txn = [i \in Intents |-> "none"]
    /\ receipts = {}
    /\ heard = {}
    /\ penalty = [p \in Penalties |-> [status |-> "UNPAID", paid |-> 0]]
    /\ posted = {}
    /\ barred = {}
    /\ req = [w \in Workers |-> Idle]
    /\ desk = [d \in Desk |-> [stage |-> "new", of |-> None, paid |-> 0]]

-----------------------------------------------------------------------------
(* create_payment_intent: one transaction, with the push inside it.        *)

\* The provider accepts the push; the intent's row is not committed yet.
AskForMoney(w, i) ==
    /\ req[w] = Idle
    /\ checkout[i] = "unused"
    /\ checkout' = [checkout EXCEPT ![i] = "prompted"]
    /\ req' = [req EXCEPT ![w] = [Idle EXCEPT !.stage = "creating", !.of = i]]
    /\ UNCHANGED <<status, txn, receipts, heard, penalty, posted, barred, desk>>

CommitIntent(w) ==
    /\ req[w].stage = "creating"
    /\ status' = [status EXCEPT ![req[w].of] = "PENDING"]
    /\ req' = [req EXCEPT ![w] = Idle]
    /\ UNCHANGED <<checkout, txn, receipts, heard, penalty, posted, barred, desk>>

\* A statement after the push fails, or the process dies: the row is gone and
\* the member's phone still asks.
RollBackIntent(w) ==
    /\ req[w].stage = "creating"
    /\ req' = [req EXCEPT ![w] = Idle]
    /\ UNCHANGED <<status, checkout, txn, receipts, heard, penalty, posted, barred, desk>>

\* The member answers the prompt, or it times out.
MemberAnswers(i) ==
    /\ checkout[i] = "prompted"
    /\ \E outcome \in {"paid", "declined"} :
          checkout' = [checkout EXCEPT ![i] = outcome]
    /\ UNCHANGED <<status, txn, receipts, heard, penalty, posted, barred, req, desk>>

\* post_contribution refuses a member who is suspended, a type that is retired,
\* a month that is closed or a receipt that is known: this comes and goes.
EligibilityChanges(i) ==
    /\ i \in Intents \ Fines
    /\ barred' \in {barred \cup {i}, barred \ {i}}
    /\ UNCHANGED <<status, checkout, txn, receipts, heard, penalty, posted, req, desk>>

-----------------------------------------------------------------------------
(* Settling: _handle_successful_payment with its business event.           *)

Terminal == {"SUCCESS", "FAILED", "CANCELLED", "EXPIRED"}
\* Mutant: only an intent that was never sent to the phone is open.
OpenWhileInitiated(i) == status[i] = "INITIATED"
Open(i) == status[i] \notin Terminal \cup {"none"}

Outstanding(p) == PenaltyAmount - penalty[p].paid
Payable(p) == penalty[p].status \in {"UNPAID", "PARTIAL"}

\* Mutant: the state of the penalty is not looked at.
RefusedNever(i) == FALSE
\* The penalty's row is locked from this check to the end of the transaction.
Refused(i) ==
    \/ i \in barred
    \/ i \in Fines /\ (~Payable(PenaltyOf[i]) \/ Outstanding(PenaltyOf[i]) < 1)

PaidUpTo(n) == [status |-> IF n >= PenaltyAmount THEN "PAID" ELSE "PARTIAL", paid |-> n]

PostBusinessEvent(i) ==
    IF i \in Fines
    THEN LET p == PenaltyOf[i]
         IN  /\ penalty' = [penalty EXCEPT ![p] = PaidUpTo(@.paid + 1)]
             /\ posted' = posted \cup
                    {[of |-> p, by |-> i, amount |-> 1, waiver |-> FALSE]}
    ELSE UNCHANGED <<penalty, posted>>

\* Mutant: an exception of the business event is swallowed, and the status
\* stays.
SettleWhateverFails(i) ==
    /\ status' = [status EXCEPT ![i] = "SUCCESS"]
    /\ txn' = [txn EXCEPT ![i] = "VERIFIED"]
    /\ IF Refused(i)
       THEN UNCHANGED <<receipts, penalty, posted>>
       ELSE receipts' = receipts \cup {i} /\ PostBusinessEvent(i)

Settle(i) ==
    /\ ~Refused(i)
    /\ status' = [status EXCEPT ![i] = "SUCCESS"]
    /\ txn' = [txn EXCEPT ![i] = "VERIFIED"]
    /\ receipts' = receipts \cup {i}
    /\ PostBusinessEvent(i)

-----------------------------------------------------------------------------
(* process_webhook: the provider's callback, once or more often.           *)

CallbackPaid(i) ==
    /\ checkout[i] = "paid"
    /\ Open(i)
    /\ i \notin receipts
    /\ Settle(i)
    /\ heard' = heard \cup {i}
    /\ UNCHANGED <<checkout, barred, req, desk>>

CallbackDeclined(i) ==
    /\ checkout[i] = "declined"
    /\ Open(i)
    /\ status' = [status EXCEPT ![i] = "FAILED"]
    /\ txn' = [txn EXCEPT ![i] = "FAILED"]
    /\ heard' = heard \cup {i}
    /\ UNCHANGED <<checkout, receipts, penalty, posted, barred, req, desk>>

\* The callback is answered and changes nothing: there is no committed row to
\* match it, the row is terminal or has its receipt, or its business event
\* refuses the money and the transaction is rolled back.
CallbackDropped(i) ==
    /\ \/ checkout[i] = "paid" /\ (~Open(i) \/ i \in receipts \/ Refused(i))
       \/ checkout[i] = "declined" /\ ~Open(i)
    /\ heard' = heard \cup {i}
    /\ UNCHANGED <<status, checkout, txn, receipts, penalty, posted, barred, req, desk>>

-----------------------------------------------------------------------------
(* verify_payment: read, ask the provider, save.                           *)

Successors == [
    none      |-> {},
    INITIATED |-> {"PENDING", "SUCCESS", "FAILED", "CANCELLED", "EXPIRED"},
    PENDING   |-> {"SUCCESS", "FAILED", "CANCELLED", "EXPIRED"},
    SUCCESS   |-> {},
    FAILED    |-> {},
    CANCELLED |-> {},
    EXPIRED   |-> {}]

LegalTransition(old, new) == old = new \/ new \in Successors[old]

\* Mutant: an undecided payment counts as failed.
MapUndecidedToFailed(answer) ==
    CASE answer = "success"   -> "SUCCESS"
      [] answer = "cancelled" -> "CANCELLED"
      [] OTHER                -> "FAILED"

MapProviderStatus(answer) ==
    CASE answer = "success"   -> "SUCCESS"
      [] answer = "pending"   -> "PENDING"
      [] answer = "failed"    -> "FAILED"
      [] answer = "cancelled" -> "CANCELLED"

MapTransactionStatus(s) ==
    CASE s = "SUCCESS" -> "VERIFIED"
      [] s = "FAILED"  -> "FAILED"
      [] OTHER         -> "RECEIVED"

\* What a query may answer: result codes 1037 and 1 mean "pending" whether the
\* member can still pay or not.
ProviderAnswers(i) ==
    CASE checkout[i] = "prompted" -> {"pending"}
      [] checkout[i] = "paid"     -> {"success"}
      [] checkout[i] = "declined" -> {"pending", "failed", "cancelled"}
      [] OTHER                    -> {}

BeginVerify(w, i) ==
    /\ req[w] = Idle
    /\ Open(i)
    /\ req' = [req EXCEPT ![w] =
                 [Idle EXCEPT !.stage = "asking", !.of = i, !.seen = status[i]]]
    /\ UNCHANGED <<status, checkout, txn, receipts, heard, penalty, posted, barred, desk>>

QueryProvider(w) ==
    /\ req[w].stage = "asking"
    /\ \E answer \in ProviderAnswers(req[w].of) :
          req' = [req EXCEPT ![w].stage = "answered", ![w].answer = answer]
    /\ UNCHANGED <<status, checkout, txn, receipts, heard, penalty, posted, barred, desk>>

QueryFails(w) ==
    /\ req[w].stage = "asking"
    /\ req' = [req EXCEPT ![w] = Idle]
    /\ UNCHANGED <<status, checkout, txn, receipts, heard, penalty, posted, barred, desk>>

\* The transition is checked from the status read before the query, and the
\* save writes every field.  A receipt is made unless there is one.
NeedsReceipt(next, i) == next = "SUCCESS" /\ i \notin receipts

SaveVerification(w) ==
    LET i    == req[w].of
        next == MapProviderStatus(req[w].answer)
    IN  /\ req[w].stage = "answered"
        /\ LegalTransition(req[w].seen, next)
        /\ IF NeedsReceipt(next, i)
           THEN Settle(i)
           ELSE /\ status' = [status EXCEPT ![i] = next]
                /\ txn' = [txn EXCEPT ![i] = MapTransactionStatus(next)]
                /\ UNCHANGED <<receipts, penalty, posted>>
        /\ req' = [req EXCEPT ![w] = Idle]
        /\ UNCHANGED <<checkout, heard, barred, desk>>

\* The business event refuses the money: the transaction is rolled back.
VerificationRefused(w) ==
    /\ req[w].stage = "answered"
    /\ NeedsReceipt(MapProviderStatus(req[w].answer), req[w].of)
    /\ Refused(req[w].of)
    /\ req' = [req EXCEPT ![w] = Idle]
    /\ UNCHANGED <<status, checkout, txn, receipts, heard, penalty, posted, barred, desk>>

\* expire_pending_payments: one UPDATE over the open rows past their time.
Expire(i) ==
    /\ status[i] \in {"INITIATED", "PENDING"}
    /\ status' = [status EXCEPT ![i] = "EXPIRED"]
    /\ UNCHANGED <<checkout, txn, receipts, heard, penalty, posted, barred, req, desk>>

-----------------------------------------------------------------------------
(* The desk: mark_penalty_paid pays the whole outstanding amount by hand,  *)
(* waive_penalty forgives it.  Neither locks the penalty it reads.         *)

BeginDeskRequest(d, p, stage) ==
    /\ desk[d].stage = "new"
    /\ Payable(p)
    /\ desk' = [desk EXCEPT ![d] = [stage |-> stage, of |-> p, paid |-> penalty[p].paid]]
    /\ UNCHANGED <<status, checkout, txn, receipts, heard, penalty, posted, barred, req>>

BeginMarkPaid(d, p) == BeginDeskRequest(d, p, "marking")
BeginWaive(d, p) == BeginDeskRequest(d, p, "waiving")

PostFromDesk(d) ==
    posted' = posted \cup {[of |-> desk[d].of, by |-> d,
                            amount |-> PenaltyAmount - desk[d].paid,
                            waiver |-> desk[d].stage = "waiving"]}

CommitMarkPaid(d) ==
    /\ desk[d].stage = "marking"
    /\ penalty' = [penalty EXCEPT ![desk[d].of] = PaidUpTo(PenaltyAmount)]
    /\ PostFromDesk(d)
    /\ desk' = [desk EXCEPT ![d].stage = "done"]
    /\ UNCHANGED <<status, checkout, txn, receipts, heard, barred, req>>

WaivedBefore(p) == \E e \in posted : e.of = p /\ e.waiver

\* Mutant: a waiver marks the waived amount as paid.
CommitWaiveAsPaid(d) ==
    /\ desk[d].stage = "waiving"
    /\ penalty' = [penalty EXCEPT ![desk[d].of] = PaidUpTo(PenaltyAmount)]
    /\ PostFromDesk(d)
    /\ desk' = [desk EXCEPT ![d].stage = "done"]
    /\ UNCHANGED <<status, checkout, txn, receipts, heard, barred, req>>

\* The journal's key is the penalty's: a second waiver is rolled back.
CommitWaive(d) ==
    /\ desk[d].stage = "waiving"
    /\ IF WaivedBefore(desk[d].of)
       THEN UNCHANGED <<penalty, posted>>
       ELSE /\ penalty' = [penalty EXCEPT ![desk[d].of].status = "WAIVED"]
            /\ PostFromDesk(d)
    /\ desk' = [desk EXCEPT ![d].stage = "done"]
    /\ UNCHANGED <<status, checkout, txn, receipts, heard, barred, req>>

-----------------------------------------------------------------------------
Creation ==
    \E w \in Workers :
        \/ \E i \in Intents : AskForMoney(w, i)
        \/ CommitIntent(w)
        \/ RollBackIntent(w)

Callback(i) == CallbackPaid(i) \/ CallbackDeclined(i) \/ CallbackDropped(i)

Verification ==
    \E w \in Workers :
        \/ \E i \in Intents : BeginVerify(w, i)
        \/ QueryProvider(w)
        \/ QueryFails(w)
        \/ SaveVerification(w)
        \/ VerificationRefused(w)

DeskWork ==
    \E d \in Desk :
        \/ \E p \in Penalties : BeginMarkPaid(d, p)
        \/ \E p \in Penalties : BeginWaive(d, p)
        \/ CommitMarkPaid(d)
        \/ CommitWaive(d)

Next ==
    \/ Creation
    \/ \E i \in Intents : MemberAnswers(i) \/ EligibilityChanges(i)
    \/ \E i \in Intents : Callback(i)
    \/ Verification
    \/ \E i \in Intents : Expire(i)
    \/ DeskWork

Spec == Init /\ [][Next]_vars

\* The provider calls back once; nothing is assumed of members, of workers, of
\* the desk or of the tasks, which no schedule names.
FirstCallback(i) == i \notin heard /\ Callback(i)

FairSpec == Spec /\ \A i \in Intents : WF_vars(FirstCallback(i))

-----------------------------------------------------------------------------
(* What holds in every interleaving.                                       *)

\* The chama books only money a member did pay, and an intent with a receipt
\* is never shown as failed or cancelled, whatever order the callback, the
\* stale answers of queries and the expiry come in.
ReceiptWasPaid ==
    \A i \in receipts : checkout[i] = "paid" /\ status[i] \notin {"FAILED", "CANCELLED"}

\* A posting of n is n units of money; what postings add up to is counted.
Units(S) == {u \in S \X (1..PenaltyAmount) : u[2] <= u[1].amount}
CreditsOf(S) == Cardinality(Units(S))
PostedFor(p) == {e \in posted : e.of = p}
PaymentsFor(p) == {e \in PostedFor(p) : ~e.waiver}

\* However stale the desk's reads, a penalty never shows more money as paid
\* than the journal holds payments for.
PaidIsPosted == \A p \in Penalties : penalty[p].paid <= CreditsOf(PaymentsFor(p))

FinePostings(p) == {e \in posted : e.of = p /\ e.by \in Fines}

\* Fines paid by M-Pesa, a unit each, never add up to more than their penalty:
\* no two callbacks, and no callback and query, settle the same part of it,
\* whatever the desk writes between them.
FinesNotOvercollected ==
    \A p \in Penalties : Cardinality(FinePostings(p)) <= PenaltyAmount

\* A callback for a payment that is committed and open ends in a receipt,
\* unless the intent expires or its business event cannot take the money.
CallbackSettles ==
    \A i \in Intents :
        (status[i] = "PENDING" /\ checkout[i] = "paid" /\ i \notin heard)
            ~> (i \in receipts \/ status[i] = "EXPIRED" \/ Refused(i))

\* An intent is booked when it has its receipt and, for a fine, the journal
\* its posting.
BookedIntents == {i \in receipts : i \in Fines => \E e \in posted : e.by = i}

\* However callbacks, stale queries, expiries and the desk cross, money is
\* booked as PaymentPromise says: a payment once, when the member made it, and
\* no intent is shown as paid before.  A fine that refuses the money leaves no
\* trace of the payment.
Promise ==
    INSTANCE PaymentPromise WITH
        Payments <- Intents,
        PartsOf  <- [i \in Intents |-> {"whole"}],
        paidFor  <- [i \in Intents |-> IF checkout[i] = "paid" THEN i ELSE None],
        books    <- {[of |-> i, part |-> "whole", receipt |-> i] : i \in BookedIntents},
        shown    <- {i \in Intents : status[i] = "SUCCESS"}
PromiseKept == Promise!Spec
==============================================================================
