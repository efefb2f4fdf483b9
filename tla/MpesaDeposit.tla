----------------------------- MODULE MpesaDeposit -----------------------------
(***************************************************************************)
(* Deposits and loan repayments over M-Pesa as PaymentWorkflowService      *)
(* takes them (src/apps/payments/services.py).  A member either has a push *)
(* sent to the phone (STK), or pays to the paybill under a reference that  *)
(* was given out (C2B).  A payment may be split: a part repays a loan, the *)
(* rest is a contribution.                                                 *)
(*                                                                         *)
(* A request for a push commits statement by statement, with the provider  *)
(* in the middle, and saves PENDING over whatever the intent has become.   *)
(* The STK callback and the expiry task lock the intent and are one step   *)
(* each.  The C2B confirmation is a transaction that reads the intent      *)
(* without a lock: req holds what it read.                                 *)
(***************************************************************************)
EXTENDS FiniteSets

CONSTANTS
    Intents,        \* payment intents, one for each idempotency key
    Paybills,       \* those that are paid to the paybill; the others by push
    Splits,         \* those of purpose SPLIT_ALLOCATION
    Checkouts,      \* pushes: CheckoutRequestID and the receipt it may get
    TransIds,       \* payments to the paybill
    Workers,        \* processes that serve requests and confirmations
    None

ASSUME DepositAssumption ==
    /\ Paybills \cup Splits \subseteq Intents
    /\ Checkouts \cap TransIds = {}
    /\ None \notin Intents \cup Checkouts \cup TransIds

Payments == Checkouts \cup TransIds

VARIABLES
    intent,     \* PaymentIntent.status, "none" before the row exists
    tx,         \* MpesaSTKTransaction.status, MpesaC2BTransaction.processing_status
    latest,     \* the newest MpesaSTKTransaction of an intent
    asked,      \* external: the intent a payment was made for
    provider,   \* external: what became of a payment
    journal,    \* postings: intent, part of it, payment that is its receipt
    req         \* what a worker holds between two statements

vars == <<intent, tx, latest, asked, provider, journal, req>>

IntentStatus == {"none", "INITIATED", "PENDING", "SUCCESS", "FAILED", "EXPIRED"}
TxStatus == IntentStatus \cup {"POSTED", "DUPLICATE", "REJECTED"}
Part == {"whole", "repayment", "contribution"}
Posting == [of : Intents, part : Part, receipt : Payments]

Stage == {"idle", "asking", "pushed", "recorded", "referring", "confirming"}
Request == [stage : Stage, of : Intents \cup {None}, pay : Payments \cup {None},
            seen : IntentStatus]
Idle == [stage |-> "idle", of |-> None, pay |-> None, seen |-> "none"]

TypeOK ==
    /\ intent \in [Intents -> IntentStatus]
    /\ tx \in [Payments -> TxStatus]
    /\ latest \in [Intents -> Checkouts \cup {None}]
    /\ asked \in [Payments -> Intents \cup {None}]
    /\ provider \in [Payments -> {"none", "asked", "paid", "short", "declined"}]
    /\ journal \subseteq Posting
    /\ req \in [Workers -> Request]

Init ==
    /\ intent = [i \in Intents |-> "none"]
    /\ tx = [p \in Payments |-> "none"]
    /\ latest = [i \in Intents |-> None]
    /\ asked = [p \in Payments |-> None]
    /\ provider = [p \in Payments |-> "none"]
    /\ journal = {}
    /\ req = [w \in Workers |-> Idle]

-----------------------------------------------------------------------------
(* A request for a push: initiate_deposit_stk, initiate_split_stk and      *)
(* initiate_loan_repayment_stk.                                            *)

\* Mutant: the row gets the default of the model, a unified status.
CreateUnified(i) ==
    intent' = [intent EXCEPT ![i] = IF @ = "none" THEN "initiated" ELSE @]
\* get_or_create by the idempotency key.
CreateIntent(i) ==
    intent' = [intent EXCEPT ![i] = IF @ = "none" THEN "INITIATED" ELSE @]

\* A request that is repeated gets the push that is still open, or was paid.
UnderWay(i) == latest[i] # None /\ intent[i] \in {"PENDING", "SUCCESS"}

Ask(w, i) ==
    /\ req[w] = Idle
    /\ i \notin Paybills
    /\ ~UnderWay(i)
    /\ CreateIntent(i)
    /\ req' = [req EXCEPT ![w] = [Idle EXCEPT !.stage = "asking", !.of = i]]
    /\ UNCHANGED <<tx, latest, asked, provider, journal>>

Push(w) ==
    /\ req[w].stage = "asking"
    /\ \E c \in Checkouts :
          /\ provider[c] = "none"
          /\ provider' = [provider EXCEPT ![c] = "asked"]
          /\ asked' = [asked EXCEPT ![c] = req[w].of]
          /\ req' = [req EXCEPT ![w].stage = "pushed", ![w].pay = c]
    /\ UNCHANGED <<intent, tx, latest, journal>>

RecordCheckout(w) ==
    /\ req[w].stage = "pushed"
    /\ tx' = [tx EXCEPT ![req[w].pay] = "PENDING"]
    /\ latest' = [latest EXCEPT ![req[w].of] = req[w].pay]
    /\ req' = [req EXCEPT ![w].stage = "recorded"]
    /\ UNCHANGED <<intent, asked, provider, journal>>

\* The last statement of a request, whatever a callback wrote meanwhile.
SavePending(w) ==
    /\ req[w].stage \in {"recorded", "referring"}
    /\ intent' = [intent EXCEPT ![req[w].of] = "PENDING"]
    /\ req' = [req EXCEPT ![w] = Idle]
    /\ UNCHANGED <<tx, latest, asked, provider, journal>>

\* An exception or a dead process between two statements; a confirmation is a
\* transaction, and leaves nothing.
Abandon(w) ==
    /\ req[w] # Idle
    /\ req' = [req EXCEPT ![w] = Idle]
    /\ UNCHANGED <<intent, tx, latest, asked, provider, journal>>

\* The member answers the prompt, or it times out.  Short: what is reported of
\* the payment lacks its receipt, or names another amount.
MemberAnswers(c) ==
    /\ provider[c] = "asked"
    /\ \E outcome \in {"paid", "short", "declined"} :
          provider' = [provider EXCEPT ![c] = outcome]
    /\ UNCHANGED <<intent, tx, latest, asked, journal, req>>

-----------------------------------------------------------------------------
(* Posting: _post_intent_success.                                          *)

Parts(i) == IF i \in Splits THEN {"repayment", "contribution"} ELSE {"whole"}

\* What finance accepts: all of it, nothing, or the repayment of a split whose
\* contribution it then refuses.
Accepted(i) == {{}, Parts(i)} \cup {{"repayment"} \cap Parts(i)}

\* Mutant: what was accepted before the refusal stays.
KeptInPart(i, accepted) == accepted
\* A refusal rolls the block back.
Kept(i, accepted) == IF accepted = Parts(i) THEN accepted ELSE {}

PostIntentSuccess(i, p, accepted) ==
    journal' = journal \cup
        {[of |-> i, part |-> part, receipt |-> p] : part \in Kept(i, accepted)}

\* Mutant: the rows are settled whether or not the posting was accepted.
WholeAnyway(i, accepted) == TRUE
IsWhole(i, accepted) == accepted = Parts(i)

Posted(p) == \E e \in journal : e.receipt = p

-----------------------------------------------------------------------------
(* process_stk_callback                                                    *)

\* A callback whose CheckoutRequestID no row has is logged and dropped.
Known(c) == tx[c] # "none"

SettleCheckout(c, status) ==
    /\ intent' = [intent EXCEPT ![asked[c]] = status]
    /\ tx' = [tx EXCEPT ![c] = status]
    /\ UNCHANGED <<latest, asked, provider, req>>

\* A payment of an intent that is paid already is not posted again.
CallbackOfPaidIntent(c) ==
    /\ Known(c)
    /\ provider[c] = "paid"
    /\ intent[asked[c]] = "SUCCESS"
    /\ SettleCheckout(c, "SUCCESS")
    /\ UNCHANGED journal

\* Receipt codes of contributions and repayments are unique: if the intent was
\* reopened since the receipt was posted, the callback's transaction fails,
\* unless finance refuses before it inserts the receipt again.
NewReceipt(p) == ~Posted(p)

\* Mutant: an intent that is paid is posted again.
AnyIntent(i) == TRUE
Unpaid(i) == intent[i] # "SUCCESS"

CallbackPaid(c) ==
    /\ Known(c)
    /\ provider[c] = "paid"
    /\ Unpaid(asked[c])
    /\ \E accepted \in Accepted(asked[c]) :
          /\ accepted # {} => NewReceipt(c)
          /\ PostIntentSuccess(asked[c], c, accepted)
          /\ SettleCheckout(c, IF IsWhole(asked[c], accepted) THEN "SUCCESS" ELSE "FAILED")

\* This fails an intent that another push has paid, too.
CallbackFailed(c) ==
    /\ Known(c)
    /\ provider[c] \in {"short", "declined"}
    /\ SettleCheckout(c, "FAILED")
    /\ UNCHANGED journal

-----------------------------------------------------------------------------
(* expire_pending_stk, for one intent: the task locks it.                  *)

\* Mutant: the newest push is not looked at.
PaidNever(i) == FALSE
LatestIsPaid(i) == latest[i] # None /\ tx[latest[i]] = "SUCCESS"

Expire(i) ==
    /\ intent[i] = "PENDING"
    /\ ~LatestIsPaid(i)
    /\ intent' = [intent EXCEPT ![i] = "EXPIRED"]
    /\ tx' = [p \in Payments |->
                 IF p = latest[i] /\ tx[p] = "PENDING" THEN "EXPIRED" ELSE tx[p]]
    /\ UNCHANGED <<latest, asked, provider, journal, req>>

-----------------------------------------------------------------------------
(* The paybill.                                                            *)

\* create_deposit_c2b_intent, create_split_c2b_intent and
\* create_loan_repayment_c2b_intent; SavePending is their last statement, also
\* when the key has been used and the intent is paid.
GiveReference(w, i) ==
    /\ req[w] = Idle
    /\ i \in Paybills
    /\ CreateIntent(i)
    /\ req' = [req EXCEPT ![w] = [Idle EXCEPT !.stage = "referring", !.of = i]]
    /\ UNCHANGED <<tx, latest, asked, provider, journal>>

\* process_c2b_validation looks for the reference, not at the intent's amount
\* or status.
Valid(i) == i \in Paybills /\ intent[i] \notin {"none", "INITIATED"}

\* The member pays to the paybill, the amount or another.
PayBill(t, i) ==
    /\ provider[t] = "none"
    /\ Valid(i)
    /\ \E amount \in {"paid", "short"} : provider' = [provider EXCEPT ![t] = amount]
    /\ asked' = [asked EXCEPT ![t] = i]
    /\ UNCHANGED <<intent, tx, latest, journal, req>>

\* Mutant: the amount is not compared.
AnyAmount(t) == provider[t] \in {"paid", "short"}
AmountMatches(t) == provider[t] = "paid"

BeginConfirmation(w, t) ==
    /\ req[w] = Idle
    /\ AmountMatches(t)
    /\ tx[t] = "none"
    /\ req' = [req EXCEPT ![w] = [stage |-> "confirming", of |-> asked[t], pay |-> t,
                                  seen |-> intent[asked[t]]]]
    /\ UNCHANGED <<intent, tx, latest, asked, provider, journal>>

\* trans_id is unique: of two confirmations one fails.
CommitConfirmation(w) ==
    LET i == req[w].of
        t == req[w].pay
    IN  /\ req[w].stage = "confirming"
        /\ tx[t] = "none"
        /\ \/ /\ req[w].seen = "SUCCESS"
              /\ tx' = [tx EXCEPT ![t] = "DUPLICATE"]
              /\ UNCHANGED <<intent, journal>>
           \/ /\ req[w].seen # "SUCCESS"
              /\ \E accepted \in Accepted(i) :
                    /\ PostIntentSuccess(i, t, accepted)
                    /\ intent' = [intent EXCEPT ![i] =
                                     IF IsWhole(i, accepted) THEN "SUCCESS" ELSE "FAILED"]
                    /\ tx' = [tx EXCEPT ![t] =
                                 IF IsWhole(i, accepted) THEN "POSTED" ELSE "REJECTED"]
        /\ req' = [req EXCEPT ![w] = Idle]
        /\ UNCHANGED <<latest, asked, provider>>

\* The confirmation of another amount fails the intent, as often as it comes.
ConfirmShort(t) ==
    /\ provider[t] # "none"
    /\ tx[t] = "none"
    /\ ~AmountMatches(t)
    /\ intent' = [intent EXCEPT ![asked[t]] = "FAILED"]
    /\ UNCHANGED <<tx, latest, asked, provider, journal, req>>

\* A trans_id that is known, whatever became of it.
ConfirmAgain(t) ==
    /\ tx[t] # "none"
    /\ tx' = [tx EXCEPT ![t] = "DUPLICATE"]
    /\ UNCHANGED <<intent, latest, asked, provider, journal, req>>

-----------------------------------------------------------------------------
Callback(c) ==
    CallbackOfPaidIntent(c) \/ CallbackPaid(c) \/ CallbackFailed(c)

Next ==
    \/ \E w \in Workers, i \in Intents : Ask(w, i) \/ GiveReference(w, i)
    \/ \E w \in Workers : \/ Push(w) \/ RecordCheckout(w) \/ SavePending(w)
                          \/ Abandon(w) \/ CommitConfirmation(w)
    \/ \E w \in Workers, t \in TransIds : BeginConfirmation(w, t)
    \/ \E c \in Checkouts : MemberAnswers(c) \/ Callback(c)
    \/ \E t \in TransIds : ConfirmShort(t) \/ ConfirmAgain(t)
    \/ \E t \in TransIds, i \in Intents : PayBill(t, i)
    \/ \E i \in Intents : Expire(i)

Spec == Init /\ [][Next]_vars

-----------------------------------------------------------------------------
(* Properties                                                              *)

Booked(i) == \E e \in journal : e.of = i

\* What counts as paid is in the books: an intent that is SUCCESS, the intent
\* of a push that is SUCCESS, and a paybill payment that is POSTED.  Stale
\* saves of PENDING, expiries and the callbacks of a second push or payment of
\* the same intent come in between.
SettledIsBooked ==
    /\ \A i \in Intents : intent[i] = "SUCCESS" => Booked(i)
    /\ \A c \in Checkouts : tx[c] = "SUCCESS" => Booked(asked[c])
    /\ \A t \in TransIds : tx[t] = "POSTED" => Posted(t)

\* What is in the books was paid, in full, for the intent it is booked to.
BookedWasPaid ==
    \A e \in journal : provider[e.receipt] = "paid" /\ asked[e.receipt] = e.of

\* An intent whose newest push is SUCCESS is never shown as expired, although
\* the request that sent the push may save PENDING after the callback and make
\* it look open to the task.
ExpiredIsUnpaid ==
    \A i \in Intents, c \in Checkouts :
        intent[i] = "EXPIRED" /\ latest[i] = c => tx[c] # "SUCCESS"

\* A push that is SUCCESS stays so as long as its intent is: the callback is
\* repeated, other pushes of the intent are answered, and the loan that the
\* payment settled would now refuse it.
PaidPushIsFinal ==
    [][\A c \in Checkouts :
          tx[c] = "SUCCESS" /\ intent[asked[c]] = "SUCCESS" => tx'[c] = "SUCCESS"]_vars

\* However requests, callbacks, confirmations and expiries cross, money is
\* booked as PaymentPromise says: each payment once, whole and when it was
\* made, and no intent is shown as paid before.  A posting that is refused in
\* part leaves nothing, and a repeated callback of a reopened intent cannot
\* post its receipt again.
Promise ==
    INSTANCE PaymentPromise WITH
        PartsOf <- [i \in Intents |-> Parts(i)],
        paidFor <- [p \in Payments |-> IF provider[p] = "paid" THEN asked[p] ELSE None],
        books   <- journal,
        shown   <- {i \in Intents : intent[i] = "SUCCESS"}
PromiseKept == Promise!Spec
===============================================================================
