------------------------- MODULE PaymentIntakeProofs -------------------------
(***************************************************************************)
(* What holds of PaymentIntake for any intents, penalties, desk requests   *)
(* and workers.  IInv is the inductive invariant: what a query answered    *)
(* still agrees with the provider when it is saved, since the provider     *)
(* decides a push once, and only a declined push is shown as failed.       *)
(***************************************************************************)
EXTENDS PaymentIntake, FiniteSetTheorems, TLAPS

\* An intent shown as paid has its receipt, and with it its contribution or
\* its fine booked: no path, the stale one of verify_payment included, commits
\* the status without the business event.
SuccessHasReceipt == \A i \in Intents : status[i] = "SUCCESS" => i \in receipts

RequestsSound ==
    \A w \in Workers :
        /\ req[w].stage # "idle" => req[w].of \in Intents
        /\ req[w].stage = "answered" =>
              /\ req[w].answer = "success" => checkout[req[w].of] = "paid"
              /\ req[w].answer \in {"failed", "cancelled"} => checkout[req[w].of] = "declined"

DeskSound ==
    \A d \in Desk : desk[d].stage \in {"marking", "waiving"} => desk[d].of \in Penalties

FailureWasDeclined ==
    \A i \in Intents : status[i] \in {"FAILED", "CANCELLED"} => checkout[i] = "declined"

ReceiptsArePaid == \A i \in receipts : checkout[i] = "paid"

IInv ==
    /\ TypeOK
    /\ RequestsSound
    /\ DeskSound
    /\ FailureWasDeclined
    /\ ReceiptsArePaid
    /\ SuccessHasReceipt

-----------------------------------------------------------------------------
\* The initial states are sound.
LEMMA InitInv == Init => IInv
  BY IntakeAssumption
  DEF Init, IInv, TypeOK, RequestsSound, DeskSound, FailureWasDeclined, ReceiptsArePaid,
      SuccessHasReceipt, PaymentStatus, TransactionStatus, PenaltyStatus, Checkout, Answer,
      Request, DeskRequest, Posting, Idle

\* Settling an intent the provider was paid for keeps its own part of IInv.
LEMMA SettleInv ==
  ASSUME IInv, NEW i \in Intents, Settle(i), checkout[i] = "paid", checkout' = checkout
  PROVE  /\ status' \in [Intents -> PaymentStatus]
         /\ txn' \in [Intents -> TransactionStatus]
         /\ receipts' \subseteq Intents
         /\ penalty' \in [Penalties -> [status : PenaltyStatus, paid : 0..PenaltyAmount]]
         /\ posted' \subseteq Posting
         /\ FailureWasDeclined'
         /\ ReceiptsArePaid'
         /\ SuccessHasReceipt'
<1> USE DEF IInv
<1>1. /\ status' = [status EXCEPT ![i] = "SUCCESS"]
      /\ txn' = [txn EXCEPT ![i] = "VERIFIED"]
      /\ receipts' = receipts \cup {i}
  BY DEF Settle
<1>2. /\ status' \in [Intents -> PaymentStatus]
      /\ txn' \in [Intents -> TransactionStatus]
      /\ receipts' \subseteq Intents
  BY <1>1 DEF TypeOK, PaymentStatus, TransactionStatus
<1>3. /\ penalty' \in [Penalties -> [status : PenaltyStatus, paid : 0..PenaltyAmount]]
      /\ posted' \subseteq Posting
  <2>1. CASE i \in Fines
    <3> DEFINE p == PenaltyOf[i]
    <3>1. p \in Penalties
      BY <2>1, IntakeAssumption
    <3>2. /\ penalty' = [penalty EXCEPT ![p] = PaidUpTo(penalty[p].paid + 1)]
          /\ posted' = posted \cup {[of |-> p, by |-> i, amount |-> 1, waiver |-> FALSE]}
      BY <2>1, <3>1 DEF Settle, PostBusinessEvent, TypeOK
    <3>3. penalty[p].paid + 1 \in 0..PenaltyAmount
      BY <2>1, <3>1, IntakeAssumption DEF Settle, Refused, Outstanding, TypeOK
    <3>4. PaidUpTo(penalty[p].paid + 1) \in [status : PenaltyStatus, paid : 0..PenaltyAmount]
      BY <3>3 DEF PaidUpTo, PenaltyStatus
    <3>5. 1 \in 0..PenaltyAmount
      BY IntakeAssumption
    <3>6. [of |-> p, by |-> i, amount |-> 1, waiver |-> FALSE] \in Posting
      BY <3>1, <3>5, Zenon DEF Posting
    <3> HIDE DEF p
    <3>7. penalty' \in [Penalties -> [status : PenaltyStatus, paid : 0..PenaltyAmount]]
      BY <3>1, <3>2, <3>4 DEF TypeOK
    <3>8. posted' \subseteq Posting
      BY <3>2, <3>6 DEF TypeOK
    <3> QED
      BY <3>7, <3>8
  <2>2. CASE i \notin Fines
    BY <2>2 DEF Settle, PostBusinessEvent, TypeOK
  <2> QED
    BY <2>1, <2>2
<1>4. FailureWasDeclined' /\ ReceiptsArePaid' /\ SuccessHasReceipt'
  BY <1>1 DEF FailureWasDeclined, ReceiptsArePaid, SuccessHasReceipt, TypeOK
<1> QED
  BY <1>2, <1>3, <1>4

-----------------------------------------------------------------------------
(* One lemma per group of actions.                                         *)

\* The push and the end of its transaction keep IInv: a new push was never
\* declined, and no status but PENDING is new.
LEMMA CreationInv == IInv /\ Creation => IInv'
<1> SUFFICES ASSUME IInv, Creation PROVE IInv'
  OBVIOUS
<1> USE DEF IInv
<1>1. ASSUME NEW w \in Workers, NEW i \in Intents, AskForMoney(w, i) PROVE IInv'
  <2> USE <1>1 DEF AskForMoney
  <2>1. TypeOK'
    BY DEF TypeOK, Checkout, Request, Idle
  <2>2. RequestsSound' /\ DeskSound'
    BY DEF TypeOK, RequestsSound, DeskSound, Idle, Request
  <2>3. FailureWasDeclined' /\ ReceiptsArePaid' /\ SuccessHasReceipt'
    BY DEF TypeOK, FailureWasDeclined, ReceiptsArePaid, SuccessHasReceipt
  <2> QED
    BY <2>1, <2>2, <2>3
<1>2. ASSUME NEW w \in Workers, CommitIntent(w) PROVE IInv'
  <2> USE <1>2 DEF CommitIntent
  <2>1. TypeOK'
    BY DEF TypeOK, PaymentStatus, Request, Answer, Idle
  <2>2. RequestsSound' /\ DeskSound'
    BY DEF TypeOK, RequestsSound, DeskSound, Idle
  <2>3. FailureWasDeclined' /\ ReceiptsArePaid' /\ SuccessHasReceipt'
    BY DEF TypeOK, FailureWasDeclined, ReceiptsArePaid, SuccessHasReceipt
  <2> QED
    BY <2>1, <2>2, <2>3
<1>3. ASSUME NEW w \in Workers, RollBackIntent(w) PROVE IInv'
  BY <1>3 DEF RollBackIntent, TypeOK, PaymentStatus, Request, Answer, Idle, RequestsSound,
              DeskSound, FailureWasDeclined, ReceiptsArePaid, SuccessHasReceipt
<1> QED
  BY <1>1, <1>2, <1>3 DEF Creation

\* The provider decides a push that was undecided, so no answer and no status
\* that rests on a decision is disturbed.
LEMMA MemberAnswersInv ==
  ASSUME IInv, NEW i \in Intents, MemberAnswers(i)
  PROVE  IInv'
<1> USE DEF IInv, MemberAnswers
<1>1. TypeOK'
  BY DEF TypeOK, Checkout
<1>2. RequestsSound' /\ DeskSound'
  BY DEF TypeOK, RequestsSound, DeskSound
<1>3. FailureWasDeclined' /\ ReceiptsArePaid' /\ SuccessHasReceipt'
  BY DEF TypeOK, FailureWasDeclined, ReceiptsArePaid, SuccessHasReceipt
<1> QED
  BY <1>1, <1>2, <1>3

\* IInv does not speak of what a contribution could be refused for, its type
\* aside.
LEMMA EligibilityInv ==
  ASSUME IInv, NEW i \in Intents, EligibilityChanges(i)
  PROVE  IInv'
<1> USE DEF IInv, EligibilityChanges
<1>1. TypeOK'
  BY DEF TypeOK
<1>2. RequestsSound' /\ DeskSound'
  BY DEF RequestsSound, DeskSound
<1>3. FailureWasDeclined' /\ ReceiptsArePaid' /\ SuccessHasReceipt'
  BY DEF FailureWasDeclined, ReceiptsArePaid, SuccessHasReceipt
<1> QED
  BY <1>1, <1>2, <1>3

\* A callback settles what was paid, fails what was declined, or is dropped.
LEMMA CallbackInv ==
  ASSUME IInv, NEW i \in Intents, Callback(i)
  PROVE  IInv'
<1> USE DEF IInv
<1>1. CASE CallbackPaid(i)
  <2>1. Settle(i) /\ checkout[i] = "paid" /\ checkout' = checkout
    BY <1>1 DEF CallbackPaid
  <2>2. heard' \subseteq Intents /\ UNCHANGED <<barred, req, desk>>
    BY <1>1 DEF CallbackPaid, TypeOK
  <2>3. TypeOK'
    BY <2>1, <2>2, SettleInv DEF TypeOK
  <2>4. RequestsSound' /\ DeskSound'
    BY <2>1, <2>2 DEF RequestsSound, DeskSound
  <2> QED
    BY <2>1, <2>3, <2>4, SettleInv
<1>2. CASE CallbackDeclined(i)
  <2> USE <1>2 DEF CallbackDeclined
  <2>1. TypeOK'
    BY DEF TypeOK, PaymentStatus, TransactionStatus
  <2>2. RequestsSound' /\ DeskSound'
    BY DEF RequestsSound, DeskSound
  <2>3. FailureWasDeclined' /\ ReceiptsArePaid' /\ SuccessHasReceipt'
    BY DEF TypeOK, FailureWasDeclined, ReceiptsArePaid, SuccessHasReceipt
  <2> QED
    BY <2>1, <2>2, <2>3
<1>3. CASE CallbackDropped(i)
  BY <1>3 DEF CallbackDropped, TypeOK, RequestsSound, DeskSound, FailureWasDeclined,
              ReceiptsArePaid, SuccessHasReceipt
<1> QED
  BY <1>1, <1>2, <1>3 DEF Callback

\* A query's answer agrees with the provider when it is given.
LEMMA QueryInv ==
  ASSUME IInv, NEW w \in Workers, QueryProvider(w)
  PROVE  IInv'
<1> USE DEF IInv
<1> DEFINE i == req[w].of
<1>0. i \in Intents
  BY DEF QueryProvider, RequestsSound
<1>1. PICK answer \in ProviderAnswers(i) :
        /\ req' = [req EXCEPT ![w].stage = "answered", ![w].answer = answer]
        /\ UNCHANGED <<status, checkout, txn, receipts, heard, penalty, posted, barred, desk>>
  BY DEF QueryProvider
<1>2. /\ answer \in Answer
      /\ answer = "success" => checkout[i] = "paid"
      /\ answer \in {"failed", "cancelled"} => checkout[i] = "declined"
  BY <1>1 DEF ProviderAnswers, Answer
<1>3. req' \in [Workers -> Request]
  BY <1>1, <1>2 DEF TypeOK, Request
<1>4. TypeOK'
  BY <1>1, <1>3 DEF TypeOK
<1>5. RequestsSound'
  BY <1>0, <1>1, <1>2 DEF TypeOK, Request, RequestsSound
<1> QED
  BY <1>1, <1>4, <1>5 DEF DeskSound, FailureWasDeclined, ReceiptsArePaid, SuccessHasReceipt

\* A save writes what the answer says, which still agrees with the provider
\* however old the answer is; and SUCCESS is written with a receipt.
LEMMA SaveVerificationInv ==
  ASSUME IInv, NEW w \in Workers, SaveVerification(w)
  PROVE  IInv'
<1> USE DEF IInv
<1> DEFINE i == req[w].of
           next == MapProviderStatus(req[w].answer)
<1>1. /\ req[w].stage = "answered"
      /\ req' = [req EXCEPT ![w] = Idle]
      /\ UNCHANGED <<checkout, heard, barred, desk>>
  BY DEF SaveVerification
<1>2. /\ i \in Intents
      /\ req[w].answer \in Answer
      /\ req[w].answer = "success" => checkout[i] = "paid"
      /\ req[w].answer \in {"failed", "cancelled"} => checkout[i] = "declined"
  BY <1>1 DEF RequestsSound, TypeOK, Request
<1>3. /\ next \in {"SUCCESS", "PENDING", "FAILED", "CANCELLED"}
      /\ next = "SUCCESS" => checkout[i] = "paid"
      /\ next \in {"FAILED", "CANCELLED"} => checkout[i] = "declined"
  BY <1>2 DEF MapProviderStatus, Answer
<1>4. req' \in [Workers -> Request]
  BY <1>1 DEF TypeOK, Request, Idle, PaymentStatus, Answer
<1>5. RequestsSound' /\ DeskSound'
  BY <1>1 DEF RequestsSound, DeskSound, TypeOK, Idle
<1>6. CASE NeedsReceipt(next, i)
  <2>1. Settle(i) /\ checkout[i] = "paid"
    BY <1>3, <1>6 DEF SaveVerification, NeedsReceipt
  <2>2. TypeOK'
    BY <1>1, <1>2, <1>4, <2>1, SettleInv DEF TypeOK
  <2> QED
    BY <1>1, <1>2, <1>5, <2>1, <2>2, SettleInv
<1>7. CASE ~NeedsReceipt(next, i)
  <2>1. /\ status' = [status EXCEPT ![i] = next]
        /\ txn' = [txn EXCEPT ![i] = MapTransactionStatus(next)]
        /\ UNCHANGED <<receipts, penalty, posted>>
    BY <1>7 DEF SaveVerification
  <2>2. MapTransactionStatus(next) \in TransactionStatus
    BY <1>3 DEF MapTransactionStatus, TransactionStatus
  <2>3. next \in PaymentStatus
    BY <1>3 DEF PaymentStatus
  <2>4. TypeOK'
    BY <1>1, <1>2, <1>4, <2>1, <2>2, <2>3 DEF TypeOK
  <2>5. next = "SUCCESS" => i \in receipts
    BY <1>7 DEF NeedsReceipt
  <2> HIDE DEF next
  <2>6. FailureWasDeclined' /\ ReceiptsArePaid' /\ SuccessHasReceipt'
    BY <1>1, <1>2, <1>3, <2>1, <2>5
    DEF TypeOK, FailureWasDeclined, ReceiptsArePaid, SuccessHasReceipt
  <2> QED
    BY <1>5, <2>4, <2>6
<1> QED
  BY <1>6, <1>7

\* Beginning, failing or refusing a verification changes the request only.
LEMMA VerificationInv == IInv /\ Verification => IInv'
<1> SUFFICES ASSUME IInv, Verification PROVE IInv'
  OBVIOUS
<1>1. ASSUME NEW w \in Workers, NEW i \in Intents, BeginVerify(w, i) PROVE IInv'
  <2> USE <1>1 DEF BeginVerify, IInv
  <2>1. TypeOK'
    BY DEF TypeOK, Request, Idle, Answer
  <2>2. RequestsSound' /\ DeskSound'
    BY DEF RequestsSound, DeskSound, TypeOK, Idle
  <2>3. FailureWasDeclined' /\ ReceiptsArePaid' /\ SuccessHasReceipt'
    BY DEF FailureWasDeclined, ReceiptsArePaid, SuccessHasReceipt
  <2> QED
    BY <2>1, <2>2, <2>3
<1>2. ASSUME NEW w \in Workers, QueryFails(w) \/ VerificationRefused(w) PROVE IInv'
  <2>1. /\ req' = [req EXCEPT ![w] = Idle]
        /\ UNCHANGED <<status, checkout, txn, receipts, heard, penalty, posted, barred, desk>>
    BY <1>2 DEF QueryFails, VerificationRefused
  <2>2. TypeOK'
    BY <2>1 DEF IInv, TypeOK, PaymentStatus, Request, Answer, Idle
  <2>3. RequestsSound' /\ DeskSound'
    BY <2>1 DEF IInv, RequestsSound, DeskSound, TypeOK, Idle
  <2>4. FailureWasDeclined' /\ ReceiptsArePaid' /\ SuccessHasReceipt'
    BY <2>1 DEF IInv, FailureWasDeclined, ReceiptsArePaid, SuccessHasReceipt
  <2> QED
    BY <2>2, <2>3, <2>4 DEF IInv
<1> QED
  BY <1>1, <1>2, QueryInv, SaveVerificationInv DEF Verification

\* Expiry writes a status no other part of IInv speaks of.
LEMMA ExpireInv ==
  ASSUME IInv, NEW i \in Intents, Expire(i)
  PROVE  IInv'
<1> USE DEF IInv, Expire
<1>1. TypeOK'
  BY DEF TypeOK, PaymentStatus
<1>2. RequestsSound' /\ DeskSound'
  BY DEF RequestsSound, DeskSound
<1>3. FailureWasDeclined' /\ ReceiptsArePaid' /\ SuccessHasReceipt'
  BY DEF TypeOK, FailureWasDeclined, ReceiptsArePaid, SuccessHasReceipt
<1> QED
  BY <1>1, <1>2, <1>3

\* The desk posts an amount its read left outstanding, to the penalty it read.
LEMMA DeskPosting ==
  ASSUME IInv, NEW d \in Desk, desk[d].stage \in {"marking", "waiving"}, PostFromDesk(d)
  PROVE  posted' \subseteq Posting
<1> DEFINE amount == PenaltyAmount - desk[d].paid
           waiver == desk[d].stage = "waiving"
<1>1. desk[d].of \in Penalties
  BY DEF IInv, DeskSound
<1>2. amount \in 0..PenaltyAmount
  BY IntakeAssumption DEF IInv, TypeOK, DeskRequest
<1>3. waiver \in BOOLEAN
  OBVIOUS
<1> HIDE DEF amount, waiver
<1>4. [of |-> desk[d].of, by |-> d, amount |-> amount, waiver |-> waiver] \in Posting
  BY <1>1, <1>2, <1>3, Zenon DEF Posting
<1>5. posted' = posted \cup
        {[of |-> desk[d].of, by |-> d, amount |-> amount, waiver |-> waiver]}
  BY DEF PostFromDesk, amount, waiver
<1> QED
  BY <1>4, <1>5 DEF IInv, TypeOK

\* The desk touches penalties, the journal and its own requests.
LEMMA DeskInv == IInv /\ DeskWork => IInv'
<1> SUFFICES ASSUME IInv, DeskWork PROVE IInv'
  OBVIOUS
<1>1. ASSUME UNCHANGED <<status, checkout, txn, receipts, heard, barred, req>>,
             penalty' \in [Penalties -> [status : PenaltyStatus, paid : 0..PenaltyAmount]],
             posted' \subseteq Posting,
             desk' \in [Desk -> DeskRequest],
             DeskSound'
      PROVE  IInv'
  BY <1>1 DEF IInv, TypeOK, RequestsSound, FailureWasDeclined, ReceiptsArePaid,
              SuccessHasReceipt
<1>2. ASSUME NEW d \in Desk, NEW p \in Penalties, NEW stage \in {"marking", "waiving"},
             BeginDeskRequest(d, p, stage)
      PROVE  IInv'
  <2>1. [stage |-> stage, of |-> p, paid |-> penalty[p].paid] \in DeskRequest
    BY DEF IInv, TypeOK, DeskRequest
  <2>2. desk' \in [Desk -> DeskRequest] /\ DeskSound'
    BY <1>2, <2>1 DEF BeginDeskRequest, IInv, TypeOK, DeskSound
  <2>3. /\ UNCHANGED <<status, checkout, txn, receipts, heard, barred, req>>
        /\ UNCHANGED <<penalty, posted>>
    BY <1>2 DEF BeginDeskRequest
  <2> QED
    BY <1>1, <2>2, <2>3 DEF IInv, TypeOK
<1>3. ASSUME NEW d \in Desk, desk' = [desk EXCEPT ![d].stage = "done"]
      PROVE  desk' \in [Desk -> DeskRequest] /\ DeskSound'
  BY <1>3 DEF IInv, TypeOK, DeskRequest, DeskSound
<1>4. ASSUME NEW d \in Desk, CommitMarkPaid(d) PROVE IInv'
  <2>1. PaidUpTo(PenaltyAmount) \in [status : PenaltyStatus, paid : 0..PenaltyAmount]
    BY IntakeAssumption DEF PaidUpTo, PenaltyStatus
  <2>2. penalty' \in [Penalties -> [status : PenaltyStatus, paid : 0..PenaltyAmount]]
    BY <1>4, <2>1 DEF CommitMarkPaid, IInv, TypeOK
  <2>3. posted' \subseteq Posting
    BY <1>4, DeskPosting DEF CommitMarkPaid
  <2> QED
    BY <1>1, <1>3, <1>4, <2>2, <2>3 DEF CommitMarkPaid
<1>5. ASSUME NEW d \in Desk, CommitWaive(d) PROVE IInv'
  <2>1. penalty' \in [Penalties -> [status : PenaltyStatus, paid : 0..PenaltyAmount]]
    BY <1>5 DEF CommitWaive, IInv, TypeOK, PenaltyStatus
  <2>2. posted' \subseteq Posting
    BY <1>5, DeskPosting DEF CommitWaive, IInv, TypeOK
  <2> QED
    BY <1>1, <1>3, <1>5, <2>1, <2>2 DEF CommitWaive
<1> QED
  BY <1>2, <1>4, <1>5 DEF DeskWork, BeginMarkPaid, BeginWaive

\* IInv is inductive.
LEMMA StepInv == IInv /\ [Next]_vars => IInv'
<1> SUFFICES ASSUME IInv, [Next]_vars PROVE IInv'
  OBVIOUS
<1>1. CASE UNCHANGED vars
  BY <1>1 DEF vars, IInv, TypeOK, RequestsSound, DeskSound, FailureWasDeclined,
              ReceiptsArePaid, SuccessHasReceipt
<1>2. CASE Next
  BY <1>2, CreationInv, MemberAnswersInv, EligibilityInv, CallbackInv, VerificationInv,
     ExpireInv, DeskInv
  DEF Next
<1> QED
  BY <1>1, <1>2

\* IInv holds in every state of every behaviour.
LEMMA Invariance == Spec => []IInv
  BY InitInv, StepInv, PTL DEF Spec

-----------------------------------------------------------------------------
(* Fines and their penalty.                                                *)

\* amount_paid covers at least what fines were posted for: a desk request that
\* saves a stale amount saves the whole of the penalty.
FinesAreInPaid ==
    \A p \in Penalties :
        /\ IsFiniteSet(FinePostings(p))
        /\ Cardinality(FinePostings(p)) <= penalty[p].paid

\* Posting a fine adds one unit to what was posted and to what is paid.
LEMMA SettleKeepsFines ==
  ASSUME IInv, FinesAreInPaid, NEW i \in Intents, Settle(i)
  PROVE  FinesAreInPaid'
<1>1. CASE i \notin Fines
  BY <1>1 DEF Settle, PostBusinessEvent, FinesAreInPaid, FinePostings
<1>2. CASE i \in Fines
  <2> DEFINE q == PenaltyOf[i]
             e == [of |-> q, by |-> i, amount |-> 1, waiver |-> FALSE]
  <2>1. /\ q \in Penalties
        /\ penalty' = [penalty EXCEPT ![q] = PaidUpTo(penalty[q].paid + 1)]
        /\ posted' = posted \cup {e}
    BY <1>2, IntakeAssumption DEF Settle, PostBusinessEvent, IInv, TypeOK
  <2>2. e.of = q /\ e.by = i
    OBVIOUS
  <2> HIDE DEF e, q
  <2>3. FinePostings(q)' = FinePostings(q) \cup {e}
    BY <1>2, <2>1, <2>2 DEF FinePostings
  <2>4. penalty'[q].paid = penalty[q].paid + 1 /\ penalty[q].paid \in Nat
    BY <2>1 DEF IInv, TypeOK, PaidUpTo
  <2>5. /\ IsFiniteSet(FinePostings(q)) /\ Cardinality(FinePostings(q)) <= penalty[q].paid
    BY <2>1 DEF FinesAreInPaid
  <2>6. /\ IsFiniteSet(FinePostings(q)')
        /\ \/ Cardinality(FinePostings(q)') = Cardinality(FinePostings(q))
           \/ Cardinality(FinePostings(q)') = Cardinality(FinePostings(q)) + 1
    BY <2>3, <2>5, FS_AddElement
  <2>7. Cardinality(FinePostings(q)) \in Nat
    BY <2>5, FS_CardinalityType
  <2>8. IsFiniteSet(FinePostings(q)') /\ Cardinality(FinePostings(q)') <= penalty'[q].paid
    BY <2>4, <2>5, <2>6, <2>7
  <2>9. ASSUME NEW p \in Penalties, p # q
        PROVE  IsFiniteSet(FinePostings(p)') /\ Cardinality(FinePostings(p)') <= penalty'[p].paid
    <3>1. FinePostings(p)' = FinePostings(p)
      BY <2>1, <2>2, <2>9 DEF FinePostings
    <3>2. penalty'[p] = penalty[p]
      BY <2>1, <2>9 DEF IInv, TypeOK
    <3> QED
      BY <3>1, <3>2 DEF FinesAreInPaid
  <2> QED
    BY <2>8, <2>9 DEF FinesAreInPaid
<1> QED
  BY <1>1, <1>2

\* The desk posts under keys of its own, and never lowers amount_paid below
\* what fines were posted for.
LEMMA DeskKeepsFines ==
  ASSUME IInv, FinesAreInPaid, NEW d \in Desk, CommitMarkPaid(d) \/ CommitWaive(d)
  PROVE  FinesAreInPaid'
<1>1. ASSUME NEW p \in Penalties PROVE FinePostings(p)' = FinePostings(p)
  <2>1. posted' = posted \/ PostFromDesk(d)
    BY DEF CommitMarkPaid, CommitWaive
  <2>2. d \notin Fines
    BY IntakeAssumption
  <2> QED
    BY <2>1, <2>2 DEF FinePostings, PostFromDesk
<1>2. ASSUME NEW p \in Penalties
      PROVE  penalty'[p].paid = penalty[p].paid \/ penalty'[p].paid = PenaltyAmount
  BY DEF CommitMarkPaid, CommitWaive, PaidUpTo, IInv, TypeOK
<1>3. ASSUME NEW p \in Penalties
      PROVE  /\ Cardinality(FinePostings(p)) \in Nat
             /\ penalty[p].paid \in 0..PenaltyAmount
  BY FS_CardinalityType DEF FinesAreInPaid, IInv, TypeOK
<1> QED
  BY <1>1, <1>2, <1>3, IntakeAssumption DEF FinesAreInPaid

\* No other action touches a penalty or the journal.
LEMMA FinesStep == IInv /\ FinesAreInPaid /\ [Next]_vars => FinesAreInPaid'
<1> SUFFICES ASSUME IInv, FinesAreInPaid, [Next]_vars PROVE FinesAreInPaid'
  OBVIOUS
<1>1. ASSUME UNCHANGED <<penalty, posted>> PROVE FinesAreInPaid'
  BY <1>1 DEF FinesAreInPaid, FinePostings
<1>2. CASE UNCHANGED vars
  BY <1>1, <1>2 DEF vars
<1>3. CASE Creation
  BY <1>1, <1>3 DEF Creation, AskForMoney, CommitIntent, RollBackIntent
<1>4. ASSUME NEW i \in Intents, MemberAnswers(i) \/ EligibilityChanges(i) \/ Expire(i)
      PROVE  FinesAreInPaid'
  BY <1>1, <1>4 DEF MemberAnswers, EligibilityChanges, Expire
<1>5. ASSUME NEW i \in Intents, Callback(i) PROVE FinesAreInPaid'
  BY <1>1, <1>5, SettleKeepsFines
  DEF Callback, CallbackPaid, CallbackDeclined, CallbackDropped
<1>6. ASSUME NEW w \in Workers, SaveVerification(w) PROVE FinesAreInPaid'
  <2>1. req[w].of \in Intents
    BY <1>6 DEF IInv, RequestsSound, SaveVerification
  <2> QED
    BY <1>1, <1>6, <2>1, SettleKeepsFines DEF SaveVerification
<1>7. CASE Verification
  BY <1>1, <1>6, <1>7 DEF Verification, BeginVerify, QueryProvider, QueryFails,
                         VerificationRefused
<1>8. CASE DeskWork
  BY <1>1, <1>8, DeskKeepsFines DEF DeskWork, BeginMarkPaid, BeginWaive, BeginDeskRequest
<1> QED
  BY <1>2, <1>3, <1>4, <1>5, <1>7, <1>8 DEF Next

-----------------------------------------------------------------------------
(* What a penalty shows as paid and what the journal holds.                *)

\* A posting is made once under its key: a fine's with its receipt, a desk
\* request's as it ends.
PostedOnce ==
    \A e \in posted :
        /\ e.by \in Intents => e.by \in receipts
        /\ e.by \in Desk => desk[e.by].stage = "done"

\* What a desk request read as paid is still covered by the journal: postings
\* are never taken back.
ReadIsPosted ==
    \A d \in Desk :
        desk[d].stage \in {"marking", "waiving"} =>
            desk[d].paid <= CreditsOf(PaymentsFor(desk[d].of))

\* With FinesAreInPaid this is the inductive invariant behind PaidIsPosted.
JournalCovers ==
    /\ IsFiniteSet(posted)
    /\ PostedOnce
    /\ ReadIsPosted
    /\ PaidIsPosted

\* A posting of n is n units of money.
LEMMA UnitsOfPosting ==
  ASSUME NEW e \in Posting
  PROVE  IsFiniteSet(Units({e})) /\ CreditsOf({e}) = e.amount
<1> DEFINE n == e.amount
           f == [k \in 1..n |-> <<e, k>>]
<1>1. n \in 0..PenaltyAmount /\ n \in Nat /\ n \in Int /\ 1 \in Int
  BY IntakeAssumption DEF Posting
<1>2. Units({e}) = {<<e, k>> : k \in 1..n}
  BY <1>1, IntakeAssumption DEF Units
<1>3. f \in Bijection(1..n, Units({e}))
  BY <1>2 DEF Bijection, Injection, IsInjective, Surjection
<1> HIDE DEF f
<1>4. ExistsBijection(1..n, Units({e}))
  BY <1>3 DEF ExistsBijection
<1> HIDE DEF n
<1>5. /\ IsFiniteSet(1..n)
      /\ Cardinality(1..n) = IF 1 > n THEN 0 ELSE n - 1 + 1
  BY <1>1, FS_Interval
<1>6. Cardinality(1..n) = n
  BY <1>1, <1>5
<1> QED
  BY <1>4, <1>5, <1>6, FS_Bijection DEF n, CreditsOf

\* The units of finitely many postings are finite.
LEMMA UnitsFinite ==
  ASSUME NEW S, IsFiniteSet(S)
  PROVE  IsFiniteSet(Units(S)) /\ CreditsOf(S) \in Nat
<1>1. IsFiniteSet(1..PenaltyAmount)
  BY IntakeAssumption, FS_Interval
<1>2. IsFiniteSet(S \X (1..PenaltyAmount))
  BY <1>1, FS_Product
<1>3. Units(S) \in SUBSET (S \X (1..PenaltyAmount))
  BY DEF Units
<1>4. IsFiniteSet(Units(S))
  BY <1>2, <1>3, FS_Subset
<1> QED
  BY <1>4, FS_CardinalityType DEF CreditsOf

\* A new posting adds its amount.
LEMMA AddCredits ==
  ASSUME NEW S, IsFiniteSet(S), NEW e \in Posting, e \notin S
  PROVE  CreditsOf(S \cup {e}) = CreditsOf(S) + e.amount
<1>1. /\ Units(S \cup {e}) = Units(S) \cup Units({e})
      /\ Units(S) \cap Units({e}) = {}
  BY DEF Units
<1>2. /\ IsFiniteSet(Units(S)) /\ CreditsOf(S) \in Nat
      /\ IsFiniteSet(Units({e})) /\ CreditsOf({e}) = e.amount
  BY UnitsFinite, UnitsOfPosting
<1>3. e.amount \in Nat
  BY IntakeAssumption DEF Posting
<1>4. Cardinality(Units(S) \cap Units({e})) = 0
  BY <1>1, FS_EmptySet
<1>5. Cardinality(Units(S) \cup Units({e})) =
        CreditsOf(S) + CreditsOf({e}) - Cardinality(Units(S) \cap Units({e}))
  BY <1>2, FS_Union DEF CreditsOf
<1>6. CreditsOf(S \cup {e}) = Cardinality(Units(S) \cup Units({e}))
  BY <1>1 DEF CreditsOf
<1> QED
  BY <1>2, <1>3, <1>4, <1>5, <1>6

\* More postings never add up to less.
LEMMA MoreCredits ==
  ASSUME NEW S, NEW T, IsFiniteSet(T), S \subseteq T
  PROVE  CreditsOf(S) <= CreditsOf(T)
<1>1. Units(S) \in SUBSET Units(T)
  BY DEF Units
<1> QED
  BY <1>1, UnitsFinite, FS_Subset DEF CreditsOf

\* The payments of a penalty are finitely many postings.
LEMMA PaymentsFinite ==
  ASSUME IsFiniteSet(posted), NEW p
  PROVE  IsFiniteSet(PaymentsFor(p)) /\ CreditsOf(PaymentsFor(p)) \in Nat
<1>1. PaymentsFor(p) \in SUBSET posted
  BY DEF PaymentsFor, PostedFor
<1> QED
  BY <1>1, FS_Subset, UnitsFinite

\* Whatever leaves the penalties and the journal alone, and moves no desk
\* request, keeps JournalCovers: receipts only grow.
LEMMA JournalUntouched ==
  ASSUME JournalCovers, UNCHANGED <<penalty, posted, desk>>, receipts \subseteq receipts'
  PROVE  JournalCovers'
  BY DEF JournalCovers, PostedOnce, ReadIsPosted, PaidIsPosted, PaymentsFor, PostedFor

\* A new posting takes nothing from what covered a read or a penalty.
LEMMA PostingKeepsReads ==
  ASSUME JournalCovers, NEW e, posted' = posted \cup {e}
  PROVE  /\ IsFiniteSet(posted')
         /\ \A p : CreditsOf(PaymentsFor(p)) <= CreditsOf(PaymentsFor(p))'
         /\ \A p : /\ CreditsOf(PaymentsFor(p)) \in Nat
                   /\ CreditsOf(PaymentsFor(p))' \in Nat
<1>1. IsFiniteSet(posted')
  BY FS_AddElement DEF JournalCovers
<1>2. ASSUME NEW p
      PROVE  /\ PaymentsFor(p) \subseteq PaymentsFor(p)'
             /\ PaymentsFor(p)' \in SUBSET posted'
  BY DEF PaymentsFor, PostedFor
<1>3. ASSUME NEW p
      PROVE  IsFiniteSet(PaymentsFor(p)') /\ CreditsOf(PaymentsFor(p)') \in Nat
  BY <1>1, <1>2, FS_Subset, UnitsFinite
<1>4. ASSUME NEW p PROVE CreditsOf(PaymentsFor(p)) <= CreditsOf(PaymentsFor(p)')
  BY <1>2, <1>3, MoreCredits
<1>5. ASSUME NEW p PROVE CreditsOf(PaymentsFor(p)) \in Nat
  BY PaymentsFinite DEF JournalCovers
<1>6. ASSUME NEW p PROVE CreditsOf(PaymentsFor(p))' = CreditsOf(PaymentsFor(p)')
  BY DEF CreditsOf, Units
<1> QED
  BY <1>1, <1>3, <1>4, <1>5, <1>6

\* A payment that is new in the journal adds its amount to its penalty's.
LEMMA NewPayment ==
  ASSUME JournalCovers, NEW e \in Posting, e \notin posted, ~e.waiver,
         posted' = posted \cup {e}
  PROVE  CreditsOf(PaymentsFor(e.of))' = CreditsOf(PaymentsFor(e.of)) + e.amount
<1>1. /\ PaymentsFor(e.of)' = PaymentsFor(e.of) \cup {e}
      /\ e \notin PaymentsFor(e.of)
  BY DEF PaymentsFor, PostedFor
<1>2. IsFiniteSet(PaymentsFor(e.of))
  BY PaymentsFinite DEF JournalCovers
<1>3. CreditsOf(PaymentsFor(e.of))' = CreditsOf(PaymentsFor(e.of) \cup {e})
  BY <1>1 DEF CreditsOf, Units
<1> QED
  BY <1>1, <1>2, <1>3, AddCredits

\* A fine that settles pays one unit and posts one.
LEMMA SettleIsPosted ==
  ASSUME IInv, JournalCovers, NEW i \in Intents, i \notin receipts, Settle(i), desk' = desk
  PROVE  JournalCovers'
<1>1. receipts' = receipts \cup {i}
  BY DEF Settle
<1>2. CASE i \notin Fines
  <2>1. UNCHANGED <<penalty, posted>>
    BY <1>2 DEF Settle, PostBusinessEvent
  <2> QED
    BY <1>1, <2>1, JournalUntouched
<1>3. CASE i \in Fines
  <2> DEFINE q == PenaltyOf[i]
             e == [of |-> q, by |-> i, amount |-> 1, waiver |-> FALSE]
  <2>1. /\ q \in Penalties
        /\ penalty' = [penalty EXCEPT ![q] = PaidUpTo(penalty[q].paid + 1)]
        /\ posted' = posted \cup {e}
    BY <1>3, IntakeAssumption DEF Settle, PostBusinessEvent, IInv, TypeOK
  <2>2. 1 \in 0..PenaltyAmount
    BY IntakeAssumption
  <2>3. e \in Posting
    BY <2>1, <2>2, Zenon DEF Posting
  <2>4. e.of = q /\ e.by = i /\ e.amount = 1 /\ ~e.waiver
    OBVIOUS
  <2> HIDE DEF e, q
  <2>5. e \notin posted
    BY <2>4 DEF JournalCovers, PostedOnce
  <2>6. CreditsOf(PaymentsFor(q))' = CreditsOf(PaymentsFor(q)) + 1
    BY <2>1, <2>3, <2>4, <2>5, NewPayment
  <2>7. PostedOnce'
    BY <1>1, <2>1, <2>4, IntakeAssumption DEF JournalCovers, PostedOnce
  <2>8. /\ IsFiniteSet(posted')
        /\ \A p : CreditsOf(PaymentsFor(p)) <= CreditsOf(PaymentsFor(p))'
        /\ \A p : /\ CreditsOf(PaymentsFor(p)) \in Nat
                  /\ CreditsOf(PaymentsFor(p))' \in Nat
    BY <2>1, PostingKeepsReads
  <2>9. ReadIsPosted'
    <3> SUFFICES ASSUME NEW d \in Desk, NEW r, r = desk[d].of,
                        desk[d].stage \in {"marking", "waiving"}
                 PROVE  desk[d].paid <= CreditsOf(PaymentsFor(r))'
      BY DEF ReadIsPosted, CreditsOf, Units, PaymentsFor, PostedFor
    <3>1. desk[d].paid <= CreditsOf(PaymentsFor(r)) /\ desk[d].paid \in Nat
      BY IntakeAssumption DEF JournalCovers, ReadIsPosted, IInv, TypeOK, DeskRequest
    <3> QED
      BY <2>8, <3>1
  <2>10. PaidIsPosted'
    <3> SUFFICES ASSUME NEW p \in Penalties
                 PROVE  penalty'[p].paid <= CreditsOf(PaymentsFor(p))'
      BY DEF PaidIsPosted
    <3>1. penalty[p].paid <= CreditsOf(PaymentsFor(p)) /\ penalty[p].paid \in Nat
      BY IntakeAssumption DEF JournalCovers, PaidIsPosted, IInv, TypeOK
    <3>2. penalty'[p].paid = IF p = q THEN penalty[p].paid + 1 ELSE penalty[p].paid
      BY <2>1 DEF PaidUpTo, IInv, TypeOK
    <3> QED
      BY <2>6, <2>8, <3>1, <3>2
  <2> QED
    BY <2>7, <2>8, <2>9, <2>10 DEF JournalCovers
<1> QED
  BY <1>2, <1>3

\* A desk request posts what its read left outstanding, and the journal still
\* covers what it read: together they cover the whole penalty.
LEMMA DeskIsPosted ==
  ASSUME IInv, JournalCovers, NEW d \in Desk, CommitMarkPaid(d) \/ CommitWaive(d)
  PROVE  JournalCovers'
<1>1. PICK q, seen, e :
        /\ q = desk[d].of
        /\ seen = desk[d].paid
        /\ e = [of |-> q, by |-> d, amount |-> PenaltyAmount - seen,
                waiver |-> desk[d].stage = "waiving"]
  OBVIOUS
<1>2. /\ desk[d].stage \in {"marking", "waiving"}
      /\ desk' = [desk EXCEPT ![d].stage = "done"]
      /\ receipts' = receipts
      /\ posted' = posted \/ posted' = posted \cup {e}
  BY <1>1 DEF CommitMarkPaid, CommitWaive, PostFromDesk
<1>3. /\ q \in Penalties
      /\ seen \in 0..PenaltyAmount
      /\ PenaltyAmount - seen \in 0..PenaltyAmount
      /\ (desk[d].stage = "waiving") \in BOOLEAN
  BY <1>1, <1>2, IntakeAssumption DEF IInv, DeskSound, TypeOK, DeskRequest
<1>4. e \in Posting
  BY <1>1, <1>3, Zenon DEF Posting
<1>5. /\ e.of = q /\ e.by = d /\ e.amount = PenaltyAmount - seen
      /\ e.waiver <=> desk[d].stage = "waiving"
  BY <1>1
<1>6. e \notin posted
  BY <1>2, <1>5 DEF JournalCovers, PostedOnce
<1>7. /\ IsFiniteSet(posted')
      /\ \A p : CreditsOf(PaymentsFor(p)) <= CreditsOf(PaymentsFor(p))'
      /\ \A p : /\ CreditsOf(PaymentsFor(p)) \in Nat
                /\ CreditsOf(PaymentsFor(p))' \in Nat
  <2>1. CASE posted' = posted
    <3>1. \A p : CreditsOf(PaymentsFor(p))' = CreditsOf(PaymentsFor(p))
      BY <2>1 DEF CreditsOf, Units, PaymentsFor, PostedFor
    <3>2. \A p : CreditsOf(PaymentsFor(p)) \in Nat
      BY PaymentsFinite DEF JournalCovers
    <3> QED
      BY <2>1, <3>1, <3>2 DEF JournalCovers
  <2>2. CASE posted' = posted \cup {e}
    BY <2>2, PostingKeepsReads
  <2> QED
    BY <1>2, <2>1, <2>2
<1>8. PostedOnce'
  BY <1>2, <1>5, IntakeAssumption DEF JournalCovers, PostedOnce, IInv, TypeOK, DeskRequest
<1>9. ReadIsPosted'
  <2> SUFFICES ASSUME NEW c \in Desk, NEW r, r = desk'[c].of,
                      desk'[c].stage \in {"marking", "waiving"}
               PROVE  desk'[c].paid <= CreditsOf(PaymentsFor(r))'
    BY DEF ReadIsPosted, CreditsOf, Units, PaymentsFor, PostedFor
  <2>1. desk'[c] = desk[c]
    BY <1>2 DEF IInv, TypeOK, DeskRequest
  <2>2. desk[c].paid <= CreditsOf(PaymentsFor(r)) /\ desk[c].paid \in Nat
    BY <2>1, IntakeAssumption DEF JournalCovers, ReadIsPosted, IInv, TypeOK, DeskRequest
  <2> QED
    BY <1>7, <2>1, <2>2
<1>10. PaidIsPosted'
  <2> SUFFICES ASSUME NEW p \in Penalties
               PROVE  penalty'[p].paid <= CreditsOf(PaymentsFor(p))'
    BY DEF PaidIsPosted
  <2>1. penalty[p].paid <= CreditsOf(PaymentsFor(p)) /\ penalty[p].paid \in Nat
    BY IntakeAssumption DEF JournalCovers, PaidIsPosted, IInv, TypeOK
  <2>2. CASE penalty'[p].paid = penalty[p].paid
    BY <1>7, <2>1, <2>2
  <2>3. CASE penalty'[p].paid # penalty[p].paid
    <3>1. CommitMarkPaid(d)
      BY <2>3 DEF CommitWaive, IInv, TypeOK
    <3>2. p = q /\ penalty'[p].paid = PenaltyAmount
      BY <1>1, <2>3, <3>1 DEF CommitMarkPaid, PaidUpTo, IInv, TypeOK
    <3>3. ~e.waiver /\ posted' = posted \cup {e}
      BY <1>1, <3>1 DEF CommitMarkPaid, PostFromDesk
    <3>4. CreditsOf(PaymentsFor(q))' = CreditsOf(PaymentsFor(q)) + (PenaltyAmount - seen)
      BY <1>4, <1>5, <1>6, <3>3, NewPayment
    <3>5. seen <= CreditsOf(PaymentsFor(q))
      BY <1>1, <1>2 DEF JournalCovers, ReadIsPosted
    <3>6. CreditsOf(PaymentsFor(q)) \in Nat
      BY <1>7
    <3> QED
      BY <1>3, <3>2, <3>4, <3>5, <3>6, IntakeAssumption
  <2> QED
    BY <2>2, <2>3
<1> QED
  BY <1>7, <1>8, <1>9, <1>10 DEF JournalCovers

\* A desk request reads what is paid while the journal covers it.
LEMMA DeskReadIsPosted ==
  ASSUME IInv, JournalCovers, NEW d \in Desk, NEW p \in Penalties,
         NEW stage \in {"marking", "waiving"}, BeginDeskRequest(d, p, stage)
  PROVE  JournalCovers'
<1>1. /\ desk[d].stage = "new"
      /\ desk' = [desk EXCEPT ![d] = [stage |-> stage, of |-> p, paid |-> penalty[p].paid]]
      /\ UNCHANGED <<penalty, posted, receipts>>
  BY DEF BeginDeskRequest
<1>2. \A q : CreditsOf(PaymentsFor(q))' = CreditsOf(PaymentsFor(q))
  BY <1>1 DEF CreditsOf, Units, PaymentsFor, PostedFor
<1>3. PostedOnce'
  BY <1>1 DEF JournalCovers, PostedOnce, IInv, TypeOK
<1>4. ReadIsPosted'
  <2> SUFFICES ASSUME NEW c \in Desk, desk'[c].stage \in {"marking", "waiving"}
               PROVE  desk'[c].paid <= CreditsOf(PaymentsFor(desk'[c].of))
    BY <1>2 DEF ReadIsPosted
  <2> QED
    BY <1>1 DEF JournalCovers, ReadIsPosted, PaidIsPosted, IInv, TypeOK
<1>5. PaidIsPosted'
  BY <1>1, <1>2 DEF JournalCovers, PaidIsPosted
<1> QED
  BY <1>1, <1>3, <1>4, <1>5 DEF JournalCovers

\* JournalCovers is inductive.
LEMMA JournalStep == IInv /\ JournalCovers /\ [Next]_vars => JournalCovers'
<1> SUFFICES ASSUME IInv, JournalCovers, [Next]_vars PROVE JournalCovers'
  OBVIOUS
<1>1. CASE UNCHANGED vars
  BY <1>1, JournalUntouched DEF vars
<1>2. CASE Creation
  BY <1>2, JournalUntouched DEF Creation, AskForMoney, CommitIntent, RollBackIntent
<1>3. ASSUME NEW i \in Intents, MemberAnswers(i) \/ EligibilityChanges(i) \/ Expire(i)
      PROVE  JournalCovers'
  BY <1>3, JournalUntouched DEF MemberAnswers, EligibilityChanges, Expire
<1>4. ASSUME NEW i \in Intents, Callback(i) PROVE JournalCovers'
  BY <1>4, JournalUntouched, SettleIsPosted
  DEF Callback, CallbackPaid, CallbackDeclined, CallbackDropped
<1>5. ASSUME NEW w \in Workers, SaveVerification(w) PROVE JournalCovers'
  <2>1. req[w].of \in Intents
    BY <1>5 DEF IInv, RequestsSound, SaveVerification
  <2> QED
    BY <1>5, <2>1, JournalUntouched, SettleIsPosted DEF SaveVerification, NeedsReceipt
<1>6. CASE Verification
  BY <1>5, <1>6, JournalUntouched
  DEF Verification, BeginVerify, QueryProvider, QueryFails, VerificationRefused
<1>7. CASE DeskWork
  BY <1>7, DeskIsPosted, DeskReadIsPosted DEF DeskWork, BeginMarkPaid, BeginWaive
<1> QED
  BY <1>1, <1>2, <1>3, <1>4, <1>6, <1>7 DEF Next

-----------------------------------------------------------------------------
\* Every behaviour is well typed; in particular amount_paid never passes the
\* amount of a penalty, however stale the desk's reads.
THEOREM IntakeTypeCorrect == Spec => []TypeOK
<1>1. IInv => TypeOK
  BY DEF IInv
<1> QED
  BY <1>1, Invariance, PTL

\* No path commits SUCCESS without the receipt and the business event.
THEOREM NoSuccessWithoutReceipt == Spec => []SuccessHasReceipt
<1>1. IInv => SuccessHasReceipt
  BY DEF IInv
<1> QED
  BY <1>1, Invariance, PTL

\* A receipt is for money the member paid, and is never shown as refused.
THEOREM NoReceiptWithoutMoney == Spec => []ReceiptWasPaid
<1>1. IInv => ReceiptWasPaid
  BY DEF IInv, TypeOK, FailureWasDeclined, ReceiptsArePaid, ReceiptWasPaid
<1> QED
  BY <1>1, Invariance, PTL

\* Fines paid by M-Pesa never add up to more than their penalty.
THEOREM FinesStayWithinPenalty == Spec => []FinesNotOvercollected
<1>1. Init => FinesAreInPaid
  <2> SUFFICES ASSUME Init, NEW p \in Penalties
               PROVE  IsFiniteSet(FinePostings(p)) /\ Cardinality(FinePostings(p)) <= penalty[p].paid
    BY DEF FinesAreInPaid
  <2>1. FinePostings(p) = {} /\ penalty[p].paid = 0
    BY DEF Init, FinePostings
  <2> QED
    BY <2>1, FS_EmptySet
<1>2. IInv /\ FinesAreInPaid => FinesNotOvercollected
  <2> SUFFICES ASSUME IInv, FinesAreInPaid, NEW p \in Penalties
               PROVE  Cardinality(FinePostings(p)) <= PenaltyAmount
    BY DEF FinesNotOvercollected
  <2>1. /\ Cardinality(FinePostings(p)) <= penalty[p].paid
        /\ Cardinality(FinePostings(p)) \in Nat
        /\ penalty[p].paid \in 0..PenaltyAmount
    BY FS_CardinalityType DEF FinesAreInPaid, IInv, TypeOK
  <2> QED
    BY <2>1, IntakeAssumption
<1> QED
  BY <1>1, <1>2, FinesStep, Invariance, PTL DEF Spec

\* What a penalty shows as paid is in the journal, however stale the desk's
\* reads and whatever M-Pesa pays between them.
THEOREM PaidIsInTheJournal == Spec => []PaidIsPosted
<1>1. Init => JournalCovers
  <2> SUFFICES ASSUME Init PROVE JournalCovers
    OBVIOUS
  <2>1. IsFiniteSet(posted) /\ posted = {}
    BY FS_EmptySet DEF Init
  <2>2. PostedOnce /\ ReadIsPosted
    BY <2>1 DEF Init, PostedOnce, ReadIsPosted
  <2>3. PaidIsPosted
    <3> SUFFICES ASSUME NEW p \in Penalties
                 PROVE  penalty[p].paid <= CreditsOf(PaymentsFor(p))
      BY DEF PaidIsPosted
    <3>1. CreditsOf(PaymentsFor(p)) \in Nat
      BY <2>1, PaymentsFinite
    <3> QED
      BY <3>1 DEF Init
  <2> QED
    BY <2>1, <2>2, <2>3 DEF JournalCovers
<1>2. JournalCovers => PaidIsPosted
  BY DEF JournalCovers
<1> QED
  BY <1>1, <1>2, JournalStep, Invariance, PTL DEF Spec

-----------------------------------------------------------------------------
(* The promise of PaymentPromise.  A step settles an intent, or saves a    *)
(* status of one that it does not settle, or moves the push of one.        *)

\* A fine with a receipt is in the journal.
FinesArePosted == \A i \in receipts \cap Fines : \E e \in posted : e.by = i

paidForOf == [i \in Intents |-> IF checkout[i] = "paid" THEN i ELSE None]
booksOf == {[of |-> i, part |-> "whole", receipt |-> i] : i \in BookedIntents}
shownOf == {i \in Intents : status[i] = "SUCCESS"}
PromiseStep == Promise!Next \/ UNCHANGED <<paidForOf, booksOf, shownOf>>

Settles(i) == Settle(i) /\ i \notin receipts /\ checkout[i] = "paid" /\ checkout' = checkout

Saves(i) ==
    /\ receipts' = receipts /\ posted \subseteq posted' /\ checkout' = checkout
    /\ \E s \in PaymentStatus :
          /\ status' = [status EXCEPT ![i] = s]
          /\ s = "SUCCESS" => i \in receipts

Prompts(i) ==
    /\ UNCHANGED <<status, receipts, posted>>
    /\ checkout[i] # "paid"
    /\ \E s \in Checkout : checkout' = [checkout EXCEPT ![i] = s]

Rests == UNCHANGED <<status, receipts, checkout>> /\ posted \subseteq posted'

Kinds == Rests \/ \E i \in Intents : Settles(i) \/ Saves(i) \/ Prompts(i)

\* Every action does one of these.
LEMMA StepKinds ==
  ASSUME IInv, [Next]_vars
  PROVE  Kinds
<1>1. ASSUME UNCHANGED <<status, receipts, checkout, posted>> PROVE Kinds
  BY <1>1 DEF Kinds, Rests
<1>2. CASE UNCHANGED vars
  BY <1>1, <1>2 DEF vars
<1>3. ASSUME NEW w \in Workers, NEW i \in Intents, AskForMoney(w, i) PROVE Kinds
  BY <1>3 DEF Kinds, AskForMoney, Prompts, Checkout
<1>4. ASSUME NEW w \in Workers, CommitIntent(w) PROVE Kinds
  <2>1. req[w].of \in Intents
    BY <1>4 DEF CommitIntent, IInv, RequestsSound
  <2>2. Saves(req[w].of)
    BY <1>4 DEF CommitIntent, Saves, PaymentStatus
  <2> QED
    BY <2>1, <2>2 DEF Kinds
<1>5. ASSUME NEW i \in Intents, MemberAnswers(i) PROVE Kinds
  BY <1>5 DEF Kinds, MemberAnswers, Prompts, Checkout
<1>12. ASSUME NEW i \in Intents, EligibilityChanges(i) PROVE Kinds
  BY <1>1, <1>12 DEF EligibilityChanges
<1>6. ASSUME NEW i \in Intents, Callback(i) PROVE Kinds
  <2>1. CallbackPaid(i) => Settles(i)
    BY DEF CallbackPaid, Settles
  <2>2. CallbackDeclined(i) => Saves(i)
    BY DEF CallbackDeclined, Saves, PaymentStatus
  <2> QED
    BY <1>1, <1>6, <2>1, <2>2 DEF Kinds, Callback, CallbackDropped
<1>7. ASSUME NEW w \in Workers, SaveVerification(w) PROVE Kinds
  <2> DEFINE i == req[w].of
             next == MapProviderStatus(req[w].answer)
  <2>1. /\ i \in Intents /\ req[w].answer \in Answer
        /\ req[w].answer = "success" => checkout[i] = "paid"
    BY <1>7 DEF SaveVerification, IInv, RequestsSound, TypeOK, Request
  <2>2. /\ next \in PaymentStatus
        /\ next = "SUCCESS" => checkout[i] = "paid"
    BY <2>1 DEF MapProviderStatus, PaymentStatus, Answer
  <2> HIDE DEF next
  <2>3. CASE NeedsReceipt(next, i)
    BY <1>7, <2>1, <2>2, <2>3 DEF Kinds, SaveVerification, NeedsReceipt, Settles, next
  <2>4. CASE ~NeedsReceipt(next, i)
    BY <1>7, <2>1, <2>2, <2>4 DEF Kinds, SaveVerification, NeedsReceipt, Saves, next
  <2> QED
    BY <2>3, <2>4
<1>8. ASSUME NEW i \in Intents, Expire(i) PROVE Kinds
  BY <1>8 DEF Kinds, Expire, Saves, PaymentStatus
<1>9. CASE DeskWork
  BY <1>9 DEF Kinds, DeskWork, BeginMarkPaid, BeginWaive, BeginDeskRequest, CommitMarkPaid,
              CommitWaive, PostFromDesk, Rests
<1>10. CASE Creation
  BY <1>1, <1>3, <1>4, <1>10 DEF Creation, RollBackIntent
<1>11. CASE Verification
  BY <1>1, <1>7, <1>11
  DEF Verification, BeginVerify, QueryProvider, QueryFails, VerificationRefused
<1> QED
  BY <1>2, <1>5, <1>6, <1>8, <1>9, <1>10, <1>11, <1>12 DEF Next

\* A receipt of a fine comes with its posting, and neither is taken back.
LEMMA FinesPostedStep ==
  ASSUME IInv, FinesArePosted, [Next]_vars
  PROVE  FinesArePosted'
<1>1. ASSUME NEW i \in Intents, Settles(i) PROVE FinesArePosted'
  <2>1. /\ receipts' = receipts \cup {i} /\ posted \subseteq posted'
        /\ i \in Fines => \E e \in posted' : e.by = i
    <3>1. receipts' = receipts \cup {i} /\ PostBusinessEvent(i)
      BY <1>1 DEF Settles, Settle
    <3>2. CASE i \notin Fines
      BY <3>1, <3>2 DEF PostBusinessEvent
    <3>3. CASE i \in Fines
      <4> DEFINE e == [of |-> PenaltyOf[i], by |-> i, amount |-> 1, waiver |-> FALSE]
      <4>1. posted' = posted \cup {e}
        BY <3>1, <3>3 DEF PostBusinessEvent
      <4>2. e.by = i
        OBVIOUS
      <4> HIDE DEF e
      <4> QED
        BY <3>1, <4>1, <4>2
    <3> QED
      BY <3>2, <3>3
  <2> QED
    BY <2>1 DEF FinesArePosted
<1> QED
  BY <1>1, StepKinds DEF Kinds, FinesArePosted, Rests, Saves, Prompts

\* With it every receipt counts as booked, before a step and after it.
LEMMA BookedAreReceipts ==
  ASSUME FinesArePosted, FinesArePosted'
  PROVE  BookedIntents = receipts /\ BookedIntents' = receipts'
  BY DEF FinesArePosted, BookedIntents

\* Settling an intent books its payment and shows it.
LEMMA SettleMoves ==
  ASSUME IInv, FinesArePosted, FinesArePosted', NEW i \in Intents, Settles(i)
  PROVE  PromiseStep
<1>1. /\ receipts' = receipts \cup {i} /\ i \notin receipts
      /\ status' = [status EXCEPT ![i] = "SUCCESS"]
      /\ checkout[i] = "paid" /\ checkout' = checkout
  BY DEF Settles, Settle
<1>2. paidForOf' = paidForOf /\ paidForOf[i] = i /\ i # None
  BY <1>1, IntakeAssumption DEF paidForOf
<1>3. shownOf' = shownOf \cup {i}
  BY <1>1 DEF shownOf, IInv, TypeOK
<1>4. BookedIntents = receipts /\ BookedIntents' = receipts'
  BY BookedAreReceipts
<1>5. booksOf' = booksOf \cup {[of |-> i, part |-> "whole", receipt |-> i]}
  BY <1>1, <1>4 DEF booksOf
<1>6. \A e \in booksOf : e.receipt # i
  BY <1>1, <1>4 DEF booksOf
<1>7. [j \in Intents |-> {"whole"}][paidForOf[i]] = {"whole"}
  BY <1>2
<1>8. Promise!Book(i)
  BY <1>2, <1>3, <1>5, <1>6, <1>7 DEF Promise!Book, paidForOf, booksOf, shownOf
<1> QED
  BY <1>8 DEF PromiseStep, Promise!Next

\* A save shows an intent that is booked, or hides one.
LEMMA SaveMoves ==
  ASSUME IInv, FinesArePosted, FinesArePosted', NEW i \in Intents, Saves(i)
  PROVE  PromiseStep
<1>1. PICK s \in PaymentStatus :
        /\ status' = [status EXCEPT ![i] = s]
        /\ s = "SUCCESS" => i \in receipts
  BY DEF Saves
<1>2. BookedIntents = receipts /\ BookedIntents' = receipts'
  BY BookedAreReceipts
<1>3. paidForOf' = paidForOf /\ booksOf' = booksOf
  BY <1>2 DEF Saves, paidForOf, booksOf
<1>4. CASE s = "SUCCESS"
  <2>1. shownOf' = shownOf \cup {i}
    BY <1>1, <1>4 DEF shownOf, IInv, TypeOK
  <2>2. [of |-> i, part |-> "whole", receipt |-> i] \in booksOf
    BY <1>1, <1>2, <1>4 DEF booksOf
  <2>3. [of |-> i, part |-> "whole", receipt |-> i].of = i
    OBVIOUS
  <2>4. \E e \in booksOf : e.of = i
    BY <2>2, <2>3
  <2>5. Promise!Show(i)
    BY <1>3, <2>1, <2>4 DEF Promise!Show, paidForOf, booksOf, shownOf
  <2> QED
    BY <2>5 DEF PromiseStep, Promise!Next
<1>5. CASE s # "SUCCESS"
  <2>1. shownOf' = shownOf \ {i}
    BY <1>1, <1>5 DEF shownOf, IInv, TypeOK
  <2>2. Promise!Hide(i)
    BY <1>3, <2>1 DEF Promise!Hide, paidForOf, booksOf, shownOf
  <2> QED
    BY <2>2 DEF PromiseStep, Promise!Next
<1> QED
  BY <1>4, <1>5

\* A push that is asked for, paid or refused.
LEMMA PromptMoves ==
  ASSUME IInv, FinesArePosted, FinesArePosted', NEW i \in Intents, Prompts(i)
  PROVE  PromiseStep
<1>1. PICK s \in Checkout : checkout' = [checkout EXCEPT ![i] = s]
  BY DEF Prompts
<1>2. BookedIntents = receipts /\ BookedIntents' = receipts'
  BY BookedAreReceipts
<1>3. booksOf' = booksOf /\ shownOf' = shownOf
  BY <1>2 DEF Prompts, booksOf, shownOf
<1>4. paidForOf[i] = None /\ paidForOf' = [paidForOf EXCEPT ![i] = IF s = "paid" THEN i ELSE None]
  BY <1>1 DEF Prompts, paidForOf, IInv, TypeOK
<1>5. CASE s = "paid"
  <2>1. Promise!Pay(i, i)
    BY <1>3, <1>4, <1>5 DEF Promise!Pay, paidForOf, booksOf, shownOf
  <2> QED
    BY <2>1 DEF PromiseStep, Promise!Next
<1>6. CASE s # "paid"
  BY <1>3, <1>4, <1>6 DEF PromiseStep, paidForOf
<1> QED
  BY <1>5, <1>6

\* However callbacks, queries, expiries and the desk cross, every behaviour is
\* one of PaymentPromise: an intent is settled once, when it was paid, and is
\* shown as paid only with its receipt, and a fine with its posting.
THEOREM KeepsPromise == Spec => PromiseKept
<1>1. Init => Promise!Init
  <2> SUFFICES ASSUME Init PROVE Promise!Init
    OBVIOUS
  <2>1. paidForOf = [i \in Intents |-> None] /\ shownOf = {} /\ booksOf = {}
    BY DEF Init, paidForOf, shownOf, booksOf, BookedIntents
  <2> QED
    BY <2>1 DEF Promise!Init, paidForOf, shownOf, booksOf
<1>2. Init => FinesArePosted
  BY DEF Init, FinesArePosted
<1>3. IInv /\ FinesArePosted /\ [Next]_vars => FinesArePosted'
  BY FinesPostedStep
<1>4. IInv /\ FinesArePosted /\ [Next]_vars /\ FinesArePosted' =>
         [Promise!Next]_<<paidForOf, booksOf, shownOf>>
  <2> SUFFICES ASSUME IInv, FinesArePosted, [Next]_vars, FinesArePosted'
               PROVE  PromiseStep
    BY DEF PromiseStep
  <2>1. CASE Rests
    <3>1. BookedIntents = receipts /\ BookedIntents' = receipts'
      BY BookedAreReceipts
    <3> QED
      BY <2>1, <3>1 DEF Rests, PromiseStep, paidForOf, booksOf, shownOf
  <2> QED
    BY <2>1, StepKinds, SettleMoves, SaveMoves, PromptMoves DEF Kinds
<1>5. Spec => [][Promise!Next]_<<paidForOf, booksOf, shownOf>>
  BY <1>2, <1>3, <1>4, Invariance, PTL DEF Spec
<1>6. [][Promise!Next]_<<paidForOf, booksOf, shownOf>> <=> [][Promise!Next]_<<
         [i \in Intents |-> IF checkout[i] = "paid" THEN i ELSE None],
         {[of |-> i, part |-> "whole", receipt |-> i] : i \in BookedIntents},
         {i \in Intents : status[i] = "SUCCESS"}>>
  BY DEF paidForOf, booksOf, shownOf
<1> QED
  BY <1>1, <1>5, <1>6, PTL DEF PromiseKept, Promise!Spec, Promise!promise, Spec
=============================================================================
