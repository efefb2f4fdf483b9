--------------------------- MODULE B2CPayoutProofs ---------------------------
(***************************************************************************)
(* Theorems about B2CPayout, for every set of intents, users, workers and  *)
(* conversations.                                                          *)
(***************************************************************************)
EXTENDS B2CPayout, TLAPS

(* The inductive invariant: the safety properties, and what they rest on.  *)

\* What a request holds between two statements is still so.
RequestsSound ==
    \A w \in Workers :
        /\ req[w].stage # "idle" => req[w].of \in Intents
        /\ req[w].stage = "approving" => req[w].by \in Users
        /\ req[w].stage \in {"checked", "marked"} => BothApproved(req[w].of)
        /\ req[w].stage \in {"accepted", "recorded"} =>
              /\ req[w].conv \in Conversations
              /\ asked[req[w].conv] \in Intents

\* A conversation is used once it is asked, and has a row only then.
UsedWhenAsked == \A o \in Conversations : provider[o] # "unused" <=> asked[o] \in Intents
RowsWereAsked == \A o \in Conversations : row[o] # "none" => asked[o] \in Intents

\* An intent is closed as paid only with its posting.
SuccessIsBooked ==
    \A i \in Intents :
        intent[i] = "SUCCESS" => \E c \in Conversations : <<i, c>> \in ledger

IInv ==
    /\ TypeOK
    /\ RequestsSound
    /\ UsedWhenAsked
    /\ RowsWereAsked
    /\ SuccessIsBooked
    /\ SentWasApproved
    /\ AcknowledgedIsBooked
    /\ BookedWasPaid

-----------------------------------------------------------------------------
\* Initially nothing exists, and the invariant holds.
LEMMA InitInv == Init => IInv
BY IntentsAssumption, ConversationsAssumption, UsersAssumption
   DEF Init, IInv, TypeOK, RequestsSound, UsedWhenAsked, RowsWereAsked, SuccessIsBooked,
       SentWasApproved, AcknowledgedIsBooked, BookedWasPaid, Idle, Request, Stage,
       IntentStatus, LoanStatus, RowStatus, ProviderState

\* Approvals are only ever added.
LEMMA ApprovalIsForGood ==
    ASSUME NEW i, logs[i] \subseteq logs'[i], BothApproved(i)
    PROVE  BothApproved(i)'
BY DEF BothApproved, ApprovalState

\* What a step that touches neither conversations nor postings nor approvals,
\* and closes no intent as paid, cannot disturb.
LEMMA Frame ==
    ASSUME IInv, UNCHANGED <<logs, row, asked, provider, ledger>>,
           \A i \in Intents : intent'[i] = "SUCCESS" => intent[i] = "SUCCESS"
    PROVE  /\ UsedWhenAsked' /\ RowsWereAsked' /\ SuccessIsBooked'
           /\ SentWasApproved' /\ AcknowledgedIsBooked' /\ BookedWasPaid'
BY DEF IInv, UsedWhenAsked, RowsWereAsked, SuccessIsBooked, SentWasApproved,
       AcknowledgedIsBooked, BookedWasPaid, BothApproved

\* A row acknowledged by a step is booked if it is after the step, and rows
\* acknowledged before it stay booked, for postings are never removed.
LEMMA StillBooked ==
    ASSUME IInv, ledger \subseteq ledger', UNCHANGED asked,
           \A o \in Conversations : row'[o] = "SUCCESS" /\ row[o] # "SUCCESS"
                => \E c \in Conversations : <<asked[o], c>> \in ledger'
    PROVE  AcknowledgedIsBooked'
<1>1. SUFFICES ASSUME NEW o \in Conversations, row'[o] = "SUCCESS"
               PROVE  \E c \in Conversations : <<asked[o], c>> \in ledger'
  BY DEF AcknowledgedIsBooked
<1>2. CASE row[o] = "SUCCESS"
  BY <1>2 DEF IInv, AcknowledgedIsBooked
<1>3. CASE row[o] # "SUCCESS"
  BY <1>1, <1>3
<1>4. QED
  BY <1>2, <1>3

-----------------------------------------------------------------------------
(* Requests: one lemma for each group of actions of Next.                  *)

LEMMA CreationInv ==
    ASSUME IInv, NEW i \in Intents, RequestWithdrawal(i)
    PROVE  IInv'
<1>1. TypeOK'
  BY DEF IInv, TypeOK, IntentStatus, RequestWithdrawal
<1>2. RequestsSound'
  BY DEF IInv, RequestsSound, BothApproved, RequestWithdrawal
<1>3. \A j \in Intents : intent'[j] = "SUCCESS" => intent[j] = "SUCCESS"
  BY DEF IInv, TypeOK, RequestWithdrawal
<1>4. QED
  BY <1>1, <1>2, <1>3, Frame DEF IInv, RequestWithdrawal

\* A decision about a loan saves a status of the loan, and may create an intent.
LEMMA DecisionInv == ASSUME IInv, LoanDecision PROVE IInv'
<1>1. ASSUME NEW w \in Workers, NEW l \in Loans, BeginDecision(w, l)
      PROVE  IInv'
  <2>1. TypeOK'
    BY <1>1 DEF IInv, TypeOK, Request, Stage, Idle, At, Intents, BeginDecision
  <2>2. RequestsSound'
    BY <1>1 DEF IInv, TypeOK, RequestsSound, BothApproved, Idle, At, Intents, BeginDecision
  <2>3. QED
    BY <1>1, <2>1, <2>2, Frame DEF IInv, BeginDecision
<1>2. ASSUME NEW w \in Workers, ApproveLoan(w) \/ DeferLoan(w)
      PROVE  IInv'
  <2> DEFINE l == req[w].of
  <2>1. /\ req' = [req EXCEPT ![w] = Idle]
        /\ intent' = intent \/ intent' = [intent EXCEPT ![l] = IF @ = "none" THEN "INITIATED" ELSE @]
        /\ \E status \in LoanStatus : loan' = [loan EXCEPT ![l] = status]
        /\ UNCHANGED <<logs, row, asked, provider, heard, ledger>>
    BY <1>2 DEF ApproveLoan, DeferLoan, LoanStatus
  <2>2. TypeOK'
    <3>1. intent' \in [Intents -> IntentStatus]
      BY <2>1 DEF IInv, TypeOK, IntentStatus
    <3>2. loan' \in [Loans -> LoanStatus]
      BY <2>1 DEF IInv, TypeOK
    <3>3. req' \in [Workers -> Request]
      BY <2>1 DEF IInv, TypeOK, Request, Stage, Idle
    <3>4. QED
      BY <2>1, <3>1, <3>2, <3>3 DEF IInv, TypeOK
  <2>3. RequestsSound'
    BY <2>1 DEF IInv, TypeOK, RequestsSound, BothApproved, Idle
  <2>4. \A j \in Intents : intent'[j] = "SUCCESS" => intent[j] = "SUCCESS"
    BY <2>1 DEF IInv, TypeOK
  <2>5. QED
    BY <2>1, <2>2, <2>3, <2>4, Frame DEF IInv
<1>3. QED
  BY <1>1, <1>2 DEF LoanDecision

LEMMA ServiceInv == ASSUME IInv, NEW i \in Intents, Service(i) PROVE IInv'
<1>1. TypeOK'
  BY DEF IInv, TypeOK, LoanStatus, Service
<1>2. RequestsSound'
  BY DEF IInv, RequestsSound, BothApproved, Service
<1>3. QED
  BY <1>1, <1>2, Frame DEF IInv, Service

LEMMA ApprovalInv == ASSUME IInv, Approval PROVE IInv'
<1>1. ASSUME NEW w \in Workers, NEW i \in Intents, NEW u \in Users, BeginApproval(w, i, u)
      PROVE  IInv'
  <2>1. TypeOK'
    BY <1>1 DEF IInv, TypeOK, Request, Stage, Idle, At, BeginApproval
  <2>2. RequestsSound'
    BY <1>1 DEF IInv, TypeOK, RequestsSound, BothApproved, Idle, At, BeginApproval
  <2>3. QED
    BY <1>1, <2>1, <2>2, Frame DEF IInv, BeginApproval
<1>2. ASSUME NEW w \in Workers, LogApproval(w)
      PROVE  IInv'
  <2> DEFINE i == req[w].of
             approvers == logs[i] \cup {req[w].by}
             ready == ApprovalState(approvers).treasurer /\ ApprovalState(approvers).admin
  <2>1. /\ i \in Intents
        /\ req[w].by \in Users
        /\ logs' = [logs EXCEPT ![i] = approvers]
        /\ req' = [req EXCEPT ![w] = [At("logged", i) EXCEPT !.ready = ready]]
    BY <1>2 DEF IInv, RequestsSound, LogApproval
  <2>2. \A j \in Intents : logs[j] \subseteq logs'[j]
    BY <2>1 DEF IInv, TypeOK
  <2>3. TypeOK'
    <3>1. logs' \in [Intents -> SUBSET Users]
      BY <2>1 DEF IInv, TypeOK
    <3>2. ready \in BOOLEAN
      BY Zenon DEF ready
    <3>3. [At("logged", i) EXCEPT !.ready = ready] \in Request
      BY <2>1, <3>2 DEF Request, Stage, Idle, At
    <3>4. req' \in [Workers -> Request]
      BY <2>1, <3>3 DEF IInv, TypeOK
    <3>5. QED
      BY <1>2, <3>1, <3>4 DEF IInv, TypeOK, LogApproval
  <2>4. RequestsSound'
    <3>1. SUFFICES ASSUME NEW v \in Workers
                   PROVE  /\ req'[v].stage # "idle" => req'[v].of \in Intents
                          /\ req'[v].stage = "approving" => req'[v].by \in Users
                          /\ req'[v].stage \in {"checked", "marked"} => BothApproved(req[v].of)
                                                                         /\ req'[v] = req[v]
                          /\ req'[v].stage \in {"accepted", "recorded"} =>
                                /\ req'[v].conv \in Conversations
                                /\ asked'[req'[v].conv] \in Intents
      BY <2>2, ApprovalIsForGood DEF IInv, RequestsSound
    <3>2. CASE v = w
      BY <2>1, <3>2 DEF IInv, TypeOK, Idle, At
    <3>3. CASE v # w
      BY <1>2, <2>1, <3>3 DEF IInv, TypeOK, RequestsSound, LogApproval
    <3>4. QED
      BY <3>2, <3>3
  <2>5. SentWasApproved'
    BY <1>2, <2>2, ApprovalIsForGood
       DEF IInv, TypeOK, UsedWhenAsked, SentWasApproved, LogApproval
  <2>6. UsedWhenAsked' /\ RowsWereAsked' /\ SuccessIsBooked' /\ AcknowledgedIsBooked' /\ BookedWasPaid'
    BY <1>2 DEF IInv, UsedWhenAsked, RowsWereAsked, SuccessIsBooked, AcknowledgedIsBooked,
                BookedWasPaid, LogApproval
  <2>7. QED
    BY <2>3, <2>4, <2>5, <2>6 DEF IInv
<1>3. ASSUME NEW w \in Workers, FinishApproval(w)
      PROVE  IInv'
  <2>1. TypeOK'
    BY <1>3 DEF IInv, TypeOK, IntentStatus, Request, Stage, Idle, FinishApproval
  <2>2. RequestsSound'
    BY <1>3 DEF IInv, TypeOK, RequestsSound, BothApproved, Idle, FinishApproval
  <2>3. \A j \in Intents : intent'[j] = "SUCCESS" => intent[j] = "SUCCESS"
    BY <1>3 DEF IInv, TypeOK, FinishApproval
  <2>4. QED
    BY <1>3, <2>1, <2>2, <2>3, Frame DEF IInv, FinishApproval
<1>4. QED
  BY <1>1, <1>2, <1>3 DEF Approval

LEMMA RejectionInv == ASSUME IInv, Rejection PROVE IInv'
<1>1. ASSUME NEW w \in Workers, NEW i \in Intents, BeginRejection(w, i)
      PROVE  IInv'
  <2>1. TypeOK'
    BY <1>1 DEF IInv, TypeOK, Request, Stage, Idle, At, BeginRejection
  <2>2. RequestsSound'
    BY <1>1 DEF IInv, TypeOK, RequestsSound, BothApproved, Idle, At, BeginRejection
  <2>3. QED
    BY <1>1, <2>1, <2>2, Frame DEF IInv, BeginRejection
<1>2. ASSUME NEW w \in Workers, FinishRejection(w)
      PROVE  IInv'
  <2>1. TypeOK'
    BY <1>2 DEF IInv, TypeOK, IntentStatus, Request, Stage, Idle, FinishRejection
  <2>2. RequestsSound'
    BY <1>2 DEF IInv, TypeOK, RequestsSound, BothApproved, Idle, FinishRejection
  <2>3. \A j \in Intents : intent'[j] = "SUCCESS" => intent[j] = "SUCCESS"
    BY <1>2 DEF IInv, TypeOK, FinishRejection
  <2>4. QED
    BY <1>2, <2>1, <2>2, <2>3, Frame DEF IInv, FinishRejection
<1>3. QED
  BY <1>1, <1>2 DEF Rejection

LEMMA AbandonInv == ASSUME IInv, NEW w \in Workers, Abandon(w) PROVE IInv'
<1>1. TypeOK'
  BY DEF IInv, TypeOK, Request, Stage, Idle, Abandon
<1>2. RequestsSound'
  BY DEF IInv, TypeOK, RequestsSound, BothApproved, Idle, Abandon
<1>3. QED
  BY <1>1, <1>2, Frame DEF IInv, Abandon

-----------------------------------------------------------------------------
(* Sending.                                                                *)

LEMMA SweepPickInv == ASSUME IInv, NEW i \in Intents, SweepPick(i) PROVE IInv'
<1>1. TypeOK'
  BY SweepAssumption DEF IInv, TypeOK, Request, Stage, Idle, At, SweepPick
<1>2. RequestsSound'
  BY SweepAssumption DEF IInv, TypeOK, RequestsSound, BothApproved, Idle, At, SweepPick
<1>3. QED
  BY <1>1, <1>2, Frame DEF IInv, SweepPick

LEMMA BeginSendInv ==
    ASSUME IInv, NEW w \in Workers, NEW i \in Intents, BeginSend(w, i) PROVE IInv'
<1>1. TypeOK'
  BY DEF IInv, TypeOK, Request, Stage, Idle, At, BeginSend
<1>2. RequestsSound'
  BY DEF IInv, TypeOK, RequestsSound, BothApproved, Idle, At, Sendable, BeginSend
<1>3. QED
  BY <1>1, <1>2, Frame DEF IInv, BeginSend

LEMMA MarkDisbursingInv ==
    ASSUME IInv, NEW w \in Workers, MarkDisbursing(w) PROVE IInv'
<1>1. TypeOK'
  BY DEF IInv, TypeOK, LoanStatus, Request, Stage, MarkDisbursing
<1>2. RequestsSound'
  BY DEF IInv, TypeOK, RequestsSound, Request, BothApproved, MarkDisbursing
<1>3. QED
  BY <1>1, <1>2, Frame DEF IInv, MarkDisbursing

\* The conversation was unused, so nothing was recorded or booked for it; and
\* the request holds an approved intent, so the conversation is for one.
LEMMA CallProviderInv ==
    ASSUME IInv, NEW w \in Workers, NEW o \in Conversations, CallProvider(w, o)
    PROVE  IInv'
<1> DEFINE i == req[w].of
<1>1. /\ i \in Intents
      /\ BothApproved(i)
      /\ provider[o] = "unused" /\ asked[o] \notin Intents /\ row[o] = "none"
      /\ asked' = [asked EXCEPT ![o] = i]
      /\ \E reply \in {"accepted", "silent"} : provider' = [provider EXCEPT ![o] = reply]
      /\ req' = [req EXCEPT ![w].stage = "accepted", ![w].conv = o]
      /\ UNCHANGED <<intent, loan, logs, row, heard, ledger>>
  BY DEF IInv, RequestsSound, UsedWhenAsked, RowsWereAsked, CallProvider
<1>2. TypeOK'
  <2>1. asked' \in [Conversations -> Intents \cup {None}]
    BY <1>1 DEF IInv, TypeOK
  <2>2. provider' \in [Conversations -> ProviderState]
    BY <1>1 DEF IInv, TypeOK, ProviderState
  <2>3. req' \in [Workers -> Request]
    <3>1. [req[w] EXCEPT !.stage = "accepted", !.conv = o] \in Request
      BY DEF IInv, TypeOK, Request, Stage
    <3>2. req' = [req EXCEPT ![w] = [req[w] EXCEPT !.stage = "accepted", !.conv = o]]
      BY <1>1 DEF IInv, TypeOK, Request
    <3>3. QED
      BY <3>1, <3>2 DEF IInv, TypeOK
  <2>4. QED
    BY <1>1, <2>1, <2>2, <2>3 DEF IInv, TypeOK
<1>3. RequestsSound'
  BY <1>1 DEF IInv, TypeOK, RequestsSound, Request, BothApproved
<1>4. UsedWhenAsked' /\ RowsWereAsked'
  BY <1>1 DEF IInv, TypeOK, UsedWhenAsked, RowsWereAsked
<1>5. SuccessIsBooked'
  BY <1>1 DEF IInv, SuccessIsBooked
<1>6. SentWasApproved'
  BY <1>1 DEF IInv, TypeOK, SentWasApproved, BothApproved
<1>7. AcknowledgedIsBooked'
  <2>1. SUFFICES ASSUME NEW c \in Conversations, row'[c] = "SUCCESS"
                 PROVE  \E d \in Conversations : <<asked'[c], d>> \in ledger'
    BY DEF AcknowledgedIsBooked
  <2>2. c # o
    BY <1>1, <2>1
  <2>3. asked'[c] = asked[c] /\ row[c] = "SUCCESS" /\ ledger' = ledger
    BY <1>1, <2>1, <2>2 DEF IInv, TypeOK
  <2>4. QED
    BY <2>3 DEF IInv, AcknowledgedIsBooked
<1>8. BookedWasPaid'
  BY <1>1 DEF IInv, TypeOK, BookedWasPaid
<1>9. QED
  BY <1>2, <1>3, <1>4, <1>5, <1>6, <1>7, <1>8 DEF IInv

LEMMA RecordPayoutInv == ASSUME IInv, NEW w \in Workers, RecordPayout(w) PROVE IInv'
<1>1. TypeOK'
  BY DEF IInv, TypeOK, RowStatus, Request, Stage, RecordPayout
<1>2. RequestsSound'
  BY DEF IInv, TypeOK, RequestsSound, Request, BothApproved, RecordPayout
<1>3. RowsWereAsked'
  BY DEF IInv, TypeOK, RequestsSound, RowsWereAsked, RecordPayout
<1>4. AcknowledgedIsBooked'
  <2>1. ledger \subseteq ledger' /\ UNCHANGED asked
    BY DEF RecordPayout
  <2>2. \A o \in Conversations : row'[o] = "SUCCESS" => row[o] = "SUCCESS"
    BY DEF IInv, TypeOK, RecordPayout
  <2>3. QED
    BY <2>1, <2>2, StillBooked
<1>5. BookedWasPaid'
  BY DEF IInv, TypeOK, BookedWasPaid, RecordPayout
<1>6. UsedWhenAsked' /\ SuccessIsBooked' /\ SentWasApproved'
  BY DEF IInv, UsedWhenAsked, SuccessIsBooked, SentWasApproved, BothApproved, RecordPayout
<1>7. QED
  BY <1>1, <1>2, <1>3, <1>4, <1>5, <1>6 DEF IInv

LEMMA FinishSendInv == ASSUME IInv, NEW w \in Workers, FinishSend(w) PROVE IInv'
<1>1. TypeOK'
  BY DEF IInv, TypeOK, IntentStatus, Request, Stage, Idle, FinishSend
<1>2. RequestsSound'
  BY DEF IInv, TypeOK, RequestsSound, BothApproved, Idle, FinishSend
<1>3. \A j \in Intents : intent'[j] = "SUCCESS" => intent[j] = "SUCCESS"
  BY DEF IInv, TypeOK, FinishSend
<1>4. QED
  BY <1>1, <1>2, <1>3, Frame DEF IInv, FinishSend

LEMMA SendingInv == ASSUME IInv, Sending PROVE IInv'
BY SweepPickInv, BeginSendInv, MarkDisbursingInv, CallProviderInv, RecordPayoutInv,
   FinishSendInv DEF Sending

-----------------------------------------------------------------------------
(* The provider and its callbacks.                                         *)

\* A callback changes no request, no approval and no conversation's intent.
LEMMA CallbackFrame ==
    ASSUME IInv, UNCHANGED <<logs, asked, provider, req>>
    PROVE  RequestsSound' /\ UsedWhenAsked' /\ SentWasApproved'
BY DEF IInv, RequestsSound, UsedWhenAsked, SentWasApproved, BothApproved

LEMMA DecideInv == ASSUME IInv, NEW o \in Conversations, Decide(o) PROVE IInv'
<1>1. TypeOK'
  BY DEF IInv, TypeOK, ProviderState, Decide
<1>2. UsedWhenAsked'
  BY DEF IInv, TypeOK, UsedWhenAsked, Decide
<1>3. BookedWasPaid'
  BY DEF IInv, TypeOK, BookedWasPaid, Decide
<1>4. RequestsSound' /\ RowsWereAsked' /\ SuccessIsBooked' /\ SentWasApproved' /\ AcknowledgedIsBooked'
  BY DEF IInv, RequestsSound, RowsWereAsked, SuccessIsBooked, SentWasApproved,
         AcknowledgedIsBooked, BothApproved, Decide
<1>5. QED
  BY <1>1, <1>2, <1>3, <1>4 DEF IInv

\* The result is a success: either the intent was SUCCESS, and so is booked,
\* or it is booked now; or the posting is refused and nothing is acknowledged.
LEMMA ResultPaidInv == ASSUME IInv, NEW o \in Conversations, ResultPaid(o) PROVE IInv'
<1> DEFINE i == asked[o]
<1>1. /\ provider[o] = "paid"
      /\ i \in Intents
      /\ row[o] # "SUCCESS"
      /\ UNCHANGED <<logs, asked, provider, req>>
      /\ heard' = heard \cup {o}
  BY DEF IInv, RowsWereAsked, IsPaid, OpenToResult, ResultPaid
<1>2. CASE PostIntentSuccess(o) /\ row' = [row EXCEPT ![o] = "SUCCESS"]
  <2>1. \/ intent[i] = "SUCCESS" /\ UNCHANGED <<intent, loan, ledger>>
        \/ /\ ledger' = ledger \cup {<<i, o>>}
           /\ intent' = [intent EXCEPT ![i] = "SUCCESS"]
           /\ loan' = loan \/ loan' = [loan EXCEPT ![i] = "ACTIVE"]
    BY <1>2 DEF PostIntentSuccess, AlreadyPosted
  <2>2. TypeOK'
    BY <1>1, <1>2, <2>1 DEF IInv, TypeOK, IntentStatus, LoanStatus, RowStatus
  <2>3. ledger \subseteq ledger'
    BY <2>1
  <2>4. \E c \in Conversations : <<i, c>> \in ledger'
    BY <1>1, <2>1 DEF IInv, SuccessIsBooked
  <2>5. SuccessIsBooked'
    <3>1. SUFFICES ASSUME NEW j \in Intents, intent'[j] = "SUCCESS"
                   PROVE  \E c \in Conversations : <<j, c>> \in ledger'
      BY DEF SuccessIsBooked
    <3>2. CASE j = i
      BY <2>4, <3>2
    <3>3. CASE j # i
      <4>1. intent[j] = "SUCCESS"
        BY <2>1, <3>1, <3>3 DEF IInv, TypeOK
      <4>2. QED
        BY <2>3, <4>1 DEF IInv, SuccessIsBooked
    <3>4. QED
      BY <3>2, <3>3
  <2>6. AcknowledgedIsBooked'
    <3>1. \A c \in Conversations : row'[c] = "SUCCESS" /\ row[c] # "SUCCESS" => c = o
      BY <1>2 DEF IInv, TypeOK
    <3>2. QED
      BY <1>1, <2>3, <2>4, <3>1, StillBooked
  <2>7. BookedWasPaid'
    BY <1>1, <1>2, <2>1 DEF IInv, TypeOK, BookedWasPaid
  <2>8. RowsWereAsked'
    BY <1>1, <1>2 DEF IInv, TypeOK, RowsWereAsked
  <2>9. QED
    BY <1>1, <2>2, <2>5, <2>6, <2>7, <2>8, CallbackFrame DEF IInv
<1>3. CASE PostingRefused(o) /\ row' = [row EXCEPT ![o] = "FAILED"]
  <2>1. TypeOK'
    BY <1>1, <1>3 DEF IInv, TypeOK, IntentStatus, RowStatus, PostingRefused
  <2>2. ledger' = ledger
    BY <1>3 DEF PostingRefused
  <2>3. SuccessIsBooked'
    BY <1>3, <2>2 DEF IInv, TypeOK, SuccessIsBooked, PostingRefused
  <2>4. AcknowledgedIsBooked'
    <3>1. \A c \in Conversations : row'[c] = "SUCCESS" => row[c] = "SUCCESS"
      BY <1>3 DEF IInv, TypeOK
    <3>2. QED
      BY <1>1, <2>2, <3>1, StillBooked
  <2>5. BookedWasPaid'
    BY <1>1, <1>3, <2>2 DEF IInv, TypeOK, BookedWasPaid
  <2>6. RowsWereAsked'
    BY <1>1, <1>3 DEF IInv, TypeOK, RowsWereAsked
  <2>7. QED
    BY <1>1, <2>1, <2>3, <2>4, <2>5, <2>6, CallbackFrame DEF IInv
<1>4. QED
  BY <1>2, <1>3 DEF ResultPaid

\* A refusal or a timeout fails the intent and closes a row that was not
\* acknowledged; it books nothing and acknowledges nothing.
LEMMA FailureInv ==
    ASSUME IInv, NEW o \in Conversations, NEW status \in {"FAILED", "TIMEOUT"},
           FailIntent(o), row[o] \notin {"none", "SUCCESS"},
           row' = [row EXCEPT ![o] = status],
           heard' \subseteq Conversations,
           UNCHANGED <<logs, asked, provider, req>>
    PROVE  IInv'
<1>1. TypeOK'
  <2>1. intent' \in [Intents -> IntentStatus]
    BY DEF IInv, TypeOK, IntentStatus, FailIntent
  <2>2. loan' \in [Loans -> LoanStatus]
    BY DEF IInv, TypeOK, LoanStatus, FailIntent
  <2>3. row' \in [Conversations -> RowStatus]
    BY DEF IInv, TypeOK, RowStatus
  <2>4. QED
    BY <2>1, <2>2, <2>3 DEF IInv, TypeOK, FailIntent
<1>2. ledger' = ledger
  BY DEF FailIntent
<1>3. SuccessIsBooked'
  BY <1>2 DEF IInv, TypeOK, SuccessIsBooked, FailIntent
<1>4. AcknowledgedIsBooked'
  <2>1. \A c \in Conversations : row'[c] = "SUCCESS" => row[c] = "SUCCESS"
    BY DEF IInv, TypeOK
  <2>2. QED
    BY <1>2, <2>1, StillBooked
<1>5. BookedWasPaid'
  BY <1>2 DEF IInv, TypeOK, BookedWasPaid
<1>6. RowsWereAsked'
  BY DEF IInv, TypeOK, RowsWereAsked
<1>7. QED
  BY <1>1, <1>3, <1>4, <1>5, <1>6, CallbackFrame DEF IInv

LEMMA CallbackInv == ASSUME IInv, Callback PROVE IInv'
<1>1. ASSUME NEW o \in Conversations, ResultPaid(o) PROVE IInv'
  BY <1>1, ResultPaidInv
<1>2. ASSUME NEW o \in Conversations, ResultRefused(o) PROVE IInv'
  <2>1. heard' \subseteq Conversations
    BY <1>2 DEF IInv, TypeOK, ResultRefused
  <2>2. QED
    BY <1>2, <2>1, FailureInv DEF ResultRefused, OpenToResult
<1>3. ASSUME NEW o \in Conversations, ResultTimeout(o) PROVE IInv'
  <2>1. heard' \subseteq Conversations
    BY <1>3 DEF IInv, TypeOK, ResultTimeout
  <2>2. QED
    BY <1>3, <2>1, FailureInv DEF ResultTimeout, OpenToTimeout
<1>4. ASSUME NEW o \in Conversations, ResultUnmatched(o) PROVE IInv'
  <2>1. TypeOK' /\ RequestsSound'
    BY <1>4 DEF IInv, TypeOK, RequestsSound, BothApproved, ResultUnmatched
  <2>2. QED
    BY <1>4, <2>1, Frame DEF IInv, ResultUnmatched
<1>5. QED
  BY <1>1, <1>2, <1>3, <1>4 DEF Callback

-----------------------------------------------------------------------------
\* A direct disbursement is booked under a key that is no conversation.
LEMMA DirectDisbursementInv == ASSUME IInv, DirectDisbursement PROVE IInv'
<1>1. ASSUME NEW w \in Workers, NEW i \in Intents, BeginDirectDisbursement(w, i)
      PROVE  IInv'
  <2>1. TypeOK'
    BY <1>1 DEF IInv, TypeOK, Request, Stage, Idle, At, BeginDirectDisbursement
  <2>2. RequestsSound'
    BY <1>1 DEF IInv, TypeOK, RequestsSound, BothApproved, Idle, At, BeginDirectDisbursement
  <2>3. QED
    BY <1>1, <2>1, <2>2, Frame DEF IInv, BeginDirectDisbursement
<1>2. ASSUME NEW w \in Workers, NEW key \in DirectKeys, CommitDirectDisbursement(w, key)
      PROVE  IInv'
  <2> DEFINE i == req[w].of
  <2>1. /\ i \in Intents
        /\ key \notin Conversations
        /\ ledger' = ledger \cup {<<i, key>>}
        /\ loan' = [loan EXCEPT ![i] = "DISBURSED"]
        /\ req' = [req EXCEPT ![w] = Idle]
        /\ UNCHANGED <<intent, logs, row, asked, provider, heard>>
    BY <1>2, ConversationsAssumption DEF IInv, RequestsSound, CommitDirectDisbursement
  <2>2. TypeOK'
    <3>1. ledger' \subseteq Intents \X (Conversations \cup DirectKeys)
      BY <2>1 DEF IInv, TypeOK
    <3>2. loan' \in [Loans -> LoanStatus]
      BY <2>1 DEF IInv, TypeOK, LoanStatus
    <3>3. req' \in [Workers -> Request]
      BY <2>1 DEF IInv, TypeOK, Request, Stage, Idle
    <3>4. QED
      BY <2>1, <3>1, <3>2, <3>3 DEF IInv, TypeOK
  <2>3. RequestsSound'
    BY <2>1 DEF IInv, TypeOK, RequestsSound, BothApproved, Idle
  <2>4. SuccessIsBooked'
    BY <2>1 DEF IInv, SuccessIsBooked
  <2>5. AcknowledgedIsBooked'
    BY <2>1, StillBooked
  <2>6. BookedWasPaid'
    BY <2>1 DEF IInv, BookedWasPaid
  <2>7. UsedWhenAsked' /\ RowsWereAsked' /\ SentWasApproved'
    BY <2>1 DEF IInv, UsedWhenAsked, RowsWereAsked, SentWasApproved, BothApproved
  <2>8. QED
    BY <2>2, <2>3, <2>4, <2>5, <2>6, <2>7 DEF IInv
<1>3. QED
  BY <1>1, <1>2 DEF DirectDisbursement

-----------------------------------------------------------------------------
\* Every step keeps the invariant.
LEMMA StepInv == IInv /\ [Next]_vars => IInv'
<1>1. SUFFICES ASSUME IInv, [Next]_vars PROVE IInv'
  OBVIOUS
<1>2. CASE UNCHANGED vars
  BY <1>1, <1>2
     DEF vars, IInv, TypeOK, RequestsSound, UsedWhenAsked, RowsWereAsked, SuccessIsBooked,
         SentWasApproved, AcknowledgedIsBooked, BookedWasPaid, BothApproved
<1>3. CASE Next
  BY <1>1, <1>3, CreationInv, DecisionInv, ServiceInv, ApprovalInv, RejectionInv, SendingInv, AbandonInv, DecideInv,
     CallbackInv, DirectDisbursementInv DEF Next
<1>4. QED
  BY <1>1, <1>2, <1>3

THEOREM Invariance == Spec => []IInv
BY InitInv, StepInv, PTL DEF Spec

\* Every behaviour of the workflow is well typed.
THEOREM TypeCorrect == Spec => []TypeOK
<1>1. IInv => TypeOK
  BY DEF IInv
<1>2. QED
  BY <1>1, Invariance, PTL

\* send_b2c_payout and the sweep ask the provider to pay nothing that lacks
\* either approval, however stale what they read.
THEOREM OnlyApprovedIsSent == Spec => []SentWasApproved
<1>1. IInv => SentWasApproved
  BY DEF IInv
<1>2. QED
  BY <1>1, Invariance, PTL

\* process_b2c_result acknowledges no payout that the ledger does not hold.
THEOREM NothingPaidIsUnbooked == Spec => []AcknowledgedIsBooked
<1>1. IInv => AcknowledgedIsBooked
  BY DEF IInv
<1>2. QED
  BY <1>1, Invariance, PTL

\* What the callbacks put in the ledger the provider paid, for that intent.
THEOREM NothingUnpaidIsBooked == Spec => []BookedWasPaid
<1>1. IInv => BookedWasPaid
  BY DEF IInv
<1>2. QED
  BY <1>1, Invariance, PTL

-----------------------------------------------------------------------------
(* Acknowledged rows, and loans that have left their disbursement behind.   *)

\* The rows a step writes were not acknowledged.
LEMMA StepKeepsRows ==
    ASSUME IInv, Next, NEW o \in Conversations, row[o] = "SUCCESS"
    PROVE  row'[o] = "SUCCESS"
<1>1. CASE \E w \in Workers : RecordPayout(w)
  BY <1>1 DEF IInv, TypeOK, RequestsSound, RecordPayout
<1>2. CASE Callback
  BY <1>2 DEF IInv, TypeOK, Callback, ResultPaid, ResultRefused, ResultTimeout, ResultUnmatched,
              OpenToResult, OpenToTimeout
<1>3. CASE UNCHANGED row
  BY <1>3
<1>4. QED
  BY <1>1, <1>2, <1>3
     DEF Next, RequestWithdrawal, LoanDecision, BeginDecision, ApproveLoan, DeferLoan,
         Approval, BeginApproval, LogApproval,
         FinishApproval, Rejection, BeginRejection, FinishRejection, Sending, SweepPick,
         BeginSend, MarkDisbursing, CallProvider, FinishSend, Abandon, Decide,
         DirectDisbursement, BeginDirectDisbursement, CommitDirectDisbursement, Service

\* process_b2c_result and process_b2c_timeout leave an acknowledged payout
\* alone, whatever comes late or again.
THEOREM AcknowledgementIsFinal == Spec => SuccessfulRowIsFinal
<1>1. IInv /\ [Next]_vars =>
          [\A o \in Conversations : row[o] = "SUCCESS" => row'[o] = "SUCCESS"]_vars
  BY StepKeepsRows
<1>2. QED
  BY <1>1, Invariance, PTL DEF Spec, SuccessfulRowIsFinal

\* A request takes up a loan only while it is requested or to be disbursed.
LEMMA NobodyReturns ==
    ASSUME TypeOK, Next, NEW l \in Loans, Over(l), NEW w \in Workers, req'[w].of = l
    PROVE  req'[w].stage \notin {"deciding", "checked", "disbursing"}
<1>1. req[w] = req'[w] => req'[w].stage \notin {"deciding", "checked", "disbursing"}
  BY DEF Over
<1>2. CASE \E i \in Intents : BeginSend(w, i)
  BY <1>2 DEF TypeOK, BeginSend, Sendable, Over, Disbursable, At, Idle
<1>3. CASE \E i \in Loans : BeginDecision(w, i)
  BY <1>3 DEF TypeOK, BeginDecision, Over, Disbursable, At, Idle
<1>4. CASE \E i \in Intents : BeginDirectDisbursement(w, i)
  BY <1>4 DEF TypeOK, BeginDirectDisbursement, Over, Disbursable, At, Idle
<1>5. CASE Approval \/ Rejection \/ (\E v \in Workers : Abandon(v))
  <2>1. ASSUME NEW v \in Workers, NEW i \in Intents, NEW u \in Users, BeginApproval(v, i, u)
        PROVE  req'[w] = req[w] \/ req'[w].stage = "approving"
    BY <2>1 DEF TypeOK, BeginApproval, At, Idle
  <2>2. ASSUME NEW v \in Workers, LogApproval(v)
        PROVE  req'[w] = req[w] \/ req'[w].stage = "logged"
    BY <2>2 DEF TypeOK, LogApproval, At, Idle
  <2>3. ASSUME NEW v \in Workers, NEW i \in Intents, BeginRejection(v, i)
        PROVE  req'[w] = req[w] \/ req'[w].stage = "rejecting"
    BY <2>3 DEF TypeOK, BeginRejection, At, Idle
  <2>4. ASSUME NEW v \in Workers, FinishApproval(v) \/ FinishRejection(v) \/ Abandon(v)
        PROVE  req'[w] = req[w] \/ req'[w].stage = "idle"
    BY <2>4 DEF TypeOK, FinishApproval, FinishRejection, Abandon, Idle
  <2>5. QED
    BY <1>1, <1>5, <2>1, <2>2, <2>3, <2>4 DEF Approval, Rejection
<1>6. CASE LoanDecision
  BY <1>1, <1>3, <1>6 DEF TypeOK, LoanDecision, BeginDecision, ApproveLoan, DeferLoan, Idle
<1>7. CASE Sending
  <2>1. CASE \E i \in Intents : SweepPick(i)
    BY <1>1, <2>1 DEF TypeOK, SweepPick, At, Idle
  <2>2. CASE \E v \in Workers, i \in Intents : BeginSend(v, i)
    BY <1>1, <1>2, <2>2 DEF TypeOK, BeginSend
  <2>3. CASE \E v \in Workers : MarkDisbursing(v) \/ RecordPayout(v) \/ FinishSend(v)
    BY <1>1, <2>3 DEF TypeOK, Request, MarkDisbursing, RecordPayout, FinishSend, Idle
  <2>4. CASE \E v \in Workers, o \in Conversations : CallProvider(v, o)
    BY <1>1, <2>4 DEF TypeOK, Request, CallProvider
  <2>5. QED
    BY <1>7, <2>1, <2>2, <2>3, <2>4 DEF Sending
<1>8. CASE DirectDisbursement
  BY <1>1, <1>4, <1>8
     DEF TypeOK, DirectDisbursement, BeginDirectDisbursement, CommitDirectDisbursement, Idle
<1>9. CASE UNCHANGED req
  BY <1>1, <1>9
<1>10. QED
  BY <1>5, <1>6, <1>7, <1>8, <1>9
     DEF Next, RequestWithdrawal, Service, Decide, Callback, ResultPaid, ResultRefused,
         ResultUnmatched, ResultTimeout

\* Only a request that had seen the loan before it was over puts it back, and
\* only a loan that is to be disbursed is posted.
LEMMA StatusStays ==
    ASSUME TypeOK, Next, NEW l \in Loans, Over(l)
    PROVE  /\ loan'[l] \notin Disbursable \cup {"REQUESTED"}
           /\ \A e : e[1] = l => (e \in ledger' <=> e \in ledger)
<1> DEFINE Stays == /\ loan'[l] \notin Disbursable \cup {"REQUESTED"}
                    /\ \A e : e[1] = l => (e \in ledger' <=> e \in ledger)
<1>1. UNCHANGED <<loan, ledger>> => Stays
  BY DEF Over
<1>2. CASE \E i \in Intents : Service(i)
  BY <1>2 DEF TypeOK, Service, Over, Disbursable
<1>3. CASE LoanDecision
  BY <1>1, <1>3 DEF TypeOK, LoanDecision, BeginDecision, ApproveLoan, DeferLoan, Over
<1>4. CASE \E w \in Workers : MarkDisbursing(w)
  BY <1>4 DEF TypeOK, MarkDisbursing, Over
<1>5. ASSUME NEW o \in Conversations, FailIntent(o) PROVE Stays
  BY <1>5 DEF TypeOK, FailIntent, Over, Disbursable
<1>6. ASSUME NEW o \in Conversations, PostIntentSuccess(o) PROVE Stays
  <2>1. CASE AlreadyPosted(asked[o])
    BY <1>1, <1>6, <2>1 DEF PostIntentSuccess
  <2>2. CASE ~AlreadyPosted(asked[o])
    <3>1. asked[o] # l
      BY <1>6, <2>2, IntentsAssumption DEF PostIntentSuccess, Over
    <3>2. loan'[l] = loan[l] /\ ledger' = ledger \cup {<<asked[o], o>>}
      BY <1>6, <2>2, <3>1 DEF TypeOK, PostIntentSuccess
    <3>3. <<asked[o], o>>[1] # l
      BY <3>1
    <3>4. QED
      BY <3>2, <3>3 DEF Over
  <2>3. QED
    BY <2>1, <2>2
<1>7. ASSUME NEW w \in Workers, NEW key \in DirectKeys, CommitDirectDisbursement(w, key)
      PROVE  Stays
  <2>1. req[w].of # l
    BY <1>7 DEF CommitDirectDisbursement, Over
  <2>2. loan'[l] = loan[l] /\ ledger' = ledger \cup {<<req[w].of, key>>}
    BY <1>7, <2>1 DEF TypeOK, CommitDirectDisbursement
  <2>3. <<req[w].of, key>>[1] # l
    BY <2>1
  <2>4. QED
    BY <2>2, <2>3 DEF Over
<1>8. CASE Callback
  BY <1>1, <1>5, <1>6, <1>8
     DEF Callback, ResultPaid, PostingRefused, ResultRefused, ResultUnmatched, ResultTimeout
<1>9. CASE UNCHANGED <<loan, ledger>>
  BY <1>1, <1>9
<1>10. QED
  BY <1>2, <1>3, <1>4, <1>7, <1>8, <1>9
     DEF Next, RequestWithdrawal, Approval, BeginApproval, LogApproval, FinishApproval,
         Rejection, BeginRejection, FinishRejection, Sending, SweepPick, BeginSend,
         CallProvider, RecordPayout, FinishSend, Abandon, Decide, DirectDisbursement,
         BeginDirectDisbursement

\* A loan that has left its disbursement behind is not disbursed again: not by
\* the sweep's retries, late callbacks or the console, with any number of each.
THEOREM DisbursementIsOver == Spec => DisbursedOnce
<1>1. TypeOK /\ [Next]_vars =>
          [\A l \in Loans : Over(l) => Over(l)' /\ BookingsOf(l)' = BookingsOf(l)]_vars
  <2>1. SUFFICES ASSUME TypeOK, Next, NEW l \in Loans, Over(l)
                 PROVE  Over(l)' /\ BookingsOf(l)' = BookingsOf(l)
    OBVIOUS
  <2>2. loan'[l] \notin Disbursable \cup {"REQUESTED"}
    BY <2>1, StatusStays
  <2>3. Over(l)'
    BY <2>1, <2>2, NobodyReturns DEF Over, Disbursable
  <2>4. \A e : e[1] = l => (e \in ledger' <=> e \in ledger)
    BY <2>1, StatusStays
  <2>5. QED
    BY <2>3, <2>4 DEF BookingsOf
<1>2. QED
  BY <1>1, TypeCorrect, PTL DEF Spec, DisbursedOnce

-----------------------------------------------------------------------------
(* The workflow implements PayoutPromise.                                  *)

Approved == {i \in Intents : BothApproved(i)}
Acked == {o \in Conversations : row[o] = "SUCCESS"}
Booked == {e \in ledger : e[2] \in Conversations}

\* A step that changes no row, posting, approval or conversation stutters.
LEMMA PromiseStutter ==
    ASSUME UNCHANGED <<logs, row, asked, ledger>>
    PROVE  UNCHANGED <<Approved, asked, Acked, Booked>>
BY DEF Approved, Acked, Booked, BothApproved, ApprovalState

\* An approval that completes the pair is the abstract approval, and any other
\* one is a stutter.
LEMMA LogApprovalKeeps ==
    ASSUME IInv, NEW w \in Workers, LogApproval(w)
    PROVE  [Promise!Next]_<<Approved, asked, Acked, Booked>>
<1>1. PICK i \in Intents : /\ logs' = [logs EXCEPT ![i] = logs[i] \cup {req[w].by}]
                            /\ UNCHANGED <<row, asked, ledger>>
  BY DEF IInv, RequestsSound, LogApproval
<1>2. UNCHANGED <<asked, Acked, Booked>>
  BY <1>1 DEF Acked, Booked
<1>3. \A j \in Intents \ {i} : BothApproved(j)' <=> BothApproved(j)
  BY <1>1 DEF IInv, TypeOK, BothApproved, ApprovalState
<1>4. ASSUME BothApproved(i) PROVE BothApproved(i)'
  <2>1. logs[i] \subseteq logs'[i]
    BY <1>1 DEF IInv, TypeOK
  <2>2. QED
    BY <1>4, <2>1, ApprovalIsForGood
<1>5. Approved' = Approved \/ Approved' = Approved \cup {i}
  BY <1>3, <1>4 DEF Approved
<1>6. QED
  BY <1>1, <1>2, <1>5 DEF Promise!Next, Promise!Approve, Approved, Acked, Booked

LEMMA CallProviderKeeps ==
    ASSUME IInv, NEW w \in Workers, NEW o \in Conversations, CallProvider(w, o)
    PROVE  [Promise!Next]_<<Approved, asked, Acked, Booked>>
<1> DEFINE i == req[w].of
<1>1. /\ i \in Approved
      /\ asked[o] = None
      /\ asked' = [asked EXCEPT ![o] = i]
      /\ UNCHANGED <<logs, row, ledger>>
  BY DEF IInv, TypeOK, RequestsSound, UsedWhenAsked, CallProvider, Approved
<1>2. UNCHANGED <<Approved, Acked, Booked>>
  BY <1>1 DEF Approved, Acked, Booked, BothApproved
<1>3. i \in Intents
  BY <1>1 DEF Approved
<1>4. Promise!Open(o, i)
  BY <1>1, <1>2 DEF Promise!Open, Approved, Acked, Booked
<1>5. QED
  BY <1>3, <1>4 DEF Promise!Next

\* A paid result acknowledges with a posting, or finds the intent booked by an
\* acknowledged conversation, or is refused and acknowledges nothing.
LEMMA ResultPaidKeeps ==
    ASSUME IInv, NEW o \in Conversations, ResultPaid(o)
    PROVE  [Promise!Next]_<<Approved, asked, Acked, Booked>>
<1> DEFINE i == asked[o]
<1>1. /\ i \in Intents
      /\ row[o] # "SUCCESS"
      /\ UNCHANGED <<logs, asked>>
  BY DEF IInv, RowsWereAsked, OpenToResult, ResultPaid
<1>2. UNCHANGED Approved
  BY <1>1 DEF Approved, BothApproved
<1>3. CASE PostingRefused(o) /\ row' = [row EXCEPT ![o] = "FAILED"]
  <2>1. Acked' = Acked /\ Booked' = Booked
    BY <1>1, <1>3 DEF IInv, TypeOK, Acked, Booked, PostingRefused
  <2>2. QED
    BY <1>1, <1>2, <2>1
<1>4. CASE PostIntentSuccess(o) /\ row' = [row EXCEPT ![o] = "SUCCESS"]
  <2>1. Acked' = Acked \cup {o}
    BY <1>4 DEF IInv, TypeOK, Acked
  <2>2. o \notin Acked
    BY <1>1 DEF Acked
  <2>3. CASE intent[i] = "SUCCESS" /\ UNCHANGED ledger
    <3>1. \E c \in Acked : <<i, c>> \in Booked
      BY <1>1, <2>3 DEF IInv, SuccessIsBooked, BookedWasPaid, Acked, Booked
    <3>2. UNCHANGED Booked
      BY <2>3 DEF Booked
    <3>3. Promise!Acknowledge(o)
      BY <1>1, <1>2, <2>1, <2>2, <3>1, <3>2 DEF Promise!Acknowledge, Approved, Acked, Booked
    <3>4. QED
      BY <3>3 DEF Promise!Next
  <2>4. CASE ledger' = ledger \cup {<<i, o>>}
    <3>1. Booked' = Booked \cup {<<i, o>>}
      BY <2>4 DEF Booked
    <3>2. Promise!Book(o)
      BY <1>1, <1>2, <2>1, <2>2, <3>1 DEF Promise!Book, Approved, Acked, Booked
    <3>3. QED
      BY <3>2 DEF Promise!Next
  <2>5. QED
    BY <1>4, <2>3, <2>4 DEF PostIntentSuccess, AlreadyPosted
<1>5. QED
  BY <1>3, <1>4 DEF ResultPaid

LEMMA StepKeepsPromise ==
    ASSUME IInv, Next
    PROVE  [Promise!Next]_<<Approved, asked, Acked, Booked>>
<1>1. ASSUME NEW w \in Workers, LogApproval(w)
      PROVE  [Promise!Next]_<<Approved, asked, Acked, Booked>>
  BY <1>1, LogApprovalKeeps
<1>2. ASSUME NEW w \in Workers, NEW o \in Conversations, CallProvider(w, o)
      PROVE  [Promise!Next]_<<Approved, asked, Acked, Booked>>
  BY <1>2, CallProviderKeeps
<1>3. ASSUME NEW o \in Conversations, ResultPaid(o)
      PROVE  [Promise!Next]_<<Approved, asked, Acked, Booked>>
  BY <1>3, ResultPaidKeeps
<1>4. ASSUME NEW w \in Workers, RecordPayout(w)
      PROVE  UNCHANGED <<Approved, asked, Acked, Booked>>
  BY <1>4 DEF IInv, TypeOK, RequestsSound, RecordPayout, Approved, Acked, Booked, BothApproved
<1>5. ASSUME NEW o \in Conversations, ResultRefused(o) \/ ResultTimeout(o)
      PROVE  UNCHANGED <<Approved, asked, Acked, Booked>>
  BY <1>5 DEF IInv, TypeOK, ResultRefused, ResultTimeout, OpenToResult, OpenToTimeout,
              FailIntent, Approved, Acked, Booked, BothApproved
<1>6. ASSUME NEW w \in Workers, NEW key \in DirectKeys, CommitDirectDisbursement(w, key)
      PROVE  UNCHANGED <<Approved, asked, Acked, Booked>>
  BY <1>6, ConversationsAssumption
     DEF CommitDirectDisbursement, Approved, Acked, Booked, BothApproved
<1>7. CASE UNCHANGED <<logs, row, asked, ledger>>
  BY <1>7, PromiseStutter
<1>8. QED
  BY <1>1, <1>2, <1>3, <1>4, <1>5, <1>6, <1>7
     DEF Next, RequestWithdrawal, LoanDecision, BeginDecision, ApproveLoan, DeferLoan,
         Approval, BeginApproval, FinishApproval,
         Rejection, BeginRejection, FinishRejection, Sending, SweepPick, BeginSend,
         MarkDisbursing, FinishSend, Abandon, Decide, Callback, ResultUnmatched,
         DirectDisbursement, BeginDirectDisbursement, Service

\* Whatever the interleaving, the workflow keeps the promise of PayoutPromise:
\* asked only when approved, acknowledged once, for good, and with its posting.
THEOREM KeepsPromise == Spec => PromiseKept
<1>1. Init => Promise!Init
  BY ConversationsAssumption DEF Init, Promise!Init, BothApproved, ApprovalState
<1>2. IInv /\ [Next]_vars => [Promise!Next]_<<Approved, asked, Acked, Booked>>
  <2>1. ASSUME UNCHANGED vars PROVE UNCHANGED <<Approved, asked, Acked, Booked>>
    BY <2>1, PromiseStutter DEF vars
  <2>2. QED
    BY <2>1, StepKeepsPromise
<1>3. QED
  BY <1>1, <1>2, Invariance, PTL
     DEF Spec, PromiseKept, Promise!Spec, Promise!promise, Approved, Acked, Booked
==============================================================================
