-------------------------- MODULE MpesaDepositProofs --------------------------
(* Theorems about MpesaDeposit, for any number of intents, pushes, paybill  *)
(* payments and workers.                                                    *)
EXTENDS MpesaDeposit, TLAPS

\* A split payment is booked as a repayment and a contribution or not at all:
\* when the contribution is refused after the repayment was accepted, the
\* intent is failed in the same transaction, and the repayment must be undone.
SplitIsWhole ==
    \A e \in journal, part \in Part :
        part \in Parts(e.of) => [of |-> e.of, part |-> part, receipt |-> e.receipt] \in journal

\* A payment that the provider knows is for an intent.
KnownIsAsked == \A p \in Payments : provider[p] # "none" => asked[p] \in Intents

\* The newest push of an intent is one of its own.
LatestIsOwn == \A i \in Intents, c \in Checkouts : latest[i] = c => asked[c] = i

\* A push that was never sent has no row, and is nobody's newest.
UnusedIsNew ==
    \A c \in Checkouts : provider[c] = "none" =>
        tx[c] = "none" /\ \A i \in Intents : latest[i] # c

\* A push that is SUCCESS was paid.
SuccessIsPaid == \A c \in Checkouts : tx[c] = "SUCCESS" => provider[c] = "paid"

\* What a worker holds: the intent it serves, a push that it alone has sent and
\* not recorded, or a payment that it is confirming.
Holds(w) ==
    /\ req[w] # Idle => req[w].of \in Intents
    /\ req[w].stage = "pushed" =>
          /\ req[w].pay \in Checkouts
          /\ provider[req[w].pay] # "none"
          /\ asked[req[w].pay] = req[w].of
          /\ tx[req[w].pay] = "none"
    /\ req[w].stage = "confirming" =>
          /\ req[w].pay \in TransIds
          /\ provider[req[w].pay] = "paid"
          /\ asked[req[w].pay] = req[w].of
Alone ==
    \A v, w \in Workers :
        req[v].stage = "pushed" /\ req[w].stage = "pushed" /\ req[v].pay = req[w].pay
            => v = w
RequestsSound == (\A w \in Workers : Holds(w)) /\ Alone

Safe == SettledIsBooked /\ BookedWasPaid /\ SplitIsWhole /\ ExpiredIsUnpaid
IInv == TypeOK /\ Safe /\ KnownIsAsked /\ LatestIsOwn /\ UnusedIsNew
        /\ SuccessIsPaid /\ RequestsSound

\* A push that is SUCCESS, as its intent is, stays so in this step.
PaidStays ==
    \A c \in Checkouts :
        tx[c] = "SUCCESS" /\ intent[asked[c]] = "SUCCESS" => tx'[c] = "SUCCESS"

-----------------------------------------------------------------------------
(* Posting                                                                 *)

\* Every intent has something to post, and only parts that exist.
LEMMA PartsExist ==
    ASSUME NEW i
    PROVE  Parts(i) # {} /\ Parts(i) \subseteq Part
BY DEF Parts, Part

\* What is kept of a posting is all of it or nothing.
LEMMA KeptIsWhole ==
    ASSUME NEW i, NEW accepted
    PROVE  Kept(i, accepted) = IF IsWhole(i, accepted) THEN Parts(i) ELSE {}
BY DEF Kept, IsWhole

\* A posting of a payment of an intent keeps the books sound, and books the
\* intent under that payment if it is accepted.
LEMMA PostingIsSound ==
    ASSUME TypeOK, BookedWasPaid, SplitIsWhole,
           NEW i \in Intents, NEW p \in Payments, NEW accepted,
           provider[p] = "paid", asked[p] = i,
           PostIntentSuccess(i, p, accepted),
           UNCHANGED <<provider, asked>>
    PROVE  /\ journal' \subseteq Posting
           /\ BookedWasPaid' /\ SplitIsWhole'
           /\ journal \subseteq journal'
           /\ IsWhole(i, accepted) =>
                 \E e \in journal' : e.of = i /\ e.receipt = p
<1> DEFINE New == {[of |-> i, part |-> part, receipt |-> p] : part \in Kept(i, accepted)}
<1>1. journal' = journal \cup New
  BY DEF PostIntentSuccess
<1>2. Kept(i, accepted) \subseteq Part
  BY KeptIsWhole, PartsExist
<1>3. journal' \subseteq Posting
  BY <1>1, <1>2 DEF TypeOK, Posting
<1>4. BookedWasPaid'
  BY <1>1 DEF BookedWasPaid
<1>5. SplitIsWhole'
  <2> SUFFICES ASSUME NEW e \in journal', NEW part \in Part, part \in Parts(e.of)
               PROVE  [of |-> e.of, part |-> part, receipt |-> e.receipt] \in journal'
    BY DEF SplitIsWhole, Parts
  <2>1. CASE e \in journal
    BY <1>1, <2>1 DEF SplitIsWhole
  <2>2. CASE e \in New
    <3>1. PICK q \in Kept(i, accepted) : e = [of |-> i, part |-> q, receipt |-> p]
      BY <2>2
    <3>2. part \in Kept(i, accepted)
      BY <3>1, KeptIsWhole
    <3>3. [of |-> e.of, part |-> part, receipt |-> e.receipt] = [of |-> i, part |-> part, receipt |-> p]
      BY <3>1
    <3> QED BY <1>1, <3>2, <3>3
  <2> QED BY <1>1, <2>1, <2>2
<1>6. ASSUME IsWhole(i, accepted)
      PROVE  \E e \in journal' : e.of = i /\ e.receipt = p
  <2>1. PICK q : q \in Kept(i, accepted)
    BY <1>6, KeptIsWhole, PartsExist
  <2>2. [of |-> i, part |-> q, receipt |-> p] \in journal'
    BY <1>1, <2>1
  <2> QED BY <2>2
<1> QED BY <1>1, <1>3, <1>4, <1>5, <1>6

-----------------------------------------------------------------------------
(* One lemma for each action                                               *)

LEMMA InitInv == ASSUME DepositAssumption PROVE Init => IInv
BY DepositAssumption
DEF DepositAssumption, Init, IInv, TypeOK, Safe, SettledIsBooked, BookedWasPaid, SplitIsWhole,
    ExpiredIsUnpaid, KnownIsAsked, LatestIsOwn, UnusedIsNew, SuccessIsPaid, RequestsSound,
    Holds, Alone, Payments, IntentStatus, TxStatus, Posting, Request, Stage, Idle

\* A request that begins, or is given up, changes an intent at most from none
\* to INITIATED.
LEMMA BeginInv ==
    ASSUME IInv, NEW w \in Workers,
           \/ Abandon(w)
           \/ \E i \in Intents : Ask(w, i) \/ GiveReference(w, i)
    PROVE  IInv' /\ PaidStays
<1>1. UNCHANGED <<tx, latest, asked, provider, journal>>
  BY DEF Abandon, Ask, GiveReference
<1>2. \A i \in Intents : intent'[i] = intent[i] \/ intent'[i] = "INITIATED"
  BY DEF IInv, TypeOK, Abandon, Ask, GiveReference, CreateIntent
<1>3. intent' \in [Intents -> IntentStatus]
  BY DEF IInv, TypeOK, Abandon, Ask, GiveReference, CreateIntent, IntentStatus
<1>4. PICK r \in Request :
        /\ req' = [req EXCEPT ![w] = r]
        /\ r # Idle => r.of \in Intents
        /\ r.stage \notin {"pushed", "confirming"}
  <2>1. CASE Abandon(w)
    <3>1. Idle \in Request /\ Idle.stage = "idle"
      BY DEF Request, Idle, Stage, IntentStatus
    <3> QED BY <2>1, <3>1 DEF Abandon
  <2>2. CASE \E i \in Intents : Ask(w, i) \/ GiveReference(w, i)
    <3>1. PICK i \in Intents, st \in {"asking", "referring"} :
            req' = [req EXCEPT ![w] = [Idle EXCEPT !.stage = st, !.of = i]]
      BY <2>2 DEF Ask, GiveReference
    <3>2. Idle \in Request
      BY DEF Request, Idle, Stage, IntentStatus
    <3>3. /\ [Idle EXCEPT !.stage = st, !.of = i] \in Request
          /\ [Idle EXCEPT !.stage = st, !.of = i].of = i
          /\ [Idle EXCEPT !.stage = st, !.of = i].stage = st
      BY <3>2 DEF Request, Stage
    <3> QED BY <3>1, <3>3
  <2> QED BY <2>1, <2>2
<1>5. req' \in [Workers -> Request] /\ req'[w] = r /\ \A v \in Workers : v # w => req'[v] = req[v]
  BY <1>4 DEF IInv, TypeOK
<1>6. RequestsSound'
  BY <1>1, <1>4, <1>5 DEF IInv, RequestsSound, Holds, Alone
<1>7. TypeOK'
  BY <1>1, <1>3, <1>5 DEF IInv, TypeOK
<1>8. Safe'
  BY <1>1, <1>2 DEF IInv, Safe, SettledIsBooked, Booked, Posted, BookedWasPaid, SplitIsWhole,
                    ExpiredIsUnpaid
<1> QED
  BY <1>1, <1>6, <1>7, <1>8 DEF IInv, KnownIsAsked, LatestIsOwn, UnusedIsNew, SuccessIsPaid, PaidStays

LEMMA PushInv ==
    ASSUME IInv, NEW w \in Workers, Push(w)
    PROVE  IInv' /\ PaidStays
<1>1. PICK c \in Checkouts :
        /\ provider[c] = "none"
        /\ provider' = [provider EXCEPT ![c] = "asked"]
        /\ asked' = [asked EXCEPT ![c] = req[w].of]
        /\ req' = [req EXCEPT ![w].stage = "pushed", ![w].pay = c]
  BY DEF Push
<1>2. req[w].stage = "asking" /\ UNCHANGED <<intent, tx, latest, journal>>
  BY DEF Push
<1> USE <1>1, <1>2
<1>3. req[w].of \in Intents /\ c \in Payments
  BY DEF IInv, RequestsSound, Holds, Idle, Payments
<1>4. TypeOK'
  <2>1. [req[w] EXCEPT !.stage = "pushed", !.pay = c] \in Request
    BY <1>3 DEF IInv, TypeOK, Request, Stage
  <2>2. req' = [req EXCEPT ![w] = [req[w] EXCEPT !.stage = "pushed", !.pay = c]]
    BY DEF IInv, TypeOK
  <2>3. req' \in [Workers -> Request]
    BY <2>1, <2>2 DEF IInv, TypeOK
  <2>4. /\ provider' \in [Payments -> {"none", "asked", "paid", "short", "declined"}]
        /\ asked' \in [Payments -> Intents \cup {None}]
    BY <1>3 DEF IInv, TypeOK
  <2> QED BY <2>3, <2>4 DEF IInv, TypeOK
<1>5. tx[c] = "none" /\ \A i \in Intents : latest[i] # c
  BY DEF IInv, UnusedIsNew
<1>6. RequestsSound'
  <2>1. /\ req'[w].of = req[w].of /\ req'[w].stage = "pushed" /\ req'[w].pay = c
        /\ asked'[c] = req[w].of /\ provider'[c] = "asked"
        /\ \A v \in Workers : v # w => req'[v] = req[v]
        /\ \A p \in Payments : p # c => asked'[p] = asked[p] /\ provider'[p] = provider[p]
    BY <1>3 DEF IInv, TypeOK, Request
  <2>2. \A v \in Workers :
           /\ req[v].stage = "pushed" => req[v].pay \in Payments /\ req[v].pay # c
           /\ req[v].stage = "confirming" => req[v].pay \in Payments /\ req[v].pay # c
    BY DEF IInv, RequestsSound, Holds, Payments
  <2>3. Holds(w)'
    BY <1>3, <1>5, <2>1 DEF Holds
  <2>4. ASSUME NEW v \in Workers, v # w
        PROVE  Holds(v)'
    <3>1. Holds(v) /\ req'[v] = req[v]
      BY <2>1, <2>4 DEF IInv, RequestsSound
    <3>2. req[v].stage \in {"pushed", "confirming"} =>
             asked'[req[v].pay] = asked[req[v].pay] /\ provider'[req[v].pay] = provider[req[v].pay]
      BY <2>1, <2>2
    <3> QED BY <3>1, <3>2 DEF Holds
  <2>5. Alone'
    <3> SUFFICES ASSUME NEW u \in Workers, NEW v \in Workers,
                        req'[u].stage = "pushed", req'[v].stage = "pushed",
                        req'[u].pay = req'[v].pay
                 PROVE  u = v
      BY DEF Alone
    <3>1. u # w => req'[u] = req[u] /\ req'[u].pay # c
      BY <2>1, <2>2
    <3>2. v # w => req'[v] = req[v] /\ req'[v].pay # c
      BY <2>1, <2>2
    <3>3. u = w <=> v = w
      BY <2>1, <3>1, <3>2
    <3>4. CASE u # w /\ v # w
      <4>1. req[u].stage = "pushed" /\ req[v].stage = "pushed" /\ req[u].pay = req[v].pay
        BY <3>1, <3>2, <3>4
      <4> QED BY <4>1 DEF IInv, RequestsSound, Alone
    <3> QED BY <3>3, <3>4
  <2> QED BY <2>3, <2>4, <2>5 DEF RequestsSound
<1>7. BookedWasPaid'
  BY DEF IInv, TypeOK, Safe, BookedWasPaid, Posting
<1>8. Safe'
  BY <1>3, <1>5, <1>7 DEF IInv, TypeOK, Safe, SettledIsBooked, Booked, Posted, SplitIsWhole,
                          ExpiredIsUnpaid, Payments
<1>9. KnownIsAsked' /\ LatestIsOwn' /\ UnusedIsNew' /\ SuccessIsPaid'
  BY <1>3, <1>5 DEF IInv, TypeOK, KnownIsAsked, LatestIsOwn, UnusedIsNew, SuccessIsPaid, Payments
<1> QED BY <1>4, <1>6, <1>8, <1>9 DEF IInv, PaidStays

LEMMA RecordCheckoutInv ==
    ASSUME DepositAssumption, IInv, NEW w \in Workers, RecordCheckout(w)
    PROVE  IInv' /\ PaidStays
<1> DEFINE c == req[w].pay
<1>1. /\ tx' = [tx EXCEPT ![c] = "PENDING"]
      /\ latest' = [latest EXCEPT ![req[w].of] = c]
      /\ req' = [req EXCEPT ![w].stage = "recorded"]
      /\ req[w].stage = "pushed"
      /\ UNCHANGED <<intent, asked, provider, journal>>
  BY DEF RecordCheckout
<1>2. /\ req[w].of \in Intents
      /\ c \in Checkouts /\ c \in Payments
      /\ provider[c] # "none" /\ asked[c] = req[w].of /\ tx[c] = "none"
  BY <1>1 DEF IInv, RequestsSound, Holds, Idle, Payments
<1> HIDE DEF c
<1>3. TypeOK'
  BY <1>1, <1>2 DEF IInv, TypeOK, Request, Stage, TxStatus, IntentStatus
<1>4. \A v \in Workers : v # w /\ req[v].stage = "pushed" => req[v].pay # c
  BY <1>1 DEF IInv, RequestsSound, Alone, c
<1>5. RequestsSound'
  BY <1>1, <1>2, <1>4 DEF IInv, TypeOK, RequestsSound, Holds, Alone, Request, Idle, Payments
<1>6. c \notin TransIds
  BY <1>2 DEF DepositAssumption
<1>7. Safe'
  BY <1>1, <1>2, <1>6 DEF IInv, TypeOK, Safe, SettledIsBooked, Booked, Posted, BookedWasPaid,
                          SplitIsWhole, ExpiredIsUnpaid, Payments
<1>8. KnownIsAsked' /\ LatestIsOwn' /\ UnusedIsNew' /\ SuccessIsPaid'
  BY <1>1, <1>2 DEF IInv, TypeOK, KnownIsAsked, LatestIsOwn, UnusedIsNew, SuccessIsPaid, Payments
<1> QED BY <1>1, <1>2, <1>3, <1>5, <1>7, <1>8 DEF IInv, TypeOK, PaidStays, Payments

LEMMA SavePendingInv ==
    ASSUME IInv, NEW w \in Workers, SavePending(w)
    PROVE  IInv' /\ PaidStays
<1>1. /\ intent' = [intent EXCEPT ![req[w].of] = "PENDING"]
      /\ req' = [req EXCEPT ![w] = Idle]
      /\ UNCHANGED <<tx, latest, asked, provider, journal>>
  BY DEF SavePending
<1>2. TypeOK'
  BY <1>1 DEF IInv, TypeOK, Request, Stage, Idle, IntentStatus
<1>3. RequestsSound'
  BY <1>1 DEF IInv, TypeOK, RequestsSound, Holds, Alone, Idle
<1>4. Safe'
  BY <1>1 DEF IInv, TypeOK, Safe, SettledIsBooked, Booked, Posted, BookedWasPaid, SplitIsWhole,
              ExpiredIsUnpaid
<1> QED
  BY <1>1, <1>2, <1>3, <1>4 DEF IInv, KnownIsAsked, LatestIsOwn, UnusedIsNew, SuccessIsPaid, PaidStays

\* The member pays: by a push, or to the paybill.
LEMMA PaymentInv ==
    ASSUME DepositAssumption, IInv,
           \/ \E c \in Checkouts : MemberAnswers(c)
           \/ \E t \in TransIds, i \in Intents : PayBill(t, i)
    PROVE  IInv' /\ PaidStays
<1>1. UNCHANGED <<intent, tx, latest, journal, req>>
  BY DEF MemberAnswers, PayBill
<1>2. PICK p \in Payments, to \in {"paid", "short", "declined"} :
        /\ provider[p] \in {"none", "asked"}
        /\ provider' = [provider EXCEPT ![p] = to]
        /\ \/ provider[p] = "asked" /\ asked' = asked
           \/ /\ provider[p] = "none" /\ p \in TransIds
              /\ \E i \in Intents : asked' = [asked EXCEPT ![p] = i]
  BY DEF MemberAnswers, PayBill, Payments
<1>3. TypeOK'
  BY <1>1, <1>2 DEF IInv, TypeOK
<1>4. \A q \in Payments :
        /\ q # p => provider'[q] = provider[q] /\ asked'[q] = asked[q]
        /\ q \in Checkouts => asked'[q] = asked[q]
        /\ provider[q] = "paid" => provider'[q] = "paid" /\ asked'[q] = asked[q]
        /\ provider[q] # "none" => provider'[q] # "none" /\ asked'[q] = asked[q]
  BY <1>2 DEF IInv, TypeOK, DepositAssumption
<1>5. RequestsSound'
  BY <1>1, <1>4 DEF IInv, RequestsSound, Holds, Alone, Payments
<1>6. BookedWasPaid'
  BY <1>1, <1>4 DEF IInv, TypeOK, Safe, BookedWasPaid, Posting
<1>7. Safe'
  BY <1>1, <1>4, <1>6 DEF IInv, Safe, SettledIsBooked, Booked, Posted, SplitIsWhole,
                          ExpiredIsUnpaid, Payments
<1>8. KnownIsAsked'
  BY <1>2 DEF IInv, TypeOK, KnownIsAsked
<1>9. LatestIsOwn' /\ UnusedIsNew' /\ SuccessIsPaid'
  BY <1>1, <1>4 DEF IInv, LatestIsOwn, UnusedIsNew, SuccessIsPaid, Payments
<1> QED BY <1>1, <1>3, <1>5, <1>7, <1>8, <1>9 DEF IInv, PaidStays

\* process_stk_callback, whatever it finds.
LEMMA CallbackInv ==
    ASSUME DepositAssumption, IInv, NEW c \in Checkouts, Callback(c)
    PROVE  IInv' /\ PaidStays
<1> DEFINE i == asked[c]
<1>1. PICK status \in {"SUCCESS", "FAILED"} : SettleCheckout(c, status)
  BY DEF Callback, CallbackOfPaidIntent, CallbackPaid, CallbackFailed
<1>2. /\ intent' = [intent EXCEPT ![i] = status]
      /\ tx' = [tx EXCEPT ![c] = status]
      /\ UNCHANGED <<latest, asked, provider, req>>
  BY <1>1 DEF SettleCheckout
<1>3. /\ provider[c] \in {"paid", "short", "declined"} /\ tx[c] # "none"
      /\ c \in Payments /\ c \notin TransIds
  BY DEF Callback, CallbackOfPaidIntent, CallbackPaid, CallbackFailed, Known, Payments,
         DepositAssumption
<1>4. i \in Intents
  BY <1>3 DEF IInv, KnownIsAsked
<1>5. /\ journal' \subseteq Posting /\ BookedWasPaid' /\ SplitIsWhole'
      /\ journal \subseteq journal'
      /\ status = "SUCCESS" => \E e \in journal' : e.of = i
      /\ status = "SUCCESS" => provider[c] = "paid"
      /\ intent[i] = "SUCCESS" /\ provider[c] = "paid" => status = "SUCCESS"
  <2>1. CASE CallbackOfPaidIntent(c)
    <3>1. UNCHANGED journal /\ intent[i] = "SUCCESS" /\ tx' = [tx EXCEPT ![c] = "SUCCESS"]
      BY <2>1 DEF CallbackOfPaidIntent, SettleCheckout
    <3>2. status = "SUCCESS" /\ Booked(i) /\ provider[c] = "paid"
      BY <1>2, <1>3, <1>4, <2>1, <3>1
      DEF IInv, TypeOK, Safe, SettledIsBooked, CallbackOfPaidIntent
    <3> QED
      BY <1>2, <3>1, <3>2 DEF IInv, TypeOK, Safe, BookedWasPaid, SplitIsWhole, Booked
  <2>2. CASE CallbackPaid(c)
    <3>1. PICK accepted \in Accepted(i) :
            /\ PostIntentSuccess(i, c, accepted)
            /\ tx' = [tx EXCEPT ![c] = IF IsWhole(i, accepted) THEN "SUCCESS" ELSE "FAILED"]
      BY <2>2 DEF CallbackPaid, SettleCheckout
    <3>2. provider[c] = "paid" /\ intent[i] # "SUCCESS"
      BY <2>2 DEF CallbackPaid, Unpaid
    <3>3. status = "SUCCESS" => IsWhole(i, accepted)
      BY <1>2, <1>3, <3>1 DEF IInv, TypeOK
    <3>4. /\ journal' \subseteq Posting /\ BookedWasPaid' /\ SplitIsWhole'
          /\ journal \subseteq journal'
          /\ IsWhole(i, accepted) => \E e \in journal' : e.of = i /\ e.receipt = c
      BY <1>2, <1>3, <1>4, <3>1, <3>2, PostingIsSound DEF IInv, Safe
    <3> QED BY <3>2, <3>3, <3>4, <1>2 DEF Booked
  <2>3. CASE CallbackFailed(c)
    <3>1. UNCHANGED journal /\ provider[c] \in {"short", "declined"} /\ tx' = [tx EXCEPT ![c] = "FAILED"]
      BY <2>3 DEF CallbackFailed, SettleCheckout
    <3>2. status = "FAILED"
      BY <1>2, <1>3, <3>1 DEF IInv, TypeOK
    <3> QED BY <1>2, <3>1, <3>2 DEF IInv, TypeOK, Safe, BookedWasPaid, SplitIsWhole
  <2> QED BY <2>1, <2>2, <2>3 DEF Callback
<1> HIDE DEF i
<1>6. TypeOK'
  BY <1>2, <1>5 DEF IInv, TypeOK, IntentStatus, TxStatus
<1>7. \A p \in Payments : p # c => tx'[p] = tx[p]
  BY <1>2 DEF IInv, TypeOK
<1>8. tx'[c] = status
  BY <1>2, <1>3 DEF IInv, TypeOK
<1>9. RequestsSound'
  BY <1>2, <1>3, <1>7 DEF IInv, RequestsSound, Holds, Alone, Payments
<1>10. SettledIsBooked'
  <2>1. \A j \in Intents : Booked(j) => Booked(j)'
    BY <1>5 DEF Booked
  <2>2. \A j \in Intents : intent'[j] = "SUCCESS" => Booked(j)'
    <3> SUFFICES ASSUME NEW j \in Intents, intent'[j] = "SUCCESS"
                 PROVE  Booked(j)'
      OBVIOUS
    <3>1. CASE j = i
      BY <1>2, <1>4, <1>5, <3>1 DEF IInv, TypeOK, Booked
    <3>2. CASE j # i
      BY <1>2, <2>1, <3>2 DEF IInv, TypeOK, Safe, SettledIsBooked
    <3> QED BY <3>1, <3>2
  <2>3. \A d \in Checkouts : tx'[d] = "SUCCESS" => Booked(asked[d])'
    BY <1>2, <1>5, <1>7, <1>8 DEF IInv, Safe, SettledIsBooked, Booked, Payments, i
  <2>4. \A t \in TransIds : tx'[t] = "POSTED" => Posted(t)'
    BY <1>3, <1>5, <1>7 DEF IInv, Safe, SettledIsBooked, Posted, Payments
  <2> QED BY <1>2, <2>2, <2>3, <2>4 DEF SettledIsBooked, Booked
<1>11. ExpiredIsUnpaid'
  <2> SUFFICES ASSUME NEW j \in Intents, NEW d \in Checkouts,
                      intent'[j] = "EXPIRED", latest[j] = d
               PROVE  tx'[d] # "SUCCESS"
    BY <1>2 DEF ExpiredIsUnpaid
  <2>1. j # i /\ intent[j] = "EXPIRED"
    BY <1>2, <1>4 DEF IInv, TypeOK
  <2>2. d # c
    BY <2>1 DEF IInv, LatestIsOwn, i
  <2> QED BY <1>7, <2>1, <2>2 DEF IInv, Safe, ExpiredIsUnpaid, Payments
<1>12. UnusedIsNew' /\ SuccessIsPaid'
  BY <1>2, <1>3, <1>5, <1>7, <1>8 DEF IInv, UnusedIsNew, SuccessIsPaid, Payments
<1>13. PaidStays
  BY <1>5, <1>7, <1>8 DEF IInv, SuccessIsPaid, PaidStays, Payments, i
<1> QED
  BY <1>2, <1>5, <1>6, <1>9, <1>10, <1>11, <1>12, <1>13 DEF IInv, Safe, KnownIsAsked, LatestIsOwn

\* expire_pending_stk: an intent expires only if its newest push was not paid.
LEMMA ExpireInv ==
    ASSUME DepositAssumption, IInv, NEW i \in Intents, Expire(i)
    PROVE  IInv' /\ PaidStays
<1>1. /\ ~LatestIsPaid(i)
      /\ intent' = [intent EXCEPT ![i] = "EXPIRED"]
      /\ tx' = [p \in Payments |->
                   IF p = latest[i] /\ tx[p] = "PENDING" THEN "EXPIRED" ELSE tx[p]]
      /\ UNCHANGED <<latest, asked, provider, journal, req>>
  BY DEF Expire
<1>2. TypeOK'
  BY <1>1 DEF IInv, TypeOK, IntentStatus, TxStatus
<1>3. \A p \in Payments :
         /\ tx'[p] = tx[p] \/ (tx[p] = "PENDING" /\ tx'[p] = "EXPIRED")
         /\ tx[p] = "none" => tx'[p] = "none"
  BY <1>1
<1>4. /\ intent'[i] = "EXPIRED"
      /\ \A j \in Intents : j # i => intent'[j] = intent[j]
  BY <1>1 DEF IInv, TypeOK
<1>5. SettledIsBooked'
  BY <1>1, <1>3, <1>4 DEF IInv, Safe, SettledIsBooked, Booked, Posted, Payments
<1>6. ExpiredIsUnpaid'
  <2> SUFFICES ASSUME NEW j \in Intents, NEW d \in Checkouts,
                      intent'[j] = "EXPIRED", latest[j] = d
               PROVE  tx'[d] # "SUCCESS"
    BY <1>1 DEF ExpiredIsUnpaid
  <2>1. d \in Payments /\ d # None
    BY DEF Payments, DepositAssumption
  <2>2. tx[d] # "SUCCESS"
    BY <1>1, <1>4, <2>1 DEF IInv, Safe, ExpiredIsUnpaid, LatestIsPaid
  <2> QED BY <1>3, <2>1, <2>2
<1>7. RequestsSound'
  BY <1>1, <1>3 DEF IInv, RequestsSound, Holds, Alone, Payments
<1>8. BookedWasPaid' /\ SplitIsWhole' /\ KnownIsAsked' /\ LatestIsOwn'
  BY <1>1 DEF IInv, Safe, BookedWasPaid, SplitIsWhole, KnownIsAsked, LatestIsOwn
<1>9. UnusedIsNew' /\ SuccessIsPaid'
  BY <1>1, <1>3 DEF IInv, UnusedIsNew, SuccessIsPaid, Payments
<1>10. PaidStays
  BY <1>3 DEF PaidStays, Payments
<1> QED BY <1>2, <1>5, <1>6, <1>7, <1>8, <1>9, <1>10 DEF IInv, Safe

\* A confirmation begins: it holds a payment that was made in full.
LEMMA BeginConfirmationInv ==
    ASSUME DepositAssumption, IInv, NEW w \in Workers, NEW t \in TransIds,
           BeginConfirmation(w, t)
    PROVE  IInv' /\ PaidStays
<1> DEFINE r == [stage |-> "confirming", of |-> asked[t], pay |-> t, seen |-> intent[asked[t]]]
<1>1. /\ provider[t] = "paid"
      /\ req' = [req EXCEPT ![w] = r]
      /\ UNCHANGED <<intent, tx, latest, asked, provider, journal>>
  BY DEF BeginConfirmation, AmountMatches
<1>2. t \in Payments /\ asked[t] \in Intents
  BY <1>1 DEF Payments, IInv, KnownIsAsked
<1>3. r \in Request
  BY <1>2 DEF IInv, TypeOK, Request, Stage
<1>4. r.stage = "confirming" /\ r.of = asked[t] /\ r.pay = t
  OBVIOUS
<1> HIDE DEF r
<1>5. req' \in [Workers -> Request] /\ req'[w] = r /\ \A v \in Workers : v # w => req'[v] = req[v]
  BY <1>1, <1>3 DEF IInv, TypeOK
<1>6. TypeOK'
  BY <1>1, <1>5 DEF IInv, TypeOK
<1>7. RequestsSound'
  BY <1>1, <1>2, <1>4, <1>5 DEF IInv, RequestsSound, Holds, Alone
<1>8. Safe'
  BY <1>1 DEF IInv, Safe, SettledIsBooked, Booked, Posted, BookedWasPaid, SplitIsWhole,
              ExpiredIsUnpaid
<1> QED
  BY <1>1, <1>6, <1>7, <1>8 DEF IInv, KnownIsAsked, LatestIsOwn, UnusedIsNew, SuccessIsPaid, PaidStays

\* A confirmation commits: it posts the payment and settles the intent, fails
\* it, or finds it paid.
LEMMA CommitConfirmationInv ==
    ASSUME DepositAssumption, IInv, NEW w \in Workers, CommitConfirmation(w)
    PROVE  IInv' /\ PaidStays
<1> DEFINE i == req[w].of
           t == req[w].pay
<1>1. /\ req' = [req EXCEPT ![w] = Idle]
      /\ UNCHANGED <<latest, asked, provider>>
      /\ req[w].stage = "confirming"
      /\ tx[t] = "none"
  BY DEF CommitConfirmation
<1>2. /\ i \in Intents /\ t \in TransIds /\ t \in Payments /\ t \notin Checkouts
      /\ provider[t] = "paid" /\ asked[t] = i
  BY <1>1 DEF IInv, RequestsSound, Holds, Idle, Payments, DepositAssumption
<1>3. \E ns \in IntentStatus, ts \in {"POSTED", "REJECTED", "DUPLICATE"} :
         /\ intent' = [intent EXCEPT ![i] = ns]
         /\ tx' = [tx EXCEPT ![t] = ts]
         /\ journal' \subseteq Posting /\ BookedWasPaid' /\ SplitIsWhole'
         /\ journal \subseteq journal'
         /\ ns # "EXPIRED" \/ ns = intent[i]
         /\ ns = "SUCCESS" => intent[i] = "SUCCESS" \/ \E e \in journal' : e.of = i
         /\ ts = "POSTED" => \E e \in journal' : e.receipt = t
  <2>1. CASE req[w].seen = "SUCCESS"
    <3>1. tx' = [tx EXCEPT ![t] = "DUPLICATE"] /\ UNCHANGED <<intent, journal>>
      BY <2>1 DEF CommitConfirmation
    <3>2. intent' = [intent EXCEPT ![i] = intent[i]] /\ intent[i] \in IntentStatus
      BY <1>2, <3>1 DEF IInv, TypeOK
    <3>3. journal' \subseteq Posting /\ BookedWasPaid' /\ SplitIsWhole'
      BY <1>1, <3>1 DEF IInv, TypeOK, Safe, BookedWasPaid, SplitIsWhole
    <3> QED BY <3>1, <3>2, <3>3
  <2>2. CASE req[w].seen # "SUCCESS"
    <3>1. PICK accepted \in Accepted(i) :
            /\ PostIntentSuccess(i, t, accepted)
            /\ intent' = [intent EXCEPT ![i] =
                             IF IsWhole(i, accepted) THEN "SUCCESS" ELSE "FAILED"]
            /\ tx' = [tx EXCEPT ![t] =
                         IF IsWhole(i, accepted) THEN "POSTED" ELSE "REJECTED"]
      BY <2>2 DEF CommitConfirmation
    <3>2. /\ journal' \subseteq Posting /\ BookedWasPaid' /\ SplitIsWhole'
          /\ journal \subseteq journal'
          /\ IsWhole(i, accepted) => \E e \in journal' : e.of = i /\ e.receipt = t
      BY <1>1, <1>2, <3>1, PostingIsSound DEF IInv, Safe
    <3>3. CASE IsWhole(i, accepted)
      BY <3>1, <3>2, <3>3 DEF IntentStatus
    <3>4. CASE ~IsWhole(i, accepted)
      BY <3>1, <3>2, <3>4 DEF IntentStatus
    <3> QED BY <3>3, <3>4
  <2> QED BY <2>1, <2>2
<1>4. PICK ns \in IntentStatus, ts \in {"POSTED", "REJECTED", "DUPLICATE"} :
         /\ intent' = [intent EXCEPT ![i] = ns]
         /\ tx' = [tx EXCEPT ![t] = ts]
         /\ journal' \subseteq Posting /\ BookedWasPaid' /\ SplitIsWhole'
         /\ journal \subseteq journal'
         /\ ns # "EXPIRED" \/ ns = intent[i]
         /\ ns = "SUCCESS" => intent[i] = "SUCCESS" \/ \E e \in journal' : e.of = i
         /\ ts = "POSTED" => \E e \in journal' : e.receipt = t
  BY <1>3
<1> HIDE DEF i, t
<1>5. /\ intent'[i] = ns /\ \A j \in Intents : j # i => intent'[j] = intent[j]
      /\ tx'[t] = ts /\ \A p \in Payments : p # t => tx'[p] = tx[p]
      /\ \A c \in Checkouts : tx'[c] = tx[c]
  BY <1>2, <1>4 DEF IInv, TypeOK, Payments
<1>6. TypeOK'
  BY <1>1, <1>4 DEF IInv, TypeOK, Request, Stage, Idle, IntentStatus, TxStatus
<1>7. RequestsSound'
  BY <1>1, <1>5 DEF IInv, TypeOK, RequestsSound, Holds, Alone, Idle
<1>8. SettledIsBooked'
  <2>1. \A j \in Intents : Booked(j) => \E e \in journal' : e.of = j
    BY <1>4 DEF Booked
  <2>2. \A j \in Intents : intent'[j] = "SUCCESS" => \E e \in journal' : e.of = j
    BY <1>4, <1>5, <2>1 DEF IInv, Safe, SettledIsBooked
  <2>3. \A c \in Checkouts : tx'[c] = "SUCCESS" => \E e \in journal' : e.of = asked[c]
    BY <1>4, <1>5 DEF IInv, Safe, SettledIsBooked, Booked
  <2>4. \A u \in TransIds : tx'[u] = "POSTED" => \E e \in journal' : e.receipt = u
    BY <1>4, <1>5 DEF IInv, Safe, SettledIsBooked, Posted, Payments
  <2> QED BY <1>1, <2>2, <2>3, <2>4 DEF SettledIsBooked, Booked, Posted
<1>9. ExpiredIsUnpaid'
  BY <1>1, <1>4, <1>5 DEF IInv, Safe, ExpiredIsUnpaid
<1>10. KnownIsAsked' /\ LatestIsOwn' /\ UnusedIsNew' /\ SuccessIsPaid' /\ PaidStays
  BY <1>1, <1>5 DEF IInv, KnownIsAsked, LatestIsOwn, UnusedIsNew, SuccessIsPaid, PaidStays
<1> QED BY <1>4, <1>6, <1>7, <1>8, <1>9, <1>10 DEF IInv, Safe

\* A confirmation of another amount, or of a trans_id that is known.
LEMMA RefusedConfirmationInv ==
    ASSUME DepositAssumption, IInv, NEW t \in TransIds, ConfirmShort(t) \/ ConfirmAgain(t)
    PROVE  IInv' /\ PaidStays
<1>1. UNCHANGED <<latest, asked, provider, journal, req>>
  BY DEF ConfirmShort, ConfirmAgain
<1>2. \A j \in Intents : intent'[j] = intent[j] \/ intent'[j] = "FAILED"
  BY DEF IInv, TypeOK, ConfirmShort, ConfirmAgain
<1>3. \A p \in Payments :
         tx'[p] = tx[p] \/ (p = t /\ tx[p] # "none" /\ tx'[p] = "DUPLICATE")
  BY DEF IInv, TypeOK, ConfirmShort, ConfirmAgain
<1>4. TypeOK'
  BY <1>1 DEF IInv, TypeOK, ConfirmShort, ConfirmAgain, IntentStatus, TxStatus
<1>5. \A c \in Checkouts : tx'[c] = tx[c]
  BY <1>3 DEF Payments, DepositAssumption
<1>6. RequestsSound'
  BY <1>1, <1>5 DEF IInv, RequestsSound, Holds, Alone
<1>7. Safe'
  BY <1>1, <1>2, <1>3, <1>5 DEF IInv, Safe, SettledIsBooked, Booked, Posted, BookedWasPaid,
                                SplitIsWhole, ExpiredIsUnpaid, Payments
<1> QED
  BY <1>1, <1>4, <1>5, <1>6, <1>7 DEF IInv, KnownIsAsked, LatestIsOwn, UnusedIsNew, SuccessIsPaid, PaidStays

-----------------------------------------------------------------------------
(* Theorems                                                                *)

\* Every step preserves the invariant and takes back no push of a paid intent.
LEMMA StepInv == ASSUME DepositAssumption, IInv, Next PROVE IInv' /\ PaidStays
<1>1. CASE \E w \in Workers : Abandon(w) \/ \E i \in Intents : Ask(w, i) \/ GiveReference(w, i)
  BY <1>1, BeginInv
<1>2. CASE \E w \in Workers : Push(w)
  BY <1>2, PushInv
<1>3. CASE \E w \in Workers : RecordCheckout(w)
  BY <1>3, RecordCheckoutInv
<1>4. CASE \E w \in Workers : SavePending(w)
  BY <1>4, SavePendingInv
<1>5. CASE \E w \in Workers : CommitConfirmation(w)
  BY <1>5, CommitConfirmationInv
<1>6. CASE \E w \in Workers, t \in TransIds : BeginConfirmation(w, t)
  BY <1>6, BeginConfirmationInv
<1>7. CASE \E t \in TransIds : ConfirmShort(t) \/ ConfirmAgain(t)
  BY <1>7, RefusedConfirmationInv
<1>8. CASE \/ \E c \in Checkouts : MemberAnswers(c)
           \/ \E t \in TransIds, i \in Intents : PayBill(t, i)
  BY <1>8, PaymentInv
<1>9. CASE \E c \in Checkouts : Callback(c)
  BY <1>9, CallbackInv
<1>10. CASE \E i \in Intents : Expire(i)
  BY <1>10, ExpireInv
<1> QED
  BY <1>1, <1>2, <1>3, <1>4, <1>5, <1>6, <1>7, <1>8, <1>9, <1>10 DEF Next

\* A stutter preserves it too.
LEMMA StutterInv == ASSUME IInv, UNCHANGED vars PROVE IInv' /\ PaidStays
BY DEF IInv, vars, TypeOK, Safe, SettledIsBooked, Booked, Posted, BookedWasPaid, SplitIsWhole,
       ExpiredIsUnpaid, KnownIsAsked, LatestIsOwn, UnusedIsNew, SuccessIsPaid, RequestsSound,
       Holds, Alone, PaidStays

\* The strengthening of the invariants below is inductive: a worker holds
\* what it alone has sent, and a payment is known for one intent.
THEOREM DepositInvariant == Spec => []IInv
<1>1. Init => IInv
  BY DepositAssumption, InitInv
<1>2. IInv /\ [Next]_vars => IInv'
  BY DepositAssumption, StepInv, StutterInv
<1> QED BY <1>1, <1>2, PTL DEF Spec

\* The rows and what the requests hold keep their types.
THEOREM DepositTypeCorrect == Spec => []TypeOK
<1>1. IInv => TypeOK
  BY DEF IInv
<1> QED BY <1>1, DepositInvariant, PTL

\* What a deposit, push or paybill payment shows as paid is in the books.
THEOREM SettlementsAreBooked == Spec => []SettledIsBooked
<1>1. IInv => SettledIsBooked
  BY DEF IInv, Safe
<1> QED BY <1>1, DepositInvariant, PTL

\* What is in the books was paid in full, for the intent it is booked to.
THEOREM BookingsWerePaid == Spec => []BookedWasPaid
<1>1. IInv => BookedWasPaid
  BY DEF IInv, Safe
<1> QED BY <1>1, DepositInvariant, PTL

\* A split payment is booked in both its parts or in none.
THEOREM SplitsAreWhole == Spec => []SplitIsWhole
<1>1. IInv => SplitIsWhole
  BY DEF IInv, Safe
<1> QED BY <1>1, DepositInvariant, PTL

\* An intent whose newest push is SUCCESS is never shown as expired.
THEOREM PaidPushesDoNotExpire == Spec => []ExpiredIsUnpaid
<1>1. IInv => ExpiredIsUnpaid
  BY DEF IInv, Safe
<1> QED BY <1>1, DepositInvariant, PTL

\* A push that is SUCCESS stays so as long as its intent is.
THEOREM PaidPushesStay == Spec => PaidPushIsFinal
<1>1. IInv /\ [Next]_vars => PaidStays
  BY DepositAssumption, StepInv, StutterInv
<1>2. IInv /\ [Next]_vars =>
         [\A c \in Checkouts :
            tx[c] = "SUCCESS" /\ intent[asked[c]] = "SUCCESS" => tx'[c] = "SUCCESS"]_vars
  BY <1>1 DEF PaidStays
<1> QED BY <1>2, DepositInvariant, PTL DEF Spec, PaidPushIsFinal

-----------------------------------------------------------------------------
(* The promise of PaymentPromise.                                          *)

\* A paybill payment without a row has no posting: the confirmation makes both.
NoRowNoPosting == \A t \in TransIds : tx[t] = "none" => ~Posted(t)

paidForOf == [p \in Payments |-> IF provider[p] = "paid" THEN asked[p] ELSE None]
shownOf == {i \in Intents : intent[i] = "SUCCESS"}
PromiseStep == Promise!Next \/ UNCHANGED <<paidForOf, journal, shownOf>>

\* Whatever leaves the rows of paybill payments alone, but for those that get
\* one, and posts nothing for those that have none, keeps NoRowNoPosting.
LEMMA StillNoPosting ==
    ASSUME NoRowNoPosting,
           \A t \in TransIds : tx'[t] = "none" =>
               tx[t] = "none" /\ \A e \in journal' : e.receipt = t => e \in journal
    PROVE  NoRowNoPosting'
BY DEF NoRowNoPosting, Posted

\* Postings are made for pushes, which have no row here, or with the row of
\* their paybill payment.
LEMMA NoPostingStep ==
    ASSUME DepositAssumption, IInv, NoRowNoPosting, [Next]_vars
    PROVE  NoRowNoPosting'
<1> SUFFICES ASSUME NEW t \in TransIds, tx'[t] = "none"
             PROVE  tx[t] = "none" /\ \A e \in journal' : e.receipt = t => e \in journal
  BY StillNoPosting
<1>1. t \in Payments /\ t \notin Checkouts
  BY DEF Payments, DepositAssumption
<1>2. CASE UNCHANGED <<tx, journal>>
  BY <1>2
<1>3. ASSUME NEW w \in Workers, RecordCheckout(w)
      PROVE  tx'[t] = tx[t] /\ journal' = journal
  BY <1>1, <1>3 DEF RecordCheckout, IInv, TypeOK, RequestsSound, Holds
<1>4. ASSUME NEW w \in Workers, CommitConfirmation(w)
      PROVE  tx[t] = "none" /\ \A e \in journal' : e.receipt = t => e \in journal
  <2> DEFINE p == req[w].pay
  <2>1. p \in TransIds /\ p \in Payments
    BY <1>4 DEF CommitConfirmation, IInv, RequestsSound, Holds, Payments
  <2>2. \E s \in {"DUPLICATE", "POSTED", "REJECTED"} : tx' = [tx EXCEPT ![p] = s]
    BY <1>4 DEF CommitConfirmation
  <2>3. p # t /\ tx'[t] = tx[t]
    BY <1>1, <2>1, <2>2 DEF IInv, TypeOK
  <2>4. \A e \in journal' : e \in journal \/ e.receipt = p
    BY <1>4 DEF CommitConfirmation, PostIntentSuccess
  <2> QED
    BY <2>3, <2>4
<1>5. ASSUME NEW c \in Checkouts, Callback(c)
      PROVE  tx'[t] = tx[t] /\ \A e \in journal' : e.receipt = t => e \in journal
  <2>1. tx'[t] = tx[t]
    BY <1>1, <1>5
    DEF Callback, CallbackOfPaidIntent, CallbackPaid, CallbackFailed, SettleCheckout,
        IInv, TypeOK
  <2>2. \A e \in journal' : e \in journal \/ e.receipt = c
    BY <1>5
    DEF Callback, CallbackOfPaidIntent, CallbackPaid, CallbackFailed, PostIntentSuccess
  <2> QED
    BY <1>1, <2>1, <2>2
<1>6. ASSUME NEW i \in Intents, Expire(i)
      PROVE  tx'[t] = "none" => tx[t] = "none" /\ journal' = journal
  BY <1>1, <1>6 DEF Expire
<1>7. ASSUME NEW u \in TransIds, ConfirmShort(u) \/ ConfirmAgain(u)
      PROVE  tx'[t] = "none" => tx[t] = "none" /\ journal' = journal
  BY <1>1, <1>7 DEF ConfirmShort, ConfirmAgain, IInv, TypeOK
<1> QED
  BY <1>2, <1>3, <1>4, <1>5, <1>6, <1>7
  DEF Next, vars, Ask, GiveReference, Push, SavePending, Abandon, BeginConfirmation,
      MemberAnswers, PayBill

\* A save of anything but SUCCESS hides an intent.
LEMMA HideMoves ==
    ASSUME TypeOK, NEW i \in Intents, NEW s, s # "SUCCESS",
           intent' = [intent EXCEPT ![i] = s], UNCHANGED <<asked, provider, journal>>
    PROVE  PromiseStep
<1>1. shownOf' = shownOf \ {i}
  BY DEF TypeOK, shownOf
<1>2. paidForOf' = paidForOf
  BY DEF paidForOf
<1> QED
  BY <1>1, <1>2 DEF PromiseStep, Promise!Next, Promise!Hide, paidForOf, shownOf

\* A posting that is accepted books a payment and shows its intent.
LEMMA BookMoves ==
    ASSUME DepositAssumption, TypeOK, NEW p \in Payments, NEW i \in Intents, NEW accepted,
           provider[p] = "paid", asked[p] = i, ~Posted(p),
           PostIntentSuccess(i, p, accepted), IsWhole(i, accepted),
           intent' = [intent EXCEPT ![i] = "SUCCESS"], UNCHANGED <<asked, provider>>
    PROVE  PromiseStep
<1>1. shownOf' = shownOf \cup {i}
  BY DEF TypeOK, shownOf
<1>2. paidForOf' = paidForOf /\ paidForOf[p] = i /\ i # None
  BY DEF paidForOf, DepositAssumption
<1>3. Kept(i, accepted) = Parts(i) /\ [j \in Intents |-> Parts(j)][i] = Parts(i)
  BY KeptIsWhole
<1>4. journal' = journal \cup
        {[of |-> paidForOf[p], part |-> x, receipt |-> p] :
            x \in [j \in Intents |-> Parts(j)][paidForOf[p]]}
  BY <1>2, <1>3 DEF PostIntentSuccess
<1>5. \A e \in journal : e.receipt # p
  BY DEF Posted
<1>6. shownOf' = shownOf \cup {paidForOf[p]}
  BY <1>1, <1>2
<1>7. Promise!Book(p)
  BY <1>2, <1>4, <1>5, <1>6 DEF Promise!Book, paidForOf, shownOf
<1> QED
  BY <1>7 DEF PromiseStep, Promise!Next

\* A payment that is made, or refused, or asked for.
LEMMA PayMoves ==
    ASSUME DepositAssumption, IInv,
           \/ \E c \in Checkouts : MemberAnswers(c)
           \/ \E t \in TransIds, i \in Intents : PayBill(t, i)
           \/ \E w \in Workers : Push(w)
    PROVE  PromiseStep
<1>1. UNCHANGED <<intent, journal>> /\ shownOf' = shownOf
  BY DEF MemberAnswers, PayBill, Push, shownOf
<1>2. PICK p \in Payments, to \in {"asked", "paid", "short", "declined"} :
        /\ provider[p] \in {"none", "asked"}
        /\ provider' = [provider EXCEPT ![p] = to]
        /\ \A q \in Payments : q # p => asked'[q] = asked[q]
        /\ to = "paid" => asked'[p] \in Intents
  <2>1. CASE \E c \in Checkouts : MemberAnswers(c)
    <3>1. PICK c \in Checkouts : MemberAnswers(c)
      BY <2>1
    <3>2. provider[c] = "asked" /\ c \in Payments /\ asked' = asked /\ asked[c] \in Intents
      BY <3>1 DEF MemberAnswers, Payments, IInv, KnownIsAsked
    <3> QED
      BY <3>1, <3>2 DEF MemberAnswers
  <2>2. CASE \E t \in TransIds, i \in Intents : PayBill(t, i)
    <3>1. PICK t \in TransIds, i \in Intents : PayBill(t, i)
      BY <2>2
    <3>2. t \in Payments /\ asked' = [asked EXCEPT ![t] = i] /\ asked'[t] = i
      BY <3>1 DEF PayBill, Payments, IInv, TypeOK
    <3>3. \A q \in Payments : q # t => asked'[q] = asked[q]
      BY <3>2 DEF IInv, TypeOK
    <3> QED
      BY <3>1, <3>2, <3>3 DEF PayBill
  <2>3. CASE \E w \in Workers : Push(w)
    <3>1. PICK w \in Workers, c \in Checkouts :
            /\ provider[c] = "none"
            /\ provider' = [provider EXCEPT ![c] = "asked"]
            /\ asked' = [asked EXCEPT ![c] = req[w].of]
      BY <2>3 DEF Push
    <3>2. c \in Payments
      BY DEF Payments
    <3>3. \A q \in Payments : q # c => asked'[q] = asked[q]
      BY <3>1 DEF IInv, TypeOK
    <3> QED
      BY <3>1, <3>2, <3>3
  <2> QED
    BY <2>1, <2>2, <2>3
<1>3. /\ provider'[p] = to /\ paidForOf[p] = None
      /\ \A q \in Payments : q # p => provider'[q] = provider[q]
  BY <1>2 DEF IInv, TypeOK, paidForOf
<1>4. paidForOf' = [paidForOf EXCEPT ![p] = IF to = "paid" THEN asked'[p] ELSE None]
  BY <1>2, <1>3 DEF paidForOf
<1>5. CASE to = "paid"
  <2>1. PICK i \in Intents : i = asked'[p]
    BY <1>2, <1>5
  <2>2. Promise!Pay(p, i)
    BY <1>1, <1>3, <1>4, <1>5, <2>1 DEF Promise!Pay, paidForOf, shownOf
  <2> QED
    BY <2>2 DEF PromiseStep, Promise!Next
<1>6. CASE to # "paid"
  BY <1>1, <1>3, <1>4, <1>6 DEF PromiseStep, paidForOf
<1> QED
  BY <1>5, <1>6

\* The STK callback books the payment, hides the intent, or changes nothing.
LEMMA CallbackMoves ==
    ASSUME DepositAssumption, IInv, NEW c \in Checkouts, Callback(c)
    PROVE  PromiseStep
<1> DEFINE i == asked[c]
<1>1. c \in Payments /\ provider[c] # "none" /\ i \in Intents /\ UNCHANGED <<asked, provider>>
  BY DEF Payments, Callback, CallbackOfPaidIntent, CallbackPaid, CallbackFailed,
         SettleCheckout, IInv, KnownIsAsked
<1>2. CASE CallbackOfPaidIntent(c)
  <2>1. intent' = intent /\ journal' = journal
    BY <1>1, <1>2 DEF CallbackOfPaidIntent, SettleCheckout, IInv, TypeOK
  <2> QED
    BY <1>1, <2>1 DEF PromiseStep, paidForOf, shownOf
<1>3. CASE CallbackFailed(c)
  <2>1. intent' = [intent EXCEPT ![i] = "FAILED"] /\ journal' = journal
    BY <1>3 DEF CallbackFailed, SettleCheckout
  <2> QED
    BY <1>1, <2>1, HideMoves DEF IInv
<1>4. CASE CallbackPaid(c)
  <2>1. PICK accepted \in Accepted(i) :
          /\ accepted # {} => NewReceipt(c)
          /\ PostIntentSuccess(i, c, accepted)
          /\ intent' = [intent EXCEPT ![i] =
                           IF IsWhole(i, accepted) THEN "SUCCESS" ELSE "FAILED"]
    BY <1>4 DEF CallbackPaid, SettleCheckout
  <2>2. CASE IsWhole(i, accepted)
    <3>1. ~Posted(c) /\ intent' = [intent EXCEPT ![i] = "SUCCESS"]
      BY <2>1, <2>2, PartsExist DEF IsWhole, NewReceipt
    <3>2. provider[c] = "paid"
      BY <1>4 DEF CallbackPaid
    <3> QED
      BY <1>1, <2>1, <2>2, <3>1, <3>2, BookMoves DEF IInv
  <2>3. CASE ~IsWhole(i, accepted)
    <3>1. journal' = journal /\ intent' = [intent EXCEPT ![i] = "FAILED"]
      BY <2>1, <2>3, KeptIsWhole DEF PostIntentSuccess
    <3> QED
      BY <1>1, <3>1, HideMoves DEF IInv
  <2> QED
    BY <2>2, <2>3
<1> QED
  BY <1>2, <1>3, <1>4 DEF Callback

\* So does the confirmation of a paybill payment.
LEMMA ConfirmationMoves ==
    ASSUME DepositAssumption, IInv, NoRowNoPosting, NEW w \in Workers, CommitConfirmation(w)
    PROVE  PromiseStep
<1> DEFINE i == req[w].of
           t == req[w].pay
<1>1. /\ i \in Intents /\ t \in TransIds /\ t \in Payments
      /\ provider[t] = "paid" /\ asked[t] = i /\ UNCHANGED <<asked, provider>>
      /\ tx[t] = "none"
  BY DEF CommitConfirmation, IInv, RequestsSound, Holds, Idle, Payments
<1>2. ~Posted(t)
  BY <1>1 DEF NoRowNoPosting
<1>3. CASE req[w].seen = "SUCCESS"
  <2>1. intent' = intent /\ journal' = journal
    BY <1>3 DEF CommitConfirmation
  <2> QED
    BY <1>1, <2>1 DEF PromiseStep, paidForOf, shownOf
<1>4. CASE req[w].seen # "SUCCESS"
  <2>1. PICK accepted \in Accepted(i) :
          /\ PostIntentSuccess(i, t, accepted)
          /\ intent' = [intent EXCEPT ![i] =
                           IF IsWhole(i, accepted) THEN "SUCCESS" ELSE "FAILED"]
    BY <1>4 DEF CommitConfirmation
  <2>2. CASE IsWhole(i, accepted)
    <3>1. intent' = [intent EXCEPT ![i] = "SUCCESS"]
      BY <2>1, <2>2
    <3> QED
      BY <1>1, <1>2, <2>1, <2>2, <3>1, BookMoves DEF IInv
  <2>3. CASE ~IsWhole(i, accepted)
    <3>1. journal' = journal /\ intent' = [intent EXCEPT ![i] = "FAILED"]
      BY <2>1, <2>3, KeptIsWhole DEF PostIntentSuccess
    <3> QED
      BY <1>1, <3>1, HideMoves DEF IInv
  <2> QED
    BY <2>2, <2>3
<1> QED
  BY <1>3, <1>4

\* Requests, expiries and refused confirmations hide an intent or nothing.
LEMMA RestMoves ==
    ASSUME DepositAssumption, IInv,
           \/ \E w \in Workers, i \in Intents : Ask(w, i) \/ GiveReference(w, i)
           \/ \E w \in Workers : RecordCheckout(w) \/ SavePending(w) \/ Abandon(w)
           \/ \E w \in Workers, t \in TransIds : BeginConfirmation(w, t)
           \/ \E t \in TransIds : ConfirmShort(t) \/ ConfirmAgain(t)
           \/ \E i \in Intents : Expire(i)
    PROVE  PromiseStep
<1>1. UNCHANGED <<asked, provider, journal>>
  BY DEF Ask, GiveReference, RecordCheckout, SavePending, Abandon, BeginConfirmation,
         ConfirmShort, ConfirmAgain, Expire
<1>2. CASE UNCHANGED intent
  BY <1>1, <1>2 DEF PromiseStep, paidForOf, shownOf
<1>3. ASSUME NEW w \in Workers, NEW i \in Intents, Ask(w, i) \/ GiveReference(w, i)
      PROVE  PromiseStep
  <2>1. shownOf' = shownOf
    BY <1>3 DEF Ask, GiveReference, CreateIntent, IInv, TypeOK, shownOf
  <2> QED
    BY <1>1, <2>1 DEF PromiseStep, paidForOf
<1>4. ASSUME NEW w \in Workers, SavePending(w)
      PROVE  PromiseStep
  <2>1. req[w].of \in Intents /\ intent' = [intent EXCEPT ![req[w].of] = "PENDING"]
    BY <1>4 DEF SavePending, IInv, RequestsSound, Holds, Idle
  <2> QED
    BY <1>1, <2>1, HideMoves DEF IInv
<1>5. ASSUME NEW t \in TransIds, ConfirmShort(t)
      PROVE  PromiseStep
  <2>1. asked[t] \in Intents /\ intent' = [intent EXCEPT ![asked[t]] = "FAILED"]
    BY <1>5 DEF ConfirmShort, IInv, KnownIsAsked, Payments
  <2> QED
    BY <1>1, <2>1, HideMoves DEF IInv
<1>6. ASSUME NEW i \in Intents, Expire(i)
      PROVE  PromiseStep
  <2>1. intent' = [intent EXCEPT ![i] = "EXPIRED"]
    BY <1>6 DEF Expire
  <2> QED
    BY <1>1, <2>1, HideMoves DEF IInv
<1> QED
  BY <1>2, <1>3, <1>4, <1>5, <1>6
  DEF RecordCheckout, Abandon, BeginConfirmation, ConfirmAgain

\* However requests, callbacks and confirmations cross, every behaviour is one
\* of PaymentPromise: a payment is booked once, whole, when it was made, and an
\* intent shown as paid is in the books.
THEOREM KeepsPromise == Spec => PromiseKept
<1>1. Init => Promise!Init
  <2> SUFFICES ASSUME Init PROVE Promise!Init
    OBVIOUS
  <2>1. paidForOf = [p \in Payments |-> None] /\ shownOf = {} /\ journal = {}
    BY DEF Init, paidForOf, shownOf
  <2> QED
    BY <2>1 DEF Promise!Init, paidForOf, shownOf
<1>2. Init => NoRowNoPosting
  BY DEF Init, NoRowNoPosting, Posted
<1>3. IInv /\ NoRowNoPosting /\ [Next]_vars => NoRowNoPosting'
  BY DepositAssumption, NoPostingStep
<1>4. IInv /\ NoRowNoPosting /\ [Next]_vars => [Promise!Next]_<<paidForOf, journal, shownOf>>
  <2> SUFFICES ASSUME IInv, NoRowNoPosting, [Next]_vars PROVE PromiseStep
    BY DEF PromiseStep
  <2>1. CASE UNCHANGED vars
    BY <2>1 DEF vars, PromiseStep, paidForOf, shownOf
  <2>2. CASE Next
    BY <2>2, DepositAssumption, PayMoves, CallbackMoves, ConfirmationMoves, RestMoves DEF Next
  <2> QED
    BY <2>1, <2>2
<1>5. Spec => [][Promise!Next]_<<paidForOf, journal, shownOf>>
  BY <1>2, <1>3, <1>4, DepositInvariant, PTL DEF Spec
<1>6. [][Promise!Next]_<<paidForOf, journal, shownOf>> <=> [][Promise!Next]_<<
         [p \in Payments |-> IF provider[p] = "paid" THEN asked[p] ELSE None],
         journal, {i \in Intents : intent[i] = "SUCCESS"}>>
  BY DEF paidForOf, shownOf
<1> QED
  BY <1>1, <1>5, <1>6, PTL DEF PromiseKept, Promise!Spec, Promise!promise, Spec
=============================================================================
