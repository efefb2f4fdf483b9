------------------------ MODULE BillingCheckoutProofs ------------------------
(***************************************************************************)
(* What holds of BillingCheckout for any credits, invoices, subscriptions, *)
(* processes and crashes: its types, and that a credit is spent and an     *)
(* invoice settled only for a payment.  The inductive invariant follows a  *)
(* confirmation from the callback that began it to the saves that end it,  *)
(* and keeps an invoice that is being made apart from every other process. *)
(***************************************************************************)
EXTENDS BillingCheckout, FiniteSetTheorems, TLAPS

\* A job names the rows its step is about.
JobsNamed ==
    \A w \in Workers :
        /\ work[w].step \notin {"idle", "revoke", "lapse"} => work[w].inv \in Invoices
        /\ work[w].step = "link" => work[w].sub \in Subscriptions
        /\ work[w].step = "lapse" => work[w].sub \in Subscriptions
        /\ work[w].step = "revoke" => work[w].crd \in Credits

Typed == TypeOK /\ JobsNamed

\* Who confirms an invoice does so for a payment.
Confirming ==
    \A w \in Workers :
        work[w].step \in {"subscribe", "link", "apply", "pay"} => Earned(work[w].inv)

\* A checkout that is being made has no prompt, and one process.
Making(w) == work[w].step \in {"reserve", "ask"} /\ work[w].inv \notin Renewals
MadeAlone ==
    \A w \in Workers :
        Making(w) =>
            /\ prompt[work[w].inv].state = "none"
            /\ invoice[work[w].inv].status # "none"
            /\ work[w].step = "reserve" => invoice[work[w].inv].due = Price
            /\ \A v \in Workers : Making(v) /\ work[v].inv = work[w].inv => v = w

\* Nothing knows of a checkout before it is made.
Unmade ==
    \A i \in Invoices \ Renewals :
        invoice[i].status = "none" =>
            /\ prompt[i].state = "none"
            /\ ~invoice[i].settled
            /\ \A c \in Credits : alloc[i][c].status = "none"
            /\ \A w \in Workers : work[w].inv # i

\* A checkout asks after it has an invoice, a renewal before.
Kinds ==
    \A w \in Workers :
        /\ work[w].step = "ask" => work[w].inv \notin Renewals
        /\ work[w].step = "create" => work[w].inv \in Renewals

Sound == SpentWhenPaid /\ Confirming /\ MadeAlone /\ Unmade /\ Kinds
IInv == Typed /\ Sound

-----------------------------------------------------------------------------
\* Idle is a job.
LEMMA IdleJob == Idle \in Job
  BY DEF Idle, Job, Step

\* The initial states satisfy the invariant.
LEMMA InitInv == Init => IInv
<1> SUFFICES ASSUME Init PROVE IInv
  OBVIOUS
<1>1. \A w \in Workers : work[w].step = "idle" /\ work[w].inv = None
  BY DEF Init, Idle
<1>2. Typed
  <2>1. TypeOK
    BY BillingAssumption, IdleJob
    DEF Init, TypeOK, Credit, Allocation, Invoice, Prompt, Subscription,
        InvoiceStatus, AllocationStatus, SubscriptionStatus
  <2> QED
    BY <1>1, <2>1 DEF Typed, JobsNamed
<1>3. SpentWhenPaid
  BY DEF Init, SpentWhenPaid
<1>4. Confirming /\ MadeAlone /\ Kinds
  BY <1>1 DEF Confirming, MadeAlone, Making, Kinds
<1>5. Unmade
  BY <1>1, BillingAssumption DEF Init, Unmade
<1> QED
  BY <1>2, <1>3, <1>4, <1>5 DEF IInv, Sound

-----------------------------------------------------------------------------
(* What single operators do to the types.                                  *)

\* A job whose step changes is still a job.
LEMMA GotoTypes ==
  ASSUME Typed, NEW w \in Workers, NEW s \in Step,
         s \notin {"idle", "link", "lapse", "revoke"}, work[w].inv \in Invoices, Goto(w, s)
  PROVE  work' \in [Workers -> Job] /\ JobsNamed'
<1>1. work' \in [Workers -> Job]
  BY DEF Goto, Typed, TypeOK, Job
<1>2. \A v \in Workers : v # w => work'[v] = work[v]
  BY DEF Goto, Typed, TypeOK
<1>3. work'[w].step = s /\ work'[w].inv = work[w].inv
  BY DEF Goto, Typed, TypeOK, Job
<1> QED
  BY <1>1, <1>2, <1>3 DEF Typed, JobsNamed

\* So is one that is done, ...
LEMMA DoneTypes ==
  ASSUME Typed, NEW w \in Workers, Done(w)
  PROVE  work' \in [Workers -> Job] /\ JobsNamed'
<1>1. work' \in [Workers -> Job]
  BY IdleJob DEF Done, Typed, TypeOK
<1>2. \A v \in Workers : v # w => work'[v] = work[v]
  BY DEF Done, Typed, TypeOK
<1>3. work'[w].step = "idle"
  BY DEF Done, Typed, TypeOK, Idle
<1> QED
  BY <1>1, <1>2, <1>3 DEF Typed, JobsNamed

\* ... and one that starts.
LEMMA StartTypes ==
  ASSUME Typed, NEW w \in Workers, NEW s \in Step, NEW i \in Invoices,
         s \notin {"link", "lapse", "revoke"}, Start(w, s, i)
  PROVE  work' \in [Workers -> Job] /\ JobsNamed'
<1>1. work' \in [Workers -> Job]
  BY DEF Start, Idle, Typed, TypeOK, Job, Step
<1>2. \A v \in Workers : v # w => work'[v] = work[v]
  BY DEF Start, Typed, TypeOK
<1>3. work'[w].step = s /\ work'[w].inv = i
  BY DEF Start, Typed, TypeOK, Idle
<1> QED
  BY <1>1, <1>2, <1>3 DEF Typed, JobsNamed

\* A confirmation starts with the subscription it read.
LEMMA ReadActiveTypes ==
  ASSUME Typed, NEW w \in Workers, NEW i \in Invoices, ReadActive(w, i)
  PROVE  /\ work' \in [Workers -> Job] /\ JobsNamed'
         /\ work'[w].step = "subscribe" /\ work'[w].inv = i
         /\ \A v \in Workers : v # w => work'[v] = work[v]
<1>1. PICK k \in Subscriptions \cup {None}, r \in Invoices \cup {None} :
        work' = [work EXCEPT ![w] = Confirmation(i, k, r)]
  BY DEF ReadActive, Typed, TypeOK, Subscription
<1>2. work' \in [Workers -> Job]
  BY <1>1 DEF Confirmation, Typed, TypeOK, Job, Step
<1>3. \A v \in Workers : v # w => work'[v] = work[v]
  BY <1>1 DEF Confirmation, Typed, TypeOK
<1>4. work'[w].step = "subscribe" /\ work'[w].inv = i
  BY <1>1 DEF Confirmation, Typed, TypeOK
<1> QED
  BY <1>2, <1>3, <1>4 DEF Typed, JobsNamed

\* A release keeps the types, and changes no allocation but reserved ones.
LEMMA ReleaseTypes ==
  ASSUME Typed, NEW i \in Invoices, Release(i)
  PROVE  /\ credit' \in [Credits -> Credit]
         /\ alloc' \in [Invoices -> [Credits -> Allocation]]
         /\ \A j \in Invoices, c \in Credits :
               \/ alloc'[j][c] = alloc[j][c]
               \/ alloc[j][c].status = "RESERVED" /\ alloc'[j][c].status = "RELEASED"
<1>1. \A c \in Credits : Returned(i, c) \in Nat
  BY DEF Returned, Reserved, Typed, TypeOK, Allocation
<1>2. credit' \in [Credits -> Credit]
  <2>1. \A c \in Credits : [credit[c] EXCEPT !.remaining = @ + Returned(i, c)] \in Credit
    BY <1>1 DEF Typed, TypeOK, Credit
  <2> QED
    BY <2>1 DEF Release
<1>3. ASSUME NEW c \in Credits PROVE [alloc[i][c] EXCEPT !.status = "RELEASED"] \in Allocation
  <2>1. alloc[i][c] \in Allocation
    BY DEF Typed, TypeOK
  <2> QED
    BY <2>1 DEF Allocation, AllocationStatus
<1>4. alloc' \in [Invoices -> [Credits -> Allocation]]
  BY <1>3 DEF Release, Typed, TypeOK
<1>5. ASSUME NEW j \in Invoices, NEW c \in Credits
      PROVE  \/ alloc'[j][c] = alloc[j][c]
             \/ alloc[j][c].status = "RESERVED" /\ alloc'[j][c].status = "RELEASED"
  BY DEF Release, Reserved, Typed, TypeOK, Allocation
<1> QED
  BY <1>2, <1>4, <1>5

\* A new or changed invoice is an invoice.
LEMMA InvoiceTypes ==
  ASSUME Typed, NEW i \in Invoices
  PROVE  /\ \A s \in InvoiceStatus :
               [invoice EXCEPT ![i].status = s] \in [Invoices -> Invoice]
         /\ \A d \in 0..Price : [invoice EXCEPT ![i].due = d] \in [Invoices -> Invoice]
         /\ [invoice EXCEPT ![i].found = TRUE] \in [Invoices -> Invoice]
         /\ [invoice EXCEPT ![i].status = "PAID", ![i].settled = TRUE]
               \in [Invoices -> Invoice]
         /\ \A f \in BOOLEAN : NewInvoice(i, f) => invoice' \in [Invoices -> Invoice]
<1>1. invoice \in [Invoices -> Invoice]
  BY DEF Typed, TypeOK
<1>2. ASSUME NEW f \in BOOLEAN, NewInvoice(i, f) PROVE invoice' \in [Invoices -> Invoice]
  <2>1. [status |-> "PENDING", due |-> Price, found |-> f, settled |-> FALSE] \in Invoice
    BY BillingAssumption DEF Invoice, InvoiceStatus
  <2> QED
    BY <1>1, <1>2, <2>1 DEF NewInvoice
<1> QED
  BY <1>1, <1>2 DEF Invoice, InvoiceStatus

\* Every step of a checkout, a sweep or a callback keeps the types.
LEMMA ReserveTypes ==
  ASSUME Typed, NEW w \in Workers, Reserve(w)
  PROVE  Typed'
<1> DEFINE i == work[w].inv
<1>1. i \in Invoices
  BY DEF Reserve, At, Typed, JobsNamed
<1>2. PICK take \in [Credits -> 0..Price], total \in 0..Price :
        /\ \A c \in Credits : take[c] = Taken(c)
        /\ credit' = [c \in Credits |-> [credit[c] EXCEPT !.remaining = @ - take[c]]]
        /\ alloc' = [alloc EXCEPT ![i] =
                       [c \in Credits |->
                           IF take[c] > 0
                           THEN [amount |-> take[c], status |-> "RESERVED"]
                           ELSE @[c]]]
        /\ invoice' = [invoice EXCEPT ![i].due = Price - total]
        /\ IF i \in Renewals THEN Done(w) ELSE Goto(w, "ask")
  BY DEF Reserve
<1>3. ASSUME NEW c \in Credits
      PROVE  [credit[c] EXCEPT !.remaining = @ - take[c]] \in Credit
  <2>1. credit[c] \in Credit
    BY DEF Typed, TypeOK
  <2> DEFINE older == MapThenSumSet(LAMBDA d : credit[d].remaining,
                                    {d \in Usable : Age[d] < Age[c]})
  <2>2. take[c] = 0 \/ take[c] = Least(credit[c].remaining, Price - older)
    BY <1>2 DEF Taken
  <2> HIDE DEF older
  <2>3. take[c] \in 0..Price
    BY <1>2
  <2>4. take[c] <= credit[c].remaining
    BY <2>1, <2>2, <2>3, BillingAssumption DEF Least, Credit
  <2> QED
    BY <2>1, <2>3, <2>4, BillingAssumption DEF Credit
<1>4. credit' \in [Credits -> Credit]
  BY <1>2, <1>3
<1>5. alloc' \in [Invoices -> [Credits -> Allocation]]
  <2>1. \A c \in Credits : [amount |-> take[c], status |-> "RESERVED"] \in Allocation
    BY <1>2, BillingAssumption DEF Allocation, AllocationStatus
  <2> QED
    BY <1>1, <1>2, <2>1 DEF Typed, TypeOK
<1>6. invoice' \in [Invoices -> Invoice]
  <2>1. Price - total \in 0..Price
    BY <1>2, BillingAssumption
  <2> QED
    BY <1>1, <1>2, <2>1, InvoiceTypes
<1>7. work' \in [Workers -> Job] /\ JobsNamed'
  BY <1>1, <1>2, GotoTypes, DoneTypes DEF Step
<1> QED
  BY <1>4, <1>5, <1>6, <1>7 DEF Reserve, Typed, TypeOK

LEMMA ContinueTypes ==
  ASSUME Typed, NEW w \in Workers, Continue(w)
  PROVE  Typed'
<1> DEFINE i == work[w].inv
<1>0. ~At(w, "idle") /\ ~At(w, "revoke") /\ ~At(w, "lapse") => i \in Invoices
  BY DEF At, Typed, JobsNamed
<1>1. CASE Reserve(w)
  BY <1>1, ReserveTypes
<1>2. CASE Ask(w)
  <2>1. i \in Invoices
    BY <1>0, <1>2 DEF Ask, At
  <2>2. work' \in [Workers -> Job] /\ JobsNamed'
    BY <1>2, <2>1, GotoTypes, ReadActiveTypes DEF Ask, Step
  <2>3. [state |-> "asked", amount |-> invoice[i].due] \in Prompt
    BY <2>1 DEF Prompt, Typed, TypeOK, Invoice
  <2>4. prompt' \in [Invoices -> Prompt]
    BY <1>2, <2>1, <2>3 DEF Ask, Typed, TypeOK
  <2> QED
    BY <1>2, <2>2, <2>4 DEF Ask, Typed, TypeOK
<1>3. CASE Find(w)
  <2>1. i \in Invoices
    BY <1>0, <1>3 DEF Find, At
  <2> QED
    BY <1>3, <2>1, InvoiceTypes, DoneTypes DEF Find, Typed, TypeOK
<1>4. CASE Create(w)
  <2>1. i \in Invoices
    BY <1>0, <1>4 DEF Create, At
  <2>2. work' \in [Workers -> Job] /\ JobsNamed'
    BY <1>4, <2>1, GotoTypes DEF Create, Step
  <2> QED
    BY <1>4, <2>1, <2>2, InvoiceTypes DEF Create, Typed, TypeOK
<1>5. CASE Subscribe(w)
  <2>1. PICK k \in Subscriptions :
          /\ sub' = [sub EXCEPT ![k] =
                        [status |-> "ACTIVE", over |-> FALSE, ref |-> work[w].ref]]
          /\ work' = [work EXCEPT ![w].step = "link", ![w].sub = k]
    BY <1>5 DEF Subscribe
  <2>2. [status |-> "ACTIVE", over |-> FALSE, ref |-> work[w].ref] \in Subscription
    BY DEF Subscription, SubscriptionStatus, Typed, TypeOK, Job
  <2>3. i \in Invoices
    BY <1>0, <1>5 DEF Subscribe, At
  <2>4. work' \in [Workers -> Job]
    <3>1. work[w] \in Job
      BY DEF Typed, TypeOK
    <3>2. [work[w] EXCEPT !.step = "link", !.sub = k] \in Job
      BY <3>1 DEF Job, Step
    <3>3. work' = [work EXCEPT ![w] = [work[w] EXCEPT !.step = "link", !.sub = k]]
      BY <2>1 DEF Typed, TypeOK
    <3> QED
      BY <3>2, <3>3 DEF Typed, TypeOK
  <2>5. \A v \in Workers : v # w => work'[v] = work[v]
    BY <2>1 DEF Typed, TypeOK
  <2>6. work'[w].step = "link" /\ work'[w].inv = i /\ work'[w].sub = k
    BY <2>1 DEF Typed, TypeOK, Job
  <2>7. JobsNamed'
    BY <2>3, <2>5, <2>6 DEF Typed, JobsNamed
  <2>8. sub' \in [Subscriptions -> Subscription]
    BY <2>1, <2>2 DEF Typed, TypeOK
  <2> QED
    BY <1>5, <2>4, <2>7, <2>8 DEF Subscribe, Typed, TypeOK
<1>6. CASE Link(w)
  <2>1. i \in Invoices /\ work[w].sub \in Subscriptions
    BY <1>0, <1>6 DEF Link, At, Typed, JobsNamed
  <2>2. sub' \in [Subscriptions -> Subscription]
    <3>1. [sub[work[w].sub] EXCEPT !.ref = i] \in Subscription
      <4>1. sub[work[w].sub] \in Subscription
        BY <2>1 DEF Typed, TypeOK
      <4> QED
        BY <2>1, <4>1 DEF Subscription
    <3>2. \/ sub' = sub
          \/ sub' = [sub EXCEPT ![work[w].sub] = [sub[work[w].sub] EXCEPT !.ref = i]]
      BY <1>6 DEF Link
    <3> QED
      BY <3>1, <3>2 DEF Typed, TypeOK
  <2>3. work' \in [Workers -> Job] /\ JobsNamed'
    BY <1>6, <2>1, GotoTypes DEF Link, Step
  <2> QED
    BY <1>6, <2>2, <2>3 DEF Link, Typed, TypeOK
<1>7. CASE Apply(w)
  <2>1. i \in Invoices
    BY <1>0, <1>7 DEF Apply, At
  <2>2. ASSUME NEW c \in Credits PROVE [alloc[i][c] EXCEPT !.status = "APPLIED"] \in Allocation
    <3>1. alloc[i][c] \in Allocation
      BY <2>1 DEF Typed, TypeOK
    <3> QED
      BY <3>1 DEF Allocation, AllocationStatus
  <2>3. alloc' \in [Invoices -> [Credits -> Allocation]]
    BY <1>7, <2>1, <2>2 DEF Apply, Typed, TypeOK
  <2>4. work' \in [Workers -> Job] /\ JobsNamed'
    BY <1>7, <2>1, GotoTypes DEF Apply, Step
  <2> QED
    BY <1>7, <2>3, <2>4 DEF Apply, Typed, TypeOK
<1>8. CASE Pay(w)
  <2>1. i \in Invoices
    BY <1>0, <1>8 DEF Pay, At
  <2>2. work' \in [Workers -> Job] /\ JobsNamed'
    BY <1>8, <2>1, GotoTypes, DoneTypes DEF Pay, Conclude, Step
  <2> QED
    BY <1>8, <2>1, <2>2, InvoiceTypes DEF Pay, Typed, TypeOK
<1>9. CASE ReleaseFailed(w)
  <2>1. i \in Invoices
    BY <1>0, <1>9 DEF ReleaseFailed, At
  <2>2. work' \in [Workers -> Job] /\ JobsNamed'
    BY <1>9, <2>1, GotoTypes DEF ReleaseFailed, Step
  <2> QED
    BY <1>9, <2>1, <2>2, ReleaseTypes DEF ReleaseFailed, Typed, TypeOK
<1>10. CASE Fail(w)
  <2>1. i \in Invoices
    BY <1>0, <1>10 DEF Fail, At
  <2>2. work' \in [Workers -> Job] /\ JobsNamed'
    BY <1>10, <2>1, GotoTypes, DoneTypes DEF Fail, Conclude, Step
  <2> QED
    BY <1>10, <2>1, <2>2, InvoiceTypes DEF Fail, Typed, TypeOK, InvoiceStatus
<1>11. CASE Answer(w)
  <2>1. i \in Invoices
    BY <1>0, <1>11 DEF Answer, At
  <2> QED
    BY <1>11, <2>1, DoneTypes DEF Answer, Typed, TypeOK
<1>12. CASE Sweep(w)
  <2>1. i \in Invoices
    BY <1>0, <1>12 DEF Sweep, At
  <2>2. work' \in [Workers -> Job] /\ JobsNamed'
    BY <1>12, <2>1, GotoTypes, DoneTypes DEF Sweep, Step
  <2> QED
    BY <1>12, <2>1, <2>2, ReleaseTypes DEF Sweep, Typed, TypeOK
<1>13. CASE Void(w)
  <2>1. i \in Invoices
    BY <1>0, <1>13 DEF Void, At
  <2> QED
    BY <1>13, <2>1, InvoiceTypes, DoneTypes DEF Void, Typed, TypeOK, InvoiceStatus
<1>14. CASE Revoke(w)
  <2>1. [remaining |-> 0, spendable |-> FALSE, revised |-> TRUE] \in Credit
    BY DEF Credit
  <2>2. credit' \in [Credits -> Credit]
    BY <1>14, <2>1 DEF Revoke, Typed, TypeOK
  <2> QED
    BY <1>14, <2>2, DoneTypes DEF Revoke, Typed, TypeOK
<1>15. CASE Lapse(w)
  <2>1. sub' \in [Subscriptions -> Subscription]
    <3>1. PICK s \in {"PAST_DUE", "UNPAID"} : sub' = [sub EXCEPT ![work[w].sub].status = s]
      BY <1>15 DEF Lapse
    <3>2. work[w].sub \in Subscriptions
      BY <1>15 DEF Lapse, At, Typed, JobsNamed
    <3>3. [sub[work[w].sub] EXCEPT !.status = s] \in Subscription
      BY <3>2 DEF Typed, TypeOK, Subscription, SubscriptionStatus
    <3> QED
      BY <3>1, <3>2, <3>3 DEF Typed, TypeOK
  <2> QED
    BY <1>15, <2>1, DoneTypes DEF Lapse, Typed, TypeOK
<1> QED
  BY <1>1, <1>2, <1>3, <1>4, <1>5, <1>6, <1>7, <1>8, <1>9, <1>10, <1>11, <1>12, <1>13,
     <1>14, <1>15 DEF Continue

\* So does every step that begins something, and those of the world outside.
LEMMA BeginTypes ==
  ASSUME Typed, NEW w \in Workers, NEW i \in Invoices,
         \/ BeginCheckout(w, i) \/ BeginRenewal(w, i) \/ BeginCallback(w, i)
         \/ BeginSweep(w, i) \/ ReleaseStale(w, i)
  PROVE  Typed'
<1>1. CASE BeginCheckout(w, i)
  <2>1. work' \in [Workers -> Job] /\ JobsNamed'
    BY <1>1, StartTypes DEF BeginCheckout, Step
  <2> QED
    BY <1>1, <2>1, InvoiceTypes DEF BeginCheckout, Typed, TypeOK
<1>2. CASE BeginRenewal(w, i)
  <2>1. work' \in [Workers -> Job] /\ JobsNamed'
    BY <1>2, StartTypes DEF BeginRenewal, Step
  <2>2. [state |-> "asked", amount |-> Price] \in Prompt
    BY BillingAssumption DEF Prompt
  <2> QED
    BY <1>2, <2>1, <2>2 DEF BeginRenewal, Typed, TypeOK
<1>3. CASE BeginCallback(w, i)
  <2>1. work' \in [Workers -> Job] /\ JobsNamed'
    BY <1>3, StartTypes, ReadActiveTypes DEF BeginCallback, Step
  <2> QED
    BY <1>3, <2>1 DEF BeginCallback, Typed, TypeOK
<1>4. CASE BeginSweep(w, i)
  <2>1. work' \in [Workers -> Job] /\ JobsNamed'
    BY <1>4, StartTypes DEF BeginSweep, Step
  <2> QED
    BY <1>4, <2>1 DEF BeginSweep, Typed, TypeOK
<1>5. CASE ReleaseStale(w, i)
  BY <1>5, ReleaseTypes, InvoiceTypes
  DEF ReleaseStale, Typed, TypeOK, JobsNamed, InvoiceStatus
<1> QED
  BY <1>1, <1>2, <1>3, <1>4, <1>5

LEMMA OtherTypes ==
  ASSUME Typed,
         \/ \E w \in Workers :
               \/ Crash(w)
               \/ \E c \in Credits : BeginRevoke(w, c)
               \/ \E k \in Subscriptions : BeginLapse(w, k)
         \/ \E i \in Invoices : MemberAnswers(i)
         \/ \E c \in Credits : Revise(c) \/ CreditExpires(c)
         \/ \E k \in Subscriptions : PeriodEnds(k)
  PROVE  Typed'
<1>1. ASSUME NEW w \in Workers, Crash(w) PROVE Typed'
  <2>1. crashes' \in 0..MaxCrashes
    BY <1>1, BillingAssumption DEF Crash, Typed, TypeOK
  <2> QED
    BY <1>1, <2>1, DoneTypes DEF Crash, Typed, TypeOK
<1>2. ASSUME NEW w \in Workers, NEW c \in Credits, BeginRevoke(w, c) PROVE Typed'
  <2>1. [Idle EXCEPT !.step = "revoke", !.crd = c] \in Job
    BY DEF Idle, Job, Step
  <2>2. work' \in [Workers -> Job]
    BY <1>2, <2>1 DEF BeginRevoke, Typed, TypeOK
  <2>3. \A v \in Workers : v # w => work'[v] = work[v]
    BY <1>2 DEF BeginRevoke, Typed, TypeOK
  <2>4. work'[w].step = "revoke" /\ work'[w].crd = c
    BY <1>2 DEF BeginRevoke, Typed, TypeOK, Idle
  <2>5. JobsNamed'
    BY <2>3, <2>4 DEF Typed, JobsNamed
  <2> QED
    BY <1>2, <2>2, <2>5 DEF BeginRevoke, Typed, TypeOK
<1>3. ASSUME NEW w \in Workers, NEW k \in Subscriptions, BeginLapse(w, k) PROVE Typed'
  <2>1. [Idle EXCEPT !.step = "lapse", !.sub = k] \in Job
    BY DEF Idle, Job, Step
  <2>2. work' \in [Workers -> Job]
    BY <1>3, <2>1 DEF BeginLapse, Typed, TypeOK
  <2>3. \A v \in Workers : v # w => work'[v] = work[v]
    BY <1>3 DEF BeginLapse, Typed, TypeOK
  <2>4. work'[w].step = "lapse" /\ work'[w].sub = k
    BY <1>3 DEF BeginLapse, Typed, TypeOK, Idle
  <2>5. JobsNamed'
    BY <2>3, <2>4 DEF Typed, JobsNamed
  <2> QED
    BY <1>3, <2>2, <2>5 DEF BeginLapse, Typed, TypeOK
<1>4. ASSUME NEW i \in Invoices, MemberAnswers(i) PROVE Typed'
  <2>1. PICK a \in {"paid", "declined"} : prompt' = [prompt EXCEPT ![i].state = a]
    BY <1>4 DEF MemberAnswers
  <2>2. [prompt[i] EXCEPT !.state = a] \in Prompt
    BY DEF Typed, TypeOK, Prompt
  <2>3. prompt' \in [Invoices -> Prompt]
    BY <2>1, <2>2 DEF Typed, TypeOK
  <2> QED
    BY <1>4, <2>3 DEF MemberAnswers, Typed, TypeOK, JobsNamed
<1>5. ASSUME NEW c \in Credits, Revise(c) \/ CreditExpires(c) PROVE Typed'
  <2>1. credit[c] \in Credit
    BY DEF Typed, TypeOK
  <2>2. credit' \in [Credits -> Credit]
    <3>1. CASE Revise(c)
      <4>1. PICK n \in Revisions :
              credit' = [credit EXCEPT ![c].remaining = n, ![c].revised = TRUE]
        BY <3>1 DEF Revise
      <4>2. credit' = [credit EXCEPT
                          ![c] = [credit[c] EXCEPT !.remaining = n, !.revised = TRUE]]
        BY <4>1 DEF Typed, TypeOK
      <4>3. [credit[c] EXCEPT !.remaining = n, !.revised = TRUE] \in Credit
        BY <2>1, BillingAssumption DEF Credit
      <4> QED
        BY <4>2, <4>3 DEF Typed, TypeOK
    <3>2. CASE CreditExpires(c)
      <4>1. [credit[c] EXCEPT !.spendable = FALSE] \in Credit
        BY <2>1 DEF Credit
      <4> QED
        BY <3>2, <4>1 DEF CreditExpires, Typed, TypeOK
    <3> QED
      BY <1>5, <3>1, <3>2
  <2> QED
    BY <1>5, <2>2 DEF Revise, CreditExpires, Typed, TypeOK, JobsNamed
<1>6. ASSUME NEW k \in Subscriptions, PeriodEnds(k) PROVE Typed'
  <2>1. [sub[k] EXCEPT !.over = TRUE] \in Subscription
    BY DEF Typed, TypeOK, Subscription
  <2> QED
    BY <1>6, <2>1 DEF PeriodEnds, Typed, TypeOK, JobsNamed
<1> QED
  BY <1>1, <1>2, <1>3, <1>4, <1>5, <1>6

LEMMA StepTypes == Typed /\ [Next]_vars => Typed'
<1> SUFFICES ASSUME Typed, [Next]_vars PROVE Typed'
  OBVIOUS
<1>1. CASE UNCHANGED vars
  BY <1>1 DEF vars, Typed, TypeOK, JobsNamed
<1>2. CASE Next
  BY <1>2, ContinueTypes, BeginTypes, OtherTypes DEF Next
<1> QED
  BY <1>1, <1>2

-----------------------------------------------------------------------------
(* What is spent was paid for.                                             *)

Spent(i) == invoice[i].settled \/ \E c \in Credits : alloc[i][c].status = "APPLIED"

\* What a step must not do to keep the rest of the invariant, and may do only
\* to the job it is part of.
Harmless ==
    /\ \A i \in Invoices : prompt[i].state = "paid" => prompt'[i].state = "paid"
    /\ \A i \in Invoices : Spent(i)' => Spent(i) \/ Earned(i)
    /\ \A i \in Invoices : invoice'[i].status = "none" => invoice[i].status = "none"
    /\ \A i \in Invoices \ Renewals :
          /\ invoice'[i].due = invoice[i].due
          /\ invoice'[i].settled => invoice[i].settled \/ invoice'[i].status # "none"
          /\ prompt[i].state = "none" => prompt'[i].state = "none"
          /\ \A c \in Credits :
                alloc[i][c].status = "none" => alloc'[i][c].status = "none"
    /\ \A w \in Workers :
          work'[w] = work[w] \/
          /\ work'[w].step \in {"subscribe", "link", "apply", "pay"} =>
                work'[w].inv \in Invoices /\ Earned(work'[w].inv)
          /\ work'[w].step \notin {"reserve", "ask"} \/ work'[w].inv \in Renewals
          /\ work'[w].step # "ask"
          /\ work'[w].step = "create" => work'[w].inv \in Renewals
          /\ work'[w].inv \in Invoices \ Renewals => invoice[work'[w].inv].status # "none"

\* Harmless steps keep the invariant.
LEMMA HarmlessKeeps ==
  ASSUME IInv, Harmless
  PROVE  Sound'
<1>1. ASSUME NEW i \in Invoices, Earned(i) PROVE Earned(i)'
  BY <1>1 DEF Harmless, Earned
<1>2. SpentWhenPaid'
  BY <1>1 DEF IInv, Sound, Harmless, SpentWhenPaid, Spent
<1>3. Confirming'
  <2> SUFFICES ASSUME NEW w \in Workers,
                      work'[w].step \in {"subscribe", "link", "apply", "pay"},
                      NEW i, i = work'[w].inv
               PROVE  Earned(i)'
    BY DEF Confirming, Earned
  <2>1. i \in Invoices /\ Earned(i)
    BY DEF IInv, Sound, Typed, JobsNamed, Confirming, Harmless
  <2> QED
    BY <1>1, <2>1
<1>4. \A w \in Workers : Making(w)' => work'[w] = work[w] /\ Making(w)
  BY DEF Making, Harmless
<1>5. MadeAlone'
  <2> SUFFICES ASSUME NEW w \in Workers, Making(w)'
               PROVE  /\ prompt'[work'[w].inv].state = "none"
                      /\ invoice'[work'[w].inv].status # "none"
                      /\ work'[w].step = "reserve" => invoice'[work'[w].inv].due = Price
                      /\ \A v \in Workers : Making(v)' /\ work'[v].inv = work'[w].inv => v = w
    BY DEF MadeAlone
  <2>1. work'[w] = work[w] /\ Making(w) /\ work[w].inv \in Invoices \ Renewals
    BY <1>4 DEF IInv, Typed, JobsNamed, Making
  <2> QED
    BY <1>4, <2>1 DEF IInv, Sound, MadeAlone, Harmless
<1>6. Unmade'
  <2> SUFFICES ASSUME NEW i \in Invoices \ Renewals, invoice'[i].status = "none"
               PROVE  /\ prompt'[i].state = "none"
                      /\ ~invoice'[i].settled
                      /\ \A c \in Credits : alloc'[i][c].status = "none"
                      /\ \A w \in Workers : work'[w].inv # i
    BY DEF Unmade
  <2>1. invoice[i].status = "none"
    BY DEF Harmless
  <2> QED
    BY <2>1 DEF IInv, Sound, Unmade, Harmless
<1>7. Kinds'
  BY DEF IInv, Sound, Kinds, Harmless
<1> QED
  BY <1>2, <1>3, <1>5, <1>6, <1>7 DEF Sound

\* A job that is done, or goes on to a step that confirms nothing, is harmless.
HarmlessJob(w) ==
    /\ \A v \in Workers : v # w => work'[v] = work[v]
    /\ work'[w].step \in {"subscribe", "link", "apply", "pay"} =>
          work'[w].inv \in Invoices /\ Earned(work'[w].inv)
    /\ work'[w].step \notin {"reserve", "ask"} \/ work'[w].inv \in Renewals
    /\ work'[w].step # "ask"
    /\ work'[w].step = "create" => work'[w].inv \in Renewals
    /\ work'[w].inv \in Invoices \ Renewals => invoice[work'[w].inv].status # "none"

\* An invoice some process works on is not unmade.
LEMMA WorkedOn ==
  ASSUME IInv, NEW w \in Workers, work[w].inv \in Invoices \ Renewals
  PROVE  invoice[work[w].inv].status # "none"
  BY DEF IInv, Sound, Unmade

LEMMA DoneHarmless ==
  ASSUME IInv, NEW w \in Workers, Done(w)
  PROVE  HarmlessJob(w)
  BY BillingAssumption DEF Done, Idle, HarmlessJob, IInv, Typed, TypeOK

LEMMA GotoHarmless ==
  ASSUME IInv, NEW w \in Workers, work[w].inv \in Invoices
  PROVE  /\ \A s \in {"find", "release", "fail", "answer", "void"} :
               Goto(w, s) => HarmlessJob(w)
         /\ \A s \in {"link", "apply", "pay"} :
               Goto(w, s) /\ Earned(work[w].inv) => HarmlessJob(w)
         /\ Goto(w, "reserve") /\ work[w].inv \in Renewals => HarmlessJob(w)
<1>1. ASSUME NEW s, Goto(w, s)
      PROVE  /\ work'[w].step = s /\ work'[w].inv = work[w].inv
             /\ \A v \in Workers : v # w => work'[v] = work[v]
  BY <1>1 DEF Goto, IInv, Typed, TypeOK, Job
<1>2. work[w].inv \in Renewals \/ invoice[work[w].inv].status # "none"
  BY WorkedOn
<1>3. ASSUME NEW s \in {"find", "release", "fail", "answer", "void"}, Goto(w, s)
      PROVE  HarmlessJob(w)
  BY <1>1, <1>2, <1>3 DEF HarmlessJob
<1>4. ASSUME NEW s \in {"link", "apply", "pay"}, Goto(w, s), Earned(work[w].inv)
      PROVE  HarmlessJob(w)
  <2>1. work'[w].step = s /\ work'[w].inv = work[w].inv
    BY <1>1, <1>4
  <2>2. Earned(work'[w].inv)
    BY <1>4, <2>1
  <2> QED
    BY <1>1, <1>2, <1>4, <2>1, <2>2 DEF HarmlessJob
<1>5. ASSUME Goto(w, "reserve"), work[w].inv \in Renewals
      PROVE  HarmlessJob(w)
  BY <1>1, <1>5 DEF HarmlessJob
<1> QED
  BY <1>3, <1>4, <1>5

LEMMA StartHarmless ==
  ASSUME IInv, NEW w \in Workers, NEW i \in Invoices, NEW s \in Step, Start(w, s, i),
         s \notin {"reserve", "ask", "subscribe", "link", "pay"},
         s = "create" => i \in Renewals,
         s = "apply" => Earned(i),
         i \in Renewals \/ invoice[i].status # "none"
  PROVE  HarmlessJob(w)
<1>1. work'[w].step = s /\ work'[w].inv = i
  BY DEF Start, Idle, IInv, Typed, TypeOK
<1>2. \A v \in Workers : v # w => work'[v] = work[v]
  BY DEF Start, IInv, Typed, TypeOK
<1> QED
  BY <1>1, <1>2 DEF HarmlessJob

\* Steps that touch neither money nor invoices are harmless with their job.
LEMMA QuietHarmless ==
  ASSUME IInv, NEW w \in Workers, HarmlessJob(w), UNCHANGED <<alloc, invoice, prompt>>
  PROVE  Harmless
  BY DEF HarmlessJob, Harmless, Spent

\* A release is.
LEMMA ReleaseHarmless ==
  ASSUME IInv, NEW w \in Workers, NEW i \in Invoices, HarmlessJob(w), Release(i),
         UNCHANGED <<invoice, prompt>>
  PROVE  Harmless
<1>1. \A j \in Invoices, c \in Credits :
         \/ alloc'[j][c] = alloc[j][c]
         \/ alloc[j][c].status = "RESERVED" /\ alloc'[j][c].status = "RELEASED"
  BY ReleaseTypes DEF IInv
<1> QED
  BY <1>1 DEF HarmlessJob, Harmless, Spent

\* Another status of an invoice that exists is.
LEMMA StatusHarmless ==
  ASSUME IInv, NEW w \in Workers, NEW i \in Invoices, HarmlessJob(w),
         NEW s, s # "none", invoice' = [invoice EXCEPT ![i].status = s],
         invoice[i].status # "none" \/ i \in Renewals,
         UNCHANGED <<alloc, prompt>>
  PROVE  Harmless
<1>1. \A j \in Invoices :
        /\ invoice'[j].due = invoice[j].due /\ invoice'[j].settled = invoice[j].settled
        /\ invoice'[j].status = "none" => invoice[j].status = "none"
  BY DEF IInv, Typed, TypeOK, Invoice
<1> QED
  BY <1>1 DEF HarmlessJob, Harmless, Spent

-----------------------------------------------------------------------------
(* The steps one by one.                                                   *)

\* What a step on an invoice may count on.
LEMMA AtStep ==
  ASSUME IInv, NEW w \in Workers, work[w].step \notin {"idle", "revoke", "lapse"}
  PROVE  /\ work[w].inv \in Invoices
         /\ work[w].inv \in Renewals \/ invoice[work[w].inv].status # "none"
         /\ work[w].step \in {"subscribe", "link", "apply", "pay"} => Earned(work[w].inv)
<1>1. work[w].inv \in Invoices
  BY DEF IInv, Typed, JobsNamed
<1> QED
  BY <1>1, WorkedOn DEF IInv, Sound, Confirming

\* A checkout with nothing to pay is confirmed, one without a prompt given up.
LEMMA AskSound ==
  ASSUME IInv, NEW w \in Workers, Ask(w)
  PROVE  Sound'
<1> DEFINE i == work[w].inv
<1>1. i \in Invoices \ Renewals /\ invoice[i].status # "none" /\ prompt[i].state = "none"
      /\ \A v \in Workers : Making(v) /\ work[v].inv = i => v = w
  BY AtStep DEF Ask, At, IInv, Sound, Kinds, MadeAlone, Making
<1>2. CASE invoice[i].due = 0 /\ ReadActive(w, i) /\ UNCHANGED prompt
  <2>1. HarmlessJob(w)
    BY <1>1, <1>2, ReadActiveTypes DEF HarmlessJob, Earned, IInv
  <2> QED
    BY <1>2, <2>1, QuietHarmless, HarmlessKeeps DEF Ask
<1>3. CASE invoice[i].due > 0 /\ Goto(w, "release") /\ UNCHANGED prompt
  <2>1. HarmlessJob(w)
    BY <1>1, <1>3, GotoHarmless
  <2> QED
    BY <1>3, <2>1, QuietHarmless, HarmlessKeeps DEF Ask
<1>4. CASE /\ prompt' = [prompt EXCEPT ![i] = [state |-> "asked", amount |-> invoice[i].due]]
           /\ Goto(w, "find")
  <2>1. HarmlessJob(w)
    BY <1>1, <1>4, GotoHarmless
  <2>2. work'[w].step = "find" /\ work'[w].inv = i
    BY <1>4 DEF Goto, IInv, Typed, TypeOK, Job
  <2>3. \A j \in Invoices : j # i => prompt'[j] = prompt[j]
    BY <1>4 DEF IInv, Typed, TypeOK
  <2>4. \A j \in Invoices : prompt[j].state = "paid" => prompt'[j].state = "paid"
    BY <1>1, <2>3
  <2>5. UNCHANGED <<invoice, alloc>>
    BY DEF Ask
  <2>6. ASSUME NEW j \in Invoices, Earned(j) PROVE Earned(j)'
    BY <2>4, <2>5, <2>6 DEF Earned
  <2>7. SpentWhenPaid'
    BY <2>5, <2>6 DEF IInv, Sound, SpentWhenPaid
  <2>8. Confirming'
    <3> SUFFICES ASSUME NEW v \in Workers,
                        work'[v].step \in {"subscribe", "link", "apply", "pay"},
                        NEW j, j = work'[v].inv
                 PROVE  Earned(j)'
      BY DEF Confirming, Earned
    <3>1. v # w /\ work'[v] = work[v]
      BY <2>1, <2>2 DEF HarmlessJob
    <3> QED
      BY <2>6, <3>1, AtStep
  <2>9. MadeAlone'
    <3> SUFFICES ASSUME NEW v \in Workers, Making(v)'
                 PROVE  /\ prompt'[work'[v].inv].state = "none"
                        /\ invoice'[work'[v].inv].status # "none"
                        /\ work'[v].step = "reserve" => invoice'[work'[v].inv].due = Price
                        /\ \A u \in Workers : Making(u)' /\ work'[u].inv = work'[v].inv => u = v
      BY DEF MadeAlone
    <3>1. v # w /\ work'[v] = work[v] /\ Making(v)
      BY <2>1, <2>2 DEF HarmlessJob, Making
    <3>2. work[v].inv # i /\ work[v].inv \in Invoices
      BY <1>1, <3>1 DEF Making, IInv, Typed, JobsNamed
    <3>3. \A u \in Workers : Making(u)' => work'[u] = work[u] /\ Making(u)
      BY <2>1, <2>2 DEF HarmlessJob, Making
    <3> QED
      BY <2>3, <2>5, <3>1, <3>2, <3>3 DEF IInv, Sound, MadeAlone
  <2>10. Unmade'
    BY <1>1, <2>1, <2>2, <2>3, <2>5 DEF HarmlessJob, IInv, Sound, Unmade
  <2>11. Kinds'
    BY <2>1, <2>2 DEF HarmlessJob, IInv, Sound, Kinds
  <2> QED
    BY <2>7, <2>8, <2>9, <2>10, <2>11 DEF Sound
<1> QED
  BY <1>2, <1>3, <1>4 DEF Ask

\* The other steps of a process are harmless.
LEMMA ContinueSound ==
  ASSUME IInv, NEW w \in Workers, Continue(w), ~Reserve(w)
  PROVE  Sound'
<1> DEFINE i == work[w].inv
<1>1. CASE Ask(w)
  BY <1>1, AskSound
<1>2. CASE Find(w)
  <2>1. i \in Invoices
    BY <1>2, AtStep DEF Find, At
  <2>2. HarmlessJob(w)
    BY <1>2, DoneHarmless DEF Find
  <2>3. \A j \in Invoices :
          /\ invoice'[j].due = invoice[j].due /\ invoice'[j].settled = invoice[j].settled
          /\ invoice'[j].status = invoice[j].status
    BY <1>2, <2>1 DEF Find, IInv, Typed, TypeOK, Invoice
  <2>4. Harmless
    BY <1>2, <2>2, <2>3 DEF Find, HarmlessJob, Harmless, Spent
  <2> QED
    BY <2>4, HarmlessKeeps
<1>3. CASE Create(w)
  <2>1. i \in Invoices /\ i \in Renewals
    BY <1>3, AtStep DEF Create, At, IInv, Sound, Kinds
  <2>2. HarmlessJob(w)
    BY <1>3, <2>1, GotoHarmless DEF Create
  <2>3. /\ \A j \in Invoices : j # i => invoice'[j] = invoice[j]
        /\ invoice'[i].status = "PENDING" /\ invoice'[i].settled = FALSE
    BY <1>3, <2>1 DEF Create, NewInvoice, IInv, Typed, TypeOK
  <2>4. Harmless
    BY <1>3, <2>1, <2>2, <2>3 DEF Create, HarmlessJob, Harmless, Spent
  <2> QED
    BY <2>4, HarmlessKeeps
<1>4. CASE Subscribe(w)
  <2>1. i \in Invoices /\ Earned(i)
    BY <1>4, AtStep DEF Subscribe, At
  <2>2. PICK k \in Subscriptions : work' = [work EXCEPT ![w].step = "link", ![w].sub = k]
    BY <1>4 DEF Subscribe
  <2>3. work'[w].step = "link" /\ work'[w].inv = i
    BY <2>2 DEF IInv, Typed, TypeOK, Job
  <2>4. \A v \in Workers : v # w => work'[v] = work[v]
    BY <2>2 DEF IInv, Typed, TypeOK
  <2>5. HarmlessJob(w)
    BY <2>1, <2>3, <2>4, WorkedOn DEF HarmlessJob
  <2> QED
    BY <1>4, <2>5, QuietHarmless, HarmlessKeeps DEF Subscribe
<1>5. CASE Link(w)
  <2>1. HarmlessJob(w)
    BY <1>5, AtStep, GotoHarmless DEF Link, At
  <2> QED
    BY <1>5, <2>1, QuietHarmless, HarmlessKeeps DEF Link
<1>6. CASE Apply(w)
  <2>1. i \in Invoices /\ Earned(i)
    BY <1>6, AtStep DEF Apply, At
  <2>2. HarmlessJob(w)
    BY <1>6, <2>1, GotoHarmless DEF Apply
  <2>3. \A j \in Invoices, c \in Credits :
          /\ j # i => alloc'[j][c] = alloc[j][c]
          /\ alloc[j][c].status = "none" => alloc'[j][c].status = "none"
    BY <1>6, <2>1 DEF Apply, Reserved, IInv, Typed, TypeOK, Allocation
  <2>4. Harmless
    BY <1>6, <2>1, <2>2, <2>3 DEF Apply, HarmlessJob, Harmless, Spent
  <2> QED
    BY <2>4, HarmlessKeeps
<1>7. CASE Pay(w)
  <2>1. i \in Invoices /\ Earned(i)
    BY <1>7, AtStep DEF Pay, At
  <2>2. HarmlessJob(w)
    BY <1>7, <2>1, GotoHarmless, DoneHarmless DEF Pay, Conclude
  <2>3. /\ \A j \in Invoices : j # i => invoice'[j] = invoice[j]
        /\ invoice'[i].status = "PAID" /\ invoice'[i].due = invoice[i].due
    BY <1>7, <2>1 DEF Pay, IInv, Typed, TypeOK, Invoice
  <2>4. Harmless
    BY <1>7, <2>1, <2>2, <2>3 DEF Pay, HarmlessJob, Harmless, Spent
  <2> QED
    BY <2>4, HarmlessKeeps
<1>8. CASE ReleaseFailed(w)
  <2>1. HarmlessJob(w)
    BY <1>8, AtStep, GotoHarmless DEF ReleaseFailed, At
  <2> QED
    BY <1>8, <2>1, AtStep, ReleaseHarmless, HarmlessKeeps DEF ReleaseFailed, At
<1>9. CASE Fail(w)
  <2>1. i \in Invoices /\ (invoice[i].status # "none" \/ i \in Renewals)
    BY <1>9, AtStep DEF Fail, At
  <2>2. HarmlessJob(w)
    BY <1>9, <2>1, GotoHarmless, DoneHarmless DEF Fail, Conclude
  <2> QED
    BY <1>9, <2>1, <2>2, StatusHarmless, HarmlessKeeps DEF Fail
<1>10. CASE Answer(w)
  BY <1>10, DoneHarmless, QuietHarmless, HarmlessKeeps DEF Answer
<1>11. CASE Sweep(w)
  <2>1. i \in Invoices
    BY <1>11, AtStep DEF Sweep, At
  <2>2. HarmlessJob(w)
    BY <1>11, <2>1, GotoHarmless, DoneHarmless DEF Sweep
  <2> QED
    BY <1>11, <2>1, <2>2, ReleaseHarmless, HarmlessKeeps DEF Sweep
<1>12. CASE Void(w)
  <2>1. i \in Invoices /\ (invoice[i].status # "none" \/ i \in Renewals)
    BY <1>12, AtStep DEF Void, At
  <2>2. HarmlessJob(w)
    BY <1>12, DoneHarmless DEF Void
  <2> QED
    BY <1>12, <2>1, <2>2, StatusHarmless, HarmlessKeeps DEF Void
<1>13. CASE Revoke(w) \/ Lapse(w)
  BY <1>13, DoneHarmless, QuietHarmless, HarmlessKeeps DEF Revoke, Lapse
<1> QED
  BY <1>1, <1>2, <1>3, <1>4, <1>5, <1>6, <1>7, <1>8, <1>9, <1>10, <1>11, <1>12, <1>13
  DEF Continue

\* Credits are reserved before anything was asked or spent.
LEMMA ReserveSound ==
  ASSUME IInv, NEW w \in Workers, Reserve(w)
  PROVE  Sound'
<1>1. PICK i \in Invoices : i = work[w].inv
  BY AtStep DEF Reserve, At
<1>2. work[w].step = "reserve"
  BY DEF Reserve, At
<1>3. PICK take \in [Credits -> 0..Price], total \in 0..Price :
        /\ alloc' = [alloc EXCEPT ![i] =
                       [c \in Credits |->
                           IF take[c] > 0
                           THEN [amount |-> take[c], status |-> "RESERVED"]
                           ELSE @[c]]]
        /\ invoice' = [invoice EXCEPT ![i].due = Price - total]
        /\ IF i \in Renewals THEN Done(w) ELSE Goto(w, "ask")
  BY <1>1 DEF Reserve
<1>4. /\ \A j \in Invoices :
            /\ invoice'[j].status = invoice[j].status
            /\ invoice'[j].settled = invoice[j].settled
            /\ j # i => invoice'[j].due = invoice[j].due
      /\ \A j \in Invoices, c \in Credits :
            /\ j # i => alloc'[j][c] = alloc[j][c]
            /\ alloc'[j][c].status = "APPLIED" => alloc[j][c].status = "APPLIED"
      /\ UNCHANGED prompt
  <2>1. ASSUME NEW j \in Invoices
        PROVE  /\ invoice'[j].status = invoice[j].status
               /\ invoice'[j].settled = invoice[j].settled
               /\ j # i => invoice'[j].due = invoice[j].due
    BY <1>3 DEF IInv, Typed, TypeOK, Invoice
  <2>2. ASSUME NEW j \in Invoices, NEW c \in Credits
        PROVE  /\ j # i => alloc'[j][c] = alloc[j][c]
               /\ alloc'[j][c].status = "APPLIED" => alloc[j][c].status = "APPLIED"
    BY <1>3 DEF IInv, Typed, TypeOK
  <2> QED
    BY <2>1, <2>2 DEF Reserve
<1>5. \A v \in Workers : v # w => work'[v] = work[v]
  BY <1>3 DEF Goto, Done, IInv, Typed, TypeOK
<1>6. CASE i \in Renewals
  <2>1. HarmlessJob(w)
    BY <1>3, <1>6, DoneHarmless
  <2>2. Harmless
    BY <1>4, <1>6, <2>1 DEF HarmlessJob, Harmless, Spent
  <2> QED
    BY <2>2, HarmlessKeeps
<1>7. CASE i \notin Renewals
  <2>1. work'[w].step = "ask" /\ work'[w].inv = i
    BY <1>1, <1>3, <1>7 DEF Goto, IInv, Typed, TypeOK, Job
  <2>2. Making(w)
    BY <1>1, <1>2, <1>7 DEF Making
  <2>3. /\ prompt[i].state = "none" /\ invoice[i].status # "none"
        /\ invoice[i].due = Price
        /\ \A v \in Workers : Making(v) /\ work[v].inv = i => v = w
    BY <1>1, <1>2, <2>2 DEF IInv, Sound, MadeAlone
  <2>4. ~Earned(i)
    BY <2>3, BillingAssumption DEF Earned
  <2>5. \A j \in Invoices : Earned(j) => j # i /\ Earned(j)'
    BY <1>4, <2>4 DEF Earned
  <2>6. SpentWhenPaid'
    BY <1>4, <2>5 DEF IInv, Sound, SpentWhenPaid
  <2>7. Confirming'
    <3> SUFFICES ASSUME NEW v \in Workers,
                        work'[v].step \in {"subscribe", "link", "apply", "pay"},
                        NEW j, j = work'[v].inv
                 PROVE  Earned(j)'
      BY DEF Confirming, Earned
    <3>1. v # w /\ work'[v] = work[v]
      BY <1>5, <2>1
    <3> QED
      BY <2>5, <3>1, AtStep
  <2>8. \A v \in Workers : Making(v)' =>
           Making(v) /\ work'[v].inv = work[v].inv /\ (v # w => work'[v] = work[v])
    BY <1>1, <1>5, <2>1, <2>2 DEF Making
  <2>9. MadeAlone'
    <3> SUFFICES ASSUME NEW v \in Workers, Making(v)'
                 PROVE  /\ prompt'[work'[v].inv].state = "none"
                        /\ invoice'[work'[v].inv].status # "none"
                        /\ work'[v].step = "reserve" => invoice'[work'[v].inv].due = Price
                        /\ \A u \in Workers : Making(u)' /\ work'[u].inv = work'[v].inv => u = v
      BY DEF MadeAlone
    <3>1. Making(v) /\ work'[v].inv = work[v].inv /\ work[v].inv \in Invoices
      BY <2>8 DEF Making, IInv, Typed, JobsNamed
    <3>2. CASE v = w
      BY <1>1, <1>4, <2>1, <2>3, <2>8, <3>2
    <3>3. CASE v # w
      <4>1. work'[v] = work[v] /\ work[v].inv # i
        BY <2>3, <2>8, <3>1, <3>3
      <4> QED
        BY <1>4, <2>8, <3>1, <4>1 DEF IInv, Sound, MadeAlone
    <3> QED
      BY <3>2, <3>3
  <2>10. Unmade'
    <3> SUFFICES ASSUME NEW j \in Invoices \ Renewals, invoice'[j].status = "none"
                 PROVE  /\ prompt'[j].state = "none"
                        /\ ~invoice'[j].settled
                        /\ \A c \in Credits : alloc'[j][c].status = "none"
                        /\ \A v \in Workers : work'[v].inv # j
      BY DEF Unmade
    <3>1. invoice[j].status = "none" /\ j # i
      BY <1>4, <2>3
    <3>2. \A v \in Workers : work'[v].inv # j
      BY <1>5, <2>1, <3>1 DEF IInv, Sound, Unmade
    <3> QED
      BY <1>4, <3>1, <3>2 DEF IInv, Sound, Unmade
  <2>11. Kinds'
    BY <1>5, <1>7, <2>1 DEF IInv, Sound, Kinds
  <2> QED
    BY <2>6, <2>7, <2>9, <2>10, <2>11 DEF Sound
<1> QED
  BY <1>6, <1>7

\* A checkout begins alone with its invoice.
LEMMA CheckoutSound ==
  ASSUME IInv, NEW w \in Workers, NEW i \in Invoices, BeginCheckout(w, i)
  PROVE  Sound'
<1>1. i \notin Renewals /\ invoice[i].status = "none" /\ UNCHANGED <<alloc, prompt>>
  BY DEF BeginCheckout
<1>2. /\ prompt[i].state = "none" /\ ~invoice[i].settled
      /\ \A c \in Credits : alloc[i][c].status = "none"
      /\ \A v \in Workers : work[v].inv # i
  BY <1>1 DEF IInv, Sound, Unmade
<1>3. work'[w].step = "reserve" /\ work'[w].inv = i
      /\ \A v \in Workers : v # w => work'[v] = work[v]
  BY DEF BeginCheckout, Start, Idle, IInv, Typed, TypeOK
<1>4. /\ \A j \in Invoices : j # i => invoice'[j] = invoice[j]
      /\ invoice'[i].status = "PENDING" /\ invoice'[i].due = Price /\ ~invoice'[i].settled
  BY DEF BeginCheckout, NewInvoice, IInv, Typed, TypeOK
<1>5. \A j \in Invoices : j # i /\ Earned(j) => Earned(j)'
  BY <1>1, <1>4 DEF Earned
<1>6. SpentWhenPaid'
  BY <1>1, <1>2, <1>4, <1>5 DEF IInv, Sound, SpentWhenPaid
<1>7. Confirming'
  <2> SUFFICES ASSUME NEW v \in Workers,
                      work'[v].step \in {"subscribe", "link", "apply", "pay"},
                      NEW j, j = work'[v].inv
               PROVE  Earned(j)'
    BY DEF Confirming, Earned
  <2>1. v # w /\ work'[v] = work[v] /\ j # i
    BY <1>2, <1>3
  <2> QED
    BY <1>5, <2>1, AtStep
<1>8. MadeAlone'
  <2> SUFFICES ASSUME NEW v \in Workers, Making(v)'
               PROVE  /\ prompt'[work'[v].inv].state = "none"
                      /\ invoice'[work'[v].inv].status # "none"
                      /\ work'[v].step = "reserve" => invoice'[work'[v].inv].due = Price
                      /\ \A u \in Workers : Making(u)' /\ work'[u].inv = work'[v].inv => u = v
    BY DEF MadeAlone
  <2>1. CASE v = w
    BY <1>1, <1>2, <1>3, <1>4, <2>1
  <2>2. CASE v # w
    <3>1. work'[v] = work[v] /\ Making(v) /\ work[v].inv # i /\ work[v].inv \in Invoices
      BY <1>2, <1>3, <2>2 DEF Making, IInv, Typed, JobsNamed
    <3>2. \A u \in Workers : u # w /\ Making(u)' => work'[u] = work[u] /\ Making(u)
      BY <1>3 DEF Making
    <3> QED
      BY <1>1, <1>3, <1>4, <3>1, <3>2 DEF IInv, Sound, MadeAlone
  <2> QED
    BY <2>1, <2>2
<1>9. Unmade'
  BY <1>1, <1>3, <1>4 DEF IInv, Sound, Unmade
<1>10. Kinds'
  BY <1>3 DEF IInv, Sound, Kinds
<1> QED
  BY <1>6, <1>7, <1>8, <1>9, <1>10 DEF Sound

\* A renewal asks, a callback answers and a sweep releases without harm.
LEMMA BeginSound ==
  ASSUME IInv, NEW w \in Workers, NEW i \in Invoices,
         \/ BeginCheckout(w, i) \/ BeginRenewal(w, i) \/ BeginCallback(w, i)
         \/ BeginSweep(w, i) \/ ReleaseStale(w, i)
  PROVE  Sound'
<1>0. "create" \in Step /\ "answer" \in Step /\ "release" \in Step /\ "apply" \in Step
      /\ "sweep" \in Step
  BY DEF Step
<1>1. CASE BeginCheckout(w, i)
  BY <1>1, CheckoutSound
<1>2. CASE BeginRenewal(w, i)
  <2>1. HarmlessJob(w)
    BY <1>0, <1>2, StartHarmless DEF BeginRenewal
  <2>2. /\ \A j \in Invoices : j # i => prompt'[j] = prompt[j]
        /\ prompt[i].state = "none"
    BY <1>2 DEF BeginRenewal, IInv, Typed, TypeOK
  <2>3. Harmless
    BY <1>2, <2>1, <2>2 DEF BeginRenewal, HarmlessJob, Harmless, Spent
  <2> QED
    BY <2>3, HarmlessKeeps
<1>3. CASE BeginCallback(w, i)
  <2>1. prompt[i].state # "none"
    BY <1>3 DEF BeginCallback
  <2>2. i \in Renewals \/ invoice[i].status # "none"
    BY <2>1 DEF IInv, Sound, Unmade
  <2>3. ~Declined(i) => Earned(i)
    BY <1>3 DEF BeginCallback, Declined, Earned
  <2>4. ASSUME Start(w, "answer", i) \/ Start(w, "release", i) PROVE HarmlessJob(w)
    BY <1>0, <2>2, <2>4, StartHarmless
  <2>5. ASSUME Earned(i), Start(w, "apply", i) PROVE HarmlessJob(w)
    BY <1>0, <2>2, <2>5, StartHarmless
  <2>6. ASSUME Earned(i), ReadActive(w, i) PROVE HarmlessJob(w)
    BY <2>2, <2>6, ReadActiveTypes DEF HarmlessJob, IInv
  <2>7. HarmlessJob(w)
    BY <1>3, <2>3, <2>4, <2>5, <2>6 DEF BeginCallback
  <2> QED
    BY <1>3, <2>7, QuietHarmless, HarmlessKeeps DEF BeginCallback
<1>4. CASE BeginSweep(w, i)
  <2>1. invoice[i].status # "none"
    BY <1>4 DEF BeginSweep, MayBeStale
  <2>2. HarmlessJob(w)
    BY <1>0, <1>4, <2>1, StartHarmless DEF BeginSweep
  <2> QED
    BY <1>4, <2>2, QuietHarmless, HarmlessKeeps DEF BeginSweep
<1>5. CASE ReleaseStale(w, i)
  <2>1. invoice[i].status = "PENDING" /\ UNCHANGED <<prompt, work>>
    BY <1>5 DEF ReleaseStale, MayBeStale
  <2>2. \A j \in Invoices, c \in Credits :
           \/ alloc'[j][c] = alloc[j][c]
           \/ alloc[j][c].status = "RESERVED" /\ alloc'[j][c].status = "RELEASED"
    BY <1>5, ReleaseTypes DEF ReleaseStale, IInv
  <2>3. \A j \in Invoices :
          /\ invoice'[j].due = invoice[j].due /\ invoice'[j].settled = invoice[j].settled
          /\ invoice'[j].status = "none" => invoice[j].status = "none"
    BY <1>5 DEF ReleaseStale, IInv, Typed, TypeOK, Invoice
  <2>4. Harmless
    BY <2>1, <2>2, <2>3 DEF Harmless, Spent
  <2> QED
    BY <2>4, HarmlessKeeps
<1> QED
  BY <1>1, <1>2, <1>3, <1>4, <1>5

\* So are a crash, staff, the member and time.
LEMMA OtherSound ==
  ASSUME IInv,
         \/ \E w \in Workers :
               \/ Crash(w)
               \/ \E c \in Credits : BeginRevoke(w, c)
               \/ \E k \in Subscriptions : BeginLapse(w, k)
         \/ \E i \in Invoices : MemberAnswers(i)
         \/ \E c \in Credits : Revise(c) \/ CreditExpires(c)
         \/ \E k \in Subscriptions : PeriodEnds(k)
  PROVE  Sound'
<1>1. ASSUME NEW w \in Workers, Crash(w) PROVE Sound'
  BY <1>1, DoneHarmless, QuietHarmless, HarmlessKeeps DEF Crash
<1>2. ASSUME NEW w \in Workers, NEW c \in Credits, BeginRevoke(w, c) PROVE Sound'
  <2>1. HarmlessJob(w)
    BY <1>2, BillingAssumption DEF BeginRevoke, Idle, HarmlessJob, IInv, Typed, TypeOK
  <2> QED
    BY <1>2, <2>1, QuietHarmless, HarmlessKeeps DEF BeginRevoke
<1>3. ASSUME NEW w \in Workers, NEW k \in Subscriptions, BeginLapse(w, k) PROVE Sound'
  <2>1. HarmlessJob(w)
    BY <1>3, BillingAssumption DEF BeginLapse, Idle, HarmlessJob, IInv, Typed, TypeOK
  <2> QED
    BY <1>3, <2>1, QuietHarmless, HarmlessKeeps DEF BeginLapse
<1>4. ASSUME NEW i \in Invoices, MemberAnswers(i) PROVE Sound'
  <2>1. /\ \A j \in Invoices : j # i => prompt'[j] = prompt[j]
        /\ prompt[i].state = "asked"
        /\ UNCHANGED <<alloc, invoice, work>>
    BY <1>4 DEF MemberAnswers, IInv, Typed, TypeOK
  <2>2. Harmless
    BY <2>1 DEF Harmless, Spent
  <2> QED
    BY <2>2, HarmlessKeeps
<1>5. ASSUME UNCHANGED <<alloc, invoice, prompt, work>> PROVE Sound'
  <2>1. Harmless
    BY <1>5 DEF Harmless, Spent
  <2> QED
    BY <2>1, HarmlessKeeps
<1> QED
  BY <1>1, <1>2, <1>3, <1>4, <1>5 DEF Revise, CreditExpires, PeriodEnds

LEMMA StepInv == IInv /\ [Next]_vars => IInv'
<1> SUFFICES ASSUME IInv, [Next]_vars PROVE IInv'
  OBVIOUS
<1>1. Typed'
  BY StepTypes DEF IInv
<1>2. Sound'
  <2>1. CASE UNCHANGED vars
    BY <2>1 DEF vars, IInv, Sound, SpentWhenPaid, Earned, Confirming, MadeAlone, Making,
                Unmade, Kinds
  <2>2. CASE Next
    BY <2>2, ReserveSound, ContinueSound, BeginSound, OtherSound DEF Next
  <2> QED
    BY <2>1, <2>2
<1> QED
  BY <1>1, <1>2 DEF IInv

-----------------------------------------------------------------------------
\* The invariant holds of every behaviour.
THEOREM Invariance == Spec => []IInv
  BY InitInv, StepInv, PTL DEF Spec

\* Every row keeps its type: no credit goes below nothing, and no discount
\* makes an invoice ask for less than nothing.
THEOREM BillingTypeCorrect == Spec => []TypeOK
<1>1. IInv => TypeOK
  BY DEF IInv, Typed
<1> QED
  BY <1>1, Invariance, PTL

\* However callbacks, sweeps, crashes and staff cross, a credit is spent and an
\* invoice settled only when the member paid the rest or there was none.
THEOREM SpentOnlyWhenPaid == Spec => []SpentWhenPaid
<1>1. IInv => SpentWhenPaid
  BY DEF IInv, Sound
<1> QED
  BY <1>1, Invariance, PTL
-----------------------------------------------------------------------------
(* Credits are conserved.  What an allocation holds is counted unit by     *)
(* unit, so a step that changes one invoice's allocations changes the      *)
(* count by what that invoice holds.                                       *)

Holding == {"RESERVED", "APPLIED"}
Kept(a, i, c) == IF a[i][c].status \in Holding THEN a[i][c].amount ELSE 0

\* Who creates an invoice or takes credits for it is alone with it, and it has
\* no allocation yet; a renewal that was never asked for has none either.
Taking(w) == work[w].step \in {"create", "reserve"}
Unspoken(i) == \A c \in Credits : alloc[i][c].status = "none"
TakenOnce ==
    /\ \A i \in Renewals :
          prompt[i].state = "none" =>
              Unspoken(i) /\ \A w \in Workers : Taking(w) => work[w].inv # i
    /\ \A w \in Workers :
          Taking(w) =>
              /\ Unspoken(work[w].inv)
              /\ \A v \in Workers : Taking(v) /\ work[v].inv = work[w].inv => v = w

Conserved ==
    \A c \in Credits :
        /\ IsFiniteSet(Held(alloc, c))
        /\ ~credit[c].revised =>
              credit[c].remaining + Cardinality(Held(alloc, c)) = Grant[c]

\* A block of n units is n units.
LEMMA BlockUnits ==
  ASSUME NEW i, NEW n \in Nat
  PROVE  IsFiniteSet({i} \X (1..n)) /\ Cardinality({i} \X (1..n)) = n
<1>1. IsFiniteSet({i}) /\ Cardinality({i}) = 1
  BY FS_Singleton
<1>2. n \in Int /\ 1 \in Int
  OBVIOUS
<1>3. IsFiniteSet(1..n) /\ Cardinality(1..n) = IF 1 > n THEN 0 ELSE n - 1 + 1
  BY <1>2, FS_Interval
<1>4. Cardinality(1..n) = n
  BY <1>3
<1>5. /\ IsFiniteSet({i} \X (1..n))
      /\ Cardinality({i} \X (1..n)) = Cardinality({i}) * Cardinality(1..n)
  BY <1>1, <1>3, FS_Product
<1> QED
  BY <1>1, <1>4, <1>5

\* When one invoice's allocation changes, what is held changes by as much.
LEMMA ReplaceHeld ==
  ASSUME NEW a \in [Invoices -> [Credits -> Allocation]],
         NEW b \in [Invoices -> [Credits -> Allocation]],
         NEW c \in Credits, NEW i \in Invoices,
         \A j \in Invoices : j # i => b[j][c] = a[j][c],
         IsFiniteSet(Held(a, c))
  PROVE  /\ IsFiniteSet(Held(b, c))
         /\ Cardinality(Held(a, c)) \in Nat
         /\ Cardinality(Held(b, c)) \in Nat
         /\ Kept(a, i, c) \in Nat
         /\ Kept(b, i, c) \in Nat
         /\ Cardinality(Held(b, c)) + Kept(a, i, c) = Cardinality(Held(a, c)) + Kept(b, i, c)
<1> DEFINE Rest == {u \in Held(a, c) : u[1] # i}
<1>1. Kept(a, i, c) \in Nat /\ Kept(b, i, c) \in Nat
  BY DEF Kept, Allocation
<1>2. /\ Held(a, c) = Rest \cup ({i} \X (1..Kept(a, i, c)))
      /\ Rest \cap ({i} \X (1..Kept(a, i, c))) = {}
  BY DEF Held, Kept, Holding
<1>3. /\ Held(b, c) = Rest \cup ({i} \X (1..Kept(b, i, c)))
      /\ Rest \cap ({i} \X (1..Kept(b, i, c))) = {}
  BY DEF Held, Kept, Holding
<1>4. IsFiniteSet(Rest) /\ Cardinality(Rest) \in Nat
  <2>1. Rest \in SUBSET Held(a, c)
    OBVIOUS
  <2> QED
    BY <2>1, FS_Subset, FS_CardinalityType
<1> HIDE DEF Rest
<1>5. ASSUME NEW n \in Nat, Rest \cap ({i} \X (1..n)) = {}
      PROVE  /\ IsFiniteSet(Rest \cup ({i} \X (1..n)))
             /\ Cardinality(Rest \cup ({i} \X (1..n))) = Cardinality(Rest) + n
  <2>1. IsFiniteSet({i} \X (1..n)) /\ Cardinality({i} \X (1..n)) = n
    BY BlockUnits
  <2>2. Cardinality(Rest \cap ({i} \X (1..n))) = 0
    BY <1>5, FS_EmptySet
  <2>3. /\ IsFiniteSet(Rest \cup ({i} \X (1..n)))
        /\ Cardinality(Rest \cup ({i} \X (1..n))) =
              Cardinality(Rest) + Cardinality({i} \X (1..n))
                - Cardinality(Rest \cap ({i} \X (1..n)))
    BY <1>4, <2>1, FS_Union
  <2> QED
    BY <1>4, <2>1, <2>2, <2>3
<1>6. Cardinality(Held(a, c)) = Cardinality(Rest) + Kept(a, i, c)
  BY <1>1, <1>2, <1>5
<1>7. IsFiniteSet(Held(b, c)) /\ Cardinality(Held(b, c)) = Cardinality(Rest) + Kept(b, i, c)
  BY <1>1, <1>3, <1>5
<1> QED
  BY <1>1, <1>4, <1>6, <1>7

\* A step that moves no credit into or out of an allocation conserves them.
LEMMA CreditsUntouched ==
  ASSUME Typed, Conserved, UNCHANGED alloc,
         \A c \in Credits :
            ~credit'[c].revised => /\ ~credit[c].revised
                                   /\ credit'[c].remaining = credit[c].remaining
  PROVE  Conserved'
  BY DEF Conserved

\* A release gives back what was reserved, and nothing of what was applied or
\* released before.
LEMMA ReleaseConserves ==
  ASSUME Typed, Conserved, NEW i \in Invoices, Release(i)
  PROVE  Conserved'
<1> SUFFICES ASSUME NEW c \in Credits
             PROVE  /\ IsFiniteSet(Held(alloc', c))
                    /\ ~credit'[c].revised =>
                          credit'[c].remaining + Cardinality(Held(alloc', c)) = Grant[c]
  BY DEF Conserved
<1>1. alloc' \in [Invoices -> [Credits -> Allocation]] /\ alloc \in [Invoices -> [Credits -> Allocation]]
  BY ReleaseTypes DEF Typed, TypeOK
<1>2. \A j \in Invoices : j # i => alloc'[j][c] = alloc[j][c]
  BY DEF Release, Typed, TypeOK
<1>3. IsFiniteSet(Held(alloc, c))
  BY DEF Conserved
<1>4. /\ IsFiniteSet(Held(alloc', c))
      /\ Cardinality(Held(alloc, c)) \in Nat
      /\ Cardinality(Held(alloc', c)) \in Nat
      /\ Kept(alloc, i, c) \in Nat
      /\ Kept(alloc', i, c) \in Nat
      /\ Cardinality(Held(alloc', c)) + Kept(alloc, i, c) =
            Cardinality(Held(alloc, c)) + Kept(alloc', i, c)
  BY <1>1, <1>2, <1>3, ReplaceHeld
<1>5. Kept(alloc, i, c) = Kept(alloc', i, c) + Returned(i, c) /\ Returned(i, c) \in Nat
  <2>1. alloc'[i][c] = IF c \in Reserved(i) THEN [alloc[i][c] EXCEPT !.status = "RELEASED"]
                       ELSE alloc[i][c]
    BY DEF Release, Typed, TypeOK
  <2> QED
    BY <1>1, <1>4, <2>1 DEF Kept, Holding, Returned, Reserved, Allocation
<1>6. /\ credit'[c].remaining = credit[c].remaining + Returned(i, c)
      /\ credit'[c].revised = credit[c].revised
      /\ credit[c].remaining \in Nat
  BY DEF Release, Typed, TypeOK, Credit
<1>7. ~credit[c].revised => credit[c].remaining + Cardinality(Held(alloc, c)) = Grant[c]
  BY DEF Conserved
<1>8. credit'[c].remaining + Cardinality(Held(alloc', c)) =
        credit[c].remaining + Cardinality(Held(alloc, c))
  <2> HIDE DEF Kept, Returned
  <2>1. Cardinality(Held(alloc', c)) + Returned(i, c) = Cardinality(Held(alloc, c))
    BY <1>4, <1>5
  <2> QED
    BY <1>4, <1>5, <1>6, <2>1
<1> QED
  BY <1>4, <1>6, <1>7, <1>8

\* What is applied stays held.
LEMMA ApplyConserves ==
  ASSUME Typed, Typed', Conserved, NEW w \in Workers, Apply(w)
  PROVE  Conserved'
<1> SUFFICES ASSUME NEW c \in Credits
             PROVE  /\ IsFiniteSet(Held(alloc', c))
                    /\ ~credit'[c].revised =>
                          credit'[c].remaining + Cardinality(Held(alloc', c)) = Grant[c]
  BY DEF Conserved
<1>1. PICK i \in Invoices : i = work[w].inv
  BY DEF Apply, At, Typed, JobsNamed
<1>2. alloc' \in [Invoices -> [Credits -> Allocation]] /\ alloc \in [Invoices -> [Credits -> Allocation]]
  BY DEF Typed, TypeOK
<1>3. /\ \A j \in Invoices : j # i => alloc'[j][c] = alloc[j][c]
      /\ alloc'[i][c] = IF c \in Reserved(i) THEN [alloc[i][c] EXCEPT !.status = "APPLIED"]
                        ELSE alloc[i][c]
      /\ credit' = credit
  BY <1>1 DEF Apply, Typed, TypeOK
<1>4. Kept(alloc', i, c) = Kept(alloc, i, c)
  BY <1>2, <1>3 DEF Kept, Holding, Reserved, Allocation
<1>5. IsFiniteSet(Held(alloc, c))
  BY DEF Conserved
<1>6. /\ IsFiniteSet(Held(alloc', c))
      /\ Cardinality(Held(alloc, c)) \in Nat
      /\ Cardinality(Held(alloc', c)) \in Nat
      /\ Kept(alloc, i, c) \in Nat
      /\ Cardinality(Held(alloc', c)) + Kept(alloc, i, c) =
            Cardinality(Held(alloc, c)) + Kept(alloc', i, c)
  BY <1>2, <1>3, <1>5, ReplaceHeld
<1>7. Cardinality(Held(alloc', c)) = Cardinality(Held(alloc, c))
  BY <1>4, <1>6
<1> QED
  BY <1>3, <1>6, <1>7 DEF Conserved

\* What is taken for an invoice that holds nothing yet is held for it.
LEMMA ReserveConserves ==
  ASSUME Typed, Typed', Conserved, TakenOnce, NEW w \in Workers, Reserve(w)
  PROVE  Conserved'
<1> SUFFICES ASSUME NEW c \in Credits
             PROVE  /\ IsFiniteSet(Held(alloc', c))
                    /\ ~credit'[c].revised =>
                          credit'[c].remaining + Cardinality(Held(alloc', c)) = Grant[c]
  BY DEF Conserved
<1>1. PICK i \in Invoices : i = work[w].inv
  BY DEF Reserve, At, Typed, JobsNamed
<1>2. PICK take \in [Credits -> 0..Price] :
        /\ credit' = [d \in Credits |-> [credit[d] EXCEPT !.remaining = @ - take[d]]]
        /\ alloc' = [alloc EXCEPT ![i] =
                       [d \in Credits |->
                           IF take[d] > 0
                           THEN [amount |-> take[d], status |-> "RESERVED"]
                           ELSE @[d]]]
  BY <1>1 DEF Reserve
<1>3. alloc[i][c].status = "none"
  BY <1>1 DEF Reserve, At, TakenOnce, Taking, Unspoken
<1>4. take[c] \in Nat
  BY BillingAssumption
<1>5. alloc' \in [Invoices -> [Credits -> Allocation]] /\ alloc \in [Invoices -> [Credits -> Allocation]]
  BY DEF Typed, TypeOK
<1>6. /\ \A j \in Invoices : j # i => alloc'[j][c] = alloc[j][c]
      /\ alloc'[i][c] = IF take[c] > 0 THEN [amount |-> take[c], status |-> "RESERVED"]
                        ELSE alloc[i][c]
  BY <1>2 DEF Typed, TypeOK
<1>7. Kept(alloc, i, c) = 0 /\ Kept(alloc', i, c) = take[c]
  BY <1>3, <1>4, <1>6 DEF Kept, Holding
<1>8. IsFiniteSet(Held(alloc, c))
  BY DEF Conserved
<1>9. /\ IsFiniteSet(Held(alloc', c))
      /\ Cardinality(Held(alloc, c)) \in Nat
      /\ Cardinality(Held(alloc', c)) \in Nat
      /\ Cardinality(Held(alloc', c)) + Kept(alloc, i, c) =
            Cardinality(Held(alloc, c)) + Kept(alloc', i, c)
  BY <1>5, <1>6, <1>8, ReplaceHeld
<1>10. /\ credit'[c].remaining = credit[c].remaining - take[c]
       /\ credit'[c].revised = credit[c].revised
       /\ credit[c].remaining \in Nat
  BY <1>2 DEF Typed, TypeOK, Credit
<1>11. ~credit[c].revised => credit[c].remaining + Cardinality(Held(alloc, c)) = Grant[c]
  BY DEF Conserved
<1> QED
  BY <1>4, <1>7, <1>9, <1>10, <1>11

\* No step makes a taken invoice look untaken, and most take up no invoice.
LEMMA TakenOnceKept ==
  ASSUME TakenOnce,
         \A i \in Renewals : prompt'[i].state = "none" => prompt[i].state = "none",
         \A i \in Invoices : Unspoken(i) => Unspoken(i)',
         \A w \in Workers :
            Taking(w)' => /\ Taking(w) /\ work'[w].inv = work[w].inv
                          /\ work[w].inv \in Invoices
  PROVE  TakenOnce'
<1>1. ASSUME NEW i \in Renewals, prompt'[i].state = "none"
      PROVE  Unspoken(i)' /\ \A w \in Workers : Taking(w)' => work'[w].inv # i
  BY <1>1, BillingAssumption DEF TakenOnce
<1>2. ASSUME NEW w \in Workers, Taking(w)', NEW i, i = work'[w].inv
      PROVE  /\ Unspoken(i)'
             /\ \A v \in Workers : Taking(v)' /\ work'[v].inv = i => v = w
  <2>1. i \in Invoices /\ i = work[w].inv /\ Taking(w)
    BY <1>2
  <2>2. Unspoken(i) /\ \A v \in Workers : Taking(v) /\ work[v].inv = i => v = w
    BY <2>1 DEF TakenOnce
  <2> QED
    BY <2>1, <2>2
<1>3. \A w \in Workers : \A i : Taking(w)' /\ i = work'[w].inv =>
         /\ Unspoken(i)'
         /\ \A v \in Workers : Taking(v)' /\ work'[v].inv = i => v = w
  BY <1>2
<1> QED
  BY <1>1, <1>3 DEF TakenOnce, Unspoken

\* A step of a worker that does not come to "create" or "reserve".
LEMMA NotTaking ==
  ASSUME Typed, TakenOnce, NEW w \in Workers,
         \A i \in Renewals : prompt'[i].state = "none" => prompt[i].state = "none",
         \A i \in Invoices : Unspoken(i) => Unspoken(i)',
         \A v \in Workers : v # w => work'[v] = work[v],
         work'[w].step \notin {"create", "reserve"}
  PROVE  TakenOnce'
<1>1. \A v \in Workers : Taking(v)' => v # w
  BY DEF Taking
<1>2. \A v \in Workers :
         Taking(v)' => /\ Taking(v) /\ work'[v].inv = work[v].inv
                       /\ work[v].inv \in Invoices
  BY <1>1 DEF Taking, Typed, JobsNamed
<1> QED
  BY <1>2, TakenOnceKept

\* What the small operators leave of other workers, and where they lead.
LEMMA WorkMoves ==
  ASSUME Typed, NEW w \in Workers
  PROVE  /\ \A s : Goto(w, s) => /\ \A v \in Workers : v # w => work'[v] = work[v]
                                 /\ work'[w].step = s /\ work'[w].inv = work[w].inv
         /\ Done(w) => /\ \A v \in Workers : v # w => work'[v] = work[v]
                       /\ work'[w].step = "idle"
         /\ \A s, i : Start(w, s, i) =>
                       /\ \A v \in Workers : v # w => work'[v] = work[v]
                       /\ work'[w].step = s /\ work'[w].inv = i
<1>1. work \in [Workers -> Job]
  BY DEF Typed, TypeOK
<1>2. ASSUME NEW s, Goto(w, s)
      PROVE  /\ \A v \in Workers : v # w => work'[v] = work[v]
             /\ work'[w].step = s /\ work'[w].inv = work[w].inv
  BY <1>1, <1>2 DEF Goto, Job
<1>3. ASSUME Done(w)
      PROVE  /\ \A v \in Workers : v # w => work'[v] = work[v]
             /\ work'[w].step = "idle"
  BY <1>1, <1>3 DEF Done, Idle
<1>4. ASSUME NEW s, NEW i, Start(w, s, i)
      PROVE  /\ \A v \in Workers : v # w => work'[v] = work[v]
             /\ work'[w].step = s /\ work'[w].inv = i
  BY <1>1, <1>4 DEF Start, Idle
<1> QED
  BY <1>2, <1>3, <1>4

\* A release speaks of no invoice that is unspoken of.
LEMMA ReleaseUnspoken ==
  ASSUME Typed, NEW j \in Invoices, Release(j)
  PROVE  \A i \in Invoices : Unspoken(i) => Unspoken(i)'
  BY ReleaseTypes DEF Unspoken

\* A checkout or a renewal takes up an invoice nobody else has taken up.
LEMMA BeginTakes ==
  ASSUME IInv, TakenOnce, NEW w \in Workers, NEW j \in Invoices,
         BeginCheckout(w, j) \/ BeginRenewal(w, j)
  PROVE  TakenOnce'
<1>1. /\ \A v \in Workers : v # w => work'[v] = work[v]
      /\ work'[w].step \in {"create", "reserve"} /\ work'[w].inv = j
      /\ UNCHANGED alloc
      /\ \A i \in Renewals : prompt'[i].state = "none" => prompt[i].state = "none" /\ i # j
  <2>0. Typed /\ prompt \in [Invoices -> Prompt]
    BY DEF IInv, Typed, TypeOK
  <2>1. CASE BeginCheckout(w, j)
    BY <2>0, <2>1, WorkMoves DEF BeginCheckout
  <2>2. CASE BeginRenewal(w, j)
    <3>1. Start(w, "create", j) /\ UNCHANGED alloc
      BY <2>2 DEF BeginRenewal
    <3>2. \A i \in Invoices :
             prompt'[i] = IF i = j THEN [state |-> "asked", amount |-> Price] ELSE prompt[i]
      BY <2>0, <2>2 DEF BeginRenewal
    <3>3. \A i \in Renewals : prompt'[i].state = "none" => prompt[i].state = "none" /\ i # j
      BY <3>2, BillingAssumption
    <3> QED
      BY <2>0, <3>1, <3>3, WorkMoves
  <2> QED
    BY <2>1, <2>2
<1>2. Unspoken(j) /\ \A v \in Workers : Taking(v) => work[v].inv # j
  <2>1. CASE BeginCheckout(w, j)
    BY <2>1 DEF BeginCheckout, IInv, Sound, Unmade, Unspoken
  <2>2. CASE BeginRenewal(w, j)
    BY <2>2 DEF BeginRenewal, TakenOnce
  <2> QED
    BY <2>1, <2>2
<1>3. \A v \in Workers : v # w => (Taking(v)' <=> Taking(v)) /\ work'[v].inv = work[v].inv
  BY <1>1 DEF Taking
<1>4. ASSUME NEW i PROVE Unspoken(i)' <=> Unspoken(i)
  BY <1>1 DEF Unspoken
<1>5. ASSUME NEW i \in Renewals, prompt'[i].state = "none"
      PROVE  Unspoken(i)' /\ \A v \in Workers : Taking(v)' => work'[v].inv # i
  BY <1>1, <1>3, <1>4, <1>5 DEF TakenOnce
<1>6. ASSUME NEW v \in Workers, Taking(v)', NEW i, i = work'[v].inv
      PROVE  /\ Unspoken(i)'
             /\ \A u \in Workers : Taking(u)' /\ work'[u].inv = i => u = v
  <2>1. CASE v = w
    BY <1>1, <1>2, <1>3, <1>4, <1>6, <2>1
  <2>2. CASE v # w
    <3>1. Taking(v) /\ i = work[v].inv /\ i # j
      BY <1>2, <1>3, <1>6, <2>2
    <3>2. Unspoken(i) /\ \A u \in Workers : Taking(u) /\ work[u].inv = i => u = v
      BY <3>1 DEF TakenOnce
    <3> QED
      BY <1>1, <1>3, <1>4, <3>1, <3>2
  <2> QED
    BY <2>1, <2>2
<1>7. \A v \in Workers : \A i : Taking(v)' /\ i = work'[v].inv =>
         /\ Unspoken(i)'
         /\ \A u \in Workers : Taking(u)' /\ work'[u].inv = i => u = v
  BY <1>6
<1> QED
  BY <1>5, <1>7 DEF TakenOnce, Unspoken

\* Taking credits for an invoice disturbs no other that is taken up.
LEMMA ReserveTakes ==
  ASSUME Typed, TakenOnce, NEW w \in Workers, Reserve(w)
  PROVE  TakenOnce'
<1>1. PICK j \in Invoices : j = work[w].inv
  BY DEF Reserve, At, Typed, JobsNamed
<1>2. /\ \A v \in Workers : v # w => work'[v] = work[v]
      /\ work'[w].step \notin {"create", "reserve"}
      /\ UNCHANGED prompt
  BY WorkMoves DEF Reserve
<1>3. \A i \in Invoices : i # j => alloc'[i] = alloc[i]
  BY <1>1 DEF Reserve, Typed, TypeOK
<1>4. Taking(w)
  BY DEF Reserve, At, Taking
<1>5. ASSUME NEW v \in Workers, Taking(v)'
      PROVE  /\ Taking(v) /\ work'[v].inv = work[v].inv
             /\ work[v].inv \in Invoices /\ work[v].inv # j
  <2>1. v # w /\ work'[v] = work[v]
    BY <1>2, <1>5 DEF Taking
  <2>2. Taking(v) /\ work[v].inv \in Invoices
    BY <1>5, <2>1 DEF Taking, Typed, JobsNamed
  <2> QED
    BY <1>1, <1>4, <2>1, <2>2 DEF TakenOnce
<1>6. ASSUME NEW i \in Invoices, i # j, Unspoken(i) PROVE Unspoken(i)'
  BY <1>3, <1>6 DEF Unspoken
<1>7. ASSUME NEW i \in Renewals, prompt'[i].state = "none"
      PROVE  Unspoken(i)' /\ \A v \in Workers : Taking(v)' => work'[v].inv # i
  <2>1. i \in Invoices /\ i # j /\ Unspoken(i)
    BY <1>1, <1>2, <1>4, <1>7, BillingAssumption DEF TakenOnce
  <2> QED
    BY <1>2, <1>5, <1>6, <1>7, <2>1 DEF TakenOnce
<1>8. ASSUME NEW v \in Workers, Taking(v)', NEW i, i = work'[v].inv
      PROVE  /\ Unspoken(i)'
             /\ \A u \in Workers : Taking(u)' /\ work'[u].inv = i => u = v
  <2>1. i \in Invoices /\ i # j /\ i = work[v].inv /\ Taking(v)
    BY <1>5, <1>8
  <2>2. Unspoken(i) /\ \A u \in Workers : Taking(u) /\ work[u].inv = i => u = v
    BY <2>1 DEF TakenOnce
  <2> QED
    BY <1>5, <1>6, <2>1, <2>2
<1>9. \A v \in Workers : \A i : Taking(v)' /\ i = work'[v].inv =>
         /\ Unspoken(i)'
         /\ \A u \in Workers : Taking(u)' /\ work'[u].inv = i => u = v
  BY <1>8
<1> QED
  BY <1>7, <1>9 DEF TakenOnce, Unspoken

\* No other step takes up an invoice.
LEMMA ContinueTakes ==
  ASSUME Typed, TakenOnce, NEW w \in Workers, Continue(w)
  PROVE  TakenOnce'
<1>1. ASSUME UNCHANGED <<alloc, prompt>>,
             \A v \in Workers : v # w => work'[v] = work[v],
             work'[w].step \notin {"create", "reserve"}
      PROVE  TakenOnce'
  <2>1. \A i \in Invoices : Unspoken(i) => Unspoken(i)'
    BY <1>1 DEF Unspoken
  <2> QED
    BY <1>1, <2>1, NotTaking
<1>2. CASE Ask(w)
  <2>1. \A v \in Workers : v # w => work'[v] = work[v]
    BY <1>2, WorkMoves DEF Ask, ReadActive, Typed, TypeOK
  <2>2. work'[w].step \notin {"create", "reserve"}
    BY <1>2, WorkMoves DEF Ask, ReadActive, Confirmation, Typed, TypeOK
  <2>3. prompt' = prompt \/ prompt' = [prompt EXCEPT ![work[w].inv] =
                                        [state |-> "asked", amount |-> invoice[work[w].inv].due]]
    BY <1>2 DEF Ask
  <2>4. \A i \in Renewals : prompt'[i].state = "none" => prompt[i].state = "none"
    BY <2>3, BillingAssumption DEF Typed, TypeOK
  <2>5. \A i \in Invoices : Unspoken(i) => Unspoken(i)'
    BY <1>2 DEF Ask, Unspoken
  <2> QED
    BY <2>1, <2>2, <2>4, <2>5, NotTaking
<1>3. CASE Find(w) \/ Answer(w) \/ Pay(w) \/ Fail(w) \/ Void(w) \/ Revoke(w) \/ Lapse(w)
  BY <1>1, <1>3, WorkMoves
  DEF Find, Answer, Pay, Fail, Conclude, Void, Revoke, Lapse
<1>4. CASE Create(w)
  <2>1. /\ \A v \in Workers : v # w => work'[v] = work[v]
        /\ work'[w].inv = work[w].inv /\ Taking(w)
        /\ UNCHANGED <<alloc, prompt>>
    BY <1>4, WorkMoves DEF Create, At, Taking
  <2>2. \A i \in Invoices : Unspoken(i) => Unspoken(i)'
    BY <2>1 DEF Unspoken
  <2>3. \A v \in Workers :
           Taking(v)' => /\ Taking(v) /\ work'[v].inv = work[v].inv
                         /\ work[v].inv \in Invoices
    BY <2>1 DEF Taking, Typed, JobsNamed
  <2> QED
    BY <2>1, <2>2, <2>3, TakenOnceKept
<1>5. CASE Subscribe(w)
  <2>1. PICK k \in Subscriptions :
          work' = [work EXCEPT ![w].step = "link", ![w].sub = k]
    BY <1>5 DEF Subscribe
  <2>2. /\ \A v \in Workers : v # w => work'[v] = work[v]
        /\ work'[w].step = "link"
    BY <2>1 DEF Typed, TypeOK, Job
  <2> QED
    BY <1>1, <1>5, <2>2 DEF Subscribe
<1>6. CASE Link(w)
  BY <1>1, <1>6, WorkMoves DEF Link
<1>7. CASE Apply(w)
  <2>1. \A i \in Invoices : Unspoken(i) => Unspoken(i)'
    BY <1>7 DEF Apply, Unspoken, Reserved, Typed, TypeOK
  <2> QED
    BY <1>7, <2>1, WorkMoves, NotTaking DEF Apply
<1>8. CASE ReleaseFailed(w) \/ Sweep(w)
  <2>1. work[w].inv \in Invoices /\ Release(work[w].inv) /\ prompt' = prompt
    BY <1>8 DEF ReleaseFailed, Sweep, At, Typed, JobsNamed
  <2>2. \A i \in Invoices : Unspoken(i) => Unspoken(i)'
    BY <2>1, ReleaseUnspoken
  <2>3. /\ \A v \in Workers : v # w => work'[v] = work[v]
        /\ work'[w].step \notin {"create", "reserve"}
    BY <1>8, WorkMoves DEF ReleaseFailed, Sweep
  <2> QED
    BY <2>1, <2>2, <2>3, NotTaking
<1> QED
  BY <1>2, <1>3, <1>4, <1>5, <1>6, <1>7, <1>8, ReserveTakes DEF Continue

LEMMA OtherTakes ==
  ASSUME Typed, TakenOnce, NEW w \in Workers,
         \/ Crash(w)
         \/ \E i \in Invoices : BeginCallback(w, i) \/ BeginSweep(w, i)
         \/ \E c \in Credits : BeginRevoke(w, c)
         \/ \E k \in Subscriptions : BeginLapse(w, k)
  PROVE  TakenOnce'
<1>1. /\ UNCHANGED <<alloc, prompt>>
      /\ \A v \in Workers : v # w => work'[v] = work[v]
      /\ work'[w].step \notin {"create", "reserve"}
  <2>1. CASE Crash(w)
    BY <2>1, WorkMoves DEF Crash
  <2>2. ASSUME NEW i \in Invoices, BeginCallback(w, i) PROVE <1>1!:
    BY <2>2, WorkMoves DEF BeginCallback, ReadActive, Confirmation, Typed, TypeOK
  <2>3. ASSUME NEW i \in Invoices, BeginSweep(w, i) PROVE <1>1!:
    BY <2>3, WorkMoves DEF BeginSweep
  <2>4. ASSUME NEW c \in Credits, BeginRevoke(w, c) PROVE <1>1!:
    BY <2>4 DEF BeginRevoke, Idle, Typed, TypeOK
  <2>5. ASSUME NEW k \in Subscriptions, BeginLapse(w, k) PROVE <1>1!:
    BY <2>5 DEF BeginLapse, Idle, Typed, TypeOK
  <2> QED
    BY <2>1, <2>2, <2>3, <2>4, <2>5
<1>2. \A i \in Invoices : Unspoken(i) => Unspoken(i)'
  BY <1>1 DEF Unspoken
<1> QED
  BY <1>1, <1>2, NotTaking

LEMMA TakesStep == IInv /\ TakenOnce /\ [Next]_vars => TakenOnce'
<1> SUFFICES ASSUME IInv, TakenOnce, [Next]_vars PROVE TakenOnce'
  OBVIOUS
<1>0. Typed
  BY DEF IInv
<1>1. ASSUME UNCHANGED <<alloc, prompt, work>> PROVE TakenOnce'
  BY <1>1 DEF TakenOnce, Taking, Unspoken
<1>2. ASSUME NEW i \in Invoices, MemberAnswers(i) PROVE TakenOnce'
  <2>1. UNCHANGED <<alloc, work>>
    BY <1>2 DEF MemberAnswers
  <2>2. \A j \in Renewals : prompt'[j].state = "none" => prompt[j].state = "none"
    BY <1>0, <1>2, BillingAssumption DEF MemberAnswers, Typed, TypeOK, Prompt
  <2>3. \A j \in Invoices : Unspoken(j) => Unspoken(j)'
    BY <2>1 DEF Unspoken
  <2>4. \A w \in Workers :
           Taking(w)' => /\ Taking(w) /\ work'[w].inv = work[w].inv
                         /\ work[w].inv \in Invoices
    BY <1>0, <2>1 DEF Taking, Typed, JobsNamed
  <2> QED
    BY <2>2, <2>3, <2>4, TakenOnceKept
<1>3. ASSUME NEW w \in Workers, NEW j \in Invoices, ReleaseStale(w, j) PROVE TakenOnce'
  <2>1. Release(j) /\ UNCHANGED <<prompt, work>>
    BY <1>3 DEF ReleaseStale
  <2>2. \A i \in Invoices : Unspoken(i) => Unspoken(i)'
    BY <1>0, <2>1, ReleaseUnspoken
  <2>3. \A v \in Workers :
           Taking(v)' => /\ Taking(v) /\ work'[v].inv = work[v].inv
                         /\ work[v].inv \in Invoices
    BY <1>0, <2>1 DEF Taking, Typed, JobsNamed
  <2> QED
    BY <2>1, <2>2, <2>3, TakenOnceKept
<1>4. CASE UNCHANGED vars
  BY <1>1, <1>4 DEF vars
<1>5. ASSUME NEW c \in Credits, Revise(c) \/ CreditExpires(c) PROVE TakenOnce'
  BY <1>1, <1>5 DEF Revise, CreditExpires
<1>6. ASSUME NEW k \in Subscriptions, PeriodEnds(k) PROVE TakenOnce'
  BY <1>1, <1>6 DEF PeriodEnds
<1> QED
  BY <1>0, <1>2, <1>3, <1>4, <1>5, <1>6, ContinueTakes, BeginTakes, OtherTakes DEF Next

\* Every step conserves the credits.
LEMMA ConservedStep ==
  IInv /\ IInv' /\ TakenOnce /\ Conserved /\ [Next]_vars => Conserved'
<1> SUFFICES ASSUME IInv, IInv', TakenOnce, Conserved, [Next]_vars PROVE Conserved'
  OBVIOUS
<1>0. Typed /\ Typed'
  BY DEF IInv
<1>1. ASSUME UNCHANGED <<credit, alloc>> PROVE Conserved'
  BY <1>0, <1>1, CreditsUntouched
<1>2. ASSUME NEW w \in Workers, Continue(w) PROVE Conserved'
  <2>1. CASE ReleaseFailed(w) \/ Sweep(w)
    <3>1. work[w].inv \in Invoices /\ Release(work[w].inv)
      BY <1>0, <2>1 DEF ReleaseFailed, Sweep, At, Typed, JobsNamed
    <3> QED
      BY <1>0, <3>1, ReleaseConserves
  <2>2. CASE Reserve(w) \/ Apply(w)
    BY <1>0, <2>2, ReserveConserves, ApplyConserves
  <2>3. CASE Revoke(w)
    <3>1. \A c \in Credits :
             ~credit'[c].revised => /\ ~credit[c].revised
                                    /\ credit'[c].remaining = credit[c].remaining
      BY <1>0, <2>3 DEF Revoke, Typed, TypeOK
    <3> QED
      BY <1>0, <2>3, <3>1, CreditsUntouched DEF Revoke
  <2>4. CASE \/ Ask(w) \/ Find(w) \/ Create(w) \/ Subscribe(w) \/ Link(w) \/ Pay(w)
             \/ Fail(w) \/ Answer(w) \/ Void(w) \/ Lapse(w)
    BY <1>1, <2>4 DEF Ask, Find, Create, Subscribe, Link, Pay, Fail, Answer, Void, Lapse
  <2> QED
    BY <1>2, <2>1, <2>2, <2>3, <2>4 DEF Continue
<1>3. ASSUME NEW w \in Workers, NEW i \in Invoices,
             \/ BeginCheckout(w, i) \/ BeginRenewal(w, i) \/ BeginCallback(w, i)
             \/ BeginSweep(w, i) \/ ReleaseStale(w, i)
      PROVE  Conserved'
  BY <1>0, <1>1, <1>3, ReleaseConserves
  DEF BeginCheckout, BeginRenewal, BeginCallback, BeginSweep, ReleaseStale
<1>4. ASSUME NEW c \in Credits, Revise(c) \/ CreditExpires(c) PROVE Conserved'
  <2>1. UNCHANGED alloc
    BY <1>4 DEF Revise, CreditExpires
  <2>2. \A d \in Credits :
           ~credit'[d].revised => /\ ~credit[d].revised
                                  /\ credit'[d].remaining = credit[d].remaining
    <3> SUFFICES ASSUME NEW d \in Credits, ~credit'[d].revised
                 PROVE  ~credit[d].revised /\ credit'[d].remaining = credit[d].remaining
      OBVIOUS
    <3>1. credit \in [Credits -> Credit] /\ credit[d] \in Credit
      BY <1>0 DEF Typed, TypeOK
    <3>2. CASE CreditExpires(c)
      <4>1. credit'[d].revised = credit[d].revised /\ credit'[d].remaining = credit[d].remaining
        BY <3>1, <3>2 DEF CreditExpires, Credit
      <4> QED
        BY <4>1
    <3>3. CASE Revise(c)
      <4>1. d # c
        BY <3>1, <3>3 DEF Revise, Credit
      <4>2. credit'[d] = credit[d]
        BY <3>1, <3>3, <4>1 DEF Revise
      <4> QED
        BY <4>2
    <3> QED
      BY <1>4, <3>2, <3>3
  <2> QED
    BY <1>0, <2>1, <2>2, CreditsUntouched
<1>5. CASE UNCHANGED vars
  BY <1>1, <1>5 DEF vars
<1>6. ASSUME NEW w \in Workers,
             \/ Crash(w)
             \/ \E c \in Credits : BeginRevoke(w, c)
             \/ \E k \in Subscriptions : BeginLapse(w, k)
      PROVE  Conserved'
  BY <1>1, <1>6 DEF Crash, BeginRevoke, BeginLapse
<1>7. ASSUME \/ \E i \in Invoices : MemberAnswers(i)
             \/ \E k \in Subscriptions : PeriodEnds(k)
      PROVE  Conserved'
  BY <1>1, <1>7 DEF MemberAnswers, PeriodEnds
<1> QED
  BY <1>2, <1>3, <1>4, <1>5, <1>6, <1>7 DEF Next

\* A credit is given back or spent once, however releases, sweeps, callbacks
\* and applications of the same reservation cross.
THEOREM CreditsAreConserved == Spec => []CreditConserved
<1>1. Init => TakenOnce /\ Conserved
  <2> SUFFICES ASSUME Init PROVE TakenOnce /\ Conserved
    OBVIOUS
  <2>1. TakenOnce
    BY BillingAssumption DEF Init, TakenOnce, Taking, Unspoken, Idle
  <2>2. ASSUME NEW c \in Credits PROVE Held(alloc, c) = {}
    BY DEF Init, Held
  <2>3. ASSUME NEW c \in Credits
        PROVE  /\ IsFiniteSet(Held(alloc, c))
               /\ credit[c].remaining + Cardinality(Held(alloc, c)) = Grant[c]
    <3>1. credit[c].remaining = Grant[c] /\ Grant[c] \in Nat
      BY BillingAssumption DEF Init
    <3>2. IsFiniteSet({}) /\ Cardinality({}) = 0
      BY FS_EmptySet
    <3>3. Held(alloc, c) = {}
      BY <2>2
    <3>4. IsFiniteSet(Held(alloc, c)) /\ Cardinality(Held(alloc, c)) = 0
      BY <3>2, <3>3
    <3> QED
      BY <3>1, <3>4
  <2> QED
    BY <2>1, <2>3 DEF Conserved
<1>2. Conserved => CreditConserved
  BY DEF Conserved, CreditConserved
<1> QED
  BY <1>1, <1>2, TakesStep, ConservedStep, Invariance, PTL DEF Spec

=============================================================================
