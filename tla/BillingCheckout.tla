--------------------------- MODULE BillingCheckout ---------------------------
(***************************************************************************)
(* How a chama pays for its plan (src/apps/billing): a checkout makes an   *)
(* invoice, reserves referral credits for it and sends an M-Pesa prompt for*)
(* the rest; the provider's callback applies the credits and activates the *)
(* subscription, or gives the credits back.  Reservations that grow old    *)
(* are released and their invoices voided, staff revise credits, and a     *)
(* renewal whose subscription lapsed is asked for again.                   *)
(*                                                                         *)
(* Views and tasks here run outside a transaction: every save is a step of *)
(* its own, and what was read before it is kept in work.  The three        *)
(* functions on reservations lock the rows they change and are one step.   *)
(***************************************************************************)
EXTENDS Integers, FiniteSets, FiniteSetsExt

CONSTANTS
    Credits,        \* rows of BillingCredit of the chama
    Age,            \* their order of creation
    Grant,          \* the amount each was issued with
    Invoices,       \* invoices there may come to be
    Renewals,       \* those that process_payment_retries makes
    Subscriptions,  \* rows of Subscription there may come to be
    Trial,          \* the one every chama begins with
    Price,          \* what a checkout charges before credits
    Revisions,      \* amounts staff set a credit to
    MaxCrashes,     \* bound on the number of processes that die
    Workers,        \* web and Celery processes
    None

ASSUME BillingAssumption ==
    /\ Age \in [Credits -> Nat]
    /\ Grant \in [Credits -> Nat]
    /\ Renewals \subseteq Invoices
    /\ Trial \in Subscriptions
    /\ Price \in Nat \ {0}
    /\ Revisions \subseteq Nat
    /\ MaxCrashes \in Nat
    /\ None \notin Credits \cup Invoices \cup Subscriptions

VARIABLES
    credit,     \* BillingCredit rows
    alloc,      \* BillingCreditAllocation of an invoice from a credit
    invoice,    \* Invoice rows
    prompt,     \* what became of the M-Pesa prompt for an invoice
    sub,        \* Subscription rows
    handled,    \* invoices whose BillingWebhookEvent has processed_at
    work,       \* what each worker is doing
    crashes

vars == <<credit, alloc, invoice, prompt, sub, handled, work, crashes>>

InvoiceStatus == {"none", "PENDING", "PAID", "FAILED", "VOID"}
AllocationStatus == {"none", "RESERVED", "APPLIED", "RELEASED"}
SubscriptionStatus == {"none", "TRIALING", "ACTIVE", "PAST_DUE", "UNPAID"}

\* revised: a BillingEvent says that staff changed or revoked the credit.
Credit == [remaining : Nat, spendable : BOOLEAN, revised : BOOLEAN]
Allocation == [amount : Nat, status : AllocationStatus]
\* due: total_amount; found: provider_transaction_id is saved; settled: paid_at
\* is set.
Invoice == [status : InvoiceStatus, due : 0..Price, found : BOOLEAN, settled : BOOLEAN]
Prompt == [state : {"none", "asked", "paid", "declined"}, amount : 0..Price]
\* ref: the checkout in provider_subscription_id; over: its period has ended.
Subscription ==
    [status : SubscriptionStatus, over : BOOLEAN, ref : Invoices \cup {None}]

Step == {"idle", "reserve", "ask", "find", "create",
         "subscribe", "link", "apply", "pay", "release", "fail", "answer",
         "sweep", "void", "revoke", "lapse"}
\* sub: the active subscription that was read, ref what it referred to.
Job == [step : Step,
        inv  : Invoices \cup {None},
        sub  : Subscriptions \cup {None},
        ref  : Invoices \cup {None},
        crd  : Credits \cup {None}]

Idle == [step |-> "idle", inv |-> None, sub |-> None, ref |-> None,
         crd |-> None]

TypeOK ==
    /\ credit \in [Credits -> Credit]
    /\ alloc \in [Invoices -> [Credits -> Allocation]]
    /\ invoice \in [Invoices -> Invoice]
    /\ prompt \in [Invoices -> Prompt]
    /\ sub \in [Subscriptions -> Subscription]
    /\ handled \subseteq Invoices
    /\ work \in [Workers -> Job]
    /\ crashes \in 0..MaxCrashes

Init ==
    /\ credit = [c \in Credits |->
                    [remaining |-> Grant[c], spendable |-> TRUE, revised |-> FALSE]]
    /\ alloc = [i \in Invoices |-> [c \in Credits |-> [amount |-> 0, status |-> "none"]]]
    /\ invoice = [i \in Invoices |->
                    [status |-> "none", due |-> 0, found |-> FALSE, settled |-> FALSE]]
    /\ prompt = [i \in Invoices |-> [state |-> "none", amount |-> 0]]
    /\ sub = [k \in Subscriptions |->
                [status |-> IF k = Trial THEN "TRIALING" ELSE "none",
                 over   |-> FALSE,
                 ref    |-> None]]
    /\ handled = {}
    /\ work = [w \in Workers |-> Idle]
    /\ crashes = 0

At(w, step) == work[w].step = step
Goto(w, step) == work' = [work EXCEPT ![w].step = step]
Done(w) == work' = [work EXCEPT ![w] = Idle]
Start(w, step, i) ==
    /\ At(w, "idle")
    /\ work' = [work EXCEPT ![w] = [Idle EXCEPT !.step = step, !.inv = i]]

-----------------------------------------------------------------------------
(* Reservations of credits (credits.py).                                   *)

\* Mutant: the filter on the status is forgotten by release.
ReservedBefore(i) == {c \in Credits : alloc[i][c].status \in {"RESERVED", "RELEASED"}}
\* Allocations of invoice i that apply and release find under their locks.
Reserved(i) == {c \in Credits : alloc[i][c].status = "RESERVED"}

\* What releasing invoice i gives back to a credit.
Returned(i, c) == IF c \in Reserved(i) THEN alloc[i][c].amount ELSE 0

\* release_reserved_credits
Release(i) ==
    /\ credit' = [c \in Credits |->
                     [credit[c] EXCEPT !.remaining = @ + Returned(i, c)]]
    /\ alloc' = [alloc EXCEPT ![i] =
                    [c \in Credits |->
                        IF c \in Reserved(i) THEN [@[c] EXCEPT !.status = "RELEASED"]
                        ELSE @[c]]]

\* Invoices release_stale_credit_reservations may find too old.
MayBeStale == {i \in Invoices : invoice[i].status = "PENDING" /\ Reserved(i) # {}}

\* Mutant (Most): what is asked for is not cut to what is left.
\* What is taken from a credit for an invoice: the oldest are used up first.
Most(m, n) == n
Least(m, n) == IF m < n THEN m ELSE n
Usable == {c \in Credits : credit[c].spendable}
Taken(c) ==
    LET older == MapThenSumSet(LAMBDA d : credit[d].remaining, {d \in Usable : Age[d] < Age[c]})
    IN  IF c \in Usable /\ older < Price THEN Least(credit[c].remaining, Price - older) ELSE 0

\* reserve_credits_for_invoice first releases and voids what is stale (in the
\* same transaction: nobody else's step needs to see the two apart) ...
ReleaseStale(w, j) ==
    /\ At(w, "reserve")
    /\ j \in MayBeStale
    /\ Release(j)
    /\ invoice' = [invoice EXCEPT ![j].status = "VOID"]
    /\ UNCHANGED <<prompt, sub, handled, work, crashes>>

\* ... and then takes credits, and discounts the invoice by as much.
Reserve(w) ==
    /\ At(w, "reserve")
    /\ LET i == work[w].inv IN
       \E take \in [Credits -> 0..Price], total \in 0..Price :
          /\ \A c \in Credits : take[c] = Taken(c)
          /\ total = MapThenSumSet(LAMBDA c : take[c], Credits)
          /\ credit' = [c \in Credits |->
                           [credit[c] EXCEPT !.remaining = @ - take[c]]]
          /\ alloc' = [alloc EXCEPT ![i] =
                          [c \in Credits |->
                              IF take[c] > 0
                              THEN [amount |-> take[c], status |-> "RESERVED"]
                              ELSE @[c]]]
          /\ invoice' = [invoice EXCEPT ![i].due = Price - total]
          /\ IF i \in Renewals THEN Done(w) ELSE Goto(w, "ask")
    /\ UNCHANGED <<prompt, sub, handled, crashes>>

\* apply_reserved_credits
Apply(w) ==
    /\ At(w, "apply")
    /\ LET i == work[w].inv IN
       alloc' = [alloc EXCEPT ![i] =
                    [c \in Credits |->
                        IF c \in Reserved(i) THEN [@[c] EXCEPT !.status = "APPLIED"]
                        ELSE @[c]]]
    /\ Goto(w, "pay")
    /\ UNCHANGED <<credit, invoice, prompt, sub, handled, crashes>>

\* release_stale_credit_reservations_for_all: a pending invoice is found, its
\* reservation released, and the invoice voided if there was any.
BeginSweep(w, i) ==
    /\ i \in MayBeStale
    /\ Start(w, "sweep", i)
    /\ UNCHANGED <<credit, alloc, invoice, prompt, sub, handled, crashes>>

Sweep(w) ==
    /\ At(w, "sweep")
    /\ Release(work[w].inv)
    /\ IF Reserved(work[w].inv) = {} THEN Done(w) ELSE Goto(w, "void")
    /\ UNCHANGED <<invoice, prompt, sub, handled, crashes>>

Void(w) ==
    /\ At(w, "void")
    /\ invoice' = [invoice EXCEPT ![work[w].inv].status = "VOID"]
    /\ Done(w)
    /\ UNCHANGED <<credit, alloc, prompt, sub, handled, crashes>>

-----------------------------------------------------------------------------
(* Checkout and renewal.                                                   *)

\* An invoice is created, without credits.
NewInvoice(i, found) ==
    invoice' = [invoice EXCEPT ![i] =
                   [status |-> "PENDING", due |-> Price, found |-> found, settled |-> FALSE]]

BeginCheckout(w, i) ==
    /\ i \notin Renewals
    /\ invoice[i].status = "none"
    /\ NewInvoice(i, FALSE)
    /\ Start(w, "reserve", i)
    /\ UNCHANGED <<credit, alloc, prompt, sub, handled, crashes>>

\* get_active_subscription
Active(k) == sub[k].status \in {"TRIALING", "ACTIVE"} /\ ~sub[k].over
Confirmation(i, k, ref) ==
    [step |-> "subscribe", inv |-> i, sub |-> k, ref |-> ref, crd |-> None]
\* confirm_checkout_subscription reads what change_plan will save over.
ReadActive(w, i) ==
    \/ \E k \in Subscriptions :
          /\ Active(k)
          /\ work' = [work EXCEPT ![w] = Confirmation(i, k, sub[k].ref)]
    \/ /\ \A k \in Subscriptions : ~Active(k)
       /\ work' = [work EXCEPT ![w] = Confirmation(i, None, None)]

\* Nothing to pay: confirmed at once.  Otherwise the prompt is sent, or the
\* provider refuses to, and the checkout has failed.
Ask(w) ==
    LET i == work[w].inv IN
    /\ At(w, "ask")
    /\ \/ invoice[i].due = 0 /\ ReadActive(w, i) /\ UNCHANGED prompt
       \/ /\ invoice[i].due > 0
          /\ prompt' = [prompt EXCEPT ![i] = [state |-> "asked", amount |-> invoice[i].due]]
          /\ Goto(w, "find")
       \/ invoice[i].due > 0 /\ Goto(w, "release") /\ UNCHANGED prompt
    /\ UNCHANGED <<credit, alloc, invoice, sub, handled, crashes>>

\* The view saves provider_transaction_id when it has the provider's answer.
Find(w) ==
    /\ At(w, "find")
    /\ invoice' = [invoice EXCEPT ![work[w].inv].found = TRUE]
    /\ Done(w)
    /\ UNCHANGED <<credit, alloc, prompt, sub, handled, crashes>>

\* process_payment_retries asks first, and for the whole price.
BeginRenewal(w, i) ==
    /\ i \in Renewals
    /\ prompt[i].state = "none"
    /\ \E k \in Subscriptions : sub[k].status = "PAST_DUE"
    /\ prompt' = [prompt EXCEPT ![i] = [state |-> "asked", amount |-> Price]]
    /\ Start(w, "create", i)
    /\ UNCHANGED <<credit, alloc, invoice, sub, handled, crashes>>

Create(w) ==
    /\ At(w, "create")
    /\ NewInvoice(work[w].inv, TRUE)
    /\ Goto(w, "reserve")
    /\ UNCHANGED <<credit, alloc, prompt, sub, handled, crashes>>

MemberAnswers(i) ==
    /\ prompt[i].state = "asked"
    /\ \E answer \in {"paid", "declined"} : prompt' = [prompt EXCEPT ![i].state = answer]
    /\ UNCHANGED <<credit, alloc, invoice, sub, handled, work, crashes>>

-----------------------------------------------------------------------------
(* The provider's callback (MpesaWebhookView).                             *)

\* Mutant: the amount paid is compared with the price before credits.
AmountIsPrice(i) == prompt[i].amount = Price
\* The amount paid is what the invoice asks for now.
AmountMatches(i) == prompt[i].amount = invoice[i].due

\* Mutant: the result code of the callback is not looked at.
NeverDeclined(i) == FALSE
Declined(i) == prompt[i].state = "declined"

\* A callback for an invoice nobody finds, or for another amount, is answered
\* and never looked at again.  A repeat of one that was processed is dropped.
BeginCallback(w, i) ==
    /\ At(w, "idle")
    /\ prompt[i].state \in {"paid", "declined"}
    /\ i \notin handled
    /\ IF ~invoice[i].found \/ (~Declined(i) /\ ~AmountMatches(i))
       THEN Start(w, "answer", i)
       ELSE IF Declined(i) THEN Start(w, "release", i)
       ELSE IF \E k \in Subscriptions : sub[k].ref = i THEN Start(w, "apply", i)
       ELSE ReadActive(w, i)
    /\ UNCHANGED <<credit, alloc, invoice, prompt, sub, handled, crashes>>

NewRow == CHOOSE k \in Subscriptions : sub[k].status = "none"

\* change_plan: the active subscription that was read is saved with all its
\* fields, or a new one is created.
Subscribe(w) ==
    /\ At(w, "subscribe")
    /\ LET k == IF work[w].sub = None THEN NewRow ELSE work[w].sub IN
       /\ k \in Subscriptions
       /\ sub' = [sub EXCEPT ![k] =
                     [status |-> "ACTIVE", over |-> FALSE, ref |-> work[w].ref]]
       /\ work' = [work EXCEPT ![w].step = "link", ![w].sub = k]
    /\ UNCHANGED <<credit, alloc, invoice, prompt, handled, crashes>>

\* confirm_checkout_subscription notes which checkout paid, if one did.
Link(w) ==
    /\ At(w, "link")
    /\ LET i == work[w].inv IN
       IF prompt[i].state = "none"
       THEN UNCHANGED sub
       ELSE sub' = [sub EXCEPT ![work[w].sub].ref = i]
    /\ Goto(w, "apply")
    /\ UNCHANGED <<credit, alloc, invoice, prompt, handled, crashes>>

\* A callback goes on to save its BillingWebhookEvent, a checkout is done.
Conclude(w) ==
    IF prompt[work[w].inv].state = "none" THEN Done(w) ELSE Goto(w, "answer")

\* mark_invoice_paid, after apply_reserved_credits.
Pay(w) ==
    /\ At(w, "pay")
    /\ invoice' = [invoice EXCEPT ![work[w].inv].status = "PAID",
                                  ![work[w].inv].settled = TRUE]
    /\ Conclude(w)
    /\ UNCHANGED <<credit, alloc, prompt, sub, handled, crashes>>

\* mark_invoice_failed: release_reserved_credits, then the status.
ReleaseFailed(w) ==
    /\ At(w, "release")
    /\ Release(work[w].inv)
    /\ Goto(w, "fail")
    /\ UNCHANGED <<invoice, prompt, sub, handled, crashes>>

Fail(w) ==
    /\ At(w, "fail")
    /\ invoice' = [invoice EXCEPT ![work[w].inv].status = "FAILED"]
    /\ Conclude(w)
    /\ UNCHANGED <<credit, alloc, prompt, sub, handled, crashes>>

Answer(w) ==
    /\ At(w, "answer")
    /\ handled' = handled \cup {work[w].inv}
    /\ Done(w)
    /\ UNCHANGED <<credit, alloc, invoice, prompt, sub, crashes>>

-----------------------------------------------------------------------------
(* Staff, time, and the life of a subscription.                            *)

\* update_billing_credit writes the amount it is given, whatever was reserved
\* since the staff member looked.
Revise(c) ==
    /\ \E n \in Revisions :
          credit' = [credit EXCEPT ![c].remaining = n, ![c].revised = TRUE]
    /\ UNCHANGED <<alloc, invoice, prompt, sub, handled, work, crashes>>

\* revoke_billing_credit looks for reservations without a lock.
BeginRevoke(w, c) ==
    /\ At(w, "idle")
    /\ \A i \in Invoices : c \notin Reserved(i)
    /\ credit[c].remaining > 0
    /\ work' = [work EXCEPT ![w] = [Idle EXCEPT !.step = "revoke", !.crd = c]]
    /\ UNCHANGED <<credit, alloc, invoice, prompt, sub, handled, crashes>>

Revoke(w) ==
    /\ At(w, "revoke")
    /\ credit' = [credit EXCEPT ![work[w].crd] =
                     [remaining |-> 0, spendable |-> FALSE, revised |-> TRUE]]
    /\ Done(w)
    /\ UNCHANGED <<alloc, invoice, prompt, sub, handled, crashes>>

CreditExpires(c) ==
    /\ credit[c].spendable
    /\ credit' = [credit EXCEPT ![c].spendable = FALSE]
    /\ UNCHANGED <<alloc, invoice, prompt, sub, handled, work, crashes>>

\* Bound: no period ends when there are too few rows for the subscriptions
\* that may follow.
PeriodEnds(k) ==
    /\ Active(k)
    /\ Cardinality({l \in Subscriptions : sub[l].status = "none"}) >= Cardinality(Workers)
    /\ sub' = [sub EXCEPT ![k].over = TRUE]
    /\ UNCHANGED <<credit, alloc, invoice, prompt, handled, work, crashes>>

\* process_subscription_lifecycle finds a paid subscription that is over, and
\* saves the status of grace or, when that is over too, of suspension.
BeginLapse(w, k) ==
    /\ At(w, "idle")
    /\ sub[k].status = "ACTIVE"
    /\ sub[k].over
    /\ work' = [work EXCEPT ![w] = [Idle EXCEPT !.step = "lapse", !.sub = k]]
    /\ UNCHANGED <<credit, alloc, invoice, prompt, sub, handled, crashes>>

Lapse(w) ==
    /\ At(w, "lapse")
    /\ \E s \in {"PAST_DUE", "UNPAID"} : sub' = [sub EXCEPT ![work[w].sub].status = s]
    /\ Done(w)
    /\ UNCHANGED <<credit, alloc, invoice, prompt, handled, crashes>>

Crash(w) ==
    /\ ~At(w, "idle")
    /\ crashes < MaxCrashes
    /\ crashes' = crashes + 1
    /\ Done(w)
    /\ UNCHANGED <<credit, alloc, invoice, prompt, sub, handled>>

-----------------------------------------------------------------------------

Continue(w) ==
    \/ Reserve(w) \/ Ask(w) \/ Find(w) \/ Create(w)
    \/ Subscribe(w) \/ Link(w) \/ Apply(w) \/ Pay(w)
    \/ ReleaseFailed(w) \/ Fail(w) \/ Answer(w)
    \/ Sweep(w) \/ Void(w) \/ Revoke(w) \/ Lapse(w)

Next ==
    \/ \E w \in Workers :
          \/ Continue(w) \/ Crash(w)
          \/ \E i \in Invoices :
                \/ BeginCheckout(w, i) \/ BeginRenewal(w, i) \/ BeginCallback(w, i)
                \/ BeginSweep(w, i) \/ ReleaseStale(w, i)
          \/ \E c \in Credits : BeginRevoke(w, c)
          \/ \E k \in Subscriptions : BeginLapse(w, k)
    \/ \E i \in Invoices : MemberAnswers(i)
    \/ \E c \in Credits : Revise(c) \/ CreditExpires(c)
    \/ \E k \in Subscriptions : PeriodEnds(k)

\* A process that lives goes on; the provider repeats a callback until it is
\* answered, and a free process takes it.
Fairness ==
    /\ \A w \in Workers : WF_vars(Continue(w))
    /\ \A i \in Invoices : SF_vars(\E w \in Workers : BeginCallback(w, i))

Spec == Init /\ [][Next]_vars
FairSpec == Spec /\ Fairness

-----------------------------------------------------------------------------
(* Correctness.                                                            *)

\* The units of credit c that the allocations a hold for invoices.
Held(a, c) ==
    UNION {{i} \X (1..a[i][c].amount) :
              i \in {j \in Invoices : a[j][c].status \in {"RESERVED", "APPLIED"}}}

\* Releases, sweeps, failed callbacks and applications of the same reservation
\* cross, and each credit is given back or spent once: what staff did not touch
\* is remaining, reserved or applied, no more and no less.
CreditConserved ==
    \A c \in Credits :
        ~credit[c].revised =>
            credit[c].remaining + Cardinality(Held(alloc, c)) = Grant[c]

\* A credit is spent, and an invoice settled, only when the member paid the
\* rest or there was no rest.
Earned(i) == prompt[i].state = "paid" \/ (i \notin Renewals /\ invoice[i].due = 0)
SpentWhenPaid ==
    \A i \in Invoices :
        (invoice[i].settled \/ \E c \in Credits : alloc[i][c].status = "APPLIED") => Earned(i)

\* A payment for a checkout whose reference is saved settles the invoice,
\* although a sweep may have voided it, a process may die halfway, and the
\* callback comes more than once.
Answering(i) == \E w \in Workers : work[w].inv = i /\ At(w, "answer")
PaidIsSettled ==
    \A i \in Invoices \ Renewals :
        (/\ prompt[i].state = "paid"
         /\ invoice[i].found
         /\ i \notin handled
         /\ ~Answering(i)) ~> invoice[i].settled
=============================================================================
