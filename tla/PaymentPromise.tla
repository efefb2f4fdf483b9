--------------------------- MODULE PaymentPromise ---------------------------
(***************************************************************************)
(* What either of the two services that take money in promises, whatever   *)
(* the order its requests, callbacks, queries and expiries come in: a      *)
(* payment is booked once, in all its parts, for the intent it was made    *)
(* for, and only when it was made; what is booked stays booked; and an     *)
(* intent is shown as paid only when a payment of it is in the books.  It  *)
(* may be shown as something else again: that is not promised, and neither *)
(* is that an intent is paid once.                                         *)
(***************************************************************************)
CONSTANTS
    Payments,   \* what the provider may report as paid
    Intents,    \* what payments are asked for
    PartsOf,    \* the postings that a payment of an intent is made of
    None

VARIABLES
    paidFor,    \* the intent a payment was made for, None until it was made
    books,      \* postings: intent, part of it, payment that is its receipt
    shown       \* intents that are shown as paid

promise == <<paidFor, books, shown>>

Init ==
    /\ paidFor = [p \in Payments |-> None]
    /\ books = {}
    /\ shown = {}

Pay(p, i) ==
    /\ paidFor[p] = None
    /\ paidFor' = [paidFor EXCEPT ![p] = i]
    /\ UNCHANGED <<books, shown>>

Book(p) ==
    /\ paidFor[p] # None
    /\ \A e \in books : e.receipt # p
    /\ books' = books \cup
           {[of |-> paidFor[p], part |-> x, receipt |-> p] : x \in PartsOf[paidFor[p]]}
    /\ shown' = shown \cup {paidFor[p]}
    /\ UNCHANGED paidFor

\* A later answer, or a repeated one, finds the intent in the books.
Show(i) ==
    /\ \E e \in books : e.of = i
    /\ shown' = shown \cup {i}
    /\ UNCHANGED <<paidFor, books>>

\* A stale save, an expiry or another payment that failed.
Hide(i) ==
    /\ shown' = shown \ {i}
    /\ UNCHANGED <<paidFor, books>>

Next ==
    \/ \E p \in Payments :
        \/ \E i \in Intents : Pay(p, i)
        \/ Book(p)
    \/ \E i \in Intents : Show(i) \/ Hide(i)

Spec == Init /\ [][Next]_promise
=============================================================================
