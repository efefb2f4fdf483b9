--------------------------- MODULE PayoutPromise ---------------------------
(***************************************************************************)
(* What the B2C payout workflow promises, whatever the order its requests, *)
(* callbacks and retries come in: the provider is asked to pay only for an *)
(* approved intent, and a conversation is acknowledged as paid at most     *)
(* once, for good, and with the intent it was opened for in the ledger.    *)
(* It does not promise that an intent is booked once: two conversations of *)
(* one intent may both be paid, and each is booked under its own key.      *)
(***************************************************************************)
CONSTANTS Intents, Conversations, None

VARIABLES
    approved,   \* intents a treasurer and an admin have approved
    opened,     \* the intent a conversation was opened for
    acked,      \* conversations acknowledged as paid
    booked      \* <<intent, conversation>>: postings of acknowledged payouts

promise == <<approved, opened, acked, booked>>

Init ==
    /\ approved = {}
    /\ opened = [o \in Conversations |-> None]
    /\ acked = {}
    /\ booked = {}

Approve(i) ==
    /\ approved' = approved \cup {i}
    /\ UNCHANGED <<opened, acked, booked>>

Open(o, i) ==
    /\ i \in approved
    /\ opened[o] = None
    /\ opened' = [opened EXCEPT ![o] = i]
    /\ UNCHANGED <<approved, acked, booked>>

\* The acknowledgement books the payout.
Book(o) ==
    /\ opened[o] \in Intents
    /\ o \notin acked
    /\ acked' = acked \cup {o}
    /\ booked' = booked \cup {<<opened[o], o>>}
    /\ UNCHANGED <<approved, opened>>

\* The acknowledgement finds the intent booked by another conversation.
Acknowledge(o) ==
    /\ \E c \in acked : <<opened[o], c>> \in booked
    /\ o \notin acked
    /\ acked' = acked \cup {o}
    /\ UNCHANGED <<approved, opened, booked>>

Next ==
    \/ \E i \in Intents : Approve(i)
    \/ \E o \in Conversations :
        \/ \E i \in Intents : Open(o, i)
        \/ Book(o)
        \/ Acknowledge(o)

Spec == Init /\ [][Next]_promise
============================================================================
