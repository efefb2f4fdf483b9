SPECIFICATION Spec
CONSTANTS
    Old = Old
    New = New
    First = First
    Second = Second
    Free = Free
    Paid = Paid
    Other = Other
    Credits = {Old, New}
    Age <- Order
    Grant <- Bonus
    Invoices = {First, Second}
    Renewals = {Second}
    Subscriptions = {Free, Paid, Other}
    Trial = Free
    Price = 2
    Revisions = {2}
    MaxCrashes = 0
    Workers = {w1, w2}
    None = None
SYMMETRY Symmetry
INVARIANTS
    TypeOK
    CreditConserved
    SpentWhenPaid
