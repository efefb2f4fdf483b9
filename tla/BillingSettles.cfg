SPECIFICATION FairSpec
CONSTANTS
    Old = Old
    New = New
    First = First
    Second = Second
    Free = Free
    Paid = Paid
    Other = Other
    Credits = {Old}
    Age <- Order
    Grant <- Bonus
    Invoices = {First}
    Renewals = {}
    Subscriptions = {Free, Paid, Other}
    Trial = Free
    Price = 2
    Revisions = {2}
    MaxCrashes = 1
    Workers = {w1, w2}
    None = None
PROPERTY
    PaidIsSettled
