SPECIFICATION Spec
CONSTANTS
    Intents = {f1, c1}
    Fines = {f1}
    Penalties = {pen}
    ThePenalty = pen
    PenaltyOf <- PaysThePenalty
    PenaltyAmount = 2
    Desk = {d1, d2}
    Workers = {p1, p2}
    None = None
SYMMETRY Symmetry
INVARIANTS
    TypeOK
    ReceiptWasPaid
    PaidIsPosted
PROPERTY
    PromiseKept
CHECK_DEADLOCK FALSE
