SPECIFICATION Spec
CHECK_DEADLOCK FALSE
CONSTANTS
    Installments = 2
    Principal = 1
    Interest = 0
    Charge = 1
    Receipts = {r1}
    Amounts = {1, 2}
    Requests = {"desk", "mpesa", "offset", "restructure"}
    MaxAge = 2
    MaxWriteOffs = 0
    Workers = {w1, w2}
    None = None
SYMMETRY Symmetry
INVARIANTS
    TypeOK
    PaidWithinExpected
    PenaltiesAreBooked
    BooksFollowSchedule
    PaidOwesNothing
PROPERTY
    SettledIsFinal
