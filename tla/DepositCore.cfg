SPECIFICATION Spec
CONSTANTS
    Intents = {push, bill}
    Paybills = {bill}
    Splits = {push}
    Checkouts = {c1, c2}
    TransIds = {t1, t2}
    Workers = {w1, w2}
    None = None
SYMMETRY Symmetry
INVARIANTS
    TypeOK
    SettledIsBooked
    BookedWasPaid
    ExpiredIsUnpaid
PROPERTIES
    PromiseKept
    PaidPushIsFinal
CHECK_DEADLOCK FALSE
