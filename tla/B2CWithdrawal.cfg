SPECIFICATION FairSpec
CONSTANTS
    Withdrawals = {w1}
    Loans = {}
    Treasurers = {tina}
    Admins = {adam}
    Conversations = {c1, c2}
    DirectKeys = {}
    Workers = {p1, p2, sweeper}
    Sweeper = sweeper
    MaxAttempts = 3
    None = None
INVARIANTS
    TypeOK
    SentWasApproved
    AcknowledgedIsBooked
    BookedWasPaid
PROPERTIES
    SuccessfulRowIsFinal
    PaidIsAcknowledged
CHECK_DEADLOCK FALSE
