SPECIFICATION Spec
CONSTANTS
    Withdrawals = {}
    Loans = {l1}
    Treasurers = {tina}
    Admins = {adam}
    Conversations = {c1, c2}
    DirectKeys = {k1}
    Workers = {p1, p2, sweeper}
    Sweeper = sweeper
    MaxAttempts = 3
    None = None
SYMMETRY Symmetry
PROPERTIES
    DisbursedOnce
    PromiseKept
CHECK_DEADLOCK FALSE
