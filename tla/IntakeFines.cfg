SPECIFICATION FairSpec
CONSTANTS
    Intents = {f1, f2}
    Fines = {f1, f2}
    Penalties = {pen}
    ThePenalty = pen
    PenaltyOf <- PaysThePenalty
    PenaltyAmount = 1
    Desk = {d1}
    Workers = {p1, p2}
    None = None
INVARIANTS
    FinesNotOvercollected
PROPERTIES
    CallbackSettles
CHECK_DEADLOCK FALSE
