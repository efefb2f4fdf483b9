SPECIFICATION FairSpec
CONSTANTS
    Ann = Ann
    Ben = Ben
    AnnToBen = AnnToBen
    BenToAnn = BenToAnn
    Gift = Gift
    Cash = Cash
    Topup = Topup
    Fare = Fare
    Rent = Rent
    Members = {Ann, Ben}
    Chama = Chama
    Transfers = {AnnToBen, BenToAnn}
    Contributions = {Gift}
    Withdrawals = {Cash, Fare, Rent}
    Deposits = {Topup}
    By <- Requester
    To <- Recipient
    Amount <- Sums
    Opening <- Savings
    MinRemaining = 0
    Stub = TRUE
    Workers = {w1, w2}
    None = None
INVARIANTS
    TypeOK
    LockedIsPending
PROPERTIES
    MovesOnce
    EveryRequestEnds
