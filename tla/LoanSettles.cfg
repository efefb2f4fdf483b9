SPECIFICATION FairSpec
CHECK_DEADLOCK FALSE
CONSTANTS
    Installments = 1
    Principal = 1
    Interest = 0
    Charge = 1
    Receipts = {r1}
    Amounts = {1, 2}
    Requests = {"desk", "mpesa", "write off", "disburse"}
    MaxAge = 3
    MaxWriteOffs = 1
    Workers = {w1, w2}
    None = None
PROPERTY
    PaidUpIsSettled
