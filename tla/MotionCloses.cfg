SPECIFICATION Spec
CONSTANTS
    Members = {ann}
    Types = {"SPECIAL"}
    Quorum = 50
    Ballots = {"YES"}
    Deadline = 1
    Statuses = {None, "OPEN", "CLOSED"}
    Ends = {None, 2}
    LastDay = 2
    MaxBallots = 1
    MaxEdits = 1
    MaxCrashes = 1
    Workers = {w1, w2}
    None = None
INVARIANT
    ClosedHasResult
PROPERTY
    ExpiredIsClosed
