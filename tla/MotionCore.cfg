SPECIFICATION Spec
CONSTANTS
    Members = {ann, ben}
    Types = {"UNANIMOUS"}
    Quorum = 50
    Ballots = {"YES", "NO"}
    Deadline = 1
    Statuses = {None, "OPEN", "CLOSED", "CANCELLED"}
    Ends = {None, 0, 2}
    LastDay = 1
    MaxBallots = 2
    MaxEdits = 1
    MaxCrashes = 0
    Workers = {w1, w2}
    None = None
SYMMETRY Symmetry
INVARIANTS
    TypeOK
    SettledCountIsExact
PROPERTY
    VerdictStands
