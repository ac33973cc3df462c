\* A failed update revives a trigger while its successor commits.
CONSTANTS
    Question = {q1}
    State = {t1, t2}
    Owner = {o1}
    Proc = {p1, p2}
    None = None
    MaxTime = 1
    ReviewTime = {0, 1, 2, 3, 4, 5}
    Lease = 1
    Limit = 1
    Boundary <- NoBoundary
    Cadence = 1
    Day = 1
    Grace = 1
    MaxPosts = 1
    Outcomes = {}
    Faults = {"inspect error"}
    MaxFaults = 1
SPECIFICATION LiveSpec
SYMMETRY Symmetry
INVARIANTS
    LiveTriggersAreCurrent
CHECK_DEADLOCK FALSE
