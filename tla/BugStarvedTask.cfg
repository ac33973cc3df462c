\* A stale task starves the others.
CONSTANTS
    Question = {q1, q2}
    State = {t1, t2, t3}
    Owner = {}
    Proc = {p1}
    None = None
    MaxTime = 0
    ReviewTime = {0, 1, 2, 3, 4, 5}
    Lease = 1
    Limit = 1
    Boundary <- NoBoundary
    Cadence = 1
    Day = 1
    Grace = 1
    MaxPosts = 3
    Outcomes = {}
    Faults = {}
    MaxFaults = 0
SPECIFICATION FairSpec
PROPERTIES
    CommittableRunsAreCommitted
CHECK_DEADLOCK FALSE
