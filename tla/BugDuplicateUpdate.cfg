\* A runner that stalls past its lease launches a second update.
CONSTANTS
    Question = {q1}
    State = {t1, t2, t3}
    Owner = {o1, o2}
    Proc = {p1}
    None = None
    MaxTime = 2
    ReviewTime = {0, 1, 2, 3, 4, 5}
    Lease = 1
    Limit = 1
    Boundary <- NoBoundary
    Cadence = 1
    Day = 1
    Grace = 1
    MaxPosts = 1
    Outcomes = {}
    Faults = {}
    MaxFaults = 0
SPECIFICATION LiveSpec
SYMMETRY Symmetry
INVARIANTS
    OneUpdateInFlight
CHECK_DEADLOCK FALSE
