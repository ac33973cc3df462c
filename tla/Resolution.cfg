\* Two snapshots of one question, committed by anybody with any predecessor and any time,
\* and a task without one, two requests.
CONSTANTS
    Question = {q1}
    State = {s1, s2}
    Owner = {o1}
    None = None
    MaxTime = 0
    ReviewTime = {}
    Lease = 1
    Limit = 1
    Plain = {p1}
    Row = {r1, r2, r3}
    Value = {"yes", "no"}
    Resolver = {w1, w2}
    Wishes <- SomeWishes
SPECIFICATION ResolutionSpec
SYMMETRY Symmetry
INVARIANTS
    ResolutionTypeOK
    ScoredExactlyOnce
    TrajectoryIsComplete
    RepeatsAreForced
    ClosedByItsResolutions
    MemoryFollowsChain
    ChainIsLinear
PROPERTIES
    ImplementsSnapshotChain
CHECK_DEADLOCK FALSE
