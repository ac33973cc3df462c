\* One launch, on a question with a boundary or without, two executions of the update
\* runner, two processes whose passes overlap before there is an update, a resolution, a
\* failing launch.
CONSTANTS
    Question = {q1, q2}
    State = {t1, t2, t3}
    Owner = {o1, o2}
    Proc = {p1, p2}
    None = None
    MaxTime = 2
    ReviewTime = {0, 1, 2, 3, 4, 5}
    Lease = 1
    Limit = 1
    Boundary <- OneBoundaryAt3
    Cadence = 1
    Day = 1
    Grace = 1
    MaxPosts = 1
    Outcomes = {"resolved"}
    Faults = {"launch error"}
    MaxFaults = 1
SPECIFICATION LiveSpec
SYMMETRY Symmetry
INVARIANTS
    TypeOK
    ClosedQuestionIsQuiet
    OneUpdatePerReview
    SnoozedIsLeased
PROPERTIES
    RetiredIsFinal
CONSTRAINT OverlapIsEarly
CHECK_DEADLOCK FALSE
