\* A launch and an update with any one fault, or two launches that may make each other
\* stale, two questions of which one has a boundary, one process: what they leave
\* behind, and under fairness what they get done.
CONSTANTS
    Question = {q1, q2}
    State = {t1, t2}
    Owner = {o1}
    Proc = {p1}
    None = None
    MaxTime = 1
    ReviewTime = {0, 1, 2, 3, 4, 5}
    Lease = 1
    Limit = 1
    Boundary <- OneBoundaryAt2
    Cadence = 1
    Day = 1
    Grace = 0
    MaxPosts = 2
    Outcomes = {"resolved"}
    Faults = {"launch error", "launcher crash", "reconciler crash", "inspect error", "output error", "run cancelled", "run lost"}
    MaxFaults = 1
SPECIFICATION FairSpec
INVARIANTS
    LiveTypeOK
    LedgerIsExactlyOnce
    CompletedHasLedger
PROPERTIES
    ImplementsForecastState
    FinishedRunsEndTheirTask
    FiredReviewsSettle
    TerminalIsFinal
CONSTRAINTS NamesInOrder SecondLaunchIsFaultless
CHECK_DEADLOCK FALSE
