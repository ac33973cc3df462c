\* A table of one row and two retries of its rows, two processes, one fault.
CONSTANTS
    Task = {t1, t2, t3}
    Row = {r1}
    Proc = {p1, p2}
    None = None
    MaxPosts = 1
    Nested = FALSE
    MaxEnds = 1
    MaxFaults = 1
SPECIFICATION TableSpec
SYMMETRY Symmetry
INVARIANTS
    TableTypeOK
    CompletedIsWhole
    SeededOnce
    RetriesAreCounted
CHECK_DEADLOCK FALSE
