\* Two overlapping passes, one launched case, a review of the proposal.
CONSTANTS
    Run = {r0, r1}
    Source = r0
    Starter = {s1}
    Passer = {p1, p2}
    MaxCases = 1
    None = None
    Reviewer = {v1}
    MinEvidence = 1
    MaxRequests = 2
    Requests <- LabRequests
    Faults = {"launch error", "starter dies", "pass dies", "task cancelled"}
    MaxFaults = 1
SPECIFICATION ProposalsSpec
SYMMETRY Symmetry
INVARIANTS
    ProposalsTypeOK
    FinalizedRunsAreWhole
    ScoredOnce
    ImplementedIsValidated
CHECK_DEADLOCK FALSE
