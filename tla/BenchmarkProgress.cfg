\* One process reconciles two cases under fairness, one fault.
CONSTANTS
    Run = {r0, r1}
    Source = r0
    Starter = {s1}
    Passer = {p1}
    MaxCases = 2
    None = None
    Reviewer = {}
    MinEvidence = 1
    MaxRequests = 0
    Requests <- AcceptOnly
    Faults = {"launch error", "pass dies", "task cancelled"}
    MaxFaults = 1
SPECIFICATION FairProposals
PROPERTIES
    EvidenceIsRecorded
    RunsAreFinalized
CHECK_DEADLOCK FALSE
