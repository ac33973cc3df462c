\* A ledger of more events than a page, each fault once.
CONSTANTS
    Page = 2
    LedgerEvents = 3
    Backlog = 0
    MaxLoads = 1
    Ends = {"failed"}
    Faults = {"drop", "stream error", "refused", "load lost"}
SPECIFICATION WorkspaceSpec
INVARIANTS
    WorkspaceTypeOK
    EachEventOnce
PROPERTIES
    DoneFollowsTheRun
    FinalDataArrives
    StreamCloses
CHECK_DEADLOCK FALSE
