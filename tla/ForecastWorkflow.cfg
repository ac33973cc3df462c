\* An initial forecast and an update of it, two judges, up to two rounds, one number wrong.
CONSTANTS
    Question = {q1}
    State = {t1, t2}
    Instant = {1, 2}
    None = None
    fact = fact
    news = news
    odds = odds
    experts = experts
    Claim = {fact, news, odds, experts}
    Published <- PublishedAt
    DossierPattern = {odds}
    StatePattern = {odds}
    JudgePattern = {odds, experts}
    Role = {r1, r2}
    MinPanel = 2
    MaxRounds = 2
    Dossiers <- DossierChoice
    Reports <- ReportChoice
    MaxRunning = 1
SPECIFICATION WorkflowSpec
SYMMETRY Symmetry
INVARIANTS
    WorkflowTypeOK
    LastRoundDecides
    IsolatedIsClean
    EvidenceIsKept
CHECK_DEADLOCK FALSE
