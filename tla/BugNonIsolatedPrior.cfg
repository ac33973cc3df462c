\* An update of a forecast that is not isolated.
CONSTANTS
    Question = {q1}
    State = {t1, t2}
    Instant = {1, 2}
    None = None
    fact = fact
    news = news
    odds = odds
    experts = experts
    Claim = {fact, news, odds, experts}
    Published <- PublishedAt
    DossierPattern = {odds}
    StatePattern = {odds}
    JudgePattern = {odds, experts}
    Role = {r1, r2}
    MinPanel = 2
    MaxRounds = 1
    Dossiers <- DossierChoice
    Reports <- ReportChoice
    MaxRunning = 1
SPECIFICATION WorkflowSpec
SYMMETRY Symmetry
INVARIANTS
    IsolatedHasIsolatedPrior
CHECK_DEADLOCK FALSE
