------------------------ MODULE ForecastWorkflowProofs ------------------------
(***************************************************************************)
(* What holds of ForecastWorkflow for any questions, claims, patterns,     *)
(* roles, rounds and number of runs at a time, with the proofs.            *)
(*                                                                         *)
(* The inductive invariant WorkflowInv ties a run to the chain: while it   *)
(* works its predecessor stays published and unchanged, so that what it    *)
(* concluded from it is still what the predecessor says when it commits.   *)
(***************************************************************************)
EXTENDS ForecastWorkflow, TLAPS

ChainOK ==
    /\ link \in [State -> Link \cup {None}]
    /\ head \in [Question -> State \cup {None}]
    /\ \A q \in Question : head[q] # None => content[head[q]] # None
    /\ \A s \in State : link[s] # None /\ link[s].prev # None => content[link[s].prev] # None

PublishedIsClean(s) ==
    content[s].isolated => \A c \in content[s].sources :
        c \notin StatePattern /\ ~ Late(c, link[s].asOf)
ClaimsAreKept(s) ==
    link[s].prev # None /\ Usable(link[s].prev, link[s].asOf) =>
        content[link[s].prev].claims \ content[s].claims \subseteq content[s].invalidated
ContentOK ==
    /\ content \in [State -> Content \cup {None}]
    /\ \A s \in State : link[s] # None <=> content[s] # None
    /\ \A s \in State : content[s] # None => PublishedIsClean(s) /\ ClaimsAreKept(s)

(* Rounds and iterations of a run agree as long as its models are honest.  *)
Numbered(r) ==
    /\ \A a \in r.attempts : a.round = a.iter
    /\ r.stage \in {"judging", "reviewing"} => r.reviewed = r.iter - 1
    /\ r.stage \in {"reviewing", "aggregating", "done"} =>
           /\ r.candidate.round = r.iter
           /\ r.candidate.saw = {a \in r.attempts : a.iter = r.iter}
RoundsOK(r) ==
    /\ \A a \in r.attempts : a.iter <= r.iter /\ a.role \in r.roles
    /\ \A a, b \in r.attempts : a.role = b.role /\ a.iter = b.iter => a = b
    /\ r.stage \in {"planning", "researching"} =>
           r.attempts = {} /\ r.reviewed = 0 /\ r.iter = 1
    /\ r.stage \in {"reviewing", "aggregating", "done"} =>
           \A role \in r.roles : Attempted(r, role)
    /\ r.honest => Numbered(r)
RunInv(s, r) ==
    /\ RunOK(s, r)
    /\ RoundsOK(r)
    /\ r.stage = "done" => r.result = ForecastStateOf(r)

WorkflowInv ==
    /\ ChainOK
    /\ ContentOK
    /\ DOMAIN run = State
    /\ \A s \in State : Running(s) => RunInv(s, run[s])

-----------------------------------------------------------------------------
(* What is concluded from a run *)

(* The last panel is what the state is made of. *)
LEMMA FinalPanel ==
    ASSUME NEW r \in Run, RoundsOK(r), r.honest,
           r.stage \in {"reviewing", "aggregating", "done"}
    PROVE  FinalAttempts(r) = r.candidate.saw /\ LastPanel(r, FinalAttempts(r))
<1> DEFINE last == {a \in r.attempts : a.iter = r.iter}
<1>1. /\ r.candidate.saw = last
      /\ {a \in r.attempts : a.round = r.candidate.round} = last
  BY DEF RoundsOK, Numbered
<1>2. FinalAttempts(r) = last
  BY <1>1 DEF FinalAttempts
<1>3. LastPanel(r, last)
  BY DEF LastPanel, RoundsOK, Attempted
<1> QED BY <1>1, <1>2, <1>3

LEMMA FinalCites ==
    ASSUME NEW r \in Run
    PROVE  /\ UNION {a.cites : a \in FinalAttempts(r)} \subseteq UNION {a.cites : a \in r.attempts}
           /\ UNION {a.cites : a \in r.attempts} \subseteq Claim
<1>1. \A a \in r.attempts \cup r.candidate.saw : a \in Attempt
  BY DEF Run
<1>2. \A a \in FinalAttempts(r) : a \in r.attempts \/ a.cites = {}
  BY <1>1 DEF FinalAttempts, Attempt
<1>3. \A a \in r.attempts : a.cites \subseteq Claim
  BY <1>1 DEF Attempt
<1> QED BY <1>2, <1>3

LEMMA ReportedByRun ==
    ASSUME NEW r \in Run
    PROVE  Reported(r) \subseteq OwnReports(r) /\ OwnReports(r) \subseteq Claim
<1>1. Admissible(r) \subseteq r.dossier.sources
  BY DEF Admissible
<1>2. r.dossier.sources \subseteq Claim
  BY DEF Run, Dossier
<1> QED BY <1>1, <1>2, FinalCites DEF Reported, OwnReports

LEMMA StateType ==
    ASSUME NEW s \in State, NEW r, RunOK(s, r), ContentOK
    PROVE  ForecastStateOf(r) \in Content
<1>1. r \in Run
  BY DEF RunOK
<1>2. Reported(r) \subseteq Claim
  BY <1>1, ReportedByRun
<1>3. Prior(r).claims \subseteq Claim /\ Prior(r).sources \subseteq Claim
  <2>1. CASE r.prev # None /\ Usable(r.prev, r.asOf)
    <3>1. content[r.prev] \in Content
      BY <1>1, <2>1 DEF RunOK, ContentOK, Run
    <3> QED BY <2>1, <3>1 DEF Prior, Content
  <2>2. CASE ~ (r.prev # None /\ Usable(r.prev, r.asOf))
    BY <2>2 DEF Prior, NoEvidence
  <2> QED BY <2>1, <2>2
<1>4. Invalidated(r) \subseteq Claim
  BY <1>1 DEF Invalidated, Run, Dossier
<1>5. Isolated(r) \in BOOLEAN
  BY DEF Isolated
<1>6. Claims(r) \subseteq Claim /\ Sources(r) \subseteq Claim
  BY <1>2, <1>3 DEF Claims, Sources
<1> QED BY <1>4, <1>5, <1>6 DEF ForecastStateOf, Content

(* An isolated conclusion flags nothing: neither the dossier nor any       *)
(* attempt. *)
LEMMA IsolatedRun ==
    ASSUME NEW s \in State, NEW r, RunOK(s, r), ContentOK, ForecastStateOf(r).isolated
    PROVE  /\ Clean(r)
           /\ \A c \in ForecastStateOf(r).claims \ OwnReports(r) : Inherited(r, c)
           /\ \A c \in ForecastStateOf(r).sources : c \notin StatePattern /\ ~ Late(c, r.asOf)
<1>1. r \in Run
  BY DEF RunOK
<1>2. Isolated(r)
  BY DEF ForecastStateOf
<1>3. Quarantined(r) = {} /\ ~ r.dossier.leak
  BY <1>2 DEF Isolated, Contaminated
<1>4. \A a \in r.attempts :
         ~ a.admits /\ \A c \in a.cites : c \notin JudgePattern /\ ~ Late(c, r.asOf)
  BY <1>2 DEF Isolated, FlaggedAttempts, Exposed
<1>5. \A c \in r.dossier.sources :
         c \notin r.dossier.marked \cup DossierPattern /\ ~ Late(c, r.asOf)
  BY <1>3 DEF Quarantined
<1>6. Clean(r)
  BY <1>3, <1>4, <1>5 DEF Clean, OwnReports
<1>7. ASSUME NEW c \in Claims(r), c \notin OwnReports(r)
      PROVE  Inherited(r, c)
  <2>1. c \in Prior(r).claims
    BY <1>1, <1>7, ReportedByRun DEF Claims
  <2> QED BY <2>1 DEF Prior, NoEvidence, Inherited, Usable
<1>8. \A c \in Sources(r) : c \notin StatePattern /\ ~ Late(c, r.asOf)
  BY <1>2 DEF Isolated
<1> QED BY <1>6, <1>7, <1>8 DEF ForecastStateOf

(* Claims disappear by invalidation only, and only a clean run may         *)
(* invalidate. *)
LEMMA KeptByRun ==
    ASSUME NEW r \in Run
    PROVE  /\ r.prev # None /\ Usable(r.prev, r.asOf) =>
                content[r.prev].claims \ ForecastStateOf(r).claims
                    \subseteq ForecastStateOf(r).invalidated
           /\ ForecastStateOf(r).invalidated # {} => ~ Contaminated(r)
           /\ r.prev # None /\ ~ Usable(r.prev, r.asOf) =>
                ForecastStateOf(r).sources \subseteq OwnReports(r)
<1>1. r.prev # None /\ Usable(r.prev, r.asOf) =>
        content[r.prev].claims \ Claims(r) \subseteq Invalidated(r)
  BY DEF Claims, Prior
<1>2. Invalidated(r) # {} => ~ Contaminated(r)
  BY DEF Invalidated
<1>3. r.prev # None /\ ~ Usable(r.prev, r.asOf) => Sources(r) \subseteq OwnReports(r)
  BY ReportedByRun DEF Sources, Prior, NoEvidence
<1> QED BY <1>1, <1>2, <1>3 DEF ForecastStateOf

(* The invariant says what is promised. *)
LEMMA InvariantSuffices ==
    WorkflowInv => WorkflowTypeOK /\ LastRoundDecides /\ IsolatedIsClean /\ EvidenceIsKept
<1> SUFFICES ASSUME WorkflowInv
             PROVE  WorkflowTypeOK /\ LastRoundDecides /\ IsolatedIsClean /\ EvidenceIsKept
  OBVIOUS
<1>1. ContentOK /\ \A s \in State : Running(s) => RunInv(s, run[s])
  BY DEF WorkflowInv
<1>2. \A s \in State : Running(s) => RunOK(s, run[s]) /\ RoundsOK(run[s]) /\ run[s] \in Run
  BY <1>1 DEF RunInv, RunOK
<1>3. \A s \in State : At(s, "done") => Running(s) /\ run[s].result = ForecastStateOf(run[s])
  BY <1>1 DEF RunInv, At
<1>4. WorkflowTypeOK
  BY <1>1, <1>2 DEF WorkflowTypeOK, WorkflowInv, ContentOK
<1>5. LastRoundDecides
  BY <1>2, FinalPanel DEF LastRoundDecides, At
<1>6. IsolatedIsClean
  <2>1. \A s \in State : At(s, "done") /\ run[s].result.isolated =>
          /\ Clean(run[s])
          /\ \A c \in run[s].result.claims \ OwnReports(run[s]) : Inherited(run[s], c)
    BY <1>1, <1>2, <1>3, IsolatedRun
  <2> QED BY <1>1, <2>1 DEF IsolatedIsClean, ContentOK, PublishedIsClean
<1>7. EvidenceIsKept
  <2>1. \A s \in State : At(s, "done") =>
          /\ run[s].result.invalidated # {} => ~ Contaminated(run[s])
          /\ run[s].prev # None /\ ~ Usable(run[s].prev, run[s].asOf) =>
                run[s].result.sources \subseteq OwnReports(run[s])
    BY <1>2, <1>3, KeptByRun
  <2> QED BY <1>1, <2>1 DEF EvidenceIsKept, ContentOK, ClaimsAreKept
<1> QED BY <1>4, <1>5, <1>6, <1>7

-----------------------------------------------------------------------------
(* Runs *)

(* A step of one run that leaves the chain alone keeps the invariant if it *)
(* keeps that of the run. *)
LEMMA RunStep ==
    ASSUME WorkflowInv, NEW s \in State, NEW r, Becomes(s, r), r # None => RunInv(s, r)
    PROVE  WorkflowInv'
<1>1. UNCHANGED <<head, link, closed, content>>
  BY DEF Becomes, chainVars
<1>2. ChainOK'
  BY <1>1 DEF WorkflowInv, ChainOK
<1>3. ContentOK'
  BY <1>1 DEF WorkflowInv, ContentOK, PublishedIsClean, ClaimsAreKept, Usable
<1>4. DOMAIN run' = State /\ run'[s] = r /\ \A t \in State \ {s} : run'[t] = run[t]
  BY DEF WorkflowInv, Becomes
<1>5. ASSUME NEW t \in State, Running(t)'
      PROVE  RunInv(t, run[t])'
  <2>1. PICK x : x = run'[t]
    OBVIOUS
  <2>2. RunInv(t, x)
    BY <1>4, <1>5, <2>1 DEF WorkflowInv, Running
  <2>3. RunInv(t, x)'
    BY <1>1, <2>2 DEF RunInv, RunOK, ForecastStateOf, Claims, Sources, Isolated, Prior, Usable
  <2> QED BY <2>1, <2>3
<1> QED BY <1>2, <1>3, <1>4, <1>5 DEF WorkflowInv

LEMMA LaunchStep ==
    ASSUME WorkflowInv, NEW q \in Question, NEW s \in State, NEW asOf \in Instant \cup {None},
           NEW shared \in BOOLEAN, Launch(q, s, asOf, shared)
    PROVE  WorkflowInv'
<1> DEFINE r == NewRun(q, asOf, shared)
<1>1. r \in Run /\ r.prev = head[q] /\ r.attempts = {} /\ r.reviewed = 0
      /\ r.max = 1 /\ r.iter = 1 /\ r.stage = "planning" /\ r.honest
  BY WorkflowAssumption
  DEF NewRun, EmptyDossier, Run, Dossier, Stage, WorkflowInv, ChainOK
<1>2. link[s] = None /\ Becomes(s, r)
  BY DEF Launch
<1>3. RunOK(s, r)
  BY <1>1, <1>2 DEF RunOK, Round, WorkflowInv, ChainOK
<1>4. RoundsOK(r)
  BY <1>1 DEF RoundsOK, Numbered
<1>5. RunInv(s, r)
  BY <1>1, <1>3, <1>4 DEF RunInv
<1> HIDE DEF r
<1> QED BY <1>2, <1>5, RunStep

LEMMA PlanStep ==
    ASSUME WorkflowInv, NEW s \in State, NEW roles \in SUBSET Role, NEW max \in 1 .. MaxRounds,
           PlanRun(s, roles, max)
    PROVE  WorkflowInv'
<1> DEFINE o == run[s]
           r == [o EXCEPT !.roles = roles, !.max = max,
                          !.stage = IF o.shared THEN "researching" ELSE "judging"]
<1>1. RunInv(s, o) /\ o.stage = "planning" /\ Becomes(s, r)
  BY DEF PlanRun, At, Running, WorkflowInv
<1>2. o \in Run /\ o.attempts = {} /\ o.reviewed = 0 /\ o.iter = 1
  BY <1>1 DEF RunInv, RunOK, RoundsOK
<1> HIDE DEF o
<1>3. /\ r \in Run /\ r.attempts = {} /\ r.reviewed = 0 /\ r.iter = 1
      /\ r.stage \in {"researching", "judging"} /\ r.max = max /\ r.prev = o.prev
  BY <1>2 DEF Run, Stage
<1> HIDE DEF r
<1>4. RunOK(s, r)
  BY <1>1, <1>3, WorkflowAssumption DEF RunInv, RunOK, Round
<1>5. RoundsOK(r)
  BY <1>3 DEF RoundsOK, Numbered
<1>6. RunInv(s, r)
  BY <1>3, <1>4, <1>5 DEF RunInv
<1> QED BY <1>1, <1>6, RunStep

LEMMA DossierStep ==
    ASSUME WorkflowInv, NEW s \in State, NEW d \in Dossiers, WriteDossier(s, d)
    PROVE  WorkflowInv'
<1> DEFINE o == run[s]
           r == [o EXCEPT !.dossier = d, !.stage = "judging"]
<1>1. RunInv(s, o) /\ o.stage = "researching" /\ Becomes(s, r)
  BY DEF WriteDossier, At, Running, WorkflowInv
<1>2. o \in Run /\ o.attempts = {} /\ o.reviewed = 0 /\ o.iter = 1
  BY <1>1 DEF RunInv, RunOK, RoundsOK
<1> HIDE DEF o
<1>3. /\ r \in Run /\ r.attempts = {} /\ r.reviewed = 0 /\ r.iter = 1
      /\ r.stage = "judging" /\ r.max = o.max /\ r.prev = o.prev
  BY <1>2, WorkflowAssumption DEF Run, Stage
<1> HIDE DEF r
<1>4. RunOK(s, r)
  BY <1>1, <1>2, <1>3 DEF RunInv, RunOK, Round
<1>5. RoundsOK(r)
  BY <1>3 DEF RoundsOK, Numbered
<1>6. RunInv(s, r)
  BY <1>3, <1>4, <1>5 DEF RunInv
<1> QED BY <1>1, <1>6, RunStep

LEMMA JudgeStep ==
    ASSUME WorkflowInv, NEW s \in State, NEW role \in Role, NEW rep \in Reports,
           NEW n \in 1 .. MaxRounds, Judge(s, role, rep, n)
    PROVE  WorkflowInv'
<1> DEFINE o == run[s]
           new == NewAttempt(o, role, rep, n)
           honest == StillHonest(o, n)
           r == [o EXCEPT !.honest = honest, !.attempts = @ \cup {new}]
<1>1. /\ RunInv(s, o) /\ o.stage = "judging" /\ role \in o.roles
      /\ ~ Attempted(o, role) /\ Becomes(s, r)
  BY DEF Judge, At, Running, WorkflowInv
<1>2. o \in Run /\ RoundsOK(o) /\ RunOK(s, o)
  BY <1>1 DEF RunInv, RunOK
<1> HIDE DEF o
<1>3. new \in Attempt /\ new.role = role /\ new.iter = o.iter /\ new.round = n
  BY <1>2, WorkflowAssumption DEF NewAttempt, Attempt, Report, Run
<1>4. honest \in BOOLEAN /\ (honest => o.honest /\ n = Round(o))
  BY <1>2 DEF StillHonest, Run
<1> HIDE DEF new, honest
<1>5. /\ r \in Run /\ r.attempts = o.attempts \cup {new} /\ r.honest = honest
      /\ r.stage = "judging" /\ r.max = o.max /\ r.prev = o.prev /\ r.roles = o.roles
      /\ r.iter = o.iter /\ r.reviewed = o.reviewed
  BY <1>1, <1>2, <1>3, <1>4 DEF Run
<1> HIDE DEF r
<1>6. RunOK(s, r)
  BY <1>2, <1>5 DEF RunOK, Round
<1>7. RoundsOK(r)
  <2>1. honest => n = o.iter /\ Numbered(o)
    BY <1>1, <1>2, <1>4 DEF RoundsOK, Numbered, Round, RunOK, Run
  <2>2. honest => Numbered(r)
    BY <1>1, <1>3, <1>5, <2>1 DEF Numbered
  <2>3. \A a \in r.attempts : a.iter <= r.iter /\ a.role \in r.roles
    BY <1>1, <1>2, <1>3, <1>5 DEF RoundsOK, Run
  <2>4. \A a, b \in r.attempts : a.role = b.role /\ a.iter = b.iter => a = b
    BY <1>1, <1>2, <1>3, <1>5 DEF RoundsOK, Attempted
  <2> QED BY <1>5, <2>2, <2>3, <2>4 DEF RoundsOK
<1>8. RunInv(s, r)
  BY <1>5, <1>6, <1>7 DEF RunInv
<1> QED BY <1>1, <1>8, RunStep

LEMMA CandidateStep ==
    ASSUME WorkflowInv, NEW s \in State, NEW n \in 1 .. MaxRounds, AggregateCandidate(s, n)
    PROVE  WorkflowInv'
<1> DEFINE o == run[s]
           saw == CurrentAttempts(o)
           honest == StillHonest(o, n)
           r == [o EXCEPT !.honest = honest, !.stage = "reviewing",
                          !.candidate = [round |-> n, saw |-> saw]]
<1>1. /\ RunInv(s, o) /\ o.stage = "judging" /\ Becomes(s, r)
      /\ \A role \in o.roles : Attempted(o, role)
  BY DEF AggregateCandidate, At, Running, WorkflowInv
<1>2. o \in Run /\ RoundsOK(o) /\ RunOK(s, o)
  BY <1>1 DEF RunInv, RunOK
<1> HIDE DEF o
<1>3. saw \subseteq o.attempts /\ o.attempts \subseteq Attempt
  BY <1>2 DEF CurrentAttempts, Run
<1>4. honest \in BOOLEAN /\ (honest => o.honest /\ n = Round(o))
  BY <1>2 DEF StillHonest, Run
<1>5. honest => n = o.iter /\ Numbered(o) /\ saw = {a \in o.attempts : a.iter = o.iter}
  <2> SUFFICES ASSUME honest
               PROVE  n = o.iter /\ Numbered(o) /\ saw = {a \in o.attempts : a.iter = o.iter}
    OBVIOUS
  <2>1. Numbered(o) /\ Round(o) = o.iter /\ n = o.iter
    BY <1>1, <1>2, <1>4 DEF RoundsOK, Numbered, Round, RunOK, Run
  <2>2. \A a \in o.attempts : a.round = a.iter
    BY <2>1 DEF Numbered
  <2>3. \A a, b \in o.attempts : a.iter = o.iter => b.iter <= a.iter
    BY <1>2 DEF RoundsOK
  <2>4. \A a \in o.attempts : a \in saw <=> a.iter = o.iter
    BY <2>1, <2>2, <2>3 DEF CurrentAttempts, IsLatest
  <2>5. saw = {a \in o.attempts : a.iter = o.iter}
    BY <1>3, <2>4
  <2> QED BY <2>1, <2>5
<1> HIDE DEF saw, honest
<1>6. /\ r \in Run /\ r.attempts = o.attempts /\ r.honest = honest
      /\ r.stage = "reviewing" /\ r.max = o.max /\ r.prev = o.prev /\ r.roles = o.roles
      /\ r.iter = o.iter /\ r.reviewed = o.reviewed
      /\ r.candidate.round = n /\ r.candidate.saw = saw
  <2>1. [round |-> n, saw |-> saw] \in [round: 0 .. MaxRounds, saw: SUBSET Attempt]
    BY <1>3, WorkflowAssumption
  <2> DEFINE candidate == [round |-> n, saw |-> saw]
  <2>2. candidate.round = n /\ candidate.saw = saw
    OBVIOUS
  <2> HIDE DEF candidate
  <2> QED BY <1>2, <1>4, <2>1, <2>2 DEF Run, Stage
<1> HIDE DEF r
<1>7. RunOK(s, r)
  BY <1>2, <1>6 DEF RunOK, Round
<1>8. RoundsOK(r)
  <2>1. honest => Numbered(r)
    BY <1>1, <1>5, <1>6 DEF Numbered
  <2> QED BY <1>1, <1>2, <1>6, <2>1 DEF RoundsOK, Attempted
<1>9. RunInv(s, r)
  BY <1>6, <1>7, <1>8 DEF RunInv
<1> QED BY <1>1, <1>9, RunStep

LEMMA ReviewStep ==
    ASSUME WorkflowInv, NEW s \in State, NEW n \in 1 .. MaxRounds,
           ReviewAgain(s, n) \/ ReviewEnds(s, n)
    PROVE  WorkflowInv'
<1> DEFINE o == run[s]
           honest == StillHonest(o, n)
           again == [o EXCEPT !.honest = honest, !.reviewed = n, !.iter = @ + 1,
                              !.stage = "judging"]
           over == [o EXCEPT !.honest = honest, !.reviewed = n, !.stage = "aggregating"]
<1>1. /\ RunInv(s, o) /\ o.stage = "reviewing"
      /\ \/ Becomes(s, again) /\ o.iter < o.max
         \/ Becomes(s, over)
  BY DEF ReviewAgain, ReviewEnds, At, Running, WorkflowInv
<1>2. o \in Run /\ RoundsOK(o) /\ RunOK(s, o)
  BY <1>1 DEF RunInv, RunOK
<1> HIDE DEF o
<1>3. /\ honest \in BOOLEAN
      /\ honest => n = o.iter /\ Numbered(o)
  BY <1>1, <1>2 DEF StillHonest, RoundsOK, Numbered, Round, RunOK, Run
<1> HIDE DEF honest
<1>4. CASE Becomes(s, again) /\ o.iter < o.max
  <2>1. /\ again \in Run /\ again.attempts = o.attempts /\ again.honest = honest
        /\ again.stage = "judging" /\ again.max = o.max /\ again.prev = o.prev
        /\ again.roles = o.roles /\ again.iter = o.iter + 1 /\ again.reviewed = n
    <3>1. n \in 0 .. MaxRounds /\ o.iter + 1 \in 1 .. MaxRounds
      BY <1>2, <1>4, WorkflowAssumption DEF Run
    <3> QED BY <1>2, <1>3, <3>1 DEF Run, Stage
  <2> HIDE DEF again
  <2>2. RunOK(s, again)
    BY <1>2, <1>4, <2>1, WorkflowAssumption DEF RunOK, Round, Run
  <2>3. honest => Numbered(again)
    BY <1>2, <1>3, <2>1 DEF Numbered, Run
  <2>4. \A a \in o.attempts : a.iter <= o.iter + 1 /\ a.role \in o.roles
    BY <1>2 DEF RoundsOK, Run, Attempt
  <2>5. RoundsOK(again)
    BY <1>2, <2>1, <2>3, <2>4 DEF RoundsOK
  <2>6. RunInv(s, again)
    BY <2>1, <2>2, <2>5 DEF RunInv
  <2> QED BY <1>4, <2>6, RunStep
<1>5. CASE Becomes(s, over)
  <2>1. /\ over \in Run /\ over.attempts = o.attempts /\ over.honest = honest
        /\ over.stage = "aggregating" /\ over.max = o.max /\ over.prev = o.prev
        /\ over.roles = o.roles /\ over.iter = o.iter /\ over.reviewed = n
        /\ over.candidate = o.candidate
    <3>1. n \in 0 .. MaxRounds
      BY WorkflowAssumption
    <3> QED BY <1>2, <1>3, <3>1 DEF Run, Stage
  <2> HIDE DEF over
  <2>2. RunOK(s, over)
    BY <1>2, <2>1, WorkflowAssumption DEF RunOK, Round, Run
  <2>3. honest => Numbered(over)
    BY <1>1, <1>3, <2>1 DEF Numbered
  <2>4. RoundsOK(over)
    BY <1>1, <1>2, <2>1, <2>3 DEF RoundsOK, Attempted
  <2>5. RunInv(s, over)
    BY <2>1, <2>2, <2>4 DEF RunInv
  <2> QED BY <1>5, <2>5, RunStep
<1> QED BY <1>1, <1>4, <1>5

LEMMA AggregateStep ==
    ASSUME WorkflowInv, NEW s \in State, Aggregate(s)
    PROVE  WorkflowInv'
<1> DEFINE o == run[s]
           res == ForecastStateOf(o)
           r == [o EXCEPT !.stage = "done", !.result = res]
<1>1. RunInv(s, o) /\ o.stage = "aggregating" /\ Becomes(s, r)
  BY DEF Aggregate, At, Running, WorkflowInv
<1>2. o \in Run /\ RoundsOK(o) /\ RunOK(s, o)
  BY <1>1 DEF RunInv, RunOK
<1>3. res \in Content
  BY <1>2, StateType DEF WorkflowInv
<1> HIDE DEF o
<1>4. /\ r \in Run /\ r.attempts = o.attempts /\ r.honest = o.honest /\ r.dossier = o.dossier
      /\ r.stage = "done" /\ r.max = o.max /\ r.prev = o.prev /\ r.asOf = o.asOf
      /\ r.roles = o.roles /\ r.iter = o.iter /\ r.reviewed = o.reviewed
      /\ r.candidate = o.candidate /\ r.result = res
  BY <1>2, <1>3 DEF Run, Stage
<1> HIDE DEF r
<1>5. ForecastStateOf(r) = res
  BY <1>4 DEF ForecastStateOf, Claims, Sources, Isolated, Prior, Reported, Admissible,
     Quarantined, Contaminated, Invalidated, FinalAttempts, FlaggedAttempts, Exposed
<1>6. RunOK(s, r)
  BY <1>2, <1>3, <1>4, WorkflowAssumption DEF RunOK, Round
<1>7. RoundsOK(r)
  BY <1>1, <1>2, <1>4 DEF RoundsOK, Numbered, Attempted
<1>8. RunInv(s, r)
  BY <1>4, <1>5, <1>6, <1>7 DEF RunInv
<1> QED BY <1>1, <1>8, RunStep

LEMMA FailStep ==
    ASSUME WorkflowInv, NEW s \in State, RunFails(s)
    PROVE  WorkflowInv'
BY RunStep DEF RunFails

-----------------------------------------------------------------------------
(* The chain *)

(* What a run or a snapshot has concluded from its predecessor stays true  *)
(* when another snapshot is published, for the predecessor is not new.     *)
LEMMA CommitStep ==
    ASSUME WorkflowInv, NEW s \in State, NEW flagged \in BOOLEAN, Commit(s, flagged)
    PROVE  WorkflowInv'
<1> DEFINE o == run[s]
           q == o.question
           new == [o.result EXCEPT !.isolated = @ /\ ~ flagged]
           row == [question |-> q, prev |-> head[q], asOf |-> o.asOf]
<1>1. /\ RunInv(s, o) /\ o.stage = "done" /\ o.prev = head[q]
      /\ link' = [link EXCEPT ![s] = row] /\ head' = [head EXCEPT ![q] = s]
      /\ content' = [content EXCEPT ![s] = new] /\ run' = [run EXCEPT ![s] = None]
  BY DEF Commit, Publish, At, Running, WorkflowInv
<1>2. o \in Run /\ RunOK(s, o) /\ o.result = ForecastStateOf(o)
  BY <1>1 DEF RunInv, RunOK
<1>3. o.result \in Content
  BY <1>2, StateType DEF WorkflowInv
<1>4. q \in Question /\ o.asOf \in Instant \cup {None}
  BY <1>2 DEF Run
<1>5. /\ new \in Content /\ new.claims = o.result.claims /\ new.sources = o.result.sources
      /\ new.invalidated = o.result.invalidated /\ (new.isolated => o.result.isolated)
  BY <1>3 DEF Content
<1>6. row \in Link /\ row.prev = head[q] /\ row.asOf = o.asOf /\ row # None /\ new # None
  <2>1. head[q] \in State \cup {None}
    BY <1>4 DEF WorkflowInv, ChainOK
  <2>2. row \in Link
    BY <1>4, <2>1 DEF Link
  <2> QED BY <1>5, <2>2, WorkflowAssumption
<1>7. ChainOK /\ ContentOK /\ link[s] = None /\ content[s] = None
  BY <1>2 DEF WorkflowInv, RunOK, ContentOK
<1> HIDE DEF new, row, o
<1>8. /\ link'[s] = row /\ \A t \in State \ {s} : link'[t] = link[t]
      /\ content'[s] = new /\ \A t \in State \ {s} : content'[t] = content[t]
      /\ head'[q] = s /\ \A p \in Question \ {q} : head'[p] = head[p]
  BY <1>1, <1>4, <1>7 DEF ChainOK, ContentOK
<1> HIDE DEF q
<1>9. \A p \in State : content[p] # None => p # s /\ content'[p] = content[p] /\ content'[p] # None
  BY <1>7, <1>8
<1>10. ChainOK'
  <2>1. link' \in [State -> Link \cup {None}] /\ head' \in [Question -> State \cup {None}]
    BY <1>1, <1>4, <1>6, <1>7 DEF ChainOK
  <2>2. \A p \in Question : head'[p] # None => content'[head'[p]] # None
    BY <1>6, <1>7, <1>8, <1>9 DEF ChainOK
  <2>3. \A t \in State : link'[t] # None /\ link'[t].prev # None => content'[link'[t].prev] # None
    <3>1. row.prev # None => content'[row.prev] # None
      BY <1>4, <1>6, <1>7, <1>9 DEF ChainOK
    <3>2. \A t \in State : link[t] # None /\ link[t].prev # None =>
             link[t].prev \in State /\ content[link[t].prev] # None
      BY <1>7 DEF ChainOK, Link
    <3> QED BY <1>8, <1>9, <3>1, <3>2
  <2> QED BY <2>1, <2>2, <2>3 DEF ChainOK
<1>11. ContentOK'
  <2>1. content' \in [State -> Content \cup {None}]
    BY <1>1, <1>5, <1>7 DEF ContentOK
  <2>2. \A t \in State : link'[t] # None <=> content'[t] # None
    BY <1>6, <1>7, <1>8 DEF ContentOK
  <2>3. PublishedIsClean(s)'
    <3>1. new.isolated => \A c \in new.sources : c \notin StatePattern /\ ~ Late(c, row.asOf)
      BY <1>2, <1>5, <1>6, <1>7, IsolatedRun
    <3> QED BY <1>8, <3>1 DEF PublishedIsClean, Late
  <2>4. ClaimsAreKept(s)'
    <3>1. PICK p, cutoff : p = row.prev /\ cutoff = row.asOf
      OBVIOUS
    <3>2. SUFFICES ASSUME p # None, Usable(p, cutoff)'
                   PROVE  content'[p].claims \ new.claims \subseteq new.invalidated
      BY <1>8, <3>1 DEF ClaimsAreKept, Usable, Late
    <3>3. content'[p] = content[p]
      BY <1>4, <1>6, <1>7, <1>9, <3>1, <3>2 DEF ChainOK
    <3>4. Usable(p, cutoff)
      BY <3>2, <3>3 DEF Usable, Late
    <3> QED BY <1>1, <1>2, <1>5, <1>6, <3>1, <3>2, <3>3, <3>4, KeptByRun
  <2>5. ASSUME NEW t \in State \ {s}, content[t] # None
        PROVE  PublishedIsClean(t)' /\ ClaimsAreKept(t)'
    <3>1. content'[t] = content[t] /\ link'[t] = link[t] /\ link[t] # None
      BY <1>7, <1>8, <2>5 DEF ContentOK
    <3>2. link[t].prev # None => content'[link[t].prev] = content[link[t].prev]
      <4>1. link[t].prev # None => link[t].prev \in State /\ content[link[t].prev] # None
        BY <1>7, <3>1 DEF ChainOK, Link
      <4> QED BY <1>9, <4>1
    <3>3. PublishedIsClean(t) /\ ClaimsAreKept(t)
      BY <1>7, <2>5 DEF ContentOK
    <3> QED BY <3>1, <3>2, <3>3 DEF PublishedIsClean, ClaimsAreKept, Usable, Late
  <2> QED BY <1>8, <2>1, <2>2, <2>3, <2>4, <2>5 DEF ContentOK
<1>12. DOMAIN run' = State /\ run'[s] = None /\ \A t \in State \ {s} : run'[t] = run[t]
  BY <1>1 DEF WorkflowInv
<1>13. ASSUME NEW t \in State, Running(t)'
       PROVE  RunInv(t, run[t])'
  <2>1. t # s
    BY <1>12, <1>13 DEF Running
  <2>2. PICK x : x = run'[t]
    OBVIOUS
  <2>3. RunInv(t, x)
    BY <1>12, <1>13, <2>1, <2>2 DEF WorkflowInv, Running
  <2>4. x \in Run /\ (x.prev # None => content[x.prev] # None)
    BY <2>3 DEF RunInv, RunOK
  <2>5. x.prev # None => content'[x.prev] = content[x.prev] /\ content'[x.prev] # None
    BY <1>9, <2>4 DEF Run
  <2>6. link'[t] = link[t]
    BY <1>8, <2>1
  <2>7. RunInv(t, x)'
    BY <2>3, <2>5, <2>6
    DEF RunInv, RunOK, ForecastStateOf, Claims, Sources, Isolated, Prior, Usable
  <2> QED BY <2>2, <2>7
<1> QED BY <1>10, <1>11, <1>12, <1>13 DEF WorkflowInv

(* Closings change no snapshot. *)
LEMMA QuietStep ==
    ASSUME WorkflowInv, UNCHANGED <<head, link, run, content>>
    PROVE  WorkflowInv'
<1>1. ChainOK'
  BY DEF WorkflowInv, ChainOK
<1>2. ContentOK'
  BY DEF WorkflowInv, ContentOK, PublishedIsClean, ClaimsAreKept, Usable
<1>3. ASSUME NEW t \in State, Running(t)'
      PROVE  RunInv(t, run[t])'
  <2>1. PICK x : x = run'[t]
    OBVIOUS
  <2>2. RunInv(t, x)
    BY <1>3, <2>1 DEF WorkflowInv, Running
  <2>3. RunInv(t, x)'
    BY <2>2 DEF RunInv, RunOK, ForecastStateOf, Claims, Sources, Isolated, Prior, Usable
  <2> QED BY <2>1, <2>3
<1> QED BY <1>1, <1>2, <1>3 DEF WorkflowInv

LEMMA WorkflowStarts == WorkflowInit => WorkflowInv
BY WorkflowAssumption
DEF WorkflowInit, ChainInit, WorkflowInv, ChainOK, ContentOK, Running

LEMMA WorkflowSteps == WorkflowInv /\ [WorkflowNext]_workflowVars => WorkflowInv'
<1> SUFFICES ASSUME WorkflowInv, [WorkflowNext]_workflowVars
             PROVE  WorkflowInv'
  OBVIOUS
<1>1. ASSUME NEW q \in Question, NEW s \in State, NEW asOf \in Instant \cup {None},
             NEW shared \in BOOLEAN, Launch(q, s, asOf, shared)
      PROVE  WorkflowInv'
  BY <1>1, LaunchStep
<1>2. ASSUME NEW s \in State, NEW roles \in SUBSET Role, NEW max \in 1 .. MaxRounds,
             PlanRun(s, roles, max)
      PROVE  WorkflowInv'
  BY <1>2, PlanStep
<1>3. ASSUME NEW s \in State, NEW d \in Dossiers, WriteDossier(s, d)
      PROVE  WorkflowInv'
  BY <1>3, DossierStep
<1>4. ASSUME NEW s \in State, NEW role \in Role, NEW rep \in Reports, NEW n \in 1 .. MaxRounds,
             Judge(s, role, rep, n)
      PROVE  WorkflowInv'
  BY <1>4, JudgeStep
<1>5. ASSUME NEW s \in State, NEW n \in 1 .. MaxRounds, AggregateCandidate(s, n)
      PROVE  WorkflowInv'
  BY <1>5, CandidateStep
<1>6. ASSUME NEW s \in State, NEW n \in 1 .. MaxRounds, ReviewAgain(s, n) \/ ReviewEnds(s, n)
      PROVE  WorkflowInv'
  BY <1>6, ReviewStep
<1>7. ASSUME NEW s \in State, Aggregate(s)
      PROVE  WorkflowInv'
  BY <1>7, AggregateStep
<1>8. ASSUME NEW s \in State, NEW flagged \in BOOLEAN, Commit(s, flagged)
      PROVE  WorkflowInv'
  BY <1>8, CommitStep
<1>9. ASSUME NEW s \in State, RunFails(s)
      PROVE  WorkflowInv'
  BY <1>9, FailStep
<1>10. ASSUME NEW q \in Question, Resolve(q)
       PROVE  WorkflowInv'
  BY <1>10, QuietStep DEF Resolve, Close
<1>11. CASE UNCHANGED workflowVars
  BY <1>11, QuietStep DEF workflowVars, chainVars
<1> QED BY <1>1, <1>2, <1>3, <1>4, <1>5, <1>6, <1>7, <1>8, <1>9, <1>10, <1>11
        DEF WorkflowNext

LEMMA WorkflowInvariant == WorkflowSpec => []WorkflowInv
BY WorkflowStarts, WorkflowSteps, PTL DEF WorkflowSpec

-----------------------------------------------------------------------------
(* Theorems *)

(* Every run has the shape the workflow gives it, continues a published    *)
(* snapshot and names no round beyond its plan; published snapshots have   *)
(* contents and no run. *)
THEOREM WorkflowTypeCorrect == WorkflowSpec => []WorkflowTypeOK
BY WorkflowInvariant, InvariantSuffices, PTL

(* Whatever the number of roles and rounds, the state of an honest run is  *)
(* made of one attempt per selected role, those of its last iteration,     *)
(* which are those its candidate was shown. *)
THEOREM LastRoundCorrect == WorkflowSpec => []LastRoundDecides
BY WorkflowInvariant, InvariantSuffices, PTL

(* Whatever the models report, a run counts as isolated only if nothing in *)
(* any of its rounds was exposed, and what it did not report itself comes  *)
(* from an isolated predecessor. *)
THEOREM IsolationCorrect == WorkflowSpec => []IsolatedIsClean
BY WorkflowInvariant, InvariantSuffices, PTL

(* Along chains of any length, claims of usable predecessors disappear     *)
(* only by an invalidation that the snapshot names. *)
THEOREM EvidenceCorrect == WorkflowSpec => []EvidenceIsKept
BY WorkflowInvariant, InvariantSuffices, PTL

(* The workflow publishes the way readers of a question are promised. *)
THEOREM WorkflowRefinement == WorkflowSpec => ChainSpec
<1>1. WorkflowInit => ChainInit
  BY DEF WorkflowInit
<1>2. WorkflowInv /\ [WorkflowNext]_workflowVars => [ChainNext]_chainVars
  <2> SUFFICES ASSUME WorkflowInv, [WorkflowNext]_workflowVars, chainVars' # chainVars
               PROVE  ChainNext
    OBVIOUS
  <2>1. \/ \E s \in State, flagged \in BOOLEAN : Commit(s, flagged)
        \/ \E q \in Question : Resolve(q)
    BY DEF WorkflowNext, workflowVars, Launch, PlanRun, WriteDossier, Judge,
       AggregateCandidate, ReviewAgain, ReviewEnds, Aggregate, RunFails, Becomes
  <2>2. ASSUME NEW s \in State, NEW flagged \in BOOLEAN, Commit(s, flagged)
        PROVE  ChainNext
    <3>1. run[s] \in Run
      BY <2>2 DEF WorkflowInv, RunInv, RunOK, Commit, At, Running
    <3>2. run[s].question \in Question /\ run[s].asOf \in Instant \cup {None}
      BY <3>1 DEF Run
    <3> QED BY <2>2, <3>2 DEF Commit, ChainNext
  <2>3. ASSUME NEW q \in Question, Resolve(q)
        PROVE  ChainNext
    BY <2>3 DEF Resolve, ChainNext
  <2> QED BY <2>1, <2>2, <2>3
<1> QED BY <1>1, <1>2, WorkflowInvariant, PTL DEF WorkflowSpec, ChainSpec
===============================================================================
