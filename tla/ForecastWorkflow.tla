--------------------------- MODULE ForecastWorkflow ---------------------------
(***************************************************************************)
(* One run of the binary forecast workflow, from its launch on the head of *)
(* a question to the snapshot it publishes, and what such runs hand on     *)
(* to each other: the evidence of the snapshots and whether it is isolated *)
(* from the forecasts of other people.                                     *)
(*   packages/workflows/src/binary-forecast.workflow.tsx                   *)
(*   packages/workflows/src/forecast-{state,research-dossier,              *)
(*     information-isolation,evidence-workspace}.ts                        *)
(*   packages/backend/src/run-service.ts (the audit before a commit)       *)
(*                                                                         *)
(* Planner, researcher, judges, evaluator and reviewer are language models *)
(* and may report anything their schema allows; everything that is decided *)
(* about their reports is code.  Publishing is Publish of SnapshotChain.   *)
(***************************************************************************)
EXTENDS SnapshotChain, FiniteSets

CONSTANTS
    Claim,          \* atomic claims, each with the source it is reported from
    Published,      \* Published[c]: when that source was published, or None
    DossierPattern, \* claims that explicitHumanForecastPattern matches
    StatePattern,   \* claims that isHumanForecastSource matches
    JudgePattern,   \* claims that textReportsPossibleHumanForecastExposure matches
    Role,           \* the roles but market-consensus
    MinPanel,       \* selectRoles takes at least two
    MaxRounds,      \* selectMaxIterations: three
    Dossiers,       \* dossiers the researcher may write
    Reports,        \* what a judge may cite and admit
    MaxRunning      \* bound: runs at the same time

VARIABLES
    run,            \* run[s]: the Smithers run whose state would be s, or None
    content         \* content[s]: what published snapshot s says, or None

workflowVars == <<chainVars, run, content>>

Stage == {"planning", "researching", "judging", "reviewing", "aggregating", "done"}
Dossier == [sources: SUBSET Claim, marked: SUBSET Claim, leak: BOOLEAN, invalid: SUBSET Claim]
Report == [cites: SUBSET Claim, admits: BOOLEAN]
Attempt == [role: Role, iter: 1 .. MaxRounds, round: 1 .. MaxRounds,
            cites: SUBSET Claim, admits: BOOLEAN]
Content == [claims: SUBSET Claim, sources: SUBSET Claim, isolated: BOOLEAN,
            invalidated: SUBSET Claim]
Run == [question: Question, prev: State \cup {None}, asOf: Instant \cup {None},
        shared: BOOLEAN, stage: Stage, roles: SUBSET Role, max: 1 .. MaxRounds,
        iter: 1 .. MaxRounds, dossier: Dossier, attempts: SUBSET Attempt,
        candidate: [round: 0 .. MaxRounds, saw: SUBSET Attempt],
        reviewed: 0 .. MaxRounds, honest: BOOLEAN, result: Content \cup {None}]
Link == [question: Question, prev: State \cup {None}, asOf: Instant \cup {None}]

ASSUME WorkflowAssumption ==
    /\ DossierPattern \cup StatePattern \cup JudgePattern \subseteq Claim
    /\ Published \in [Claim -> Nat \cup {None}] /\ Instant \subseteq Nat
    /\ None \notin State \cup Nat \cup Content \cup Link
    /\ MinPanel \in Nat /\ MaxRounds \in Nat \ {0} /\ MaxRunning \in Nat
    /\ Dossiers \subseteq Dossier /\ Reports \subseteq Report

WorkflowInit ==
    /\ ChainInit
    /\ run = [s \in State |-> None]
    /\ content = [s \in State |-> None]

Running(s) == run[s] # None

-----------------------------------------------------------------------------
(* Evidence *)

Late(c, cutoff) == cutoff # None /\ Published[c] # None /\ Published[c] > cutoff

(* previousResearchIsAutonomousSafe: what run r may build upon.            *)
NoEvidence == [claims |-> {}, sources |-> {}]
Usable(p, cutoff) ==
    /\ content[p].isolated
    /\ \A c \in content[p].sources : c \notin JudgePattern /\ ~ Late(c, cutoff)
Prior(r) ==
    IF r.prev # None /\ Usable(r.prev, r.asOf) THEN content[r.prev] ELSE NoEvidence

(* sanitizeResearchDossierForJudgment.  A treatment without a shared       *)
(* dossier is one with an empty dossier.                                   *)
EmptyDossier == [sources |-> {}, marked |-> {}, leak |-> FALSE, invalid |-> {}]
Quarantined(r) ==
    {c \in r.dossier.sources :
        c \in r.dossier.marked \cup DossierPattern \/ Late(c, r.asOf)}
Contaminated(r) == r.dossier.leak \/ Quarantined(r) # {}
Admissible(r) == r.dossier.sources \ Quarantined(r)
InvalidatedAlways(r) == r.dossier.invalid
Invalidated(r) == IF Contaminated(r) THEN {} ELSE r.dossier.invalid

(* Flags of one attempt. *)
Exposed(r, a) == a.admits \/ \E c \in a.cites : c \in JudgePattern \/ Late(c, r.asOf)

-----------------------------------------------------------------------------
(* Rounds: the loop counts iterations, the prompts and the code count the  *)
(* rounds that the last review names.                                      *)

UnclampedRound(r) == r.reviewed + 1
ReviewedRound(r) == IF r.reviewed > 0 THEN r.reviewed ELSE 1
Round(r) == IF r.reviewed + 1 < r.max THEN r.reviewed + 1 ELSE r.max

Attempted(r, role) == \E a \in r.attempts : a.role = role /\ a.iter = r.iter

(* ctx.latest of each role, if it is of this round. *)
IsLatest(r, a) == \A b \in r.attempts : b.role = a.role => b.iter <= a.iter
CurrentAttempts(r) == {a \in r.attempts : IsLatest(r, a) /\ a.round = Round(r)}

(* The attempts the state is made of: those of the round the candidate     *)
(* names or, if there are none, its component probabilities.               *)
FinalAttempts(r) ==
    LET named == {a \in r.attempts : a.round = r.candidate.round}
    IN  IF named # {} THEN named ELSE {[a EXCEPT !.cites = {}] : a \in r.candidate.saw}

(* A model may get one round number of a run wrong (bound). *)
Told(r, n) == n \in 1 .. MaxRounds /\ (r.honest \/ n = Round(r))
StillHonest(r, n) == r.honest /\ n = Round(r)

-----------------------------------------------------------------------------
(* buildForecastState *)

Reported(r) == Admissible(r) \cup UNION {a.cites : a \in FinalAttempts(r)}
Sources(r) == Prior(r).sources \cup Reported(r)
Claims(r) == (Prior(r).claims \cup Reported(r)) \ Invalidated(r)

FlaggedFinalAttempts(r) == FinalAttempts(r)
FlaggedAttempts(r) == r.attempts
Isolated(r) ==
    /\ ~ Contaminated(r)
    /\ \A a \in FlaggedAttempts(r) : ~ Exposed(r, a)
    /\ \A c \in Sources(r) : c \notin StatePattern /\ ~ Late(c, r.asOf)

ForecastStateOf(r) ==
    [claims |-> Claims(r), sources |-> Sources(r), isolated |-> Isolated(r),
     invalidated |-> Invalidated(r)]

-----------------------------------------------------------------------------
(* A run *)

Becomes(s, r) ==
    /\ run' = [run EXCEPT ![s] = r]
    /\ UNCHANGED <<chainVars, content>>

NewRun(q, asOf, shared) ==
    [question |-> q, prev |-> head[q], asOf |-> asOf, shared |-> shared,
     stage |-> "planning", roles |-> {}, max |-> 1, iter |-> 1,
     dossier |-> EmptyDossier, attempts |-> {}, candidate |-> [round |-> 0, saw |-> {}],
     reviewed |-> 0, honest |-> TRUE, result |-> None]
Launch(q, s, asOf, shared) ==
    /\ ~ Running(s) /\ link[s] = None /\ ~ closed[q]
    /\ head[q] # None => asOf # None
    /\ Cardinality({t \in State : Running(t)}) < MaxRunning
    /\ Becomes(s, NewRun(q, asOf, shared))

At(s, stage) == Running(s) /\ run[s].stage = stage

PlanRun(s, roles, max) ==
    /\ At(s, "planning")
    /\ Cardinality(roles) >= MinPanel
    /\ Becomes(s, [run[s] EXCEPT !.roles = roles, !.max = max,
                   !.stage = IF run[s].shared THEN "researching" ELSE "judging"])

WriteDossier(s, d) ==
    /\ At(s, "researching")
    /\ Becomes(s, [run[s] EXCEPT !.dossier = d, !.stage = "judging"])

(* The judges of a round work in parallel. *)
NewAttempt(r, role, rep, n) ==
    [role |-> role, iter |-> r.iter, round |-> n, cites |-> rep.cites, admits |-> rep.admits]
Judge(s, role, rep, n) ==
    /\ At(s, "judging") /\ role \in run[s].roles
    /\ ~ Attempted(run[s], role) /\ Told(run[s], n)
    /\ Becomes(s, [run[s] EXCEPT !.honest = StillHonest(run[s], n),
                   !.attempts = @ \cup {NewAttempt(run[s], role, rep, n)}])

AggregateCandidate(s, n) ==
    /\ At(s, "judging") /\ \A role \in run[s].roles : Attempted(run[s], role)
    /\ Told(run[s], n)
    /\ Becomes(s, [run[s] EXCEPT !.honest = StillHonest(run[s], n), !.stage = "reviewing",
                   !.candidate = [round |-> n, saw |-> CurrentAttempts(run[s])]])

(* The loop ends with an approval, which any review may give, or with its  *)
(* last iteration.                                                         *)
ReviewAgain(s, n) ==
    /\ At(s, "reviewing") /\ Told(run[s], n) /\ run[s].iter < run[s].max
    /\ Becomes(s, [run[s] EXCEPT !.honest = StillHonest(run[s], n), !.reviewed = n,
                   !.iter = @ + 1, !.stage = "judging"])
ReviewEnds(s, n) ==
    /\ At(s, "reviewing") /\ Told(run[s], n)
    /\ Becomes(s, [run[s] EXCEPT !.honest = StillHonest(run[s], n), !.reviewed = n,
                   !.stage = "aggregating"])

(* Without a component there is no state, and the run publishes nothing.   *)
Aggregate(s) ==
    /\ At(s, "aggregating") /\ FinalAttempts(run[s]) # {}
    /\ Becomes(s, [run[s] EXCEPT !.stage = "done", !.result = ForecastStateOf(run[s])])

(* The ledger is committed with the state as the audit of the observed     *)
(* provider activity leaves it (applyProviderActivityIsolationAudit).      *)
Commit(s, flagged) ==
    /\ At(s, "done") /\ run[s].prev = head[run[s].question]
    /\ Publish(run[s].question, s, run[s].asOf)
    /\ content' = [content EXCEPT ![s] =
           [run[s].result EXCEPT !.isolated = @ /\ ~ flagged]]
    /\ run' = [run EXCEPT ![s] = None]

(* A run that fails, and one whose commit is refused, leaves nothing.      *)
RunFails(s) == Running(s) /\ Becomes(s, None)

Resolve(q) == ~ closed[q] /\ Close(q) /\ UNCHANGED <<run, content>>

WorkflowNext ==
    \/ \E q \in Question, s \in State, asOf \in Instant \cup {None}, shared \in BOOLEAN :
           Launch(q, s, asOf, shared)
    \/ \E s \in State, roles \in SUBSET Role, max \in 1 .. MaxRounds : PlanRun(s, roles, max)
    \/ \E s \in State, d \in Dossiers : WriteDossier(s, d)
    \/ \E s \in State, role \in Role, rep \in Reports, n \in 1 .. MaxRounds :
           Judge(s, role, rep, n)
    \/ \E s \in State, n \in 1 .. MaxRounds : AggregateCandidate(s, n)
    \/ \E s \in State, n \in 1 .. MaxRounds : ReviewAgain(s, n) \/ ReviewEnds(s, n)
    \/ \E s \in State : Aggregate(s)
    \/ \E s \in State, flagged \in BOOLEAN : Commit(s, flagged)
    \/ \E s \in State : RunFails(s)
    \/ \E q \in Question : Resolve(q)

WorkflowSpec == WorkflowInit /\ [][WorkflowNext]_workflowVars

-----------------------------------------------------------------------------
(* What runs have to keep *)

(* Every published snapshot has its contents and no run, a run continues   *)
(* a published snapshot, and no prompt names a round beyond the planned    *)
(* number (clampInteger of selectMaxIterations, and round).                *)
RunOK(s, r) ==
    /\ r \in Run /\ link[s] = None
    /\ r.prev # None => content[r.prev] # None
    /\ r.iter <= r.max /\ Round(r) \in 1 .. r.max
    /\ r.stage = "done" => r.result # None
WorkflowTypeOK ==
    /\ DOMAIN run = State
    /\ content \in [State -> Content \cup {None}]
    /\ \A s \in State : link[s] # None <=> content[s] # None
    /\ \A s \in State : Running(s) => RunOK(s, run[s])

(* If the models number their reports as they are told, a forecast is made *)
(* of one attempt of every selected role, those of the last iteration, and *)
(* the candidate was shown exactly these: nothing of a round that was      *)
(* rejected counts, and nothing of the last one is lost (currentAttempts,  *)
(* finalRoundAttempts).                                                    *)
LastPanel(r, attempts) ==
    /\ \A a \in attempts : a.iter = r.iter /\ a.role \in r.roles
    /\ \A role \in r.roles : \E a \in attempts : a.role = role
    /\ \A a, b \in attempts : a.role = b.role => a = b
LastRoundDecides ==
    \A s \in State : At(s, "done") /\ run[s].honest =>
        /\ LastPanel(run[s], FinalAttempts(run[s]))
        /\ run[s].candidate.saw = FinalAttempts(run[s])

(* A run is isolated only if its dossier had nothing to quarantine and no  *)
(* attempt of any of its rounds, however it was numbered and whether or    *)
(* not it counts, knew the forecasts of others or later sources; what it   *)
(* says beyond its own reports, it has from an isolated predecessor.  No   *)
(* audit makes a snapshot isolated whose run was not.  This is about the   *)
(* evidence; the predecessor itself need not be isolated, see below.       *)
OwnReports(r) == r.dossier.sources \cup UNION {a.cites : a \in r.attempts}
Clean(r) ==
    /\ ~ r.dossier.leak
    /\ r.dossier.sources \cap (DossierPattern \cup r.dossier.marked) = {}
    /\ \A a \in r.attempts : ~ a.admits /\ a.cites \cap JudgePattern = {}
    /\ \A c \in OwnReports(r) : ~ Late(c, r.asOf)
Inherited(r, c) ==
    r.prev # None /\ content[r.prev].isolated /\ c \in content[r.prev].claims
IsolatedIsClean ==
    /\ \A s \in State : At(s, "done") /\ run[s].result.isolated =>
           /\ Clean(run[s])
           /\ \A c \in run[s].result.claims \ OwnReports(run[s]) : Inherited(run[s], c)
    /\ \A s \in State : content[s] # None /\ content[s].isolated =>
           \A c \in content[s].sources : c \notin StatePattern /\ ~ Late(c, link[s].asOf)

(* "Non-isolated prior state" makes a forecast ineligible: a snapshot that *)
(* is isolated continues an isolated one.  Code does not say so: Isolated  *)
(* looks at the evidence that is taken over, and nothing is taken over     *)
(* from a predecessor that is not isolated.                                *)
IsolatedHasIsolatedPrior ==
    \A s \in State : content[s] # None /\ content[s].isolated /\ link[s].prev # None =>
        content[link[s].prev].isolated

(* Not being mentioned again is no invalidation: along the chain, a claim  *)
(* of a predecessor that may be used disappears only if the snapshot names *)
(* it as invalidated, which a researcher who met anything forbidden cannot *)
(* achieve.  Of one that may not be used, nothing is taken over.           *)
EvidenceIsKept ==
    /\ \A s \in State : link[s] # None /\ link[s].prev # None =>
           (Usable(link[s].prev, link[s].asOf) =>
                content[link[s].prev].claims \ content[s].claims \subseteq content[s].invalidated)
    /\ \A s \in State : At(s, "done") =>
           /\ run[s].result.invalidated # {} => ~ Contaminated(run[s])
           /\ run[s].prev # None /\ ~ Usable(run[s].prev, run[s].asOf) =>
                  run[s].result.sources \subseteq OwnReports(run[s])
===============================================================================
