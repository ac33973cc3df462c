--------------------------- MODULE WorkflowProposals ---------------------------
(***************************************************************************)
(* Workflow change proposals: the analysis of a benchmark run drafts them, *)
(* people review them, a second run of the same suite validates them, and  *)
(* the pass that finalises that run records its evidence on the proposal.  *)
(*   packages/backend/src/benchmark-service.ts                             *)
(*   packages/backend/src/benchmark-promotion-policy.ts                    *)
(*                                                                         *)
(* Reviews, launches and passes each read the proposal, work, and write it *)
(* back without looking at what it has become.                             *)
(***************************************************************************)
EXTENDS BenchmarkRuns

CONSTANTS
    Reviewer,       \* requests that change the status of the proposal
    MinEvidence,    \* minimumPromotionResultCases, and of pairs and holdouts
    Requests,       \* what they ask for: a status, and an implementation status or None
    MaxRequests     \* bound: reviews and comparisons that people ask for

Status == {"candidate", "accepted", "rejected", "implemented"}
Implementation == {"not_started", "planned", "in_progress", "validated"}
ASSUME ProposalAssumption ==
    /\ MinEvidence \in Nat \ {0} /\ MaxRequests \in Nat
    /\ Requests \subseteq Status \X (Implementation \cup {None})
    /\ None \notin Implementation

VARIABLES
    drafts,         \* drafts[r]: analyses of run r, each with its proposals
    comparison,     \* comparison[r]: recommendation of its comparison report
    proposal,       \* a proposal drafted by the analysis of Source
    reviewer,       \* reviewer[v]: a review under way
    requests        \* reviews and comparisons asked for so far

proposalVars == <<drafts, comparison, proposal, reviewer, requests>>
all == <<runVars, proposalVars>>

Comparison ==
    {"none", "wait_for_completion", "needs_paired_cases", "needs_more_cases",
     "candidate_better", "other"}

Drafted ==
    [status |-> "candidate", impl |-> "not_started", run |-> None,
     evidence |-> None, result |-> None, gate |-> FALSE, completed |-> 0]
NoReview == [pc |-> "idle", read |-> Drafted, compared |-> "none"]
ProposalsInit ==
    /\ RunsInit
    /\ drafts = [r \in Run |-> IF r = Source THEN 1 ELSE 0]
    /\ comparison = [r \in Run |-> "none"]
    /\ proposal \in {Drafted, [Drafted EXCEPT !.status = "accepted", !.impl = "planned"]}
    /\ reviewer = [v \in Reviewer |-> NoReview]
    /\ requests = 0

-----------------------------------------------------------------------------
(* Evidence *)

CompletedCases(r) == {c \in 1 .. run[r].size : result[r][c] = "completed"}

(* comparisonRecommendation of run r with the source run as its baseline.  *)
Paired(r) == Cardinality(CompletedCases(r) \cap CompletedCases(Source))
Recommendation(r) ==
    CASE run[r].status = "running" -> "wait_for_completion"
      [] run[r].status # "running" /\ Paired(r) = 0 -> "needs_paired_cases"
      [] run[r].status # "running" /\ Paired(r) \in 1 .. MinEvidence - 1 -> "needs_more_cases"
      [] OTHER -> IF run[r].good THEN "candidate_better" ELSE "other"

(* summarizeBenchmarkPromotionGateEvidence at the smoke tier.              *)
GateOpen(status, r, recommendation) ==
    /\ status = "completed"
    /\ Cardinality(Recorded(r)) >= MinEvidence
    /\ recommendation = "candidate_better"

(* workflowProposalValidationReadiness of the evidence in a proposal row.  *)
Covered(row) == row.completed >= run[Source].size
Readiness(row, recommendation) ==
    /\ row.result = "completed" /\ row.gate
    /\ Covered(row)
    /\ recommendation = "candidate_better"

-----------------------------------------------------------------------------
(* The rest of finalizeReadyBenchmarkRuns *)

(* The analysis and its proposals; the run is still running.               *)
WriteAnalysis(p) ==
    /\ pass[p].pc = "analysing"
    /\ drafts' = [drafts EXCEPT ![pass[p].cur] = @ + 1]
    /\ PassRow(p, [pass[p] EXCEPT !.pc = "finishing"])
    /\ Keep(p) /\ UNCHANGED <<rows, comparison, proposal, reviewer, requests>>
FinishRun(p) ==
    /\ pass[p].pc = "finishing"
    /\ run' = [run EXCEPT ![pass[p].cur].status = pass[p].verdict]
    /\ PassRow(p, [pass[p] EXCEPT !.pc = "comparing"])
    /\ Keep(p) /\ UNCHANGED <<task, result, scores, proposalVars>>
(* Only the validation run of a proposal is compared.                      *)
CompareRuns(p) ==
    LET r == pass[p].cur
        compared == IF proposal.run = r THEN Recommendation(r) ELSE "none"
    IN
    /\ pass[p].pc = "comparing"
    /\ comparison' = IF proposal.run = r THEN [comparison EXCEPT ![r] = compared] ELSE comparison
    /\ PassRow(p, [pass[p] EXCEPT !.pc = "recording", !.compared = compared])
    /\ Keep(p) /\ UNCHANGED <<rows, drafts, proposal, reviewer, requests>>
RecordedEvidence(r, status, compared) ==
    LET row == [proposal EXCEPT
            !.evidence = r,
            !.result = IF status = "completed" THEN "completed" ELSE "needs_review",
            !.gate = GateOpen(status, r, compared),
            !.completed = Cardinality(CompletedCases(r))]
    IN [row EXCEPT !.impl = IF Readiness(row, compared) THEN "validated" ELSE "in_progress"]
WhereSource(r) == r = Source
WhereRun(r) == proposal.run = r
RecordEvidence(p) ==
    /\ pass[p].pc = "recording"
    /\ proposal' = IF WhereRun(pass[p].cur)
                   THEN RecordedEvidence(pass[p].cur, pass[p].verdict, pass[p].compared)
                   ELSE proposal
    /\ PassRow(p, [IdlePass EXCEPT !.pc = "runs", !.todo = pass[p].todo])
    /\ Keep(p) /\ UNCHANGED <<rows, drafts, comparison, reviewer, requests>>

-----------------------------------------------------------------------------
(* Launches: POST /api/benchmarks, and startWorkflowChangeProposalValidation *)

StartRun(s) ==
    /\ starter[s].pc = "idle"
    /\ \E size \in Case : InsertRun(s, size, None, None)
    /\ UNCHANGED proposalVars
Unvalidated == proposal.run = None
StartValidation(s) ==
    /\ starter[s].pc = "idle"
    /\ proposal.status \in {"accepted", "implemented"}
    /\ Unvalidated
    /\ \E size \in Case : InsertRun(s, size, "proposal", proposal.impl)
    /\ UNCHANGED proposalVars
EndStart(s) ==
    /\ starter[s].pc = "started"
    /\ proposal' = IF starter[s].for = None THEN proposal
                   ELSE [proposal EXCEPT
                       !.run = starter[s].run,
                       !.impl = IF starter[s].from = "validated" THEN "validated" ELSE "in_progress"]
    /\ starter' = [starter EXCEPT ![s] = IdleStarter]
    /\ NoFault
    /\ UNCHANGED <<rows, pass, drafts, comparison, reviewer, requests>>

(* createBenchmarkComparisonReport on request.                             *)
RequestComparison(r) ==
    /\ r # Source /\ run[r].status # "none"
    /\ requests < MaxRequests
    /\ comparison' = [comparison EXCEPT ![r] = Recommendation(r)]
    /\ requests' = requests + 1
    /\ UNCHANGED <<runVars, drafts, proposal, reviewer>>

-----------------------------------------------------------------------------
(* updateWorkflowChangeProposalStatus in request v *)

ReadForReview(v) ==
    /\ reviewer[v].pc = "idle" /\ requests < MaxRequests
    /\ reviewer' = [reviewer EXCEPT ![v] =
           [pc |-> "comparing", read |-> proposal, compared |-> "none"]]
    /\ requests' = requests + 1
    /\ UNCHANGED <<runVars, drafts, comparison, proposal>>
ReadComparison(v) ==
    LET r == reviewer[v].read.run IN
    /\ reviewer[v].pc = "comparing"
    /\ reviewer' = [reviewer EXCEPT ![v].pc = "deciding",
                                    ![v].compared = IF r = None THEN "none" ELSE comparison[r]]
    /\ UNCHANGED <<runVars, drafts, comparison, proposal, requests>>
ImplementationAfter(status, current) ==
    CASE status \in {"candidate", "rejected"} -> "not_started"
      [] status = "implemented" -> "validated"
      [] OTHER -> IF current = "not_started" THEN "planned" ELSE current
AnyTransition(ready, status, impl) == status = "implemented" => impl = "validated"
AllowedTransition(ready, status, impl) ==
    /\ status = "implemented" => ready
    /\ impl = "validated" => ready
    /\ status = "implemented" => impl = "validated"
DecideReview(v) ==
    LET read == reviewer[v].read
        ready == Readiness(read, reviewer[v].compared)
    IN
    /\ reviewer[v].pc = "deciding"
    /\ \/ \E ask \in Requests :
             LET impl == IF ask[2] = None THEN ImplementationAfter(ask[1], read.impl) ELSE ask[2]
             IN /\ AllowedTransition(ready, ask[1], impl)
                /\ proposal' = [proposal EXCEPT !.status = ask[1], !.impl = impl]
       \/ UNCHANGED proposal
    /\ reviewer' = [reviewer EXCEPT ![v] = NoReview]
    /\ UNCHANGED <<runVars, drafts, comparison, requests>>

-----------------------------------------------------------------------------
FinalizeStep(p) == WriteAnalysis(p) \/ FinishRun(p) \/ CompareRuns(p) \/ RecordEvidence(p)
PassStep(p) ==
    \/ CaseStep(p) /\ UNCHANGED proposalVars
    \/ FinalizeStep(p)
LaunchProgress(s) ==
    \/ StarterStep(s) /\ UNCHANGED proposalVars
    \/ EndStart(s)
TaskProgress(r, c) == TaskEnds(r, c) /\ UNCHANGED proposalVars
ProposalsNext ==
    \/ \E s \in Starter : StartRun(s) \/ StartValidation(s) \/ LaunchProgress(s)
    \/ \E s \in Starter : StarterDies(s) /\ UNCHANGED proposalVars
    \/ \E r \in Run, c \in Case : TaskProgress(r, c)
    \/ \E p \in Passer : PassStep(p)
    \/ \E p \in Passer : PassDies(p) /\ UNCHANGED proposalVars
    \/ \E r \in Run : RequestComparison(r)
    \/ \E v \in Reviewer : ReadForReview(v) \/ ReadComparison(v) \/ DecideReview(v)

(* Clients keep asking for benchmarks, and a process that has not died     *)
(* takes its next step; the tasks of a run end.  Nobody has to launch,     *)
(* compare or review anything.                                             *)
ProposalsFairness ==
    /\ \A p \in Passer : WF_all(PassStep(p))
    /\ \A s \in Starter : WF_all(LaunchProgress(s))
    /\ \A r \in Run, c \in Case : WF_all(TaskProgress(r, c))
ProposalsSpec == ProposalsInit /\ [][ProposalsNext]_all
FairProposals == ProposalsSpec /\ ProposalsFairness

-----------------------------------------------------------------------------
ProposalRow ==
    [status : Status, impl : Implementation, run : Run \cup {None}, evidence : Run \cup {None},
     result : {None, "completed", "needs_review"}, gate : BOOLEAN, completed : Nat]
Purpose == {None, "proposal"}
StarterRow ==
    [pc : {"idle", "creating", "launching", "launched", "failing", "failed", "started"},
     run : Run \cup {None}, case : 0 .. MaxCases, for : Purpose,
     from : Implementation \cup {None}]
PassTypes ==
    [pc : {"idle", "cases", "scores", "runs", "analysing", "finishing", "comparing", "recording"},
     todo : (SUBSET CaseOf) \cup (SUBSET Run), cur : CaseOf \cup Run \cup {None},
     verdict : CaseStatus \cup RunStatus \cup {None}, compared : Comparison]
ProposalsTypeOK ==
    /\ run \in [Run -> [status : RunStatus, size : 0 .. MaxCases, good : BOOLEAN, for : Purpose]]
    /\ task \in [Run -> [Case -> TaskRow]]
    /\ result \in [Run -> [Case -> CaseStatus]]
    /\ scores \in [Run -> [Case -> Nat]] /\ drafts \in [Run -> Nat]
    /\ comparison \in [Run -> Comparison]
    /\ proposal \in ProposalRow
    /\ starter \in [Starter -> StarterRow] /\ pass \in [Passer -> PassTypes]
    /\ reviewer \in [Reviewer -> [pc : {"idle", "comparing", "deciding"},
                                read : ProposalRow, compared : Comparison]]
    /\ faults \subseteq BenchmarkFaults /\ requests \in Nat

(* A proposal is implemented, or its work validated, only with the evidence *)
(* of a finished, complete and source-sized validation run, whatever else   *)
(* was written between the reading and the writing of the review.  The      *)
(* proposal links to that run and its evidence, unless a second validation  *)
(* was launched before the first was linked, whose link and evidence then   *)
(* replace it.  (An implemented proposal need not be validated: a pass that *)
(* compared the run before it was linked may still record "in_progress".)   *)
Launched(r) ==
    /\ r # Source /\ run[r].status # "none" /\ run[r].for = "proposal"
    /\ \A c \in 1 .. run[r].size : result[r][c] # "none"
Validated(r) ==
    /\ Launched(r) /\ run[r].status = "completed"
    /\ Cardinality(CompletedCases(r)) >= run[Source].size
ImplementedIsValidated ==
    proposal.status = "implemented" \/ proposal.impl = "validated" =>
        \E r \in Run :
            /\ Validated(r)
            /\ \/ proposal.run = r /\ proposal.evidence = r
               \/ \E q \in Run \ {r} : Launched(q)

(* Unless a pass died, a validation run that was linked while it ran       *)
(* leaves its evidence on the proposal once it is over.                    *)
Recordable(r) == proposal.run = r /\ run[r].status = "running" /\ NotPending(r)
EvidenceIsRecorded ==
    \A r \in Run \ {Source} : Recordable(r) ~> proposal.evidence = r \/ "pass dies" \in faults

(* A run whose cases have all been recorded is finalised, unless one of    *)
(* its tasks was cancelled, through the death of a pass.                   *)
AllRecorded(r) == run[r].status = "running" /\ Cardinality(Recorded(r)) = run[r].size
SomeCancelled(r) == \E c \in Case : task[r][c].status = "cancelled"
RunsAreFinalized ==
    \A r \in Run \ {Source} : AllRecorded(r) ~> run[r].status # "running" \/ SomeCancelled(r)
=============================================================================
