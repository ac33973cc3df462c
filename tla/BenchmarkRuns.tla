----------------------------- MODULE BenchmarkRuns -----------------------------
(***************************************************************************)
(* Benchmark runs: a process launches the cases of a suite one after the   *)
(* other, and every request that reads benchmarks first makes a pass over  *)
(* all of them, which takes over the outcome of finished tasks, writes the *)
(* missing forecast scores and prepares the runs that are ready for their  *)
(* report.  Passes have no single flight, so any number of them overlap.   *)
(*   packages/backend/src/benchmark-service.ts                             *)
(*   apps/web/src/app/api/benchmarks/route.ts                              *)
(*                                                                         *)
(* A case of a run has one task, which the task reconciliation of          *)
(* LiveForecast ends; here it just ends.  Reports and what they are        *)
(* made of are data, of which only what a later decision reads is kept.    *)
(***************************************************************************)
EXTENDS Integers, FiniteSets

CONSTANTS
    Run,        \* benchmark runs
    Source,     \* the one that was finished before
    Starter,    \* requests that launch a run
    Passer,     \* requests that reconcile benchmarks
    MaxCases,   \* bound: the cases of the suite
    None,
    Faults,     \* the kinds of faults that may happen
    MaxFaults   \* bound: how many faults happen, each of its own kind

VARIABLES
    run,        \* run[r]: its row in benchmark_runs
    task,       \* task[r][c]: the task of case c of run r
    result,     \* result[r][c]: status of the row in benchmark_case_results
    scores,     \* scores[r][c]: sets of forecast scores of its ledger
    starter,    \* starter[s]: how far a launch has come
    pass,       \* pass[p]: how far a pass has come
    faults      \* the kinds of faults that have happened

rows == <<run, task, result, scores>>
runVars == <<rows, starter, pass, faults>>

Case == 1 .. MaxCases
CaseOf == Run \X Case
Pending == {"queued", "running"}
CaseStatus == {"none", "running", "completed", "failed", "needs_review"}
RunStatus == {"none", "running", "completed", "partial_failure"}
TaskRow ==
    [status : {"none", "queued", "running", "completed", "failed", "cancelled"},
     clean : BOOLEAN, ledger : BOOLEAN]

BenchmarkFaults == {"launch error", "starter dies", "pass dies", "task cancelled"}
ASSUME BenchmarkAssumption ==
    /\ Source \in Run /\ None \notin Run \cup CaseStatus
    /\ MaxCases \in Nat \ {0}
    /\ Faults \subseteq BenchmarkFaults /\ MaxFaults \in Nat

NoTask == [status |-> "none", clean |-> FALSE, ledger |-> FALSE]
NoRun == [status |-> "none", size |-> 0, good |-> FALSE, for |-> None]
IdleStarter == [pc |-> "idle", run |-> None, case |-> 0, for |-> None, from |-> None]
IdlePass == [pc |-> "idle", todo |-> {}, cur |-> None, verdict |-> None, compared |-> "none"]

(* A finished run of the past; some of its ledgers were written before     *)
(* there were commit markers.                                              *)
RunsInit ==
    /\ \E size \in Case :
          run = [r \in Run |->
              IF r = Source THEN [NoRun EXCEPT !.status = "completed", !.size = size] ELSE NoRun]
    /\ \E legacy \in SUBSET Case :
          task = [r \in Run |-> [c \in Case |->
              IF r = Source /\ c <= run[r].size
              THEN [status |-> "completed", clean |-> TRUE, ledger |-> c \notin legacy]
              ELSE NoTask]]
    /\ result = [r \in Run |-> [c \in Case |->
           IF r = Source /\ c <= run[r].size THEN "completed" ELSE "none"]]
    /\ scores = [r \in Run |-> [c \in Case |-> 0]]
    /\ starter = [s \in Starter |-> IdleStarter]
    /\ pass = [p \in Passer |-> IdlePass]
    /\ faults = {}

NoFault == UNCHANGED faults
Fault(kind) ==
    /\ kind \in Faults \ faults /\ Cardinality(faults) < MaxFaults
    /\ faults' = faults \cup {kind}

-----------------------------------------------------------------------------
(* startBenchmarkRun in request s; "good" is how the run will compare, and *)
(* "for" the experiment label its tasks carry.                             *)

LaunchStep(s, step) == starter' = [starter EXCEPT ![s].pc = step]
TaskOf(s) == task[starter[s].run][starter[s].case]
SetTask(s, status) ==
    task' = [task EXCEPT ![starter[s].run][starter[s].case].status = status]

InsertRun(s, size, validates, implBefore) ==
    /\ \E r \in Run, good \in BOOLEAN :
          /\ run[r].status = "none"
          /\ run' = [run EXCEPT ![r] =
                 [status |-> "running", size |-> size, good |-> good, for |-> validates]]
          /\ starter' = [starter EXCEPT ![s] =
                 [pc |-> "creating", run |-> r, case |-> 1, for |-> validates, from |-> implBefore]]
    /\ NoFault
    /\ UNCHANGED <<task, result, scores, pass>>

CreateCaseTask(s) ==
    /\ starter[s].pc = "creating"
    /\ SetTask(s, "queued")
    /\ LaunchStep(s, "launching")
    /\ NoFault
    /\ UNCHANGED <<run, result, scores, pass>>
(* The launch or the insertion of the result that follows may fail. *)
LaunchCase(s) ==
    /\ starter[s].pc = "launching"
    /\ \/ SetTask(s, "running") /\ LaunchStep(s, "launched") /\ NoFault
       \/ SetTask(s, "running") /\ LaunchStep(s, "failing") /\ Fault("launch error")
       \/ LaunchStep(s, "failing") /\ Fault("launch error") /\ UNCHANGED task
    /\ UNCHANGED <<run, result, scores, pass>>
FailCaseTask(s) ==
    /\ starter[s].pc = "failing"
    /\ IF TaskOf(s).status \in Pending /\ ~ TaskOf(s).ledger
       THEN SetTask(s, "failed") ELSE UNCHANGED task
    /\ LaunchStep(s, "failed")
    /\ NoFault
    /\ UNCHANGED <<run, result, scores, pass>>
AfterCase(s) ==
    IF starter[s].case < run[starter[s].run].size
    THEN [starter[s] EXCEPT !.pc = "creating", !.case = @ + 1]
    ELSE [starter[s] EXCEPT !.pc = "started"]
InsertCaseResult(s) ==
    /\ starter[s].pc \in {"launched", "failed"}
    /\ result' = [result EXCEPT ![starter[s].run][starter[s].case] =
           IF starter[s].pc = "launched" THEN "running" ELSE "failed"]
    /\ starter' = [starter EXCEPT ![s] = AfterCase(s)]
    /\ NoFault
    /\ UNCHANGED <<run, task, scores, pass>>
StarterDies(s) ==
    /\ starter[s].pc # "idle"
    /\ Fault("starter dies")
    /\ starter' = [starter EXCEPT ![s] = IdleStarter]
    /\ UNCHANGED <<rows, pass>>

(* Task reconciliation.  A completed forecast task has its ledger.         *)
TaskEnds(r, c) ==
    /\ task[r][c].status = "running"
    /\ \/ /\ \E clean \in BOOLEAN :
                task' = [task EXCEPT ![r][c] =
                    [status |-> "completed", clean |-> clean, ledger |-> TRUE]]
          /\ NoFault
       \/ task' = [task EXCEPT ![r][c].status = "failed"] /\ NoFault
       \/ task' = [task EXCEPT ![r][c].status = "cancelled"] /\ Fault("task cancelled")
    /\ UNCHANGED <<run, result, scores, starter, pass>>

-----------------------------------------------------------------------------
(* reconcileBenchmarkRuns in request p *)

PassRow(p, row) == pass' = [pass EXCEPT ![p] = row]
Keep(p) == NoFault /\ UNCHANGED starter

(* reconcileCaseResults: the running results, then one after the other.    *)
ReadRunningResults(p) ==
    /\ pass[p].pc = "idle"
    /\ PassRow(p, [IdlePass EXCEPT !.pc = "cases",
           !.todo = {x \in CaseOf : result[x[1]][x[2]] = "running"}])
    /\ Keep(p) /\ UNCHANGED rows
OutcomeVerbatim(row) == IF row.status \in Pending THEN None ELSE row.status
OutcomeOfCompleted(row) ==
    IF row.status = "completed" THEN IF row.clean THEN "completed" ELSE "needs_review" ELSE None
Outcome(row) ==
    CASE row.status = "failed" -> "failed"
      [] row.status = "completed" /\ row.clean -> "completed"
      [] row.status = "completed" /\ ~ row.clean -> "needs_review"
      [] OTHER -> None
ReadCaseTask(p) ==
    /\ pass[p].pc = "cases" /\ pass[p].cur = None
    /\ \E x \in pass[p].todo :
          LET outcome == Outcome(task[x[1]][x[2]]) IN
          PassRow(p, [pass[p] EXCEPT !.todo = @ \ {x}, !.verdict = outcome,
                                     !.cur = IF outcome = None THEN None ELSE x])
    /\ Keep(p) /\ UNCHANGED rows
(* The update does not look at what the row has become since. *)
WriteCaseResult(p) ==
    /\ pass[p].pc = "cases" /\ pass[p].cur # None
    /\ result' = [result EXCEPT ![pass[p].cur[1]][pass[p].cur[2]] = pass[p].verdict]
    /\ PassRow(p, [pass[p] EXCEPT !.cur = None, !.verdict = None])
    /\ Keep(p) /\ UNCHANGED <<run, task, scores>>

(* backfillBenchmarkForecastScoreRows: each completed result in a          *)
(* transaction that locks its row and reads it again.                      *)
ReadCompletedResults(p) ==
    /\ pass[p].pc = "cases" /\ pass[p].cur = None /\ pass[p].todo = {}
    /\ PassRow(p, [IdlePass EXCEPT !.pc = "scores",
           !.todo = {x \in CaseOf : result[x[1]][x[2]] = "completed"}])
    /\ Keep(p) /\ UNCHANGED rows
NeverScored(x) == TRUE
Unscored(x) == scores[x[1]][x[2]] = 0
BackfillScores(p) ==
    /\ pass[p].pc = "scores"
    /\ \E x \in pass[p].todo :
          LET stillCompleted == result[x[1]][x[2]] = "completed"
              committed == task[x[1]][x[2]].ledger
          IN /\ result' = IF stillCompleted /\ ~ committed
                          THEN [result EXCEPT ![x[1]][x[2]] = "needs_review"] ELSE result
             /\ scores' = IF stillCompleted /\ committed /\ Unscored(x)
                          THEN [scores EXCEPT ![x[1]][x[2]] = @ + 1] ELSE scores
             /\ PassRow(p, [pass[p] EXCEPT !.todo = @ \ {x}])
    /\ Keep(p) /\ UNCHANGED <<run, task>>

(* finalizeReadyBenchmarkRuns up to the analysis of one run.               *)
Active(r) == run[r].status = "running"
ReadActiveRuns(p) ==
    /\ pass[p].pc = "scores" /\ pass[p].todo = {}
    /\ PassRow(p, [IdlePass EXCEPT !.pc = "runs", !.todo = {r \in Run : Active(r)}])
    /\ Keep(p) /\ UNCHANGED rows
Recorded(r) == {c \in Case : result[r][c] # "none"}
NotPending(r) == \A c \in Recorded(r) : result[r][c] \notin Pending
Ready(r) == Cardinality(Recorded(r)) >= run[r].size /\ NotPending(r)
FinalStatus(r) ==
    IF \E c \in Case : result[r][c] \in {"failed", "needs_review"}
    THEN "partial_failure" ELSE "completed"
ReadRunResults(p) ==
    /\ pass[p].pc = "runs"
    /\ \E r \in pass[p].todo :
          PassRow(p, IF Ready(r)
                     THEN [pass[p] EXCEPT !.pc = "analysing", !.todo = @ \ {r}, !.cur = r,
                                          !.verdict = FinalStatus(r)]
                     ELSE [pass[p] EXCEPT !.todo = @ \ {r}])
    /\ Keep(p) /\ UNCHANGED rows
EndPass(p) ==
    /\ pass[p].pc = "runs" /\ pass[p].todo = {}
    /\ PassRow(p, IdlePass)
    /\ Keep(p) /\ UNCHANGED rows
(* An error ends the request too. *)
PassDies(p) ==
    /\ pass[p].pc # "idle"
    /\ Fault("pass dies")
    /\ PassRow(p, IdlePass)
    /\ UNCHANGED <<rows, starter>>

StarterStep(s) == CreateCaseTask(s) \/ LaunchCase(s) \/ FailCaseTask(s) \/ InsertCaseResult(s)
CaseStep(p) ==
    \/ ReadRunningResults(p) \/ ReadCaseTask(p) \/ WriteCaseResult(p)
    \/ ReadCompletedResults(p) \/ BackfillScores(p)
    \/ ReadActiveRuns(p) \/ ReadRunResults(p) \/ EndPass(p)

-----------------------------------------------------------------------------
(* A run gets its final status only when all its cases are recorded and    *)
(* none is pending; "completed" stands for cases that are all completed,   *)
(* whatever passes overlapped.  The ledgers of the past, which a later     *)
(* pass may quarantine, are the exception.                                 *)
FinalizedRunsAreWhole ==
    \A r \in Run : run[r].status \in {"completed", "partial_failure"} =>
        /\ \A c \in 1 .. run[r].size : result[r][c] \notin {"none", "running"}
        /\ r # Source =>
              (run[r].status = "completed" <=> \A c \in 1 .. run[r].size : result[r][c] = "completed")

(* However many passes read the same completed case, its committed ledger  *)
(* is scored once; a case without one is never scored.                     *)
ScoredOnce ==
    \A r \in Run, c \in Case :
        scores[r][c] <= (IF task[r][c].status = "completed" /\ task[r][c].ledger THEN 1 ELSE 0)
=============================================================================
