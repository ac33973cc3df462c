------------------------------- MODULE TableRuns -------------------------------
(***************************************************************************)
(* Table runs (agent_map, classify, rank): their task rows, the summary    *)
(* rows of their artifact, the retry of one row and the backfill of tasks  *)
(* without rows.                                                           *)
(*   apps/web/src/app/api/runs/route.ts                                    *)
(*   apps/web/src/app/api/runs/[taskId]/rows/[rowId]/retry/route.ts        *)
(*   packages/backend/src/run-service.ts                                   *)
(*                                                                         *)
(* Nothing here is a transaction: every statement is a step, of a request  *)
(* that launches a task or of a process that reconciles or lists runs.  A  *)
(* row of task_rows goes by the row of the table it stands for and the     *)
(* writer that inserted it.                                                *)
(***************************************************************************)
EXTENDS Naturals, FiniteSets

CONSTANTS
    Task,       \* ids of tasks
    Row,        \* rows of the table
    Proc,       \* processes that reconcile and list runs
    None,       \* null
    MaxPosts,   \* bound on tables launched, as against rows retried
    Nested,     \* bound: whether the rows of a retry are retried too
    MaxEnds,    \* bound on runs that end
    MaxFaults   \* bound on failing statements and dying processes

VARIABLES
    task,       \* task[t]: the row of table tasks, or None
    row,        \* row[t][e]: the row of task_rows e of task t
    output,     \* output[t]: what is written of the output of its run
    run,        \* run[t]: its Smithers run
    result,     \* result[t]: the rows the run returns a result for
    request,    \* request[t]: the request that launches t
    pass,       \* pass[p]: the pass or listing of process p
    faults      \* failures so far
tableVars == <<task, row, output, run, result, request, pass, faults>>

Entry == Row \X ({"request"} \cup Proc)
TableStatus == {"queued", "running", "completed", "failed", "cancelled"}
RetryOf == [task : Task, row : Entry]
TaskRow ==
    [status : TableStatus, artifact : BOOLEAN, rows : SUBSET Row, retryOf : RetryOf \cup {None}]
RequestSteps ==
    {"none", "seed", "launch", "mark", "rows", "count", "fail", "failed", "done"}
PassRow ==
    [pc : {"idle", "next", "fail", "cancel", "summary", "results", "sources", "rows", "complete",
           "backfill"},
     todo : SUBSET Task, task : Task \cup {None}, rows : SUBSET Row]
ASSUME TableAssumption ==
    /\ None \notin Task \cup RetryOf \cup TaskRow /\ "request" \notin Proc
    /\ MaxPosts \in Nat /\ Nested \in BOOLEAN
    /\ MaxEnds \in Nat /\ MaxFaults \in Nat

NoRow == [status |-> "none", count |-> 0]
NoOutput == [summary |-> FALSE, rows |-> {}, sources |-> FALSE]
NoRequest == [pc |-> "none", count |-> 0, after |-> {}]
IdlePass == [pc |-> "idle", todo |-> {}, task |-> None, rows |-> {}]

TableInit ==
    /\ task = [t \in Task |-> None]
    /\ row = [t \in Task |-> [e \in Entry |-> NoRow]]
    /\ output = [t \in Task |-> NoOutput]
    /\ run = [t \in Task |-> "none"]
    /\ result = [t \in Task |-> {}]
    /\ request = [t \in Task |-> NoRequest]
    /\ pass = [p \in Proc |-> IdlePass]
    /\ faults = 0

Fault == faults < MaxFaults /\ faults' = faults + 1
Created(t) == task[t] # None
Completed(t) == Created(t) /\ task[t].status = "completed"
Listed(t) == {e \in Entry : row[t][e].status # "none"}
QueuedTask(rows, retryOf) ==
    [status |-> "queued", artifact |-> FALSE, rows |-> rows, retryOf |-> retryOf]

-----------------------------------------------------------------------------
(* Launching: POST /api/runs, and the retry of a row *)
GoTo(t, pc) == request' = [request EXCEPT ![t].pc = pc]

(* A table may be described by the prompt alone: then no rows are seeded.  *)
PostRun(t) ==
    /\ ~ Created(t)
    /\ Cardinality({s \in Task : Created(s) /\ task[s].retryOf = None}) < MaxPosts
    /\ \E rows \in {{}, Row} :
          /\ task' = [task EXCEPT ![t] = QueuedTask(rows, None)]
          /\ GoTo(t, IF rows = {} THEN "launch" ELSE "seed")
    /\ UNCHANGED <<row, output, run, result, pass, faults>>

(* The count is that of the row as it was read.  The retries of the row    *)
(* that were answered by then are kept for the properties alone.           *)
Retries(t, e) == {s \in Task : Created(s) /\ task[s].retryOf = [task |-> t, row |-> e]}
Answered(t, e) == {s \in Retries(t, e) : request[s].pc = "done"}
NextCountOwn(t, of, e) == row[t][e].count + 1
NextCount(t, of, e) == row[of][e].count + 1
RetryRow(t, of, e) ==
    /\ ~ Created(t) /\ e \in Listed(of)
    /\ task[of].retryOf = None \/ Nested
    /\ task' = [task EXCEPT ![t] = QueuedTask({e[1]}, [task |-> of, row |-> e])]
    /\ request' = [request EXCEPT ![t] =
          [pc |-> "seed", count |-> NextCount(t, of, e), after |-> Answered(of, e)]]
    /\ UNCHANGED <<row, output, run, result, pass, faults>>

SeedRow(t, r) ==
    /\ request[t].pc = "seed" /\ r \in task[t].rows /\ <<r, "request">> \notin Listed(t)
    /\ row' = [row EXCEPT ![t][<<r, "request">>].status = "queued"]
    /\ IF task[t].rows = {e[1] : e \in Listed(t)} \cup {r}
       THEN GoTo(t, "launch") ELSE UNCHANGED request
    /\ UNCHANGED <<task, output, run, result, pass, faults>>
(* createBootstrapArtifact and the launch: nobody reads the artifact before *)
(* the task is completed, so that the two calls are one step.              *)
Bootstrap(t) == task' = [task EXCEPT ![t].artifact = TRUE]
Launch(t) ==
    /\ request[t].pc = "launch"
    /\ Bootstrap(t)
    /\ run' = [run EXCEPT ![t] = "running"]
    /\ GoTo(t, "mark")
    /\ UNCHANGED <<row, output, result, pass, faults>>
MarkTaskRunning(t) ==
    /\ request[t].pc = "mark"
    /\ task' = [task EXCEPT ![t].status = "running"]
    /\ GoTo(t, "rows")
    /\ UNCHANGED <<row, output, run, result, pass, faults>>

AnyStatus(t, e) == e \in Listed(t)
StillQueued(t, e) == row[t][e].status = "queued"
MarkTaskRowsRunning(t) ==
    /\ request[t].pc = "rows"
    /\ row' = [row EXCEPT ![t] =
          [e \in Entry |-> IF StillQueued(t, e) THEN [@[e] EXCEPT !.status = "running"] ELSE @[e]]]
    /\ GoTo(t, IF task[t].retryOf = None THEN "done" ELSE "count")
    /\ UNCHANGED <<task, output, run, result, pass, faults>>

CountRetry(t) ==
    /\ request[t].pc = "count"
    /\ LET of == task[t].retryOf
       IN row' = [row EXCEPT ![of.task][of.row].count = request[t].count]
    /\ GoTo(t, "done")
    /\ UNCHANGED <<task, output, run, result, pass, faults>>

(* A statement or the launch throws; the run may have started.  POST fails *)
(* the task, the retry leaves it as it is.                                 *)
StepFails(t) ==
    /\ Fault
    /\ request[t].pc \in {"seed", "launch", "mark", "rows", "count"}
    /\ \E started \in BOOLEAN :
          run' = IF request[t].pc = "launch" /\ started
                 THEN [run EXCEPT ![t] = "running"] ELSE run
    /\ GoTo(t, IF task[t].retryOf = None THEN "fail" ELSE "failed")
    /\ UNCHANGED <<task, row, output, result, pass>>
MarkTaskFailed(t) ==
    task' = IF task[t].status \in {"queued", "running"}
            THEN [task EXCEPT ![t].status = "failed"] ELSE task
FailPost(t) ==
    /\ request[t].pc = "fail"
    /\ MarkTaskFailed(t)
    /\ GoTo(t, "failed")
    /\ UNCHANGED <<row, output, run, result, pass, faults>>
RequestDies(t) ==
    /\ Fault
    /\ request[t].pc \notin {"none", "done", "failed"}
    /\ GoTo(t, "failed")
    /\ UNCHANGED <<task, row, output, run, result, pass>>

-----------------------------------------------------------------------------
(* The Smithers run *)
RunEnds(t) ==
    /\ run[t] = "running"
    /\ Cardinality({s \in Task : run[s] \notin {"none", "running"}}) < MaxEnds
    /\ \E end \in {"finished", "failed", "cancelled"}, rows \in SUBSET Row :
          /\ end # "finished" \/ task[t].rows # {} => rows \subseteq task[t].rows
          /\ end # "finished" => rows = {}
          /\ run' = [run EXCEPT ![t] = end]
          /\ result' = [result EXCEPT ![t] = rows]
    /\ UNCHANGED <<task, row, output, request, pass, faults>>

-----------------------------------------------------------------------------
(* reconcileRunningTasksOnce for a table task *)
Step(p, pc) == pass' = [pass EXCEPT ![p].pc = pc]
Current(p) == pass[p].task
(* The tasks that the pass has read and not yet looked at. *)
GoOn(p, todo) ==
    pass' = [pass EXCEPT ![p] =
        IF todo = {} THEN IdlePass ELSE [IdlePass EXCEPT !.pc = "next", !.todo = todo]]
Leave(p) == GoOn(p, pass[p].todo)

StartPass(p) ==
    /\ pass[p].pc = "idle"
    /\ LET todo == {t \in Task : Created(t) /\ task[t].status = "running"}
       IN /\ todo # {}
          /\ GoOn(p, todo)
    /\ UNCHANGED <<task, row, output, run, result, request, faults>>

(* A run that cannot be inspected counts as failed.                        *)
Verdict(t) ==
    IF run[t] = "finished" THEN "summary" ELSE IF run[t] = "cancelled" THEN "cancel" ELSE "fail"
Handle(p, t, verdict) ==
    pass' = [pass EXCEPT ![p] =
        [pc |-> verdict, todo |-> @.todo \ {t}, task |-> t, rows |-> {}]]

Inspect(p, t) ==
    /\ pass[p].pc = "next" /\ t \in pass[p].todo
    /\ \/ run[t] = "running" /\ GoOn(p, pass[p].todo \ {t}) /\ UNCHANGED faults
       \/ run[t] # "running" /\ Handle(p, t, Verdict(t)) /\ UNCHANGED faults
       \/ run[t] # "failed" /\ Handle(p, t, "fail") /\ Fault
    /\ UNCHANGED <<task, row, output, run, result, request>>

FailTask(p) ==
    /\ pass[p].pc = "fail"
    /\ MarkTaskFailed(Current(p))
    /\ Leave(p)
    /\ UNCHANGED <<row, output, run, result, request, faults>>
EndTask(p, status) ==
    LET t == Current(p) IN
    /\ task' = IF task[t].status = "running" THEN [task EXCEPT ![t].status = status] ELSE task
    /\ Leave(p)
    /\ UNCHANGED <<row, output, run, result, request, faults>>
(* Smithers writes "canceled" as well.                                     *)
CancelTaskVerbatim(p) == pass[p].pc = "cancel" /\ EndTask(p, "canceled")
CancelTask(p) == pass[p].pc = "cancel" /\ EndTask(p, "cancelled")
CompleteTask(p) == pass[p].pc = "complete" /\ EndTask(p, "completed")

Unwritten(t) == result[t] \ output[t].rows
WriteSummary(p) ==
    /\ pass[p].pc = "summary"
    /\ output' = [output EXCEPT ![Current(p)].summary = TRUE]
    /\ Step(p, IF Unwritten(Current(p)) = {} THEN "sources" ELSE "results")
    /\ UNCHANGED <<task, row, run, result, request, faults>>
(* One statement per result; those that are there already are left alone.  *)
WriteResult(p) ==
    LET t == Current(p) IN
    /\ pass[p].pc = "results"
    /\ \E r \in result[t] :
          /\ r \in Unwritten(t) \/ Unwritten(t) = {}
          /\ output' = [output EXCEPT ![t].rows = @ \cup {r}]
          /\ IF Unwritten(t) \subseteq {r} THEN Step(p, "sources") ELSE UNCHANGED pass
    /\ UNCHANGED <<task, row, run, result, request, faults>>
(* Every pass that gets here inserts the sources once more.                *)
WriteSources(p) ==
    /\ pass[p].pc = "sources"
    /\ output' = [output EXCEPT ![Current(p)].sources = TRUE]
    /\ Step(p, "rows")
    /\ UNCHANGED <<task, row, run, result, request, faults>>
MarkTaskRowsCompleted(p) ==
    LET t == Current(p) IN
    /\ pass[p].pc = "rows"
    /\ row' = [row EXCEPT ![t] =
          [e \in Entry |-> IF e \in Listed(t) THEN [@[e] EXCEPT !.status = "completed"] ELSE @[e]]]
    /\ Step(p, "complete")
    /\ UNCHANGED <<task, output, run, result, request, faults>>

-----------------------------------------------------------------------------
(* backfillTableTaskRows: look for rows, read the artifact, insert them *)
UnlistedIgnored(t) == TRUE
Unlisted(t) == Listed(t) = {}
StartBackfill(p, t) ==
    /\ pass[p].pc = "idle"
    /\ Completed(t) /\ task[t].artifact /\ Unlisted(t) /\ output[t].rows # {}
    /\ pass' = [pass EXCEPT ![p] =
          [pc |-> "backfill", todo |-> {}, task |-> t, rows |-> output[t].rows]]
    /\ UNCHANGED <<task, row, output, run, result, request, faults>>
BackfillRow(p) ==
    /\ pass[p].pc = "backfill"
    /\ \E r \in pass[p].rows :
          LET rest == pass[p].rows \ {r} IN
          /\ row' = [row EXCEPT ![Current(p)][<<r, p>>].status = "completed"]
          /\ pass' = [pass EXCEPT ![p] =
                IF rest = {} THEN IdlePass ELSE [@ EXCEPT !.rows = rest]]
    /\ UNCHANGED <<task, output, run, result, request, faults>>

(* The process dies, or the connection of its request is closed.           *)
ProcessDies(p) ==
    /\ Fault
    /\ pass[p].pc # "idle"
    /\ pass' = [pass EXCEPT ![p] = IdlePass]
    /\ UNCHANGED <<task, row, output, run, result, request>>

-----------------------------------------------------------------------------
RequestStep(t) ==
    \/ PostRun(t) \/ \E of \in Task, e \in Entry : RetryRow(t, of, e)
    \/ \E r \in Row : SeedRow(t, r)
    \/ Launch(t) \/ MarkTaskRunning(t) \/ MarkTaskRowsRunning(t)
    \/ CountRetry(t) \/ StepFails(t) \/ FailPost(t) \/ RequestDies(t)
PassStep(p) ==
    \/ StartPass(p) \/ \E t \in Task : Inspect(p, t) \/ StartBackfill(p, t)
    \/ FailTask(p) \/ CancelTask(p) \/ CompleteTask(p)
    \/ WriteSummary(p) \/ WriteResult(p) \/ WriteSources(p) \/ MarkTaskRowsCompleted(p)
    \/ BackfillRow(p) \/ ProcessDies(p)
TableNext ==
    \/ \E t \in Task : RequestStep(t) \/ RunEnds(t)
    \/ \E p \in Proc : PassStep(p)
TableSpec == TableInit /\ [][TableNext]_tableVars

-----------------------------------------------------------------------------
TableTypeOK ==
    /\ task \in [Task -> TaskRow \cup {None}]
    /\ row \in [Task -> [Entry -> [status : TableStatus \cup {"none"}, count : Nat]]]
    /\ output \in [Task -> [summary : BOOLEAN, rows : SUBSET Row, sources : BOOLEAN]]
    /\ run \in [Task -> {"none", "running", "finished", "failed", "cancelled"}]
    /\ result \in [Task -> SUBSET Row]
    /\ request \in [Task -> [pc : RequestSteps, count : Nat, after : SUBSET Task]]
    /\ pass \in [Proc -> PassRow]
    /\ \A p \in Proc : pass[p].pc \notin {"idle", "next"} => pass[p].task # None

(* A completed table has its summary, a row of the artifact for every      *)
(* result and its sources, and none of its task rows is left queued or     *)
(* running, whichever of the overlapping passes and launches wrote last.   *)
CompletedIsWhole ==
    \A t \in Task : Completed(t) =>
        /\ output[t].summary /\ output[t].rows = result[t] /\ output[t].sources
        /\ \A e \in Listed(t) : row[t][e].status = "completed"

(* The rows of a request are listed once: listings only add the rows of    *)
(* tables that were launched without.                                      *)
SeededOnce ==
    \A t \in Task : Created(t) =>
        \A e \in Listed(t) : task[t].rows # {} <=> e[2] = "request"

(* A row counts the retries of it that were answered, whichever of them    *)
(* failed or died, and in whatever order they were.  Only overlapping ones *)
(* may be counted as fewer: retries of which neither was answered when the *)
(* other one read the count.                                               *)
OneAfterTheOther(S) ==
    \A s, u \in S : s = u \/ s \in request[u].after \/ u \in request[s].after
Counted(S, n) == n <= Cardinality(S) /\ (OneAfterTheOther(S) => n = Cardinality(S))
RetriesAreCounted == \A t \in Task, e \in Entry : Counted(Answered(t, e), row[t][e].count)
=============================================================================
