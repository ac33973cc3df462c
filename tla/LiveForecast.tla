----------------------------- MODULE LiveForecast -----------------------------
(***************************************************************************)
(* The life of binary product forecasts: tasks are launched by the run API *)
(* or by an execution of the update runner, run in Smithers, and are       *)
(* materialised by the reconciliation passes of the web processes, which   *)
(* commit the forecast ledger and the ForecastState snapshot together.     *)
(*   apps/web/src/app/api/runs/route.ts, scripts/forecast-update-runner.ts,*)
(*   packages/backend/src/run-service.ts, resolution-service.ts            *)
(*                                                                         *)
(* Every process is sequential and takes one step per awaited call, so     *)
(* anything may happen between two of its calls, its death included.  The  *)
(* database steps are those of ForecastState.  The Smithers run of a task  *)
(* has the id osf-<task> and outputs one ForecastState, so the run and the *)
(* state are named by the task.                                            *)
(***************************************************************************)
EXTENDS ForecastState, ReviewCadence

Task == State

CONSTANTS
    Proc,       \* processes that reconcile, each with its own single flight
    Boundary,   \* Boundary[q]: resolution date of question q, or None
    Cadence,    \* the review interval of the horizon at hand
    Grace,      \* the ten minutes a new run may be unknown to Smithers
    MaxPosts,   \* bound: launches through the run API
    Outcomes,   \* the ways in which somebody resolves a question
    Faults,     \* the kinds of faults that may happen
    MaxFaults   \* bound: how many faults happen, each of its own kind

FaultKinds ==
    {"launch error", "launcher crash", "reconciler crash", "inspect error",
     "output error", "run cancelled", "run lost"}
ASSUME FaultAssumption == Faults \subseteq FaultKinds /\ MaxFaults \in Nat
ASSUME PolicyAssumption ==
    /\ Cadence \in Nat \ {0} /\ Grace \in Nat /\ MaxPosts \in Nat
    /\ Boundary \in [Question -> Nat \cup {None}]
    /\ Outcomes \subseteq {"resolved", "annulled"}

VARIABLES
    now,        \* the clock
    task,       \* task[t]: its row in tasks
    run,        \* run[t]: its Smithers run
    launcher,   \* launcher[t]: how far the process launching t has come
    updater,    \* updater[o]: the update runner execution with lease owner o
    rec,        \* rec[p]: the reconciliation pass of process p
    posts,      \* launches through the run API so far
    faults      \* the kinds of faults that have happened

procs == <<launcher, updater, rec>>
live == <<vars, now, task, run, procs, posts, faults>>

Terminal == {"completed", "failed", "cancelled"}
TaskRow ==
    [status : {"none", "queued", "running"} \cup Terminal,
     question : Question \cup {None}, prev : Task \cup {None},
     trigger : Task \cup {None}, owner : Owner \cup {None},
     asOf : Time \cup {None}, due : ReviewTime \cup {None}, started : Time \cup {None},
     artifact : BOOLEAN, ledger : BOOLEAN, attempts : Nat]

LaunchSteps ==
    {"none", "created", "ready", "launched", "marked", "failing", "reactivating",
     "releasing", "done", "dead"}
UpdaterRow ==
    [pc : {"idle", "reading", "launching", "clearing", "done", "dead"}, asOf : Time,
     claimed : SUBSET Task, plans : SUBSET [trigger : Task, prev : Task],
     task : Task \cup {None}]
RecRow ==
    [pc : {"idle", "pass", "finished", "writing", "committed", "cancelling", "failing",
           "reactivating", "releasing"},
     todo : SUBSET [task : Task, ledger : BOOLEAN], cur : Task \cup {None}]

LiveTypeOK ==
    /\ TypeOK
    /\ now \in Time
    /\ task \in [Task -> TaskRow]
    /\ \A t \in Task : task[t].status = "running" => task[t].started # None
    /\ run \in [Task -> {"none", "starting", "running", "finished", "failed", "cancelled", "lost"}]
    /\ launcher \in [Task -> LaunchSteps]
    /\ updater \in [Owner -> UpdaterRow]
    /\ rec \in [Proc -> RecRow]
    /\ posts \in 0 .. MaxPosts /\ faults \subseteq Faults

NoTask ==
    [status |-> "none", question |-> None, prev |-> None, trigger |-> None, owner |-> None,
     asOf |-> None, due |-> None, started |-> None, artifact |-> FALSE, ledger |-> FALSE,
     attempts |-> 0]
IdleUpdater == [pc |-> "idle", asOf |-> 0, claimed |-> {}, plans |-> {}, task |-> None]
IdlePass == [pc |-> "idle", todo |-> {}, cur |-> None]

LiveInit ==
    /\ Init
    /\ now = 0
    /\ task = [t \in Task |-> NoTask]
    /\ run = [t \in Task |-> "none"]
    /\ launcher = [t \in Task |-> "none"]
    /\ updater = [o \in Owner |-> IdleUpdater]
    /\ rec = [p \in Proc |-> IdlePass]
    /\ posts = 0 /\ faults = {}

NoFault == UNCHANGED faults
Fault(kind) ==
    /\ kind \in Faults \ faults /\ Cardinality(faults) < MaxFaults
    /\ faults' = faults \cup {kind}

-----------------------------------------------------------------------------
(* Operators the handlers share *)

(* planNextForecastReview, with one cadence: None if there is no later     *)
(* review.                                                                 *)
NextReview(q, asOf) ==
    LET boundary == Boundary[q]
        interval == IF boundary = None THEN Cadence
                    ELSE IF boundary <= asOf THEN 0 ELSE Interval(boundary - asOf, Cadence)
    IN IF interval = 0 THEN None ELSE asOf + interval
ASSUME ReviewAssumption ==
    \A q \in Question, asOf \in Time : NextReview(q, asOf) \in ReviewTime \cup {None}

QueuedTask(q, prev, trig, o, asOf) ==
    [NoTask EXCEPT !.status = "queued", !.question = q, !.prev = prev, !.trigger = trig,
                   !.owner = o, !.asOf = asOf, !.due = NextReview(q, asOf)]

(* A ledger transaction holds the lock of its task row. *)
TaskLocked(t) == \E q \in Question : Locked(q) /\ tx[q].state = t

(* markTaskRunning sets the status whatever it was. *)
MarkTaskRunningOnly(t) == task' = [task EXCEPT ![t].status = "running"]
MarkTaskRunning(t) ==
    task' = [task EXCEPT ![t].status = "running", ![t].started = now]

(* markTaskFailed up to its compare-and-set of the status. *)
CanAlwaysFail(t) == ~ task[t].ledger
CanFail(t) == task[t].status \in {"queued", "running"} /\ ~ task[t].ledger
MarkTaskFailed(t) ==
    /\ ~ TaskLocked(t)
    /\ task' = IF CanFail(t) THEN [task EXCEPT ![t].status = "failed"] ELSE task
NeverReactivate(t, end) == end
AfterFailing(t, end) == IF CanFail(t) /\ task[t].trigger # None THEN "reactivating" ELSE end

(* The rest of markTaskFailed for an update task: the two statements of    *)
(* reactivateForecastTriggerAfterFailedUpdate.                             *)
ReactivateStatement(t) ==
    \/ Reactivate(task[t].trigger, task[t].owner)
    \/ ~ CanReactivate(task[t].trigger, task[t].owner) /\ UNCHANGED vars
AfterReactivating(t, end) ==
    IF CanReactivate(task[t].trigger, task[t].owner) THEN "releasing" ELSE end
ReleaseStatement(t) ==
    \/ ReleaseLease(task[t].trigger, task[t].owner)
    \/ ~ HoldsLease(task[t].trigger, task[t].owner) /\ UNCHANGED vars

-----------------------------------------------------------------------------
(* Launching a task: POST /api/runs and one plan of the update runner *)

SetLauncher(t, step) == launcher' = [launcher EXCEPT ![t] = step]

(* POST: createQueuedWorkflowTask, then createBootstrapArtifact. *)
PostRun(t, q) ==
    /\ task[t].status = "none" /\ posts < MaxPosts
    /\ task' = [task EXCEPT ![t] = QueuedTask(q, None, None, None, now)]
    /\ SetLauncher(t, "created")
    /\ posts' = posts + 1
    /\ NoFault
    /\ UNCHANGED <<vars, now, run, updater, rec>>
CreateBootstrapArtifact(t) ==
    /\ launcher[t] = "created"
    /\ task' = [task EXCEPT ![t].artifact = TRUE]
    /\ SetLauncher(t, "ready")
    /\ NoFault
    /\ UNCHANGED <<vars, now, run, updater, rec, posts>>

(* launchSmithersDetached; a launch that reports an error may have started *)
(* the run all the same.                                                   *)
LaunchSmithers(t) ==
    /\ launcher[t] = "ready"
    /\ run' = [run EXCEPT ![t] = "starting"]
    /\ SetLauncher(t, "launched")
    /\ NoFault
    /\ UNCHANGED <<vars, now, task, updater, rec, posts>>
LaunchFails(t) ==
    /\ launcher[t] = "ready"
    /\ Fault("launch error")
    /\ \E r \in {"none", "starting"} : run' = [run EXCEPT ![t] = r]
    /\ SetLauncher(t, "failing")
    /\ UNCHANGED <<vars, now, task, updater, rec, posts>>

MarkLaunched(t) ==
    /\ launcher[t] = "launched"
    /\ ~ TaskLocked(t)
    /\ MarkTaskRunning(t)
    /\ SetLauncher(t, IF task[t].trigger = None THEN "done" ELSE "marked")
    /\ NoFault
    /\ UNCHANGED <<vars, now, run, updater, rec, posts>>

(* The runner fires the trigger only now that the run is on its way, with  *)
(* the instant at which it claimed; a lost lease fails the launched task.  *)
FireTrigger(t) ==
    /\ launcher[t] = "marked"
    /\ \/ /\ MarkFired(task[t].trigger, task[t].owner, task[t].asOf)
          /\ SetLauncher(t, "done")
       \/ /\ ~ CanFire(task[t].trigger, task[t].owner, task[t].asOf)
          /\ SetLauncher(t, "failing")
          /\ UNCHANGED vars
    /\ NoFault
    /\ UNCHANGED <<now, task, run, updater, rec, posts>>

(* The catch block: markTaskFailed. *)
FailLaunch(t) ==
    /\ launcher[t] = "failing"
    /\ MarkTaskFailed(t)
    /\ SetLauncher(t, AfterFailing(t, "done"))
    /\ NoFault
    /\ UNCHANGED <<vars, now, run, updater, rec, posts>>
ReactivateAfterLaunch(t) ==
    /\ launcher[t] = "reactivating"
    /\ ReactivateStatement(t)
    /\ SetLauncher(t, AfterReactivating(t, "done"))
    /\ NoFault
    /\ UNCHANGED <<now, task, run, updater, rec, posts>>
ReleaseAfterLaunch(t) ==
    /\ launcher[t] = "releasing"
    /\ ReleaseStatement(t)
    /\ SetLauncher(t, "done")
    /\ NoFault
    /\ UNCHANGED <<now, task, run, updater, rec, posts>>

(* The launching process dies, and the update runner it is part of with it. *)
LauncherCrashes(t) ==
    /\ launcher[t] \notin {"none", "done", "dead"}
    /\ Fault("launcher crash")
    /\ SetLauncher(t, "dead")
    /\ updater' = [o \in Owner |->
           IF task[t].owner = o THEN [IdleUpdater EXCEPT !.pc = "dead"] ELSE updater[o]]
    /\ UNCHANGED <<vars, now, task, run, rec, posts>>

-----------------------------------------------------------------------------
(* forecast-update-runner --execute; o is the owner it draws for itself *)

Update(o, row) == updater' = [updater EXCEPT ![o] = row]

ClaimTriggers(o) ==
    /\ updater[o].pc = "idle"
    /\ \E pick \in Picks :
          /\ ClaimDue(o, now, pick)
          /\ Update(o, [IdleUpdater EXCEPT !.pc = "reading", !.asOf = now,
                            !.claimed = {pick[q] : q \in DOMAIN pick}])
    /\ NoFault
    /\ UNCHANGED <<now, task, run, launcher, rec, posts>>

(* getForecastUpdateContext for every claimed trigger before any launch.   *)
(* One that is no longer open or no longer leased throws out of the loop,  *)
(* so the execution ends and its other claims stay snoozed.                *)
StillLeased(s, o) ==
    /\ IsOpen(snapshot[s].question)
    /\ trigger[s].status = "snoozed"
    /\ HoldsLease(s, o)
ReadContext(o) ==
    /\ updater[o].pc = "reading"
    /\ \E s \in updater[o].claimed :
          LET plan == [trigger |-> s, prev |-> question[snapshot[s].question].latest]
              rest == updater[o].claimed \ {s}
          IN IF StillLeased(s, o)
             THEN Update(o, [updater[o] EXCEPT !.claimed = rest, !.plans = @ \cup {plan},
                                 !.pc = IF rest = {} THEN "launching" ELSE @])
             ELSE Update(o, [IdleUpdater EXCEPT !.pc = "done"])
    /\ NoFault
    /\ UNCHANGED <<vars, now, task, run, launcher, rec, posts>>

BetweenPlans(o) ==
    /\ updater[o].pc = "launching"
    /\ updater[o].task # None => launcher[updater[o].task] = "done"

(* The next eligible plan becomes a queued task; no artifact is created.   *)
CreateUpdateTask(o, t) ==
    /\ BetweenPlans(o)
    /\ task[t].status = "none"
    /\ \E plan \in updater[o].plans :
          LET q == snapshot[plan.trigger].question IN
          /\ NextReview(q, updater[o].asOf) # None
          /\ task' = [task EXCEPT ![t] =
                 QueuedTask(q, plan.prev, plan.trigger, o, updater[o].asOf)]
          /\ Update(o, [updater[o] EXCEPT !.plans = @ \ {plan}, !.task = t])
    /\ SetLauncher(t, "ready")
    /\ NoFault
    /\ UNCHANGED <<vars, now, run, rec, posts>>

(* Past the boundary: retireForecastTriggersForQuestion, two statements. *)
RetirePlan(o) ==
    /\ BetweenPlans(o)
    /\ \E plan \in updater[o].plans :
          LET q == snapshot[plan.trigger].question IN
          /\ NextReview(q, updater[o].asOf) = None
          /\ \/ RetireTriggers(q)
             \/ Unretired(q) = {} /\ UNCHANGED vars
          /\ Update(o, [updater[o] EXCEPT !.pc = "clearing", !.claimed = {plan.trigger}])
    /\ NoFault
    /\ UNCHANGED <<now, task, run, launcher, rec, posts>>
ClearRetired(o) ==
    /\ updater[o].pc = "clearing"
    /\ \E s \in updater[o].claimed :
          /\ ClearLease(snapshot[s].question)
          /\ Update(o, [updater[o] EXCEPT !.plans = {plan \in @ : plan.trigger # s},
                                          !.claimed = {}, !.pc = "launching"])
    /\ NoFault
    /\ UNCHANGED <<now, task, run, launcher, rec, posts>>

UpdaterEnds(o) ==
    /\ BetweenPlans(o)
    /\ updater[o].plans = {}
    /\ Update(o, [IdleUpdater EXCEPT !.pc = "done"])
    /\ NoFault
    /\ UNCHANGED <<vars, now, task, run, launcher, rec, posts>>
UpdaterCrashes(o) ==
    /\ updater[o].pc \in {"reading", "launching", "clearing"}
    /\ BetweenPlans(o) \/ updater[o].pc # "launching"
    /\ Fault("launcher crash")
    /\ Update(o, [IdleUpdater EXCEPT !.pc = "dead"])
    /\ UNCHANGED <<vars, now, task, run, launcher, rec, posts>>

-----------------------------------------------------------------------------
(* reconcileRunningTasksOnce in process p *)

Pass(p, row) == rec' = [rec EXCEPT ![p] = row]
GoTo(p, step) == Pass(p, [rec[p] EXCEPT !.pc = step])
NextTask(p) == Pass(p, [rec[p] EXCEPT !.pc = "pass", !.cur = None])

StartPass(p) ==
    /\ rec[p].pc = "idle"
    /\ \E t \in Task : task[t].status = "running"
    /\ Pass(p, [IdlePass EXCEPT !.pc = "pass",
           !.todo = {[task |-> t, ledger |-> task[t].ledger] :
                        t \in {u \in Task : task[u].status = "running"}}])
    /\ NoFault
    /\ UNCHANGED <<vars, now, task, run, launcher, updater, posts>>
EndPass(p) ==
    /\ rec[p].pc = "pass" /\ rec[p].todo = {}
    /\ Pass(p, IdlePass)
    /\ NoFault
    /\ UNCHANGED <<vars, now, task, run, launcher, updater, posts>>

(* markTaskCompleted: compare-and-set from running *)
MarkTaskCompleted(t) ==
    /\ ~ TaskLocked(t)
    /\ task' = IF task[t].status = "running"
               THEN [task EXCEPT ![t].status = "completed"] ELSE task

(* A row read with its commit marker is completed without asking Smithers. *)
RecoverCommitted(p) ==
    /\ rec[p].pc = "pass"
    /\ \E row \in rec[p].todo :
          /\ row.ledger
          /\ MarkTaskCompleted(row.task)
          /\ Pass(p, [rec[p] EXCEPT !.todo = @ \ {row}])
    /\ NoFault
    /\ UNCHANGED <<vars, now, run, launcher, updater, posts>>

(* inspectSmithersRun and the branch it selects.  The rows come in no      *)
(* particular order.  A run Smithers does not know may still be starting.  *)
VerdictWithoutFailed(t) ==
    CASE run[t] = "finished" -> "finished"
      [] run[t] = "cancelled" -> "cancelling"
      [] run[t] \in {"running", "failed"} -> "pass"
      [] OTHER -> IF now - task[t].started < Grace THEN "pass" ELSE "failing"
Verdict(t) ==
    CASE run[t] = "finished" -> "finished"
      [] run[t] = "failed" -> "failing"
      [] run[t] = "cancelled" -> "cancelling"
      [] run[t] = "running" -> "pass"
      [] OTHER -> IF now - task[t].started < Grace THEN "pass" ELSE "failing"
InspectRun(p) ==
    /\ rec[p].pc = "pass"
    /\ \E row \in rec[p].todo :
          /\ ~ row.ledger
          /\ \/ /\ NoFault
                /\ Pass(p, [pc |-> Verdict(row.task), todo |-> rec[p].todo \ {row},
                            cur |-> IF Verdict(row.task) = "pass" THEN None ELSE row.task])
             \/ /\ Fault("inspect error")
                /\ Pass(p, [pc |-> "failing", todo |-> rec[p].todo \ {row}, cur |-> row.task])
    /\ UNCHANGED <<vars, now, task, run, launcher, updater, posts>>

(* A finished run.  Every exception but ForecastQuestionNotOpenError       *)
(* leaves the whole pass.                                                  *)
OutputFails(p) ==
    /\ rec[p].pc = "finished"
    /\ Fault("output error")
    /\ Pass(p, IdlePass)
    /\ UNCHANGED <<vars, now, task, run, launcher, updater, posts>>
NoArtifact(p) ==
    /\ rec[p].pc = "finished" /\ ~ task[rec[p].cur].artifact
    /\ GoTo(p, "failing")
    /\ NoFault
    /\ UNCHANGED <<vars, now, task, run, launcher, updater, posts>>

(* persistBinaryForecastLedger, one transaction: the task row is locked, a *)
(* committed manifest is returned, leftovers without a marker throw.       *)
LockedTask(p) ==
    /\ rec[p].pc = "finished"
    /\ task[rec[p].cur].artifact
    /\ ~ TaskLocked(rec[p].cur)
Unwritten(t) == ~ task[t].ledger /\ task[t].attempts = 0
AlreadyCommitted(p) ==
    /\ LockedTask(p) /\ task[rec[p].cur].ledger
    /\ GoTo(p, "committed")
    /\ NoFault
    /\ UNCHANGED <<vars, now, task, run, launcher, updater, posts>>
BeginLedger(p) ==
    LET t == rec[p].cur row == task[t] IN
    /\ LockedTask(p) /\ Unwritten(t)
    /\ BeginSnapshot(row.question, t, row.prev, row.asOf, row.due)
    /\ GoTo(p, "writing")
    /\ NoFault
    /\ UNCHANGED <<now, task, run, launcher, updater, posts>>
QuestionNotOpenSwallowed(p) ==
    /\ LockedTask(p) /\ Unwritten(rec[p].cur)
    /\ ~ Locked(task[rec[p].cur].question) /\ ~ IsOpen(task[rec[p].cur].question)
    /\ GoTo(p, "committed")
    /\ NoFault
    /\ UNCHANGED <<vars, now, task, run, launcher, updater, posts>>
QuestionNotOpen(p) ==
    LET t == rec[p].cur q == task[t].question IN
    /\ LockedTask(p) /\ Unwritten(t)
    /\ ~ Locked(q) /\ ~ IsOpen(q)
    /\ GoTo(p, "failing")
    /\ NoFault
    /\ UNCHANGED <<vars, now, task, run, launcher, updater, posts>>
StaleState(p) ==
    LET t == rec[p].cur row == task[t] IN
    /\ LockedTask(p) /\ ~ row.ledger
    /\ ~ Locked(row.question)
    /\ \/ row.attempts > 0
       \/ IsOpen(row.question) /\ ~ ChronologyOK(row.question, row.prev, row.asOf)
    /\ Pass(p, IdlePass)
    /\ NoFault
    /\ UNCHANGED <<vars, now, task, run, launcher, updater, posts>>

(* The rest of the transaction: attempts, aggregate and snapshot become    *)
(* visible together with the commit marker.                                *)
CommitLedger(p) ==
    LET t == rec[p].cur IN
    /\ rec[p].pc = "writing"
    /\ CommitSnapshot(task[t].question)
    /\ task' = [task EXCEPT ![t].ledger = TRUE, ![t].attempts = @ + 1]
    /\ GoTo(p, "committed")
    /\ NoFault
    /\ UNCHANGED <<now, run, launcher, updater, posts>>
CompleteTask(p) ==
    /\ rec[p].pc = "committed"
    /\ MarkTaskCompleted(rec[p].cur)
    /\ NextTask(p)
    /\ NoFault
    /\ UNCHANGED <<vars, now, run, launcher, updater, posts>>

(* A cancelled or revoked run ends the task and touches nothing else. *)
CancelTask(p) ==
    LET t == rec[p].cur IN
    /\ rec[p].pc = "cancelling"
    /\ ~ TaskLocked(t)
    /\ task' = IF task[t].status = "running"
               THEN [task EXCEPT ![t].status = "cancelled"] ELSE task
    /\ NextTask(p)
    /\ NoFault
    /\ UNCHANGED <<vars, now, run, launcher, updater, posts>>

FailTask(p) ==
    LET t == rec[p].cur IN
    /\ rec[p].pc = "failing"
    /\ MarkTaskFailed(t)
    /\ Pass(p, [rec[p] EXCEPT !.pc = AfterFailing(t, "pass"),
                              !.cur = IF AfterFailing(t, "pass") = "pass" THEN None ELSE @])
    /\ NoFault
    /\ UNCHANGED <<vars, now, run, launcher, updater, posts>>
ReactivateAfterFailure(p) ==
    LET t == rec[p].cur IN
    /\ rec[p].pc = "reactivating"
    /\ ReactivateStatement(t)
    /\ Pass(p, [rec[p] EXCEPT !.pc = AfterReactivating(t, "pass"),
                              !.cur = IF AfterReactivating(t, "pass") = "pass" THEN None ELSE @])
    /\ NoFault
    /\ UNCHANGED <<now, task, run, launcher, updater, posts>>
ReleaseAfterFailure(p) ==
    /\ rec[p].pc = "releasing"
    /\ ReleaseStatement(rec[p].cur)
    /\ NextTask(p)
    /\ NoFault
    /\ UNCHANGED <<now, task, run, launcher, updater, posts>>

(* The process or the connection its pass borrowed goes away. *)
CrashHalfWay(p) ==
    LET t == rec[p].cur IN
    /\ rec[p].pc = "writing"
    /\ Fault("reconciler crash")
    /\ Pass(p, IdlePass)
    /\ snapshot' = [snapshot EXCEPT ![t] =
           [question |-> task[t].question, prev |-> task[t].prev, asOf |-> task[t].asOf]]
    /\ tx' = [tx EXCEPT ![task[t].question] = None]
    /\ UNCHANGED <<question, trigger, now, task, run, launcher, updater, posts>>
ReconcilerCrashes(p) ==
    /\ rec[p].pc # "idle"
    /\ Fault("reconciler crash")
    /\ Pass(p, IdlePass)
    /\ IF rec[p].pc = "writing" THEN Rollback(task[rec[p].cur].question) ELSE UNCHANGED vars
    /\ UNCHANGED <<now, task, run, launcher, updater, posts>>

-----------------------------------------------------------------------------
(* The Smithers runs, the people and the clock *)

RunStep(t, from, to) ==
    /\ run[t] = from
    /\ run' = [run EXCEPT ![t] = to]
    /\ UNCHANGED <<vars, now, task, launcher, updater, rec, posts>>
RunStarts(t) == RunStep(t, "starting", "running") /\ NoFault
RunEnds(t) == (RunStep(t, "running", "finished") \/ RunStep(t, "running", "failed")) /\ NoFault
RunIsCancelled(t) == RunStep(t, "running", "cancelled") /\ Fault("run cancelled")
RunIsLost(t) == RunStep(t, "starting", "lost") /\ Fault("run lost")

(* ensureRunReportArtifact inserts an artifact row for the task, whatever  *)
(* its status.  A running forecast task without an output artifact of its  *)
(* own will adopt it; for the others it changes nothing kept here.         *)
RequestReport(t) ==
    /\ task[t].status = "running" /\ ~ task[t].artifact
    /\ task' = [task EXCEPT ![t].artifact = TRUE]
    /\ NoFault
    /\ UNCHANGED <<vars, now, run, procs, posts>>

(* resolveForecastTask: a completed task with its ledger closes the        *)
(* question of its snapshot, annulled or not, any number of times.         *)
ResolveTask(t, status) ==
    /\ task[t].status = "completed" /\ task[t].ledger
    /\ BeginClose(task[t].question, status)
    /\ NoFault
    /\ UNCHANGED <<now, task, run, procs, posts>>
CommitResolution(q) ==
    /\ CommitClose(q)
    /\ NoFault
    /\ UNCHANGED <<now, task, run, procs, posts>>

Tick ==
    /\ now < MaxTime
    /\ now' = now + 1
    /\ NoFault
    /\ UNCHANGED <<vars, task, run, procs, posts>>

LauncherStep(t) ==
    \/ CreateBootstrapArtifact(t) \/ LaunchSmithers(t) \/ LaunchFails(t) \/ MarkLaunched(t)
    \/ FireTrigger(t) \/ FailLaunch(t) \/ ReactivateAfterLaunch(t) \/ ReleaseAfterLaunch(t)
UpdaterStep(o) ==
    \/ ReadContext(o) \/ RetirePlan(o) \/ ClearRetired(o) \/ UpdaterEnds(o)
    \/ \E t \in Task : CreateUpdateTask(o, t)
PassStep(p) ==
    \/ StartPass(p) \/ EndPass(p) \/ RecoverCommitted(p) \/ InspectRun(p)
    \/ OutputFails(p) \/ NoArtifact(p) \/ AlreadyCommitted(p) \/ BeginLedger(p)
    \/ QuestionNotOpen(p) \/ StaleState(p) \/ CommitLedger(p) \/ CompleteTask(p)
    \/ CancelTask(p) \/ FailTask(p) \/ ReactivateAfterFailure(p) \/ ReleaseAfterFailure(p)
RunProgress(t) == RunStarts(t) \/ RunEnds(t)

LiveNext ==
    \/ \E t \in Task : \/ \E q \in Question : PostRun(t, q)
                       \/ LauncherStep(t) \/ LauncherCrashes(t)
                       \/ RunProgress(t) \/ RunIsCancelled(t) \/ RunIsLost(t)
                       \/ RequestReport(t)
                       \/ \E status \in Outcomes : ResolveTask(t, status)
    \/ \E o \in Owner : ClaimTriggers(o) \/ UpdaterStep(o) \/ UpdaterCrashes(o)
    \/ \E p \in Proc : PassStep(p) \/ ReconcilerCrashes(p)
    \/ \E q \in Question : CommitResolution(q)
    \/ Tick

(* A process that has not died takes its next step; row locks are granted  *)
(* in turn, so that one that waits is not overtaken for ever.  Clients     *)
(* keep polling and passes keep starting, resolutions commit, Smithers     *)
(* runs end and time goes on.  Nobody has to launch, claim, resolve or ask *)
(* for a report.                                                           *)
Fairness ==
    /\ \A t \in Task : SF_live(LauncherStep(t)) /\ WF_live(RunProgress(t))
    /\ \A o \in Owner : SF_live(UpdaterStep(o))
    /\ \A p \in Proc : SF_live(PassStep(p))
    /\ \A q \in Question : WF_live(CommitResolution(q))
    /\ WF_live(Tick)

LiveSpec == LiveInit /\ [][LiveNext]_live
FairSpec == LiveSpec /\ Fairness

-----------------------------------------------------------------------------
(* The ledger of a task is written exactly once and as a whole: the commit *)
(* marker, the snapshot on the question's chain and the attempt rows are   *)
(* there together or not at all, through crashes, replays and passes of    *)
(* several processes.                                                      *)
LedgerIsExactlyOnce ==
    \A t \in Task :
        /\ task[t].attempts = IF task[t].ledger THEN 1 ELSE 0
        /\ task[t].ledger <=> snapshot[t] # None
        /\ task[t].ledger => snapshot[t].question = task[t].question

(* A product forecast is completed only with its committed ledger. *)
CompletedHasLedger == \A t \in Task : task[t].status = "completed" => task[t].ledger

(* A task that has reached a terminal status keeps it, though launchers    *)
(* and the passes of several processes act on statuses they read earlier.  *)
TerminalIsFinal ==
    [][\A t \in Task : task[t].status \in Terminal => task'[t].status = task[t].status]_live

(* An active or snoozed review belongs to the latest snapshot of an open   *)
(* question: "a newer successful snapshot therefore wins races".           *)
LiveTriggersAreCurrent ==
    \A s \in State : trigger[s].status \in {"active", "snoozed"} =>
        IsOpen(snapshot[s].question) /\ SourceIsLatest(s)

(* At most one update of a question is on its way at any time. *)
InFlight(t) == run[t] \in {"starting", "running"} /\ task[t].trigger # None
OneUpdateInFlight ==
    \A t, u \in Task : InFlight(t) /\ InFlight(u) /\ task[t].question = task[u].question => t = u

(* Even so, of the updates launched for a review only one gets as far as   *)
(* firing it and is still running, however long it takes and whatever      *)
(* becomes of its lease meanwhile.  (A question may have two such reviews, *)
(* one after the other, while the update of the first is still running.)   *)
Confirmed(t) ==
    /\ task[t].status = "running" /\ ~ task[t].ledger
    /\ task[t].trigger # None /\ launcher[t] = "done"
OneUpdatePerReview ==
    \A t, u \in Task : Confirmed(t) /\ Confirmed(u) /\ task[t].trigger = task[u].trigger => t = u

(* A snoozed review is the one its question's lease is for, without which  *)
(* it could never be claimed again.  Only a question that is due for no    *)
(* later review may lose it: the second statement of the retirement clears *)
(* the lease whoever has claimed the review of a late update meanwhile.    *)
SnoozedIsLeased ==
    \A s \in State : trigger[s].status = "snoozed" =>
        \/ question[snapshot[s].question].leased = s
        \/ NextReview(snapshot[s].question, now) = None

(* A finished run whose state is stale fails every pass that gets to it,   *)
(* as long as its question is open, and with it all that the pass has not  *)
(* come to yet.  What follows about progress is promised unless some task  *)
(* stays that way for ever.                                                *)
Ready(t) ==
    /\ task[t].status = "running" /\ run[t] = "finished"
    /\ task[t].artifact /\ ~ task[t].ledger /\ IsOpen(task[t].question)
Fits(t) == ChronologyOK(task[t].question, task[t].prev, task[t].asOf)
AlwaysStale == <>[](\E t \in Task : Ready(t) /\ ~ Fits(t))

(* Unless a process died or a run was cancelled, a fired review does not   *)
(* stay fired for ever on a question that waits for it: it is succeeded,   *)
(* made active again, or the question closes.                              *)
Waiting(s) == trigger[s].status = "fired" /\ IsOpen(snapshot[s].question) /\ SourceIsLatest(s)
Forsaken == faults \cap {"launcher crash", "reconciler crash", "run cancelled"} # {}
FiredReviewsSettle ==
    AlwaysStale \/ \A s \in State : Waiting(s) ~> ~ Waiting(s) \/ Forsaken

(* A task whose run is over ends. *)
Over(t) == task[t].status = "running" /\ run[t] \in {"finished", "failed", "cancelled", "lost"}
FinishedRunsEndTheirTask ==
    AlwaysStale \/ \A t \in Task : Over(t) ~> task[t].status \in Terminal

(* A finished forecast that its question can take is committed, whatever   *)
(* other tasks the passes have to deal with.                               *)
Committable(t) == Ready(t) /\ Fits(t)
CommittableRunsAreCommitted == \A t \in Task : Committable(t) ~> ~ Committable(t)

(* Whatever the processes do, the database goes through steps of           *)
(* ForecastState only, so that what is proved of it holds here.            *)
ImplementsForecastState == Spec

=============================================================================
