-------------------------- MODULE LiveForecastProofs --------------------------
(***************************************************************************)
(* What holds of LiveForecast for every number of tasks, processes and     *)
(* runner executions, with the proofs: the system implements               *)
(* ForecastState, so that all that is proved of it holds here; ledgers are *)
(* written exactly once; completed tasks have theirs; terminal is final;   *)
(* of the updates launched for a review one is confirmed; and a snoozed    *)
(* review has the lease of its question.                                   *)
(*                                                                         *)
(* The inductive invariant LiveInv says what a process may rely on when it *)
(* takes its next step: that the task at hand exists, that its run was     *)
(* launched, that a task read with its commit marker has it still, and     *)
(* that the transaction a pass is writing is its own.  ClaimInv and        *)
(* ReviewInv, further down, say the same of the reviews: who may still     *)
(* fire, reactivate or release one, and when a lease may be cleared.       *)
(***************************************************************************)
EXTENDS LiveForecast, ForecastStateProofs

(* A task that exists has a question, a forecast time and, if it is an     *)
(* update, an owner. *)
TaskIsWhole(t) ==
    /\ task[t].status # "none" => task[t].question \in Question /\ task[t].asOf \in Time
    /\ task[t].status = "none" => task[t].trigger = None /\ ~ task[t].ledger /\ task[t].attempts = 0
    /\ task[t].trigger # None => task[t].owner \in Owner
TasksAreWhole == \A t \in Task : TaskIsWhole(t)

(* A launcher knows the status of its task until it has marked it running, *)
(* and fires, reactivates or releases only the trigger of an update.       *)
LauncherKnows(t) ==
    /\ launcher[t] # "none" => task[t].status # "none"
    /\ launcher[t] \in {"created", "ready", "launched"} => task[t].status = "queued"
    /\ launcher[t] \in {"marked", "reactivating", "releasing"} => task[t].trigger # None
LaunchersKnow == \A t \in Task : LauncherKnows(t)

(* The triggers of a runner execution belong to committed snapshots.       *)
UpdaterKnows(o) ==
    /\ \A s \in updater[o].claimed : snapshot[s] # None
    /\ \A plan \in updater[o].plans : snapshot[plan.trigger] # None
UpdatersKnow == \A o \in Owner : UpdaterKnows(o)

(* The tasks of a pass were running when it began. *)
WasRunning(t) == task[t].status \notin {"none", "queued"}
PassKnows(p) ==
    /\ \A row \in rec[p].todo : WasRunning(row.task) /\ (row.ledger => task[row.task].ledger)
    /\ rec[p].pc \notin {"idle", "pass"} => rec[p].cur \in Task /\ WasRunning(rec[p].cur)
    /\ rec[p].pc = "committed" => task[rec[p].cur].ledger
    /\ rec[p].pc \in {"reactivating", "releasing"} => task[rec[p].cur].trigger # None
PassesKnow == \A p \in Proc : PassKnows(p)

(* A pass that is writing a ledger holds the lock of the question, and no  *)
(* other pass is writing one of the same question.                         *)
Writes(p, q) == rec[p].pc = "writing" /\ task[rec[p].cur].question = q
WriterHoldsLock ==
    \A p \in Proc, q \in Question : Writes(p, q) =>
        Locked(q) /\ tx[q].kind = "snapshot" /\ tx[q].state = rec[p].cur
OneWriter ==
    \A p, r \in Proc, q \in Question : Writes(p, q) /\ Writes(r, q) => p = r

TasksOK ==
    /\ task \in [Task -> TaskRow]
    /\ \A t \in Task : task[t].status = "running" => task[t].started # None
    /\ TasksAreWhole
ProcessesOK ==
    /\ now \in Time
    /\ run \in [Task -> {"none", "starting", "running", "finished", "failed", "cancelled", "lost"}]
    /\ launcher \in [Task -> LaunchSteps]
    /\ updater \in [Owner -> UpdaterRow]
    /\ rec \in [Proc -> RecRow]
    /\ posts \in 0 .. MaxPosts /\ faults \subseteq Faults
ProcessInv ==
    /\ TasksOK /\ ProcessesOK
    /\ LaunchersKnow /\ UpdatersKnow /\ PassesKnow
    /\ WriterHoldsLock /\ OneWriter
    /\ LedgerIsExactlyOnce /\ CompletedHasLedger
LiveInv == IInv /\ ProcessInv

-----------------------------------------------------------------------------
(* Typing of the helpers *)

LEMMA TaskTypes ==
    ASSUME LiveInv, NEW t \in Task, task[t].status # "none"
    PROVE  /\ task[t].question \in Question
           /\ task[t].prev \in State \cup {None}
           /\ task[t].asOf \in Time
           /\ task[t].due \in ReviewTime \cup {None}
           /\ task[t].trigger # None => task[t].trigger \in State /\ task[t].owner \in Owner
  BY DEF LiveInv, ProcessInv, TasksOK, TasksAreWhole, TaskIsWhole, TaskRow, Task

LEMMA PassTypes ==
    ASSUME LiveInv, NEW p \in Proc, rec[p].pc \notin {"idle", "pass"}
    PROVE  /\ rec[p].cur \in Task
           /\ WasRunning(rec[p].cur)
           /\ task[rec[p].cur].status # "none"
  BY DEF LiveInv, ProcessInv, PassesKnow, PassKnows, WasRunning

LEMMA PlanTypes ==
    ASSUME LiveInv, NEW o \in Owner
    PROVE  /\ \A plan \in updater[o].plans :
                 /\ plan.trigger \in State /\ plan.prev \in State \cup {None}
                 /\ snapshot[plan.trigger] # None
                 /\ snapshot[plan.trigger].question \in Question
           /\ \A s \in updater[o].claimed :
                 s \in State /\ snapshot[s] # None /\ snapshot[s].question \in Question
           /\ updater[o].asOf \in Time
<1>1. updater[o] \in UpdaterRow
  BY DEF LiveInv, ProcessInv, ProcessesOK
<1>2. /\ updater[o].claimed \in SUBSET State /\ updater[o].asOf \in Time
      /\ updater[o].plans \in SUBSET [trigger : State, prev : State \cup {None}]
  BY <1>1 DEF UpdaterRow, Task
<1>3. \A s \in State : snapshot[s] # None => snapshot[s].question \in Question
  BY DEF LiveInv, IInv, TypeInv, TypeOK, SnapshotRow
<1> QED BY <1>2, <1>3 DEF LiveInv, ProcessInv, UpdatersKnow, UpdaterKnows

-----------------------------------------------------------------------------
(* Every step is a step of ForecastState or leaves the database alone. *)
LEMMA LauncherDatabaseStep ==
    ASSUME LiveInv, NEW t \in Task, LauncherStep(t)
    PROVE  [Next]_vars
<1>1. ASSUME task[t].trigger # None, task[t].status # "none", ReactivateStatement(t)
      PROVE  [Next]_vars
  BY <1>1, TaskTypes DEF ReactivateStatement, Next
<1>2. ASSUME task[t].trigger # None, task[t].status # "none", ReleaseStatement(t)
      PROVE  [Next]_vars
  BY <1>2, TaskTypes DEF ReleaseStatement, Next
<1>3. launcher[t] # "none" => task[t].status # "none"
  BY DEF LiveInv, ProcessInv, LaunchersKnow, LauncherKnows
<1>4. launcher[t] \in {"marked", "reactivating", "releasing"} => task[t].trigger # None
  BY DEF LiveInv, ProcessInv, LaunchersKnow, LauncherKnows
<1>5. CASE FireTrigger(t)
  BY <1>3, <1>4, <1>5, TaskTypes DEF FireTrigger, Next
<1>6. CASE ReactivateAfterLaunch(t)
  BY <1>1, <1>3, <1>4, <1>6 DEF ReactivateAfterLaunch
<1>7. CASE ReleaseAfterLaunch(t)
  BY <1>2, <1>3, <1>4, <1>7 DEF ReleaseAfterLaunch
<1>8. CASE UNCHANGED vars
  BY <1>8
<1> QED
  BY <1>5, <1>6, <1>7, <1>8 DEF LauncherStep, CreateBootstrapArtifact, LaunchSmithers,
     LaunchFails, MarkLaunched, FailLaunch

LEMMA UpdaterDatabaseStep ==
    ASSUME LiveInv, NEW o \in Owner, ClaimTriggers(o) \/ UpdaterStep(o)
    PROVE  [Next]_vars
<1>1. CASE ClaimTriggers(o)
  BY <1>1 DEF ClaimTriggers, Next, LiveInv, ProcessInv, ProcessesOK
<1>2. CASE RetirePlan(o)
  BY <1>2, PlanTypes DEF RetirePlan, Next
<1>3. CASE ClearRetired(o)
  BY <1>3, PlanTypes DEF ClearRetired, Next
<1>4. CASE UNCHANGED vars
  BY <1>4
<1> QED
  BY <1>1, <1>2, <1>3, <1>4 DEF UpdaterStep, ReadContext, UpdaterEnds, CreateUpdateTask

LEMMA PassDatabaseStep ==
    ASSUME LiveInv, NEW p \in Proc, PassStep(p) \/ ReconcilerCrashes(p)
    PROVE  [Next]_vars
<1> DEFINE t == rec[p].cur
<1>1. ASSUME rec[p].pc \notin {"idle", "pass"}
      PROVE  /\ t \in State /\ task[t].question \in Question
             /\ task[t].prev \in State \cup {None} /\ task[t].asOf \in Time
             /\ task[t].due \in ReviewTime \cup {None}
  BY <1>1, PassTypes, TaskTypes DEF Task
<1>2. ASSUME rec[p].pc \in {"reactivating", "releasing"}
      PROVE  task[t].trigger \in State /\ task[t].owner \in Owner
  BY <1>2, PassTypes, TaskTypes DEF LiveInv, ProcessInv, PassesKnow, PassKnows
<1>3. CASE BeginLedger(p)
  <2>1. BeginSnapshot(task[t].question, t, task[t].prev, task[t].asOf, task[t].due)
    BY <1>3 DEF BeginLedger
  <2>2. rec[p].pc \notin {"idle", "pass"}
    BY <1>3 DEF BeginLedger, LockedTask
  <2> QED BY <1>1, <2>1, <2>2 DEF Next
<1>4. CASE CommitLedger(p)
  BY <1>1, <1>4 DEF CommitLedger, Next
<1>5. CASE ReactivateAfterFailure(p)
  BY <1>2, <1>5 DEF ReactivateAfterFailure, ReactivateStatement, Next
<1>6. CASE ReleaseAfterFailure(p)
  BY <1>2, <1>6 DEF ReleaseAfterFailure, ReleaseStatement, Next
<1>7. CASE ReconcilerCrashes(p)
  BY <1>1, <1>7 DEF ReconcilerCrashes, Next
<1>8. CASE UNCHANGED vars
  BY <1>8
<1> QED
  BY <1>3, <1>4, <1>5, <1>6, <1>7, <1>8 DEF PassStep, StartPass, EndPass, RecoverCommitted,
     InspectRun, OutputFails, NoArtifact, AlreadyCommitted, QuestionNotOpen, StaleState,
     CompleteTask, CancelTask, FailTask

LEMMA DatabaseStep == LiveInv /\ [LiveNext]_live => [Next]_vars
<1> SUFFICES ASSUME LiveInv, [LiveNext]_live PROVE [Next]_vars
  OBVIOUS
<1>1. ASSUME NEW t \in Task, NEW status \in Outcomes, ResolveTask(t, status)
      PROVE  [Next]_vars
  BY <1>1, TaskTypes, FaultAssumption, PolicyAssumption DEF ResolveTask, Next
<1>2. ASSUME NEW q \in Question, CommitResolution(q)
      PROVE  [Next]_vars
  BY <1>2 DEF CommitResolution, Next
<1>3. CASE UNCHANGED vars
  BY <1>3
<1>4. ASSUME NEW t \in Task, RunProgress(t) \/ RunIsCancelled(t) \/ RunIsLost(t) \/ RequestReport(t)
      PROVE  UNCHANGED vars
  BY <1>4 DEF RunProgress, RunIsCancelled, RunIsLost, RunStarts, RunEnds, RunStep, RequestReport
<1>5. ASSUME NEW t \in Task, LauncherCrashes(t) \/ \E q \in Question : PostRun(t, q)
      PROVE  UNCHANGED vars
  BY <1>5 DEF LauncherCrashes, PostRun
<1>6. ASSUME NEW o \in Owner, UpdaterCrashes(o)
      PROVE  UNCHANGED vars
  BY <1>6 DEF UpdaterCrashes
<1>7. ASSUME UNCHANGED live
      PROVE  UNCHANGED vars
  BY <1>7 DEF live
<1>8. ASSUME Tick
      PROVE  UNCHANGED vars
  BY <1>8 DEF Tick
<1> QED
  BY <1>1, <1>2, <1>3, <1>4, <1>5, <1>6, <1>7, <1>8, LauncherDatabaseStep,
     UpdaterDatabaseStep, PassDatabaseStep DEF LiveNext

-----------------------------------------------------------------------------
(* How the row of a task evolves. *)
Kept(t) ==
    /\ task[t].status # "none" =>
          /\ task'[t].status # "none"
          /\ task'[t].question = task[t].question /\ task'[t].trigger = task[t].trigger
    /\ WasRunning(t) => WasRunning(t)'
    /\ task[t].status \in Terminal => task'[t].status = task[t].status
    /\ task[t].ledger => task'[t].ledger
TasksKept == TasksOK' /\ \A t \in Task : Kept(t)

Status == {"none", "queued", "running"} \cup Terminal
LEMMA RowStatus ==
    ASSUME NEW row \in TaskRow, NEW status \in Status
    PROVE  LET new == [row EXCEPT !.status = status] IN
           /\ new \in TaskRow /\ new.status = status
           /\ new.question = row.question /\ new.trigger = row.trigger
           /\ new.owner = row.owner /\ new.asOf = row.asOf /\ new.started = row.started
           /\ new.ledger = row.ledger /\ new.attempts = row.attempts
  BY DEF TaskRow, Status, Terminal
LEMMA RowArtifact ==
    ASSUME NEW row \in TaskRow
    PROVE  LET new == [row EXCEPT !.artifact = TRUE] IN
           /\ new \in TaskRow /\ new.status = row.status
           /\ new.question = row.question /\ new.trigger = row.trigger
           /\ new.owner = row.owner /\ new.asOf = row.asOf /\ new.started = row.started
           /\ new.ledger = row.ledger /\ new.attempts = row.attempts
  BY DEF TaskRow
LEMMA RowRunning ==
    ASSUME NEW row \in TaskRow, NEW started \in Time
    PROVE  LET new == [row EXCEPT !.status = "running", !.started = started] IN
           /\ new \in TaskRow /\ new.status = "running" /\ new.started # None
           /\ new.question = row.question /\ new.trigger = row.trigger
           /\ new.owner = row.owner /\ new.asOf = row.asOf
           /\ new.ledger = row.ledger /\ new.attempts = row.attempts
<1>1. started # None
  BY NoneAssumption DEF Time
<1> QED BY <1>1 DEF TaskRow
LEMMA RowLedger ==
    ASSUME NEW row \in TaskRow
    PROVE  LET new == [row EXCEPT !.ledger = TRUE, !.attempts = @ + 1] IN
           /\ new \in TaskRow /\ new.status = row.status
           /\ new.question = row.question /\ new.trigger = row.trigger
           /\ new.owner = row.owner /\ new.asOf = row.asOf /\ new.started = row.started
           /\ new.ledger = TRUE /\ new.attempts = row.attempts + 1
<1>1. PICK n \in Nat : n = row.attempts + 1
  BY DEF TaskRow
<1>2. LET new == [row EXCEPT !.ledger = TRUE, !.attempts = n] IN
      /\ new \in TaskRow /\ new.status = row.status
      /\ new.question = row.question /\ new.trigger = row.trigger
      /\ new.owner = row.owner /\ new.asOf = row.asOf /\ new.started = row.started
      /\ new.ledger = TRUE /\ new.attempts = n
  BY DEF TaskRow
<1> QED BY <1>1, <1>2

(* One row is replaced by one that carries on its task. *)
CarriesOn(t, row) ==
    /\ row \in TaskRow
    /\ row.status = "running" => row.started # None
    /\ row.status # "none"
    /\ row.question = task[t].question /\ row.trigger = task[t].trigger
    /\ row.owner = task[t].owner /\ row.asOf = task[t].asOf
    /\ WasRunning(t) => row.status # "queued"
    /\ task[t].status \in Terminal => row.status = task[t].status
    /\ task[t].ledger => row.ledger
LEMMA OneTaskKept ==
    ASSUME TasksOK, NEW t \in Task, task[t].status # "none", NEW row, CarriesOn(t, row),
           task' = [task EXCEPT ![t] = row]
    PROVE  TasksKept
<1>1. task' \in [Task -> TaskRow] /\ task'[t] = row /\ \A u \in Task : u # t => task'[u] = task[u]
  BY DEF TasksOK, CarriesOn
<1>2. \A u \in Task : TaskIsWhole(u)'
  BY <1>1 DEF TasksOK, TasksAreWhole, TaskIsWhole, CarriesOn
<1>3. \A u \in Task : task'[u].status = "running" => task'[u].started # None
  BY <1>1 DEF TasksOK, CarriesOn
<1>4. \A u \in Task : Kept(u)
  BY <1>1 DEF Kept, CarriesOn, WasRunning
<1> QED BY <1>1, <1>2, <1>3, <1>4 DEF TasksKept, TasksOK, TasksAreWhole
LEMMA NoTaskChanges ==
    ASSUME TasksOK, UNCHANGED task
    PROVE  TasksKept
  BY DEF TasksKept, TasksOK, TasksAreWhole, TaskIsWhole, Kept, WasRunning

(* A new task takes a name that no process knows. *)
LEMMA NewTaskKept ==
    ASSUME TasksOK, NEW t \in Task, task[t].status = "none", NEW row \in TaskRow,
           row.status = "queued", row.question \in Question, row.asOf \in Time,
           row.trigger # None => row.owner \in Owner,
           task' = [task EXCEPT ![t] = row]
    PROVE  TasksKept
<1>1. task' \in [Task -> TaskRow] /\ task'[t] = row /\ \A u \in Task : u # t => task'[u] = task[u]
  BY DEF TasksOK
<1>2. \A u \in Task : TaskIsWhole(u)'
  BY <1>1 DEF TasksOK, TasksAreWhole, TaskIsWhole
<1>3. \A u \in Task : task'[u].status = "running" => task'[u].started # None
  BY <1>1 DEF TasksOK
<1>4. \A u \in Task : Kept(u)
  BY <1>1 DEF Kept, WasRunning, TasksOK, TasksAreWhole, TaskIsWhole, Terminal
<1> QED BY <1>1, <1>2, <1>3, <1>4 DEF TasksKept, TasksOK, TasksAreWhole

(* What the passes, the transactions and the ledgers know stays true while *)
(* others carry on the tasks. *)
SameLedgers == \A t \in Task : task'[t].ledger = task[t].ledger /\ task'[t].attempts = task[t].attempts
LEMMA PassesStillKnow ==
    ASSUME LiveInv, TasksKept, UNCHANGED rec
    PROVE  PassesKnow'
<1> SUFFICES ASSUME NEW p \in Proc PROVE PassKnows(p)'
  BY DEF PassesKnow
<1>1. rec[p] \in RecRow /\ PassKnows(p)
  BY DEF LiveInv, ProcessInv, ProcessesOK, PassesKnow
<1>2. \A row \in rec[p].todo : row.task \in Task
  BY <1>1 DEF RecRow
<1> QED BY <1>1, <1>2 DEF PassKnows, TasksKept, Kept, WasRunning
LEMMA WritersStillHold ==
    ASSUME LiveInv, TasksKept, UNCHANGED <<rec, tx>>
    PROVE  WriterHoldsLock' /\ OneWriter'
<1>1. \A p \in Proc, q \in Question : Writes(p, q)' <=> Writes(p, q)
  BY PassTypes DEF Writes, TasksKept, Kept
<1> QED BY <1>1 DEF LiveInv, ProcessInv, WriterHoldsLock, OneWriter, Locked
LEMMA LedgersStay ==
    ASSUME LiveInv, TasksKept, SameLedgers, UNCHANGED snapshot
    PROVE  LedgerIsExactlyOnce'
  BY DEF LiveInv, ProcessInv, LedgerIsExactlyOnce, SameLedgers, TasksKept, Kept,
         TasksOK, TasksAreWhole, TaskIsWhole
LEMMA CompletedStay ==
    ASSUME LiveInv, TasksKept,
           \A t \in Task : task'[t].status = "completed" => task[t].status = "completed" \/ task[t].ledger
    PROVE  CompletedHasLedger'
  BY DEF LiveInv, ProcessInv, CompletedHasLedger, TasksKept, Kept
LEMMA UpdatersStillKnow ==
    ASSUME LiveInv, UNCHANGED updater, \A s \in State : snapshot[s] # None => snapshot'[s] # None
    PROVE  UpdatersKnow'
<1> SUFFICES ASSUME NEW o \in Owner PROVE UpdaterKnows(o)'
  BY DEF UpdatersKnow
<1> QED BY PlanTypes DEF UpdaterKnows
LEMMA LaunchersStillKnow ==
    ASSUME LiveInv, TasksKept, UNCHANGED launcher,
           \A t \in Task : task[t].status = "queued" => task'[t].status = "queued"
    PROVE  LaunchersKnow'
<1> SUFFICES ASSUME NEW t \in Task PROVE LauncherKnows(t)'
  BY DEF LaunchersKnow
<1> QED BY DEF LiveInv, ProcessInv, LaunchersKnow, LauncherKnows, TasksKept, Kept

-----------------------------------------------------------------------------
(* Launching *)
NoneCompletes ==
    \A t \in Task : task'[t].status = "completed" => task[t].status = "completed" \/ task[t].ledger
LEMMA OutsidePasses ==
    ASSUME LiveInv, TasksKept, SameLedgers, NoneCompletes, UNCHANGED <<rec, snapshot, tx>>,
           ProcessesOK', LaunchersKnow', UpdatersKnow'
    PROVE  ProcessInv'
<1>1. PassesKnow'
  BY PassesStillKnow
<1>2. WriterHoldsLock' /\ OneWriter'
  BY WritersStillHold
<1>3. LedgerIsExactlyOnce'
  BY LedgersStay
<1>4. CompletedHasLedger'
  BY CompletedStay DEF NoneCompletes
<1> QED BY <1>1, <1>2, <1>3, <1>4 DEF ProcessInv, TasksKept
LEMMA OneLauncher ==
    ASSUME LiveInv, NEW t \in Task, NEW step \in LaunchSteps, SetLauncher(t, step),
           \A u \in Task : u # t => task'[u] = task[u],
           step # "none" => task'[t].status # "none",
           step \in {"created", "ready", "launched"} => task'[t].status = "queued",
           step \in {"marked", "reactivating", "releasing"} => task'[t].trigger # None
    PROVE  LaunchersKnow' /\ launcher' \in [Task -> LaunchSteps]
<1>1. launcher' \in [Task -> LaunchSteps] /\ launcher'[t] = step
      /\ \A u \in Task : u # t => launcher'[u] = launcher[u]
  BY DEF SetLauncher, LiveInv, ProcessInv, ProcessesOK
<1>2. \A u \in Task : LauncherKnows(u)'
  BY <1>1 DEF LauncherKnows, LaunchersKnow, LiveInv, ProcessInv
<1> QED BY <1>1, <1>2 DEF LaunchersKnow

(* A failed task keeps everything but its status. *)
LEMMA FailingKeeps ==
    ASSUME LiveInv, NEW t \in Task, task[t].status # "none", MarkTaskFailed(t)
    PROVE  /\ TasksKept /\ SameLedgers /\ NoneCompletes
           /\ \A u \in Task : u # t => task'[u] = task[u]
           /\ WasRunning(t) => \A u \in Task : task[u].status = "queued" => task'[u].status = "queued"
<1>1. TasksOK
  BY DEF LiveInv, ProcessInv
<1>2. CASE CanFail(t)
  <2> DEFINE row == [task[t] EXCEPT !.status = "failed"]
  <2>1. task[t] \in TaskRow /\ task' = [task EXCEPT ![t] = row]
    BY <1>1, <1>2 DEF MarkTaskFailed, TasksOK
  <2>2. /\ row \in TaskRow /\ row.status = "failed"
        /\ row.question = task[t].question /\ row.trigger = task[t].trigger
        /\ row.owner = task[t].owner /\ row.asOf = task[t].asOf /\ row.started = task[t].started
        /\ row.ledger = task[t].ledger /\ row.attempts = task[t].attempts
    BY <2>1, RowStatus DEF Status, Terminal
  <2>3. CarriesOn(t, row)
    BY <1>2, <2>2 DEF CarriesOn, CanFail, Terminal
  <2>4. TasksKept
    BY <1>1, <2>1, <2>3, OneTaskKept
  <2>5. task'[t] = row /\ \A u \in Task : u # t => task'[u] = task[u]
    BY <1>1, <2>1 DEF TasksOK
  <2> QED BY <2>2, <2>4, <2>5 DEF SameLedgers, NoneCompletes, WasRunning
<1>3. CASE ~ CanFail(t)
  <2>1. UNCHANGED task
    BY <1>3 DEF MarkTaskFailed
  <2> QED BY <1>1, <2>1, NoTaskChanges DEF SameLedgers, NoneCompletes
<1> QED BY <1>2, <1>3

LEMMA LauncherKeeps ==
    ASSUME LiveInv, NEW t \in Task, LauncherStep(t)
    PROVE  ProcessInv'
<1> USE DEF LaunchSteps
<1>1. /\ TasksOK /\ ProcessesOK /\ task[t] \in TaskRow /\ LauncherKnows(t)
  BY DEF LiveInv, ProcessInv, TasksOK, LaunchersKnow
<1>2. UNCHANGED <<now, updater, rec, posts, snapshot, tx>>
  BY DEF LauncherStep, CreateBootstrapArtifact, LaunchSmithers, LaunchFails, MarkLaunched,
         FireTrigger, FailLaunch, ReactivateAfterLaunch, ReleaseAfterLaunch, vars, MarkFired,
         ReactivateStatement, ReleaseStatement, Reactivate, ReleaseLease
<1>3. UpdatersKnow'
  BY <1>2, UpdatersStillKnow
<1>4. ASSUME TasksKept, SameLedgers, NoneCompletes, NEW step \in LaunchSteps, SetLauncher(t, step),
             run' \in [Task -> {"none", "starting", "running", "finished", "failed", "cancelled", "lost"}],
             faults' \subseteq Faults,
             \A u \in Task : u # t => task'[u] = task[u],
             step # "none" => task'[t].status # "none",
             step \in {"created", "ready", "launched"} => task'[t].status = "queued",
             step \in {"marked", "reactivating", "releasing"} => task'[t].trigger # None
      PROVE  ProcessInv'
  <2>1. LaunchersKnow' /\ launcher' \in [Task -> LaunchSteps]
    BY <1>4, OneLauncher
  <2>2. ProcessesOK'
    BY <1>1, <1>2, <1>4, <2>1 DEF ProcessesOK
  <2> QED BY <1>2, <1>3, <1>4, <2>1, <2>2, OutsidePasses
<1>5. ASSUME UNCHANGED <<task, run, faults>>, NEW step \in {"done", "failing", "releasing"},
             SetLauncher(t, step),
             launcher[t] \in {"marked", "reactivating", "releasing"}
      PROVE  ProcessInv'
  <2>1. TasksKept /\ SameLedgers /\ NoneCompletes
    BY <1>1, <1>5, NoTaskChanges DEF SameLedgers, NoneCompletes
  <2> QED BY <1>1, <1>4, <1>5, <2>1 DEF LauncherKnows, ProcessesOK
<1>6. CASE CreateBootstrapArtifact(t)
  <2> DEFINE row == [task[t] EXCEPT !.artifact = TRUE]
  <2>1. /\ row \in TaskRow /\ row.status = task[t].status
        /\ row.question = task[t].question /\ row.trigger = task[t].trigger
        /\ row.owner = task[t].owner /\ row.asOf = task[t].asOf /\ row.started = task[t].started
        /\ row.ledger = task[t].ledger /\ row.attempts = task[t].attempts
    BY <1>1, RowArtifact
  <2>2. task[t].status = "queued" /\ task' = [task EXCEPT ![t] = row]
    BY <1>1, <1>6 DEF CreateBootstrapArtifact, LauncherKnows
  <2>3. CarriesOn(t, row)
    BY <2>1, <2>2 DEF CarriesOn, WasRunning, Terminal
  <2>4. TasksKept
    BY <1>1, <2>2, <2>3, OneTaskKept
  <2>5. task'[t] = row /\ \A u \in Task : u # t => task'[u] = task[u]
    BY <1>1, <2>2 DEF TasksOK
  <2>6. SameLedgers /\ NoneCompletes
    BY <2>1, <2>2, <2>5 DEF SameLedgers, NoneCompletes
  <2>7. SetLauncher(t, "ready") /\ UNCHANGED <<run, faults>>
    BY <1>6 DEF CreateBootstrapArtifact, NoFault
  <2> QED BY <1>1, <1>4, <2>1, <2>2, <2>4, <2>5, <2>6, <2>7 DEF ProcessesOK
<1>7. CASE LaunchSmithers(t) \/ LaunchFails(t)
  <2>1. UNCHANGED task
    BY <1>7 DEF LaunchSmithers, LaunchFails
  <2>2. TasksKept /\ SameLedgers /\ NoneCompletes
    BY <1>1, <2>1, NoTaskChanges DEF SameLedgers, NoneCompletes
  <2>3. /\ run' \in [Task -> {"none", "starting", "running", "finished", "failed", "cancelled", "lost"}]
        /\ faults' \subseteq Faults
    BY <1>1, <1>7 DEF LaunchSmithers, LaunchFails, NoFault, Fault, ProcessesOK
  <2>4. task[t].status = "queued" /\ (SetLauncher(t, "launched") \/ SetLauncher(t, "failing"))
    BY <1>1, <1>7 DEF LaunchSmithers, LaunchFails, LauncherKnows
  <2> QED BY <1>4, <2>1, <2>2, <2>3, <2>4
<1>8. CASE MarkLaunched(t)
  <2> DEFINE row == [task[t] EXCEPT !.status = "running", !.started = now]
  <2>1. /\ row \in TaskRow /\ row.status = "running" /\ row.started # None
        /\ row.question = task[t].question /\ row.trigger = task[t].trigger
        /\ row.owner = task[t].owner /\ row.asOf = task[t].asOf
        /\ row.ledger = task[t].ledger /\ row.attempts = task[t].attempts
    BY <1>1, RowRunning DEF ProcessesOK
  <2>2. task[t].status = "queued" /\ task' = [task EXCEPT ![t] = row]
    BY <1>1, <1>8 DEF MarkLaunched, MarkTaskRunning, LauncherKnows
  <2>3. CarriesOn(t, row)
    BY <2>1, <2>2 DEF CarriesOn, WasRunning, Terminal
  <2>4. TasksKept
    BY <1>1, <2>2, <2>3, OneTaskKept
  <2>5. task'[t] = row /\ \A u \in Task : u # t => task'[u] = task[u]
    BY <1>1, <2>2 DEF TasksOK
  <2>6. SameLedgers /\ NoneCompletes
    BY <2>1, <2>2, <2>5 DEF SameLedgers, NoneCompletes
  <2>7. PICK step \in {"done", "marked"} :
            SetLauncher(t, step) /\ (step = "marked" => task[t].trigger # None)
    BY <1>8 DEF MarkLaunched
  <2>8. UNCHANGED <<run, faults>>
    BY <1>8 DEF MarkLaunched, NoFault
  <2> QED BY <1>1, <1>4, <2>1, <2>4, <2>5, <2>6, <2>7, <2>8 DEF ProcessesOK
<1>9. CASE FireTrigger(t)
  BY <1>5, <1>9 DEF FireTrigger, NoFault
<1>10. CASE FailLaunch(t)
  <2>1. task[t].status # "none" /\ MarkTaskFailed(t)
    BY <1>1, <1>10 DEF FailLaunch, LauncherKnows
  <2>2. /\ TasksKept /\ SameLedgers /\ NoneCompletes
        /\ \A u \in Task : u # t => task'[u] = task[u]
    BY <2>1, FailingKeeps
  <2>3. PICK step \in {"done", "reactivating"} :
            SetLauncher(t, step) /\ (step = "reactivating" => task[t].trigger # None)
    BY <1>10 DEF FailLaunch, AfterFailing
  <2>4. task'[t].status # "none" /\ task'[t].trigger = task[t].trigger
    BY <2>1, <2>2 DEF TasksKept, Kept
  <2>5. UNCHANGED <<run, faults>>
    BY <1>10 DEF FailLaunch, NoFault
  <2> QED BY <1>1, <1>4, <2>2, <2>3, <2>4, <2>5 DEF ProcessesOK
<1>11. CASE ReactivateAfterLaunch(t)
  BY <1>5, <1>11 DEF ReactivateAfterLaunch, AfterReactivating, NoFault
<1>12. CASE ReleaseAfterLaunch(t)
  BY <1>5, <1>12 DEF ReleaseAfterLaunch, NoFault
<1> QED
  BY <1>6, <1>7, <1>8, <1>9, <1>10, <1>11, <1>12 DEF LauncherStep

-----------------------------------------------------------------------------
(* A new task, the death of a launcher, and everything outside the         *)
(* programs: the Smithers runs, report requests, resolutions, the clock. *)
RunState == {"none", "starting", "running", "finished", "failed", "cancelled", "lost"}
LEMMA QueuedTaskType ==
    ASSUME NEW q \in Question, NEW prev \in State \cup {None}, NEW trig \in State \cup {None},
           NEW o \in Owner \cup {None}, NEW asOf \in Time,
           NEW row, row = QueuedTask(q, prev, trig, o, asOf)
    PROVE  /\ row \in TaskRow /\ row.status = "queued" /\ row.question = q
           /\ row.trigger = trig /\ row.owner = o /\ row.asOf = asOf
           /\ ~ row.ledger /\ row.attempts = 0
<1>1. NextReview(q, asOf) \in ReviewTime \cup {None}
  BY ReviewAssumption
<1> QED BY <1>1 DEF QueuedTask, NoTask, TaskRow, Terminal, Task

LEMMA NewTaskKeeps ==
    ASSUME LiveInv, NEW t \in Task, task[t].status = "none", NEW row \in TaskRow,
           row.status = "queued", row.question \in Question, row.asOf \in Time,
           row.trigger # None => row.owner \in Owner, ~ row.ledger, row.attempts = 0,
           task' = [task EXCEPT ![t] = row],
           NEW step \in {"created", "ready"}, SetLauncher(t, step),
           updater' \in [Owner -> UpdaterRow], UpdatersKnow',
           posts' \in 0 .. MaxPosts, UNCHANGED <<now, run, rec, faults, snapshot, tx>>
    PROVE  ProcessInv'
<1>1. TasksOK /\ ProcessesOK
  BY DEF LiveInv, ProcessInv
<1>2. TasksKept
  BY <1>1, NewTaskKept
<1>3. task'[t] = row /\ \A u \in Task : u # t => task'[u] = task[u]
  BY <1>1 DEF TasksOK
<1>4. SameLedgers /\ NoneCompletes
  BY <1>1, <1>3 DEF SameLedgers, NoneCompletes, TasksOK, TasksAreWhole, TaskIsWhole, TaskRow
<1>5. LaunchersKnow' /\ launcher' \in [Task -> LaunchSteps]
  BY <1>3, OneLauncher DEF LaunchSteps
<1>6. ProcessesOK'
  BY <1>1, <1>5 DEF ProcessesOK
<1> QED BY <1>2, <1>4, <1>5, <1>6, OutsidePasses

LEMMA PostKeeps ==
    ASSUME LiveInv, NEW t \in Task, NEW q \in Question, PostRun(t, q)
    PROVE  ProcessInv'
<1> DEFINE row == QueuedTask(q, None, None, None, now)
<1>1. now \in Time /\ posts \in 0 .. MaxPosts /\ updater \in [Owner -> UpdaterRow]
  BY DEF LiveInv, ProcessInv, ProcessesOK
<1>2. /\ row \in TaskRow /\ row.status = "queued" /\ row.question = q
      /\ row.trigger = None /\ row.owner = None /\ row.asOf = now
      /\ ~ row.ledger /\ row.attempts = 0
  <2>1. NextReview(q, now) \in ReviewTime \cup {None}
    BY <1>1, ReviewAssumption
  <2> QED BY <1>1, <2>1 DEF QueuedTask, NoTask, TaskRow, Terminal, Task
<1>3. UpdatersKnow'
  BY UpdatersStillKnow DEF PostRun, vars
<1>4. posts' \in 0 .. MaxPosts
  BY <1>1, PolicyAssumption DEF PostRun
<1>5. /\ task[t].status = "none" /\ task' = [task EXCEPT ![t] = row]
      /\ SetLauncher(t, "created") /\ UNCHANGED <<now, run, rec, faults, snapshot, tx, updater>>
  BY DEF PostRun, NoFault, vars
<1> HIDE DEF row
<1> QED BY <1>1, <1>2, <1>3, <1>4, <1>5, NewTaskKeeps

LEMMA DeadUpdater ==
    LET row == [IdleUpdater EXCEPT !.pc = "dead"] IN
    row \in UpdaterRow /\ row.claimed = {} /\ row.plans = {}
  BY NumberAssumption DEF IdleUpdater, UpdaterRow, Time
LEMMA LauncherCrashKeeps ==
    ASSUME LiveInv, NEW t \in Task, LauncherCrashes(t)
    PROVE  ProcessInv'
<1>1. TasksOK /\ ProcessesOK /\ UpdatersKnow /\ LauncherKnows(t)
  BY DEF LiveInv, ProcessInv, LaunchersKnow
<1>2. UNCHANGED <<now, task, run, rec, posts, snapshot, tx>> /\ faults' \subseteq Faults
      /\ SetLauncher(t, "dead")
  BY <1>1 DEF LauncherCrashes, vars, Fault, ProcessesOK
<1>3. TasksKept /\ SameLedgers /\ NoneCompletes
  BY <1>1, <1>2, NoTaskChanges DEF SameLedgers, NoneCompletes
<1>4. task'[t].status # "none"
  BY <1>1, <1>2 DEF LauncherCrashes, LauncherKnows
<1>5. LaunchersKnow' /\ launcher' \in [Task -> LaunchSteps]
  BY <1>2, <1>4, OneLauncher DEF LaunchSteps
<1>6. ASSUME NEW o \in Owner
      PROVE  updater'[o] \in UpdaterRow /\ UpdaterKnows(o)'
  <2> DEFINE dead == [IdleUpdater EXCEPT !.pc = "dead"]
  <2>1. updater'[o] = dead \/ updater'[o] = updater[o]
    BY DEF LauncherCrashes
  <2>2. dead \in UpdaterRow /\ dead.claimed = {} /\ dead.plans = {}
    BY DeadUpdater
  <2> HIDE DEF dead
  <2> QED BY <1>1, <1>2, <2>1, <2>2 DEF ProcessesOK, UpdatersKnow, UpdaterKnows
<1>7. updater' = [o \in Owner |-> updater'[o]]
  BY DEF LauncherCrashes
<1>8. updater' \in [Owner -> UpdaterRow] /\ UpdatersKnow'
  BY <1>6, <1>7 DEF UpdatersKnow
<1>9. ProcessesOK'
  BY <1>1, <1>2, <1>5, <1>8 DEF ProcessesOK
<1> QED BY <1>2, <1>3, <1>5, <1>8, <1>9, OutsidePasses

(* Neither a task nor a pass nor a snapshot changes; a writer keeps its    *)
(* transaction. *)
LEMMA WritersUnmoved ==
    ASSUME LiveInv, TasksKept, UNCHANGED rec,
           \A p \in Proc, q \in Question : Writes(p, q) => tx'[q] = tx[q]
    PROVE  WriterHoldsLock' /\ OneWriter'
<1>1. \A p \in Proc, q \in Question : Writes(p, q)' <=> Writes(p, q)
  BY PassTypes DEF Writes, TasksKept, Kept
<1> QED BY <1>1 DEF LiveInv, ProcessInv, WriterHoldsLock, OneWriter, Locked
LEMMA Elsewhere ==
    ASSUME LiveInv, UNCHANGED <<task, launcher, updater, rec, posts, snapshot>>,
           now' \in Time, run' \in [Task -> RunState], faults' \subseteq Faults,
           \A p \in Proc, q \in Question : Writes(p, q) => tx'[q] = tx[q]
    PROVE  ProcessInv'
<1>1. TasksOK /\ ProcessesOK
  BY DEF LiveInv, ProcessInv
<1>2. TasksKept /\ SameLedgers /\ NoneCompletes
  BY <1>1, NoTaskChanges DEF SameLedgers, NoneCompletes
<1>3. PassesKnow' /\ LedgerIsExactlyOnce' /\ CompletedHasLedger'
  BY <1>2, PassesStillKnow, LedgersStay, CompletedStay DEF NoneCompletes
<1>4. UpdatersKnow' /\ LaunchersKnow'
  BY <1>2, UpdatersStillKnow, LaunchersStillKnow
<1>5. WriterHoldsLock' /\ OneWriter'
  BY <1>2, WritersUnmoved
<1>6. ProcessesOK'
  BY <1>1 DEF ProcessesOK, RunState
<1> QED BY <1>2, <1>3, <1>4, <1>5, <1>6 DEF ProcessInv, TasksKept

LEMMA ReportKeeps ==
    ASSUME LiveInv, NEW t \in Task, RequestReport(t)
    PROVE  ProcessInv'
<1> DEFINE row == [task[t] EXCEPT !.artifact = TRUE]
<1>1. TasksOK /\ ProcessesOK /\ task[t] \in TaskRow
  BY DEF LiveInv, ProcessInv, TasksOK
<1>2. /\ row \in TaskRow /\ row.status = task[t].status
      /\ row.question = task[t].question /\ row.trigger = task[t].trigger
      /\ row.owner = task[t].owner /\ row.asOf = task[t].asOf /\ row.started = task[t].started
      /\ row.ledger = task[t].ledger /\ row.attempts = task[t].attempts
  BY <1>1, RowArtifact
<1>3. task[t].status = "running" /\ task' = [task EXCEPT ![t] = row]
  BY DEF RequestReport
<1>4. CarriesOn(t, row)
  BY <1>1, <1>2, <1>3 DEF CarriesOn, WasRunning, Terminal, TasksOK
<1>5. TasksKept
  BY <1>1, <1>3, <1>4, OneTaskKept
<1>6. task'[t] = row /\ \A u \in Task : u # t => task'[u] = task[u]
  BY <1>1, <1>3 DEF TasksOK
<1>7. SameLedgers /\ NoneCompletes /\ \A u \in Task : task[u].status = "queued" => task'[u].status = "queued"
  BY <1>2, <1>3, <1>6 DEF SameLedgers, NoneCompletes
<1>8. UNCHANGED <<now, run, launcher, updater, rec, posts, faults, snapshot, tx>>
  BY DEF RequestReport, procs, vars, NoFault
<1>9. LaunchersKnow' /\ UpdatersKnow' /\ ProcessesOK'
  BY <1>1, <1>5, <1>7, <1>8, LaunchersStillKnow, UpdatersStillKnow DEF ProcessesOK
<1> HIDE DEF row
<1> QED BY <1>5, <1>7, <1>8, <1>9, OutsidePasses

-----------------------------------------------------------------------------
(* The update runner *)
LEMMA OneUpdater ==
    ASSUME LiveInv, NEW o \in Owner, NEW row \in UpdaterRow, Update(o, row),
           \A s \in row.claimed : snapshot[s] # None,
           \A plan \in row.plans : snapshot[plan.trigger] # None,
           UNCHANGED snapshot
    PROVE  UpdatersKnow' /\ updater' \in [Owner -> UpdaterRow]
<1>1. updater' \in [Owner -> UpdaterRow] /\ updater'[o] = row
      /\ \A u \in Owner : u # o => updater'[u] = updater[u]
  BY DEF Update, LiveInv, ProcessInv, ProcessesOK
<1>2. \A u \in Owner : UpdaterKnows(u)'
  BY <1>1 DEF UpdaterKnows, UpdatersKnow, LiveInv, ProcessInv
<1> QED BY <1>1, <1>2 DEF UpdatersKnow

LEMMA UpdaterMoves ==
    ASSUME LiveInv, NEW o \in Owner, NEW row \in UpdaterRow, Update(o, row),
           \A s \in row.claimed : snapshot[s] # None,
           \A plan \in row.plans : snapshot[plan.trigger] # None,
           UNCHANGED <<now, task, run, launcher, rec, posts, snapshot, tx>>, faults' \subseteq Faults
    PROVE  ProcessInv'
<1>1. TasksOK /\ ProcessesOK
  BY DEF LiveInv, ProcessInv
<1>2. TasksKept /\ SameLedgers /\ NoneCompletes
  BY <1>1, NoTaskChanges DEF SameLedgers, NoneCompletes
<1>3. UpdatersKnow' /\ updater' \in [Owner -> UpdaterRow]
  BY OneUpdater
<1>4. LaunchersKnow'
  BY <1>2, LaunchersStillKnow
<1>5. ProcessesOK'
  BY <1>1, <1>3 DEF ProcessesOK
<1> QED BY <1>2, <1>3, <1>4, <1>5, OutsidePasses

Plan == [trigger : Task, prev : Task]
LEMMA IdleUpdaterType ==
    IdleUpdater \in UpdaterRow /\ IdleUpdater.claimed = {} /\ IdleUpdater.plans = {}
  BY NumberAssumption DEF IdleUpdater, UpdaterRow, Time

LEMMA ClaimKeeps ==
    ASSUME LiveInv, NEW o \in Owner, ClaimTriggers(o)
    PROVE  ProcessInv'
<1>1. PICK pick \in Picks :
         /\ ClaimDue(o, now, pick)
         /\ Update(o, [IdleUpdater EXCEPT !.pc = "reading", !.asOf = now,
                           !.claimed = {pick[q] : q \in DOMAIN pick}])
  BY DEF ClaimTriggers
<1> DEFINE C == {pick[q] : q \in DOMAIN pick}
           row == [IdleUpdater EXCEPT !.pc = "reading", !.asOf = now, !.claimed = C]
<1>2. now \in Time /\ TypeOK
  BY DEF LiveInv, ProcessInv, ProcessesOK, IInv, TypeInv
<1>3. \A q \in DOMAIN pick : q \in Question /\ pick[q] \in ClaimChoices(q, now)
  BY <1>1 DEF ClaimDue, Batch, Claimable
<1>4. \A q \in DOMAIN pick : pick[q] \in State /\ snapshot[pick[q]] # None
  BY <1>2, <1>3, ClaimChoicesType DEF Members
<1>5. C \in SUBSET Task /\ \A s \in C : snapshot[s] # None
  BY <1>4 DEF Task
<1>6. UNCHANGED <<snapshot, tx>>
  BY <1>1 DEF ClaimDue
<1>7. UNCHANGED <<now, task, run, launcher, rec, posts, faults>>
  BY DEF ClaimTriggers, NoFault
<1>8. Update(o, row)
  BY <1>1
<1>9. faults' \subseteq Faults
  BY <1>7 DEF LiveInv, ProcessInv, ProcessesOK
<1>10. row \in UpdaterRow /\ row.claimed = C /\ row.plans = {}
  BY <1>2, <1>5 DEF IdleUpdater, UpdaterRow
<1> HIDE DEF C, row
<1> QED BY <1>5, <1>6, <1>7, <1>8, <1>9, <1>10, UpdaterMoves

LEMMA ReadContextKeeps ==
    ASSUME LiveInv, NEW o \in Owner, ReadContext(o)
    PROVE  ProcessInv'
<1>1. updater[o] \in UpdaterRow /\ UpdaterKnows(o) /\ faults' \subseteq Faults
  BY DEF LiveInv, ProcessInv, ProcessesOK, UpdatersKnow, ReadContext, NoFault
<1>2. UNCHANGED <<now, task, run, launcher, rec, posts, snapshot, tx>>
  BY DEF ReadContext, vars
<1>3. PICK s \in updater[o].claimed :
          LET plan == [trigger |-> s, prev |-> question[snapshot[s].question].latest]
              rest == updater[o].claimed \ {s}
          IN IF StillLeased(s, o)
             THEN Update(o, [updater[o] EXCEPT !.claimed = rest, !.plans = @ \cup {plan},
                                 !.pc = IF rest = {} THEN "launching" ELSE @])
             ELSE Update(o, [IdleUpdater EXCEPT !.pc = "done"])
  BY DEF ReadContext
<1> DEFINE q == snapshot[s].question
           plan == [trigger |-> s, prev |-> question[q].latest]
           rest == updater[o].claimed \ {s}
<1>4. s \in State /\ snapshot[s] # None /\ q \in Question
  BY PlanTypes
<1>5. question[q].latest \in State
  <2>1. s \in Members(q)
    BY <1>4 DEF Members
  <2>2. question[q].latest # None => question[q].latest \in Members(q)
    BY <1>4 DEF LiveInv, IInv, ChainInv, ChainIsLinear
  <2>3. question[q].latest # None
    BY <1>4, <2>1 DEF LiveInv, IInv, ChainInv, ChainIsLinear
  <2> QED BY <2>2, <2>3 DEF Members
<1>6. CASE ~ StillLeased(s, o)
  <2> DEFINE row == [IdleUpdater EXCEPT !.pc = "done"]
  <2>1. row \in UpdaterRow /\ row.claimed = {} /\ row.plans = {} /\ Update(o, row)
    BY <1>3, <1>6, IdleUpdaterType DEF UpdaterRow
  <2> HIDE DEF row
  <2> QED BY <1>1, <1>2, <2>1, UpdaterMoves
<1>7. CASE StillLeased(s, o)
  <2> DEFINE pc == IF rest = {} THEN "launching" ELSE updater[o].pc
             P == updater[o].plans \cup {plan}
             row == [updater[o] EXCEPT !.pc = pc, !.claimed = rest, !.plans = P]
  <2>1. Update(o, row)
    BY <1>3, <1>7
  <2>2. plan \in Plan /\ plan.trigger = s
    BY <1>4, <1>5 DEF Plan, Task
  <2>3. rest \in SUBSET Task /\ P \in SUBSET Plan
    BY <1>1, <2>2 DEF UpdaterRow, Plan
  <2>4. pc \in {"idle", "reading", "launching", "clearing", "done", "dead"}
    BY <1>1 DEF UpdaterRow
  <2>5. row \in UpdaterRow /\ row.claimed = rest /\ row.plans = P
    BY <1>1, <2>3, <2>4 DEF UpdaterRow, Plan
  <2>6. (\A r \in rest : snapshot[r] # None) /\ \A x \in P : snapshot[x.trigger] # None
    BY <1>1, <1>4, <2>2 DEF UpdaterKnows
  <2> HIDE DEF row, rest, P
  <2> QED BY <1>1, <1>2, <2>1, <2>5, <2>6, UpdaterMoves
<1> QED BY <1>6, <1>7

LEMMA UpdaterKeeps ==
    ASSUME LiveInv, NEW o \in Owner,
           RetirePlan(o) \/ ClearRetired(o) \/ UpdaterEnds(o) \/ UpdaterCrashes(o)
    PROVE  ProcessInv'
<1>1. updater[o] \in UpdaterRow /\ UpdaterKnows(o) /\ faults \subseteq Faults
  BY DEF LiveInv, ProcessInv, ProcessesOK, UpdatersKnow
<1>2. faults' \subseteq Faults
  BY <1>1 DEF RetirePlan, ClearRetired, UpdaterEnds, UpdaterCrashes, NoFault, Fault
<1>3. UNCHANGED <<now, task, run, launcher, rec, posts, snapshot, tx>>
  BY DEF RetirePlan, ClearRetired, UpdaterEnds, UpdaterCrashes, vars, RetireTriggers, ClearLease
<1>4. ASSUME NEW pc \in {"done", "dead"}, Update(o, [IdleUpdater EXCEPT !.pc = pc])
      PROVE  ProcessInv'
  <2> DEFINE row == [IdleUpdater EXCEPT !.pc = pc]
  <2>1. row \in UpdaterRow /\ row.claimed = {} /\ row.plans = {} /\ Update(o, row)
    BY <1>4, IdleUpdaterType DEF UpdaterRow
  <2> HIDE DEF row
  <2> QED BY <1>2, <1>3, <2>1, UpdaterMoves
<1>5. ASSUME NEW pc \in {"clearing", "launching"}, NEW C \in SUBSET State,
             \A s \in C : snapshot[s] # None, NEW P \in SUBSET updater[o].plans,
             Update(o, [updater[o] EXCEPT !.pc = pc, !.claimed = C, !.plans = P])
      PROVE  ProcessInv'
  <2> DEFINE row == [updater[o] EXCEPT !.pc = pc, !.claimed = C, !.plans = P]
  <2>1. P \in SUBSET Plan /\ C \in SUBSET Task
    BY <1>1, <1>5 DEF UpdaterRow, Plan, Task
  <2>2. row \in UpdaterRow /\ row.claimed = C /\ row.plans = P /\ Update(o, row)
    BY <1>1, <1>5, <2>1 DEF UpdaterRow, Plan
  <2>3. \A plan \in P : snapshot[plan.trigger] # None
    BY <1>1 DEF UpdaterKnows
  <2> HIDE DEF row
  <2> QED BY <1>2, <1>3, <1>5, <2>2, <2>3, UpdaterMoves
<1>6. CASE RetirePlan(o)
  <2>1. PICK plan \in updater[o].plans :
            Update(o, [updater[o] EXCEPT !.pc = "clearing", !.claimed = {plan.trigger}])
    BY <1>6 DEF RetirePlan
  <2>2. plan.trigger \in State /\ snapshot[plan.trigger] # None
    BY PlanTypes
  <2>3. [updater[o] EXCEPT !.pc = "clearing", !.claimed = {plan.trigger}]
        = [updater[o] EXCEPT !.pc = "clearing", !.claimed = {plan.trigger}, !.plans = updater[o].plans]
    BY <1>1 DEF UpdaterRow
  <2> QED BY <1>5, <2>1, <2>2, <2>3
<1>7. CASE ClearRetired(o)
  <2>1. PICK s \in updater[o].claimed :
            Update(o, [updater[o] EXCEPT !.plans = {plan \in @ : plan.trigger # s},
                                         !.claimed = {}, !.pc = "launching"])
    BY <1>7 DEF ClearRetired
  <2> DEFINE P == {plan \in updater[o].plans : plan.trigger # s}
  <2>2. [updater[o] EXCEPT !.plans = P, !.claimed = {}, !.pc = "launching"]
        = [updater[o] EXCEPT !.pc = "launching", !.claimed = {}, !.plans = P]
    BY <1>1 DEF UpdaterRow
  <2>3. P \in SUBSET updater[o].plans
    OBVIOUS
  <2>4. Update(o, [updater[o] EXCEPT !.pc = "launching", !.claimed = {}, !.plans = P])
    BY <2>1, <2>2
  <2> HIDE DEF P
  <2> QED BY <1>5, <2>3, <2>4
<1>8. CASE UpdaterEnds(o) \/ UpdaterCrashes(o)
  BY <1>4, <1>8 DEF UpdaterEnds, UpdaterCrashes
<1> QED BY <1>6, <1>7, <1>8

LEMMA CreateUpdateKeeps ==
    ASSUME LiveInv, NEW o \in Owner, NEW t \in Task, CreateUpdateTask(o, t)
    PROVE  ProcessInv'
<1>1. updater[o] \in UpdaterRow /\ UpdaterKnows(o) /\ posts \in 0 .. MaxPosts
  BY DEF LiveInv, ProcessInv, ProcessesOK, UpdatersKnow
<1>2. PICK plan \in updater[o].plans :
          /\ task' = [task EXCEPT ![t] =
                 QueuedTask(snapshot[plan.trigger].question, plan.prev, plan.trigger, o, updater[o].asOf)]
          /\ Update(o, [updater[o] EXCEPT !.plans = @ \ {plan}, !.task = t])
  BY DEF CreateUpdateTask
<1> DEFINE q == snapshot[plan.trigger].question
           row == QueuedTask(q, plan.prev, plan.trigger, o, updater[o].asOf)
           new == [updater[o] EXCEPT !.plans = updater[o].plans \ {plan}, !.task = t]
<1>3. /\ q \in Question /\ plan.trigger \in State \cup {None} /\ plan.prev \in State \cup {None}
      /\ updater[o].asOf \in Time
  BY PlanTypes
<1>4. /\ row \in TaskRow /\ row.status = "queued" /\ row.question = q
      /\ row.trigger = plan.trigger /\ row.owner = o /\ row.asOf = updater[o].asOf
      /\ ~ row.ledger /\ row.attempts = 0
  BY <1>3, QueuedTaskType
<1>5. /\ new \in UpdaterRow /\ new.claimed = updater[o].claimed
      /\ new.plans = updater[o].plans \ {plan} /\ Update(o, new)
  BY <1>1, <1>2 DEF UpdaterRow
<1>6. /\ task[t].status = "none" /\ task' = [task EXCEPT ![t] = row] /\ SetLauncher(t, "ready")
      /\ UNCHANGED <<now, run, rec, posts, faults, snapshot, tx>>
  BY <1>2 DEF CreateUpdateTask, NoFault, vars
<1> HIDE DEF row, new
<1>7. (\A s \in new.claimed : snapshot[s] # None) /\ \A x \in new.plans : snapshot[x.trigger] # None
  BY <1>1, <1>5 DEF UpdaterKnows
<1>8. UpdatersKnow' /\ updater' \in [Owner -> UpdaterRow]
  BY <1>5, <1>6, <1>7, OneUpdater
<1> QED BY <1>1, <1>3, <1>4, <1>6, <1>8, NewTaskKeeps

-----------------------------------------------------------------------------
(* The reconciliation passes *)

(* What a pass may know after its step, of the tasks as they were before. *)
RowKnows(row) ==
    /\ \A r \in row.todo : WasRunning(r.task) /\ (r.ledger => task[r.task].ledger)
    /\ row.pc \notin {"idle", "pass"} => row.cur \in Task /\ WasRunning(row.cur)
    /\ row.pc \in {"reactivating", "releasing"} => task[row.cur].trigger # None
LEMMA OnePass ==
    ASSUME LiveInv, TasksKept, NEW p \in Proc, NEW row \in RecRow, Pass(p, row),
           RowKnows(row), row.pc = "committed" => task'[row.cur].ledger
    PROVE  /\ rec' \in [Proc -> RecRow] /\ PassesKnow'
           /\ rec'[p] = row /\ \A r \in Proc : r # p => rec'[r] = rec[r]
<1>1. rec' \in [Proc -> RecRow] /\ rec'[p] = row /\ \A r \in Proc : r # p => rec'[r] = rec[r]
  BY DEF Pass, LiveInv, ProcessInv, ProcessesOK
<1>2. \A x \in row.todo : x.task \in Task
  BY DEF RecRow
<1>3. PassKnows(p)'
  BY <1>1, <1>2 DEF PassKnows, RowKnows, TasksKept, Kept, WasRunning
<1>4. ASSUME NEW r \in Proc, r # p
      PROVE  PassKnows(r)'
  <2>1. rec[r] \in RecRow /\ PassKnows(r) /\ rec'[r] = rec[r]
    BY <1>1, <1>4 DEF LiveInv, ProcessInv, ProcessesOK, PassesKnow
  <2>2. \A x \in rec[r].todo : x.task \in Task
    BY <2>1 DEF RecRow
  <2> QED BY <2>1, <2>2 DEF PassKnows, TasksKept, Kept, WasRunning
<1> QED BY <1>1, <1>3, <1>4 DEF PassesKnow
LEMMA OthersStillWrite ==
    ASSUME LiveInv, TasksKept, NEW p \in Proc, rec'[p].pc # "writing",
           \A r \in Proc : r # p => rec'[r] = rec[r],
           \A r \in Proc, q \in Question : r # p /\ Writes(r, q) => tx'[q] = tx[q]
    PROVE  WriterHoldsLock' /\ OneWriter'
<1>1. ASSUME NEW r \in Proc, NEW q \in Question, Writes(r, q)'
      PROVE  r # p /\ Writes(r, q)
  BY <1>1, PassTypes DEF Writes, TasksKept, Kept
<1> QED BY <1>1 DEF LiveInv, ProcessInv, WriterHoldsLock, OneWriter, Locked, Writes

QueuedStay == \A t \in Task : task[t].status = "queued" => task'[t].status = "queued"
LEMMA PassMoves ==
    ASSUME LiveInv, TasksKept, SameLedgers, NoneCompletes, QueuedStay,
           NEW p \in Proc, NEW row \in RecRow, Pass(p, row), RowKnows(row),
           row.pc = "committed" => task[row.cur].ledger, row.pc # "writing",
           UNCHANGED <<now, run, launcher, updater, posts, snapshot>>, faults' \subseteq Faults,
           \A r \in Proc, q \in Question : r # p /\ Writes(r, q) => tx'[q] = tx[q]
    PROVE  ProcessInv'
<1>1. TasksOK /\ ProcessesOK
  BY DEF LiveInv, ProcessInv
<1>2. row.pc = "committed" => task'[row.cur].ledger
  BY DEF RowKnows, TasksKept, Kept
<1>3. /\ rec' \in [Proc -> RecRow] /\ PassesKnow'
      /\ rec'[p] = row /\ \A r \in Proc : r # p => rec'[r] = rec[r]
  BY <1>2, OnePass
<1>4. WriterHoldsLock' /\ OneWriter'
  BY <1>3, OthersStillWrite
<1>5. LedgerIsExactlyOnce' /\ CompletedHasLedger' /\ LaunchersKnow' /\ UpdatersKnow'
  BY LedgersStay, CompletedStay, LaunchersStillKnow, UpdatersStillKnow DEF NoneCompletes, QueuedStay
<1>6. ProcessesOK'
  BY <1>1, <1>3 DEF ProcessesOK
<1> QED BY <1>3, <1>4, <1>5, <1>6 DEF ProcessInv, TasksKept

LEMMA IdlePassType ==
    IdlePass \in RecRow /\ IdlePass.pc = "idle" /\ IdlePass.todo = {}
  BY DEF IdlePass, RecRow
(* A pass that goes on with the rows it has left, or with its task. *)
LEMMA NextRow ==
    ASSUME LiveInv, NEW p \in Proc, NEW row, row.todo \subseteq rec[p].todo,
           \/ row.pc \in {"idle", "pass"}
           \/ row.cur \in Task /\ WasRunning(row.cur),
           row.pc \in {"reactivating", "releasing"} => task[row.cur].trigger # None
    PROVE  RowKnows(row)
  BY DEF RowKnows, LiveInv, ProcessInv, PassesKnow, PassKnows

Steps == {"idle", "pass", "finished", "writing", "committed", "cancelling", "failing",
          "reactivating", "releasing"}
LEMMA QuietPass ==
    ASSUME LiveInv, NEW p \in Proc, NEW row \in RecRow, Pass(p, row), RowKnows(row),
           row.pc = "committed" => task[row.cur].ledger, row.pc # "writing",
           UNCHANGED <<now, task, run, launcher, updater, posts, snapshot, tx>>, faults' \subseteq Faults
    PROVE  ProcessInv'
<1>1. TasksKept /\ SameLedgers /\ NoneCompletes /\ QueuedStay
  BY NoTaskChanges DEF LiveInv, ProcessInv, SameLedgers, NoneCompletes, QueuedStay
<1> QED BY <1>1, PassMoves
LEMMA QuietGoTo ==
    ASSUME LiveInv, NEW p \in Proc, NEW pc \in Steps \ {"writing"}, GoTo(p, pc),
           rec[p].pc \notin {"idle", "pass"},
           pc = "committed" => task[rec[p].cur].ledger,
           pc \in {"reactivating", "releasing"} => task[rec[p].cur].trigger # None,
           UNCHANGED <<now, task, run, launcher, updater, posts, snapshot, tx, faults>>
    PROVE  ProcessInv'
<1> DEFINE row == [rec[p] EXCEPT !.pc = pc]
<1>1. rec[p] \in RecRow /\ faults' \subseteq Faults
  BY DEF LiveInv, ProcessInv, ProcessesOK
<1>2. row \in RecRow /\ row.pc = pc /\ row.cur = rec[p].cur /\ row.todo = rec[p].todo
  BY <1>1 DEF RecRow, Steps
<1>3. Pass(p, row)
  BY DEF GoTo
<1> HIDE DEF row
<1>4. RowKnows(row)
  BY <1>2, PassTypes, NextRow
<1> QED BY <1>1, <1>2, <1>3, <1>4, QuietPass

LEMMA QuietStepsKeep ==
    ASSUME LiveInv, NEW p \in Proc,
           \/ EndPass(p) \/ OutputFails(p) \/ StaleState(p) \/ NoArtifact(p)
           \/ QuestionNotOpen(p) \/ AlreadyCommitted(p)
    PROVE  ProcessInv'
<1>1. UNCHANGED <<now, task, run, launcher, updater, posts, snapshot, tx>>
  BY DEF EndPass, OutputFails, StaleState, NoArtifact, QuestionNotOpen, AlreadyCommitted, vars
<1>2. faults' \subseteq Faults
  BY DEF EndPass, OutputFails, StaleState, NoArtifact, QuestionNotOpen, AlreadyCommitted,
         NoFault, Fault, LiveInv, ProcessInv, ProcessesOK
<1>3. CASE EndPass(p) \/ OutputFails(p) \/ StaleState(p)
  <2>1. Pass(p, IdlePass)
    BY <1>3 DEF EndPass, OutputFails, StaleState
  <2>2. RowKnows(IdlePass)
    BY IdlePassType DEF RowKnows
  <2> QED BY <1>1, <1>2, <2>1, <2>2, IdlePassType, QuietPass
<1>4. CASE NoArtifact(p) \/ QuestionNotOpen(p) \/ AlreadyCommitted(p)
  <2>1. rec[p].pc = "finished" /\ UNCHANGED faults
    BY <1>4 DEF NoArtifact, QuestionNotOpen, AlreadyCommitted, LockedTask, NoFault
  <2>2. GoTo(p, "failing") \/ (GoTo(p, "committed") /\ task[rec[p].cur].ledger)
    BY <1>4 DEF NoArtifact, QuestionNotOpen, AlreadyCommitted
  <2>3. CASE GoTo(p, "failing")
    <3>1. "failing" \in Steps \ {"writing"}
      BY DEF Steps
    <3> QED BY <1>1, <2>1, <2>3, <3>1, QuietGoTo
  <2>4. CASE GoTo(p, "committed") /\ task[rec[p].cur].ledger
    <3>1. "committed" \in Steps \ {"writing"}
      BY DEF Steps
    <3> QED BY <1>1, <2>1, <2>4, <3>1, QuietGoTo
  <2> QED BY <2>2, <2>3, <2>4
<1> QED BY <1>3, <1>4

LEMMA StartPassKeeps ==
    ASSUME LiveInv, NEW p \in Proc, StartPass(p)
    PROVE  ProcessInv'
<1> DEFINE T == {[task |-> t, ledger |-> task[t].ledger] : t \in {u \in Task : task[u].status = "running"}}
           row == [IdlePass EXCEPT !.pc = "pass", !.todo = T]
<1>1. UNCHANGED <<now, task, run, launcher, updater, posts, snapshot, tx>> /\ Pass(p, row)
  BY DEF StartPass, vars
<1>2. faults' \subseteq Faults
  BY DEF StartPass, NoFault, LiveInv, ProcessInv, ProcessesOK
<1>3. \A t \in Task : task[t].ledger \in BOOLEAN
  BY DEF LiveInv, ProcessInv, TasksOK, TaskRow
<1>4. T \in SUBSET [task : Task, ledger : BOOLEAN]
  BY <1>3
<1>5. \A r \in T : WasRunning(r.task) /\ (r.ledger => task[r.task].ledger)
  BY DEF WasRunning
<1> HIDE DEF T
<1>6. row \in RecRow /\ row.pc = "pass" /\ row.todo = T
  BY <1>4 DEF IdlePass, RecRow
<1> HIDE DEF row
<1>7. RowKnows(row)
  BY <1>5, <1>6 DEF RowKnows
<1> QED BY <1>1, <1>2, <1>6, <1>7, QuietPass

LEMMA InspectKeeps ==
    ASSUME LiveInv, NEW p \in Proc, InspectRun(p)
    PROVE  ProcessInv'
<1>1. UNCHANGED <<now, task, run, launcher, updater, posts, snapshot, tx>>
  BY DEF InspectRun, vars
<1>2. faults' \subseteq Faults
  BY DEF InspectRun, NoFault, Fault, LiveInv, ProcessInv, ProcessesOK
<1>3. PICK r \in rec[p].todo, pc \in {"pass", "finished", "cancelling", "failing"} :
          Pass(p, [pc |-> pc, todo |-> rec[p].todo \ {r}, cur |-> IF pc = "pass" THEN None ELSE r.task])
  <2>1. \A t \in Task : Verdict(t) \in {"pass", "finished", "cancelling", "failing"}
    BY DEF Verdict
  <2>2. rec[p] \in RecRow
    BY DEF LiveInv, ProcessInv, ProcessesOK
  <2>3. \A r \in rec[p].todo : r.task \in Task
    BY <2>2 DEF RecRow
  <2> QED BY <2>1, <2>3 DEF InspectRun
<1> DEFINE cur == IF pc = "pass" THEN None ELSE r.task
           row == [pc |-> pc, todo |-> rec[p].todo \ {r}, cur |-> cur]
<1>4. rec[p] \in RecRow /\ r.task \in Task /\ WasRunning(r.task)
  BY DEF LiveInv, ProcessInv, ProcessesOK, PassesKnow, PassKnows, RecRow
<1>5. row \in RecRow
  BY <1>4 DEF RecRow
<1>6. RowKnows(row)
  BY <1>4, NextRow
<1>7. Pass(p, row) /\ row.pc \notin {"committed", "writing"}
  BY <1>3
<1> HIDE DEF row
<1> QED BY <1>1, <1>2, <1>5, <1>6, <1>7, QuietPass

(* reactivateForecastTriggerAfterFailedUpdate by a pass *)
LEMMA ReactivationKeeps ==
    ASSUME LiveInv, NEW p \in Proc, ReactivateAfterFailure(p) \/ ReleaseAfterFailure(p)
    PROVE  ProcessInv'
<1> DEFINE t == rec[p].cur
<1>1. UNCHANGED <<now, task, run, launcher, updater, posts, snapshot, tx>>
  BY DEF ReactivateAfterFailure, ReleaseAfterFailure, ReactivateStatement, ReleaseStatement, vars,
         Reactivate, ReleaseLease
<1>2. faults' \subseteq Faults
  BY DEF ReactivateAfterFailure, ReleaseAfterFailure, NoFault, LiveInv, ProcessInv, ProcessesOK
<1>3. rec[p].pc \in {"reactivating", "releasing"}
  BY DEF ReactivateAfterFailure, ReleaseAfterFailure
<1>4. rec[p] \in RecRow /\ t \in Task /\ WasRunning(t) /\ task[t].trigger # None
  BY <1>3, PassTypes DEF LiveInv, ProcessInv, ProcessesOK, PassesKnow, PassKnows
<1>5. PICK pc \in {"pass", "releasing"} :
          Pass(p, [rec[p] EXCEPT !.pc = pc, !.cur = IF pc = "pass" THEN None ELSE @])
  BY DEF ReactivateAfterFailure, ReleaseAfterFailure, AfterReactivating, NextTask
<1> DEFINE cur == IF pc = "pass" THEN None ELSE t
           row == [rec[p] EXCEPT !.pc = pc, !.cur = cur]
<1>6. row \in RecRow /\ row.pc = pc /\ row.cur = cur /\ row.todo = rec[p].todo
  BY <1>4 DEF RecRow
<1>7. Pass(p, row)
  BY <1>5
<1> HIDE DEF row
<1>8. RowKnows(row)
  BY <1>4, <1>6, NextRow
<1> QED BY <1>1, <1>2, <1>6, <1>7, <1>8, QuietPass

(* A pass ends a task that it had read as running. *)
EndTask(t, status) ==
    task' = IF task[t].status = "running" THEN [task EXCEPT ![t].status = status] ELSE task
LEMMA EndTaskKeeps ==
    ASSUME LiveInv, NEW t \in Task, NEW status \in {"completed", "cancelled"},
           EndTask(t, status), status = "completed" => task[t].ledger
    PROVE  TasksKept /\ SameLedgers /\ NoneCompletes /\ QueuedStay
<1>1. TasksOK
  BY DEF LiveInv, ProcessInv
<1>2. CASE task[t].status = "running"
  <2> DEFINE row == [task[t] EXCEPT !.status = status]
  <2>1. task[t] \in TaskRow /\ task' = [task EXCEPT ![t] = row]
    BY <1>1, <1>2 DEF EndTask, TasksOK
  <2>2. /\ row \in TaskRow /\ row.status = status
        /\ row.question = task[t].question /\ row.trigger = task[t].trigger
        /\ row.owner = task[t].owner /\ row.asOf = task[t].asOf /\ row.started = task[t].started
        /\ row.ledger = task[t].ledger /\ row.attempts = task[t].attempts
    BY <2>1, RowStatus DEF Status, Terminal
  <2>3. CarriesOn(t, row)
    BY <1>2, <2>2 DEF CarriesOn, Terminal
  <2>4. TasksKept
    BY <1>1, <1>2, <2>1, <2>3, OneTaskKept
  <2>5. task'[t] = row /\ \A u \in Task : u # t => task'[u] = task[u]
    BY <1>1, <2>1 DEF TasksOK
  <2> HIDE DEF row
  <2> QED BY <1>2, <2>2, <2>4, <2>5 DEF SameLedgers, NoneCompletes, QueuedStay
<1>3. CASE task[t].status # "running"
  <2>1. UNCHANGED task
    BY <1>3 DEF EndTask
  <2> QED BY <1>1, <2>1, NoTaskChanges DEF SameLedgers, NoneCompletes, QueuedStay
<1> QED BY <1>2, <1>3

LEMMA EndingKeeps ==
    ASSUME LiveInv, NEW p \in Proc, RecoverCommitted(p) \/ CompleteTask(p) \/ CancelTask(p)
    PROVE  ProcessInv'
<1>1. UNCHANGED <<now, run, launcher, updater, posts, snapshot, tx, faults>>
  BY DEF RecoverCommitted, CompleteTask, CancelTask, NoFault, vars
<1>2. rec[p] \in RecRow /\ PassKnows(p) /\ faults' \subseteq Faults
  BY <1>1 DEF LiveInv, ProcessInv, ProcessesOK, PassesKnow
<1>3. ASSUME TasksKept, SameLedgers, NoneCompletes, QueuedStay, NEW T \in SUBSET rec[p].todo,
             NEW cur \in {rec[p].cur, None},
             Pass(p, [rec[p] EXCEPT !.pc = "pass", !.cur = cur, !.todo = T])
      PROVE  ProcessInv'
  <2> DEFINE row == [rec[p] EXCEPT !.pc = "pass", !.cur = cur, !.todo = T]
  <2>1. row \in RecRow /\ row.pc = "pass" /\ row.todo = T /\ Pass(p, row)
    BY <1>2, <1>3 DEF RecRow
  <2> HIDE DEF row
  <2>2. RowKnows(row)
    BY <2>1, NextRow
  <2> QED BY <1>1, <1>2, <1>3, <2>1, <2>2, PassMoves
<1>4. CASE RecoverCommitted(p)
  <2>1. PICK r \in rec[p].todo :
            /\ r.ledger /\ MarkTaskCompleted(r.task)
            /\ Pass(p, [rec[p] EXCEPT !.todo = @ \ {r}])
    BY <1>4 DEF RecoverCommitted
  <2>2. r.task \in Task /\ task[r.task].ledger
    BY <1>2, <2>1 DEF RecRow, PassKnows
  <2>3. TasksKept /\ SameLedgers /\ NoneCompletes /\ QueuedStay
    BY <2>1, <2>2, EndTaskKeeps DEF MarkTaskCompleted, EndTask
  <2>4. [rec[p] EXCEPT !.todo = @ \ {r}]
        = [rec[p] EXCEPT !.pc = "pass", !.cur = rec[p].cur, !.todo = rec[p].todo \ {r}]
    BY <1>2, <1>4 DEF RecoverCommitted, RecRow
  <2> QED BY <1>3, <2>1, <2>3, <2>4
<1>5. CASE CompleteTask(p) \/ CancelTask(p)
  <2>1. rec[p].pc \in {"committed", "cancelling"} /\ (CompleteTask(p) => rec[p].pc = "committed")
    BY <1>5 DEF CompleteTask, CancelTask
  <2>2. rec[p].cur \in Task
    BY <2>1, PassTypes
  <2>3. CompleteTask(p) => task[rec[p].cur].ledger
    BY <1>2, <2>1 DEF PassKnows
  <2>4. PICK status \in {"completed", "cancelled"} :
            EndTask(rec[p].cur, status) /\ (status = "completed" => task[rec[p].cur].ledger)
    BY <1>5, <2>3 DEF CompleteTask, CancelTask, MarkTaskCompleted, EndTask
  <2>5. TasksKept /\ SameLedgers /\ NoneCompletes /\ QueuedStay
    BY <2>2, <2>4, EndTaskKeeps
  <2>6. Pass(p, [rec[p] EXCEPT !.pc = "pass", !.cur = None])
    BY <1>5 DEF CompleteTask, CancelTask, NextTask
  <2>7. [rec[p] EXCEPT !.pc = "pass", !.cur = None]
        = [rec[p] EXCEPT !.pc = "pass", !.cur = None, !.todo = rec[p].todo]
    BY <1>2 DEF RecRow
  <2> QED BY <1>3, <2>5, <2>6, <2>7
<1> QED BY <1>4, <1>5

LEMMA FailTaskKeeps ==
    ASSUME LiveInv, NEW p \in Proc, FailTask(p)
    PROVE  ProcessInv'
<1> DEFINE t == rec[p].cur
<1>1. UNCHANGED <<now, run, launcher, updater, posts, snapshot, tx, faults>>
  BY DEF FailTask, NoFault, vars
<1>2. rec[p] \in RecRow /\ faults' \subseteq Faults
  BY <1>1 DEF LiveInv, ProcessInv, ProcessesOK
<1>3. t \in Task /\ WasRunning(t) /\ task[t].status # "none"
  BY PassTypes DEF FailTask
<1>4. TasksKept /\ SameLedgers /\ NoneCompletes /\ QueuedStay
  BY <1>3, FailingKeeps DEF FailTask, QueuedStay
<1>5. PICK pc \in {"pass", "reactivating"} :
          /\ pc = "reactivating" => task[t].trigger # None
          /\ Pass(p, [rec[p] EXCEPT !.pc = pc, !.cur = IF pc = "pass" THEN None ELSE @])
  BY DEF FailTask, AfterFailing
<1> DEFINE cur == IF pc = "pass" THEN None ELSE t
           row == [rec[p] EXCEPT !.pc = pc, !.cur = cur]
<1>6. row \in RecRow /\ row.pc = pc /\ row.cur = cur /\ row.todo = rec[p].todo
  BY <1>2, <1>3 DEF RecRow
<1>7. Pass(p, row)
  BY <1>5
<1> HIDE DEF row
<1>8. RowKnows(row)
  BY <1>3, <1>5, <1>6, NextRow
<1> QED BY <1>1, <1>2, <1>4, <1>6, <1>7, <1>8, PassMoves

(* The transaction of a pass: its begin, its commit and its rollback. *)
LEMMA BeginLedgerKeeps ==
    ASSUME LiveInv, NEW p \in Proc, BeginLedger(p)
    PROVE  ProcessInv'
<1> DEFINE t == rec[p].cur
           q == task[t].question
           row == [rec[p] EXCEPT !.pc = "writing"]
           new == [kind |-> "snapshot", state |-> t, prev |-> task[t].prev, asOf |-> task[t].asOf,
                   due |-> task[t].due, retires |-> Unretired(q)]
<1>1. TasksOK /\ ProcessesOK /\ rec[p] \in RecRow
  BY DEF LiveInv, ProcessInv, ProcessesOK
<1>2. t \in Task /\ WasRunning(t) /\ task[t].status # "none"
  BY PassTypes DEF BeginLedger, LockedTask
<1>3. q \in Question
  BY <1>2, TaskTypes
<1>4. UNCHANGED <<now, task, run, launcher, updater, posts, snapshot, faults>>
  BY DEF BeginLedger, BeginSnapshot, NoFault
<1>5. ~ Locked(q) /\ tx' = [tx EXCEPT ![q] = new]
  BY DEF BeginLedger, BeginSnapshot
<1>6. new \in SnapshotTx /\ new.kind = "snapshot" /\ new.state = t
  BY <1>2, TaskTypes, UnretiredHaveTriggers DEF SnapshotTx, Task
<1>7. new # None
  BY <1>6, RowAssumption
<1> HIDE DEF new
<1>8. tx'[q] = new /\ \A r \in Question : r # q => tx'[r] = tx[r]
  BY <1>3, <1>5 DEF LiveInv, IInv, TypeInv, TypeOK
<1>9. row \in RecRow /\ row.pc = "writing" /\ row.cur = t /\ row.todo = rec[p].todo /\ Pass(p, row)
  BY <1>1 DEF RecRow, BeginLedger, GoTo
<1> HIDE DEF row
<1>10. RowKnows(row)
  BY <1>2, <1>9, NextRow
<1>11. TasksKept /\ SameLedgers /\ NoneCompletes /\ QueuedStay
  BY <1>1, <1>4, NoTaskChanges DEF SameLedgers, NoneCompletes, QueuedStay
<1>12. /\ rec' \in [Proc -> RecRow] /\ PassesKnow'
       /\ rec'[p] = row /\ \A r \in Proc : r # p => rec'[r] = rec[r]
  BY <1>9, <1>10, <1>11, OnePass
<1>13. ASSUME NEW r \in Proc, r # p, NEW x \in Question, Writes(r, x)'
       PROVE  x # q /\ Writes(r, x)
  BY <1>4, <1>5, <1>12, <1>13 DEF Writes, LiveInv, ProcessInv, WriterHoldsLock
<1>14. ASSUME NEW x \in Question, Writes(p, x)'
       PROVE  x = q
  BY <1>4, <1>9, <1>12, <1>14 DEF Writes
<1>15. WriterHoldsLock'
  BY <1>6, <1>7, <1>8, <1>9, <1>12, <1>13, <1>14 DEF WriterHoldsLock, LiveInv, ProcessInv, Locked
<1>16. OneWriter'
  BY <1>13, <1>14 DEF OneWriter, LiveInv, ProcessInv
<1>17. LedgerIsExactlyOnce' /\ CompletedHasLedger' /\ LaunchersKnow' /\ UpdatersKnow'
  BY <1>4, <1>11, LedgersStay, CompletedStay, LaunchersStillKnow, UpdatersStillKnow
     DEF NoneCompletes, QueuedStay
<1>18. ProcessesOK'
  BY <1>1, <1>4, <1>12 DEF ProcessesOK
<1> QED BY <1>11, <1>12, <1>15, <1>16, <1>17, <1>18 DEF ProcessInv, TasksKept

(* Nobody else is writing a ledger of the question of a writer. *)
LEMMA OthersUntouched ==
    ASSUME LiveInv, NEW p \in Proc, rec[p].pc = "writing",
           tx' = [tx EXCEPT ![task[rec[p].cur].question] = None],
           NEW r \in Proc, r # p, NEW q \in Question, Writes(r, q)
    PROVE  tx'[q] = tx[q]
<1>1. q # task[rec[p].cur].question
  BY DEF LiveInv, ProcessInv, OneWriter, Writes
<1> QED BY <1>1 DEF LiveInv, IInv, TypeInv, TypeOK

LEMMA CommitLedgerKeeps ==
    ASSUME LiveInv, NEW p \in Proc, CommitLedger(p)
    PROVE  ProcessInv'
<1> DEFINE t == rec[p].cur
           q == task[t].question
           new == [task[t] EXCEPT !.ledger = TRUE, !.attempts = @ + 1]
           row == [rec[p] EXCEPT !.pc = "committed"]
<1>1. TasksOK /\ ProcessesOK /\ rec[p] \in RecRow /\ TypeOK /\ rec[p].pc = "writing"
  BY DEF LiveInv, ProcessInv, ProcessesOK, IInv, TypeInv, CommitLedger
<1>2. t \in Task /\ WasRunning(t) /\ task[t].status # "none" /\ task[t] \in TaskRow
  BY <1>1, PassTypes DEF TasksOK
<1>3. q \in Question
  BY <1>2, TaskTypes
<1>4. Locked(q) /\ tx[q].kind = "snapshot" /\ tx[q].state = t
  BY <1>1, <1>3 DEF LiveInv, ProcessInv, WriterHoldsLock, Writes
<1>5. snapshot[t] = None
  BY <1>3, <1>4 DEF LiveInv, IInv, ChainInv, PendingIsStable, PendingSnapshot
<1>6. task[t].ledger = FALSE /\ task[t].attempts = 0
  BY <1>2, <1>5 DEF LiveInv, ProcessInv, LedgerIsExactlyOnce, TaskRow
<1>7. /\ snapshot' = [snapshot EXCEPT ![t] = [question |-> q, prev |-> tx[q].prev, asOf |-> tx[q].asOf]]
      /\ tx' = [tx EXCEPT ![q] = None]
  BY <1>4 DEF CommitLedger, CommitSnapshot
<1>8. /\ snapshot'[t] = [question |-> q, prev |-> tx[q].prev, asOf |-> tx[q].asOf]
      /\ \A u \in Task : u # t => snapshot'[u] = snapshot[u]
  BY <1>1, <1>2, <1>7 DEF TypeOK, Task
<1>9. snapshot'[t] \in SnapshotRow /\ snapshot'[t].question = q
  BY <1>1, <1>3, <1>4, <1>8, TxType DEF SnapshotRow
<1>10. snapshot'[t] # None
  BY <1>9, RowAssumption
<1>11. UNCHANGED <<now, run, launcher, updater, posts, faults>>
  BY DEF CommitLedger, NoFault
<1>12. /\ new \in TaskRow /\ new.status = task[t].status
       /\ new.question = q /\ new.trigger = task[t].trigger
       /\ new.owner = task[t].owner /\ new.asOf = task[t].asOf /\ new.started = task[t].started
       /\ new.ledger = TRUE /\ new.attempts = task[t].attempts + 1
  BY <1>2, RowLedger
<1>13. task' = [task EXCEPT ![t] = new]
  BY DEF CommitLedger
<1> HIDE DEF new
<1>14. task'[t] = new /\ \A u \in Task : u # t => task'[u] = task[u]
  BY <1>1, <1>2, <1>13 DEF TasksOK
<1>15. CarriesOn(t, new)
  BY <1>1, <1>2, <1>12 DEF CarriesOn, TasksOK, WasRunning
<1>16. TasksKept
  BY <1>1, <1>2, <1>13, <1>15, OneTaskKept
<1>17. row \in RecRow /\ row.pc = "committed" /\ row.cur = t /\ row.todo = rec[p].todo /\ Pass(p, row)
  BY <1>1 DEF RecRow, CommitLedger, GoTo
<1> HIDE DEF row
<1>18. RowKnows(row)
  BY <1>2, <1>17, NextRow
<1>19. /\ rec' \in [Proc -> RecRow] /\ PassesKnow'
       /\ rec'[p] = row /\ \A r \in Proc : r # p => rec'[r] = rec[r]
  BY <1>12, <1>14, <1>16, <1>17, <1>18, OnePass
<1>20. WriterHoldsLock' /\ OneWriter'
  BY <1>1, <1>7, <1>16, <1>17, <1>19, OthersUntouched, OthersStillWrite
<1>21. LedgerIsExactlyOnce'
  <2>1. new.attempts = 1
    BY <1>6, <1>12
  <2>2. ASSUME NEW u \in Task, u # t
        PROVE  /\ task'[u].attempts = IF task'[u].ledger THEN 1 ELSE 0
               /\ task'[u].ledger <=> snapshot'[u] # None
               /\ task'[u].ledger => snapshot'[u].question = task'[u].question
    BY <1>8, <1>14, <2>2 DEF LiveInv, ProcessInv, LedgerIsExactlyOnce
  <2> QED BY <1>9, <1>10, <1>12, <1>14, <2>1, <2>2 DEF LedgerIsExactlyOnce
<1>22. CompletedHasLedger'
  BY <1>12, <1>14 DEF CompletedHasLedger, LiveInv, ProcessInv
<1>23. LaunchersKnow'
  BY <1>11, <1>12, <1>14, <1>16, LaunchersStillKnow
<1>24. UpdatersKnow'
  BY <1>8, <1>10, <1>11, UpdatersStillKnow DEF Task
<1>25. ProcessesOK'
  BY <1>1, <1>11, <1>19 DEF ProcessesOK
<1> QED BY <1>16, <1>19, <1>20, <1>21, <1>22, <1>23, <1>24, <1>25 DEF ProcessInv, TasksKept

LEMMA PassCrashKeeps ==
    ASSUME LiveInv, NEW p \in Proc, ReconcilerCrashes(p)
    PROVE  ProcessInv'
<1>1. UNCHANGED <<now, task, run, launcher, updater, posts, snapshot>>
  BY DEF ReconcilerCrashes, Rollback, vars
<1>2. faults' \subseteq Faults /\ TasksOK
  BY DEF ReconcilerCrashes, Fault, LiveInv, ProcessInv, ProcessesOK
<1>3. TasksKept /\ SameLedgers /\ NoneCompletes /\ QueuedStay
  BY <1>1, <1>2, NoTaskChanges DEF SameLedgers, NoneCompletes, QueuedStay
<1>4. ASSUME NEW r \in Proc, NEW q \in Question, r # p, Writes(r, q)
      PROVE  tx'[q] = tx[q]
  <2>1. CASE rec[p].pc = "writing"
    <3>1. tx' = [tx EXCEPT ![task[rec[p].cur].question] = None]
      BY <2>1 DEF ReconcilerCrashes, Rollback
    <3> QED BY <1>4, <2>1, <3>1, OthersUntouched
  <2>2. CASE rec[p].pc # "writing"
    BY <2>2 DEF ReconcilerCrashes, vars
  <2> QED BY <2>1, <2>2
<1>5. Pass(p, IdlePass) /\ RowKnows(IdlePass)
  BY IdlePassType DEF RowKnows, ReconcilerCrashes
<1> QED BY <1>1, <1>2, <1>3, <1>4, <1>5, IdlePassType, PassMoves

-----------------------------------------------------------------------------
(* The invariant is inductive. *)
LEMMA LiveInvInit == LiveInit => LiveInv
<1> SUFFICES ASSUME LiveInit PROVE LiveInv
  OBVIOUS
<1>1. IInv
  BY TypeInvInit, ChainInvInit, QuietInvInit DEF IInv, LiveInit
<1>2. NoTask \in TaskRow /\ NoTask.status = "none" /\ NoTask.trigger = None /\ NoTask.ledger = FALSE
      /\ NoTask.attempts = 0
  BY DEF NoTask, TaskRow
<1>3. task = [t \in Task |-> NoTask] /\ snapshot = [s \in State |-> None]
  BY DEF LiveInit, Init
<1>4. TasksOK /\ CompletedHasLedger /\ LedgerIsExactlyOnce
  BY <1>2, <1>3 DEF TasksOK, TasksAreWhole, TaskIsWhole, CompletedHasLedger, LedgerIsExactlyOnce, Task
<1>5. ProcessesOK
  <2>1. 0 \in Time /\ 0 \in 0 .. MaxPosts
    BY NumberAssumption, PolicyAssumption DEF Time
  <2> QED BY <2>1, IdleUpdaterType, IdlePassType DEF ProcessesOK, LiveInit, LaunchSteps
<1>6. LaunchersKnow
  BY DEF LaunchersKnow, LauncherKnows, LiveInit
<1>7. UpdatersKnow
  BY IdleUpdaterType DEF UpdatersKnow, UpdaterKnows, LiveInit
<1>8. PassesKnow /\ WriterHoldsLock /\ OneWriter
  BY IdlePassType DEF PassesKnow, PassKnows, WriterHoldsLock, OneWriter, Writes, LiveInit
<1> QED BY <1>1, <1>4, <1>5, <1>6, <1>7, <1>8 DEF LiveInv, ProcessInv

LEMMA NothingHappensKeeps ==
    ASSUME LiveInv, UNCHANGED live
    PROVE  ProcessInv'
<1>1. /\ UNCHANGED <<task, launcher, updater, rec, posts, snapshot>>
      /\ UNCHANGED <<now, run, faults, tx>>
  BY DEF live, procs, vars
<1>2. now' \in Time /\ run' \in [Task -> RunState] /\ faults' \subseteq Faults
  BY <1>1 DEF LiveInv, ProcessInv, ProcessesOK, RunState
<1> QED BY <1>1, <1>2, Elsewhere

LEMMA ProcessInvStep == LiveInv /\ [LiveNext]_live => ProcessInv'
<1> SUFFICES ASSUME LiveInv, [LiveNext]_live PROVE ProcessInv'
  OBVIOUS
<1>1. ASSUME NEW t \in Task,
             \/ \E q \in Question : PostRun(t, q)
             \/ LauncherStep(t) \/ LauncherCrashes(t) \/ RequestReport(t)
      PROVE  ProcessInv'
  BY <1>1, PostKeeps, LauncherKeeps, LauncherCrashKeeps, ReportKeeps
<1>2. ASSUME NEW o \in Owner, ClaimTriggers(o) \/ UpdaterStep(o) \/ UpdaterCrashes(o)
      PROVE  ProcessInv'
  BY <1>2, ClaimKeeps, ReadContextKeeps, UpdaterKeeps, CreateUpdateKeeps DEF UpdaterStep
<1>3. ASSUME NEW p \in Proc, PassStep(p) \/ ReconcilerCrashes(p)
      PROVE  ProcessInv'
  BY <1>3, QuietStepsKeep, StartPassKeeps, InspectKeeps, ReactivationKeeps, EndingKeeps,
     FailTaskKeeps, BeginLedgerKeeps, CommitLedgerKeeps, PassCrashKeeps DEF PassStep
<1>4. ASSUME Tick \/ (\E t \in Task : RunProgress(t) \/ RunIsCancelled(t) \/ RunIsLost(t))
      PROVE  ProcessInv'
  <2>1. UNCHANGED <<task, launcher, updater, rec, posts, snapshot, tx>>
    BY <1>4 DEF RunProgress, RunStarts, RunEnds, RunIsCancelled, RunIsLost, RunStep, Tick, vars, procs
  <2>2. now' \in Time
    <3>1. now \in 0 .. MaxTime /\ MaxTime \in Nat
      BY NumberAssumption DEF LiveInv, ProcessInv, ProcessesOK, Time
    <3>2. CASE Tick
      BY <3>1, <3>2 DEF Tick, Time
    <3>3. CASE ~ Tick
      BY <1>4, <3>1, <3>3 DEF RunProgress, RunStarts, RunEnds, RunIsCancelled, RunIsLost, RunStep, Time
    <3> QED BY <3>2, <3>3
  <2>3. run' \in [Task -> RunState] /\ faults' \subseteq Faults
    BY <1>4 DEF RunProgress, RunStarts, RunEnds, RunIsCancelled, RunIsLost, RunStep, Tick,
           LiveInv, ProcessInv, ProcessesOK, RunState, NoFault, Fault
  <2> QED BY <2>1, <2>2, <2>3, Elsewhere
<1>5. ASSUME (\E t \in Task, status \in Outcomes : ResolveTask(t, status))
             \/ \E q \in Question : CommitResolution(q)
      PROVE  ProcessInv'
  <2>1. UNCHANGED <<now, run, faults, task, launcher, updater, rec, posts, snapshot>>
    BY <1>5 DEF ResolveTask, CommitResolution, procs, BeginClose, CommitClose, NoFault
  <2>2. now' \in Time /\ run' \in [Task -> RunState] /\ faults' \subseteq Faults
    BY <2>1 DEF LiveInv, ProcessInv, ProcessesOK, RunState
  <2>3. ASSUME NEW p \in Proc, NEW r \in Question, Writes(p, r)
        PROVE  tx'[r] = tx[r]
    <3>1. Locked(r) /\ tx[r].kind = "snapshot"
      BY <2>3 DEF LiveInv, ProcessInv, WriterHoldsLock
    <3>2. tx \in [Question -> SnapshotTx \cup CloseTx \cup {None}]
      BY DEF LiveInv, IInv, TypeInv, TypeOK
    <3> QED BY <1>5, <3>1, <3>2 DEF ResolveTask, BeginClose, CommitResolution, CommitClose
  <2> QED BY <2>1, <2>2, <2>3, Elsewhere
<1> QED BY <1>1, <1>2, <1>3, <1>4, <1>5, NothingHappensKeeps DEF LiveNext

LEMMA LiveInvStep == LiveInv /\ [LiveNext]_live => LiveInv'
<1> SUFFICES ASSUME LiveInv, [LiveNext]_live PROVE LiveInv'
  OBVIOUS
<1>1. IInv /\ [Next]_vars
  BY DatabaseStep DEF LiveInv
<1>2. IInv'
  BY <1>1, TypeInvStep, ChainInvStep, QuietInvStep DEF IInv, TypeInv
<1> QED BY <1>2, ProcessInvStep DEF LiveInv
LEMMA LiveInvariance == LiveSpec => []LiveInv
  BY LiveInvInit, LiveInvStep, PTL DEF LiveSpec

(* No call of any process on any row leaves a column with a value that the *)
(* code does not expect, however many tasks, processes and executions.     *)
THEOREM LiveTypeCorrect == LiveSpec => []LiveTypeOK
<1>1. LiveInv => LiveTypeOK
  BY DEF LiveInv, ProcessInv, TasksOK, ProcessesOK, LiveTypeOK, IInv, TypeInv
<1> QED BY <1>1, LiveInvariance, PTL

(* Launchers, runner executions, passes and resolutions change the         *)
(* database by steps of ForecastState only, so that every theorem about    *)
(* ForecastState is one about the whole system.                            *)
THEOREM LiveRefinement == LiveSpec => ImplementsForecastState
<1>1. LiveInit => Init
  BY DEF LiveInit
<1> QED BY <1>1, DatabaseStep, LiveInvariance, PTL DEF LiveSpec, ImplementsForecastState, Spec

(* The snapshot history of a question stays one line with the processes    *)
(* crashing, replaying and racing as they do.                              *)
THEOREM LiveChainCorrect == LiveSpec => []ChainIsLinear
  BY LiveRefinement, ChainCorrect DEF ImplementsForecastState

(* Commit marker, snapshot and attempts of a task are written once and     *)
(* together (the marker read under the task lock of the ledger             *)
(* transaction, persistBinaryForecastLedger).                              *)
THEOREM LedgerCorrect == LiveSpec => []LedgerIsExactlyOnce
<1>1. LiveInv => LedgerIsExactlyOnce
  BY DEF LiveInv, ProcessInv
<1> QED BY <1>1, LiveInvariance, PTL

(* No pass completes a product forecast without its committed ledger. *)
THEOREM CompletedCorrect == LiveSpec => []CompletedHasLedger
<1>1. LiveInv => CompletedHasLedger
  BY DEF LiveInv, ProcessInv
<1> QED BY <1>1, LiveInvariance, PTL

LEMMA TerminalStep ==
    ASSUME LiveInv, [LiveNext]_live, NEW t \in Task, task[t].status \in Terminal
    PROVE  task'[t].status = task[t].status
<1>1. task \in [Task -> TaskRow]
  BY DEF LiveInv, ProcessInv, TasksOK
<1>2. CASE UNCHANGED task
  BY <1>2
<1>3. ASSUME NEW u \in Task, NEW row, task[u].status \notin Terminal, task' = [task EXCEPT ![u] = row]
      PROVE  task'[t].status = task[t].status
  BY <1>1, <1>3
<1>4. ASSUME NEW u \in Task, MarkTaskFailed(u)
      PROVE  task'[t].status = task[t].status
  BY <1>2, <1>3, <1>4 DEF MarkTaskFailed, CanFail, Terminal
<1>5. ASSUME NEW u \in Task, NEW row, row.status = task[u].status, task' = [task EXCEPT ![u] = row]
      PROVE  task'[t].status = task[t].status
  BY <1>1, <1>5
<1>6. ASSUME NEW u \in Task,
             (\E q \in Question : PostRun(u, q)) \/ \E o \in Owner : CreateUpdateTask(o, u)
      PROVE  task'[t].status = task[t].status
  BY <1>3, <1>6 DEF PostRun, CreateUpdateTask, Terminal
<1>7. ASSUME NEW u \in Task, CreateBootstrapArtifact(u) \/ RequestReport(u)
      PROVE  task'[t].status = task[t].status
  <2> DEFINE row == [task[u] EXCEPT !.artifact = TRUE]
  <2>1. row.status = task[u].status /\ task' = [task EXCEPT ![u] = row]
    BY <1>1, <1>7, RowArtifact DEF CreateBootstrapArtifact, RequestReport
  <2> HIDE DEF row
  <2> QED BY <1>5, <2>1
<1>8. ASSUME NEW u \in Task, MarkLaunched(u)
      PROVE  task'[t].status = task[t].status
  <2>1. task[u].status = "queued"
    BY <1>8 DEF LiveInv, ProcessInv, LaunchersKnow, LauncherKnows, MarkLaunched
  <2> QED BY <1>3, <1>8, <2>1 DEF MarkLaunched, MarkTaskRunning, Terminal
<1>9. ASSUME NEW u \in Task, LauncherStep(u)
      PROVE  task'[t].status = task[t].status
  BY <1>2, <1>4, <1>7, <1>8, <1>9 DEF LauncherStep, LaunchSmithers, LaunchFails, FireTrigger,
     FailLaunch, ReactivateAfterLaunch, ReleaseAfterLaunch
<1>10. ASSUME NEW p \in Proc, RecoverCommitted(p) \/ CompleteTask(p) \/ CancelTask(p)
       PROVE  task'[t].status = task[t].status
  <2>1. \A r \in rec[p].todo : r.task \in Task
    BY DEF LiveInv, ProcessInv, ProcessesOK, RecRow
  <2>2. rec[p].pc \in {"committed", "cancelling"} => rec[p].cur \in Task
    BY PassTypes
  <2>3. PICK u \in Task, status \in {"completed", "cancelled"} : EndTask(u, status)
    BY <1>10, <2>1, <2>2 DEF RecoverCommitted, CompleteTask, CancelTask, MarkTaskCompleted, EndTask
  <2> QED BY <1>2, <1>3, <2>3 DEF EndTask, Terminal
<1>11. ASSUME NEW p \in Proc, CommitLedger(p)
       PROVE  task'[t].status = task[t].status
  <2> DEFINE u == rec[p].cur
             row == [task[u] EXCEPT !.ledger = TRUE, !.attempts = @ + 1]
  <2>1. u \in Task
    BY <1>11, PassTypes DEF CommitLedger
  <2>2. row.status = task[u].status /\ task' = [task EXCEPT ![u] = row]
    BY <1>1, <1>11, <2>1, RowLedger DEF CommitLedger
  <2> HIDE DEF row
  <2> QED BY <1>5, <2>1, <2>2
<1>12. ASSUME NEW p \in Proc, FailTask(p)
       PROVE  task'[t].status = task[t].status
  BY <1>4, <1>12, PassTypes DEF FailTask
<1>13. ASSUME NEW p \in Proc, PassStep(p) \/ ReconcilerCrashes(p)
       PROVE  task'[t].status = task[t].status
  BY <1>2, <1>10, <1>11, <1>12, <1>13 DEF PassStep, StartPass, EndPass, InspectRun, OutputFails,
     NoArtifact, AlreadyCommitted, BeginLedger, QuestionNotOpen, StaleState,
     ReactivateAfterFailure, ReleaseAfterFailure, ReconcilerCrashes
<1>14. ASSUME NEW o \in Owner, ClaimTriggers(o) \/ UpdaterStep(o) \/ UpdaterCrashes(o)
       PROVE  task'[t].status = task[t].status
  BY <1>2, <1>6, <1>14 DEF ClaimTriggers, UpdaterStep, UpdaterCrashes, ReadContext, RetirePlan,
     ClearRetired, UpdaterEnds
<1> QED BY <1>2, <1>6, <1>7, <1>9, <1>13, <1>14 DEF LiveNext, LauncherCrashes, RunProgress, RunStarts,
     RunEnds, RunIsCancelled, RunIsLost, RunStep, ResolveTask, CommitResolution, Tick, live, procs

(* A terminal status is final, whatever status a launcher or a pass read   *)
(* before (markTaskRunning, markTaskCompleted and markTaskFailed).         *)
THEOREM TerminalCorrect == LiveSpec => TerminalIsFinal
<1>1. LiveInv /\ [LiveNext]_live =>
         [\A t \in Task : task[t].status \in Terminal => task'[t].status = task[t].status]_live
  BY TerminalStep
<1> QED BY <1>1, LiveInvariance, PTL DEF LiveSpec, TerminalIsFinal

-----------------------------------------------------------------------------
(* Who may still touch a review.  An owner is drawn by one execution of    *)
(* the update runner, which claims once: before that nothing bears its     *)
(* name, and afterwards a review that it claimed is to be read, planned or *)
(* the trigger of a task, but only one of these.                           *)
OwnerKnows(o) ==
    /\ updater[o].pc = "idle" => \A q \in Question : question[q].owner # o
    /\ updater[o].pc = "idle" => updater[o].claimed = {} /\ updater[o].plans = {}
    /\ updater[o].asOf <= now
    /\ updater[o].pc \in {"idle", "reading"} => \A t \in Task : task[t].owner # o
    /\ updater[o].pc = "reading" => \A plan \in updater[o].plans : plan.trigger \notin updater[o].claimed
    /\ \A x, y \in updater[o].plans : x.trigger = y.trigger => x = y
    /\ \A t \in Task : task[t].owner = o => \A plan \in updater[o].plans : plan.trigger # task[t].trigger
OwnersKnow == \A o \in Owner : OwnerKnows(o)
OneTaskPerClaim ==
    \A t, u \in Task :
        task[t].trigger # None /\ task[t].trigger = task[u].trigger /\ task[t].owner = task[u].owner
        => t = u

(* Whoever is about to reactivate a review or release its lease has failed *)
(* the task, and the lease to release is not that of a snoozed review.     *)
Fails(t, steps) == launcher[t] \in steps \/ \E p \in Proc : rec[p].pc \in steps /\ rec[p].cur = t
FailedBefore == \A t \in Task : Fails(t, {"reactivating", "releasing"}) => task[t].status = "failed"
ReleasesNoSnoozed ==
    \A t \in Task : Fails(t, {"releasing"}) =>
        ~ (trigger[task[t].trigger].status = "snoozed" /\ HoldsLease(task[t].trigger, task[t].owner))

(* Leases are cleared where there is no later review. *)
NoLater(s) == NextReview(snapshot[s].question, now) = None
ClearsPastReviews == \A o \in Owner : updater[o].pc = "clearing" => \A s \in updater[o].claimed : NoLater(s)

(* A confirmed update has fired its review, and nobody else has the lease. *)
OwnLease(t) ==
    LET row == question[snapshot[task[t].trigger].question]
    IN row.leased = task[t].trigger => row.owner = task[t].owner
ConfirmedHasFired ==
    \A t \in Task : Confirmed(t) =>
        trigger[task[t].trigger].status \in {"fired", "retired"} /\ OwnLease(t)

SnoozedWasDue == \A s \in State : trigger[s].status = "snoozed" => DueBy(s, now)

ClaimInv == OwnersKnow /\ OneTaskPerClaim /\ FailedBefore
ReviewInv ==
    /\ SnoozedWasDue /\ SnoozedIsLeased
    /\ ReleasesNoSnoozed /\ ClearsPastReviews
    /\ ConfirmedHasFired /\ OneUpdatePerReview

(* planNextForecastReview finds no later review exactly when the boundary  *)
(* is at most one unit away, so it finds none ever after.                  *)
LEMMA NextReviewIsNone ==
    ASSUME NEW q \in Question, NEW asOf \in Time
    PROVE  NextReview(q, asOf) = None <=> Boundary[q] # None /\ Boundary[q] <= asOf + 1
<1>1. asOf \in Nat /\ None \notin Int
  BY NumberAssumption, NoneAssumption DEF Time
<1>2. Boundary[q] \in Nat \cup {None} /\ Cadence \in Nat \ {0}
  BY PolicyAssumption
<1>3. CASE Boundary[q] = None
  BY <1>1, <1>2, <1>3 DEF NextReview
<1>4. CASE Boundary[q] # None /\ Boundary[q] <= asOf
  BY <1>1, <1>2, <1>4 DEF NextReview
<1>5. CASE Boundary[q] # None /\ Boundary[q] > asOf
  <2> DEFINE h == Boundary[q] - asOf
  <2>1. h \in Nat \ {0} /\ Boundary[q] \in Nat
    BY <1>1, <1>2, <1>5
  <2>2. HalfWay(h) \in 1 .. h /\ (HalfWay(h) = h <=> h = 1)
    BY <2>1 DEF HalfWay
  <2>3. Interval(h, Cadence) \in Nat /\ (Interval(h, Cadence) = 0 <=> h = 1)
    BY <1>2, <2>1, <2>2, DayAssumption DEF Interval
  <2>4. h = 1 <=> Boundary[q] <= asOf + 1
    BY <1>1, <1>5, <2>1
  <2>5. NextReview(q, asOf) = IF Interval(h, Cadence) = 0 THEN None ELSE asOf + Interval(h, Cadence)
    BY <1>1, <1>5, <2>1 DEF NextReview
  <2> QED BY <1>1, <1>5, <2>3, <2>4, <2>5
<1> QED BY <1>1, <1>2, <1>3, <1>4, <1>5
LEMMA NoLaterReview ==
    ASSUME NEW q \in Question, NEW a \in Time, NEW b \in Time, a <= b, NextReview(q, a) = None
    PROVE  NextReview(q, b) = None
<1>1. a \in Int /\ b \in Int /\ Boundary[q] \in Nat \cup {None}
  BY NumberAssumption, PolicyAssumption DEF Time
<1> QED BY <1>1, NextReviewIsNone

-----------------------------------------------------------------------------
(* What a step may do to the reviews and leases of others unnoticed; x is  *)
(* a review that the step makes active again, or None.                     *)
SameLease(q) == question'[q].leased = question[q].leased /\ question'[q].owner = question[q].owner
NoLease(q) == question'[q].leased = None /\ question'[q].owner = None
CalmBut(x) ==
    /\ \A s \in State : snapshot[s] # None => snapshot'[s] = snapshot[s]
    /\ \A q \in Question : SameLease(q) \/ NoLease(q)
    /\ \A s \in State : trigger'[s].status = "snoozed" => trigger'[s] = trigger[s]
    /\ \A s \in State \ {x} : trigger[s].status \in {"fired", "retired"} =>
                                  trigger'[s].status \in {"fired", "retired"}
    /\ \A s \in State : trigger'[s].status = "snoozed" =>
                            SameLease(snapshot[s].question) \/ NoLater(s)

LEMMA HasSnapshot ==
    ASSUME IInv, NEW s \in State, trigger[s].status # "none"
    PROVE  snapshot[s] # None /\ snapshot[s].question \in Question
  BY DEF IInv, TypeInv, TypeOK, TriggersExist, SnapshotRow

LEMMA QuietIsCalm ==
    ASSUME UNCHANGED <<question, snapshot, trigger>>
    PROVE  CalmBut(None)
  BY DEF CalmBut, SameLease

LEMMA TriggerChangeIsCalm ==
    ASSUME IInv, NEW s \in State, NEW status \in {"active", "fired"},
           trigger[s].status \in {"snoozed", "fired"},
           trigger' = [trigger EXCEPT ![s].status = status],
           UNCHANGED <<question, snapshot>>
    PROVE  /\ status = "active" => CalmBut(s)
           /\ trigger[s].status = "snoozed" => CalmBut(None)
           /\ trigger'[s].status = status
<1>1. trigger \in [State -> TriggerRow] /\ trigger[s] \in TriggerRow
  BY DEF IInv, TypeInv, TypeOK
<1>2. trigger'[s].status = status /\ \A r \in State : r # s => trigger'[r] = trigger[r]
  BY <1>1 DEF TriggerRow
<1> QED BY <1>2 DEF CalmBut, SameLease

LEMMA RetiringIsCalm ==
    ASSUME IInv, NEW q \in Question, RetireTriggers(q)
    PROVE  CalmBut(None)
<1>1. trigger \in [State -> TriggerRow]
  BY DEF IInv, TypeInv, TypeOK
<1>2. \A s \in Unretired(q) : trigger'[s].status = "retired"
  BY <1>1, UnretiredHaveTriggers, RetireAllType DEF RetireTriggers
<1>3. \A s \in State \ Unretired(q) : trigger'[s] = trigger[s]
  BY <1>1, UnretiredHaveTriggers, RetireAllType DEF RetireTriggers
<1> QED BY <1>2, <1>3 DEF CalmBut, SameLease, RetireTriggers

(* A lease that is released is that of no snoozed review, or of one whose  *)
(* question is due for no later review. *)
LEMMA ReleasingIsCalm ==
    ASSUME IInv, NEW q \in Question, question' = [question EXCEPT ![q] = WithoutLease(@)],
           UNCHANGED <<snapshot, trigger>>,
           \A s \in Members(q) : trigger[s].status # "snoozed" \/ NoLater(s)
    PROVE  CalmBut(None)
<1>1. question \in [Question -> UnleasedRow \cup LeasedRow]
  BY DEF IInv, TypeInv, TypeOK
<1>2. NoLease(q) /\ \A p \in Question : p # q => SameLease(p)
  BY <1>1 DEF NoLease, SameLease, WithoutLease, UnleasedRow, LeasedRow
<1>3. ASSUME NEW s \in State, trigger[s].status = "snoozed"
      PROVE  SameLease(snapshot[s].question) \/ NoLater(s)
  <2>1. snapshot[s] # None /\ snapshot[s].question \in Question
    BY <1>3, HasSnapshot
  <2> QED BY <1>2, <1>3, <2>1 DEF Members
<1> QED BY <1>2, <1>3 DEF CalmBut

(* A commit or a closing retires every snoozed review of its question. *)
LEMMA EndOfTransactionIsCalm ==
    ASSUME IInv, NEW q \in Question, CommitSnapshot(q) \/ CommitClose(q)
    PROVE  CalmBut(None)
<1>1. /\ question \in [Question -> UnleasedRow \cup LeasedRow]
      /\ trigger \in [State -> TriggerRow] /\ snapshot \in [State -> SnapshotRow \cup {None}]
      /\ TypeOK
  BY DEF IInv, TypeInv, TypeOK
<1>2. Locked(q)
  BY DEF CommitSnapshot, CommitClose
<1>3. tx[q].retires \in SUBSET State /\ \A s \in tx[q].retires : trigger[s].status # "none"
  BY <1>1, <1>2, TxType DEF IInv, TypeInv, TriggersExist
<1> DEFINE R == RetireAll(tx[q].retires)
<1>4. /\ R \in [State -> TriggerRow]
      /\ \A s \in tx[q].retires : R[s].status = "retired"
      /\ \A s \in State \ tx[q].retires : R[s] = trigger[s]
  BY <1>1, <1>3, RetireAllType
<1> HIDE DEF R
<1>5. NoLease(q) /\ \A p \in Question : p # q => SameLease(p)
  <2> DEFINE row == WithoutLease(question[q])
  <2>1. row \in UnleasedRow
    BY <1>1, WithoutLeaseType
  <2>2. /\ \A s : [row EXCEPT !.latest = s].leased = None /\ [row EXCEPT !.latest = s].owner = None
        /\ \A s : [row EXCEPT !.status = s].leased = None /\ [row EXCEPT !.status = s].owner = None
    BY <2>1 DEF UnleasedRow
  <2>3. \/ question' = [question EXCEPT ![q] = [row EXCEPT !.latest = tx[q].state]]
        \/ question' = [question EXCEPT ![q] = [row EXCEPT !.status = tx[q].status]]
    BY DEF CommitSnapshot, CommitClose
  <2> HIDE DEF row
  <2>4. /\ \/ question'[q] = [row EXCEPT !.latest = tx[q].state]
           \/ question'[q] = [row EXCEPT !.status = tx[q].status]
        /\ \A p \in Question : p # q => question'[p] = question[p]
    BY <1>1, <2>3
  <2> QED BY <2>2, <2>4 DEF NoLease, SameLease
<1>6. CASE CommitClose(q)
  <2>1. trigger' = R /\ snapshot' = snapshot
    BY <1>6 DEF CommitClose, R
  <2>2. ASSUME NEW s \in State, trigger'[s].status = "snoozed"
        PROVE  trigger'[s] = trigger[s] /\ SameLease(snapshot[s].question)
    <3>1. s \notin tx[q].retires /\ trigger'[s] = trigger[s]
      BY <1>4, <2>1, <2>2
    <3>2. s \notin Members(q)
      BY <1>2, <2>2, <3>1 DEF IInv, QuietInv, SnoozedIsLocked
    <3> QED BY <1>5, <2>2, <3>1, <3>2, HasSnapshot DEF Members
  <2> QED BY <1>4, <1>5, <2>1, <2>2 DEF CalmBut
<1>7. CASE CommitSnapshot(q)
  <2> DEFINE n == tx[q].state
  <2>1. tx[q] \in SnapshotTx /\ n \in State /\ tx[q].due \in ReviewTime \cup {None}
    BY <1>1, <1>2, <1>7, TxType DEF CommitSnapshot
  <2>2. snapshot[n] = None /\ trigger[n].status = "none"
    BY <1>2, <1>7, <2>1 DEF IInv, ChainInv, PendingIsStable, PendingSnapshot, CommitSnapshot, TypeInv, TriggersExist
  <2>3. n \notin tx[q].retires
    BY <1>3, <2>2
  <2>4. /\ trigger' = [R EXCEPT ![n] = IF tx[q].due = None THEN @ ELSE [status |-> "active", due |-> tx[q].due]]
        /\ \A s \in State : s # n => snapshot'[s] = snapshot[s]
    BY <1>1, <1>7, <2>1 DEF CommitSnapshot, R
  <2>5. /\ \A s \in State : s # n => trigger'[s] = R[s]
        /\ trigger'[n].status \in {"none", "active"}
    BY <1>4, <2>1, <2>2, <2>3, <2>4
  <2>6. ASSUME NEW s \in State, trigger'[s].status = "snoozed"
        PROVE  trigger'[s] = trigger[s] /\ SameLease(snapshot[s].question)
    <3>1. s \notin tx[q].retires /\ trigger'[s] = trigger[s]
      BY <1>4, <2>5, <2>6
    <3>2. s \notin Members(q)
      BY <1>2, <2>6, <3>1 DEF IInv, QuietInv, SnoozedIsLocked
    <3> QED BY <1>5, <2>6, <3>1, <3>2, HasSnapshot DEF Members
  <2>7. \A s \in State : trigger[s].status \in {"fired", "retired"} => trigger'[s].status \in {"fired", "retired"}
    BY <1>4, <2>2, <2>5
  <2>8. \A s \in State : snapshot[s] # None => snapshot'[s] = snapshot[s]
    BY <2>2, <2>4
  <2> QED BY <1>5, <2>6, <2>7, <2>8 DEF CalmBut
<1> QED BY <1>6, <1>7

LEMMA NoLaterStays ==
    ASSUME NEW s \in State, snapshot[s] # None, snapshot[s].question \in Question,
           snapshot'[s] = snapshot[s], now \in Time, now' \in Time, now <= now', NoLater(s)
    PROVE  NoLater(s)'
<1>1. NextReview(snapshot[s].question, now') = None
  BY NoLaterReview DEF NoLater
<1> QED BY <1>1 DEF NoLater

SameClaim(t) == task'[t].trigger = task[t].trigger /\ task'[t].owner = task[t].owner
StillRuns(t) ==
    task'[t].status = "running" /\ ~ task'[t].ledger => task[t].status = "running" /\ ~ task[t].ledger
Releases(t) == Fails(t, {"releasing"})
Fires(t) ==
    /\ task[t].trigger \in State /\ HoldsLease(task[t].trigger, task[t].owner)
    /\ trigger[task[t].trigger].status = "snoozed" /\ trigger'[task[t].trigger].status = "fired"
    /\ UNCHANGED <<question, snapshot>>
LEMMA ReviewsFrame ==
    ASSUME LiveInv, ReviewInv, NEW x, NEW f, CalmBut(x), now' \in Time, now <= now',
           \A t \in Task : Confirmed(t)' =>
               /\ SameClaim(t)
               /\ (Confirmed(t) /\ task[t].trigger # x) \/ (t = f /\ Fires(t)),
           \A t \in Task : Releases(t)' =>
               /\ SameClaim(t) /\ task[t].trigger \in State
               /\ Releases(t) \/ trigger'[task[t].trigger].status # "snoozed",
           \A o \in Owner : updater'[o].pc = "clearing" => \A s \in updater'[o].claimed :
               s \in State /\ snapshot[s] # None /\ NoLater(s)
    PROVE  ReviewInv'
<1>1. /\ IInv /\ now \in Time /\ TasksOK
      /\ \A s \in State : snapshot[s] # None => snapshot[s].question \in Question
      /\ \A s \in State : trigger[s].due # None => trigger[s].due \in Nat
  BY ReviewTimeAssumption DEF LiveInv, ProcessInv, ProcessesOK, IInv, TypeInv, TypeOK, TriggerRow, SnapshotRow
<1>2. ASSUME NEW s \in State, trigger'[s].status = "snoozed"
      PROVE  /\ trigger'[s] = trigger[s] /\ trigger[s].status = "snoozed"
             /\ snapshot[s] # None /\ snapshot[s].question \in Question /\ snapshot'[s] = snapshot[s]
             /\ SameLease(snapshot[s].question) \/ NoLater(s)
  BY <1>1, <1>2, HasSnapshot DEF CalmBut
<1>3. SnoozedWasDue'
  <2> SUFFICES ASSUME NEW s \in State, trigger'[s].status = "snoozed" PROVE DueBy(s, now)'
    BY DEF SnoozedWasDue
  <2>1. DueBy(s, now) /\ trigger'[s] = trigger[s]
    BY <1>2 DEF ReviewInv, SnoozedWasDue
  <2> QED BY <1>1, <2>1, NumberAssumption DEF DueBy, Time
<1>4. SnoozedIsLeased'
  <2> SUFFICES ASSUME NEW s \in State, trigger'[s].status = "snoozed"
               PROVE  \/ question'[snapshot'[s].question].leased = s
                      \/ NoLater(s)'
    BY DEF SnoozedIsLeased, NoLater
  <2>1. question[snapshot[s].question].leased = s \/ NoLater(s)
    BY <1>2 DEF ReviewInv, SnoozedIsLeased, NoLater
  <2>2. NoLater(s) => NoLater(s)'
    BY <1>1, <1>2, NoLaterStays
  <2> QED BY <1>2, <2>1, <2>2 DEF SameLease
<1>5. ReleasesNoSnoozed'
  <2> SUFFICES ASSUME NEW t \in Task, Releases(t)', trigger'[task'[t].trigger].status = "snoozed",
                      HoldsLease(task[t].trigger, task[t].owner)', SameClaim(t)
               PROVE  FALSE
    BY DEF ReleasesNoSnoozed, Releases, SameClaim, HoldsLease
  <2> DEFINE s == task[t].trigger
  <2>1. s \in State /\ Releases(t) /\ trigger'[s].status = "snoozed"
    BY DEF SameClaim
  <2>2. snapshot'[s] = snapshot[s] /\ snapshot[s].question \in Question /\ trigger[s].status = "snoozed"
    BY <1>2, <2>1
  <2>3. HoldsLease(s, task[t].owner)
    BY <2>1, <2>2, NoneAssumption DEF HoldsLease, CalmBut, SameLease, NoLease, SameClaim
  <2> QED BY <2>1, <2>2, <2>3 DEF ReviewInv, ReleasesNoSnoozed, Releases
<1>6. ClearsPastReviews'
  <2> SUFFICES ASSUME NEW o \in Owner, updater'[o].pc = "clearing", NEW s \in updater'[o].claimed
               PROVE  NoLater(s)'
    BY DEF ClearsPastReviews
  <2>1. s \in State /\ snapshot[s] # None /\ NoLater(s)
    OBVIOUS
  <2> QED BY <1>1, <2>1, NoLaterStays DEF CalmBut
<1>7. ASSUME NEW t \in Task, Confirmed(t)
      PROVE  /\ task[t].trigger \in State /\ snapshot[task[t].trigger] # None
             /\ trigger[task[t].trigger].status \in {"fired", "retired"} /\ OwnLease(t)
  <2>1. trigger[task[t].trigger].status \in {"fired", "retired"} /\ OwnLease(t)
    BY <1>7 DEF ReviewInv, ConfirmedHasFired
  <2>2. task[t].trigger \in State
    BY <1>7, TaskTypes DEF Confirmed
  <2> QED BY <1>1, <2>1, <2>2, HasSnapshot
<1>8. ConfirmedHasFired'
  <2> SUFFICES ASSUME NEW t \in Task, Confirmed(t)'
               PROVE  trigger'[task'[t].trigger].status \in {"fired", "retired"} /\ OwnLease(t)'
    BY DEF ConfirmedHasFired
  <2> DEFINE s == task[t].trigger
             q == snapshot[s].question
  <2>4. CASE Fires(t)
    BY <2>4 DEF Fires, SameClaim, OwnLease, HoldsLease
  <2> SUFFICES ASSUME ~ Fires(t) PROVE trigger'[task'[t].trigger].status \in {"fired", "retired"} /\ OwnLease(t)'
    BY <2>4
  <2>1. /\ SameClaim(t) /\ s \in State \ {x} /\ snapshot[s] # None /\ q \in Question
        /\ trigger[s].status \in {"fired", "retired"} /\ OwnLease(t)
    BY <1>1, <1>7
  <2>2. trigger'[s].status \in {"fired", "retired"} /\ snapshot'[s] = snapshot[s]
    BY <2>1 DEF CalmBut
  <2>3. SameLease(q) \/ NoLease(q)
    BY <2>1 DEF CalmBut
  <2> QED BY <2>1, <2>2, <2>3, NoneAssumption DEF SameClaim, OwnLease, SameLease, NoLease
<1>9. OneUpdatePerReview'
  <2> SUFFICES ASSUME NEW t \in Task, NEW u \in Task, Confirmed(t)', Confirmed(u)',
                      task'[t].trigger = task'[u].trigger
               PROVE  t = u
    BY DEF OneUpdatePerReview
  <2>1. task[t].trigger = task[u].trigger
    BY DEF SameClaim
  <2>2. CASE Confirmed(t) /\ Confirmed(u)
    BY <2>1, <2>2 DEF ReviewInv, OneUpdatePerReview
  <2>3. ~ (Fires(t) /\ Confirmed(u)) /\ ~ (Fires(u) /\ Confirmed(t))
    BY <1>7, <2>1 DEF Fires
  <2> QED BY <2>2, <2>3
<1> QED BY <1>3, <1>4, <1>5, <1>6, <1>8, <1>9 DEF ReviewInv

LEMMA ReleasedTypes ==
    ASSUME LiveInv, NEW t \in Task, Fails(t, {"reactivating", "releasing"})
    PROVE  task[t].status # "none" /\ task[t].trigger \in State /\ task[t].owner \in Owner
<1>1. task[t].trigger # None
  BY DEF Fails, LiveInv, ProcessInv, LaunchersKnow, LauncherKnows, PassesKnow, PassKnows
<1>2. task[t].status # "none"
  BY <1>1 DEF LiveInv, ProcessInv, TasksOK, TasksAreWhole, TaskIsWhole
<1> QED BY <1>1, <1>2, TaskTypes
LEMMA ReleasesFails ==
    ASSUME NEW t \in Task, Releases(t)
    PROVE  Fails(t, {"reactivating", "releasing"})
  BY DEF Releases, Fails
LEMMA ClearedTypes ==
    ASSUME LiveInv, ReviewInv, NEW o \in Owner, updater[o].pc = "clearing", NEW s \in updater[o].claimed
    PROVE  s \in State /\ snapshot[s] # None /\ NoLater(s)
  BY PlanTypes DEF ReviewInv, ClearsPastReviews

(* A review that failed is made active again by the update that has the    *)
(* lease, and no other update has confirmed the same review. *)
LEMMA ReactivatedIsUnconfirmed ==
    ASSUME LiveInv, ClaimInv, ReviewInv, NEW t \in Task, Fails(t, {"reactivating", "releasing"}),
           Reactivate(task[t].trigger, task[t].owner),
           NEW u \in Task, Confirmed(u)
    PROVE  task[u].trigger # task[t].trigger
<1> SUFFICES ASSUME task[u].trigger = task[t].trigger PROVE FALSE
  OBVIOUS
<1>1. task[t].status = "failed" /\ task[t].trigger # None
  BY ReleasedTypes, NoneAssumption DEF ClaimInv, FailedBefore
<1>2. HoldsLease(task[t].trigger, task[t].owner)
  BY DEF Reactivate, CanReactivate
<1>3. OwnLease(u)
  BY DEF ReviewInv, ConfirmedHasFired
<1>4. task[u].owner = task[t].owner
  BY <1>2, <1>3 DEF OwnLease, HoldsLease
<1>5. t = u
  BY <1>1, <1>4 DEF ClaimInv, OneTaskPerClaim
<1> QED BY <1>1, <1>5 DEF Confirmed

LEMMA ReactivatingIsCalm ==
    ASSUME LiveInv, NEW t \in Task, Fails(t, {"reactivating", "releasing"}),
           Reactivate(task[t].trigger, task[t].owner)
    PROVE  CalmBut(task[t].trigger) /\ trigger'[task[t].trigger].status = "active"
<1>1. task[t].trigger \in State /\ IInv
  BY ReleasedTypes DEF LiveInv
<1>2. /\ trigger' = [trigger EXCEPT ![task[t].trigger].status = "active"]
      /\ UNCHANGED <<question, snapshot>>
      /\ trigger[task[t].trigger].status \in {"fired", "snoozed"}
  BY DEF Reactivate, CanReactivate
<1> QED BY <1>1, <1>2, TriggerChangeIsCalm

LEMMA ReleaseIsCalm ==
    ASSUME LiveInv, ReviewInv, NEW t \in Task, Releases(t), ReleaseStatement(t)
    PROVE  CalmBut(None)
<1>1. CASE UNCHANGED vars
  BY <1>1, QuietIsCalm DEF vars
<1>2. CASE ReleaseLease(task[t].trigger, task[t].owner)
  <2> DEFINE s == task[t].trigger
             q == snapshot[s].question
  <2>1. s \in State /\ IInv
    BY ReleasesFails, ReleasedTypes DEF LiveInv
  <2>2. /\ snapshot[s] # None /\ HoldsLease(s, task[t].owner)
        /\ question' = [question EXCEPT ![q] = WithoutLease(@)]
        /\ UNCHANGED <<snapshot, trigger>>
    BY <1>2 DEF ReleaseLease
  <2>3. q \in Question
    BY <2>1, <2>2 DEF IInv, TypeInv, TypeOK, SnapshotRow
  <2>4. ASSUME NEW r \in Members(q), trigger[r].status = "snoozed", ~ NoLater(r)
        PROVE  FALSE
    <3>1. question[q].leased = r
      BY <2>4 DEF ReviewInv, SnoozedIsLeased, Members, NoLater
    <3>2. r = s
      BY <2>2, <3>1 DEF HoldsLease
    <3> QED BY <2>2, <2>4, <3>2 DEF ReviewInv, ReleasesNoSnoozed, Releases
  <2> QED BY <2>1, <2>2, <2>3, <2>4, ReleasingIsCalm
<1> QED BY <1>1, <1>2 DEF ReleaseStatement

-----------------------------------------------------------------------------
(* Launchers *)
LEMMA LauncherFrame ==
    ASSUME LiveInv, ReviewInv, NEW t \in Task, NEW step, SetLauncher(t, step), NEW x, CalmBut(x),
           UNCHANGED <<now, updater, rec>>, SameClaim(t),
           \A u \in Task : u # t => task'[u] = task[u],
           step = "done" => ~ Confirmed(t)' \/ Fires(t),
           step = "releasing" =>
               \/ Releases(t)
               \/ task[t].trigger \in State /\ trigger'[task[t].trigger].status # "snoozed",
           \A u \in Task : Confirmed(u) => task[u].trigger # x
    PROVE  ReviewInv'
<1>1. now \in Time /\ now <= now /\ launcher \in [Task -> LaunchSteps]
  BY NumberAssumption DEF LiveInv, ProcessInv, ProcessesOK, Time
<1>2. launcher'[t] = step /\ \A u \in Task : u # t => launcher'[u] = launcher[u]
  BY <1>1 DEF SetLauncher
<1>3. \A u \in Task : SameClaim(u)
  BY DEF SameClaim
<1>4. ASSUME NEW u \in Task, Confirmed(u)'
      PROVE  (Confirmed(u) /\ task[u].trigger # x) \/ (u = t /\ Fires(u))
  <2>1. launcher'[u] = "done"
    BY <1>4 DEF Confirmed
  <2>2. ASSUME u = t PROVE Fires(u)
    BY <1>2, <1>4, <2>1, <2>2
  <2>3. u # t => Confirmed(u)
    BY <1>2, <1>4 DEF Confirmed
  <2> QED BY <2>2, <2>3
<1>5. ASSUME NEW u \in Task, Releases(u)'
      PROVE  /\ task[u].trigger \in State
             /\ Releases(u) \/ trigger'[task[u].trigger].status # "snoozed"
  <2>1. Releases(u) => task[u].trigger \in State
    BY ReleasesFails, ReleasedTypes
  <2>2. Releases(u) \/ (u = t /\ step = "releasing")
    BY <1>2, <1>5 DEF Releases, Fails
  <2> QED BY <2>1, <2>2
<1>6. \A o \in Owner : updater'[o].pc = "clearing" => \A s \in updater'[o].claimed :
          s \in State /\ snapshot[s] # None /\ NoLater(s)
  BY ClearedTypes
<1>7. now' \in Time /\ now <= now'
  BY <1>1
<1> QED BY <1>3, <1>4, <1>5, <1>6, <1>7, ReviewsFrame

LEMMA NobodyIsNone ==
    ASSUME LiveInv, NEW u \in Task, Confirmed(u)
    PROVE  task[u].trigger # None
  BY DEF Confirmed
LEMMA RowReplaced ==
    ASSUME LiveInv, NEW t \in Task, NEW row, task' = [task EXCEPT ![t] = row]
    PROVE  task'[t] = row /\ \A u \in Task : u # t => task'[u] = task[u]
  BY DEF LiveInv, ProcessInv, TasksOK
(* markTaskFailed leaves no task confirmed. *)
LEMMA FailingUnconfirms ==
    ASSUME LiveInv, NEW t \in Task, MarkTaskFailed(t)
    PROVE  /\ SameClaim(t) /\ \A u \in Task : u # t => task'[u] = task[u]
           /\ ~ (task'[t].status = "running" /\ ~ task'[t].ledger)
           /\ CanFail(t) => task'[t].status = "failed"
<1>1. task[t] \in TaskRow
  BY DEF LiveInv, ProcessInv, TasksOK
<1>2. CASE CanFail(t)
  <2> DEFINE row == [task[t] EXCEPT !.status = "failed"]
  <2>1. task'[t] = row /\ \A u \in Task : u # t => task'[u] = task[u]
    BY <1>2, RowReplaced DEF MarkTaskFailed
  <2>2. row.status = "failed" /\ row.trigger = task[t].trigger /\ row.owner = task[t].owner
    BY <1>1, RowStatus DEF Status, Terminal
  <2> QED BY <2>1, <2>2 DEF SameClaim
<1>3. CASE ~ CanFail(t)
  BY <1>3 DEF MarkTaskFailed, CanFail, SameClaim
<1> QED BY <1>2, <1>3

LEMMA LauncherReviews ==
    ASSUME LiveInv, ClaimInv, ReviewInv, NEW t \in Task, LauncherStep(t)
    PROVE  ReviewInv'
<1>1. TasksOK /\ ProcessesOK /\ IInv /\ task[t] \in TaskRow /\ LauncherKnows(t)
  BY DEF LiveInv, ProcessInv, TasksOK, LaunchersKnow
<1>2. UNCHANGED <<now, updater, rec>>
  BY DEF LauncherStep, CreateBootstrapArtifact, LaunchSmithers, LaunchFails, MarkLaunched,
         FireTrigger, FailLaunch, ReactivateAfterLaunch, ReleaseAfterLaunch
<1>3. ASSUME UNCHANGED vars, NEW step \in LaunchSteps \ {"releasing"}, SetLauncher(t, step),
             SameClaim(t), \A u \in Task : u # t => task'[u] = task[u],
             step = "done" => ~ Confirmed(t)'
      PROVE  ReviewInv'
  <2>1. CalmBut(None)
    BY <1>3, QuietIsCalm DEF vars
  <2> QED BY <1>2, <1>3, <2>1, NobodyIsNone, LauncherFrame
<1>4. CASE CreateBootstrapArtifact(t)
  <2> DEFINE row == [task[t] EXCEPT !.artifact = TRUE]
  <2>1. row.trigger = task[t].trigger /\ row.owner = task[t].owner
    BY <1>1, RowArtifact
  <2>2. task'[t] = row /\ \A u \in Task : u # t => task'[u] = task[u]
    BY <1>4, RowReplaced DEF CreateBootstrapArtifact
  <2>3. SetLauncher(t, "ready") /\ UNCHANGED vars
    BY <1>4 DEF CreateBootstrapArtifact
  <2>4. SameClaim(t)
    BY <2>1, <2>2 DEF SameClaim
  <2> QED BY <1>3, <2>2, <2>3, <2>4 DEF LaunchSteps
<1>5. CASE LaunchSmithers(t) \/ LaunchFails(t)
  <2>1. UNCHANGED vars /\ UNCHANGED task /\ SameClaim(t)
    BY <1>5 DEF LaunchSmithers, LaunchFails, SameClaim
  <2>2. PICK step \in {"launched", "failing"} : SetLauncher(t, step)
    BY <1>5 DEF LaunchSmithers, LaunchFails
  <2> QED BY <1>3, <2>1, <2>2 DEF LaunchSteps
<1>6. CASE MarkLaunched(t)
  <2> DEFINE row == [task[t] EXCEPT !.status = "running", !.started = now]
  <2>1. row.trigger = task[t].trigger /\ row.owner = task[t].owner
    BY <1>1, RowRunning DEF ProcessesOK
  <2>6. task' = [task EXCEPT ![t] = row]
    BY <1>1, <1>6 DEF MarkLaunched, MarkTaskRunning, TasksOK
  <2>2. task'[t] = row /\ \A u \in Task : u # t => task'[u] = task[u]
    BY <2>6, RowReplaced
  <2>3. SameClaim(t) /\ UNCHANGED vars
    BY <1>6, <2>1, <2>2 DEF SameClaim, MarkLaunched
  <2>4. PICK step \in {"done", "marked"} :
            SetLauncher(t, step) /\ (step = "done" => task[t].trigger = None)
    BY <1>6 DEF MarkLaunched
  <2>5. step = "done" => ~ Confirmed(t)'
    BY <2>3, <2>4 DEF Confirmed, SameClaim
  <2> QED BY <1>3, <2>2, <2>3, <2>4, <2>5 DEF LaunchSteps
<1>7. CASE FireTrigger(t)
  <2>1. task[t].trigger \in State /\ UNCHANGED task /\ SameClaim(t)
    BY <1>1, <1>7, TaskTypes DEF FireTrigger, LauncherKnows, SameClaim
  <2>2. CASE SetLauncher(t, "failing") /\ UNCHANGED vars
    BY <1>3, <2>1, <2>2 DEF LaunchSteps
  <2>3. CASE MarkFired(task[t].trigger, task[t].owner, task[t].asOf) /\ SetLauncher(t, "done")
    <3> DEFINE s == task[t].trigger
    <3>1. /\ trigger' = [trigger EXCEPT ![s].status = "fired"] /\ UNCHANGED <<question, snapshot>>
          /\ trigger[s].status = "snoozed" /\ HoldsLease(s, task[t].owner)
      BY <2>3 DEF MarkFired, CanFire
    <3>2. CalmBut(None) /\ trigger'[s].status = "fired"
      BY <1>1, <2>1, <3>1, TriggerChangeIsCalm
    <3>3. Fires(t)
      BY <2>1, <3>1, <3>2 DEF Fires
    <3> QED BY <1>2, <2>1, <2>3, <3>2, <3>3, NobodyIsNone, LauncherFrame
  <2> QED BY <1>7, <2>2, <2>3 DEF FireTrigger
<1>8. CASE FailLaunch(t)
  <2>1. /\ SameClaim(t) /\ \A u \in Task : u # t => task'[u] = task[u]
        /\ ~ (task'[t].status = "running" /\ ~ task'[t].ledger)
    BY <1>8, FailingUnconfirms DEF FailLaunch
  <2>2. ~ Confirmed(t)' /\ UNCHANGED vars
    BY <1>8, <2>1 DEF Confirmed, FailLaunch
  <2>3. PICK step \in {"done", "reactivating"} : SetLauncher(t, step)
    BY <1>8 DEF FailLaunch, AfterFailing
  <2> QED BY <1>3, <2>1, <2>2, <2>3 DEF LaunchSteps
<1>9. CASE ReactivateAfterLaunch(t) \/ ReleaseAfterLaunch(t)
  <2>1. UNCHANGED task /\ SameClaim(t) /\ Fails(t, {"reactivating", "releasing"})
    BY <1>9 DEF ReactivateAfterLaunch, ReleaseAfterLaunch, SameClaim, Fails
  <2>2. ~ Confirmed(t)'
    BY <2>1 DEF Confirmed, ClaimInv, FailedBefore
  <2>3. task[t].trigger \in State
    BY <2>1, ReleasedTypes
  <2>4. CASE ReleaseAfterLaunch(t)
    <3>1. CalmBut(None)
      BY <2>4, ReleaseIsCalm DEF ReleaseAfterLaunch, Releases, Fails
    <3>2. SetLauncher(t, "done")
      BY <2>4 DEF ReleaseAfterLaunch
    <3> QED BY <1>2, <2>1, <2>2, <3>1, <3>2, NobodyIsNone, LauncherFrame
  <2>5. CASE ReactivateAfterLaunch(t) /\ Reactivate(task[t].trigger, task[t].owner)
    <3>1. CalmBut(task[t].trigger) /\ trigger'[task[t].trigger].status = "active"
      BY <2>1, <2>5, ReactivatingIsCalm
    <3>2. PICK step \in {"done", "releasing"} : SetLauncher(t, step)
      BY <2>5 DEF ReactivateAfterLaunch, AfterReactivating
    <3>3. \A u \in Task : Confirmed(u) => task[u].trigger # task[t].trigger
      BY <2>1, <2>5, ReactivatedIsUnconfirmed
    <3> QED BY <1>2, <2>1, <2>2, <2>3, <3>1, <3>2, <3>3, LauncherFrame
  <2>6. CASE ReactivateAfterLaunch(t) /\ ~ Reactivate(task[t].trigger, task[t].owner)
    <3>1. UNCHANGED vars /\ SetLauncher(t, "done")
      BY <2>6 DEF ReactivateAfterLaunch, ReactivateStatement, AfterReactivating
    <3> QED BY <1>3, <2>1, <2>2, <3>1 DEF LaunchSteps
  <2> QED BY <1>9, <2>4, <2>5, <2>6
<1> QED
  BY <1>4, <1>5, <1>6, <1>7, <1>8, <1>9 DEF LauncherStep

-----------------------------------------------------------------------------
(* Updaters: a claim by a fresh owner, and the rest of an execution *)
LEMMA ClaimReviews ==
    ASSUME LiveInv, ClaimInv, ReviewInv, NEW o \in Owner, ClaimTriggers(o)
    PROVE  ReviewInv'
<1>1. PICK pick \in Picks : ClaimDue(o, now, pick)
  BY DEF ClaimTriggers
<1>2. UNCHANGED <<now, task, launcher, rec, snapshot>>
  BY <1>1 DEF ClaimTriggers, ClaimDue
<1>3. /\ IInv /\ TypeOK /\ now \in Time /\ trigger \in [State -> TriggerRow]
      /\ question \in [Question -> UnleasedRow \cup LeasedRow]
      /\ updater \in [Owner -> UpdaterRow] /\ updater[o].pc = "idle"
  BY DEF LiveInv, ProcessInv, ProcessesOK, IInv, TypeInv, TypeOK, ClaimTriggers
<1>4. \A q \in DOMAIN pick : q \in Question /\ pick[q] \in ClaimChoices(q, now)
  BY <1>1 DEF ClaimDue, Batch, Claimable
<1>5. \A q \in DOMAIN pick : /\ pick[q] \in Members(q) /\ pick[q] \in State
                             /\ trigger[pick[q]].status \in {"active", "snoozed"} /\ DueBy(pick[q], now)
  BY <1>3, <1>4, ClaimChoicesType DEF Members, ClaimChoices, Reclaimable, DueActive
<1> DEFINE Picked(s) == \E q \in DOMAIN pick : pick[q] = s
<1>6. ASSUME NEW q \in Question
      PROVE  /\ q \notin DOMAIN pick => question'[q] = question[q]
             /\ q \in DOMAIN pick => question'[q].owner = o /\ question'[q].leased = pick[q]
  <2>1. question[q] \in UnleasedRow \cup LeasedRow
    BY <1>3
  <2>2. question'[q] = IF q \in DOMAIN pick
            THEN [question[q] EXCEPT !.owner = o, !.expires = now + Lease, !.leased = pick[q]]
            ELSE question[q]
    BY <1>1 DEF ClaimDue
  <2> QED BY <2>1, <2>2 DEF UnleasedRow, LeasedRow
<1>7. ASSUME NEW s \in State
      PROVE  /\ ~ Picked(s) => trigger'[s] = trigger[s]
             /\ Picked(s) => trigger'[s].status = "snoozed" /\ trigger'[s].due = trigger[s].due
  <2>1. trigger[s] \in TriggerRow
    BY <1>3
  <2>2. trigger'[s] = IF Picked(s) THEN [trigger[s] EXCEPT !.status = "snoozed"] ELSE trigger[s]
    BY <1>1 DEF ClaimDue
  <2> HIDE DEF Picked
  <2> QED BY <2>1, <2>2 DEF TriggerRow
<1>8. ASSUME NEW s \in State, Picked(s)
      PROVE  /\ snapshot[s] # None /\ snapshot[s].question \in DOMAIN pick
             /\ pick[snapshot[s].question] = s
  BY <1>5, <1>8 DEF Members
<1> HIDE DEF Picked
<1>9. SnoozedWasDue'
  <2> SUFFICES ASSUME NEW s \in State, trigger'[s].status = "snoozed"
               PROVE  trigger'[s].due # None /\ trigger'[s].due <= now
    BY <1>2 DEF SnoozedWasDue, DueBy
  <2>1. CASE Picked(s)
    BY <1>5, <1>7, <1>8, <2>1 DEF DueBy
  <2>2. CASE ~ Picked(s)
    BY <1>7, <2>2 DEF ReviewInv, SnoozedWasDue, DueBy
  <2> QED BY <2>1, <2>2
<1>10. SnoozedIsLeased'
  <2> SUFFICES ASSUME NEW s \in State, trigger'[s].status = "snoozed", ~ NoLater(s)
               PROVE  question'[snapshot[s].question].leased = s
    BY <1>2 DEF SnoozedIsLeased, NoLater
  <2> DEFINE q == snapshot[s].question
  <2>1. CASE Picked(s)
    BY <1>4, <1>6, <1>8, <2>1
  <2>2. CASE ~ Picked(s)
    <3>1. trigger[s].status = "snoozed"
      BY <1>7, <2>2
    <3>2. snapshot[s] # None /\ q \in Question /\ s \in Members(q)
      BY <1>3, <3>1, HasSnapshot DEF Members
    <3>3. question[q].leased = s /\ DueBy(s, now)
      BY <3>1 DEF ReviewInv, SnoozedIsLeased, SnoozedWasDue, NoLater
    <3>4. s \in Reclaimable(q, now) /\ \A r \in Reclaimable(q, now) : r = s
      BY <3>1, <3>2, <3>3 DEF Reclaimable
    <3>5. q \in DOMAIN pick => pick[q] = s
      BY <1>4, <3>4 DEF ClaimChoices
    <3> QED BY <1>6, <2>2, <3>2, <3>3, <3>5 DEF Picked
  <2> QED BY <2>1, <2>2
<1>11. \A t \in Task : (Confirmed(t)' <=> Confirmed(t)) /\ (Releases(t)' <=> Releases(t))
  BY <1>2 DEF Confirmed, Releases, Fails
<1>12. ReleasesNoSnoozed'
  <2> SUFFICES ASSUME NEW t \in Task, Releases(t), trigger'[task[t].trigger].status = "snoozed",
                      HoldsLease(task[t].trigger, task[t].owner)'
               PROVE  FALSE
    BY <1>2, <1>11 DEF ReleasesNoSnoozed, Releases, HoldsLease
  <2> DEFINE s == task[t].trigger
             q == snapshot[s].question
  <2>1. s \in State /\ task[t].owner # o
    BY <1>3, ReleasesFails, ReleasedTypes DEF ClaimInv, OwnersKnow, OwnerKnows
  <2>2. question'[q].leased = s /\ question'[q].owner = task[t].owner
    BY <1>2 DEF HoldsLease
  <2>3. ~ Picked(s)
    BY <1>4, <1>6, <1>8, <2>1, <2>2
  <2>4. trigger[s].status = "snoozed"
    BY <1>7, <2>1, <2>3
  <2>5. q \in Question
    BY <1>3, <2>1, <2>4, HasSnapshot
  <2>6. HoldsLease(s, task[t].owner)
    BY <1>6, <2>1, <2>2, <2>5 DEF HoldsLease
  <2> QED BY <2>4, <2>6 DEF ReviewInv, ReleasesNoSnoozed, Releases
<1>13. ClearsPastReviews'
  <2>1. \A u \in Owner : updater'[u].pc = "clearing" => updater'[u] = updater[u]
    <3>1. PICK row \in UpdaterRow : row.pc = "reading" /\ updater' = [updater EXCEPT ![o] = row]
      <4>1. PICK p \in Picks : /\ ClaimDue(o, now, p)
                               /\ Update(o, [IdleUpdater EXCEPT !.pc = "reading", !.asOf = now,
                                                 !.claimed = {p[q] : q \in DOMAIN p}])
        BY DEF ClaimTriggers
      <4> DEFINE C == {p[q] : q \in DOMAIN p}
                 row == [IdleUpdater EXCEPT !.pc = "reading", !.asOf = now, !.claimed = C]
      <4>2. \A q \in DOMAIN p : q \in Question /\ p[q] \in ClaimChoices(q, now)
        BY <4>1 DEF ClaimDue, Batch, Claimable
      <4>3. C \in SUBSET Task
        BY <1>3, <4>2, ClaimChoicesType DEF Members, Task
      <4> HIDE DEF C
      <4>4. row \in UpdaterRow /\ row.pc = "reading"
        BY <1>3, <4>3 DEF IdleUpdater, UpdaterRow
      <4>5. updater' = [updater EXCEPT ![o] = row]
        BY <4>1 DEF Update, C
      <4> QED BY <4>4, <4>5
    <3> QED BY <1>3, <3>1
  <2> SUFFICES ASSUME NEW u \in Owner, updater'[u].pc = "clearing", NEW s \in updater'[u].claimed
               PROVE  NoLater(s)'
    BY DEF ClearsPastReviews
  <2>2. NoLater(s)
    BY <2>1 DEF ReviewInv, ClearsPastReviews
  <2> QED BY <1>2, <2>2 DEF NoLater
<1>14. ConfirmedHasFired' /\ OneUpdatePerReview'
  <2>1. ASSUME NEW t \in Task, Confirmed(t)
        PROVE  trigger'[task[t].trigger].status \in {"fired", "retired"} /\ OwnLease(t)'
    <3> DEFINE s == task[t].trigger
               q == snapshot[s].question
    <3>1. trigger[s].status \in {"fired", "retired"} /\ OwnLease(t)
      BY <2>1 DEF ReviewInv, ConfirmedHasFired
    <3>2. s \in State /\ q \in Question
      BY <1>3, <2>1, <3>1, TaskTypes, HasSnapshot DEF Confirmed
    <3>3. ~ Picked(s)
      BY <1>5, <1>8, <3>1, <3>2
    <3>4. trigger'[s] = trigger[s]
      BY <1>7, <3>2, <3>3
    <3>5. question'[q].leased = s => question'[q] = question[q]
      BY <1>6, <3>2, <3>3 DEF Picked
    <3> QED BY <1>2, <3>1, <3>4, <3>5 DEF OwnLease
  <2> QED BY <1>2, <1>11, <2>1 DEF ReviewInv, ConfirmedHasFired, OneUpdatePerReview
<1> QED BY <1>9, <1>10, <1>12, <1>13, <1>14 DEF ReviewInv

LEMMA UpdaterFrame ==
    ASSUME LiveInv, ReviewInv, CalmBut(None), UNCHANGED <<now, rec>>,
           \A t \in Task : Confirmed(t)' => Confirmed(t) /\ SameClaim(t),
           \A t \in Task : Releases(t)' => Releases(t) /\ SameClaim(t),
           NEW o \in Owner, NEW row, Update(o, row),
           row.pc = "clearing" => \A s \in row.claimed : s \in State /\ snapshot[s] # None /\ NoLater(s)
    PROVE  ReviewInv'
<1>1. now' \in Time /\ now <= now' /\ updater \in [Owner -> UpdaterRow]
  BY NumberAssumption DEF LiveInv, ProcessInv, ProcessesOK, Time
<1>2. updater'[o] = row /\ \A u \in Owner : u # o => updater'[u] = updater[u]
  BY <1>1 DEF Update
<1>3. \A u \in Owner : updater'[u].pc = "clearing" => \A s \in updater'[u].claimed :
          s \in State /\ snapshot[s] # None /\ NoLater(s)
  BY <1>2, ClearedTypes
<1>4. \A t \in Task : Confirmed(t)' => SameClaim(t) /\ Confirmed(t) /\ task[t].trigger # None
  BY NobodyIsNone
<1>5. \A t \in Task : Releases(t)' => SameClaim(t) /\ task[t].trigger \in State /\ Releases(t)
  BY ReleasesFails, ReleasedTypes
<1> QED BY <1>1, <1>3, <1>4, <1>5, ReviewsFrame
LEMMA NoTaskMoves ==
    ASSUME UNCHANGED <<task, launcher, rec>>, NEW t \in Task
    PROVE  /\ Confirmed(t)' => Confirmed(t) /\ SameClaim(t)
           /\ Releases(t)' => Releases(t) /\ SameClaim(t)
  BY DEF Confirmed, Releases, Fails, SameClaim

LEMMA UpdaterReviews ==
    ASSUME LiveInv, ClaimInv, ReviewInv, NEW o \in Owner, UpdaterStep(o) \/ UpdaterCrashes(o)
    PROVE  ReviewInv'
<1>1. UNCHANGED <<now, rec>> /\ updater[o] \in UpdaterRow /\ now \in Time /\ IInv
  BY DEF UpdaterStep, UpdaterCrashes, ReadContext, RetirePlan, ClearRetired, UpdaterEnds,
         CreateUpdateTask, LiveInv, ProcessInv, ProcessesOK
<1>2. CASE RetirePlan(o)
  <2>1. PICK plan \in updater[o].plans :
          LET q == snapshot[plan.trigger].question IN
          /\ NextReview(q, updater[o].asOf) = None
          /\ \/ RetireTriggers(q)
             \/ Unretired(q) = {} /\ UNCHANGED vars
          /\ Update(o, [updater[o] EXCEPT !.pc = "clearing", !.claimed = {plan.trigger}])
    BY <1>2 DEF RetirePlan
  <2> DEFINE s == plan.trigger
             q == snapshot[s].question
             row == [updater[o] EXCEPT !.pc = "clearing", !.claimed = {s}]
  <2>2. s \in State /\ snapshot[s] # None /\ q \in Question /\ updater[o].asOf \in Time
    BY PlanTypes
  <2>3. updater[o].asOf <= now
    BY DEF ClaimInv, OwnersKnow, OwnerKnows
  <2>4. NoLater(s)
    BY <1>1, <2>1, <2>2, <2>3, NoLaterReview DEF NoLater
  <2>5. CalmBut(None)
    BY <1>1, <2>1, <2>2, RetiringIsCalm, QuietIsCalm DEF vars
  <2>6. row.claimed = {s} /\ Update(o, row)
    BY <1>1, <2>1 DEF UpdaterRow
  <2>7. UNCHANGED <<task, launcher, rec>>
    BY <1>2 DEF RetirePlan
  <2> HIDE DEF row
  <2> QED BY <1>1, <2>2, <2>4, <2>5, <2>6, <2>7, NoTaskMoves, UpdaterFrame
<1>3. CASE ClearRetired(o)
  <2>1. PICK s \in updater[o].claimed :
          /\ ClearLease(snapshot[s].question)
          /\ Update(o, [updater[o] EXCEPT !.plans = {plan \in @ : plan.trigger # s},
                                          !.claimed = {}, !.pc = "launching"])
    BY <1>3 DEF ClearRetired
  <2> DEFINE q == snapshot[s].question
             row == [updater[o] EXCEPT !.plans = {plan \in @ : plan.trigger # s},
                                       !.claimed = {}, !.pc = "launching"]
  <2>2. s \in State /\ q \in Question /\ NoLater(s)
    BY <1>3, ClearedTypes, PlanTypes DEF ClearRetired
  <2>3. \A r \in Members(q) : NoLater(r)
    BY <2>2 DEF Members, NoLater
  <2>4. CalmBut(None)
    BY <1>1, <2>1, <2>2, <2>3, ReleasingIsCalm DEF ClearLease
  <2>5. row.pc = "launching" /\ Update(o, row)
    BY <1>1, <2>1 DEF UpdaterRow
  <2>6. UNCHANGED <<task, launcher, rec>>
    BY <1>3 DEF ClearRetired
  <2> HIDE DEF row
  <2> QED BY <1>1, <2>4, <2>5, <2>6, NoTaskMoves, UpdaterFrame
<1>4. CASE ReadContext(o) \/ UpdaterEnds(o) \/ UpdaterCrashes(o)
  <2>1. PICK row : Update(o, row) /\ row.pc # "clearing"
    <3> DEFINE done == [IdleUpdater EXCEPT !.pc = "done"]
               dead == [IdleUpdater EXCEPT !.pc = "dead"]
    <3>1. done.pc = "done" /\ dead.pc = "dead"
      BY IdleUpdaterType DEF UpdaterRow
    <3>2. CASE UpdaterEnds(o) \/ UpdaterCrashes(o)
      <4>1. Update(o, done) \/ Update(o, dead)
        BY <3>2 DEF UpdaterEnds, UpdaterCrashes
      <4> HIDE DEF done, dead
      <4> QED BY <3>1, <4>1
    <3>3. CASE ReadContext(o)
      <4>1. PICK s \in updater[o].claimed :
          LET plan == [trigger |-> s, prev |-> question[snapshot[s].question].latest]
              rest == updater[o].claimed \ {s}
          IN IF StillLeased(s, o)
             THEN Update(o, [updater[o] EXCEPT !.claimed = rest, !.plans = @ \cup {plan},
                                 !.pc = IF rest = {} THEN "launching" ELSE @])
             ELSE Update(o, done)
        BY <3>3 DEF ReadContext
      <4> DEFINE plan == [trigger |-> s, prev |-> question[snapshot[s].question].latest]
                 rest == updater[o].claimed \ {s}
                 pc == IF rest = {} THEN "launching" ELSE updater[o].pc
                 row == [updater[o] EXCEPT !.claimed = rest, !.plans = @ \cup {plan}, !.pc = pc]
      <4>2. row.pc = pc /\ updater[o].pc = "reading"
        BY <1>1, <3>3 DEF UpdaterRow, ReadContext
      <4>3. Update(o, row) \/ Update(o, done)
        BY <4>1
      <4> HIDE DEF done, row
      <4> QED BY <3>1, <4>2, <4>3
    <3> QED BY <1>4, <3>2, <3>3
  <2>2. UNCHANGED <<task, launcher, rec>> /\ CalmBut(None)
    BY <1>4, QuietIsCalm DEF ReadContext, UpdaterEnds, UpdaterCrashes, vars
  <2> QED BY <1>1, <2>1, <2>2, NoTaskMoves, UpdaterFrame
<1>5. ASSUME NEW t \in Task, CreateUpdateTask(o, t)
      PROVE  ReviewInv'
  <2>1. PICK plan \in updater[o].plans :
          /\ task' = [task EXCEPT ![t] =
                 QueuedTask(snapshot[plan.trigger].question, plan.prev, plan.trigger, o, updater[o].asOf)]
          /\ Update(o, [updater[o] EXCEPT !.plans = @ \ {plan}, !.task = t])
    BY <1>5 DEF CreateUpdateTask
  <2> DEFINE new == QueuedTask(snapshot[plan.trigger].question, plan.prev, plan.trigger, o, updater[o].asOf)
             row == [updater[o] EXCEPT !.plans = updater[o].plans \ {plan}, !.task = t]
  <2>2. new.status = "queued"
    BY DEF QueuedTask, NoTask
  <2>11. updater[o].pc = "launching"
    BY <1>5 DEF CreateUpdateTask, BetweenPlans
  <2>3. row.pc = "launching" /\ Update(o, row)
    BY <1>1, <2>1, <2>11 DEF UpdaterRow
  <2>4. /\ task[t].status = "none" /\ UNCHANGED <<now, rec>> /\ SetLauncher(t, "ready") /\ UNCHANGED vars
    BY <1>5 DEF CreateUpdateTask
  <2>5. task'[t] = new /\ \A u \in Task : u # t => task'[u] = task[u]
    BY <2>1, RowReplaced
  <2>6. launcher'[t] = "ready" /\ \A u \in Task : u # t => launcher'[u] = launcher[u]
    BY <2>4 DEF SetLauncher, LiveInv, ProcessInv, ProcessesOK
  <2> HIDE DEF new, row
  <2>7. ASSUME NEW u \in Task, Confirmed(u)' PROVE Confirmed(u) /\ SameClaim(u)
    <3>1. u # t
      BY <2>2, <2>5, <2>7 DEF Confirmed
    <3> QED BY <2>5, <2>6, <2>7, <3>1 DEF Confirmed, SameClaim
  <2>8. ASSUME NEW u \in Task, Releases(u)' PROVE Releases(u) /\ SameClaim(u)
    <3>1. Releases(u)
      BY <2>4, <2>6, <2>8 DEF Releases, Fails
    <3>2. u # t
      BY <2>4, <3>1, ReleasesFails, ReleasedTypes
    <3> QED BY <2>5, <3>1, <3>2 DEF SameClaim
  <2>9. CalmBut(None)
    BY <2>4, QuietIsCalm DEF vars
  <2> QED BY <2>3, <2>4, <2>7, <2>8, <2>9, UpdaterFrame
<1> QED BY <1>2, <1>3, <1>4, <1>5 DEF UpdaterStep

-----------------------------------------------------------------------------
(* Passes, and everything else *)
LEMMA EndTaskClaims ==
    ASSUME LiveInv, NEW t \in Task, NEW status \in {"completed", "cancelled"}, EndTask(t, status)
    PROVE  \A u \in Task : SameClaim(u) /\ StillRuns(u)
<1>1. CASE task[t].status = "running"
  <2> DEFINE row == [task[t] EXCEPT !.status = status]
  <2>1. /\ row.status = status /\ row.trigger = task[t].trigger /\ row.owner = task[t].owner
        /\ row.ledger = task[t].ledger
    BY RowStatus DEF Status, Terminal, LiveInv, ProcessInv, TasksOK
  <2>2. task'[t] = row /\ \A u \in Task : u # t => task'[u] = task[u]
    BY <1>1, RowReplaced DEF EndTask
  <2> HIDE DEF row
  <2> QED BY <2>1, <2>2 DEF SameClaim, StillRuns
<1>2. CASE task[t].status # "running"
  BY <1>2 DEF EndTask, SameClaim, StillRuns
<1> QED BY <1>1, <1>2

(* What a pass does to the tasks. *)
LEMMA PassClaims ==
    ASSUME LiveInv, NEW p \in Proc, PassStep(p) \/ ReconcilerCrashes(p)
    PROVE  \A u \in Task : SameClaim(u) /\ StillRuns(u)
<1>1. CASE UNCHANGED task
  BY <1>1 DEF SameClaim, StillRuns
<1>2. CASE RecoverCommitted(p) \/ CompleteTask(p) \/ CancelTask(p)
  <2>1. \A r \in rec[p].todo : r.task \in Task
    BY DEF LiveInv, ProcessInv, ProcessesOK, RecRow
  <2>2. rec[p].pc \in {"committed", "cancelling"} => rec[p].cur \in Task
    BY PassTypes
  <2>3. PICK u \in Task, status \in {"completed", "cancelled"} : EndTask(u, status)
    BY <1>2, <2>1, <2>2 DEF RecoverCommitted, CompleteTask, CancelTask, MarkTaskCompleted, EndTask
  <2> QED BY <2>3, EndTaskClaims
<1>3. CASE CommitLedger(p)
  <2> DEFINE t == rec[p].cur
             row == [task[t] EXCEPT !.ledger = TRUE, !.attempts = @ + 1]
  <2>1. t \in Task
    BY <1>3, PassTypes DEF CommitLedger
  <2>2. row.ledger = TRUE /\ row.trigger = task[t].trigger /\ row.owner = task[t].owner
    BY <2>1, RowLedger DEF LiveInv, ProcessInv, TasksOK
  <2>3. task' = [task EXCEPT ![t] = row]
    BY <1>3 DEF CommitLedger
  <2> HIDE DEF row
  <2>4. task'[t] = row /\ \A u \in Task : u # t => task'[u] = task[u]
    BY <2>1, <2>3, RowReplaced
  <2> QED BY <2>2, <2>4 DEF SameClaim, StillRuns
<1>4. CASE FailTask(p)
  <2>1. rec[p].cur \in Task
    BY <1>4, PassTypes DEF FailTask
  <2> QED BY <1>4, <2>1, FailingUnconfirms DEF FailTask, SameClaim, StillRuns
<1> QED
  BY <1>1, <1>2, <1>3, <1>4 DEF PassStep, StartPass, EndPass, InspectRun, OutputFails,
     NoArtifact, AlreadyCommitted, BeginLedger, QuestionNotOpen, StaleState,
     ReactivateAfterFailure, ReleaseAfterFailure, ReconcilerCrashes

LEMMA PassFrame ==
    ASSUME LiveInv, ReviewInv, NEW x, CalmBut(x), UNCHANGED <<now, launcher, updater>>,
           \A u \in Task : SameClaim(u) /\ StillRuns(u),
           NEW p \in Proc, \A r \in Proc : r # p => rec'[r] = rec[r],
           rec'[p].pc = "releasing" => \A t \in Task : rec'[p].cur = t =>
               task[t].trigger \in State /\ trigger'[task[t].trigger].status # "snoozed",
           \A u \in Task : Confirmed(u) => task[u].trigger # x
    PROVE  ReviewInv'
<1>1. now' \in Time /\ now <= now'
  BY NumberAssumption DEF LiveInv, ProcessInv, ProcessesOK, Time
<1>2. \A o \in Owner : updater'[o].pc = "clearing" => \A s \in updater'[o].claimed :
          s \in State /\ snapshot[s] # None /\ NoLater(s)
  BY ClearedTypes
<1>3. ASSUME NEW t \in Task, Confirmed(t)'
      PROVE  SameClaim(t) /\ Confirmed(t) /\ task[t].trigger # x
  <2>1. Confirmed(t)
    BY <1>3 DEF Confirmed, SameClaim, StillRuns
  <2> QED BY <2>1
<1>4. ASSUME NEW t \in Task, Releases(t)'
      PROVE  /\ SameClaim(t) /\ task[t].trigger \in State
             /\ Releases(t) \/ trigger'[task[t].trigger].status # "snoozed"
  <2>1. Releases(t) => task[t].trigger \in State
    BY ReleasesFails, ReleasedTypes
  <2>2. Releases(t) \/ (rec'[p].pc = "releasing" /\ rec'[p].cur = t)
    BY <1>4 DEF Releases, Fails
  <2> QED BY <2>1, <2>2
<1> QED BY <1>1, <1>2, <1>3, <1>4, ReviewsFrame

LEMMA PassReviews ==
    ASSUME LiveInv, ClaimInv, ReviewInv, NEW p \in Proc, PassStep(p) \/ ReconcilerCrashes(p)
    PROVE  ReviewInv'
<1> DEFINE t == rec[p].cur
<1>1. UNCHANGED <<now, launcher, updater>>
  BY DEF PassStep, StartPass, EndPass, RecoverCommitted, InspectRun, OutputFails,
     NoArtifact, AlreadyCommitted, BeginLedger, QuestionNotOpen, StaleState, CommitLedger, CompleteTask,
     CancelTask, FailTask, ReactivateAfterFailure, ReleaseAfterFailure, ReconcilerCrashes
<1>2. rec \in [Proc -> RecRow] /\ rec[p] \in RecRow /\ IInv
  BY DEF LiveInv, ProcessInv, ProcessesOK
<1>3. \A u \in Task : SameClaim(u) /\ StillRuns(u)
  BY PassClaims
<1>5. ASSUME NEW row, Pass(p, row)
      PROVE  rec'[p] = row /\ \A r \in Proc : r # p => rec'[r] = rec[r]
  BY <1>2, <1>5 DEF Pass
<1>6. ASSUME NEW row, Pass(p, row), row.pc # "releasing", CalmBut(None)
      PROVE  ReviewInv'
  <2>1. rec'[p] = row /\ \A r \in Proc : r # p => rec'[r] = rec[r]
    BY <1>5, <1>6
  <2> QED BY <1>1, <1>3, <1>6, <2>1, NobodyIsNone, PassFrame
<1>7. ASSUME NEW pc, pc # "releasing", GoTo(p, pc), CalmBut(None)
      PROVE  ReviewInv'
  <2>1. [rec[p] EXCEPT !.pc = pc].pc = pc
    BY <1>2 DEF RecRow
  <2> QED BY <1>6, <1>7, <2>1 DEF GoTo
<1>8. ASSUME NextTask(p), CalmBut(None)
      PROVE  ReviewInv'
  <2>1. [rec[p] EXCEPT !.pc = "pass", !.cur = None].pc = "pass"
    BY <1>2 DEF RecRow
  <2> QED BY <1>6, <1>8, <2>1 DEF NextTask
<1>9. CASE EndPass(p) \/ OutputFails(p) \/ StaleState(p) \/ ReconcilerCrashes(p)
  <2>1. Pass(p, IdlePass) /\ UNCHANGED <<question, snapshot, trigger>>
    BY <1>9 DEF EndPass, OutputFails, StaleState, ReconcilerCrashes, Rollback, vars
  <2> QED BY <1>6, <2>1, IdlePassType, QuietIsCalm
<1>10. CASE NoArtifact(p) \/ AlreadyCommitted(p) \/ BeginLedger(p) \/ QuestionNotOpen(p)
  <2>1. UNCHANGED <<question, snapshot, trigger>>
    BY <1>10 DEF NoArtifact, AlreadyCommitted, BeginLedger, BeginSnapshot, QuestionNotOpen, vars
  <2>2. GoTo(p, "failing") \/ GoTo(p, "committed") \/ GoTo(p, "writing")
    BY <1>10 DEF NoArtifact, AlreadyCommitted, BeginLedger, QuestionNotOpen
  <2> QED BY <1>7, <2>1, <2>2, QuietIsCalm
<1>11. CASE CommitLedger(p)
  <2>1. CommitSnapshot(task[t].question) /\ GoTo(p, "committed") /\ task[t].question \in Question
    BY <1>11, PassTypes, TaskTypes DEF CommitLedger
  <2> QED BY <1>2, <1>7, <2>1, EndOfTransactionIsCalm
<1>12. CASE CompleteTask(p) \/ CancelTask(p)
  BY <1>8, <1>12, QuietIsCalm DEF CompleteTask, CancelTask, vars
<1>13. CASE RecoverCommitted(p)
  <2>1. PICK r \in rec[p].todo : Pass(p, [rec[p] EXCEPT !.todo = @ \ {r}])
    BY <1>13 DEF RecoverCommitted
  <2>2. [rec[p] EXCEPT !.todo = @ \ {r}].pc = "pass" /\ CalmBut(None)
    BY <1>2, <1>13, QuietIsCalm DEF RecRow, RecoverCommitted, vars
  <2> QED BY <1>6, <2>1, <2>2
<1>14. CASE StartPass(p)
  <2>1. PICK T : Pass(p, [IdlePass EXCEPT !.pc = "pass", !.todo = T])
    BY <1>14 DEF StartPass
  <2>2. [IdlePass EXCEPT !.pc = "pass", !.todo = T].pc = "pass" /\ CalmBut(None)
    BY <1>14, QuietIsCalm DEF IdlePass, StartPass, vars
  <2> QED BY <1>6, <2>1, <2>2
<1>15. CASE InspectRun(p)
  <2>1. PICK pc, T, cur : pc # "releasing" /\ Pass(p, [pc |-> pc, todo |-> T, cur |-> cur])
    BY <1>15 DEF InspectRun, Verdict
  <2>2. [pc |-> pc, todo |-> T, cur |-> cur].pc = pc /\ CalmBut(None)
    BY <1>15, QuietIsCalm DEF InspectRun, vars
  <2> QED BY <1>6, <2>1, <2>2
<1>16. CASE FailTask(p)
  <2>1. PICK pc, cur : pc = AfterFailing(t, "pass") /\ Pass(p, [rec[p] EXCEPT !.pc = pc, !.cur = cur])
    BY <1>16 DEF FailTask
  <2>2. [rec[p] EXCEPT !.pc = pc, !.cur = cur].pc = pc /\ CalmBut(None)
    BY <1>2, <1>16, QuietIsCalm DEF RecRow, FailTask, vars
  <2>3. pc # "releasing"
    BY <2>1 DEF AfterFailing
  <2> QED BY <1>6, <2>1, <2>2, <2>3
<1>17. ASSUME ReactivateAfterFailure(p) \/ ReleaseAfterFailure(p)
       PROVE  t \in Task /\ Fails(t, {"reactivating", "releasing"}) /\ task[t].trigger \in State
  <2>1. rec[p].pc \in {"reactivating", "releasing"}
    BY <1>17 DEF ReactivateAfterFailure, ReleaseAfterFailure
  <2>2. t \in Task /\ Fails(t, {"reactivating", "releasing"})
    BY <2>1, PassTypes DEF Fails
  <2> QED BY <2>2, ReleasedTypes
<1>18. CASE ReleaseAfterFailure(p)
  <2>1. Releases(t) /\ ReleaseStatement(t) /\ NextTask(p)
    BY <1>18 DEF ReleaseAfterFailure, Releases, Fails
  <2>2. CalmBut(None)
    BY <1>17, <1>18, <2>1, ReleaseIsCalm
  <2> QED BY <1>8, <2>1, <2>2
<1>19. CASE ReactivateAfterFailure(p)
  <2>1. PICK pc, cur : /\ pc = AfterReactivating(t, "pass")
                       /\ cur = IF pc = "pass" THEN None ELSE t
                       /\ Pass(p, [rec[p] EXCEPT !.pc = pc, !.cur = cur])
    BY <1>19 DEF ReactivateAfterFailure
  <2> DEFINE row == [rec[p] EXCEPT !.pc = pc, !.cur = cur]
  <2>2. row.pc = pc /\ row.cur = cur
    BY <1>2 DEF RecRow
  <2> HIDE DEF row
  <2>3. CASE Reactivate(task[t].trigger, task[t].owner)
    <3>1. CalmBut(task[t].trigger) /\ trigger'[task[t].trigger].status = "active"
      BY <1>17, <1>19, <2>3, ReactivatingIsCalm
    <3>2. \A u \in Task : Confirmed(u) => task[u].trigger # task[t].trigger
      BY <1>17, <1>19, <2>3, ReactivatedIsUnconfirmed
    <3>3. rec'[p] = row /\ \A r \in Proc : r # p => rec'[r] = rec[r]
      BY <1>5, <2>1 DEF row
    <3>4. cur = t \/ pc = "pass"
      BY <2>1
    <3>5. rec'[p].pc = "releasing" => \A u \in Task : rec'[p].cur = u =>
              task[u].trigger \in State /\ trigger'[task[u].trigger].status # "snoozed"
      BY <1>17, <1>19, <2>2, <3>1, <3>3, <3>4
    <3> QED BY <1>1, <1>3, <3>1, <3>2, <3>3, <3>5, PassFrame
  <2>4. CASE ~ Reactivate(task[t].trigger, task[t].owner)
    <3>1. CalmBut(None) /\ pc = "pass"
      BY <1>19, <2>1, <2>4, QuietIsCalm DEF ReactivateAfterFailure, ReactivateStatement, AfterReactivating, vars
    <3> QED BY <1>6, <2>1, <2>2, <3>1 DEF row
  <2> QED BY <2>3, <2>4
<1> QED
  BY <1>9, <1>10, <1>11, <1>12, <1>13, <1>14, <1>15, <1>16, <1>18, <1>19 DEF PassStep

LEMMA ElsewhereReviews ==
    ASSUME LiveInv, ReviewInv, CalmBut(None), now' \in Time, now <= now',
           UNCHANGED <<launcher, rec>>,
           \A u \in Task : Confirmed(u)' => Confirmed(u) /\ SameClaim(u),
           \A u \in Task : Releases(u) => SameClaim(u),
           \A o \in Owner : updater'[o].pc = "clearing" => updater'[o] = updater[o]
    PROVE  ReviewInv'
<1>1. \A o \in Owner : updater'[o].pc = "clearing" => \A s \in updater'[o].claimed :
          s \in State /\ snapshot[s] # None /\ NoLater(s)
  BY ClearedTypes
<1>2. ASSUME NEW t \in Task, Releases(t)'
      PROVE  SameClaim(t) /\ task[t].trigger \in State /\ Releases(t)
  <2>1. Releases(t)
    BY <1>2 DEF Releases, Fails
  <2> QED BY <2>1, ReleasesFails, ReleasedTypes
<1> QED BY <1>1, <1>2, NobodyIsNone, ReviewsFrame

LEMMA OtherReviews ==
    ASSUME LiveInv, ReviewInv, NEW t \in Task,
           \/ RunProgress(t) \/ RunIsCancelled(t) \/ RunIsLost(t) \/ RequestReport(t)
           \/ \E status \in Outcomes : ResolveTask(t, status)
    PROVE  ReviewInv'
<1>1. /\ now' \in Time /\ now <= now'
      /\ UNCHANGED <<launcher, rec, updater>> /\ UNCHANGED <<question, snapshot, trigger>>
  <2>1. now' = now
    BY DEF RunProgress, RunStarts, RunEnds, RunIsCancelled, RunIsLost, RunStep, RequestReport, ResolveTask
  <2>2. UNCHANGED <<launcher, rec, updater>>
    BY DEF RunProgress, RunStarts, RunEnds, RunIsCancelled, RunIsLost, RunStep, RequestReport, ResolveTask, procs
  <2>3. UNCHANGED <<question, snapshot, trigger>>
    BY DEF RunProgress, RunStarts, RunEnds, RunIsCancelled, RunIsLost, RunStep, RequestReport, ResolveTask,
           BeginClose, vars
  <2>4. now \in Time /\ now <= now
    BY NumberAssumption DEF LiveInv, ProcessInv, ProcessesOK, Time
  <2> QED BY <2>1, <2>2, <2>3, <2>4
<1>2. \A u \in Task : SameClaim(u) /\ StillRuns(u)
  <2>1. CASE UNCHANGED task
    BY <2>1 DEF SameClaim, StillRuns
  <2>2. CASE RequestReport(t)
    <3> DEFINE row == [task[t] EXCEPT !.artifact = TRUE]
    <3>1. /\ row.trigger = task[t].trigger /\ row.owner = task[t].owner
          /\ row.status = task[t].status /\ row.ledger = task[t].ledger
      BY RowArtifact DEF LiveInv, ProcessInv, TasksOK
    <3>2. task'[t] = row /\ \A u \in Task : u # t => task'[u] = task[u]
      BY <2>2, RowReplaced DEF RequestReport
    <3> HIDE DEF row
    <3> QED BY <3>1, <3>2 DEF SameClaim, StillRuns
  <2> QED
    BY <2>1, <2>2 DEF RunProgress, RunStarts, RunEnds, RunIsCancelled, RunIsLost, RunStep, ResolveTask
<1>3. CalmBut(None)
  BY <1>1, QuietIsCalm
<1>4. \A u \in Task : Confirmed(u)' => Confirmed(u)
  BY <1>1, <1>2 DEF Confirmed, SameClaim, StillRuns
<1> QED BY <1>1, <1>2, <1>3, <1>4, ElsewhereReviews

LEMMA PostReviews ==
    ASSUME LiveInv, ReviewInv, NEW t \in Task, NEW q \in Question, PostRun(t, q)
    PROVE  ReviewInv'
<1> DEFINE new == QueuedTask(q, None, None, None, now)
<1>1. /\ task[t].status = "none" /\ task' = [task EXCEPT ![t] = new]
      /\ SetLauncher(t, "created") /\ UNCHANGED vars /\ UNCHANGED <<now, rec, updater>>
  BY DEF PostRun
<1>2. task'[t] = new /\ \A u \in Task : u # t => task'[u] = task[u]
  BY <1>1, RowReplaced
<1>3. launcher'[t] = "created" /\ \A u \in Task : u # t => launcher'[u] = launcher[u]
  BY <1>1 DEF SetLauncher, LiveInv, ProcessInv, ProcessesOK
<1> HIDE DEF new
<1>4. CalmBut(None)
  BY <1>1, QuietIsCalm DEF vars
<1>5. ASSUME NEW u \in Task, Confirmed(u)' PROVE Confirmed(u) /\ SameClaim(u)
  BY <1>2, <1>3, <1>5 DEF Confirmed, SameClaim
<1>6. ASSUME NEW u \in Task, Releases(u)' PROVE Releases(u) /\ SameClaim(u) /\ task[u].trigger \in State
  <2>1. Releases(u)
    BY <1>1, <1>3, <1>6 DEF Releases, Fails
  <2>2. u # t /\ task[u].trigger \in State
    BY <1>1, <2>1, ReleasesFails, ReleasedTypes
  <2> QED BY <1>2, <2>1, <2>2 DEF SameClaim
<1>7. now' \in Time /\ now <= now'
  BY <1>1, NumberAssumption DEF LiveInv, ProcessInv, ProcessesOK, Time
<1>8. \A o \in Owner : updater'[o].pc = "clearing" => \A s \in updater'[o].claimed :
          s \in State /\ snapshot[s] # None /\ NoLater(s)
  BY <1>1, ClearedTypes
<1> QED BY <1>4, <1>5, <1>6, <1>7, <1>8, NobodyIsNone, ReviewsFrame

(* A launcher that dies leaves its task unconfirmed for ever. *)
LEMMA CrashReviews ==
    ASSUME LiveInv, ReviewInv, NEW t \in Task, LauncherCrashes(t)
    PROVE  ReviewInv'
<1>1. SetLauncher(t, "dead") /\ UNCHANGED vars /\ UNCHANGED <<now, task, rec>>
  BY DEF LauncherCrashes
<1>2. launcher'[t] = "dead" /\ \A u \in Task : u # t => launcher'[u] = launcher[u]
  BY <1>1 DEF SetLauncher, LiveInv, ProcessInv, ProcessesOK
<1>3. CalmBut(None)
  BY <1>1, QuietIsCalm DEF vars
<1>4. ASSUME NEW u \in Task, Confirmed(u)' PROVE Confirmed(u) /\ SameClaim(u)
  BY <1>1, <1>2, <1>4 DEF Confirmed, SameClaim
<1>5. ASSUME NEW u \in Task, Releases(u)' PROVE Releases(u) /\ SameClaim(u) /\ task[u].trigger \in State
  <2>1. Releases(u)
    BY <1>1, <1>2, <1>5 DEF Releases, Fails
  <2> QED BY <1>1, <2>1, ReleasesFails, ReleasedTypes DEF SameClaim
<1>6. now' \in Time /\ now <= now'
  BY <1>1, NumberAssumption DEF LiveInv, ProcessInv, ProcessesOK, Time
<1>7. ASSUME NEW o \in Owner, updater'[o].pc = "clearing" PROVE updater'[o] = updater[o]
  <2> DEFINE dead == [IdleUpdater EXCEPT !.pc = "dead"]
  <2>1. updater'[o] = dead \/ updater'[o] = updater[o]
    BY DEF LauncherCrashes
  <2>2. dead.pc = "dead"
    BY IdleUpdaterType DEF UpdaterRow
  <2> HIDE DEF dead
  <2> QED BY <1>7, <2>1, <2>2
<1>8. \A o \in Owner : updater'[o].pc = "clearing" => \A s \in updater'[o].claimed :
          s \in State /\ snapshot[s] # None /\ NoLater(s)
  BY <1>7, ClearedTypes
<1> QED BY <1>3, <1>4, <1>5, <1>6, <1>8, NobodyIsNone, ReviewsFrame

LEMMA ReviewInvStep == LiveInv /\ ClaimInv /\ ReviewInv /\ [LiveNext]_live => ReviewInv'
<1> SUFFICES ASSUME LiveInv, ClaimInv, ReviewInv, [LiveNext]_live PROVE ReviewInv'
  OBVIOUS
<1>1. ASSUME UNCHANGED <<task, launcher, rec, updater>>, CalmBut(None), now' \in Time, now <= now'
      PROVE  ReviewInv'
  <2>1. \A u \in Task : SameClaim(u) /\ (Confirmed(u)' <=> Confirmed(u))
    BY <1>1 DEF SameClaim, Confirmed
  <2> QED BY <1>1, <2>1, ElsewhereReviews
<1>2. now \in Time /\ now <= now
  BY NumberAssumption DEF LiveInv, ProcessInv, ProcessesOK, Time
<1>3. CASE UNCHANGED live
  <2>1. /\ UNCHANGED <<task, launcher, rec, updater>> /\ now' = now
        /\ UNCHANGED <<question, snapshot, trigger>>
    BY <1>3 DEF live, procs, vars
  <2> QED BY <1>1, <1>2, <2>1, QuietIsCalm
<1>4. CASE Tick
  <2>1. /\ UNCHANGED <<task, launcher, rec, updater>>
        /\ UNCHANGED <<question, snapshot, trigger>>
    BY <1>4 DEF Tick, procs, vars
  <2>2. now' \in Time /\ now <= now'
    BY <1>2, <1>4, NumberAssumption DEF Tick, Time
  <2> QED BY <1>1, <2>1, <2>2, QuietIsCalm
<1>5. ASSUME NEW q \in Question, CommitResolution(q)
      PROVE  ReviewInv'
  <2>1. UNCHANGED <<task, launcher, rec, updater>> /\ now' = now /\ CommitClose(q)
    BY <1>5 DEF CommitResolution, procs
  <2>2. CalmBut(None)
    BY <2>1, EndOfTransactionIsCalm DEF LiveInv
  <2> QED BY <1>1, <1>2, <2>1, <2>2
<1> QED
  BY <1>3, <1>4, <1>5, OtherReviews, PostReviews, CrashReviews, LauncherReviews, ClaimReviews,
     UpdaterReviews, PassReviews DEF LiveNext

-----------------------------------------------------------------------------
(* The names of owners *)
LEMMA OwnersLeave ==
    ASSUME LiveInv, [LiveNext]_live, \A o \in Owner : ~ ClaimTriggers(o), NEW q \in Question
    PROVE  question'[q].owner \in {question[q].owner, None}
<1>1. question \in [Question -> UnleasedRow \cup LeasedRow] /\ IInv
  BY DEF LiveInv, IInv, TypeInv, TypeOK
<1>2. CASE UNCHANGED question
  BY <1>2
<1>3. ASSUME NEW p \in Question, question' = [question EXCEPT ![p] = WithoutLease(@)]
      PROVE  question'[q].owner \in {question[q].owner, None}
  BY <1>1, <1>3, WithoutLeaseType DEF UnleasedRow
<1>4. ASSUME NEW p \in Question, CommitSnapshot(p) \/ CommitClose(p)
      PROVE  question'[q].owner \in {question[q].owner, None}
  BY <1>1, <1>4, EndOfTransactionIsCalm DEF CalmBut, SameLease, NoLease
<1>5. ASSUME NEW t \in Task, Fails(t, {"reactivating", "releasing"}), ReactivateStatement(t) \/ ReleaseStatement(t)
      PROVE  question'[q].owner \in {question[q].owner, None}
  <2>1. task[t].trigger \in State
    BY <1>5, ReleasedTypes
  <2>2. snapshot[task[t].trigger] # None => snapshot[task[t].trigger].question \in Question
    BY <2>1 DEF LiveInv, IInv, TypeInv, TypeOK, SnapshotRow
  <2> QED BY <1>2, <1>3, <1>5, <2>2 DEF ReactivateStatement, ReleaseStatement, Reactivate, ReleaseLease, vars
<1>6. ASSUME NEW t \in Task, LauncherStep(t)
      PROVE  question'[q].owner \in {question[q].owner, None}
  <2>1. CASE ReactivateAfterLaunch(t) \/ ReleaseAfterLaunch(t)
    <3>1. Fails(t, {"reactivating", "releasing"})
      BY <2>1 DEF ReactivateAfterLaunch, ReleaseAfterLaunch, Fails
    <3> QED BY <1>5, <2>1, <3>1 DEF ReactivateAfterLaunch, ReleaseAfterLaunch
  <2> QED
    BY <1>2, <1>6, <2>1 DEF LauncherStep, CreateBootstrapArtifact, LaunchSmithers, LaunchFails,
       MarkLaunched, FireTrigger, MarkFired, FailLaunch, vars
<1>7. ASSUME NEW o \in Owner, UpdaterStep(o) \/ UpdaterCrashes(o)
      PROVE  question'[q].owner \in {question[q].owner, None}
  <2>1. CASE ClearRetired(o)
    BY <1>3, <2>1, PlanTypes DEF ClearRetired, ClearLease
  <2> QED
    BY <1>2, <1>7, <2>1 DEF UpdaterStep, UpdaterCrashes, ReadContext, RetirePlan, RetireTriggers, UpdaterEnds,
       CreateUpdateTask, vars
<1>8. ASSUME NEW p \in Proc, PassStep(p) \/ ReconcilerCrashes(p)
      PROVE  question'[q].owner \in {question[q].owner, None}
  <2>1. CASE ReactivateAfterFailure(p) \/ ReleaseAfterFailure(p)
    <3>1. rec[p].cur \in Task /\ Fails(rec[p].cur, {"reactivating", "releasing"})
      BY <2>1, PassTypes DEF ReactivateAfterFailure, ReleaseAfterFailure, Fails
    <3> QED BY <1>5, <2>1, <3>1 DEF ReactivateAfterFailure, ReleaseAfterFailure
  <2>2. CASE CommitLedger(p)
    <3>1. CommitSnapshot(task[rec[p].cur].question) /\ task[rec[p].cur].question \in Question
      BY <2>2, PassTypes, TaskTypes DEF CommitLedger
    <3> QED BY <1>4, <3>1
  <2> QED
    BY <1>2, <1>8, <2>1, <2>2 DEF PassStep, StartPass, EndPass, RecoverCommitted, InspectRun, OutputFails,
       NoArtifact, AlreadyCommitted, BeginLedger, BeginSnapshot, QuestionNotOpen, StaleState, CompleteTask,
       CancelTask, FailTask, ReconcilerCrashes, Rollback, vars
<1>9. ASSUME NEW p \in Question, CommitResolution(p)
      PROVE  question'[q].owner \in {question[q].owner, None}
  BY <1>4, <1>9 DEF CommitResolution
<1> QED
  BY <1>2, <1>6, <1>7, <1>8, <1>9 DEF LiveNext, PostRun, LauncherCrashes, RunProgress, RunStarts,
     RunEnds, RunIsCancelled, RunIsLost, RunStep, RequestReport, ResolveTask, BeginClose, Tick, live, vars

LEMMA LauncherClaims ==
    ASSUME LiveInv, NEW t \in Task, LauncherStep(t)
    PROVE  \A u \in Task : SameClaim(u)
<1>1. task[t] \in TaskRow /\ TasksOK /\ now \in Time
  BY DEF LiveInv, ProcessInv, TasksOK, ProcessesOK
<1>2. CASE UNCHANGED task
  BY <1>2 DEF SameClaim
<1>3. CASE CreateBootstrapArtifact(t)
  <2> DEFINE row == [task[t] EXCEPT !.artifact = TRUE]
  <2>1. row.trigger = task[t].trigger /\ row.owner = task[t].owner
    BY <1>1, RowArtifact
  <2>2. task'[t] = row /\ \A u \in Task : u # t => task'[u] = task[u]
    BY <1>3, RowReplaced DEF CreateBootstrapArtifact
  <2> HIDE DEF row
  <2> QED BY <2>1, <2>2 DEF SameClaim
<1>4. CASE MarkLaunched(t)
  <2> DEFINE row == [task[t] EXCEPT !.status = "running", !.started = now]
  <2>1. row.trigger = task[t].trigger /\ row.owner = task[t].owner
    BY <1>1, RowRunning
  <2>2. task' = [task EXCEPT ![t] = row]
    BY <1>1, <1>4 DEF MarkLaunched, MarkTaskRunning, TasksOK
  <2> HIDE DEF row
  <2>3. task'[t] = row /\ \A u \in Task : u # t => task'[u] = task[u]
    BY <2>2, RowReplaced
  <2> QED BY <2>1, <2>3 DEF SameClaim
<1>5. CASE FailLaunch(t)
  BY <1>5, FailingUnconfirms DEF FailLaunch, SameClaim
<1> QED
  BY <1>2, <1>3, <1>4, <1>5 DEF LauncherStep, LaunchSmithers, LaunchFails, FireTrigger,
     ReactivateAfterLaunch, ReleaseAfterLaunch

(* A claim of a task is made when it is created. *)
LEMMA ClaimsStay ==
    ASSUME LiveInv, [LiveNext]_live, NEW t \in Task
    PROVE  \/ SameClaim(t)
           \/ task'[t].trigger = None /\ task'[t].owner = None
           \/ \E o \in Owner : CreateUpdateTask(o, t)
<1>1. CASE UNCHANGED task
  BY <1>1 DEF SameClaim
<1>2. ASSUME NEW u \in Task, NEW q \in Question, PostRun(u, q)
      PROVE  SameClaim(t) \/ (task'[t].trigger = None /\ task'[t].owner = None)
  <2> DEFINE new == QueuedTask(q, None, None, None, now)
  <2>1. new.trigger = None /\ new.owner = None
    BY DEF QueuedTask, NoTask
  <2> HIDE DEF new
  <2>2. task' = [task EXCEPT ![u] = new]
    BY <1>2 DEF PostRun, new
  <2>3. task'[u] = new /\ \A v \in Task : v # u => task'[v] = task[v]
    BY <2>2, RowReplaced
  <2> QED BY <2>1, <2>3 DEF SameClaim
<1>3. ASSUME NEW u \in Task, RequestReport(u)
      PROVE  SameClaim(t)
  <2> DEFINE row == [task[u] EXCEPT !.artifact = TRUE]
  <2>1. row.trigger = task[u].trigger /\ row.owner = task[u].owner
    BY RowArtifact DEF LiveInv, ProcessInv, TasksOK
  <2>2. task'[u] = row /\ \A v \in Task : v # u => task'[v] = task[v]
    BY <1>3, RowReplaced DEF RequestReport
  <2> HIDE DEF row
  <2> QED BY <2>1, <2>2 DEF SameClaim
<1>4. ASSUME NEW o \in Owner, NEW u \in Task, CreateUpdateTask(o, u)
      PROVE  SameClaim(t) \/ CreateUpdateTask(o, t)
  <2>1. u # t => task'[t] = task[t]
    BY <1>4, RowReplaced DEF CreateUpdateTask
  <2> QED BY <1>4, <2>1 DEF SameClaim
<1>5. ASSUME NEW o \in Owner, ClaimTriggers(o) \/ UpdaterStep(o) \/ UpdaterCrashes(o)
      PROVE  SameClaim(t) \/ CreateUpdateTask(o, t)
  <2>1. CASE \E u \in Task : CreateUpdateTask(o, u)
    BY <1>4, <2>1
  <2>2. CASE ~ \E u \in Task : CreateUpdateTask(o, u)
    <3>1. UNCHANGED task
      BY <1>5, <2>2 DEF ClaimTriggers, UpdaterStep, UpdaterCrashes, ReadContext, RetirePlan, ClearRetired,
         UpdaterEnds
    <3> QED BY <3>1 DEF SameClaim
  <2> QED BY <2>1, <2>2
<1> QED
  BY <1>1, <1>2, <1>3, <1>5, LauncherClaims, PassClaims DEF LiveNext, LauncherCrashes, RunProgress, RunStarts,
     RunEnds, RunIsCancelled, RunIsLost, RunStep, ResolveTask, CommitResolution, Tick, live, procs

LEMMA OwnerFrame ==
    ASSUME ClaimInv, NEW o \in Owner, updater'[o].asOf <= now',
           updater'[o].pc \in {"idle", "reading"} => updater'[o] = updater[o],
           updater'[o].plans \subseteq updater[o].plans,
           \A q \in Question : question'[q].owner = o => question[q].owner = o,
           \A t \in Task : task'[t].owner = o => SameClaim(t)
    PROVE  OwnerKnows(o)'
  BY DEF OwnerKnows, ClaimInv, OwnersKnow, SameClaim

LEMMA ContextKeepsOwner ==
    ASSUME LiveInv, ClaimInv, NEW o \in Owner, ReadContext(o)
    PROVE  OwnerKnows(o)'
<1>1. updater[o] \in UpdaterRow /\ OwnerKnows(o) /\ updater \in [Owner -> UpdaterRow]
  BY DEF LiveInv, ProcessInv, ProcessesOK, ClaimInv, OwnersKnow
<1>2. now' = now /\ UNCHANGED task /\ updater[o].pc = "reading" /\ 0 <= now
  BY NumberAssumption DEF ReadContext, LiveInv, ProcessInv, ProcessesOK, Time
<1>3. PICK s \in updater[o].claimed :
          LET plan == [trigger |-> s, prev |-> question[snapshot[s].question].latest]
              rest == updater[o].claimed \ {s}
          IN IF StillLeased(s, o)
             THEN Update(o, [updater[o] EXCEPT !.claimed = rest, !.plans = @ \cup {plan},
                                 !.pc = IF rest = {} THEN "launching" ELSE @])
             ELSE Update(o, [IdleUpdater EXCEPT !.pc = "done"])
  BY DEF ReadContext
<1>4. CASE ~ StillLeased(s, o)
  <2> DEFINE row == [IdleUpdater EXCEPT !.pc = "done"]
  <2>1. row.pc = "done" /\ row.plans = {} /\ row.asOf = 0
    BY DEF IdleUpdater
  <2> HIDE DEF row
  <2>2. updater'[o] = row
    BY <1>1, <1>3, <1>4 DEF Update, row
  <2> QED BY <1>1, <1>2, <2>1, <2>2 DEF OwnerKnows
<1>5. CASE StillLeased(s, o)
  <2> DEFINE plan == [trigger |-> s, prev |-> question[snapshot[s].question].latest]
             rest == updater[o].claimed \ {s}
             pc == IF rest = {} THEN "launching" ELSE updater[o].pc
             P == updater[o].plans \cup {plan}
             row == [updater[o] EXCEPT !.claimed = rest, !.plans = P, !.pc = pc]
  <2>1. row.pc = pc /\ row.plans = P /\ row.asOf = updater[o].asOf /\ row.claimed = rest
    BY <1>1 DEF UpdaterRow
  <2>2. updater'[o] = row
    BY <1>1, <1>3, <1>5 DEF Update
  <2>3. plan.trigger = s /\ pc # "idle"
    BY <1>2
  <2>4. \A x \in P : x.trigger \notin rest
    BY <1>1, <1>2, <2>3 DEF OwnerKnows
  <2>5. \A x, y \in P : x.trigger = y.trigger => x = y
    BY <1>1, <1>2, <2>3 DEF OwnerKnows
  <2>6. \A t \in Task : task'[t].owner # o
    BY <1>1, <1>2 DEF OwnerKnows
  <2>7. updater[o].asOf <= now
    BY <1>1 DEF OwnerKnows
  <2> HIDE DEF row, P, rest, pc
  <2> QED BY <1>2, <2>1, <2>2, <2>3, <2>4, <2>5, <2>6, <2>7 DEF OwnerKnows
<1> QED BY <1>4, <1>5

LEMMA ClaimKeepsOwner ==
    ASSUME LiveInv, ClaimInv, NEW o \in Owner, ClaimTriggers(o)
    PROVE  OwnersKnow'
<1>1. PICK pick \in Picks :
         /\ ClaimDue(o, now, pick)
         /\ Update(o, [IdleUpdater EXCEPT !.pc = "reading", !.asOf = now,
                           !.claimed = {pick[q] : q \in DOMAIN pick}])
  BY DEF ClaimTriggers
<1> DEFINE C == {pick[q] : q \in DOMAIN pick}
           row == [IdleUpdater EXCEPT !.pc = "reading", !.asOf = now, !.claimed = C]
<1>2. row.pc = "reading" /\ row.asOf = now /\ row.plans = {}
  BY DEF IdleUpdater
<1>3. updater' = [updater EXCEPT ![o] = row] /\ updater \in [Owner -> UpdaterRow]
  BY <1>1 DEF Update, LiveInv, ProcessInv, ProcessesOK
<1> HIDE DEF C, row
<1>4. updater'[o] = row /\ \A u \in Owner : u # o => updater'[u] = updater[u]
  BY <1>3
<1>5. now' = now /\ UNCHANGED task /\ updater[o].pc = "idle" /\ now <= now
  BY NumberAssumption DEF ClaimTriggers, LiveInv, ProcessInv, ProcessesOK, Time
<1>6. OwnerKnows(o)'
  <2>1. \A t \in Task : task'[t].owner # o
    BY <1>5 DEF ClaimInv, OwnersKnow, OwnerKnows
  <2> QED BY <1>2, <1>4, <1>5, <2>1 DEF OwnerKnows
<1>7. ASSUME NEW q \in Question
      PROVE  question'[q].owner \in {question[q].owner, o}
  <2>1. question[q] \in UnleasedRow \cup LeasedRow
    BY DEF LiveInv, IInv, TypeInv, TypeOK
  <2>2. question'[q] = IF q \in DOMAIN pick
            THEN [question[q] EXCEPT !.owner = o, !.expires = now + Lease, !.leased = pick[q]]
            ELSE question[q]
    BY <1>1 DEF ClaimDue
  <2> QED BY <2>1, <2>2 DEF UnleasedRow, LeasedRow
<1>8. ASSUME NEW u \in Owner, u # o
      PROVE  OwnerKnows(u)'
  <2>1. updater[u].asOf <= now
    BY DEF ClaimInv, OwnersKnow, OwnerKnows
  <2> QED BY <1>4, <1>5, <1>7, <1>8, <2>1, OwnerFrame DEF SameClaim
<1> QED BY <1>6, <1>8 DEF OwnersKnow

(* The rest of an execution only takes plans away. *)
LEMMA OwnerMoves ==
    ASSUME LiveInv, ClaimInv, NEW o \in Owner, UpdaterStep(o) \/ UpdaterCrashes(o), ~ ReadContext(o)
    PROVE  /\ updater'[o].pc \notin {"idle", "reading"}
           /\ updater'[o].plans \subseteq updater[o].plans
           /\ updater'[o].asOf \in {0, updater[o].asOf}
           /\ \A u \in Owner : u # o => updater'[u] = updater[u]
<1>1. updater[o] \in UpdaterRow /\ updater \in [Owner -> UpdaterRow]
  BY DEF LiveInv, ProcessInv, ProcessesOK
<1>2. ASSUME NEW row, Update(o, row)
      PROVE  updater'[o] = row /\ \A u \in Owner : u # o => updater'[u] = updater[u]
  BY <1>1, <1>2 DEF Update
<1>3. CASE UpdaterEnds(o) \/ UpdaterCrashes(o)
  <2>1. PICK pc \in {"done", "dead"} : Update(o, [IdleUpdater EXCEPT !.pc = pc])
    BY <1>3 DEF UpdaterEnds, UpdaterCrashes
  <2> DEFINE row == [IdleUpdater EXCEPT !.pc = pc]
  <2>2. row.pc = pc /\ row.plans = {} /\ row.asOf = 0
    BY DEF IdleUpdater
  <2> HIDE DEF row
  <2>3. Update(o, row)
    BY <2>1 DEF row
  <2> QED BY <1>2, <2>1, <2>2, <2>3
<1>4. ASSUME NEW P \in SUBSET updater[o].plans, NEW C, NEW t, NEW pc \in {"launching", "clearing"},
             Update(o, [updater[o] EXCEPT !.plans = P, !.claimed = C, !.task = t, !.pc = pc])
      PROVE  /\ updater'[o].pc \notin {"idle", "reading"}
             /\ updater'[o].plans \subseteq updater[o].plans
             /\ updater'[o].asOf \in {0, updater[o].asOf}
             /\ \A u \in Owner : u # o => updater'[u] = updater[u]
  <2> DEFINE row == [updater[o] EXCEPT !.plans = P, !.claimed = C, !.task = t, !.pc = pc]
  <2>1. row.pc = pc /\ row.plans = P /\ row.asOf = updater[o].asOf
    BY <1>1 DEF UpdaterRow
  <2> HIDE DEF row
  <2>2. Update(o, row)
    BY <1>4 DEF row
  <2> QED BY <1>2, <2>1, <2>2
<1>5. CASE RetirePlan(o)
  <2>1. PICK plan \in updater[o].plans :
            Update(o, [updater[o] EXCEPT !.pc = "clearing", !.claimed = {plan.trigger}])
    BY <1>5 DEF RetirePlan
  <2>2. [updater[o] EXCEPT !.pc = "clearing", !.claimed = {plan.trigger}]
        = [updater[o] EXCEPT !.plans = updater[o].plans, !.claimed = {plan.trigger},
                             !.task = updater[o].task, !.pc = "clearing"]
    BY <1>1 DEF UpdaterRow
  <2> DEFINE P == updater[o].plans
             C == {plan.trigger}
  <2>3. P \in SUBSET updater[o].plans
    OBVIOUS
  <2>4. Update(o, [updater[o] EXCEPT !.plans = P, !.claimed = C, !.task = updater[o].task, !.pc = "clearing"])
    BY <2>1, <2>2
  <2> HIDE DEF P, C
  <2> QED BY <1>4, <2>3, <2>4
<1>6. CASE ClearRetired(o)
  <2>1. PICK s \in updater[o].claimed :
            Update(o, [updater[o] EXCEPT !.plans = {plan \in @ : plan.trigger # s},
                                         !.claimed = {}, !.pc = "launching"])
    BY <1>6 DEF ClearRetired
  <2> DEFINE P == {plan \in updater[o].plans : plan.trigger # s}
  <2>2. [updater[o] EXCEPT !.plans = P, !.claimed = {}, !.pc = "launching"]
        = [updater[o] EXCEPT !.plans = P, !.claimed = {}, !.task = updater[o].task, !.pc = "launching"]
    BY <1>1 DEF UpdaterRow
  <2>3. P \in SUBSET updater[o].plans
    OBVIOUS
  <2>4. Update(o, [updater[o] EXCEPT !.plans = P, !.claimed = {}, !.pc = "launching"])
    BY <2>1
  <2> HIDE DEF P
  <2>5. Update(o, [updater[o] EXCEPT !.plans = P, !.claimed = {}, !.task = updater[o].task, !.pc = "launching"])
    BY <2>2, <2>4
  <2> QED BY <1>4, <2>3, <2>5
<1>7. ASSUME NEW t \in Task, CreateUpdateTask(o, t)
      PROVE  /\ updater'[o].pc \notin {"idle", "reading"}
             /\ updater'[o].plans \subseteq updater[o].plans
             /\ updater'[o].asOf \in {0, updater[o].asOf}
             /\ \A u \in Owner : u # o => updater'[u] = updater[u]
  <2>1. PICK plan \in updater[o].plans :
            Update(o, [updater[o] EXCEPT !.plans = @ \ {plan}, !.task = t])
    BY <1>7 DEF CreateUpdateTask
  <2>2. updater[o].pc = "launching"
    BY <1>7 DEF CreateUpdateTask, BetweenPlans
  <2> DEFINE P == updater[o].plans \ {plan}
  <2>3. [updater[o] EXCEPT !.plans = P, !.task = t]
        = [updater[o] EXCEPT !.plans = P, !.claimed = updater[o].claimed, !.task = t, !.pc = "launching"]
    BY <1>1, <2>2 DEF UpdaterRow
  <2>4. P \in SUBSET updater[o].plans
    OBVIOUS
  <2>5. Update(o, [updater[o] EXCEPT !.plans = P, !.task = t])
    BY <2>1
  <2> HIDE DEF P
  <2>6. Update(o, [updater[o] EXCEPT !.plans = P, !.claimed = updater[o].claimed, !.task = t, !.pc = "launching"])
    BY <2>3, <2>5
  <2> QED BY <1>4, <2>4, <2>6
<1> QED BY <1>3, <1>5, <1>6, <1>7 DEF UpdaterStep

LEMMA TimePasses ==
    ASSUME LiveInv, [LiveNext]_live
    PROVE  now' \in Time /\ now <= now'
<1>1. now \in Time
  BY DEF LiveInv, ProcessInv, ProcessesOK
<1>2. CASE Tick
  BY <1>1, <1>2, NumberAssumption DEF Tick, Time
<1>3. CASE now' = now
  BY <1>1, <1>3, NumberAssumption DEF Time
<1> QED
  BY <1>2, <1>3 DEF LiveNext, PostRun, LauncherStep, CreateBootstrapArtifact, LaunchSmithers, LaunchFails,
     MarkLaunched, FireTrigger, FailLaunch, ReactivateAfterLaunch, ReleaseAfterLaunch, LauncherCrashes,
     RunProgress, RunStarts, RunEnds, RunIsCancelled, RunIsLost, RunStep, RequestReport, ResolveTask,
     ClaimTriggers, UpdaterStep, UpdaterCrashes, ReadContext, RetirePlan, ClearRetired, UpdaterEnds,
     CreateUpdateTask, PassStep, StartPass, EndPass, RecoverCommitted, InspectRun, OutputFails,
     NoArtifact, AlreadyCommitted, BeginLedger, QuestionNotOpen, StaleState, CommitLedger, CompleteTask,
     CancelTask, FailTask, ReactivateAfterFailure, ReleaseAfterFailure, ReconcilerCrashes,
     CommitResolution, live

LEMMA UpdatersRest ==
    ASSUME [LiveNext]_live, \A o \in Owner : ~ ClaimTriggers(o) /\ ~ UpdaterStep(o) /\ ~ UpdaterCrashes(o),
           \A t \in Task : ~ LauncherCrashes(t)
    PROVE  UNCHANGED updater
BY DEF LiveNext, PostRun, LauncherStep, CreateBootstrapArtifact, LaunchSmithers, LaunchFails,
     MarkLaunched, FireTrigger, FailLaunch, ReactivateAfterLaunch, ReleaseAfterLaunch,
     RunProgress, RunStarts, RunEnds, RunIsCancelled, RunIsLost, RunStep, RequestReport, ResolveTask,
     PassStep, StartPass, EndPass, RecoverCommitted, InspectRun, OutputFails,
     NoArtifact, AlreadyCommitted, BeginLedger, QuestionNotOpen, StaleState, CommitLedger, CompleteTask,
     CancelTask, FailTask, ReactivateAfterFailure, ReleaseAfterFailure, ReconcilerCrashes,
     CommitResolution, Tick, live, procs

(* An execution that does not claim now. *)
LEMMA LaterOwnerFrame ==
    ASSUME LiveInv, ClaimInv, [LiveNext]_live, \A u \in Owner : ~ ClaimTriggers(u),
           NEW o \in Owner, \A t \in Task : ~ CreateUpdateTask(o, t),
           updater'[o].asOf \in {0, updater[o].asOf},
           updater'[o].pc \in {"idle", "reading"} => updater'[o] = updater[o],
           updater'[o].plans \subseteq updater[o].plans
    PROVE  OwnerKnows(o)'
<1>1. None # o /\ 0 <= now' /\ updater[o].asOf <= now'
  <2>1. now \in Nat /\ now' \in Nat /\ now <= now'
    BY TimePasses, NumberAssumption DEF Time, LiveInv, ProcessInv, ProcessesOK
  <2>2. updater[o].asOf <= now /\ updater[o].asOf \in Nat
    BY PlanTypes, NumberAssumption DEF ClaimInv, OwnersKnow, OwnerKnows, Time
  <2> QED BY <2>1, <2>2, NoneAssumption
<1>2. \A q \in Question : question'[q].owner = o => question[q].owner = o
  BY <1>1, OwnersLeave
<1>3. ASSUME NEW t \in Task, task'[t].owner = o PROVE SameClaim(t)
  <2>1. CASE \E u \in Owner : CreateUpdateTask(u, t)
    <3>1. PICK u \in Owner : CreateUpdateTask(u, t)
      BY <2>1
    <3>2. task'[t].owner = u
      <4>1. PICK plan \in updater[u].plans :
                task' = [task EXCEPT ![t] = QueuedTask(snapshot[plan.trigger].question, plan.prev,
                                                       plan.trigger, u, updater[u].asOf)]
        BY <3>1 DEF CreateUpdateTask
      <4> DEFINE new == QueuedTask(snapshot[plan.trigger].question, plan.prev, plan.trigger, u, updater[u].asOf)
      <4>2. new.owner = u
        BY DEF QueuedTask, NoTask
      <4> HIDE DEF new
      <4>3. task' = [task EXCEPT ![t] = new]
        BY <4>1 DEF new
      <4> QED BY <4>2, <4>3, RowReplaced
    <3> QED BY <1>3, <3>1, <3>2
  <2> QED BY <1>1, <1>3, <2>1, ClaimsStay
<1> QED BY <1>1, <1>2, <1>3, OwnerFrame

(* The task of a plan takes it away from the plans. *)
LEMMA CreatingKeepsOwner ==
    ASSUME LiveInv, ClaimInv, NEW o \in Owner, NEW t \in Task, CreateUpdateTask(o, t)
    PROVE  OwnerKnows(o)' /\ task'[t].owner = o /\ \A u \in Task : u # t => task'[u] = task[u] /\ ~ (task[u].owner = o /\ task[u].trigger = task'[t].trigger)
<1>1. updater[o] \in UpdaterRow /\ updater \in [Owner -> UpdaterRow] /\ OwnerKnows(o)
  BY DEF LiveInv, ProcessInv, ProcessesOK, ClaimInv, OwnersKnow
<1>2. PICK plan \in updater[o].plans :
          /\ task' = [task EXCEPT ![t] = QueuedTask(snapshot[plan.trigger].question, plan.prev,
                                                    plan.trigger, o, updater[o].asOf)]
          /\ Update(o, [updater[o] EXCEPT !.plans = @ \ {plan}, !.task = t])
  BY DEF CreateUpdateTask
<1> DEFINE new == QueuedTask(snapshot[plan.trigger].question, plan.prev, plan.trigger, o, updater[o].asOf)
           row == [updater[o] EXCEPT !.plans = @ \ {plan}, !.task = t]
<1>3. new.owner = o /\ new.trigger = plan.trigger
  BY DEF QueuedTask, NoTask
<1>4. row.pc = updater[o].pc /\ row.plans = updater[o].plans \ {plan} /\ row.asOf = updater[o].asOf
  BY <1>1 DEF UpdaterRow
<1> HIDE DEF new, row
<1>5. task'[t] = new /\ \A u \in Task : u # t => task'[u] = task[u]
  BY <1>2, RowReplaced DEF new
<1>6. updater'[o] = row
  BY <1>1, <1>2 DEF Update, row
<1>7. updater[o].pc = "launching" /\ now' = now
  BY DEF CreateUpdateTask, BetweenPlans
<1>8. \A u \in Task : u # t => ~ (task[u].owner = o /\ task[u].trigger = plan.trigger)
  BY <1>1 DEF OwnerKnows
<1>9. \A x, y \in updater[o].plans : x.trigger = y.trigger => x = y
  BY <1>1 DEF OwnerKnows
<1>10. ASSUME NEW u \in Task, task'[u].owner = o, NEW x \in updater'[o].plans
       PROVE  x.trigger # task'[u].trigger
  <2>1. x \in updater[o].plans /\ x # plan
    BY <1>4, <1>6, <1>10
  <2>2. CASE u = t
    BY <1>2, <1>3, <1>5, <1>9, <2>1, <2>2
  <2>3. CASE u # t
    BY <1>1, <1>5, <1>10, <2>1, <2>3 DEF OwnerKnows
  <2> QED BY <2>2, <2>3
<1>11. updater[o].asOf <= now
  BY <1>1 DEF OwnerKnows
<1>12. OwnerKnows(o)'
  <2>1. \A x, y \in updater'[o].plans : x.trigger = y.trigger => x = y
    BY <1>4, <1>6, <1>9
  <2>2. updater'[o].pc = "launching" /\ updater'[o].asOf <= now'
    BY <1>4, <1>6, <1>7, <1>11
  <2> QED BY <1>10, <2>1, <2>2 DEF OwnerKnows
<1> QED BY <1>3, <1>5, <1>8, <1>12

LEMMA OwnersKnowStep ==
    ASSUME LiveInv, ClaimInv, [LiveNext]_live
    PROVE  OwnersKnow'
<1>1. CASE \E o \in Owner : ClaimTriggers(o)
  BY <1>1, ClaimKeepsOwner
<1>2. ASSUME \A u \in Owner : ~ ClaimTriggers(u),
             NEW o \in Owner, \A t \in Task : ~ CreateUpdateTask(o, t), updater'[o] = updater[o]
      PROVE  OwnerKnows(o)'
  <2>1. /\ updater'[o].asOf \in {0, updater[o].asOf}
        /\ updater'[o].pc \in {"idle", "reading"} => updater'[o] = updater[o]
        /\ updater'[o].plans \subseteq updater[o].plans
    BY <1>2
  <2>2. (\A u \in Owner : ~ ClaimTriggers(u)) /\ \A t \in Task : ~ CreateUpdateTask(o, t)
    BY <1>2
  <2> HIDE <1>2
  <2> QED BY <2>1, <2>2, LaterOwnerFrame
<1>3. ASSUME NEW o \in Owner, UpdaterStep(o) \/ UpdaterCrashes(o), \A u \in Owner : ~ ClaimTriggers(u)
      PROVE  OwnersKnow'
  <2>1. \A u \in Owner : u # o => updater'[u] = updater[u]
    <3>1. CASE ReadContext(o)
      <4>1. PICK s \in updater[o].claimed : \E row : Update(o, row)
        BY <3>1 DEF ReadContext
      <4>2. updater \in [Owner -> UpdaterRow]
        BY DEF LiveInv, ProcessInv, ProcessesOK
      <4> QED BY <4>1, <4>2 DEF Update
    <3> QED BY <1>3, <3>1, OwnerMoves
  <2>2. ASSUME NEW u \in Owner, u # o PROVE \A t \in Task : ~ CreateUpdateTask(u, t)
    <3>1. ASSUME NEW t \in Task, CreateUpdateTask(u, t) PROVE FALSE
      <4>1. updater[u].plans # updater'[u].plans
        <5>1. PICK plan \in updater[u].plans : Update(u, [updater[u] EXCEPT !.plans = @ \ {plan}, !.task = t])
          BY <3>1 DEF CreateUpdateTask
        <5> DEFINE row == [updater[u] EXCEPT !.plans = @ \ {plan}, !.task = t]
        <5>2. updater[u] \in UpdaterRow /\ updater \in [Owner -> UpdaterRow]
          BY DEF LiveInv, ProcessInv, ProcessesOK
        <5>3. row.plans = updater[u].plans \ {plan}
          BY <5>2 DEF UpdaterRow
        <5> HIDE DEF row
        <5>4. updater'[u] = row
          BY <5>1, <5>2 DEF Update, row
        <5> QED BY <5>1, <5>3, <5>4
      <4> QED BY <2>1, <2>2, <4>1
    <3> QED BY <3>1
  <2>3. \A u \in Owner : u # o => OwnerKnows(u)'
    BY <1>2, <1>3, <2>1, <2>2
  <2>4. OwnerKnows(o)'
    <3>1. CASE ReadContext(o)
      BY <3>1, ContextKeepsOwner
    <3>2. CASE \E t \in Task : CreateUpdateTask(o, t)
      BY <3>2, CreatingKeepsOwner
    <3>3. CASE ~ ReadContext(o) /\ ~ \E t \in Task : CreateUpdateTask(o, t)
      BY <1>3, <3>3, OwnerMoves, LaterOwnerFrame
    <3> QED BY <3>1, <3>2, <3>3
  <2> QED BY <2>3, <2>4 DEF OwnersKnow
<1>4. ASSUME NEW t \in Task, LauncherCrashes(t), \A u \in Owner : ~ ClaimTriggers(u) /\ ~ UpdaterStep(u)
      PROVE  OwnersKnow'
  <2> DEFINE dead == [IdleUpdater EXCEPT !.pc = "dead"]
  <2>1. dead.pc = "dead" /\ dead.plans = {} /\ dead.asOf = 0
    BY DEF IdleUpdater
  <2>2. \A o \in Owner : updater'[o] \in {dead, updater[o]}
    BY <1>4 DEF LauncherCrashes
  <2> HIDE DEF dead
  <2>3. ASSUME NEW o \in Owner PROVE OwnerKnows(o)'
    <3>1. \A u \in Task : ~ CreateUpdateTask(o, u)
      BY <1>4 DEF UpdaterStep
    <3> QED BY <1>4, <2>1, <2>2, <3>1, LaterOwnerFrame
  <2> QED BY <2>3 DEF OwnersKnow
<1>5. CASE /\ \A u \in Owner : ~ ClaimTriggers(u) /\ ~ UpdaterStep(u) /\ ~ UpdaterCrashes(u)
           /\ \A t \in Task : ~ LauncherCrashes(t)
  <2>1. UNCHANGED updater
    BY <1>5, UpdatersRest
  <2>2. ASSUME NEW o \in Owner PROVE OwnerKnows(o)'
    <3>1. \A u \in Task : ~ CreateUpdateTask(o, u)
      BY <1>5 DEF UpdaterStep
    <3> QED BY <1>2, <1>5, <2>1, <3>1
  <2> QED BY <2>2 DEF OwnersKnow
<1> QED BY <1>1, <1>3, <1>4, <1>5

(* Whoever fails a task has set its status before it touches the review. *)
LEMMA LauncherFails ==
    ASSUME LiveInv, NEW u \in Task, LauncherStep(u), NEW t \in Task,
           launcher'[t] \in {"reactivating", "releasing"}
    PROVE  launcher[t] \in {"reactivating", "releasing"} \/ task'[t].status = "failed"
<1>1. launcher \in [Task -> LaunchSteps]
  BY DEF LiveInv, ProcessInv, ProcessesOK
<1>2. ASSUME NEW step, SetLauncher(u, step)
      PROVE  launcher'[u] = step /\ (t # u => launcher'[t] = launcher[t])
  BY <1>1, <1>2 DEF SetLauncher
<1>3. CASE t # u
  BY <1>2, <1>3 DEF LauncherStep, CreateBootstrapArtifact, LaunchSmithers, LaunchFails, MarkLaunched,
     FireTrigger, FailLaunch, ReactivateAfterLaunch, ReleaseAfterLaunch
<1>4. CASE FailLaunch(u) /\ t = u
  <2>1. MarkTaskFailed(u) /\ launcher'[u] = AfterFailing(u, "done")
    BY <1>2, <1>4 DEF FailLaunch
  <2>2. CanFail(u)
    BY <1>4, <2>1 DEF AfterFailing
  <2> QED BY <1>4, <2>1, <2>2, FailingUnconfirms
<1>5. CASE t = u /\ (ReactivateAfterLaunch(u) \/ ReleaseAfterLaunch(u))
  BY <1>5 DEF ReactivateAfterLaunch, ReleaseAfterLaunch
<1>6. CASE /\ t = u
           /\ \/ CreateBootstrapArtifact(u) \/ LaunchSmithers(u) \/ LaunchFails(u) \/ MarkLaunched(u)
              \/ FireTrigger(u)
  <2>1. PICK step \in {"ready", "launched", "failing", "done", "marked"} : SetLauncher(u, step)
    BY <1>6 DEF CreateBootstrapArtifact, LaunchSmithers, LaunchFails, MarkLaunched, FireTrigger
  <2> QED BY <1>2, <1>6, <2>1
<1> QED BY <1>3, <1>4, <1>5, <1>6 DEF LauncherStep

LEMMA PassFails ==
    ASSUME LiveInv, NEW r \in Proc, PassStep(r) \/ ReconcilerCrashes(r), NEW p \in Proc,
           rec'[p].pc \in {"reactivating", "releasing"}, NEW t \in Task, rec'[p].cur = t
    PROVE  \/ rec[p].pc \in {"reactivating", "releasing"} /\ rec[p].cur = t
           \/ task'[t].status = "failed"
<1>1. rec \in [Proc -> RecRow] /\ rec[p] \in RecRow
  BY DEF LiveInv, ProcessInv, ProcessesOK
<1>2. ASSUME NEW row, Pass(r, row)
      PROVE  rec'[r] = row /\ (p # r => rec'[p] = rec[p])
  BY <1>1, <1>2 DEF Pass
<1>3. CASE p # r
  BY <1>2, <1>3 DEF PassStep, ReconcilerCrashes, StartPass, EndPass, RecoverCommitted, InspectRun, OutputFails,
     NoArtifact, AlreadyCommitted, BeginLedger, QuestionNotOpen, StaleState, CommitLedger, CompleteTask,
     CancelTask, FailTask, ReactivateAfterFailure, ReleaseAfterFailure, GoTo, NextTask
<1>4. CASE p = r /\ FailTask(r)
  <2> DEFINE end == AfterFailing(rec[r].cur, "pass")
             row == [rec[r] EXCEPT !.pc = end, !.cur = IF end = "pass" THEN None ELSE @]
  <2>1. row.pc = end /\ (end # "pass" => row.cur = rec[r].cur)
    BY <1>1, <1>4 DEF RecRow
  <2> HIDE DEF row, end
  <2>2. Pass(r, row) /\ MarkTaskFailed(rec[r].cur)
    BY <1>4 DEF FailTask, row, end
  <2>3. end \in {"reactivating", "releasing"} /\ rec[r].cur = t
    BY <1>2, <1>4, <2>1, <2>2
  <2>4. CanFail(t)
    BY <2>3 DEF AfterFailing, end
  <2> QED BY <2>2, <2>3, <2>4, FailingUnconfirms
<1>5. CASE p = r /\ ReactivateAfterFailure(r)
  <2> DEFINE end == AfterReactivating(rec[r].cur, "pass")
             row == [rec[r] EXCEPT !.pc = end, !.cur = IF end = "pass" THEN None ELSE @]
  <2>1. row.pc = end /\ (end # "pass" => row.cur = rec[r].cur)
    BY <1>1, <1>5 DEF RecRow
  <2> HIDE DEF row, end
  <2>2. Pass(r, row) /\ rec[r].pc = "reactivating"
    BY <1>5 DEF ReactivateAfterFailure, row, end
  <2> QED BY <1>2, <1>5, <2>1, <2>2
<1>6. CASE /\ p = r
           /\ \/ StartPass(r) \/ EndPass(r) \/ RecoverCommitted(r) \/ OutputFails(r) \/ StaleState(r)
              \/ CompleteTask(r) \/ CancelTask(r) \/ ReleaseAfterFailure(r) \/ ReconcilerCrashes(r)
  <2>1. PICK row : Pass(r, row) /\ row.pc \in {"idle", "pass"}
    <3>1. ASSUME NEW S PROVE [IdlePass EXCEPT !.pc = "pass", !.todo = S].pc = "pass"
      BY DEF IdlePass
    <3>2. IdlePass.pc = "idle"
      BY DEF IdlePass
    <3>3. [rec[r] EXCEPT !.pc = "pass", !.cur = None].pc = "pass"
      BY <1>1, <1>6 DEF RecRow
    <3>4. rec[r].pc = "pass" => \A S : [rec[r] EXCEPT !.todo = S].pc = "pass"
      BY <1>1, <1>6 DEF RecRow
    <3>5. CASE StartPass(r)
      BY <3>1, <3>5 DEF StartPass
    <3>6. CASE EndPass(r) \/ OutputFails(r) \/ StaleState(r) \/ ReconcilerCrashes(r)
      BY <3>2, <3>6 DEF EndPass, OutputFails, StaleState, ReconcilerCrashes
    <3>7. CASE CompleteTask(r) \/ CancelTask(r) \/ ReleaseAfterFailure(r)
      BY <3>3, <3>7 DEF CompleteTask, CancelTask, ReleaseAfterFailure, NextTask
    <3>8. CASE RecoverCommitted(r)
      BY <3>4, <3>8 DEF RecoverCommitted
    <3> QED BY <1>6, <3>5, <3>6, <3>7, <3>8
  <2> QED BY <1>2, <1>6, <2>1
<1>7. CASE p = r /\ InspectRun(r)
  <2>1. PICK step, T, c : Pass(r, [pc |-> step, todo |-> T, cur |-> c])
                          /\ step \in {"finished", "cancelling", "pass", "failing"}
    <3>1. \A u : Verdict(u) \in {"finished", "cancelling", "pass", "failing"}
      BY DEF Verdict
    <3> QED BY <1>7, <3>1 DEF InspectRun
  <2> QED BY <1>2, <1>7, <2>1
<1>8. CASE /\ p = r
           /\ \/ NoArtifact(r) \/ AlreadyCommitted(r) \/ BeginLedger(r) \/ QuestionNotOpen(r) \/ CommitLedger(r)
  <2>1. PICK step \in {"failing", "committed", "writing"} : GoTo(r, step)
    BY <1>8 DEF NoArtifact, AlreadyCommitted, BeginLedger, QuestionNotOpen, CommitLedger
  <2> DEFINE row == [rec[r] EXCEPT !.pc = step]
  <2>2. row.pc = step
    BY <1>1, <1>8 DEF RecRow
  <2> HIDE DEF row
  <2>3. Pass(r, row)
    BY <2>1 DEF GoTo, row
  <2> QED BY <1>2, <1>8, <2>1, <2>2, <2>3
<1> QED BY <1>3, <1>4, <1>5, <1>6, <1>7, <1>8 DEF PassStep

LEMMA FailedBeforeStep ==
    ASSUME LiveInv, ClaimInv, [LiveNext]_live
    PROVE  FailedBefore'
<1> SUFFICES ASSUME NEW t \in Task, Fails(t, {"reactivating", "releasing"})'
             PROVE  task'[t].status = "failed"
  BY DEF FailedBefore
<1>1. Fails(t, {"reactivating", "releasing"}) => task'[t].status = "failed"
  <2>1. Fails(t, {"reactivating", "releasing"}) => task[t].status = "failed"
    BY DEF ClaimInv, FailedBefore
  <2> QED BY <2>1, TerminalStep DEF Terminal
<1>2. launcher \in [Task -> LaunchSteps]
  BY DEF LiveInv, ProcessInv, ProcessesOK
<1>3. CASE launcher'[t] \in {"reactivating", "releasing"}
  <2>1. CASE \E u \in Task : LauncherStep(u)
    BY <1>1, <1>3, <2>1, LauncherFails DEF Fails
  <2>2. CASE \A u \in Task : ~ LauncherStep(u)
    <3>1. launcher'[t] = launcher[t]
      BY <1>2, <1>3, <2>2 DEF LiveNext, PostRun, LauncherCrashes, SetLauncher, RunProgress, RunStarts,
         RunEnds, RunIsCancelled, RunIsLost, RunStep, RequestReport, ResolveTask, ClaimTriggers,
         UpdaterStep, UpdaterCrashes, ReadContext, RetirePlan, ClearRetired, UpdaterEnds,
         CreateUpdateTask, PassStep, StartPass, EndPass, RecoverCommitted, InspectRun, OutputFails,
         NoArtifact, AlreadyCommitted, BeginLedger, QuestionNotOpen, StaleState, CommitLedger,
         CompleteTask, CancelTask, FailTask, ReactivateAfterFailure, ReleaseAfterFailure,
         ReconcilerCrashes, CommitResolution, Tick, live, procs
    <3> QED BY <1>1, <1>3, <3>1 DEF Fails
  <2> QED BY <2>1, <2>2
<1>4. ASSUME NEW p \in Proc, rec'[p].pc \in {"reactivating", "releasing"}, rec'[p].cur = t
      PROVE  task'[t].status = "failed"
  <2>1. CASE \E r \in Proc : PassStep(r) \/ ReconcilerCrashes(r)
    BY <1>1, <1>4, <2>1, PassFails DEF Fails
  <2>2. CASE \A r \in Proc : ~ PassStep(r) /\ ~ ReconcilerCrashes(r)
    <3>1. UNCHANGED rec
      BY <2>2 DEF LiveNext, PostRun, LauncherStep, CreateBootstrapArtifact, LaunchSmithers, LaunchFails,
         MarkLaunched, FireTrigger, FailLaunch, ReactivateAfterLaunch, ReleaseAfterLaunch, LauncherCrashes,
         RunProgress, RunStarts, RunEnds, RunIsCancelled, RunIsLost, RunStep, RequestReport, ResolveTask,
         ClaimTriggers, UpdaterStep, UpdaterCrashes, ReadContext, RetirePlan, ClearRetired, UpdaterEnds,
         CreateUpdateTask, CommitResolution, Tick, live, procs
    <3> QED BY <1>1, <1>4, <3>1 DEF Fails
  <2> QED BY <2>1, <2>2
<1> QED BY <1>3, <1>4 DEF Fails

LEMMA OneTaskPerClaimStep ==
    ASSUME LiveInv, ClaimInv, [LiveNext]_live
    PROVE  OneTaskPerClaim'
<1>1. OneTaskPerClaim
  BY DEF ClaimInv
<1>2. ASSUME NEW o \in Owner, NEW t \in Task, CreateUpdateTask(o, t)
      PROVE  OneTaskPerClaim'
  BY <1>1, <1>2, CreatingKeepsOwner DEF OneTaskPerClaim
<1>3. CASE \A o \in Owner, t \in Task : ~ CreateUpdateTask(o, t)
  <2>1. \A t \in Task : SameClaim(t) \/ task'[t].trigger = None
    BY <1>3, ClaimsStay
  <2> QED BY <1>1, <2>1 DEF OneTaskPerClaim, SameClaim
<1> QED BY <1>2, <1>3

LEMMA ReviewInit == LiveInit => ClaimInv /\ ReviewInv
<1> SUFFICES ASSUME LiveInit PROVE ClaimInv /\ ReviewInv
  OBVIOUS
<1>1. \A t \in Task : task[t] = NoTask /\ launcher[t] = "none"
  BY DEF LiveInit
<1>2. \A o \in Owner : updater[o] = IdleUpdater
  BY DEF LiveInit
<1>3. \A p \in Proc : rec[p] = IdlePass
  BY DEF LiveInit
<1>4. NoTask.status = "none" /\ NoTask.trigger = None /\ NoTask.owner = None
  BY DEF NoTask
<1>5. IdlePass.pc = "idle" /\ IdleUpdater.pc = "idle"
      /\ IdleUpdater.plans = {} /\ IdleUpdater.claimed = {} /\ IdleUpdater.asOf = 0
  BY DEF IdlePass, IdleUpdater
<1>6. \A s \in State : trigger[s].status # "snoozed"
  BY DEF LiveInit, Init
<1>7. \A q \in Question : question[q].owner = None
  BY DEF LiveInit, Init, NewQuestion
<1>8. \A o \in Owner : o # None
  BY NoneAssumption
<1>9. now = 0 /\ 0 <= now
  BY DEF LiveInit
<1>10. OwnersKnow
  BY <1>1, <1>2, <1>4, <1>5, <1>7, <1>8, <1>9 DEF OwnersKnow, OwnerKnows
<1>11. OneTaskPerClaim
  BY <1>1, <1>4 DEF OneTaskPerClaim
<1>12. \A t \in Task, S \in SUBSET {"reactivating", "releasing"} : ~ Fails(t, S)
  BY <1>1, <1>3, <1>5 DEF Fails
<1>13. \A t \in Task : ~ Confirmed(t)
  BY <1>1, <1>4 DEF Confirmed
<1>14. ClearsPastReviews
  BY <1>2, <1>5 DEF ClearsPastReviews
<1> QED BY <1>6, <1>10, <1>11, <1>12, <1>13, <1>14 DEF ClaimInv, ReviewInv, FailedBefore, SnoozedWasDue,
        SnoozedIsLeased, ReleasesNoSnoozed, ConfirmedHasFired, OneUpdatePerReview

LEMMA ReviewInvariance == LiveSpec => [](ClaimInv /\ ReviewInv)
<1>1. LiveInv /\ (ClaimInv /\ ReviewInv) /\ [LiveNext]_live => (ClaimInv /\ ReviewInv)'
  BY OwnersKnowStep, FailedBeforeStep, OneTaskPerClaimStep, ReviewInvStep DEF ClaimInv
<1> QED BY <1>1, ReviewInit, LiveInvariance, PTL DEF LiveSpec

(* Of the updates launched for a review at most one is confirmed: executions *)
(* of the update runner take a review over only before it is fired, and it   *)
(* is fired only with the lease of its own claim                             *)
(* (forecast-update-runner.ts, claimDueForecastUpdateTriggers and            *)
(* markForecastTriggerFired).                                                *)
THEOREM OneUpdateCorrect == LiveSpec => []OneUpdatePerReview
BY ReviewInvariance, PTL DEF ReviewInv

(* A snoozed review is the one its question's lease is for, as long as the   *)
(* question is due for a later review at all: no failing task, retirement    *)
(* or commit leaves a review that nobody can claim again.                    *)
THEOREM SnoozedCorrect == LiveSpec => []SnoozedIsLeased
BY ReviewInvariance, PTL DEF ReviewInv

===============================================================================
