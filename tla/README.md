# Verification of open-superforecaster

TLA+ specifications of the stateful part of open-superforecaster, the TLC runs
that check small instances of them, and TLAPS proofs of what holds for every
instance. Paths below are relative to the repository.

## 1. The system

A user asks a forecasting question or has a table filled in. The web
application creates a *task*, launches a detached workflow run in Smithers (an
external orchestrator) and answers at once. Nobody waits for the run: every poll
of the API and every tick of an event stream starts or joins a *reconciliation
pass*, which looks at all running tasks, asks Smithers for their runs and
writes down what finished ones produced. A binary forecast produces a
`ForecastState`, an immutable snapshot of one *canonical question*; the
snapshots of a question form a chain, and each may schedule a *review*. The
update runner, a cron job, claims due reviews under a *lease* and launches
tasks whose snapshots continue the chain. When the question is decided,
somebody resolves a completed task, which closes the question and scores its
forecasts. Benchmark runs are batches of such tasks on questions of the past;
what they teach becomes *proposals* to change the workflow, each validated by
a further run.

### Components

| component | state it keeps | operations | what makes it correct | module |
|---|---|---|---|---|
| Canonical question store (`forecast-state-service.ts`) | `forecast_questions` (status, latest snapshot, lease), `forecast_snapshots`, `forecast_update_triggers`, memory entries | persist a state in a transaction; claim due triggers; fire, retire, reactivate a trigger; read the update context | the chain is linear and its times increase; one lease at a time; closed questions stay quiet; retired triggers stay retired | ForecastState, Resolution (memory) |
| Update runner (`scripts/forecast-update-runner.ts`) | its claims and plans, in memory | claim, read contexts, launch, fire or fail | no two confirmed updates for a review; whatever fails can be claimed again | LiveForecast |
| Run launch API (`api/runs/route.ts`) | none | create task, seed rows, create artifact, launch, mark running, or fail | no task ends before its run is known to have | LiveForecast, TableRuns |
| Task life and reconciliation (`run-service.ts`) | `tasks`, `artifacts`, `artifact_rows`, forecast attempts and aggregates, the single flight of the process | `markTask*`, `reconcileRunningTasks`, `persistBinaryForecastLedger`, `backfillMissingTableTaskRows` | a ledger is written once and as a whole; terminal is final; tasks whose run is over end | LiveForecast, TableRuns |
| Table rows and retry (`run-service.ts`, `rows/[rowId]/retry`) | `task_rows` | seed, retry, summarise | rows are listed once; a completed table is whole; counts are those of retries | TableRuns |
| Resolution (`resolution-service.ts`) | `forecast_resolutions`, `forecast_scores` | resolve, annul or force a completed task, close its question | scored once; closed exactly when resolved; no later snapshot | Resolution |
| Trajectory scoring (`forecast-trajectory-score-service.ts`) | `forecast_trajectory_scores` | score the chain of a resolved question | every isolated snapshot is scored | Resolution |
| Review cadence (`forecast-update-policy.ts`) | none | `planNextForecastReview` | no review at or after the boundary | ReviewCadence |
| Benchmarks (`benchmark-service.ts`, `benchmark-promotion-policy.ts`) | benchmark runs, case results, scores, analyses, proposals | launch a suite, reconcile, finalise, analyse, review, validate | finalised runs are whole; ledgers scored once; nothing counts as validated without evidence | BenchmarkRuns, WorkflowProposals |
| Live events and run page (`events/route.ts`, `use-run-workspace.ts`) | `trace_events`, the cursor of a stream, the state of the page | append, snapshot, stream, resume, load, poll | events once and in order; the final data is shown; streams end | RunWorkspace |
| Binary forecast workflow (`packages/workflows/src`) | the outputs of its Smithers run: plan, dossier, attempts, candidates, reviews | plan, research, judge, aggregate, review, build the `ForecastState` | the last round decides; what is called isolated is; usable evidence is kept until it is invalidated | ForecastWorkflow |
| Smithers launcher (`smithers-launcher.ts`) | none (Smithers is external) | launch, inspect, output | | as its callers see it |
| Maintenance, browser log forwarder, other workflows, evaluation functions, metrics, exports, question studio, artifact store, worker, scripts | see section 6 | | | |

### How they interact

- The launcher (API or runner) and the passes share the `tasks` rows. They talk
  through `status`, which is changed by compare-and-set everywhere except in
  `markTaskRunning`.
- The passes, the runner and the resolution share the question row. The
  transactions of a snapshot and of a closing lock it; the claim skips locked
  rows; all other statements are single and wait for the lock.
- `markTaskFailed` calls back into the question store: the review of a failed
  update becomes active and its lease is released.
- All passes of one process share one single flight; other processes have their
  own, and the update runner has none. Passes over benchmarks have no single
  flight at all.
- Table tasks and benchmark tasks use no transactions but those of a ledger: their
  rows are read, acted upon and written by statements of their own.
- A workflow run gets the last `ForecastState` of its question as an input and
  returns a new one, which the ledger commits after an audit of the observed
  provider activity. Within a run all that models report goes through code that
  selects, quarantines and flags it.
- The event stream of a run starts passes, reads what they have written and ends
  with the run; the page combines it with loads and polling.

### What is hard

Interleavings of several processes at the granularity of awaited calls; crashes
between any two of them (the database survives, plans and passes do not);
Smithers runs that fail, are cancelled, never appear, or finish late; leases that
expire while their owner is still launching; statements that check a row
they do not lock; exceptions that leave a loop; connections that break between two
messages; language models that report anything their schema allows, and whose
reports outlive the round they were made in. `PROJECT.json` lists each of these at its line under `hazards`, with
the property that would catch it.

## 2. The modules

```
SnapshotChain            what readers of a question are promised
     ^ implements  ^ implements, extends
     |             ForecastWorkflow      one run of the workflow, what runs hand on
     |                                     proofs: ForecastWorkflowProofs
ForecastState            the rows, transactions and statements of the store
     ^ implements   ^ extends            proofs: ForecastStateProofs
     |              Resolution           resolutions, scores, memory
     |                                     proofs: ResolutionProofs
LiveForecast             launchers, update runner, passes, runs, people, clock
     | extends                           proofs: LiveForecastProofs
ReviewCadence            the review policy, with theorems about it

TableRuns                table tasks, their rows, retries and backfills
                                           proofs: TableRunsProofs
BenchmarkRuns <- WorkflowProposals       runs and cases; proposals and reviews
                                           proofs: WorkflowProposalsProofs
RunWorkspace             the event stream and the page that follows a run
                                           proofs: RunWorkspaceProofs

MCLiveForecast, MCResolution, MCTableRuns, MCWorkflowProposals,
MCForecastWorkflow         instances for TLC
```

**SnapshotChain** is the abstract specification: per question a head, the
snapshots linked behind it with strictly later times, and a closed flag. Two
actions, `Publish` and `Close`.

**ForecastState** has one action per SQL statement that writes the question,
snapshot or trigger rows, and two per transaction (take the lock and read;
write and commit), with a rollback in between.

| variable | code |
|---|---|
| `question[q]` | row of `forecast_questions`: status, `latest_snapshot_id`, the three lease columns |
| `snapshot[s]` | row of `forecast_snapshots` with state id `s`, or `None` |
| `trigger[s]` | the scheduled review created with snapshot `s`: its status and `next_check_at` |
| `tx[q]` | the transaction that holds the lock of row `q`, and what it has read and decided |

| action | code |
|---|---|
| `BeginSnapshot`, `CommitSnapshot` | `persistForecastStateInTransaction` |
| `BeginClose`, `CommitClose` | `lockCommittedCanonicalForecastQuestions`, `closeCanonicalForecastQuestions` |
| `Rollback` | either transaction fails |
| `ClaimDue` | `claimDueForecastTriggers`: one statement over a batch of questions |
| `MarkFired` | `markForecastTriggerFired` |
| `RetireTriggers`, `ClearLease` | the two statements of `retireForecastTriggersForQuestion` |
| `Reactivate`, `ReleaseLease` | the two of `reactivateForecastTriggerAfterFailedUpdate` |

It is open: anybody may issue any statement at any time, with any owner and any
instant, so what holds of it does not depend on who calls. Its theorems are about
that open store; TLC meets it inside Resolution and LiveForecast.

**LiveForecast** extends it with the callers. `task` is the row in `tasks`
(status, question, predecessor, trigger and lease owner from `config_json`,
whether it has an output artifact, whether the commit marker is set, how many
times its attempt rows were inserted); `run` the Smithers run; `launcher`,
`updater` and `rec` are the program counters and local variables of the
launching processes, of the executions of the update runner and of the passes.
One action is one awaited call. A pass keeps the set of rows its first `select`
returned, with the commit marker as it was then; the rows are handled in any
order because the query has none. A ledger transaction locks the task row, then
the question row.

**ReviewCadence** is `planNextForecastReview` in whole units of time: the
tiers (`Regular`) and the clamping at the boundary (`Interval`). LiveForecast
plans its reviews with `Interval` at one tier, `Cadence`.

**Resolution** extends ForecastState with `resolveForecastTask`.

| variable | code |
|---|---|
| `isolated` | the snapshots whose information isolation makes them scorable |
| `memory[s]` | status of the question-local `forecast_memory_entries` of snapshot `s` |
| `resolution[r]`, `scores[r]`, `points[r]` | row of `forecast_resolutions`, its sets of `forecast_scores`, the snapshots with `forecast_trajectory_scores` |
| `resolver[w]` | the transaction of request `w`: task locked, or question locked and resolution found |

`LockTask`, `ChooseResolution` and `CommitResolution` are the stages of the
transaction, `BeginClose` and `CommitClose` of ForecastState being part of the
last two; `WriteSnapshot` and `FinishSnapshot` are commits of a snapshot with
the memory they write.

**TableRuns** has `task`, `row` (`task_rows`), `output` (summary, result and
source rows of the artifact), `run` with its `result`, `request[t]` for the
request that launches `t` (`PostRun`, or `RetryRow` from the retry route) and
`pass[p]` for the passes and backfills of process `p`. None of it is a
transaction, so each statement of `reconcileRunningTasksOnce` for a table
(`WriteSummary`, `WriteResult`, `WriteSources`, `MarkTaskRowsCompleted`,
`CompleteTask`) and of the launch (`SeedRow`, `Launch`,
`MarkTaskRunning`, `MarkTaskRowsRunning`, `CountRetry`) is an action.

**BenchmarkRuns** has `run`, `task`, `result` (rows of
`benchmark_case_results`) and `scores`; `starter[s]` launches the cases of a
run one after the other, `pass[p]` goes through running results
(`ReadCaseTask`, `WriteCaseResult`), scores (`BackfillScores`) and active runs
(`ReadRunResults`). **WorkflowProposals** adds the finalisation of a run
(`WriteAnalysis`, `FinishRun`, `CompareRuns`, `RecordEvidence`), the launch of
a validation and the review of a proposal (`ReadForReview`, `ReadComparison`,
`DecideReview`), each of which reads the proposal and writes it back without
looking again.

**RunWorkspace** has `status` and `log` of a run, the server's `stream` and its
state ticks `tick`, the messages on the `wire`, the `tab` with its EventSource
and timer, and the `loads` under way. `Initialize`, `TickReads`, `TickSends`
are the route; `Connect`, `Receive`, `EndOfStream`, `TimerFires`, `Poll`,
`LoadArrives` are the hook; `Dropped`, `Refused`, `StreamFails`, `LoadIsLost`
the faults.

**ForecastWorkflow** extends SnapshotChain with what happens between two
snapshots. `run[s]` is the Smithers run whose state would be `s`: its inputs
(`question`, `prev`, `asOf`, and whether its treatment has a `shared` dossier),
what its tasks have put out so far (`roles` and `max` of the plan, `dossier`,
all `attempts`, the last `candidate` and the round of the last review,
`reviewed`), the iteration `iter` of the review loop, and the `result`.
`content[s]` is what a published snapshot says: claims, sources, the claims
it invalidated and whether it is isolated.

| action | code |
|---|---|
| `Launch` | the inputs of the update runner and of the API |
| `PlanRun`, `WriteDossier` | tasks `plan` (`selectRoles`, `selectMaxIterations`) and `research-dossier` |
| `Judge` | a task `attempt-<role>`; those of a round run in parallel |
| `AggregateCandidate`, `ReviewAgain`, `ReviewEnds` | `candidate-aggregate`, `quality-review` and the `Loop` |
| `Aggregate` | task `aggregate` with `buildForecastState` |
| `Commit` | `applyProviderActivityIsolationAudit` and the commit of the ledger |

The operators are the pure functions in between: `Usable`
(`previousResearchIsAutonomousSafe`), `Quarantined`, `Contaminated`,
`Invalidated` (`sanitizeResearchDossierForJudgment`), `Exposed`
(`componentHumanForecastExposureFlags`, `componentEvidenceIsolationFlags`),
`Round`, `CurrentAttempts`, `FinalAttempts` (which attempts count), `Claims`,
`Sources` (`buildEvidenceWorkspace`, `mergeEvidenceWorkspaces`), `Isolated`.

### Abstractions

- A Smithers run, its task and the `ForecastState` it outputs share one name;
  the run id is `osf-<task>` and the state id is derived from it.
- One SQL statement is atomic and evaluated when it gets the locks it needs.
  PostgreSQL evaluates the `EXISTS` of a fired or reactivated trigger on the
  question row as committed, which is what the actions read.
- The attempt, aggregate, source and citation rows of a ledger are one counter,
  since they are inserted by the same transaction. Trace events are
  appended under the lock it holds on the task row, the first one with the
  task, so they are numbered without gaps.
- Signpost triggers have no `next_check_at` and are never claimed.
- The clock is a small number; LiveForecast uses one tier of the review policy.
- `RequestReport` is the report endpoint, whose artifact row a forecast task
  without an artifact of its own adopts; the later overwriting of its contents
  is not modelled. It is requested of running tasks only: asking a queued one is
  asking it a moment later, and a task that is over adopts nothing.
- Revoked runs end like cancelled ones.
- A launch error stands for every exception of the `try` blocks, at the launch
  itself; an inspect error every failure of the CLI that is not "run not found".
- Probabilities, scores and reports are left out; of a comparison only its
  recommendation is kept, of a case result only its status. The tasks of
  BenchmarkRuns and Resolution end as LiveForecast ends them.
- ForecastWorkflow: a claim stands for its source as well, and each of the three
  regular expressions for forecasts of other people is the set of claims it
  matches. They differ, as in the code. One instant is both the forecast time and
  the cutoff, as the update runner has it; `evidenceAsOf`, a second cutoff,
  is left out. An evaluator lists the components it was shown. A run whose
  predecessor is no longer the head cannot commit. `Told` lets the models of
  a run misreport one round number.
- `after` in a request of TableRuns and `logAtEnd` in RunWorkspace remember what was
  the case when a count was read and when the run ended. Only properties read them.
- Live activity, which shares the stream of a run, carries no ids and changes
  nothing else.

## 3. Runs

| run | instance | checks |
|---|---|---|
| `LiveUpdates` | 3 tasks on one of 2 questions, with a boundary at 3 or without, 2 runner executions, 2 processes (`OverlapIsEarly`), 3 instants, a resolution, one failing launch | `TypeOK`, `ClosedQuestionIsQuiet`, `OneUpdatePerReview`, `SnoozedIsLeased`, `RetiredIsFinal` |
| `LiveProgress` | 2 tasks, 2 questions of which one has a boundary at 2, 1 process, a launch and an update with one fault of any of the seven kinds or two launches without (`SecondLaunchIsFaultless`), a resolution, fairness | `LiveTypeOK`, `LedgerIsExactlyOnce`, `CompletedHasLedger`, `ImplementsForecastState`, `FinishedRunsEndTheirTask`, `FiredReviewsSettle`, `TerminalIsFinal` |
| `BenchmarkPasses` | 2 runs of 1 case, 1 launch, 2 overlapping passes, 1 reviewer, 2 requests, one fault of any kind | `ProposalsTypeOK`, `FinalizedRunsAreWhole`, `ScoredOnce`, `ImplementedIsValidated` |
| `BenchmarkProgress` | 2 runs of up to 2 cases, 1 pass, one fault of any kind, fairness | `EvidenceIsRecorded`, `RunsAreFinalized` |
| `Resolution` | 1 question, 2 snapshots with any predecessor and time, rolled back at will, and a task without a question, 3 resolution rows, 2 values, 2 requests at once | `ResolutionTypeOK`, `ScoredExactlyOnce`, `TrajectoryIsComplete`, `RepeatsAreForced`, `ClosedByItsResolutions`, `MemoryFollowsChain`, `ChainIsLinear`, `ImplementsSnapshotChain` |
| `TableRuns` | 3 tasks (a table and two retries of its row), 1 row, 2 processes, one run that ends, one fault | `TableTypeOK`, `CompletedIsWhole`, `SeededOnce`, `RetriesAreCounted` |
| `RunWorkspace` | pages of 2, 1 + 3 trace events, a run that fails, its ledger committed before or after, 4 faults once each, fairness | `WorkspaceTypeOK`, `EachEventOnce`, `DoneFollowsTheRun`, `FinalDataArrives`, `StreamCloses` |
| `ForecastWorkflow` | 2 snapshots, 2 instants, 2 roles, up to 2 rounds, 4 claims, 4 dossiers, 3 reports | `WorkflowTypeOK`, `LastRoundDecides`, `IsolatedIsClean`, `EvidenceIsKept` |

and four runs in which a statement of the repository is violated (section 4).

### Bounds, and why they are enough

- Forking a chain takes two commits that compared the same pointer. In
  `Resolution` anybody commits or gives up a snapshot at any time, with any
  predecessor, and with no forecast time, an equal one or a later one; two
  snapshots are enough for a second root and for a wrong time.
- Stealing a lease takes two owners; a lease of one unit expires and is taken
  over within three instants (`MaxTime`). With a boundary at 3, whoever comes
  at instant 2 retires the review that others still work on. `MaxPosts` bounds
  launches through the API; the remaining tasks are updates.
- A task becomes stale if its question moves on while it runs: of two launches on
  one question, the one that finishes second. Two tasks are enough for one to
  starve the other, and for a closing to set both free. Names are given in a fixed
  order (`NamesInOrder`), which renames behaviours and loses none.
- A replayed ledger takes a crash or a second process. `LiveProgress` has the
  crashes, the resolutions and the boundary, with one process; `LiveUpdates` has
  two processes that handle the same finished run. Its constraint `OverlapIsEarly`
  lets their passes overlap only at the first instant and until there is an
  update. That passes which overlap with updates and crashes keep the ledger, the
  completed tasks, the terminal statuses, the refinement and the leases of reviews
  is left to the proofs (`LiveForecastProofs`), which hold for any number of both.
  One fault is enough
  to reach every recovery path (`MaxFaults`), each kind in turn; two failures in
  a row are met by `ForecastState`, which is open, and by the proofs, which
  bound nothing.
- That transactions on different questions do not disturb each other is part of
  the proofs; a claim of several questions is one statement over each.
- Resolving twice takes two requests, a third row leaves one for a forced
  repetition. One value is asked for in every way, the other only plainly.
- Overlapping retries of a row take two tasks besides the table; a row listed
  twice takes two processes that list. More rows only repeat what one does, and
  the retry of a row of a retry what a retry of a row of the table does (`Nested`).
- Overlapping passes of benchmarks need one case, order among cases two; `MaxRequests`
  bounds the reviews and comparisons asked for. The evidence threshold
  (`MinEvidence`) is 1 of 1.
- A forecast and an update are all that hands anything on; a longer chain repeats
  the step, and the proofs bound no length. Two rounds are enough for an attempt
  that does not count, two roles for a round that is half over. The claims are
  a dated fact, later news, one that all patterns match and one that only the
  pattern for judges does; the dossiers and reports are chosen to have each
  kind of contamination, and a clean one. `MaxRunning` is 1: runs at the
  same time meet only at the commit, which the proofs cover for any number.
- A snapshot that does not bring all events needs more than a page of them, 3 on
  pages of 2. `Backlog` and `MaxLoads` bound what is under way at the same
  time: a tick begins when the wire is empty, a second load waits for the first.

`CHECK_DEADLOCK FALSE` throughout: the system stops when the bounded clock,
tasks, requests and faults are used up. Symmetry is used in runs of safety
properties only.

### Fairness

*LiveForecast*: `LauncherStep`, `UpdaterStep` and `PassStep` are strongly fair
per process: a process that lives takes its next step, and PostgreSQL queues
those who wait for a row lock, so that one that waits is not overtaken for ever.
That passes start again rests on clients that keep polling. Runs end and
resolutions commit (weak fairness), the clock goes on. Launching, claiming,
resolving and asking for a report are choices and have no fairness, neither have
faults. The fair run sets `Grace = 0`: the clock is bounded, so waiting for the
ten minutes to pass must not need more of it than there is.

*WorkflowProposals*: passes, launches and tasks of a run are weakly fair; there are
no locks to wait for. Nobody has to launch, compare or review.

*RunWorkspace*: requests are served, timers fire, messages and answers arrive
(weak fairness). That the run ends is not assumed.

`FinishedRunsEndTheirTask` and `FiredReviewsSettle` promise nothing if some task
stays stale for ever (`AlwaysStale`): its question stays open and has moved on, so
`persistForecastStateInTransaction` throws in every pass that gets to it, and the
tasks behind it may never get their turn. Without that exception TLC finds the
counterexample on the instance of `LiveProgress`, and `BugStarvedTask` shows
what becomes of a third task. BenchmarkRuns and RunWorkspace share the passes
with binary product forecasts but do not have them: `RunsAreFinalized`, where
tasks end because they are said to, and `StreamCloses` and `FinalDataArrives`,
where a pass throws only a bounded number of times (`StreamFails`), hold as
long as no stale task is in the way.

`FiredReviewsSettle` excepts crashes and cancelled runs besides, `EvidenceIsRecorded` a
pass that dies, `RunsAreFinalized` cancelled tasks, `FinalDataArrives` a refused
connection or a lost load once the page knows that the run is over: in these
cases the code does not recover, as the next section says.

## 4. What the checks show of the code

Where code and documents disagree, TLC finds a counterexample; `PROJECT.json`
quotes the statement it contradicts.

| run | what happens |
|---|---|
| `BugDuplicateUpdate` | the runner checks its lease only after the launch; one that stalls in between leaves two updates of a question in flight (`OneUpdateInFlight`) |
| `BugRevivedTrigger` | a reactivation reads the question row before the commit of a successor that holds it; the review comes back on a question that moved on (`LiveTriggersAreCurrent`) |
| `BugStarvedTask` | a stale state throws out of every pass, and the tasks behind it are never committed (`CommittableRunsAreCommitted`); the comment that is quoted is about the backfill, the other caller of the same function, which catches what the pass does not |
| `BugNonIsolatedPrior` | an update of a snapshot that is not isolated is itself isolated, and is scored (`IsolatedHasIsolatedPrior`) |

More behaviours of the models are worth knowing, though no document says
otherwise in so many words:

*Forecasts*

- A cancelled update run leaves its review fired, so does a crash between
  failing the task and reactivating the review; the question is not reviewed
  again.
- A crash of the update runner between the creation of a task and
  `markTaskRunning` leaves a queued task that no pass looks at.
- A pass that read a task as running commits its ledger even if another process
  has failed the task meanwhile (`lockForecastLedgerTask` does not look at
  `status`): the task stays failed with a committed ledger.
- A question may have two confirmed updates at a time, for two of its reviews. Of
  two updates launched for one review (see `BugDuplicateUpdate`), a pass may commit
  the one whose launcher has yet to find that its lease is gone; the review of
  the new snapshot is then claimed and its update confirmed, while the one that
  fired the first review is still running. `OneUpdatePerReview` is about one
  review for this reason.
- Once a question is due for no later review, the runner retires its triggers and
  clears its lease in two statements; the second clears it whoever holds it by
  then. A review that a late update claimed in between stays snoozed without a
  lease (`ClearLease`, and the exception that `SnoozedIsLeased` makes).
- The update runner never calls `createBootstrapArtifact`, so a pass fails its
  finished updates for want of an output artifact, and their reviews become due
  again. Only a report requested while the run is on provides one
  (`RequestReport`).
- Within the last day each review halves the time left (`LastDayIsHalved`),
  some 27 reviews down to the last millisecond; the day that the policy keeps
  from the boundary is never the smaller of the two amounts there.

*Workflow*

- Of a predecessor that is not isolated, or that cites what the judges' pattern
  matches, no evidence is taken over (`Prior`); `IsolatedIsClean` is about that
  evidence and does not say that the predecessor is isolated (see
  `BugNonIsolatedPrior`). The change of probability of that predecessor remains
  visible in the prompts (`summarizePreviousForecastState`).
- One update that is not isolated therefore ends the evidence: its successor
  inherits nothing, and what earlier clean snapshots had established is gone
  without having been invalidated. `EvidenceIsKept` is stated of usable
  predecessors for this reason (lines 254-256 of the same document make no
  exception).
- The pattern of the dossier quarantine is narrower than that of the judges: it has
  neither plurals ("prediction markets") nor "Good Judgment Open". Such a source
  reaches the judges, and if none of them repeats it the state may be isolated;
  the next update then refuses it as predecessor. README.md:125-126 says that
  explicit human-forecast sources are quarantined before judgment.
- Which attempts count depends on the round numbers that models report; one that is
  wrong brings attempts of a rejected round in or leaves those of the last one
  out. `LastRoundDecides` is about runs in which they are right.
  `IsolatedIsClean` does not depend on them: all attempts are flagged.

*Tables*

- Every pass that gets as far inserts the sources of a table again.
- Rows of failed and cancelled tasks stay running; a retry whose launch errors
  leaves its task queued for ever. Of retries that
  overlap some may be lost from the count; `RetriesAreCounted` is exact for those
  that do not.
- Two listings at a time may backfill a row twice, and a backfill that dies
  half-way is never completed.

*Page*

- A status event carries the id of the last event of its snapshot, so a client
  that reconnects right after it misses these trace events. "done" may be sent
  with more than a page of events outstanding.
- The ledger transaction looks at no status, so the ledger of a task that another
  process has failed, and of a completed one that the backfill repairs, adds trace
  events after the run is over. They may follow "done" and are then not sent
  (`CommitLedger`); `DoneFollowsTheRun` is about those that were there at the end.
- Loads may return out of order, so that an older one overwrites the final one. A
  connection refused or a load lost after the page has learnt that the run is
  over leaves it with stale data.

*Benchmarks*

- A cancelled task keeps its benchmark run running for ever. A pass that dies
  between the analysis and the end of a run has it analysed again; one that dies
  between the end and the evidence never records it.
- Two launches of a validation both find the proposal without a link, and each
  replaces the link and the evidence of the other (`StartValidation`,
  `EndStart`). A proposal may thus be implemented on the evidence of the first
  run and be linked to the second. `ImplementedIsValidated` allows for that, and
  for nothing else.
- A legacy ledger without a commit marker is quarantined after its run was
  finalised as completed.

## 5. Proofs

Eight modules hold theorems; all of them are checked by TLAPS to the last leaf.
Every safety property of the runs of section 3 is among them.
The assumptions are those the models state about their constants:
`NoneAssumption` and `RowAssumption` (null is no value), `NumberAssumption`,
`ReviewTimeAssumption`, `PolicyAssumption`, `DayAssumption` (numbers and their
signs), `ReviewAssumption` (the review times planned are among those the store
takes), `WorkflowAssumption` (patterns are sets of claims, the samples have their
types, there is at least one round), `FaultAssumption`,
`ResolutionAssumption` (null is no row, and a task without a question is not a
state), `TableAssumption`, `BenchmarkAssumption`, `ProposalAssumption` and
`WorkspaceAssumption` (null and the name of a request are not those of other
things; bounds are numbers, and a page, a case and the evidence asked for are at
least one).

`ForecastStateProofs`, for every set of questions, states and owners and
every lease, limit and time bound:

| theorem | says |
|---|---|
| `TypeCorrect` | `Spec => []TypeOK` |
| `ChainCorrect` | `Spec => []ChainIsLinear` |
| `TimesCorrect` | `Spec => []TimesAdvance` |
| `ClosedCorrect` | `Spec => []ClosedQuestionIsQuiet` |
| `RetiredCorrect` | `Spec => RetiredIsFinal` |
| `HandoverCorrect` | `Spec => LeaseHandover` |
| `Refinement` | `Spec => ImplementsSnapshotChain` |

`ChainIsLinear` is not inductive: between the two halves of a transaction
nothing in it says that the pointer the transaction compared with is still the
pointer. The inductive invariant `IInv` adds what an open transaction may rely
on because it holds the lock of the question row:

- `PendingIsStable`: the question is open, its pointer and the forecast time of
  the predecessor are what was compared, and the state id is still unused;
- `PendingIsUnique`: two open transactions insert different state ids (the
  unique index holds across transactions);
- `SnoozedIsLocked`: what is snoozed on a locked question is among the triggers
  the transaction retires, for no claim passes a locked row;
- `TriggersExist`: a state that is not committed has no trigger.

The proof goes by groups of actions. `OutsideTransactions` shows that all
statements outside the two transactions leave snapshots, pointers, statuses and
transactions alone (`SameChain`), so only five actions remain for the chain; the
commit is the one that needs work. The refinement uses the same lemma: these
statements stutter, a commit is `Publish` and a closing is `Close`.

`LiveForecastProofs`, for every number of tasks, processes, runner executions
and faults, every boundary and every review interval:

| theorem | says |
|---|---|
| `LiveTypeCorrect` | `LiveSpec => []LiveTypeOK` |
| `LiveRefinement` | `LiveSpec => ImplementsForecastState`: the running system makes steps of ForecastState only |
| `LiveChainCorrect` | `LiveSpec => []ChainIsLinear`, by the refinement; the other theorems of the store carry over the same way |
| `LedgerCorrect` | `LiveSpec => []LedgerIsExactlyOnce` |
| `CompletedCorrect` | `LiveSpec => []CompletedHasLedger` |
| `TerminalCorrect` | `LiveSpec => TerminalIsFinal` |
| `OneUpdateCorrect` | `LiveSpec => []OneUpdatePerReview` |
| `SnoozedCorrect` | `LiveSpec => []SnoozedIsLeased` |

None of these is inductive. `LiveInv` adds to `IInv` what a process still knows
when it takes its next step (`ProcessInv`):

- `LaunchersKnow`, `UpdatersKnow`, `PassesKnow`: the task at hand exists and was
  launched; it is queued until its launcher marks it; reviews that are fired or
  made active are those of committed snapshots; a pass that read a task with its
  commit marker finds it still there, for markers are never unset;
- `WriterHoldsLock`: a pass or resolution that is writing has the transaction
  of the question open, with its own state in it;
- `OneWriter`: no two of them write for one question.

Without `OneWriter` a second pass could commit the transaction of the first and
insert the attempts twice. Each group of actions preserves each group of
conjuncts; frame lemmas (`Kept`, `TasksKept`) deal with those that leave a group
alone, and `DatabaseStep` shows every action to be a step of ForecastState or a
stutter.

The last two theorems are about leases, which expire while their owners go on,
so that holding a lease is not what keeps two updates apart. Two more layers say
what does:

- `ClaimInv`: an execution of the update runner claims once, and what it
  claimed is to be read, or planned, or the trigger of a task, but only one of
  these (`OwnersKnow`); hence a claim launches one task (`OneTaskPerClaim`); and
  whoever makes a review active again has failed its task before
  (`FailedBefore`).
- `ReviewInv`: a confirmed update has fired its review, and nobody else's lease is
  for that review any more (`ConfirmedHasFired`); a lease is released or
  cleared only when its review is not snoozed or the question is past its
  reviews (`ReleasesNoSnoozed`, `ClearsPastReviews`); snoozed reviews were
  due (`SnoozedWasDue`).

Two confirmed updates of one review would both own the lease by which it was fired,
and by `OneTaskPerClaim` they are one task.

`ResolutionProofs`, for every number of snapshots, resolutions, requests and
plain tasks, and every set of wishes:

| theorem | says |
|---|---|
| `ResolutionTypeCorrect` | `ResolutionSpec => []ResolutionTypeOK` |
| `ScoresCorrect` | `ResolutionSpec => []ScoredExactlyOnce` |
| `TrajectoryCorrect` | `ResolutionSpec => []TrajectoryIsComplete` |
| `RepeatsCorrect` | `ResolutionSpec => []RepeatsAreForced` |
| `ClosingCorrect` | `ResolutionSpec => []ClosedByItsResolutions` |
| `MemoryCorrect` | `ResolutionSpec => []MemoryFollowsChain` |

What a request found while it locked the task, and then the question, must still
be so when it writes. `RequestInv` says that it is: `TaskIsMine` (no two requests
have locked one task), `FoundIsKept` (the resolution it found is there; if it
found none there is none, unless it was to repeat one), `CloserHoldsLock` and
`OneCloser` (the closing that is open on the question is its own, with the status
of its resolution). That the trajectory stays complete combines both levels: a
snapshot commits only on an open question (`PendingIsStable` of `IInv`), and a
question with resolutions is not open (`ClosedByItsResolutions`).
`DatabaseSteps` shows that Resolution, too, makes steps of ForecastState only, so
that `IInv` holds of it by the lemmas about the store.

`ForecastWorkflowProofs`, for every number of snapshots, roles, rounds and runs at
the same time, every set of claims and patterns, and everything the models may
report:

| theorem | says |
|---|---|
| `WorkflowTypeCorrect` | `WorkflowSpec => []WorkflowTypeOK` |
| `LastRoundCorrect` | `WorkflowSpec => []LastRoundDecides` |
| `IsolationCorrect` | `WorkflowSpec => []IsolatedIsClean` |
| `EvidenceCorrect` | `WorkflowSpec => []EvidenceIsKept` |
| `WorkflowRefinement` | `WorkflowSpec => ChainSpec`: runs publish by steps of SnapshotChain only |

`WorkflowInv` has three parts. `ChainOK` and `ContentOK` say that whatever is
linked has contents and that these are clean and keep their predecessor's claims.
`RunInv` says of a run that its predecessor is published, that its result is
what `ForecastStateOf` concludes from it now, so that it is still so when it
commits, however long after (`CommitStep`: a predecessor is never the snapshot
being published), and that its rounds are in order: `RoundsOK`, with `Numbered` as
long as its reports are numbered as told, counts iterations and reviewed
rounds together, without which `LastRoundDecides` is not inductive.

`TableRunsProofs`, for every number of tasks, rows, processes, retries and
faults:

| theorem | says |
|---|---|
| `TableTypeCorrect` | `TableSpec => []TableTypeOK` |
| `CompletedCorrect` | `TableSpec => []CompletedIsWhole` |
| `SeededCorrect` | `TableSpec => []SeededOnce` |
| `RetryCountCorrect` | `TableSpec => []RetriesAreCounted` |

There is no transaction to rely on. `TableInv` says what a request and a pass know
all the same: `RequestKnows` (a task stays queued, and its rows are listed by
nobody else, until its own request has marked it running) and `PassKnows` (from
one statement of a pass to the next, what has been written of an output is there
and no statement of another pass takes it back, because all of them write what the
same finished run has put out). `CountsOK` and `RetryKnows` are about the count: it
never exceeds the number of answered retries, and a request that has read it knows
which retries had been answered by then (`after`), so that if none was answered
since, adding one to what it read counts them all.

`WorkflowProposalsProofs`, for every number of runs, cases, launches, passes,
reviews and requests:

| theorem | says |
|---|---|
| `ProposalsTypeCorrect` | `ProposalsSpec => []ProposalsTypeOK` |
| `FinalizedCorrect` | `ProposalsSpec => []FinalizedRunsAreWhole` |
| `ScoredCorrect` | `ProposalsSpec => []ScoredOnce` |
| `ImplementedCorrect` | `ProposalsSpec => []ImplementedIsValidated` |

The invariant has two layers. `BenchmarkInv` says that a final result of a case
is what its task came to (`CaseKnows`), so that the stale verdicts which
overlapping passes write back are all the same (`PassKnows`); and that launches
work on runs of their own (`StartersApart`, `StarterKnows`). `ProposalInv` says
that evidence, in the row or in the copy that a review has read, stays true of
its run (`EvidenceKnows`). Between them stands `Steady`, what no step of anybody
takes back: runs and their sizes, the end of a run, results that are final, tasks
that have come to something. The steps of the benchmark runs are shown to be
steady once, and what is known of the proposal follows from that alone.

`RunWorkspaceProofs`, for every page size, ledger, backlog and number of loads:

| theorem | says |
|---|---|
| `WorkspaceTypeCorrect` | `WorkspaceSpec => []WorkspaceTypeOK` |
| `EventsCorrect` | `WorkspaceSpec => []EachEventOnce` |
| `DoneCorrect` | `WorkspaceSpec => DoneFollowsTheRun` |

`WorkspaceInv` adds what a state tick may rely on between its awaits: no other
tick is under way (`OneTick`), so that the events it has read follow the last one
sent, and if the status it has read is over, its page reaches to where the log
was when the run ended, or is full (`TickKnows`). `TickWire` says what a tick appends to the wire, and `OnceSent` that
such an extension keeps the events in order. `LoadsBounded` counts the loads under
way, which "done" alone may raise above `MaxLoads`, once.

`ReviewCadence`: `ReviewsPrecedeBoundary` (a review is before the boundary and
not before its forecast, whatever the interval), `LastDayIsHalved`, and
`ReviewsDensify` (the closer the boundary, the shorter the interval, over all
tiers and the clamping).

`TimesAdvance` and `LeaseHandover` are proved and have no run of their own; a run of
`ImplementsSnapshotChain` includes the former.

Every inductive invariant was checked by TLC before it was proved, on the
instances of the runs and on larger ones: three runs and two launches of
benchmarks, pages of one event with a backlog, passes that overlap with updates.
There TLC refuted stronger forms of three properties: one confirmed update for
each question, a lease for every snoozed review, and the link of an implemented
proposal to the run it was validated by. The counterexamples are behaviours of
the code (section 4), and the properties say what holds.

Only model-checked: liveness (`FinishedRunsEndTheirTask`, `FiredReviewsSettle`,
`EvidenceIsRecorded`, `RunsAreFinalized`, `FinalDataArrives`, `StreamCloses`). It rests on fairness,
that is on `ENABLED`, which TLAPS does not reason about.

## 6. Not modelled

- *Other kinds of forecast* (numeric, date, categorical, thresholded): launched and
  materialised by the same functions, without a canonical question; their
  ledgers are the plain tasks of Resolution.
- *Benchmark importers, suites, variants and promotion decisions*: three or
  fewer statements each, that nothing else decides upon.
- *Maintenance* (`maintenance-service.ts`): a job runs in the process that
  created it. One whose process dies stays running, and nothing reads its
  status but the page that shows it.
- *Browser log forwarder*: console lines of development builds; they may be lost and
  nothing depends on them.
- *Probabilities* of the workflows, their aggregation and disagreement, calibration
  and scoring (`packages/evals`): pure functions over floating-point numbers, for
  which neither TLC nor TLAPS has arithmetic. The prompts, and the redaction of
  texts that users supply (background, fixed evidence), are text processing.
- *The workflows of the other kinds of forecast and of tables*: parallel tasks without
  a review loop or a predecessor. What they do to the rest is the end of a run.
- *Metrics, diagnostics, health, exports, reports, question studio, portfolio and
  rendering*: they read the database and show it.
- *Worker, configuration, artifact store and scripts*: I/O and command-line
  wrappers around the services above.
- *Smithers and PostgreSQL*: external; modelled as the code uses them.
