------------------------------ MODULE Resolution ------------------------------
(***************************************************************************)
(* Resolving forecast tasks: the resolution rows, the scores of a ledger,  *)
(* the scores of the trajectory of a question and its local memory.        *)
(*   packages/backend/src/resolution-service.ts                            *)
(*   packages/backend/src/forecast-trajectory-score-service.ts             *)
(*   packages/backend/src/forecast-state-service.ts (memory)               *)
(*                                                                         *)
(* It extends ForecastState with the transaction of which the closing of a *)
(* question is a part.  A binary task goes by the name of the snapshot of  *)
(* its ledger; a task of another type has a ledger but no question.  Tasks *)
(* whose ledger is committed are completed sooner or later; here they may  *)
(* be resolved at once.  Reviews and leases play no part and stay away.    *)
(***************************************************************************)
EXTENDS ForecastState

CONSTANTS
    Plain,      \* completed tasks of other forecast types
    Row,        \* ids of forecast_resolutions
    Value,      \* what a task is resolved to, and on which source
    Resolver,   \* requests that resolve a task
    Wishes      \* what they ask for

VARIABLES
    isolated,   \* the snapshots whose information isolation is "isolated"
    memory,     \* memory[s]: status of the question-local memory of snapshot s
    resolution, \* resolution[r]: the row in forecast_resolutions, or None
    scores,     \* scores[r]: sets of forecast_scores for the ledger of its task
    points,     \* points[r]: snapshots with forecast_trajectory_scores
    resolver    \* resolver[w]: the transaction of request w

resolutionVars == <<resolution, scores, points>>
everything == <<vars, isolated, memory, resolutionVars, resolver>>

Task == State \cup Plain
ResolutionRow == [task : Task, value : Value, annulled : BOOLEAN, forced : BOOLEAN]
Wish == [task : Task, value : Value, annul : BOOLEAN, force : BOOLEAN]
ASSUME ResolutionAssumption ==
    /\ None \notin Row \cup Wish \cup ResolutionRow
    /\ Plain \cap State = {}
    /\ Wishes \subseteq Wish

NoResolver == [pc |-> "idle", wish |-> None, used |-> None]

ResolutionInit ==
    /\ Init
    /\ isolated \in SUBSET State
    /\ memory = [s \in State |-> "none"]
    /\ resolution = [r \in Row |-> None]
    /\ scores = [r \in Row |-> 0]
    /\ points = [r \in Row |-> {}]
    /\ resolver = [w \in Resolver |-> NoResolver]

-----------------------------------------------------------------------------
(* Snapshots, with the memory they replace *)
OldMemory(q) == {s \in Members(q) : memory[s] = "active" /\ s # question[q].latest}
LocalMemory(q) == {s \in Members(q) : memory[s] = "active"}
Deprecate(S) == [s \in State |-> IF s \in S THEN "deprecated" ELSE memory[s]]

WriteSnapshot(q, s, prev, asOf) ==
    /\ BeginSnapshot(q, s, prev, asOf, None)
    /\ UNCHANGED <<isolated, memory, resolutionVars, resolver>>
FinishSnapshot(q) ==
    /\ CommitSnapshot(q)
    /\ \E status \in {"none", "active"} :
          memory' = [Deprecate(LocalMemory(q)) EXCEPT ![tx[q].state] = status]
    /\ UNCHANGED <<isolated, resolutionVars, resolver>>
DropSnapshot(q) ==
    /\ tx[q] # None /\ tx[q].kind = "snapshot"
    /\ Rollback(q)
    /\ UNCHANGED <<isolated, memory, resolutionVars, resolver>>

-----------------------------------------------------------------------------
(* resolveForecastTask in request w *)
TaskUnlocked(t) == TRUE
TaskFree(t) == \A w \in Resolver : resolver[w].pc # "idle" => resolver[w].wish.task # t
HasLedger(t) == t \in State => snapshot[t] # None
QuestionOf(t) == snapshot[t].question

LockTask(w, wish) ==
    /\ resolver[w].pc = "idle"
    /\ TaskFree(wish.task) /\ HasLedger(wish.task)
    /\ resolver' = [resolver EXCEPT ![w] = [pc |-> "locked", wish |-> wish, used |-> None]]
    /\ UNCHANGED <<vars, isolated, memory, resolutionVars>>

(* findExistingResolution does not look at "annulled".                     *)
Existing(wish) ==
    {r \in Row : /\ resolution[r] # None
                 /\ resolution[r].task = wish.task /\ resolution[r].value = wish.value}
AnnulledAsAsked(wish, found) == wish.annul
Annulled(wish, found) == IF found = None THEN wish.annul ELSE resolution[found].annulled

(* The question is locked, then the resolution found or made.              *)
ChooseResolution(w) ==
    LET wish == resolver[w].wish IN
    /\ resolver[w].pc = "locked"
    /\ \E found \in Row \cup {None} :
          /\ IF wish.force \/ Existing(wish) = {} THEN found = None ELSE found \in Existing(wish)
          /\ resolver' = [resolver EXCEPT ![w].pc = "writing", ![w].used = found]
          /\ IF wish.task \in State
             THEN BeginClose(QuestionOf(wish.task),
                             IF Annulled(wish, found) THEN "annulled" ELSE "resolved")
             ELSE UNCHANGED vars
    /\ UNCHANGED <<isolated, memory, resolutionVars>>

UnscoredAlways(r) == TRUE
Unscored(r) == scores[r] = 0
ScoreEligible(t) == t \in State => t \in isolated
Trajectory(t) == Members(QuestionOf(t)) \cap isolated

WriteScores(r, t, annulled) ==
    /\ scores' = IF ~ annulled /\ ScoreEligible(t) /\ Unscored(r)
                 THEN [scores EXCEPT ![r] = @ + 1] ELSE scores
    /\ points' = IF ~ annulled /\ t \in State
                 THEN [points EXCEPT ![r] = @ \cup Trajectory(t)] ELSE points
CommitResolution(w) ==
    LET wish == resolver[w].wish
        used == resolver[w].used
    IN
    /\ resolver[w].pc = "writing"
    /\ \E r \in Row :
          /\ IF used = None THEN resolution[r] = None ELSE r = used
          /\ resolution' = IF used # None THEN resolution ELSE
                 [resolution EXCEPT ![r] = [task |-> wish.task, value |-> wish.value,
                                            annulled |-> wish.annul, forced |-> wish.force]]
          /\ WriteScores(r, wish.task, Annulled(wish, used))
    /\ IF wish.task \in State
       THEN /\ CommitClose(QuestionOf(wish.task))
            /\ memory' = Deprecate(LocalMemory(QuestionOf(wish.task)))
       ELSE UNCHANGED <<vars, memory>>
    /\ resolver' = [resolver EXCEPT ![w] = NoResolver]
    /\ UNCHANGED isolated
AbortResolution(w) ==
    /\ resolver[w].pc # "idle"
    /\ IF resolver[w].pc = "writing" /\ resolver[w].wish.task \in State
       THEN Rollback(QuestionOf(resolver[w].wish.task)) ELSE UNCHANGED vars
    /\ resolver' = [resolver EXCEPT ![w] = NoResolver]
    /\ UNCHANGED <<isolated, memory, resolutionVars>>

ResolutionNext ==
    \/ \E q \in Question, s \in State, prev \in State \cup {None}, asOf \in Time \cup {None} :
          WriteSnapshot(q, s, prev, asOf)
    \/ \E q \in Question : FinishSnapshot(q) \/ DropSnapshot(q)
    \/ \E w \in Resolver, wish \in Wishes : LockTask(w, wish)
    \/ \E w \in Resolver : ChooseResolution(w) \/ CommitResolution(w) \/ AbortResolution(w)
ResolutionSpec == ResolutionInit /\ [][ResolutionNext]_everything

-----------------------------------------------------------------------------
ResolutionTypeOK ==
    /\ TypeOK
    /\ isolated \subseteq State
    /\ memory \in [State -> {"none", "active", "deprecated"}]
    /\ resolution \in [Row -> ResolutionRow \cup {None}]
    /\ scores \in [Row -> {0, 1}]
    /\ points \in [Row -> SUBSET State]
    /\ \A w \in Resolver :
          /\ resolver[w].pc \in {"idle", "locked", "writing"}
          /\ resolver[w].wish \in Wish \cup {None} /\ resolver[w].used \in Row \cup {None}

RowsOf(q) == {r \in Row : resolution[r] # None /\ resolution[r].task \in Members(q)}

(* A committed resolution has scored the ledger of its task exactly once,  *)
(* however often it was asked for; it has no scores if it is annulled, or  *)
(* if the snapshot was not isolated from human forecasts.                  *)
ScoredExactlyOnce ==
    \A r \in Row :
        scores[r] = IF resolution[r] # None /\ ~ resolution[r].annulled
                       /\ ScoreEligible(resolution[r].task) THEN 1 ELSE 0

(* The trajectory scores of a resolution cover every isolated snapshot of  *)
(* the question, and go on doing so: no run that was under way when the    *)
(* question was closed adds a snapshot they miss.  Annulled resolutions    *)
(* score no trajectory.                                                    *)
TrajectoryIsComplete ==
    \A r \in Row :
        points[r] = IF resolution[r] # None /\ ~ resolution[r].annulled
                       /\ resolution[r].task \in State
                    THEN Trajectory(resolution[r].task) ELSE {}

(* Two resolutions of a task with one value and source exist only if one   *)
(* was forced, though several requests resolve the task at the same time.  *)
RepeatsAreForced ==
    \A r1, r2 \in Row :
        /\ r1 # r2 /\ resolution[r1] # None /\ resolution[r2] # None
        /\ resolution[r1].task = resolution[r2].task
        /\ resolution[r1].value = resolution[r2].value
        => resolution[r1].forced \/ resolution[r2].forced

(* A question is closed exactly when a task of it has a resolution, and    *)
(* its status is that of one of them, even if several tasks are resolved   *)
(* to contradictory values or annulled.                                    *)
ClosedByItsResolutions ==
    \A q \in Question :
        /\ question[q].status = "open" <=> RowsOf(q) = {}
        /\ question[q].status # "open" =>
              \E r \in RowsOf(q) : resolution[r].annulled = (question[q].status = "annulled")

(* What a forecaster may recall of a question is the memory of its latest  *)
(* snapshot, and nothing once it is closed.                                *)
MemoryFollowsChain ==
    \A q \in Question :
        LocalMemory(q) \subseteq
            IF question[q].status = "open" THEN {question[q].latest} ELSE {}
=============================================================================
