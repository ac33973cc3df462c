---------------------------- MODULE ForecastState ----------------------------
(***************************************************************************)
(* The canonical forecast question as PostgreSQL holds it: its lifecycle   *)
(* status, the chain of immutable ForecastState snapshots, the scheduled   *)
(* review trigger of each snapshot and the update lease                    *)
(* (packages/backend/src/forecast-state-service.ts and the closing half of *)
(* resolution-service.ts).                                                 *)
(*                                                                         *)
(* One action is one SQL statement or one step of a transaction, called by *)
(* anybody at any time and with any instant (--as-of is free); who calls   *)
(* what, and in which order, is LiveForecast's business.  A call with a    *)
(* false guard throws or matches no row; either way it changes nothing.    *)
(*                                                                         *)
(* The two transactions, a snapshot commit and a closing, hold the lock of *)
(* the question row from their first statement to their commit.  Nobody    *)
(* sees their writes before the commit, but the trigger rows they retire   *)
(* are locked too.  tx[q] is the transaction open on question q.           *)
(*                                                                         *)
(* Signpost triggers have a null next_check_at, so that no claim ever      *)
(* takes one; only the scheduled review trigger is kept, and because a     *)
(* snapshot has at most one, it is named by the state id of its source.    *)
(***************************************************************************)
EXTENDS Integers, FiniteSets

CONSTANTS
    Question,   \* rows of forecast_questions
    State,      \* ForecastState ids (unique index on state_id)
    Owner,      \* lease owners: one execution of the update runner each
    None,       \* SQL null
    MaxTime,    \* bound: the latest instant a caller names
    ReviewTime, \* bound: the next review times a snapshot may ask for
    Lease,      \* DEFAULT_FORECAST_UPDATE_LEASE_MS in clock units
    Limit       \* how many questions a claim may take at once

ASSUME NoneAssumption == None \notin State \cup Owner \cup Int
ASSUME NumberAssumption == MaxTime \in Nat /\ Lease \in Nat \ {0} /\ Limit \in Nat \ {0}
ASSUME ReviewTimeAssumption == ReviewTime \subseteq Nat

VARIABLES
    question,   \* question[q]: the row of q
    snapshot,   \* snapshot[s]: the committed snapshot of state s, or None
    trigger,    \* trigger[s]: the scheduled review of snapshot s
    tx          \* tx[q]: the transaction holding the lock of row q, or None

vars == <<question, snapshot, trigger, tx>>

Time == 0 .. MaxTime

QuestionStatus == {"open", "resolved", "annulled"}
UnleasedRow ==
    [status : QuestionStatus, latest : State \cup {None},
     owner : {None}, expires : {None}, leased : {None}]
LeasedRow ==
    [status : QuestionStatus, latest : State \cup {None},
     owner : Owner, expires : Nat, leased : State]
SnapshotRow ==
    [question : Question, prev : State \cup {None}, asOf : Time \cup {None}]
TriggerRow ==
    [status : {"active", "snoozed", "fired", "retired"}, due : ReviewTime]
        \cup [status : {"none"}, due : {None}]
SnapshotTx ==
    [kind : {"snapshot"}, state : State, prev : State \cup {None},
     asOf : Time \cup {None}, due : ReviewTime \cup {None}, retires : SUBSET State]
CloseTx ==
    [kind : {"close"}, state : {None}, status : {"resolved", "annulled"},
     retires : SUBSET State]

(* null is none of the rows *)
ASSUME RowAssumption == None \notin SnapshotRow \cup SnapshotTx \cup CloseTx

TypeOK ==
    /\ question \in [Question -> UnleasedRow \cup LeasedRow]
    /\ snapshot \in [State -> SnapshotRow \cup {None}]
    /\ trigger \in [State -> TriggerRow]
    /\ tx \in [Question -> SnapshotTx \cup CloseTx \cup {None}]

(* An upsert creates the row on first use: an unused row is an open question. *)
NewQuestion ==
    [status |-> "open", latest |-> None, owner |-> None, expires |-> None, leased |-> None]

Init ==
    /\ question = [q \in Question |-> NewQuestion]
    /\ snapshot = [s \in State |-> None]
    /\ trigger = [s \in State |-> [status |-> "none", due |-> None]]
    /\ tx = [q \in Question |-> None]

-----------------------------------------------------------------------------
(* Snapshots of a question, and the triggers a commit or a closing retires. *)
Members(q) == {s \in State : snapshot[s] # None /\ snapshot[s].question = q}
Unretired(q) == {s \in Members(q) : trigger[s].status \in {"active", "snoozed"}}

Locked(q) == tx[q] # None
RowLocked(s) == \E q \in Question : tx[q] # None /\ s \in tx[q].retires

WithoutOwner(row) == [row EXCEPT !.owner = None, !.expires = None]
WithoutLease(row) == [row EXCEPT !.owner = None, !.expires = None, !.leased = None]

RetireAll(S) ==
    [s \in State |-> IF s \in S THEN [trigger[s] EXCEPT !.status = "retired"] ELSE trigger[s]]

(* assertForecastSnapshotChronology *)
AdvancesAnyPointer(q, prev) == TRUE
AdvancesPointer(q, prev) == question[q].latest = prev

NotEarlier(prev, asOf) ==
    prev # None => /\ asOf # None
                   /\ snapshot[prev].asOf # None => asOf >= snapshot[prev].asOf
Later(prev, asOf) ==
    prev # None => /\ asOf # None
                   /\ snapshot[prev].asOf # None => asOf > snapshot[prev].asOf

ChronologyOK(q, prev, asOf) ==
    /\ prev # None => snapshot[prev] # None /\ snapshot[prev].question = q
    /\ AdvancesPointer(q, prev)
    /\ Later(prev, asOf)

OpenIgnored(q) == TRUE
IsOpen(q) == question[q].status = "open"

(* The unique index on state_id holds across open transactions too. *)
NotPersisted(s) == snapshot[s] = None
UnusedStateId(s) ==
    snapshot[s] = None /\ \A q \in Question : Locked(q) => tx[q].state # s

(* persistForecastStateInTransaction up to the statement that retires the  *)
(* old triggers.  The upsert locks the row; a row that is not open, a      *)
(* state id that is already persisted and a failed chronology all throw    *)
(* or return the existing snapshot.                                        *)
BeginSnapshot(q, s, prev, asOf, due) ==
    /\ ~ Locked(q)
    /\ IsOpen(q)
    /\ UnusedStateId(s)
    /\ ChronologyOK(q, prev, asOf)
    /\ tx' = [tx EXCEPT ![q] = [kind |-> "snapshot", state |-> s, prev |-> prev,
                                asOf |-> asOf, due |-> due, retires |-> Unretired(q)]]
    /\ UNCHANGED <<question, snapshot, trigger>>

(* The rest of it and the commit: the pointer moves by compare-and-swap,   *)
(* the lease is cleared, the old triggers are retired, the new one starts. *)
CommitSnapshot(q) ==
    /\ Locked(q) /\ tx[q].kind = "snapshot"
    /\ AdvancesPointer(q, tx[q].prev)
    /\ snapshot' = [snapshot EXCEPT ![tx[q].state] =
           [question |-> q, prev |-> tx[q].prev, asOf |-> tx[q].asOf]]
    /\ question' = [question EXCEPT ![q] =
           [WithoutLease(question[q]) EXCEPT !.latest = tx[q].state]]
    /\ trigger' = [RetireAll(tx[q].retires) EXCEPT ![tx[q].state] =
           IF tx[q].due = None THEN @ ELSE [status |-> "active", due |-> tx[q].due]]
    /\ tx' = [tx EXCEPT ![q] = None]

(* closeCanonicalForecastQuestions inside resolveForecastTask: the row is  *)
(* locked whatever its status, so a second resolution may re-close it.     *)
BeginClose(q, status) ==
    /\ ~ Locked(q)
    /\ tx' = [tx EXCEPT ![q] = [kind |-> "close", state |-> None, status |-> status,
                                retires |-> Unretired(q)]]
    /\ UNCHANGED <<question, snapshot, trigger>>

CommitClose(q) ==
    /\ Locked(q) /\ tx[q].kind = "close"
    /\ question' = [question EXCEPT ![q] =
           [WithoutLease(question[q]) EXCEPT !.status = tx[q].status]]
    /\ trigger' = RetireAll(tx[q].retires)
    /\ tx' = [tx EXCEPT ![q] = None]
    /\ UNCHANGED <<snapshot>>

(* A later statement of the transaction throws, or its connection dies. *)
Rollback(q) ==
    /\ Locked(q)
    /\ tx' = [tx EXCEPT ![q] = None]
    /\ UNCHANGED <<question, snapshot, trigger>>

-----------------------------------------------------------------------------
(* The update lease *)
DueBy(s, asOf) == trigger[s].due # None /\ trigger[s].due <= asOf
AlwaysFree(q, asOf) == TRUE
LeaseFree(q, asOf) == question[q].expires = None \/ question[q].expires <= asOf

(* The trigger of the expired lease, when it is still snoozed. *)
ReclaimableFired(q, asOf) ==
    {s \in Members(q) : question[q].leased = s /\ trigger[s].status \in {"snoozed", "fired"}
                        /\ DueBy(s, asOf)}
Reclaimable(q, asOf) ==
    {s \in Members(q) : /\ question[q].leased = s
                        /\ trigger[s].status = "snoozed"
                        /\ DueBy(s, asOf)}
DueActive(q, asOf) == {s \in Members(q) : trigger[s].status = "active" /\ DueBy(s, asOf)}

Claimable(asOf) ==
    {q \in Question : /\ IsOpen(q)
                      /\ ~ Locked(q)
                      /\ LeaseFree(q, asOf)
                      /\ Reclaimable(q, asOf) \cup DueActive(q, asOf) # {}}

(* The lease's own trigger first, else an active one that is due earliest. *)
ClaimChoices(q, asOf) ==
    IF Reclaimable(q, asOf) # {} THEN Reclaimable(q, asOf)
    ELSE {s \in DueActive(q, asOf) :
              \A r \in DueActive(q, asOf) : trigger[s].due <= trigger[r].due}
EarliestDue(q, asOf) ==
    CHOOSE d \in {trigger[s].due : s \in Reclaimable(q, asOf) \cup DueActive(q, asOf)} :
        \A s \in Reclaimable(q, asOf) \cup DueActive(q, asOf) : d <= trigger[s].due

(* The questions one claim takes: all of them, or the Limit most overdue. *)
Batch(C, asOf) ==
    /\ C \subseteq Claimable(asOf)
    /\ \A q \in Claimable(asOf) \ C :
          /\ Cardinality(C) = Limit
          /\ \A p \in C : EarliestDue(p, asOf) <= EarliestDue(q, asOf)
    /\ Cardinality(C) <= Limit

(* claimDueForecastTriggers; pick is the trigger chosen for each question. *)
ClaimDue(o, asOf, pick) ==
    /\ Batch(DOMAIN pick, asOf)
    /\ \A q \in DOMAIN pick : pick[q] \in ClaimChoices(q, asOf)
    /\ question' = [q \in Question |->
           IF q \in DOMAIN pick
           THEN [question[q] EXCEPT !.owner = o, !.expires = asOf + Lease, !.leased = pick[q]]
           ELSE question[q]]
    /\ trigger' = [s \in State |->
           IF \E q \in DOMAIN pick : pick[q] = s
           THEN [trigger[s] EXCEPT !.status = "snoozed"] ELSE trigger[s]]
    /\ UNCHANGED <<snapshot, tx>>

LeasedByAnybody(s, o) == question[snapshot[s].question].leased = s
HoldsLease(s, o) ==
    LET row == question[snapshot[s].question] IN row.leased = s /\ row.owner = o

(* markForecastTriggerFired: the lease stays with the launched update. *)
CanFire(s, o, firedAt) ==
    /\ snapshot[s] # None
    /\ trigger[s].status = "snoozed"
    /\ HoldsLease(s, o)
    /\ question[snapshot[s].question].expires > firedAt
MarkFired(s, o, firedAt) ==
    /\ ~ RowLocked(s)
    /\ CanFire(s, o, firedAt)
    /\ trigger' = [trigger EXCEPT ![s].status = "fired"]
    /\ UNCHANGED <<question, snapshot, tx>>

(* retireForecastTriggersForQuestion: two statements, the second of which  *)
(* clears the lease whoever holds it.                                      *)
RetireTriggers(q) ==
    /\ Unretired(q) # {}
    /\ \A s \in Unretired(q) : ~ RowLocked(s)
    /\ trigger' = RetireAll(Unretired(q))
    /\ UNCHANGED <<question, snapshot, tx>>
ClearEveryLease(q) ==
    /\ question' = [p \in Question |-> WithoutLease(question[p])]
    /\ UNCHANGED <<snapshot, trigger, tx>>
ClearLease(q) ==
    /\ ~ Locked(q)
    /\ question' = [question EXCEPT ![q] = WithoutLease(@)]
    /\ UNCHANGED <<snapshot, trigger, tx>>

(* reactivateForecastTriggerAfterFailedUpdate: two statements again.  The  *)
(* first reads the committed question row without locking it.              *)
SourceIsLatest(s) == question[snapshot[s].question].latest = s
CanReactivateById(s, o) == snapshot[s] # None
CanReactivate(s, o) ==
    /\ snapshot[s] # None
    /\ trigger[s].status \in {"fired", "snoozed"}
    /\ IsOpen(snapshot[s].question)
    /\ SourceIsLatest(s)
    /\ HoldsLease(s, o)
Reactivate(s, o) ==
    /\ ~ RowLocked(s)
    /\ CanReactivate(s, o)
    /\ trigger' = [trigger EXCEPT ![s].status = "active"]
    /\ UNCHANGED <<question, snapshot, tx>>
ReleaseLease(s, o) ==
    /\ snapshot[s] # None
    /\ ~ Locked(snapshot[s].question)
    /\ HoldsLease(s, o)
    /\ question' = [question EXCEPT ![snapshot[s].question] = WithoutLease(@)]
    /\ UNCHANGED <<snapshot, trigger, tx>>

-----------------------------------------------------------------------------
(* Partial choices of one trigger per claimed question. *)
Picks == UNION {[C -> State] : C \in (SUBSET Question) \ {{}}}

Next ==
    \/ \E q \in Question, s \in State, prev \in State \cup {None},
          asOf \in Time \cup {None}, due \in ReviewTime \cup {None} :
              BeginSnapshot(q, s, prev, asOf, due)
    \/ \E q \in Question : CommitSnapshot(q)
    \/ \E q \in Question, status \in {"resolved", "annulled"} : BeginClose(q, status)
    \/ \E q \in Question : CommitClose(q)
    \/ \E q \in Question : Rollback(q)
    \/ \E o \in Owner, asOf \in Time, pick \in Picks : ClaimDue(o, asOf, pick)
    \/ \E s \in State, o \in Owner, firedAt \in Time : MarkFired(s, o, firedAt)
    \/ \E q \in Question : RetireTriggers(q)
    \/ \E q \in Question : ClearLease(q)
    \/ \E s \in State, o \in Owner : Reactivate(s, o)
    \/ \E s \in State, o \in Owner : ReleaseLease(s, o)

Spec == Init /\ [][Next]_vars

-----------------------------------------------------------------------------
(* The snapshots of a question form one line that ends in the row's        *)
(* latest_snapshot_id: nothing follows the latest, everything else is      *)
(* followed by exactly one snapshot of the same question, and only the     *)
(* first follows nothing.  Two racing runs can never fork the history.     *)
ChainIsLinear ==
    \A q \in Question :
        /\ question[q].latest = None <=> Members(q) = {}
        /\ question[q].latest # None => question[q].latest \in Members(q)
        /\ \A s \in Members(q) :
              /\ snapshot[s].prev # None => snapshot[s].prev \in Members(q)
              /\ snapshot[s].prev # question[q].latest
              /\ s # question[q].latest => \E r \in Members(q) : snapshot[r].prev = s
              /\ \A r \in Members(q) : snapshot[r].prev = snapshot[s].prev => r = s

(* Along the line the forecast times strictly increase, so that the line   *)
(* has no cycle and a replay of the trajectory sees it in order.           *)
TimesAdvance ==
    \A s \in State :
        snapshot[s] # None /\ snapshot[s].prev # None =>
            /\ snapshot[s].asOf # None
            /\ snapshot[snapshot[s].prev].asOf # None =>
                  snapshot[s].asOf > snapshot[snapshot[s].prev].asOf

(* A resolved or annulled question is never picked up by a runner again:   *)
(* it holds no lease and no trigger of it is snoozed, though the closing   *)
(* races with claims, failed updates and the commits of late runs.         *)
ClosedQuestionIsQuiet ==
    \A q \in Question :
        question[q].status # "open" =>
            /\ question[q].leased = None /\ question[q].owner = None
            /\ \A s \in Members(q) : trigger[s].status # "snoozed"

(* A retired review is never scheduled again: whatever is still under way  *)
(* when a successor snapshot, a closing or a passed boundary retires it    *)
(* can neither fire nor reactivate it afterwards.                          *)
RetiredIsFinal ==
    [][\A s \in State : trigger[s].status = "retired" => trigger'[s].status = "retired"]_vars

(* A lease passes from one owner to another only past its expiry: the new  *)
(* lease ends at least one lease duration after the old one did.           *)
LeaseHandover ==
    [][\A q \in Question :
          LET old == question[q] new == question'[q]
          IN old.owner # None /\ new.owner \notin {None, old.owner} =>
                 new.expires >= old.expires + Lease]_vars

(* The refinement: what a reader sees of the questions and snapshots.      *)
Chain == INSTANCE SnapshotChain WITH
    Instant <- Time,
    head <- [q \in Question |-> question[q].latest],
    link <- snapshot,
    closed <- [q \in Question |-> question[q].status # "open"]

(* Snapshot commits and closings implement the promised line of snapshots: *)
(* the uncommitted steps, claims, firings and failures are invisible.      *)
ImplementsSnapshotChain == Chain!ChainSpec
=============================================================================
