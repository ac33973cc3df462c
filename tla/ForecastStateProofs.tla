------------------------- MODULE ForecastStateProofs -------------------------
(***************************************************************************)
(* What holds of ForecastState for every set of questions, snapshots and   *)
(* owners and for every lease and limit, with the proofs.                  *)
(*                                                                         *)
(* The inductive invariant IInv says, beside the types, what an open       *)
(* transaction may rely on until its commit because it holds the lock of   *)
(* the question row: the pointer it compared with, the status it read, the *)
(* state id it is about to insert, the forecast time of the predecessor    *)
(* and the triggers it is about to retire.                                 *)
(***************************************************************************)
EXTENDS ForecastState, TLAPS

(* A state that is not committed has no trigger, and a trigger that a      *)
(* transaction is about to retire exists.                                  *)
TriggersExist ==
    /\ \A s \in State : snapshot[s] = None => trigger[s].status = "none"
    /\ \A q \in Question : Locked(q) => \A s \in tx[q].retires : trigger[s].status # "none"

(* What a snapshot transaction decided on still holds. *)
PendingSnapshot(q) ==
    /\ question[q].status = "open"
    /\ question[q].latest = tx[q].prev
    /\ snapshot[tx[q].state] = None
    /\ Later(tx[q].prev, tx[q].asOf)
PendingIsStable == \A q \in Question : Locked(q) /\ tx[q].kind = "snapshot" => PendingSnapshot(q)

(* Two transactions never insert the same state id. *)
PendingIsUnique ==
    \A p, q \in Question :
        /\ Locked(p) /\ tx[p].kind = "snapshot"
        /\ Locked(q) /\ tx[q].kind = "snapshot"
        /\ tx[p].state = tx[q].state
        => p = q

(* While a question is locked, its snoozed triggers are locked too. *)
SnoozedIsLocked ==
    \A q \in Question : Locked(q) =>
        \A s \in Members(q) : trigger[s].status = "snoozed" => s \in tx[q].retires

TypeInv == TypeOK /\ TriggersExist
ChainInv == PendingIsStable /\ PendingIsUnique /\ ChainIsLinear /\ TimesAdvance
QuietInv == SnoozedIsLocked /\ ClosedQuestionIsQuiet
IInv == TypeInv /\ ChainInv /\ QuietInv

USE DEF QuestionStatus

-----------------------------------------------------------------------------
(* Typing of the helpers *)

LEMMA WithoutLeaseType ==
    ASSUME NEW row \in UnleasedRow \cup LeasedRow
    PROVE  /\ WithoutLease(row) \in UnleasedRow
           /\ WithoutLease(row).status = row.status
           /\ WithoutLease(row).latest = row.latest
  BY DEF WithoutLease, UnleasedRow, LeasedRow

LEMMA RetireAllType ==
    ASSUME trigger \in [State -> TriggerRow], NEW S \in SUBSET State,
           \A s \in S : trigger[s].status # "none"
    PROVE  /\ RetireAll(S) \in [State -> TriggerRow]
           /\ \A s \in State : RetireAll(S)[s].status # "none" <=> trigger[s].status # "none"
           /\ \A s \in S : RetireAll(S)[s].status = "retired"
           /\ \A s \in State \ S : RetireAll(S)[s] = trigger[s]
  <1>1. ASSUME NEW s \in S
        PROVE  [trigger[s] EXCEPT !.status = "retired"] \in TriggerRow
    BY DEF TriggerRow
  <1>2. ASSUME NEW s \in S
        PROVE  [trigger[s] EXCEPT !.status = "retired"].status = "retired"
    BY DEF TriggerRow
  <1> QED BY <1>1, <1>2 DEF RetireAll

LEMMA UnretiredHaveTriggers ==
    ASSUME NEW q \in Question
    PROVE  /\ Unretired(q) \in SUBSET State
           /\ \A s \in Unretired(q) : trigger[s].status # "none"
  BY DEF Unretired, Members

(* A trigger that a claim may choose has a due time. *)
LEMMA ClaimChoicesType ==
    ASSUME TypeOK, NEW q \in Question, NEW asOf \in Time, NEW s \in ClaimChoices(q, asOf)
    PROVE  /\ s \in Members(q)
           /\ trigger[s].status \in {"active", "snoozed"}
           /\ trigger[s].due \in ReviewTime
  <1>1. s \in Reclaimable(q, asOf) \cup DueActive(q, asOf)
    BY DEF ClaimChoices
  <1>2. /\ s \in Members(q)
        /\ trigger[s].status \in {"active", "snoozed"}
    BY <1>1 DEF Reclaimable, DueActive
  <1>3. trigger[s] \in TriggerRow
    BY <1>2 DEF TypeOK, Members
  <1> QED BY <1>2, <1>3 DEF TriggerRow

LEMMA TxType ==
    ASSUME TypeOK, NEW q \in Question, Locked(q)
    PROVE  /\ tx[q].kind = "snapshot" <=> tx[q] \in SnapshotTx
           /\ tx[q].kind = "close" <=> tx[q] \in CloseTx
           /\ tx[q].kind \in {"snapshot", "close"}
           /\ tx[q].retires \in SUBSET State
           /\ tx[q] \in SnapshotTx =>
                 /\ tx[q].state \in State
                 /\ tx[q].prev \in State \cup {None}
                 /\ tx[q].asOf \in Time \cup {None}
                 /\ tx[q].due \in ReviewTime \cup {None}
  <1>1. tx[q] \in SnapshotTx \/ tx[q] \in CloseTx
    BY DEF TypeOK, Locked
  <1>2. CASE tx[q] \in SnapshotTx
    BY <1>2 DEF SnapshotTx, CloseTx
  <1>3. CASE tx[q] \in CloseTx
    BY <1>3 DEF SnapshotTx, CloseTx
  <1> QED BY <1>1, <1>2, <1>3

LEMMA TypeInvInit == Init => TypeInv
  BY NoneAssumption DEF Init, TypeInv, TypeOK, TriggersExist, NewQuestion, UnleasedRow, TriggerRow,
     Locked

-----------------------------------------------------------------------------
(* Types are preserved *)

LEMMA TypeInvStep == TypeInv /\ [Next]_vars => TypeInv'
<1> SUFFICES ASSUME TypeInv, [Next]_vars PROVE TypeInv'
  OBVIOUS
<1> USE DEF TypeInv
<1>1. ASSUME NEW q \in Question, NEW s \in State, NEW prev \in State \cup {None},
             NEW asOf \in Time \cup {None}, NEW due \in ReviewTime \cup {None},
             BeginSnapshot(q, s, prev, asOf, due)
      PROVE  TypeInv'
  <2>1. tx'[q] \in SnapshotTx
    BY <1>1, UnretiredHaveTriggers DEF BeginSnapshot, SnapshotTx, TypeOK
  <2>2. TypeOK'
    BY <1>1, <2>1 DEF BeginSnapshot, TypeOK
  <2>3. \A p \in Question : Locked(p)' => \A r \in tx'[p].retires : trigger[r].status # "none"
    BY <1>1, UnretiredHaveTriggers DEF BeginSnapshot, TriggersExist, TypeOK, Locked
  <2> QED BY <1>1, <2>2, <2>3 DEF BeginSnapshot, TriggersExist
<1>2. ASSUME NEW q \in Question, CommitSnapshot(q)
      PROVE  TypeInv'
  <2> DEFINE s == tx[q].state
  <2>1. /\ tx[q] \in SnapshotTx
        /\ s \in State
        /\ tx[q].retires \in SUBSET State
        /\ \A r \in tx[q].retires : trigger[r].status # "none"
    BY <1>2, TxType DEF CommitSnapshot, TriggersExist
  <2>2. question'[q] \in UnleasedRow
    <3>1. WithoutLease(question[q]) \in UnleasedRow
      BY WithoutLeaseType DEF TypeOK
    <3> QED BY <1>2, <2>1, <3>1 DEF CommitSnapshot, UnleasedRow, TypeOK
  <2>3. question' \in [Question -> UnleasedRow \cup LeasedRow]
    BY <1>2, <2>2 DEF CommitSnapshot, TypeOK
  <2>4. snapshot' \in [State -> SnapshotRow \cup {None}]
    BY <1>2, <2>1 DEF CommitSnapshot, TypeOK, SnapshotRow, SnapshotTx
  <2>5. /\ RetireAll(tx[q].retires) \in [State -> TriggerRow]
        /\ \A r \in State : RetireAll(tx[q].retires)[r].status # "none" <=> trigger[r].status # "none"
    BY <2>1, RetireAllType DEF TypeOK
  <2>6. tx[q].due # None => [status |-> "active", due |-> tx[q].due] \in TriggerRow
    BY <2>1 DEF SnapshotTx, TriggerRow
  <2>7. trigger' \in [State -> TriggerRow]
    BY <1>2, <2>1, <2>5, <2>6 DEF CommitSnapshot
  <2>8. \A r \in State : trigger[r].status # "none" => trigger'[r].status # "none"
    BY <1>2, <2>1, <2>5 DEF CommitSnapshot
  <2>9. \A r \in State : snapshot'[r] = None => r # s \/ trigger'[r].status = "none"
    BY <1>2, <2>1, RowAssumption DEF CommitSnapshot, TypeOK, SnapshotRow, SnapshotTx
  <2>10. \A r \in State : r # s => snapshot'[r] = snapshot[r] /\ (trigger'[r].status # "none" <=> trigger[r].status # "none")
    BY <1>2, <2>1, <2>5 DEF CommitSnapshot, TypeOK
  <2>11. tx' \in [Question -> SnapshotTx \cup CloseTx \cup {None}]
    BY <1>2 DEF CommitSnapshot, TypeOK
  <2>12. \A p \in Question : Locked(p)' => Locked(p) /\ tx'[p] = tx[p]
    BY <1>2 DEF CommitSnapshot, TypeOK, Locked
  <2>13. TriggersExist'
    <3>1. \A p \in Question : Locked(p) => tx[p].retires \in SUBSET State
      BY DEF TypeOK, Locked, SnapshotTx, CloseTx
    <3> QED BY <2>8, <2>9, <2>10, <2>12, <3>1 DEF TriggersExist
  <2> QED BY <2>3, <2>4, <2>7, <2>11, <2>13 DEF TypeOK
<1>3. ASSUME NEW q \in Question, NEW status \in {"resolved", "annulled"}, BeginClose(q, status)
      PROVE  TypeInv'
  <2>1. tx'[q] \in CloseTx
    BY <1>3, UnretiredHaveTriggers DEF BeginClose, CloseTx, TypeOK
  <2>2. TypeOK'
    BY <1>3, <2>1 DEF BeginClose, TypeOK
  <2>3. \A p \in Question : Locked(p)' => \A r \in tx'[p].retires : trigger[r].status # "none"
    BY <1>3, UnretiredHaveTriggers DEF BeginClose, TriggersExist, TypeOK, Locked
  <2> QED BY <1>3, <2>2, <2>3 DEF BeginClose, TriggersExist
<1>4. ASSUME NEW q \in Question, CommitClose(q)
      PROVE  TypeInv'
  <2>1. /\ tx[q] \in CloseTx
        /\ tx[q].retires \in SUBSET State
        /\ \A r \in tx[q].retires : trigger[r].status # "none"
    BY <1>4, TxType DEF CommitClose, TriggersExist
  <2>2. question'[q] \in UnleasedRow
    <3>1. WithoutLease(question[q]) \in UnleasedRow
      BY WithoutLeaseType DEF TypeOK
    <3>2. tx[q].status \in QuestionStatus
      BY <2>1 DEF CloseTx
    <3> QED BY <1>4, <3>1, <3>2 DEF CommitClose, UnleasedRow, TypeOK
  <2>3. question' \in [Question -> UnleasedRow \cup LeasedRow]
    BY <1>4, <2>2 DEF CommitClose, TypeOK
  <2>4. /\ trigger' \in [State -> TriggerRow]
        /\ \A r \in State : trigger'[r].status # "none" <=> trigger[r].status # "none"
    BY <1>4, <2>1, RetireAllType DEF CommitClose, TypeOK
  <2>5. tx' \in [Question -> SnapshotTx \cup CloseTx \cup {None}]
    BY <1>4 DEF CommitClose, TypeOK
  <2>6. \A p \in Question : Locked(p)' => Locked(p) /\ tx'[p] = tx[p]
    BY <1>4 DEF CommitClose, TypeOK, Locked
  <2>7. TriggersExist'
    BY <1>4, <2>4, <2>6, TxType DEF TriggersExist, CommitClose
  <2> QED BY <1>4, <2>3, <2>4, <2>5, <2>7 DEF TypeOK, CommitClose
<1>5. ASSUME NEW q \in Question, Rollback(q)
      PROVE  TypeInv'
  <2>1. TypeOK'
    BY <1>5 DEF Rollback, TypeOK
  <2>2. \A p \in Question : Locked(p)' => Locked(p) /\ tx'[p] = tx[p]
    BY <1>5 DEF Rollback, TypeOK, Locked
  <2> QED BY <1>5, <2>1, <2>2 DEF Rollback, TriggersExist
(* The statements that touch only a lease or a trigger share one argument. *)
<1>6. ASSUME UNCHANGED <<snapshot, tx>>,
             question' \in [Question -> UnleasedRow \cup LeasedRow],
             trigger' \in [State -> TriggerRow],
             \A r \in State : trigger'[r].status = "none" <=> trigger[r].status = "none"
      PROVE  TypeInv'
  <2>1. TypeOK'
    BY <1>6 DEF TypeOK
  <2> QED BY <1>6, <2>1, TxType DEF TriggersExist, Locked
<1>7. ASSUME NEW o \in Owner, NEW asOf \in Time, NEW pick \in Picks, ClaimDue(o, asOf, pick)
      PROVE  TypeInv'
  <2>1. ASSUME NEW q \in DOMAIN pick
        PROVE  /\ q \in Question
               /\ pick[q] \in State
               /\ trigger[pick[q]].status # "none"
               /\ [trigger[pick[q]] EXCEPT !.status = "snoozed"] \in TriggerRow
    <3>1. q \in Question
      BY <1>7 DEF ClaimDue, Batch, Claimable
    <3>2. /\ pick[q] \in State
          /\ trigger[pick[q]].status \in {"active", "snoozed"}
          /\ trigger[pick[q]].due \in ReviewTime
      BY <1>7, <3>1, ClaimChoicesType DEF ClaimDue, Members
    <3>3. trigger[pick[q]] \in TriggerRow
      BY <3>2 DEF TypeOK
    <3> QED BY <3>1, <3>2, <3>3 DEF TriggerRow
  <2>2. asOf + Lease \in Nat
    BY NumberAssumption DEF Time
  <2>3. ASSUME NEW q \in Question, q \in DOMAIN pick
        PROVE  [question[q] EXCEPT !.owner = o, !.expires = asOf + Lease, !.leased = pick[q]]
                   \in LeasedRow
    <3>1. question[q] \in UnleasedRow \/ question[q] \in LeasedRow
      BY DEF TypeOK
    <3>2. pick[q] \in State
      BY <2>1, <2>3
    <3>3. CASE question[q] \in UnleasedRow
      BY <2>2, <3>2, <3>3 DEF UnleasedRow, LeasedRow
    <3>4. CASE question[q] \in LeasedRow
      BY <2>2, <3>2, <3>4 DEF UnleasedRow, LeasedRow
    <3> QED BY <3>1, <3>3, <3>4
  <2>4. question' \in [Question -> UnleasedRow \cup LeasedRow]
    BY <1>7, <2>3 DEF ClaimDue, TypeOK
  <2>5. /\ trigger' \in [State -> TriggerRow]
        /\ \A r \in State : trigger'[r].status = "none" <=> trigger[r].status = "none"
    BY <1>7, <2>1 DEF ClaimDue, TypeOK, TriggerRow
  <2> QED BY <1>6, <1>7, <2>4, <2>5 DEF ClaimDue
<1>8. ASSUME NEW s \in State, NEW st \in {"fired", "active"},
             UNCHANGED <<question, snapshot, tx>>,
             trigger[s].status \in {"fired", "snoozed"},
             trigger' = [trigger EXCEPT ![s].status = st]
      PROVE  TypeInv'
  <2>1. [trigger[s] EXCEPT !.status = st] \in TriggerRow
    BY <1>8 DEF TypeOK, TriggerRow
  <2>2. trigger' \in [State -> TriggerRow]
    BY <1>8, <2>1 DEF TypeOK
  <2>3. \A r \in State : trigger'[r].status = "none" <=> trigger[r].status = "none"
    BY <1>8 DEF TypeOK, TriggerRow
  <2> QED BY <1>6, <1>8, <2>2, <2>3 DEF TypeOK
<1>9. ASSUME NEW s \in State, NEW o \in Owner, NEW firedAt \in Time, MarkFired(s, o, firedAt)
      PROVE  TypeInv'
  BY <1>8, <1>9 DEF MarkFired, CanFire
<1>10. ASSUME NEW q \in Question, RetireTriggers(q)
       PROVE  TypeInv'
  <2>1. /\ trigger' \in [State -> TriggerRow]
        /\ \A r \in State : trigger'[r].status = "none" <=> trigger[r].status = "none"
    BY <1>10, UnretiredHaveTriggers, RetireAllType DEF RetireTriggers, TypeOK
  <2> QED BY <1>6, <1>10, <2>1 DEF RetireTriggers, TypeOK
<1>11. ASSUME NEW q \in Question,
              question' = [question EXCEPT ![q] = WithoutLease(@)],
              UNCHANGED <<snapshot, trigger, tx>>
       PROVE  TypeInv'
  <2>1. question' \in [Question -> UnleasedRow \cup LeasedRow]
    BY <1>11, WithoutLeaseType DEF TypeOK
  <2> QED BY <1>6, <1>11, <2>1 DEF TypeOK
<1>12. ASSUME NEW q \in Question, ClearLease(q)
       PROVE  TypeInv'
  BY <1>11, <1>12 DEF ClearLease
<1>13. ASSUME NEW s \in State, NEW o \in Owner, Reactivate(s, o)
       PROVE  TypeInv'
  BY <1>8, <1>13 DEF Reactivate, CanReactivate
<1>14. ASSUME NEW s \in State, NEW o \in Owner, ReleaseLease(s, o)
       PROVE  TypeInv'
  <2>1. snapshot[s].question \in Question
    BY <1>14 DEF ReleaseLease, TypeOK, SnapshotRow
  <2> QED BY <1>11, <1>14, <2>1 DEF ReleaseLease
<1>15. CASE UNCHANGED vars
  BY <1>15 DEF vars, TypeOK, TriggersExist, Locked
<1> QED
  BY <1>1, <1>2, <1>3, <1>4, <1>5, <1>7, <1>9, <1>10, <1>12, <1>13, <1>14, <1>15 DEF Next

(* Every row, trigger and transaction has the shape the schema gives it;   *)
(* in particular the three lease columns are null together.                *)
THEOREM TypeCorrect == Spec => []TypeOK
<1>1. Init => TypeInv
  BY TypeInvInit
<1>2. TypeInv /\ [Next]_vars => TypeInv'
  BY TypeInvStep
<1>3. TypeInv => TypeOK
  BY DEF TypeInv
<1> QED
  BY <1>1, <1>2, <1>3, PTL DEF Spec

-----------------------------------------------------------------------------
(* The chain of snapshots *)

(* The statements outside the two transactions move only leases and triggers. *)
SameChain ==
    /\ UNCHANGED <<snapshot, tx>>
    /\ \A q \in Question : /\ question'[q].latest = question[q].latest
                           /\ question'[q].status = question[q].status

LEMMA MembersType ==
    ASSUME TypeOK, NEW q \in Question, NEW s \in Members(q)
    PROVE  /\ s \in State
           /\ snapshot[s] \in SnapshotRow
           /\ snapshot[s] # None
           /\ snapshot[s].question = q
           /\ snapshot[s].prev \in State \cup {None}
           /\ snapshot[s].asOf \in Time \cup {None}
  <1>1. s \in State /\ snapshot[s] # None /\ snapshot[s] \in SnapshotRow /\ snapshot[s].question = q
    BY DEF TypeOK, Members
  <1> QED BY <1>1 DEF SnapshotRow

LEMMA OutsideTransactions ==
    ASSUME TypeOK, [Next]_vars
    PROVE  \/ \E q \in Question, s \in State, prev \in State \cup {None},
                 asOf \in Time \cup {None}, due \in ReviewTime \cup {None} :
                     BeginSnapshot(q, s, prev, asOf, due)
           \/ \E q \in Question : CommitSnapshot(q)
           \/ \E q \in Question, status \in {"resolved", "annulled"} : BeginClose(q, status)
           \/ \E q \in Question : CommitClose(q)
           \/ \E q \in Question : Rollback(q)
           \/ SameChain
<1>1. ASSUME NEW q \in Question, question' = [question EXCEPT ![q] = WithoutLease(@)],
             UNCHANGED <<snapshot, tx>>
      PROVE  SameChain
  <2>1. /\ WithoutLease(question[q]).status = question[q].status
        /\ WithoutLease(question[q]).latest = question[q].latest
    BY WithoutLeaseType DEF TypeOK
  <2> QED BY <1>1, <2>1 DEF SameChain, TypeOK
<1>2. ASSUME NEW o \in Owner, NEW asOf \in Time, NEW pick \in Picks, ClaimDue(o, asOf, pick)
      PROVE  SameChain
  <2>1. ASSUME NEW q \in Question
        PROVE  LET row == [question[q] EXCEPT !.owner = o, !.expires = asOf + Lease, !.leased = pick[q]]
               IN row.latest = question[q].latest /\ row.status = question[q].status
    <3>1. question[q] \in UnleasedRow \/ question[q] \in LeasedRow
      BY DEF TypeOK
    <3> QED BY <3>1 DEF UnleasedRow, LeasedRow
  <2> QED BY <1>2, <2>1 DEF ClaimDue, SameChain
<1>3. ASSUME NEW s \in State, NEW o \in Owner, ReleaseLease(s, o)
      PROVE  SameChain
  <2>1. snapshot[s].question \in Question
    BY <1>3 DEF ReleaseLease, TypeOK, SnapshotRow
  <2> QED BY <1>1, <1>3, <2>1 DEF ReleaseLease
<1>4. ASSUME UNCHANGED <<question, snapshot, tx>>
      PROVE  SameChain
  BY <1>4 DEF SameChain
<1>5. ASSUME NEW q \in Question, ClearLease(q)
      PROVE  SameChain
  BY <1>1, <1>5 DEF ClearLease
<1>6. ASSUME NEW s \in State, NEW o \in Owner, NEW firedAt \in Time, MarkFired(s, o, firedAt)
      PROVE  SameChain
  BY <1>4, <1>6 DEF MarkFired
<1>7. ASSUME NEW q \in Question, RetireTriggers(q)
      PROVE  SameChain
  BY <1>4, <1>7 DEF RetireTriggers
<1>8. ASSUME NEW s \in State, NEW o \in Owner, Reactivate(s, o)
      PROVE  SameChain
  BY <1>4, <1>8 DEF Reactivate
<1>9. CASE UNCHANGED vars
  BY <1>4, <1>9 DEF vars
<1> QED
  BY <1>2, <1>3, <1>5, <1>6, <1>7, <1>8, <1>9 DEF Next

LEMMA SameChainKeepsInv ==
    ASSUME TypeOK, ChainInv, SameChain
    PROVE  ChainInv'
  <1>1. \A q \in Question : Members(q)' = Members(q)
    BY DEF SameChain, Members
  <1>2. ChainIsLinear'
    BY <1>1 DEF ChainInv, ChainIsLinear, SameChain
  <1>3. TimesAdvance'
    BY DEF ChainInv, TimesAdvance, SameChain
  <1>4. PendingIsStable'
    BY DEF ChainInv, PendingIsStable, PendingSnapshot, SameChain, Locked, Later
  <1>5. PendingIsUnique'
    BY DEF ChainInv, PendingIsUnique, SameChain, Locked
  <1> QED BY <1>2, <1>3, <1>4, <1>5 DEF ChainInv

LEMMA RollbackKeepsChain ==
    ASSUME TypeOK, ChainInv, NEW q \in Question, Rollback(q)
    PROVE  ChainInv'
  <1>1. \A p \in Question : Locked(p)' => Locked(p) /\ tx'[p] = tx[p]
    BY DEF Rollback, TypeOK, Locked
  <1>2. ChainIsLinear' /\ TimesAdvance'
    BY DEF ChainInv, ChainIsLinear, TimesAdvance, Rollback, Members
  <1>3. PendingIsStable'
    BY <1>1 DEF ChainInv, PendingIsStable, PendingSnapshot, Rollback, Later
  <1>4. PendingIsUnique'
    BY <1>1 DEF ChainInv, PendingIsUnique
  <1> QED BY <1>2, <1>3, <1>4 DEF ChainInv

LEMMA BeginCloseKeepsChain ==
    ASSUME TypeOK, ChainInv, NEW q \in Question, NEW status \in {"resolved", "annulled"},
           BeginClose(q, status)
    PROVE  ChainInv'
  <1>1. \A p \in Question :
            Locked(p)' /\ tx'[p].kind = "snapshot" => Locked(p) /\ tx'[p] = tx[p]
    BY DEF BeginClose, TypeOK, Locked
  <1>2. ChainIsLinear' /\ TimesAdvance'
    BY DEF ChainInv, ChainIsLinear, TimesAdvance, BeginClose, Members
  <1>3. PendingIsStable'
    BY <1>1 DEF ChainInv, PendingIsStable, PendingSnapshot, BeginClose, Later
  <1>4. PendingIsUnique'
    BY <1>1 DEF ChainInv, PendingIsUnique
  <1> QED BY <1>2, <1>3, <1>4 DEF ChainInv

LEMMA CommitCloseKeepsChain ==
    ASSUME TypeOK, ChainInv, NEW q \in Question, CommitClose(q)
    PROVE  ChainInv'
  <1>1. \A p \in Question : Locked(p)' => p # q /\ Locked(p) /\ tx'[p] = tx[p]
    BY DEF CommitClose, TypeOK, Locked
  <1>2. \A p \in Question : p # q => question'[p] = question[p]
    BY DEF CommitClose, TypeOK
  <1>3. question'[q].latest = question[q].latest
    <2>1. /\ WithoutLease(question[q]) \in UnleasedRow
          /\ WithoutLease(question[q]).latest = question[q].latest
      BY WithoutLeaseType DEF TypeOK
    <2> QED BY <2>1 DEF CommitClose, TypeOK, UnleasedRow
  <1>4. \A p \in Question : question'[p].latest = question[p].latest /\ Members(p)' = Members(p)
    BY <1>2, <1>3 DEF CommitClose, Members
  <1>5. ChainIsLinear'
    BY <1>4 DEF ChainInv, ChainIsLinear, CommitClose
  <1>6. TimesAdvance'
    BY DEF ChainInv, TimesAdvance, CommitClose
  <1>7. PendingIsStable'
    BY <1>1, <1>2 DEF ChainInv, PendingIsStable, PendingSnapshot, CommitClose, Later
  <1>8. PendingIsUnique'
    BY <1>1 DEF ChainInv, PendingIsUnique
  <1> QED BY <1>5, <1>6, <1>7, <1>8 DEF ChainInv

LEMMA BeginSnapshotKeepsChain ==
    ASSUME TypeOK, ChainInv, NEW q \in Question, NEW s \in State,
           NEW prev \in State \cup {None}, NEW asOf \in Time \cup {None},
           NEW due \in ReviewTime \cup {None}, BeginSnapshot(q, s, prev, asOf, due)
    PROVE  ChainInv'
  <1>1. /\ \A p \in Question : p # q => tx'[p] = tx[p]
        /\ tx'[q].state = s /\ tx'[q].prev = prev /\ tx'[q].asOf = asOf
    BY DEF BeginSnapshot, TypeOK
  <1>2. ChainIsLinear' /\ TimesAdvance'
    BY DEF ChainInv, ChainIsLinear, TimesAdvance, BeginSnapshot, Members
  <1>3. PendingSnapshot(q)'
    BY <1>1 DEF PendingSnapshot, BeginSnapshot, IsOpen, UnusedStateId, ChronologyOK,
       AdvancesPointer, Later
  <1>4. PendingIsStable'
    BY <1>1, <1>3 DEF ChainInv, PendingIsStable, PendingSnapshot, BeginSnapshot, Locked, Later
  <1>5. \A p \in Question : p # q /\ Locked(p) => tx[p].state # s
    BY DEF BeginSnapshot, UnusedStateId
  <1>6. PendingIsUnique'
    BY <1>1, <1>5 DEF ChainInv, PendingIsUnique, Locked
  <1> QED BY <1>2, <1>4, <1>6 DEF ChainInv

(* The step that matters: the new snapshot goes after the head and nowhere *)
(* else, because the head has not moved since it was compared.             *)
LEMMA CommitSnapshotKeepsChain ==
    ASSUME TypeOK, ChainInv, NEW q \in Question, CommitSnapshot(q)
    PROVE  ChainInv'
  <1> DEFINE s == tx[q].state
             head == question[q].latest
  <1>1. /\ s \in State
        /\ tx[q].prev \in State \cup {None}
        /\ tx[q].asOf \in Time \cup {None}
    BY TxType DEF CommitSnapshot
  <1>2. /\ head = tx[q].prev
        /\ snapshot[s] = None
        /\ Later(head, tx[q].asOf)
    BY DEF ChainInv, PendingIsStable, PendingSnapshot, CommitSnapshot
  <1>3. /\ head = None \/ head \in Members(q)
        /\ head = None <=> Members(q) = {}
        /\ head # s
    BY <1>1, <1>2, NoneAssumption DEF ChainInv, ChainIsLinear, Members
  <1>4. /\ snapshot'[s] = [question |-> q, prev |-> head, asOf |-> tx[q].asOf]
        /\ \A r \in State : r # s => snapshot'[r] = snapshot[r]
    BY <1>1, <1>2 DEF CommitSnapshot, TypeOK
  <1>5. snapshot'[s] # None
    BY <1>1, <1>2, <1>4, RowAssumption DEF SnapshotRow
  <1>6. /\ Members(q)' = Members(q) \cup {s}
        /\ s \notin Members(q)
        /\ \A p \in Question : p # q => Members(p)' = Members(p) /\ s \notin Members(p)
    BY <1>1, <1>2, <1>4, <1>5 DEF Members
  <1>7. /\ question'[q].latest = s
        /\ \A p \in Question : p # q => question'[p] = question[p]
    <2>1. WithoutLease(question[q]) \in UnleasedRow
      BY WithoutLeaseType DEF TypeOK
    <2> QED BY <2>1 DEF CommitSnapshot, TypeOK, UnleasedRow
  <1>8. \A p \in Question : \A r \in Members(p) : snapshot[r].prev # s
    <2> SUFFICES ASSUME NEW p \in Question, NEW r \in Members(p), snapshot[r].prev = s
                 PROVE  FALSE
      OBVIOUS
    <2>1. s \in Members(p)
      BY <1>1, NoneAssumption DEF ChainInv, ChainIsLinear
    <2> QED BY <1>2, <2>1 DEF Members
  <1>9. ChainIsLinear'
    <2>1. ASSUME NEW p \in Question, p # q
          PROVE  /\ question'[p].latest = None <=> Members(p)' = {}
                 /\ question'[p].latest # None => question'[p].latest \in Members(p)'
                 /\ \A r \in Members(p)' :
                       /\ snapshot'[r].prev # None => snapshot'[r].prev \in Members(p)'
                       /\ snapshot'[r].prev # question'[p].latest
                       /\ r # question'[p].latest => \E t \in Members(p)' : snapshot'[t].prev = r
                       /\ \A t \in Members(p)' : snapshot'[t].prev = snapshot'[r].prev => t = r
      <3>1. /\ question'[p] = question[p] /\ Members(p)' = Members(p)
            /\ \A r \in Members(p) : snapshot'[r] = snapshot[r]
        BY <1>4, <1>6, <1>7, <2>1 DEF Members
      <3> QED BY <3>1 DEF ChainInv, ChainIsLinear
    <2>2. /\ question'[q].latest = None <=> Members(q)' = {}
          /\ question'[q].latest # None => question'[q].latest \in Members(q)'
      BY <1>1, <1>6, <1>7, NoneAssumption
    <2>3. \A r \in Members(q) : snapshot'[r] = snapshot[r]
      BY <1>4, <1>6 DEF Members
    <2>4. ASSUME NEW r \in Members(q)'
          PROVE  /\ snapshot'[r].prev # None => snapshot'[r].prev \in Members(q)'
                 /\ snapshot'[r].prev # question'[q].latest
                 /\ r # question'[q].latest => \E t \in Members(q)' : snapshot'[t].prev = r
      <3>1. CASE r = s
        BY <1>3, <1>4, <1>6, <1>7, <3>1
      <3>2. CASE r \in Members(q) /\ r = head
        BY <1>4, <1>6, <1>7, <1>8, <2>3, <3>2 DEF ChainInv, ChainIsLinear
      <3>3. CASE r \in Members(q) /\ r # head
        BY <1>6, <1>7, <1>8, <2>3, <3>3 DEF ChainInv, ChainIsLinear
      <3> QED BY <1>6, <2>4, <3>1, <3>2, <3>3
    <2>5. ASSUME NEW r \in Members(q)', NEW t \in Members(q)', snapshot'[t].prev = snapshot'[r].prev
          PROVE  t = r
      <3>1. \A u \in Members(q) : snapshot'[u].prev # head
        BY <2>3 DEF ChainInv, ChainIsLinear
      <3>2. CASE r = s \/ t = s
        BY <1>4, <1>6, <2>5, <3>1, <3>2
      <3>3. CASE r \in Members(q) /\ t \in Members(q)
        BY <2>3, <2>5, <3>3 DEF ChainInv, ChainIsLinear
      <3> QED BY <1>6, <2>5, <3>2, <3>3
    <2> QED BY <2>1, <2>2, <2>4, <2>5 DEF ChainIsLinear
  <1>10. TimesAdvance'
    <2> SUFFICES ASSUME NEW r \in State, snapshot'[r] # None, snapshot'[r].prev # None
                 PROVE  /\ snapshot'[r].asOf # None
                        /\ snapshot'[snapshot'[r].prev].asOf # None =>
                              snapshot'[r].asOf > snapshot'[snapshot'[r].prev].asOf
      BY DEF TimesAdvance
    <2>1. CASE r = s
      <3>1. head \in State /\ snapshot'[head] = snapshot[head]
        BY <1>3, <1>4, <2>1 DEF Members
      <3> QED BY <1>2, <1>4, <2>1, <3>1 DEF Later
    <2>2. CASE r # s
      <3>1. snapshot'[r] = snapshot[r]
        BY <1>4, <2>2
      <3>2. PICK p \in Question : r \in Members(p)
        BY <3>1 DEF TypeOK, SnapshotRow, Members
      <3>3. snapshot[r].prev \in Members(p)
        BY <3>1, <3>2 DEF ChainInv, ChainIsLinear
      <3>4. snapshot'[snapshot[r].prev] = snapshot[snapshot[r].prev]
        BY <1>4, <1>8, <3>2, <3>3 DEF Members
      <3> QED BY <3>1, <3>4 DEF ChainInv, TimesAdvance
    <2> QED BY <2>1, <2>2
  <1>11. \A p \in Question : Locked(p)' => p # q /\ Locked(p) /\ tx'[p] = tx[p]
    BY DEF CommitSnapshot, TypeOK, Locked
  <1>12. PendingIsStable'
    <2> SUFFICES ASSUME NEW p \in Question, Locked(p)', tx'[p].kind = "snapshot"
                 PROVE  PendingSnapshot(p)'
      BY DEF PendingIsStable
    <2>1. /\ p # q /\ Locked(p) /\ tx'[p] = tx[p] /\ question'[p] = question[p]
          /\ tx[p].kind = "snapshot"
      BY <1>7, <1>11
    <2>2. PendingSnapshot(p)
      BY <2>1 DEF ChainInv, PendingIsStable
    <2>3. tx[p].state \in State /\ tx[p].state # s
      BY <2>1, TxType DEF ChainInv, PendingIsUnique, CommitSnapshot
    <2>4. tx[p].prev # None => tx[p].prev \in Members(p)
      BY <2>2 DEF PendingSnapshot, ChainInv, ChainIsLinear
    <2>5. tx[p].prev # None => snapshot'[tx[p].prev] = snapshot[tx[p].prev]
      BY <1>2, <1>4, <2>4 DEF Members
    <2> QED BY <1>4, <2>1, <2>2, <2>3, <2>5 DEF PendingSnapshot, Later
  <1>13. PendingIsUnique'
    BY <1>11 DEF ChainInv, PendingIsUnique
  <1> QED BY <1>9, <1>10, <1>12, <1>13 DEF ChainInv

LEMMA ChainInvStep == TypeOK /\ ChainInv /\ [Next]_vars => ChainInv'
  BY OutsideTransactions, SameChainKeepsInv, RollbackKeepsChain, BeginCloseKeepsChain,
     CommitCloseKeepsChain, BeginSnapshotKeepsChain, CommitSnapshotKeepsChain

LEMMA ChainInvInit == Init => ChainInv
  BY NoneAssumption DEF Init, ChainInv, ChainIsLinear, TimesAdvance, PendingIsStable,
     PendingIsUnique, Locked, Members, NewQuestion

-----------------------------------------------------------------------------
(* Closed questions *)

LEMMA QuietInvInit == Init => QuietInv
  BY DEF Init, QuietInv, SnoozedIsLocked, ClosedQuestionIsQuiet, Locked, NewQuestion

(* Steps that snooze nothing, close nothing, lease nothing and lock nothing. *)
LEMMA ReleasingKeepsQuiet ==
    ASSUME TypeOK, QuietInv, snapshot' = snapshot,
           \A q \in Question : Locked(q)' => Locked(q) /\ tx'[q] = tx[q],
           \A s \in State : trigger'[s].status = "snoozed" => trigger[s].status = "snoozed",
           \A q \in Question : \/ question'[q] = question[q]
                               \/ question'[q] = WithoutLease(question[q])
    PROVE  QuietInv'
  <1>1. \A q \in Question : Members(q)' = Members(q) /\ Members(q) \subseteq State
    BY DEF Members
  <1>2. SnoozedIsLocked'
    BY <1>1 DEF QuietInv, SnoozedIsLocked
  <1>3. ASSUME NEW q \in Question, question'[q].status # "open"
        PROVE  /\ question'[q].leased = None /\ question'[q].owner = None
               /\ question[q].status # "open"
    <2>1. CASE question'[q] = question[q]
      BY <1>3, <2>1 DEF QuietInv, ClosedQuestionIsQuiet
    <2>2. CASE question'[q] = WithoutLease(question[q])
      <3>1. /\ WithoutLease(question[q]) \in UnleasedRow
            /\ WithoutLease(question[q]).status = question[q].status
        BY WithoutLeaseType DEF TypeOK
      <3> QED BY <1>3, <2>2, <3>1 DEF UnleasedRow
    <2> QED BY <2>1, <2>2
  <1>4. ClosedQuestionIsQuiet'
    BY <1>1, <1>3 DEF QuietInv, ClosedQuestionIsQuiet
  <1> QED BY <1>2, <1>4 DEF QuietInv

(* A transaction that starts locks every snoozed trigger of its question. *)
LEMMA LockingKeepsQuiet ==
    ASSUME TypeOK, QuietInv, NEW q \in Question, UNCHANGED <<question, snapshot, trigger>>,
           tx'[q].retires = Unretired(q),
           \A p \in Question : p # q => tx'[p] = tx[p]
    PROVE  QuietInv'
  <1>1. \A p \in Question : Members(p)' = Members(p)
    BY DEF Members
  <1>2. SnoozedIsLocked'
    BY <1>1 DEF QuietInv, SnoozedIsLocked, Unretired, Locked
  <1>3. ClosedQuestionIsQuiet'
    BY <1>1 DEF QuietInv, ClosedQuestionIsQuiet
  <1> QED BY <1>2, <1>3 DEF QuietInv

LEMMA CommitSnapshotKeepsQuiet ==
    ASSUME TypeInv, ChainInv, QuietInv, NEW q \in Question, CommitSnapshot(q)
    PROVE  QuietInv'
  <1> DEFINE s == tx[q].state
  <1>1. /\ s \in State /\ snapshot[s] = None /\ question[q].status = "open"
        /\ tx[q].retires \in SUBSET State
        /\ \A r \in tx[q].retires : trigger[r].status # "none"
    BY TxType DEF CommitSnapshot, TypeInv, TriggersExist, ChainInv, PendingIsStable, PendingSnapshot
  <1>2. \A p \in Question : Locked(p)' => p # q /\ Locked(p) /\ tx'[p] = tx[p]
    BY DEF CommitSnapshot, TypeInv, TypeOK, Locked
  <1>3. \A p \in Question : p # q => Members(p)' = Members(p) /\ question'[p] = question[p]
    BY <1>1 DEF CommitSnapshot, TypeInv, TypeOK, Members
  <1>4. question'[q].status = "open"
    <2>1. /\ WithoutLease(question[q]) \in UnleasedRow
          /\ WithoutLease(question[q]).status = "open"
      BY <1>1, WithoutLeaseType DEF TypeInv, TypeOK
    <2> QED BY <2>1 DEF CommitSnapshot, TypeInv, TypeOK, UnleasedRow
  <1>5. ASSUME NEW r \in State, trigger'[r].status = "snoozed"
        PROVE  trigger[r].status = "snoozed"
    <2>1. /\ RetireAll(tx[q].retires) \in [State -> TriggerRow]
          /\ \A u \in tx[q].retires : RetireAll(tx[q].retires)[u].status = "retired"
          /\ \A u \in State \ tx[q].retires : RetireAll(tx[q].retires)[u] = trigger[u]
      BY <1>1, RetireAllType DEF TypeInv, TypeOK
    <2>2. trigger'[r] = RetireAll(tx[q].retires)[r] \/ trigger'[r].status = "active"
      BY <1>1, <2>1 DEF CommitSnapshot
    <2> QED BY <1>5, <2>1, <2>2
  <1>6. \A p \in Question : Members(p) \subseteq State
    BY DEF Members
  <1>7. SnoozedIsLocked'
    BY <1>2, <1>3, <1>5, <1>6 DEF QuietInv, SnoozedIsLocked
  <1>8. ClosedQuestionIsQuiet'
    BY <1>3, <1>4, <1>5, <1>6 DEF QuietInv, ClosedQuestionIsQuiet
  <1> QED BY <1>7, <1>8 DEF QuietInv

LEMMA CommitCloseKeepsQuiet ==
    ASSUME TypeInv, QuietInv, NEW q \in Question, CommitClose(q)
    PROVE  QuietInv'
  <1>1. /\ tx[q].retires \in SUBSET State
        /\ \A r \in tx[q].retires : trigger[r].status # "none"
        /\ Locked(q)
    BY TxType DEF CommitClose, TypeInv, TriggersExist
  <1>2. /\ \A r \in tx[q].retires : trigger'[r].status = "retired"
        /\ \A r \in State \ tx[q].retires : trigger'[r] = trigger[r]
    BY <1>1, RetireAllType DEF CommitClose, TypeInv, TypeOK
  <1>3. \A p \in Question : Locked(p)' => Locked(p) /\ tx'[p] = tx[p]
    BY DEF CommitClose, TypeInv, TypeOK, Locked
  <1>4. \A p \in Question : Members(p)' = Members(p) /\ Members(p) \subseteq State
    BY DEF CommitClose, Members
  <1>5. /\ \A p \in Question : p # q => question'[p] = question[p]
        /\ question'[q].leased = None /\ question'[q].owner = None
    <2>1. WithoutLease(question[q]) \in UnleasedRow
      BY WithoutLeaseType DEF TypeInv, TypeOK
    <2> QED BY <2>1 DEF CommitClose, TypeInv, TypeOK, UnleasedRow
  <1>6. \A r \in State : trigger'[r].status = "snoozed" => r \notin tx[q].retires /\ trigger[r].status = "snoozed"
    BY <1>1, <1>2
  <1>7. SnoozedIsLocked'
    BY <1>3, <1>4, <1>6 DEF QuietInv, SnoozedIsLocked
  <1>8. ClosedQuestionIsQuiet'
    BY <1>1, <1>4, <1>5, <1>6 DEF QuietInv, SnoozedIsLocked, ClosedQuestionIsQuiet
  <1> QED BY <1>7, <1>8 DEF QuietInv

LEMMA ClaimKeepsQuiet ==
    ASSUME TypeInv, QuietInv, NEW o \in Owner, NEW asOf \in Time, NEW pick \in Picks,
           ClaimDue(o, asOf, pick)
    PROVE  QuietInv'
  <1>1. \A q \in DOMAIN pick :
            /\ q \in Question /\ ~ Locked(q) /\ question[q].status = "open"
            /\ pick[q] \in Members(q)
    BY ClaimChoicesType DEF ClaimDue, Batch, Claimable, IsOpen, TypeInv
  <1>2. /\ \A p \in Question : Locked(p)' = Locked(p) /\ Members(p)' = Members(p)
        /\ \A p \in Question : Members(p) \subseteq State
        /\ tx' = tx
    BY DEF ClaimDue, Locked, Members
  <1>3. ASSUME NEW p \in Question, p \notin DOMAIN pick, NEW s \in Members(p)
        PROVE  question'[p] = question[p] /\ trigger'[s] = trigger[s]
    <2>1. \A q \in DOMAIN pick : pick[q] # s
      BY <1>1, <1>3 DEF Members
    <2> QED BY <1>2, <1>3, <2>1 DEF ClaimDue
  <1>4. SnoozedIsLocked'
    BY <1>1, <1>2, <1>3 DEF QuietInv, SnoozedIsLocked
  <1>5. ASSUME NEW p \in Question, question'[p].status # "open"
        PROVE  p \notin DOMAIN pick /\ question'[p] = question[p]
    <2>1. CASE p \in DOMAIN pick
      <3>1. question[p] \in UnleasedRow \/ question[p] \in LeasedRow
        BY DEF TypeInv, TypeOK
      <3>2. question'[p].status = question[p].status
        BY <2>1, <3>1 DEF ClaimDue, UnleasedRow, LeasedRow
      <3> QED BY <1>1, <1>5, <2>1, <3>2
    <2> QED BY <2>1 DEF ClaimDue
  <1>6. ClosedQuestionIsQuiet'
    BY <1>2, <1>3, <1>5 DEF QuietInv, ClosedQuestionIsQuiet
  <1> QED BY <1>4, <1>6 DEF QuietInv

LEMMA QuietInvStep == TypeInv /\ ChainInv /\ QuietInv /\ [Next]_vars => QuietInv'
<1> SUFFICES ASSUME TypeInv, ChainInv, QuietInv, [Next]_vars PROVE QuietInv'
  OBVIOUS
<1> USE DEF TypeInv
<1>1. ASSUME NEW q \in Question, NEW s \in State, NEW prev \in State \cup {None},
             NEW asOf \in Time \cup {None}, NEW due \in ReviewTime \cup {None},
             BeginSnapshot(q, s, prev, asOf, due)
      PROVE  QuietInv'
  <2>1. tx'[q].retires = Unretired(q) /\ \A p \in Question : p # q => tx'[p] = tx[p]
    BY <1>1 DEF BeginSnapshot, TypeOK
  <2> QED BY <1>1, <2>1, LockingKeepsQuiet DEF BeginSnapshot
<1>2. ASSUME NEW q \in Question, NEW status \in {"resolved", "annulled"}, BeginClose(q, status)
      PROVE  QuietInv'
  <2>1. tx'[q].retires = Unretired(q) /\ \A p \in Question : p # q => tx'[p] = tx[p]
    BY <1>2 DEF BeginClose, TypeOK
  <2> QED BY <1>2, <2>1, LockingKeepsQuiet DEF BeginClose
<1>3. ASSUME NEW q \in Question, Rollback(q)
      PROVE  QuietInv'
  <2>1. \A p \in Question : Locked(p)' => Locked(p) /\ tx'[p] = tx[p]
    BY <1>3 DEF Rollback, TypeOK, Locked
  <2> QED BY <1>3, <2>1, ReleasingKeepsQuiet DEF Rollback
<1>4. ASSUME NEW s \in State, NEW st \in {"fired", "active"},
             UNCHANGED <<question, snapshot, tx>>,
             trigger' = [trigger EXCEPT ![s].status = st]
      PROVE  QuietInv'
  <2>1. \A r \in State : trigger'[r].status = "snoozed" => trigger[r].status = "snoozed"
    BY <1>4 DEF TypeOK, TriggerRow
  <2> QED BY <1>4, <2>1, ReleasingKeepsQuiet DEF Locked
<1>5. ASSUME NEW q \in Question, RetireTriggers(q)
      PROVE  QuietInv'
  <2>1. \A r \in State : trigger'[r].status = "snoozed" => trigger[r].status = "snoozed"
    BY <1>5, UnretiredHaveTriggers, RetireAllType DEF RetireTriggers, TypeOK
  <2> QED BY <1>5, <2>1, ReleasingKeepsQuiet DEF RetireTriggers, Locked
<1>6. ASSUME NEW q \in Question,
             question' = [question EXCEPT ![q] = WithoutLease(@)],
             UNCHANGED <<snapshot, trigger, tx>>
      PROVE  QuietInv'
  <2>1. \A p \in Question : \/ question'[p] = question[p]
                            \/ question'[p] = WithoutLease(question[p])
    BY <1>6 DEF TypeOK
  <2> QED BY <1>6, <2>1, ReleasingKeepsQuiet DEF Locked
<1>7. ASSUME NEW s \in State, NEW o \in Owner, ReleaseLease(s, o)
      PROVE  QuietInv'
  <2>1. snapshot[s].question \in Question
    BY <1>7 DEF ReleaseLease, TypeOK, SnapshotRow
  <2> QED BY <1>6, <1>7, <2>1 DEF ReleaseLease
<1>8. ASSUME NEW q \in Question, ClearLease(q)
      PROVE  QuietInv'
  BY <1>6, <1>8 DEF ClearLease
<1>9. ASSUME NEW s \in State, NEW o \in Owner, NEW firedAt \in Time, MarkFired(s, o, firedAt)
      PROVE  QuietInv'
  BY <1>4, <1>9 DEF MarkFired
<1>10. ASSUME NEW s \in State, NEW o \in Owner, Reactivate(s, o)
       PROVE  QuietInv'
  BY <1>4, <1>10 DEF Reactivate
<1>11. CASE UNCHANGED vars
  BY <1>11, ReleasingKeepsQuiet DEF vars, Locked
<1> QED
  BY <1>1, <1>2, <1>3, <1>5, <1>7, <1>8, <1>9, <1>10, <1>11, CommitSnapshotKeepsQuiet,
     CommitCloseKeepsQuiet, ClaimKeepsQuiet DEF Next

-----------------------------------------------------------------------------
LEMMA Invariance == Spec => []IInv
<1>1. Init => IInv
  BY TypeInvInit, ChainInvInit, QuietInvInit DEF IInv
<1>2. IInv /\ [Next]_vars => IInv'
  BY TypeInvStep, ChainInvStep, QuietInvStep DEF IInv, TypeInv
<1> QED
  BY <1>1, <1>2, PTL DEF Spec

(* Racing runs never fork the snapshot history of a question: it is one    *)
(* line from the first forecast to latest_snapshot_id.                     *)
THEOREM ChainCorrect == Spec => []ChainIsLinear
<1>1. IInv => ChainIsLinear
  BY DEF IInv, ChainInv
<1> QED BY <1>1, Invariance, PTL

(* The forecast times of that line strictly increase. *)
THEOREM TimesCorrect == Spec => []TimesAdvance
<1>1. IInv => TimesAdvance
  BY DEF IInv, ChainInv
<1> QED BY <1>1, Invariance, PTL

(* A question that was resolved or annulled holds no lease and no claim. *)
THEOREM ClosedCorrect == Spec => []ClosedQuestionIsQuiet
<1>1. IInv => ClosedQuestionIsQuiet
  BY DEF IInv, QuietInv
<1> QED BY <1>1, Invariance, PTL

-----------------------------------------------------------------------------
(* Action properties *)

LEMMA RetiredStaysStep ==
    ASSUME IInv, [Next]_vars, NEW s \in State, trigger[s].status = "retired"
    PROVE  trigger'[s].status = "retired"
<1> USE DEF IInv, TypeInv
<1>1. trigger[s].status \notin {"none", "active", "snoozed", "fired"}
  OBVIOUS
(* RetireAll leaves a retired trigger retired, in or out of the set. *)
<1>2. ASSUME NEW S \in SUBSET State, \A r \in S : trigger[r].status # "none"
      PROVE  RetireAll(S)[s].status = "retired"
  BY <1>2, RetireAllType DEF TypeOK
<1>3. ASSUME NEW q \in Question, Locked(q)
      PROVE  RetireAll(tx[q].retires)[s].status = "retired"
  BY <1>2, <1>3, TxType DEF TriggersExist
<1>4. ASSUME NEW q \in Question, CommitSnapshot(q)
      PROVE  trigger'[s].status = "retired"
  <2>1. snapshot[tx[q].state] = None /\ tx[q].state \in State
    BY <1>4, TxType DEF CommitSnapshot, ChainInv, PendingIsStable, PendingSnapshot
  <2>2. tx[q].state # s
    BY <2>1 DEF TriggersExist
  <2> QED BY <1>3, <1>4, <2>1, <2>2 DEF CommitSnapshot, RetireAll
<1>5. ASSUME NEW q \in Question, CommitClose(q)
      PROVE  trigger'[s].status = "retired"
  BY <1>3, <1>5 DEF CommitClose
<1>6. ASSUME NEW o \in Owner, NEW asOf \in Time, NEW pick \in Picks, ClaimDue(o, asOf, pick)
      PROVE  trigger'[s].status = "retired"
  <2>1. \A q \in DOMAIN pick : pick[q] # s
    <3> SUFFICES ASSUME NEW q \in DOMAIN pick PROVE pick[q] # s
      OBVIOUS
    <3>1. q \in Question /\ pick[q] \in ClaimChoices(q, asOf)
      BY <1>6 DEF ClaimDue, Batch, Claimable
    <3> QED BY <1>1, <3>1, ClaimChoicesType
  <2>2. ~ \E q \in DOMAIN pick : pick[q] = s
    BY <2>1
  <2>3. trigger'[s] = trigger[s]
    BY <1>6, <2>2 DEF ClaimDue
  <2> QED BY <2>3
<1>7. ASSUME NEW r \in State, NEW st \in {"fired", "active"},
             trigger[r].status \in {"fired", "snoozed"},
             trigger' = [trigger EXCEPT ![r].status = st]
      PROVE  trigger'[s].status = "retired"
  BY <1>1, <1>7 DEF TypeOK
<1>8. ASSUME NEW r \in State, NEW o \in Owner, NEW firedAt \in Time, MarkFired(r, o, firedAt)
      PROVE  trigger'[s].status = "retired"
  BY <1>7, <1>8 DEF MarkFired, CanFire
<1>9. ASSUME NEW r \in State, NEW o \in Owner, Reactivate(r, o)
      PROVE  trigger'[s].status = "retired"
  BY <1>7, <1>9 DEF Reactivate, CanReactivate
<1>10. ASSUME NEW q \in Question, RetireTriggers(q)
       PROVE  trigger'[s].status = "retired"
  BY <1>2, <1>10, UnretiredHaveTriggers DEF RetireTriggers
<1>11. ASSUME trigger' = trigger
       PROVE  trigger'[s].status = "retired"
  BY <1>11
<1> QED
  BY <1>4, <1>5, <1>6, <1>8, <1>9, <1>10, <1>11
     DEF Next, BeginSnapshot, BeginClose, Rollback, ClearLease, ReleaseLease, vars

(* A review that a successor, a closing or a passed boundary retired never *)
(* fires and is never scheduled again, however late a failure is noticed.  *)
THEOREM RetiredCorrect == Spec => RetiredIsFinal
<1>1. IInv /\ [Next]_vars =>
          [\A s \in State : trigger[s].status = "retired" => trigger'[s].status = "retired"]_vars
  BY RetiredStaysStep
<1> QED BY <1>1, Invariance, PTL DEF Spec, RetiredIsFinal

LEMMA HandoverStep ==
    ASSUME TypeOK, [Next]_vars, NEW q \in Question,
           question[q].owner # None, question'[q].owner \notin {None, question[q].owner}
    PROVE  question'[q].expires >= question[q].expires + Lease
<1>1. question[q] \in LeasedRow
  BY DEF TypeOK, UnleasedRow
(* Everything but a claim keeps the owner or leaves none. *)
<1>2. ASSUME NEW p \in Question, question'[p].owner = None,
             question' = [question EXCEPT ![p] = question'[p]]
      PROVE  FALSE
  BY <1>2 DEF TypeOK
<1>3. ASSUME NEW p \in Question, question' = [question EXCEPT ![p] = WithoutLease(@)]
      PROVE  FALSE
  <2>1. WithoutLease(question[p]) \in UnleasedRow
    BY WithoutLeaseType DEF TypeOK
  <2> QED BY <1>3, <2>1 DEF TypeOK, UnleasedRow
<1>4. ASSUME NEW p \in Question, CommitSnapshot(p) \/ CommitClose(p)
      PROVE  FALSE
  <2>1. WithoutLease(question[p]) \in UnleasedRow
    BY WithoutLeaseType DEF TypeOK
  <2> QED BY <1>4, <2>1 DEF CommitSnapshot, CommitClose, TypeOK, UnleasedRow
<1>5. ASSUME NEW p \in Question, ClearLease(p)
      PROVE  FALSE
  BY <1>3, <1>5 DEF ClearLease
<1>6. ASSUME NEW s \in State, NEW o \in Owner, ReleaseLease(s, o)
      PROVE  FALSE
  <2>1. snapshot[s].question \in Question
    BY <1>6 DEF ReleaseLease, TypeOK, SnapshotRow
  <2> QED BY <1>3, <1>6, <2>1 DEF ReleaseLease
<1>7. ASSUME NEW o \in Owner, NEW asOf \in Time, NEW pick \in Picks, ClaimDue(o, asOf, pick)
      PROVE  question'[q].expires >= question[q].expires + Lease
  <2>1. q \in DOMAIN pick
    BY <1>7 DEF ClaimDue
  <2>2. LeaseFree(q, asOf)
    BY <1>7, <2>1 DEF ClaimDue, Batch, Claimable
  <2>3. question[q].expires \in Nat /\ question[q].expires <= asOf
    BY <1>1, <2>2, NoneAssumption DEF LeaseFree, LeasedRow
  <2>4. question'[q].expires = asOf + Lease
    BY <1>1, <1>7, <2>1 DEF ClaimDue, LeasedRow
  <2> QED BY <2>3, <2>4, NumberAssumption DEF Time
<1> QED
  BY <1>4, <1>5, <1>6, <1>7
     DEF Next, BeginSnapshot, BeginClose, Rollback, MarkFired, RetireTriggers, Reactivate, vars

(* A second runner takes a question over only when the first one's lease   *)
(* has run out.                                                            *)
THEOREM HandoverCorrect == Spec => LeaseHandover
<1>1. TypeOK /\ [Next]_vars =>
          [\A q \in Question :
              LET old == question[q] new == question'[q]
              IN old.owner # None /\ new.owner \notin {None, old.owner} =>
                     new.expires >= old.expires + Lease]_vars
  BY HandoverStep
<1> QED BY <1>1, TypeCorrect, PTL DEF Spec, LeaseHandover

-----------------------------------------------------------------------------
(* Refinement *)

LEMMA RefinementInit == Init => Chain!ChainInit
<1> SUFFICES ASSUME Init PROVE Chain!ChainInit
  OBVIOUS
<1>1. \A q \in Question : question[q].latest = None /\ question[q].status = "open"
  BY DEF Init, NewQuestion
<1>2. [q \in Question |-> question[q].latest] = [q \in Question |-> None]
  BY <1>1
<1>3. [q \in Question |-> question[q].status # "open"] = [q \in Question |-> FALSE]
  BY <1>1, Zenon
<1> QED
  BY <1>2, <1>3 DEF Init, Chain!ChainInit

LEMMA RefinementStutter ==
    ASSUME TypeOK, SameChain
    PROVE  UNCHANGED Chain!chainVars
  BY DEF SameChain, Chain!chainVars

LEMMA RefinementPublish ==
    ASSUME TypeOK, ChainInv, NEW q \in Question, CommitSnapshot(q),
           NEW s \in State, s = tx[q].state, NEW asOf \in Time \cup {None}, asOf = tx[q].asOf
    PROVE  Chain!Publish(q, s, asOf)
  <1>1. PendingSnapshot(q)
    BY DEF ChainInv, PendingIsStable, CommitSnapshot
  <1>2. /\ question'[q].latest = tx[q].state
        /\ question'[q].status = question[q].status
        /\ \A p \in Question : p # q => question'[p] = question[p]
    <2>1. /\ WithoutLease(question[q]) \in UnleasedRow
          /\ WithoutLease(question[q]).status = question[q].status
      BY WithoutLeaseType DEF TypeOK
    <2> QED BY <2>1 DEF CommitSnapshot, TypeOK, UnleasedRow
  <1>3. Chain!Follows(question[q].latest, tx[q].asOf)
    BY <1>1 DEF PendingSnapshot, Later, Chain!Follows
  <1>4. snapshot' = [snapshot EXCEPT ![tx[q].state] =
            [question |-> q, prev |-> question[q].latest, asOf |-> tx[q].asOf]]
    BY <1>1 DEF CommitSnapshot, PendingSnapshot
  <1> QED BY <1>1, <1>2, <1>3, <1>4 DEF Chain!Publish, PendingSnapshot

LEMMA RefinementClose ==
    ASSUME TypeOK, NEW q \in Question, CommitClose(q)
    PROVE  Chain!Close(q)
  <1>1. tx[q].status \in {"resolved", "annulled"}
    BY TxType DEF CommitClose, CloseTx
  <1>2. /\ question'[q].latest = question[q].latest
        /\ question'[q].status = tx[q].status
        /\ \A p \in Question : p # q => question'[p] = question[p]
    <2>1. /\ WithoutLease(question[q]) \in UnleasedRow
          /\ WithoutLease(question[q]).latest = question[q].latest
      BY WithoutLeaseType DEF TypeOK
    <2> QED BY <2>1 DEF CommitClose, TypeOK, UnleasedRow
  <1>3. [p \in Question |-> question'[p].latest] = [p \in Question |-> question[p].latest]
    BY <1>2
  <1>4. ASSUME NEW p \in Question
        PROVE  (question'[p].status # "open") = (IF p = q THEN TRUE ELSE question[p].status # "open")
    BY <1>1, <1>2
  <1>5. [p \in Question |-> question'[p].status # "open"] =
            [[p \in Question |-> question[p].status # "open"] EXCEPT ![q] = TRUE]
    BY <1>4, Zenon
  <1> QED BY <1>3, <1>5 DEF CommitClose, Chain!Close

LEMMA RefinementStep == IInv /\ [Next]_vars => [Chain!ChainNext]_(Chain!chainVars)
<1> SUFFICES ASSUME IInv, [Next]_vars PROVE [Chain!ChainNext]_(Chain!chainVars)
  OBVIOUS
<1>1. TypeOK /\ ChainInv
  BY DEF IInv, TypeInv
<1>2. ASSUME NEW q \in Question, CommitSnapshot(q)
      PROVE  Chain!ChainNext
  <2>1. PICK s \in State, asOf \in Time \cup {None} : s = tx[q].state /\ asOf = tx[q].asOf
    BY <1>1, <1>2, TxType DEF CommitSnapshot
  <2>2. Chain!Publish(q, s, asOf)
    BY <1>1, <1>2, <2>1, RefinementPublish
  <2> QED BY <2>2 DEF Chain!ChainNext
<1>3. ASSUME NEW q \in Question, CommitClose(q)
      PROVE  Chain!ChainNext
  <2>1. Chain!Close(q)
    BY <1>1, <1>3, RefinementClose
  <2> QED BY <2>1 DEF Chain!ChainNext
<1>4. CASE UNCHANGED <<question, snapshot>>
  BY <1>4 DEF Chain!chainVars
<1> QED
  BY <1>1, <1>2, <1>3, <1>4, OutsideTransactions, RefinementStutter
     DEF BeginSnapshot, BeginClose, Rollback

(* Commits and closings are the only steps a reader of the chain sees, and *)
(* they are the steps the promise allows.                                  *)
THEOREM Refinement == Spec => ImplementsSnapshotChain
<1>1. Init => Chain!ChainInit
  BY RefinementInit
<1>2. IInv /\ [Next]_vars => [Chain!ChainNext]_(Chain!chainVars)
  BY RefinementStep
<1> QED
  BY <1>1, <1>2, Invariance, PTL DEF Spec, ImplementsSnapshotChain, Chain!ChainSpec

=============================================================================
