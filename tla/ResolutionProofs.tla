--------------------------- MODULE ResolutionProofs ---------------------------
(***************************************************************************)
(* What holds of Resolution for every number of snapshots, plain tasks,    *)
(* resolutions and requests, with the proofs: scores and trajectories are  *)
(* complete and written once, repeated resolutions are forced, questions   *)
(* are closed by their resolutions and leave no memory active.             *)
(*                                                                         *)
(* The inductive invariant ResolutionInv adds to IInv what a request may   *)
(* rely on because it holds the lock of its task, and of the question if   *)
(* the task has one: what it has found is still all there is.              *)
(***************************************************************************)
EXTENDS Resolution, ForecastStateProofs

Request == [pc : {"idle", "locked", "writing"}, wish : Wish \cup {None}, used : Row \cup {None}]
Busy(w) == resolver[w].pc # "idle"
Writing(w) == resolver[w].pc = "writing"
Closing(w) == Writing(w) /\ resolver[w].wish.task \in State

RowTypes ==
    /\ isolated \subseteq State
    /\ memory \in [State -> {"none", "active", "deprecated"}]
    /\ resolution \in [Row -> ResolutionRow \cup {None}]
    /\ scores \in [Row -> {0, 1}]
    /\ points \in [Row -> SUBSET State]
ResolvedHaveLedger == \A r \in Row : resolution[r] # None => HasLedger(resolution[r].task)
RowInv ==
    /\ RowTypes /\ ResolvedHaveLedger
    /\ ScoredExactlyOnce /\ TrajectoryIsComplete /\ RepeatsAreForced
    /\ ClosedByItsResolutions /\ MemoryFollowsChain

(* A request has locked a task that has a ledger, and no other has. *)
RequestTypes ==
    /\ resolver \in [Resolver -> Request]
    /\ \A w \in Resolver : Busy(w) => resolver[w].wish \in Wish /\ HasLedger(resolver[w].wish.task)
TaskIsMine ==
    \A v, w \in Resolver : Busy(v) /\ Busy(w) /\ resolver[v].wish.task = resolver[w].wish.task => v = w

(* The resolution it has found is there, and if it has found none, there   *)
(* is still none but for those it is to repeat. *)
FoundIsKept ==
    \A w \in Resolver : Writing(w) =>
        LET used == resolver[w].used
            wish == resolver[w].wish
        IN /\ used # None => resolution[used] # None /\ resolution[used].task = wish.task
           /\ used = None => wish.force \/ Existing(wish) = {}

(* It holds the question it closes, alone. *)
CloserHoldsLock ==
    \A w \in Resolver : Closing(w) =>
        LET q == QuestionOf(resolver[w].wish.task) IN
        /\ Locked(q) /\ tx[q].kind = "close"
        /\ tx[q].status = IF Annulled(resolver[w].wish, resolver[w].used)
                          THEN "annulled" ELSE "resolved"
OneCloser ==
    \A v, w \in Resolver :
        Closing(v) /\ Closing(w)
        /\ QuestionOf(resolver[v].wish.task) = QuestionOf(resolver[w].wish.task) => v = w

RequestInv == RequestTypes /\ TaskIsMine /\ FoundIsKept /\ CloserHoldsLock /\ OneCloser
ResolutionInv == IInv /\ RowInv /\ RequestInv

-----------------------------------------------------------------------------
(* Typing of the helpers *)

LEMMA WishTypes ==
    ASSUME RequestTypes, NEW w \in Resolver, Busy(w)
    PROVE  /\ resolver[w].wish \in Wish /\ resolver[w].wish.task \in Task
           /\ resolver[w].used \in Row \cup {None}
           /\ HasLedger(resolver[w].wish.task)
  BY DEF RequestTypes, Request, Wish

LEMMA LedgerQuestion ==
    ASSUME TypeOK, NEW t \in State, HasLedger(t)
    PROVE  QuestionOf(t) \in Question /\ t \in Members(QuestionOf(t))
<1>1. snapshot[t] \in SnapshotRow
  BY DEF HasLedger, TypeOK
<1> QED BY <1>1 DEF HasLedger, QuestionOf, SnapshotRow, Members

LEMMA ResolutionTypes ==
    ASSUME RowTypes, NEW r \in Row, resolution[r] # None
    PROVE  /\ resolution[r] \in ResolutionRow /\ resolution[r].task \in Task
           /\ resolution[r].annulled \in BOOLEAN
  BY DEF RowTypes, ResolutionRow

-----------------------------------------------------------------------------
(* The database makes steps of ForecastState only *)

LEMMA ResolutionInvInit == ResolutionInit => ResolutionInv
<1> SUFFICES ASSUME ResolutionInit PROVE ResolutionInv
  OBVIOUS
<1>1. IInv
  BY TypeInvInit, ChainInvInit, QuietInvInit DEF ResolutionInit, IInv
<1>2. \A q \in Question : Members(q) = {} /\ RowsOf(q) = {} /\ LocalMemory(q) = {}
  BY DEF ResolutionInit, Init, Members, RowsOf, LocalMemory
<1>3. RowInv
  BY <1>2 DEF ResolutionInit, Init, NewQuestion, RowInv, RowTypes, ResolvedHaveLedger,
     ScoredExactlyOnce, TrajectoryIsComplete, RepeatsAreForced, ClosedByItsResolutions,
     MemoryFollowsChain
<1>4. \A w \in Resolver : resolver[w] = NoResolver
  BY DEF ResolutionInit
<1>5. RequestInv
  BY <1>4 DEF ResolutionInit, NoResolver, RequestInv, RequestTypes, Request, TaskIsMine,
     FoundIsKept, CloserHoldsLock, OneCloser, Busy, Writing, Closing
<1> QED BY <1>1, <1>3, <1>5 DEF ResolutionInv

LEMMA DatabaseSteps ==
    ASSUME ResolutionInv, [ResolutionNext]_everything
    PROVE  [Next]_vars
<1>1. TypeOK /\ RequestTypes
  BY DEF ResolutionInv, IInv, TypeInv, RequestInv
<1>2. ASSUME NEW q \in Question, NEW s \in State, NEW prev \in State \cup {None},
             NEW asOf \in Time \cup {None}, WriteSnapshot(q, s, prev, asOf)
      PROVE  Next
  BY <1>2 DEF WriteSnapshot, Next
<1>3. ASSUME NEW q \in Question, FinishSnapshot(q) \/ DropSnapshot(q)
      PROVE  Next
  BY <1>3 DEF FinishSnapshot, DropSnapshot, Next
<1>4. ASSUME NEW w \in Resolver, NEW wish \in Wishes, LockTask(w, wish)
      PROVE  UNCHANGED vars
  BY <1>4 DEF LockTask
<1>5. ASSUME NEW w \in Resolver, Busy(w), resolver[w].wish.task \in State
      PROVE  QuestionOf(resolver[w].wish.task) \in Question
  BY <1>1, <1>5, WishTypes, LedgerQuestion
<1>6. ASSUME NEW w \in Resolver, ChooseResolution(w)
      PROVE  [Next]_vars
  <2> Busy(w)
    BY <1>6 DEF ChooseResolution, Busy
  <2>1. CASE resolver[w].wish.task \in State
    BY <1>5, <1>6, <2>1 DEF ChooseResolution, Next
  <2>2. CASE resolver[w].wish.task \notin State
    BY <1>6, <2>2 DEF ChooseResolution
  <2> QED BY <2>1, <2>2
<1>7. ASSUME NEW w \in Resolver, CommitResolution(w)
      PROVE  [Next]_vars
  <2> Busy(w)
    BY <1>7 DEF CommitResolution, Busy
  <2>1. CASE resolver[w].wish.task \in State
    BY <1>5, <1>7, <2>1 DEF CommitResolution, Next
  <2>2. CASE resolver[w].wish.task \notin State
    BY <1>7, <2>2 DEF CommitResolution
  <2> QED BY <2>1, <2>2
<1>8. ASSUME NEW w \in Resolver, AbortResolution(w)
      PROVE  [Next]_vars
  <2> Busy(w)
    BY <1>8 DEF AbortResolution, Busy
  <2>1. CASE resolver[w].pc = "writing" /\ resolver[w].wish.task \in State
    BY <1>5, <1>8, <2>1 DEF AbortResolution, Next
  <2>2. CASE ~ (resolver[w].pc = "writing" /\ resolver[w].wish.task \in State)
    BY <1>8, <2>2 DEF AbortResolution
  <2> QED BY <2>1, <2>2
<1>9. CASE UNCHANGED everything
  BY <1>9 DEF everything
<1> QED BY <1>2, <1>3, <1>4, <1>6, <1>7, <1>8, <1>9 DEF ResolutionNext

-----------------------------------------------------------------------------
(* What leaves the rows alone *)

LEMMA RowFrame ==
    ASSUME RowInv, UNCHANGED <<question, snapshot, isolated, memory, resolutionVars>>
    PROVE  RowInv'
<1> USE DEF RowInv, resolutionVars
<1>1. RowTypes' /\ ResolvedHaveLedger'
  BY DEF RowTypes, ResolvedHaveLedger, HasLedger
<1>2. ScoredExactlyOnce' /\ RepeatsAreForced'
  BY DEF ScoredExactlyOnce, RepeatsAreForced, ScoreEligible
<1>3. TrajectoryIsComplete'
  BY DEF TrajectoryIsComplete, Trajectory, QuestionOf, Members
<1>4. ClosedByItsResolutions'
  BY DEF ClosedByItsResolutions, RowsOf, Members
<1>5. MemoryFollowsChain'
  BY DEF MemoryFollowsChain, LocalMemory, Members
<1> QED BY <1>1, <1>2, <1>3, <1>4, <1>5

-----------------------------------------------------------------------------
(* What leaves the requests alone *)

LEMMA RequestFrame ==
    ASSUME ResolutionInv, UNCHANGED <<resolver, resolution>>,
           \A s \in State : snapshot[s] # None => snapshot'[s] = snapshot[s],
           \A q \in Question : Locked(q) /\ tx[q].kind = "close" => tx'[q] = tx[q]
    PROVE  RequestInv'
<1>1. TypeOK /\ RequestInv
  BY DEF ResolutionInv, IInv, TypeInv
<1>2. \A w \in Resolver : Busy(w)' = Busy(w) /\ Writing(w)' = Writing(w) /\ Closing(w)' = Closing(w)
  BY DEF Busy, Writing, Closing
<1>3. RequestTypes'
  BY <1>1, <1>2 DEF RequestInv, RequestTypes, HasLedger, Request, Wish
<1>4. TaskIsMine'
  BY <1>1, <1>2 DEF RequestInv, TaskIsMine
<1>5. FoundIsKept'
  BY <1>1, <1>2 DEF RequestInv, FoundIsKept, Existing
<1>6. ASSUME NEW w \in Resolver, Closing(w)
      PROVE  /\ QuestionOf(resolver[w].wish.task)' = QuestionOf(resolver[w].wish.task)
             /\ QuestionOf(resolver[w].wish.task) \in Question
  <2>1. HasLedger(resolver[w].wish.task) /\ resolver[w].wish.task \in State
    BY <1>1, <1>6, WishTypes DEF Closing, Writing, Busy, RequestInv
  <2> QED BY <1>1, <2>1, LedgerQuestion DEF QuestionOf, HasLedger
<1>7. CloserHoldsLock'
  <2> SUFFICES ASSUME NEW w \in Resolver, Closing(w)
               PROVE  LET q == QuestionOf(resolver[w].wish.task) IN
                      /\ Locked(q)' /\ tx'[q].kind = "close"
                      /\ tx'[q].status = IF Annulled(resolver[w].wish, resolver[w].used)
                                         THEN "annulled" ELSE "resolved"
    BY <1>2, <1>6 DEF CloserHoldsLock, Annulled
  <2> QED BY <1>1, <1>6 DEF RequestInv, CloserHoldsLock, Locked
<1>8. OneCloser'
  BY <1>1, <1>2, <1>6 DEF RequestInv, OneCloser
<1> QED BY <1>3, <1>4, <1>5, <1>7, <1>8 DEF RequestInv

(* A request that ends leaves the others what they have found. *)
LEMMA RequestEnds ==
    ASSUME ResolutionInv, NEW w \in Resolver, Busy(w),
           resolver' = [resolver EXCEPT ![w] = NoResolver], UNCHANGED snapshot,
           \A q \in Question :
               (Closing(w) => q # QuestionOf(resolver[w].wish.task)) => tx'[q] = tx[q],
           \A r \in Row : resolution[r] # None => resolution'[r] = resolution[r],
           \A r \in Row : resolution[r] = None /\ resolution'[r] # None =>
               resolution'[r].task = resolver[w].wish.task
    PROVE  RequestInv'
<1>1. TypeOK /\ RequestInv /\ resolver \in [Resolver -> Request]
  BY DEF ResolutionInv, IInv, TypeInv, RequestInv, RequestTypes
<1>2. ~ Busy(w)' /\ ~ Writing(w)' /\ ~ Closing(w)'
  BY <1>1 DEF NoResolver, Busy, Writing, Closing
<1>3. \A v \in Resolver : v # w => resolver'[v] = resolver[v]
  BY <1>1
<1>4. \A v \in Resolver : v # w =>
         Busy(v)' = Busy(v) /\ Writing(v)' = Writing(v) /\ Closing(v)' = Closing(v)
  BY <1>3 DEF Busy, Writing, Closing
<1>5. RequestTypes'
  <2>1. NoResolver \in Request
    BY DEF NoResolver, Request
  <2>2. resolver' \in [Resolver -> Request]
    BY <1>1, <2>1
  <2> QED BY <1>1, <1>2, <1>3, <1>4, <2>2 DEF RequestInv, RequestTypes, HasLedger, Request, Wish
<1>6. TaskIsMine'
  BY <1>1, <1>2, <1>3, <1>4 DEF RequestInv, TaskIsMine
<1>7. FoundIsKept'
  <2> SUFFICES ASSUME NEW v \in Resolver, v # w, Writing(v)
               PROVE  LET used == resolver[v].used
                          wish == resolver[v].wish
                      IN /\ used # None => resolution'[used] # None /\ resolution'[used].task = wish.task
                         /\ used = None => wish.force \/ Existing(wish)' = {}
    BY <1>2, <1>3, <1>4 DEF FoundIsKept, Existing
  <2>1. Busy(v) /\ resolver[v].used \in Row \cup {None}
    BY <1>1, WishTypes DEF Busy, Writing, RequestInv
  <2>2. resolver[v].wish.task # resolver[w].wish.task
    BY <1>1, <2>1 DEF RequestInv, TaskIsMine
  <2>3. Existing(resolver[v].wish)' \subseteq Existing(resolver[v].wish)
    BY <1>3, <2>2 DEF Existing
  <2> QED BY <1>1, <2>1, <2>3 DEF RequestInv, FoundIsKept
<1>8. ASSUME NEW v \in Resolver, Closing(v)
      PROVE  /\ QuestionOf(resolver[v].wish.task)' = QuestionOf(resolver'[v].wish.task)
             /\ QuestionOf(resolver[v].wish.task) \in Question
             /\ v # w => tx'[QuestionOf(resolver[v].wish.task)] = tx[QuestionOf(resolver[v].wish.task)]
  <2>1. HasLedger(resolver[v].wish.task) /\ resolver[v].wish.task \in State
    BY <1>1, <1>8, WishTypes DEF Closing, Writing, Busy, RequestInv
  <2>2. QuestionOf(resolver[v].wish.task) \in Question
    BY <1>1, <2>1, LedgerQuestion
  <2>3. v # w /\ Closing(w) => QuestionOf(resolver[v].wish.task) # QuestionOf(resolver[w].wish.task)
    BY <1>1, <1>8 DEF RequestInv, OneCloser
  <2> QED BY <2>2, <2>3 DEF QuestionOf
<1>9. CloserHoldsLock'
  <2> SUFFICES ASSUME NEW v \in Resolver, v # w, Closing(v)
               PROVE  LET q == QuestionOf(resolver[v].wish.task) IN
                      /\ Locked(q)' /\ tx'[q].kind = "close"
                      /\ tx'[q].status = IF Annulled(resolver[v].wish, resolver[v].used)'
                                         THEN "annulled" ELSE "resolved"
    BY <1>2, <1>3, <1>4, <1>8 DEF CloserHoldsLock, QuestionOf, Annulled, Locked
  <2>1. resolver[v].used # None => resolution'[resolver[v].used] = resolution[resolver[v].used]
    BY <1>1, WishTypes DEF Closing, Writing, Busy, RequestInv, FoundIsKept
  <2>2. Annulled(resolver[v].wish, resolver[v].used)' = Annulled(resolver[v].wish, resolver[v].used)
    BY <1>3, <2>1 DEF Annulled
  <2> QED BY <1>1, <1>8, <2>2 DEF RequestInv, CloserHoldsLock, Locked
<1>10. OneCloser'
  BY <1>1, <1>2, <1>3, <1>4, <1>8 DEF RequestInv, OneCloser, QuestionOf
<1> QED BY <1>5, <1>6, <1>7, <1>9, <1>10 DEF RequestInv

-----------------------------------------------------------------------------
(* The steps of a request *)

LEMMA LockTaskKeeps ==
    ASSUME ResolutionInv, NEW w \in Resolver, NEW wish \in Wishes, LockTask(w, wish)
    PROVE  RequestInv'
<1> DEFINE request == [pc |-> "locked", wish |-> wish, used |-> None]
<1>1. TypeOK /\ RequestInv /\ resolver \in [Resolver -> Request] /\ wish \in Wish
  BY ResolutionAssumption DEF ResolutionInv, IInv, TypeInv, RequestInv, RequestTypes
<1>2. /\ resolver'[w] = request
      /\ \A v \in Resolver : v # w => resolver'[v] = resolver[v]
      /\ resolver[w].pc = "idle" /\ TaskFree(wish.task) /\ HasLedger(wish.task)
      /\ UNCHANGED <<snapshot, tx, resolution>>
  BY <1>1 DEF LockTask, vars, resolutionVars
<1>3. request \in Request /\ request.pc = "locked" /\ request.wish = wish
  BY <1>1 DEF Request
<1>4. /\ Busy(w)' /\ ~ Writing(w)' /\ ~ Closing(w)'
      /\ \A v \in Resolver : v # w =>
            Busy(v)' = Busy(v) /\ Writing(v)' = Writing(v) /\ Closing(v)' = Closing(v)
  BY <1>2, <1>3 DEF Busy, Writing, Closing
<1>5. RequestTypes'
  <2>1. resolver' \in [Resolver -> Request]
    BY <1>1, <1>3 DEF LockTask
  <2> QED BY <1>1, <1>2, <1>3, <1>4, <2>1 DEF RequestInv, RequestTypes, HasLedger
<1>6. TaskIsMine'
  <2>1. \A v \in Resolver : Busy(v) => resolver[v].wish.task # wish.task
    BY <1>2 DEF TaskFree, Busy
  <2> QED BY <1>1, <1>2, <1>3, <1>4, <2>1 DEF RequestInv, TaskIsMine
<1>7. FoundIsKept'
  BY <1>1, <1>2, <1>4 DEF RequestInv, FoundIsKept, Existing
<1>8. CloserHoldsLock'
  BY <1>1, <1>2, <1>4 DEF RequestInv, CloserHoldsLock, QuestionOf, Locked, Annulled
<1>9. OneCloser'
  BY <1>1, <1>2, <1>4 DEF RequestInv, OneCloser, QuestionOf
<1> QED BY <1>5, <1>6, <1>7, <1>8, <1>9 DEF RequestInv

LEMMA ChooseResolutionKeeps ==
    ASSUME ResolutionInv, NEW w \in Resolver, ChooseResolution(w)
    PROVE  RequestInv'
<1> DEFINE wish == resolver[w].wish
           q == QuestionOf(wish.task)
<1>1. TypeOK /\ RequestInv /\ resolver \in [Resolver -> Request]
  BY DEF ResolutionInv, IInv, TypeInv, RequestInv, RequestTypes
<1>2. /\ Busy(w) /\ ~ Writing(w) /\ wish \in Wish /\ HasLedger(wish.task)
      /\ wish.task \in State => q \in Question
  <2>1. Busy(w) /\ ~ Writing(w)
    BY DEF ChooseResolution, Busy, Writing
  <2> QED BY <1>1, <2>1, WishTypes, LedgerQuestion DEF RequestInv
<1>3. PICK found \in Row \cup {None} :
         /\ IF wish.force \/ Existing(wish) = {} THEN found = None ELSE found \in Existing(wish)
         /\ resolver' = [resolver EXCEPT ![w].pc = "writing", ![w].used = found]
         /\ IF wish.task \in State
            THEN BeginClose(q, IF Annulled(wish, found) THEN "annulled" ELSE "resolved")
            ELSE UNCHANGED vars
  BY DEF ChooseResolution
<1>4. /\ resolver'[w].pc = "writing" /\ resolver'[w].wish = wish /\ resolver'[w].used = found
      /\ resolver'[w] \in Request /\ resolver' \in [Resolver -> Request]
      /\ \A v \in Resolver : v # w => resolver'[v] = resolver[v]
  <2>1. [[resolver[w] EXCEPT !.pc = "writing"] EXCEPT !.used = found] \in Request
    BY <1>1 DEF Request
  <2>2. resolver'[w] = [[resolver[w] EXCEPT !.pc = "writing"] EXCEPT !.used = found]
    BY <1>1, <1>3
  <2> QED BY <1>1, <1>3, <2>1, <2>2 DEF Request
<1>5. UNCHANGED <<snapshot, resolution>>
  BY <1>3 DEF ChooseResolution, BeginClose, vars, resolutionVars
<1>6. /\ Busy(w)' /\ Writing(w)' /\ Closing(w)' = (wish.task \in State)
      /\ \A v \in Resolver : v # w =>
            Busy(v)' = Busy(v) /\ Writing(v)' = Writing(v) /\ Closing(v)' = Closing(v)
  BY <1>4 DEF Busy, Writing, Closing
<1>7. RequestTypes'
  BY <1>1, <1>2, <1>4, <1>5, <1>6 DEF RequestInv, RequestTypes, HasLedger
<1>8. TaskIsMine'
  BY <1>1, <1>2, <1>4, <1>6 DEF RequestInv, TaskIsMine
<1>9. FoundIsKept'
  <2>1. found # None => resolution[found] # None /\ resolution[found].task = wish.task
    BY <1>3 DEF Existing
  <2>2. found = None => wish.force \/ Existing(wish) = {}
    BY <1>3, ResolutionAssumption DEF Existing
  <2> QED BY <1>1, <1>4, <1>5, <1>6, <2>1, <2>2 DEF RequestInv, FoundIsKept, Existing
<1>10. ASSUME wish.task \in State
       PROVE  /\ ~ Locked(q)
              /\ tx'[q] # None /\ tx'[q].kind = "close"
              /\ tx'[q].status = IF Annulled(wish, found) THEN "annulled" ELSE "resolved"
              /\ \A p \in Question : p # q => tx'[p] = tx[p]
  <2> DEFINE close == [kind |-> "close", state |-> None,
                       status |-> IF Annulled(wish, found) THEN "annulled" ELSE "resolved",
                       retires |-> Unretired(q)]
  <2>1. ~ Locked(q) /\ tx' = [tx EXCEPT ![q] = close]
    BY <1>3, <1>10 DEF BeginClose
  <2>2. tx'[q] = close /\ \A p \in Question : p # q => tx'[p] = tx[p]
    BY <1>1, <1>2, <1>10, <2>1 DEF TypeOK
  <2>3. close \in CloseTx
    BY <1>2, <1>10, UnretiredHaveTriggers DEF CloseTx
  <2> QED BY <2>1, <2>2, <2>3, RowAssumption
<1>11. \A v \in Resolver : Closing(v) =>
          /\ QuestionOf(resolver[v].wish.task) \in Question
          /\ Locked(QuestionOf(resolver[v].wish.task))
          /\ resolver[v].used \in Row \cup {None}
  BY <1>1, WishTypes, LedgerQuestion DEF Closing, Writing, Busy, RequestInv, CloserHoldsLock
<1>12. \A v \in Resolver : v # w /\ Closing(v) =>
          tx'[QuestionOf(resolver[v].wish.task)] = tx[QuestionOf(resolver[v].wish.task)]
  <2>1. CASE wish.task \in State
    BY <1>10, <1>11, <2>1
  <2>2. CASE wish.task \notin State
    BY <1>3, <2>2 DEF vars
  <2> QED BY <2>1, <2>2
<1>13. \A v \in Resolver : resolver'[v].wish = resolver[v].wish
  BY <1>4
<1>14. CloserHoldsLock'
  <2> SUFFICES ASSUME NEW v \in Resolver, Closing(v)',
                      NEW p, p = QuestionOf(resolver[v].wish.task)
               PROVE  /\ tx'[p] # None /\ tx'[p].kind = "close"
                      /\ tx'[p].status = IF Annulled(resolver[v].wish, resolver'[v].used)
                                         THEN "annulled" ELSE "resolved"
    BY <1>5, <1>13 DEF CloserHoldsLock, QuestionOf, Annulled, Locked
  <2>1. CASE v = w
    BY <1>4, <1>6, <1>10, <2>1
  <2>2. CASE v # w
    <3>1. Closing(v) /\ resolver'[v] = resolver[v] /\ tx'[p] = tx[p]
      BY <1>4, <1>6, <1>12, <2>2
    <3> QED BY <1>1, <3>1 DEF RequestInv, CloserHoldsLock, Locked
  <2> QED BY <2>1, <2>2
<1>15. OneCloser'
  <2>1. \A v \in Resolver : v # w /\ Closing(v) /\ wish.task \in State =>
           QuestionOf(resolver[v].wish.task) # q
    BY <1>10, <1>11
  <2>2. \A v \in Resolver : QuestionOf(resolver[v].wish.task)' = QuestionOf(resolver[v].wish.task)
    BY <1>5, <1>13 DEF QuestionOf
  <2> QED BY <1>1, <1>6, <2>1, <2>2 DEF RequestInv, OneCloser
<1> QED BY <1>7, <1>8, <1>9, <1>14, <1>15 DEF RequestInv

-----------------------------------------------------------------------------
(* The rows, when a snapshot is committed *)

LEMMA FinishSnapshotKeeps ==
    ASSUME ResolutionInv, NEW q \in Question, FinishSnapshot(q)
    PROVE  RowInv' /\ RequestInv'
<1> DEFINE s == tx[q].state
<1>1. TypeOK /\ RowInv /\ PendingIsStable
  BY DEF ResolutionInv, IInv, TypeInv, ChainInv
<1>2. CommitSnapshot(q) /\ Locked(q) /\ tx[q].kind = "snapshot"
  BY DEF FinishSnapshot, CommitSnapshot
<1>3. s \in State /\ tx[q] \in SnapshotTx
  BY <1>1, <1>2, TxType
<1>4. snapshot[s] = None /\ question[q].status = "open"
  BY <1>1, <1>2 DEF PendingIsStable, PendingSnapshot
<1>5. /\ snapshot'[s] # None /\ snapshot'[s].question = q
      /\ \A t \in State : t # s => snapshot'[t] = snapshot[t]
  <2> DEFINE new == [question |-> q, prev |-> tx[q].prev, asOf |-> tx[q].asOf]
  <2>1. new \in SnapshotRow
    BY <1>3 DEF SnapshotRow, SnapshotTx
  <2>2. snapshot' = [snapshot EXCEPT ![s] = new]
    BY <1>2 DEF CommitSnapshot
  <2> QED BY <1>1, <1>3, <2>1, <2>2, RowAssumption DEF TypeOK
<1>6. /\ question'[q].status = "open" /\ question'[q].latest = s
      /\ \A p \in Question : p # q => question'[p] = question[p]
  <2> DEFINE new == [WithoutLease(question[q]) EXCEPT !.latest = s]
  <2>1. WithoutLease(question[q]) \in UnleasedRow /\ WithoutLease(question[q]).status = "open"
    BY <1>1, <1>4, WithoutLeaseType DEF TypeOK
  <2>2. new.status = "open" /\ new.latest = s
    BY <2>1 DEF UnleasedRow
  <2>3. question' = [question EXCEPT ![q] = new]
    BY <1>2 DEF CommitSnapshot
  <2> QED BY <1>1, <2>2, <2>3 DEF TypeOK
<1>7. UNCHANGED <<isolated, resolution, scores, points, resolver>>
  BY DEF FinishSnapshot, resolutionVars
<1>8. /\ Members(q)' = Members(q) \cup {s} /\ s \notin Members(q)
      /\ \A p \in Question : p # q => Members(p)' = Members(p) /\ s \notin Members(p)
  BY <1>3, <1>4, <1>5 DEF Members
<1>9. \A r \in Row : resolution[r] # None => HasLedger(resolution[r].task) /\ resolution[r].task # s
  BY <1>1, <1>3, <1>4 DEF RowInv, ResolvedHaveLedger, HasLedger
<1>10. \A p \in Question : RowsOf(p)' = RowsOf(p)
  BY <1>7, <1>8, <1>9 DEF RowsOf
<1>11. RowTypes' /\ ResolvedHaveLedger'
  <2>1. memory' \in [State -> {"none", "active", "deprecated"}]
    BY <1>1 DEF FinishSnapshot, Deprecate, RowInv, RowTypes
  <2>2. RowTypes'
    BY <1>1, <1>7, <2>1 DEF RowInv, RowTypes
  <2>3. ResolvedHaveLedger'
    BY <1>1, <1>5, <1>7, <1>9 DEF RowInv, ResolvedHaveLedger, HasLedger
  <2> QED BY <2>2, <2>3
<1>12. ScoredExactlyOnce' /\ RepeatsAreForced'
  BY <1>1, <1>7 DEF RowInv, ScoredExactlyOnce, ScoreEligible, RepeatsAreForced
<1>13. TrajectoryIsComplete'
  <2> SUFFICES ASSUME NEW r \in Row, resolution[r] # None, resolution[r].task \in State
               PROVE  Trajectory(resolution[r].task)' = Trajectory(resolution[r].task)
    BY <1>1, <1>7 DEF RowInv, TrajectoryIsComplete, Trajectory
  <2> DEFINE p == QuestionOf(resolution[r].task)
  <2>1. p \in Question /\ resolution[r].task \in Members(p)
    BY <1>1, <1>9, LedgerQuestion
  <2>2. r \in RowsOf(p)
    BY <2>1 DEF RowsOf
  <2>3. p # q
    BY <1>1, <1>4, <2>2 DEF RowInv, ClosedByItsResolutions
  <2>4. Members(p)' = Members(p) /\ QuestionOf(resolution[r].task)' = p
    BY <1>5, <1>7, <1>8, <1>9, <2>1, <2>3 DEF QuestionOf, Members
  <2> QED BY <1>7, <2>4 DEF Trajectory
<1>14. ClosedByItsResolutions'
  BY <1>1, <1>4, <1>6, <1>7, <1>10 DEF RowInv, ClosedByItsResolutions
<1>15. MemoryFollowsChain'
  <2>1. /\ \A t \in LocalMemory(q) : t # s => memory'[t] # "active"
        /\ \A t \in State : t # s /\ t \notin LocalMemory(q) => memory'[t] = memory[t]
    <3>1. PICK status \in {"none", "active"} :
             memory' = [Deprecate(LocalMemory(q)) EXCEPT ![s] = status]
      BY DEF FinishSnapshot
    <3>2. \A t \in State : t # s =>
             memory'[t] = IF t \in LocalMemory(q) THEN "deprecated" ELSE memory[t]
      BY <3>1 DEF Deprecate
    <3>3. LocalMemory(q) \subseteq State
      BY DEF LocalMemory, Members
    <3> QED BY <3>2, <3>3
  <2>2. LocalMemory(q)' \subseteq {s}
    <3>1. \A t \in Members(q) : t \in State
      BY DEF Members
    <3> QED BY <1>8, <2>1, <3>1 DEF LocalMemory
  <2>3. ASSUME NEW p \in Question, p # q
        PROVE  LocalMemory(p)' = LocalMemory(p)
    <3>1. \A t \in Members(p) : t \in State /\ t # s /\ t \notin LocalMemory(q)
      BY <1>8, <2>3 DEF LocalMemory, Members
    <3> QED BY <1>8, <2>1, <2>3, <3>1 DEF LocalMemory
  <2> QED BY <1>1, <1>6, <2>2, <2>3 DEF RowInv, MemoryFollowsChain
<1>16. RequestInv'
  <2>1. \A t \in State : snapshot[t] # None => snapshot'[t] = snapshot[t]
    BY <1>4, <1>5
  <2>2. \A p \in Question : Locked(p) /\ tx[p].kind = "close" => tx'[p] = tx[p]
    BY <1>1, <1>2 DEF CommitSnapshot, TypeOK
  <2> QED BY <1>7, <2>1, <2>2, RequestFrame
<1> QED BY <1>11, <1>12, <1>13, <1>14, <1>15, <1>16 DEF RowInv

-----------------------------------------------------------------------------
(* The rows, when a resolution is committed *)

LEMMA CommitResolutionKeeps ==
    ASSUME ResolutionInv, NEW w \in Resolver, CommitResolution(w)
    PROVE  RowInv' /\ RequestInv'
<1> DEFINE wish == resolver[w].wish
           used == resolver[w].used
           annulled == Annulled(wish, used)
           q == QuestionOf(wish.task)
           new == [task |-> wish.task, value |-> wish.value,
                   annulled |-> wish.annul, forced |-> wish.force]
<1>1. TypeOK /\ RowInv /\ RequestInv /\ RowTypes
  BY DEF ResolutionInv, IInv, TypeInv, RowInv
<1>2. Busy(w) /\ Writing(w)
  BY DEF CommitResolution, Busy, Writing
<1>3. wish \in Wish /\ wish.task \in Task /\ used \in Row \cup {None} /\ HasLedger(wish.task)
  BY <1>1, <1>2, WishTypes DEF RequestInv
<1>4. /\ used # None => resolution[used] # None /\ resolution[used].task = wish.task
      /\ used = None => wish.force \/ Existing(wish) = {}
  BY <1>1, <1>2 DEF RequestInv, FoundIsKept
<1>5. new \in ResolutionRow /\ new # None
  BY <1>3, ResolutionAssumption DEF ResolutionRow, Wish
<1>6. PICK r \in Row :
         /\ IF used = None THEN resolution[r] = None ELSE r = used
         /\ resolution' = IF used # None THEN resolution ELSE [resolution EXCEPT ![r] = new]
         /\ WriteScores(r, wish.task, annulled)
  BY DEF CommitResolution
<1>7. /\ resolution'[r] # None /\ resolution'[r].task = wish.task
      /\ resolution'[r].annulled = annulled
      /\ resolution' \in [Row -> ResolutionRow \cup {None}]
      /\ \A o \in Row : o # r => resolution'[o] = resolution[o]
      /\ resolution[r] # None => resolution'[r] = resolution[r]
  <2>1. CASE used = None
    <3>1. resolution' = [resolution EXCEPT ![r] = new] /\ resolution[r] = None
      BY <1>6, <2>1
    <3>2. resolution'[r] = new
      BY <1>1, <3>1 DEF RowTypes
    <3>3. annulled = wish.annul
      BY <2>1 DEF Annulled
    <3> QED BY <1>1, <1>5, <3>1, <3>2, <3>3 DEF RowTypes
  <2>2. CASE used # None
    <3>1. resolution' = resolution /\ r = used
      BY <1>6, <2>2
    <3> QED BY <1>1, <1>4, <2>2, <3>1 DEF RowTypes, Annulled
  <2> QED BY <2>1, <2>2
<1>8. UNCHANGED <<snapshot, isolated>>
  BY DEF CommitResolution, CommitClose, vars
<1>9. \A p : Members(p)' = Members(p)
  BY <1>8 DEF Members
<1>10. wish.task \in State => q \in Question /\ wish.task \in Members(q)
  BY <1>1, <1>3, LedgerQuestion
<1>11. wish.task \in State => Closing(w)
  BY <1>2 DEF Closing
<1>12. RowTypes' /\ ResolvedHaveLedger'
  <2>1. scores' \in [Row -> {0, 1}]
    BY <1>1, <1>6 DEF RowTypes, WriteScores, Unscored
  <2>2. points' \in [Row -> SUBSET State]
    BY <1>1, <1>6 DEF RowTypes, WriteScores, Trajectory, Members
  <2>3. memory' \in [State -> {"none", "active", "deprecated"}]
    BY <1>1 DEF RowTypes, CommitResolution, Deprecate
  <2>4. RowTypes'
    BY <1>1, <1>7, <1>8, <2>1, <2>2, <2>3 DEF RowTypes
  <2>5. ResolvedHaveLedger'
    BY <1>1, <1>3, <1>7, <1>8 DEF RowInv, ResolvedHaveLedger, HasLedger
  <2> QED BY <2>4, <2>5
<1>13. ScoredExactlyOnce'
  <2> SUFFICES ASSUME NEW o \in Row
               PROVE  scores'[o] = IF resolution'[o] # None /\ ~ resolution'[o].annulled
                                      /\ ScoreEligible(resolution'[o].task) THEN 1 ELSE 0
    BY <1>8 DEF ScoredExactlyOnce, ScoreEligible
  <2>1. CASE o # r
    <3>1. scores'[o] = scores[o]
      BY <1>1, <1>6, <2>1 DEF WriteScores, RowTypes
    <3> QED BY <1>1, <1>7, <2>1, <3>1 DEF RowInv, ScoredExactlyOnce
  <2>2. CASE o = r
    <3>1. scores'[r] = IF ~ annulled /\ ScoreEligible(wish.task) /\ Unscored(r)
                       THEN scores[r] + 1 ELSE scores[r]
      BY <1>1, <1>6 DEF WriteScores, RowTypes
    <3>2. CASE resolution[r] = None
      <4>1. scores[r] = 0
        BY <1>1, <3>2 DEF RowInv, ScoredExactlyOnce
      <4> QED BY <1>7, <2>2, <3>1, <4>1 DEF Unscored
    <3>3. CASE resolution[r] # None
      <4>1. scores[r] = IF ~ annulled /\ ScoreEligible(wish.task) THEN 1 ELSE 0
        BY <1>1, <1>7, <3>3 DEF RowInv, ScoredExactlyOnce
      <4> QED BY <1>7, <2>2, <3>1, <4>1 DEF Unscored
    <3> QED BY <3>2, <3>3
  <2> QED BY <2>1, <2>2
<1>14. TrajectoryIsComplete'
  <2> SUFFICES ASSUME NEW o \in Row
               PROVE  points'[o] = IF resolution'[o] # None /\ ~ resolution'[o].annulled
                                      /\ resolution'[o].task \in State
                                   THEN Trajectory(resolution'[o].task) ELSE {}
    BY <1>8 DEF TrajectoryIsComplete, Trajectory, QuestionOf, Members
  <2>1. CASE o # r
    <3>1. points'[o] = points[o]
      BY <1>1, <1>6, <2>1 DEF WriteScores, RowTypes
    <3> QED BY <1>1, <1>7, <2>1, <3>1 DEF RowInv, TrajectoryIsComplete
  <2>2. CASE o = r
    <3>1. points'[r] = IF ~ annulled /\ wish.task \in State
                       THEN points[r] \cup Trajectory(wish.task) ELSE points[r]
      BY <1>1, <1>6 DEF WriteScores, RowTypes
    <3>2. CASE resolution[r] = None
      <4>1. points[r] = {}
        BY <1>1, <3>2 DEF RowInv, TrajectoryIsComplete
      <4> QED BY <1>7, <2>2, <3>1, <4>1
    <3>3. CASE resolution[r] # None
      <4>1. points[r] = IF ~ annulled /\ wish.task \in State THEN Trajectory(wish.task) ELSE {}
        BY <1>1, <1>7, <3>3 DEF RowInv, TrajectoryIsComplete
      <4> QED BY <1>7, <2>2, <3>1, <4>1
    <3> QED BY <3>2, <3>3
  <2> QED BY <2>1, <2>2
<1>15. RepeatsAreForced'
  <2>1. CASE used # None
    BY <1>1, <1>6, <2>1 DEF RowInv, RepeatsAreForced
  <2>2. CASE used = None
    <3>1. resolution'[r] = new /\ resolution[r] = None
      BY <1>1, <1>6, <2>2 DEF RowTypes
    <3>2. ASSUME NEW o \in Row, o # r, resolution[o] # None,
                 resolution[o].task = wish.task, resolution[o].value = wish.value
          PROVE  new.forced
      BY <1>4, <2>2, <3>2 DEF Existing
    <3> QED BY <1>1, <1>7, <3>1, <3>2 DEF RowInv, RepeatsAreForced
  <2> QED BY <2>1, <2>2
<1>16. wish.task \in State =>
          /\ question'[q].status = IF annulled THEN "annulled" ELSE "resolved"
          /\ \A p \in Question : p # q => question'[p] = question[p] /\ tx'[p] = tx[p]
  <2> SUFFICES ASSUME wish.task \in State
               PROVE  /\ question'[q].status = IF annulled THEN "annulled" ELSE "resolved"
                      /\ \A p \in Question : p # q => question'[p] = question[p] /\ tx'[p] = tx[p]
    OBVIOUS
  <2> DEFINE row == [WithoutLease(question[q]) EXCEPT !.status = tx[q].status]
  <2>1. CommitClose(q)
    BY DEF CommitResolution
  <2>2. tx[q].status = IF annulled THEN "annulled" ELSE "resolved"
    BY <1>1, <1>11 DEF RequestInv, CloserHoldsLock
  <2>3. WithoutLease(question[q]) \in UnleasedRow
    BY <1>1, <1>10, WithoutLeaseType DEF TypeOK
  <2>4. row.status = tx[q].status
    BY <2>3 DEF UnleasedRow
  <2>5. question' = [question EXCEPT ![q] = row] /\ tx' = [tx EXCEPT ![q] = None]
    BY <2>1 DEF CommitClose
  <2>6. question'[q] = row
    BY <1>1, <1>10, <2>5 DEF TypeOK
  <2> QED BY <1>1, <2>2, <2>4, <2>5, <2>6 DEF TypeOK
<1>17. wish.task \notin State => UNCHANGED <<question, tx, memory>>
  BY DEF CommitResolution, vars
<1>18. ClosedByItsResolutions'
  <2>1. \A p \in Question : wish.task \notin Members(p) => RowsOf(p)' = RowsOf(p)
    BY <1>6, <1>7, <1>9 DEF RowsOf
  <2>2. \A p \in Question : wish.task \in Members(p) => wish.task \in State /\ p = q
    BY DEF Members, QuestionOf
  <2>3. \A p \in Question : p # q \/ wish.task \notin State =>
           question'[p] = question[p] /\ RowsOf(p)' = RowsOf(p)
    BY <1>16, <1>17, <2>1, <2>2
  <2>4. \A p \in Question : p = q /\ wish.task \in State => r \in RowsOf(p)'
    BY <1>7, <1>9, <1>10 DEF RowsOf
  <2> SUFFICES ASSUME NEW p \in Question
               PROVE  /\ question'[p].status = "open" <=> RowsOf(p)' = {}
                      /\ question'[p].status # "open" =>
                            \E o \in RowsOf(p)' :
                               resolution'[o].annulled = (question'[p].status = "annulled")
    BY DEF ClosedByItsResolutions
  <2>5. CASE p # q \/ wish.task \notin State
    <3>1. \A o \in RowsOf(p) : resolution'[o] = resolution[o]
      BY <1>7 DEF RowsOf
    <3> QED BY <1>1, <2>3, <2>5, <3>1 DEF RowInv, ClosedByItsResolutions
  <2>6. CASE p = q /\ wish.task \in State
    <3>1. annulled \in BOOLEAN
      BY <1>1, <1>3, <1>4, ResolutionTypes DEF Annulled, Wish
    <3>2. r \in RowsOf(p)' /\ question'[p].status = IF annulled THEN "annulled" ELSE "resolved"
      BY <1>10, <1>16, <2>4, <2>6
    <3>3. resolution'[r].annulled = (question'[p].status = "annulled")
      BY <1>7, <3>1, <3>2
    <3> QED BY <3>2, <3>3
  <2> QED BY <2>5, <2>6
<1>19. MemoryFollowsChain'
  <2>1. CASE wish.task \notin State
    BY <1>1, <1>9, <1>17, <2>1 DEF RowInv, MemoryFollowsChain, LocalMemory
  <2>2. CASE wish.task \in State
    <3>1. \A t \in State :
             memory'[t] = IF t \in LocalMemory(q) THEN "deprecated" ELSE memory[t]
      BY <2>2 DEF CommitResolution, Deprecate
    <3>2. \A p \in Question : p = q => LocalMemory(p)' = {}
      BY <1>9, <3>1 DEF LocalMemory, Members
    <3>3. \A p \in Question : p # q => LocalMemory(p)' = LocalMemory(p)
      <4>1. \A p \in Question, t \in State : p # q /\ t \in Members(p) => memory'[t] = memory[t]
        BY <3>1 DEF LocalMemory, Members
      <4> QED BY <1>9, <4>1 DEF LocalMemory, Members
    <3>4. \A p \in Question : p # q => question'[p] = question[p]
      BY <1>16, <2>2
    <3> QED BY <1>1, <3>2, <3>3, <3>4 DEF RowInv, MemoryFollowsChain
  <2> QED BY <2>1, <2>2
<1>20. RequestInv'
  <2>1. \A p \in Question : (Closing(w) => p # q) => tx'[p] = tx[p]
    BY <1>11, <1>16, <1>17
  <2>2. resolver' = [resolver EXCEPT ![w] = NoResolver]
    BY DEF CommitResolution
  <2>3. /\ \A o \in Row : resolution[o] # None => resolution'[o] = resolution[o]
        /\ \A o \in Row : resolution[o] = None /\ resolution'[o] # None =>
              resolution'[o].task = wish.task
    BY <1>7
  <2> QED BY <1>2, <1>8, <2>1, <2>2, <2>3, RequestEnds
<1> QED BY <1>12, <1>13, <1>14, <1>15, <1>18, <1>19, <1>20 DEF RowInv

-----------------------------------------------------------------------------
(* The invariant *)

LEMMA ResolutionInvStep ==
    ASSUME ResolutionInv, [ResolutionNext]_everything
    PROVE  ResolutionInv'
<1>1. TypeOK /\ IInv /\ RowInv /\ RequestInv
  BY DEF ResolutionInv, IInv, TypeInv
<1>2. IInv'
  BY <1>1, DatabaseSteps, TypeInvStep, ChainInvStep, QuietInvStep DEF IInv, TypeInv
<1>3. ASSUME NEW q \in Question, NEW s \in State, NEW prev \in State \cup {None},
             NEW asOf \in Time \cup {None}, WriteSnapshot(q, s, prev, asOf)
      PROVE  RowInv' /\ RequestInv'
  <2>1. /\ ~ Locked(q) /\ \A p \in Question : p # q => tx'[p] = tx[p]
        /\ UNCHANGED <<question, snapshot, isolated, memory, resolutionVars, resolver>>
    BY <1>1, <1>3 DEF WriteSnapshot, BeginSnapshot, TypeOK
  <2> QED BY <1>1, <2>1, RowFrame, RequestFrame DEF resolutionVars
<1>4. ASSUME NEW q \in Question, DropSnapshot(q)
      PROVE  RowInv' /\ RequestInv'
  <2>1. /\ tx[q].kind = "snapshot" /\ \A p \in Question : p # q => tx'[p] = tx[p]
        /\ UNCHANGED <<question, snapshot, isolated, memory, resolutionVars, resolver>>
    BY <1>1, <1>4 DEF DropSnapshot, Rollback, TypeOK
  <2> QED BY <1>1, <2>1, RowFrame, RequestFrame DEF resolutionVars
<1>5. ASSUME NEW w \in Resolver, NEW wish \in Wishes, LockTask(w, wish)
      PROVE  RowInv' /\ RequestInv'
  BY <1>1, <1>5, RowFrame, LockTaskKeeps DEF LockTask, vars
<1>6. ASSUME NEW w \in Resolver, ChooseResolution(w)
      PROVE  RowInv' /\ RequestInv'
  <2>1. UNCHANGED <<question, snapshot, isolated, memory, resolutionVars>>
    BY <1>6 DEF ChooseResolution, BeginClose, vars
  <2> QED BY <1>1, <1>6, <2>1, RowFrame, ChooseResolutionKeeps
<1>7. ASSUME NEW w \in Resolver, AbortResolution(w)
      PROVE  RowInv' /\ RequestInv'
  <2>1. Busy(w) /\ resolver' = [resolver EXCEPT ![w] = NoResolver]
    BY <1>7 DEF AbortResolution, Busy
  <2>2. UNCHANGED <<question, snapshot, isolated, memory, resolutionVars>>
    BY <1>7 DEF AbortResolution, Rollback, vars
  <2>3. \A p \in Question : (Closing(w) => p # QuestionOf(resolver[w].wish.task)) => tx'[p] = tx[p]
    BY <1>1, <1>7 DEF AbortResolution, Rollback, Closing, Writing, TypeOK, vars
  <2>4. \A r \in Row : resolution'[r] = resolution[r]
    BY <2>2 DEF resolutionVars
  <2> QED BY <1>1, <2>1, <2>2, <2>3, <2>4, RowFrame, RequestEnds
<1>8. ASSUME UNCHANGED everything
      PROVE  RowInv' /\ RequestInv'
  <2>1. UNCHANGED <<question, snapshot, tx, isolated, memory, resolutionVars, resolver>>
    BY <1>8 DEF everything, vars
  <2>2. UNCHANGED <<resolver, resolution>>
    BY <2>1 DEF resolutionVars
  <2> QED BY <1>1, <2>1, <2>2, RowFrame, RequestFrame
<1>9. RowInv' /\ RequestInv'
  BY <1>3, <1>4, <1>5, <1>6, <1>7, <1>8, FinishSnapshotKeeps, CommitResolutionKeeps
     DEF ResolutionNext
<1> QED BY <1>2, <1>9 DEF ResolutionInv

LEMMA ResolutionInvariance == ResolutionSpec => []ResolutionInv
<1>1. ResolutionInit => ResolutionInv
  BY ResolutionInvInit
<1>2. ResolutionInv /\ [ResolutionNext]_everything => ResolutionInv'
  BY ResolutionInvStep
<1> QED
  BY <1>1, <1>2, PTL DEF ResolutionSpec

(* Every variable keeps its type. *)
THEOREM ResolutionTypeCorrect == ResolutionSpec => []ResolutionTypeOK
<1>1. ResolutionInv => ResolutionTypeOK
  BY DEF ResolutionInv, IInv, TypeInv, RowInv, RowTypes, RequestInv, RequestTypes, Request,
     ResolutionTypeOK
<1> QED BY <1>1, ResolutionInvariance, PTL

(* However many requests resolve a task, and however often, a resolution   *)
(* has scored its ledger exactly once, unless it is annulled or not        *)
(* eligible (resolveForecastTask).                                         *)
THEOREM ScoresCorrect == ResolutionSpec => []ScoredExactlyOnce
<1>1. ResolutionInv => ScoredExactlyOnce
  BY DEF ResolutionInv, RowInv
<1> QED BY <1>1, ResolutionInvariance, PTL

(* The trajectory scores of a resolution cover every isolated snapshot the *)
(* question ever has.                                                      *)
THEOREM TrajectoryCorrect == ResolutionSpec => []TrajectoryIsComplete
<1>1. ResolutionInv => TrajectoryIsComplete
  BY DEF ResolutionInv, RowInv
<1> QED BY <1>1, ResolutionInvariance, PTL

(* The lock of the task row makes findExistingResolution reliable: of two  *)
(* equal resolutions one was forced.                                       *)
THEOREM RepeatsCorrect == ResolutionSpec => []RepeatsAreForced
<1>1. ResolutionInv => RepeatsAreForced
  BY DEF ResolutionInv, RowInv
<1> QED BY <1>1, ResolutionInvariance, PTL

(* A question is closed exactly when a task of it is resolved, with the    *)
(* status of one of these resolutions.                                     *)
THEOREM ClosingCorrect == ResolutionSpec => []ClosedByItsResolutions
<1>1. ResolutionInv => ClosedByItsResolutions
  BY DEF ResolutionInv, RowInv
<1> QED BY <1>1, ResolutionInvariance, PTL

(* Only the latest snapshot of an open question is remembered. *)
THEOREM MemoryCorrect == ResolutionSpec => []MemoryFollowsChain
<1>1. ResolutionInv => MemoryFollowsChain
  BY DEF ResolutionInv, RowInv
<1> QED BY <1>1, ResolutionInvariance, PTL
===============================================================================
