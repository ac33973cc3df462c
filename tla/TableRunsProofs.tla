---------------------------- MODULE TableRunsProofs ----------------------------
(***************************************************************************)
(* What holds of TableRuns for every number of tasks, rows and processes:  *)
(* a completed table is whole, rows are listed once, and a row counts the  *)
(* retries of it that were answered one after the other.                   *)
(*                                                                         *)
(* The inductive invariant TableInv says what each sequential process may  *)
(* rely on between its statements.  A request knows the status of its task *)
(* until it has marked it running; a pass knows that its task was started  *)
(* and, from one statement to the next, how much of the output is written  *)
(* and that no statement of another process takes it back.                 *)
(***************************************************************************)
EXTENDS TableRuns, FiniteSetTheorems, TLAPS

(* Every row of the request is listed, which a task is marked running      *)
(* after; and a pass has read the task as running.                         *)
Seeded(t) == task[t].rows \subseteq {e[1] : e \in Listed(t)}
Started(t) == Created(t) /\ task[t].status # "queued"

RequestKnows(t) ==
    /\ ~ Created(t) => request[t].pc = "none" /\ Listed(t) = {}
    /\ request[t].pc # "none" => Created(t)
    /\ request[t].pc \in {"none", "seed", "launch"} => run[t] = "none"
    /\ request[t].pc \in {"mark", "rows", "count"} => run[t] # "none"
    /\ request[t].pc \in {"seed", "launch", "mark"} => task[t].status = "queued"
    /\ request[t].pc \in {"launch", "mark"} => Seeded(t)
    /\ request[t].pc = "count" => task[t].retryOf # None

(* Only a finished run has results, and only they are written.             *)
TaskKnows(t) ==
    /\ output[t].rows \subseteq result[t]
    /\ result[t] # {} => run[t] = "finished"
    /\ Completed(t) => run[t] = "finished"
    /\ Created(t) /\ task[t].status \in {"running", "completed", "cancelled"} => Seeded(t)
Knows(t) == RequestKnows(t) /\ TaskKnows(t)

(* What the statements of a pass up to its place have written is there.    *)
Whole(t) == output[t].summary /\ output[t].rows = result[t] /\ output[t].sources
RowsDone(t) == \A e \in Listed(t) : row[t][e].status = "completed"
PassKnows(p) ==
    LET t == pass[p].task pc == pass[p].pc IN
    /\ \A u \in pass[p].todo : Started(u)
    /\ pc \notin {"idle", "next"} => Started(t)
    /\ pc \in {"summary", "results", "sources", "rows", "complete"} => run[t] = "finished"
    /\ pc \in {"results", "sources", "rows", "complete"} => output[t].summary
    /\ pc \in {"sources", "rows", "complete"} => output[t].rows = result[t]
    /\ pc \in {"rows", "complete"} => output[t].sources
    /\ pc = "complete" => RowsDone(t)
    /\ pc = "backfill" => task[t].rows = {}

(* A retry knows the count and the answered retries of its row as they were *)
(* when it read them; both were right then.                                 *)
RetryKnows(s, answered) ==
    /\ request[s].after \subseteq answered
    /\ Counted(request[s].after, request[s].count - 1)
CountsOK ==
    \A t \in Task, e \in Entry :
        /\ IsFiniteSet(Answered(t, e))
        /\ Counted(Answered(t, e), row[t][e].count)
        /\ \A s \in Retries(t, e) : RetryKnows(s, Answered(t, e))

TableInv ==
    /\ TableTypeOK
    /\ \A t \in Task : Knows(t)
    /\ \A p \in Proc : PassKnows(p)
    /\ CompletedIsWhole /\ SeededOnce /\ CountsOK

-----------------------------------------------------------------------------
(* What a step leaves of a task, whatever it is about.                     *)
Stays(u) ==
    /\ Created(u) => /\ Created(u)' /\ task'[u].rows = task[u].rows
                     /\ task'[u].retryOf = task[u].retryOf
                     /\ request'[u].count = request[u].count /\ request'[u].after = request[u].after
    /\ Started(u) => Started(u)'
    /\ run[u] # "none" => run'[u] # "none"
    /\ run[u] = "finished" => run'[u] = "finished" /\ result'[u] = result[u]
Writes(u) ==
    /\ output[u].summary => output'[u].summary
    /\ output[u].sources => output'[u].sources
    /\ run[u] = "finished" /\ output[u].rows = result[u] => output'[u].rows = result[u]
    /\ Started(u) /\ RowsDone(u) => RowsDone(u)'
SameRetry(u) ==
    /\ Created(u)' => Created(u) \/ task'[u].retryOf = None
    /\ Created(u) /\ task[u].retryOf # None => (request'[u].pc = "done" <=> request[u].pc = "done")
SameRows(u) == \A e \in Entry : row'[u][e].status = row[u][e].status

LEMMA SameRowsAreDone ==
    ASSUME NEW u \in Task, SameRows(u)
    PROVE  Listed(u)' = Listed(u) /\ (RowsDone(u) => RowsDone(u)')
BY DEF SameRows, Listed, RowsDone

LEMMA PassKeeps ==
    ASSUME TableInv, NEW p \in Proc, pass'[p] = pass[p], \A u \in Task : Stays(u) /\ Writes(u)
    PROVE  PassKnows(p)'
<1>1. PassKnows(p) /\ pass[p] \in PassRow
  BY DEF TableInv, TableTypeOK
<1>2. \A u \in pass[p].todo : u \in Task
  BY <1>1 DEF PassRow
<1>3. pass[p].pc \notin {"idle", "next"} => pass[p].task \in Task
  BY <1>1 DEF PassRow, TableInv, TableTypeOK
<1>4. \A u \in Task : Started(u) => Started(u)' /\ task'[u].rows = task[u].rows
  BY DEF Stays, Started
<1> DEFINE t == pass[p].task
           pc == pass[p].pc
<1>5. /\ \A u \in pass[p].todo : Started(u)
      /\ pc \notin {"idle", "next"} => Started(t)
      /\ pc \in {"summary", "results", "sources", "rows", "complete"} => run[t] = "finished"
      /\ pc \in {"results", "sources", "rows", "complete"} => output[t].summary
      /\ pc \in {"sources", "rows", "complete"} => output[t].rows = result[t]
      /\ pc \in {"rows", "complete"} => output[t].sources
      /\ pc = "complete" => RowsDone(t)
      /\ pc = "backfill" => task[t].rows = {}
  BY <1>1 DEF PassKnows
<1>6. /\ \A u \in pass[p].todo : Started(u)'
      /\ pc \notin {"idle", "next"} => Started(t)'
      /\ pc \in {"summary", "results", "sources", "rows", "complete"} => run'[t] = "finished"
      /\ pc \in {"results", "sources", "rows", "complete"} => output'[t].summary
      /\ pc \in {"sources", "rows", "complete"} => output'[t].rows = result'[t]
      /\ pc \in {"rows", "complete"} => output'[t].sources
      /\ pc = "complete" => RowsDone(t)'
      /\ pc = "backfill" => task'[t].rows = {}
  BY <1>2, <1>3, <1>4, <1>5 DEF Stays, Writes
<1> QED BY <1>6 DEF PassKnows, Started, Created, RowsDone, Listed

LEMMA CompletedKeeps ==
    ASSUME TableInv, \A u \in Task : Stays(u) /\ Writes(u), \A u \in Task : Completed(u)' => Completed(u)
    PROVE  CompletedIsWhole'
<1> SUFFICES ASSUME NEW u \in Task, Completed(u)'
             PROVE  Whole(u)' /\ RowsDone(u)'
  BY DEF CompletedIsWhole, Whole, RowsDone
<1>1. Completed(u) /\ Started(u)
  BY DEF Completed, Started
<1>2. Whole(u) /\ RowsDone(u) /\ run[u] = "finished"
  BY <1>1 DEF TableInv, Knows, TaskKnows, CompletedIsWhole, Whole, RowsDone
<1> QED BY <1>1, <1>2 DEF Stays, Writes, Whole

LEMMA SeededKeeps ==
    ASSUME TableInv, \A u \in Task : Stays(u) /\ SameRows(u)
    PROVE  SeededOnce'
<1> SUFFICES ASSUME NEW u \in Task, Created(u)', NEW e \in Listed(u)'
             PROVE  task'[u].rows # {} <=> e[2] = "request"
  BY DEF SeededOnce
<1>1. e \in Listed(u)
  BY SameRowsAreDone
<1>2. Created(u)
  BY <1>1 DEF TableInv, Knows, RequestKnows
<1> QED BY <1>1, <1>2 DEF TableInv, SeededOnce, Stays

RequestType == [pc : RequestSteps, count : Nat, after : SUBSET Task]

LEMMA RequestsTyped == TableInv => request \in [Task -> RequestType]
BY DEF TableInv, TableTypeOK, RequestType

LEMMA RetriesAre ==
    ASSUME NEW t \in Task, NEW e \in Entry, NEW s \in Retries(t, e)
    PROVE  s \in Task /\ Created(s) /\ task[s].retryOf = [task |-> t, row |-> e] /\ task[s].retryOf # None
BY TableAssumption DEF Retries, RetryOf

LEMMA CountedStays ==
    ASSUME NEW S, NEW n, \A s \in S : request'[s].after = request[s].after
    PROVE  Counted(S, n)' <=> Counted(S, n)
BY DEF Counted, OneAfterTheOther

LEMMA RetriesStay ==
    ASSUME TableInv, \A u \in Task : Stays(u) /\ SameRetry(u), NEW t \in Task, NEW e \in Entry
    PROVE  Retries(t, e)' = Retries(t, e) /\ Answered(t, e)' = Answered(t, e)
<1>1. ASSUME NEW s \in Task
      PROVE  s \in Retries(t, e)' <=> s \in Retries(t, e)
  <2>1. [task |-> t, row |-> e] # None
    BY TableAssumption DEF RetryOf
  <2> QED BY <2>1 DEF Retries, Stays, SameRetry
<1>2. Retries(t, e)' = Retries(t, e)
  BY <1>1 DEF Retries
<1>3. ASSUME NEW s \in Retries(t, e)
      PROVE  request'[s].pc = "done" <=> request[s].pc = "done"
  BY RetriesAre DEF SameRetry
<1> QED BY <1>2, <1>3 DEF Answered

LEMMA CountsKeep ==
    ASSUME TableInv, \A u \in Task : Stays(u) /\ SameRetry(u),
           \A u \in Task, e \in Entry : row'[u][e].count = row[u][e].count
    PROVE  CountsOK'
<1> SUFFICES ASSUME NEW u \in Task, NEW e \in Entry
             PROVE  /\ IsFiniteSet(Answered(u, e))'
                    /\ Counted(Answered(u, e), row[u][e].count)'
                    /\ \A s \in Retries(u, e)' : RetryKnows(s, Answered(u, e))'
  BY DEF CountsOK
<1>1. PICK A, n : A = Answered(u, e) /\ n = row[u][e].count
  OBVIOUS
<1>2. /\ IsFiniteSet(A) /\ Counted(A, n)
      /\ \A s \in Retries(u, e) : RetryKnows(s, A)
  BY <1>1 DEF TableInv, CountsOK
<1>3. Retries(u, e)' = Retries(u, e) /\ Answered(u, e)' = A /\ row'[u][e].count = n
  BY <1>1, RetriesStay
<1>4. \A s \in Retries(u, e) : request'[s].after = request[s].after /\ request'[s].count = request[s].count
  BY RetriesAre DEF Stays
<1>5. A \subseteq Retries(u, e)
  BY <1>1 DEF Answered
<1>6. Counted(A, n)'
  BY <1>2, <1>4, <1>5, CountedStays
<1>7. ASSUME NEW s \in Retries(u, e) PROVE RetryKnows(s, A)'
  <2>1. PICK B, k : B = request[s].after /\ k = request[s].count - 1
    OBVIOUS
  <2>2. B \subseteq A /\ Counted(B, k)
    BY <1>2, <2>1 DEF RetryKnows
  <2>3. Counted(B, k)'
    BY <1>4, <1>5, <2>2, CountedStays
  <2> QED BY <1>4, <2>1, <2>2, <2>3 DEF RetryKnows
<1>8. Counted(Answered(u, e), row[u][e].count)'
  BY <1>3, <1>6
<1>9. \A s \in Retries(u, e)' : RetryKnows(s, Answered(u, e))'
  BY <1>3, <1>7
<1> QED BY <1>2, <1>3, <1>8, <1>9

LEMMA PassCountsKeep ==
    ASSUME TableInv, UNCHANGED request, \A u \in Task : Stays(u),
           \A u \in Task : Created(u)' => Created(u),
           \A u \in Task, e \in Entry : row'[u][e].count = row[u][e].count
    PROVE  CountsOK'
<1>1. \A u \in Task : SameRetry(u)
  BY DEF SameRetry
<1> QED BY <1>1, CountsKeep

LEMMA TaskFrame ==
    ASSUME TableInv, NEW u \in Task, task'[u] = task[u], request'[u] = request[u], run'[u] = run[u],
           result'[u] = result[u], output'[u] = output[u], SameRows(u)
    PROVE  Knows(u)' /\ Stays(u) /\ Writes(u) /\ SameRetry(u)
<1>1. Listed(u)' = Listed(u) /\ (RowsDone(u) => RowsDone(u)')
  BY SameRowsAreDone
<1>2. (Seeded(u)' <=> Seeded(u)) /\ (Created(u)' <=> Created(u)) /\ (Started(u)' <=> Started(u))
  BY <1>1 DEF Seeded, Created, Started
<1>3. Stays(u) /\ Writes(u) /\ SameRetry(u)
  BY <1>1, <1>2 DEF Stays, Writes, SameRetry
<1>4. Knows(u)
  BY DEF TableInv, Knows
<1> QED BY <1>1, <1>2, <1>3, <1>4 DEF Knows, RequestKnows, TaskKnows, Completed

LEMMA RowsUnchanged ==
    ASSUME UNCHANGED row
    PROVE  \A u \in Task : SameRows(u) /\ \A e \in Entry : row'[u][e].count = row[u][e].count
BY DEF SameRows

(* A step that leaves the passes and the rows alone and completes no task. *)
LEMMA QuietPasses ==
    ASSUME TableInv, UNCHANGED <<row, pass>>,
           \A u \in Task : Stays(u) /\ Writes(u) /\ (Completed(u)' => Completed(u))
    PROVE  (\A p \in Proc : PassKnows(p)') /\ CompletedIsWhole' /\ SeededOnce'
<1>1. \A p \in Proc : PassKnows(p)'
  BY PassKeeps
<1>2. CompletedIsWhole' /\ SeededOnce'
  BY RowsUnchanged, CompletedKeeps, SeededKeeps
<1> QED BY <1>1, <1>2

LEMMA QuietStep ==
    ASSUME TableInv, TableTypeOK', UNCHANGED <<row, pass>>,
           \A u \in Task :
              Knows(u)' /\ Stays(u) /\ Writes(u) /\ SameRetry(u) /\ (Completed(u)' => Completed(u))
    PROVE  TableInv'
<1>1. CountsOK'
  BY RowsUnchanged, CountsKeep
<1> QED BY <1>1, QuietPasses DEF TableInv

LEMMA NewTask ==
    ASSUME NEW rows \in SUBSET Row, NEW of \in RetryOf \cup {None}
    PROVE  /\ QueuedTask(rows, of) \in TaskRow /\ QueuedTask(rows, of) # None
           /\ QueuedTask(rows, of).status = "queued" /\ QueuedTask(rows, of).rows = rows
           /\ QueuedTask(rows, of).retryOf = of
<1>1. QueuedTask(rows, of) \in TaskRow
  BY DEF QueuedTask, TaskRow, TableStatus
<1>2. /\ QueuedTask(rows, of).status = "queued" /\ QueuedTask(rows, of).rows = rows
      /\ QueuedTask(rows, of).retryOf = of
  BY DEF QueuedTask
<1> HIDE DEF TaskRow
<1> QED BY <1>1, <1>2, TableAssumption

LEMMA CreateStep ==
    ASSUME TableInv, NEW t \in Task, ~ Created(t), NEW new \in TaskRow, new # None, new.status = "queued",
           task' = [task EXCEPT ![t] = new], NEW step \in {"seed", "launch"}, step = "launch" => new.rows = {},
           NEW count \in Nat, NEW after \in SUBSET Task,
           request' = [request EXCEPT ![t] = [pc |-> step, count |-> count, after |-> after]],
           UNCHANGED <<row, output, run, result, pass>>,
           new.retryOf = None \/ CountsOK'
    PROVE  TableInv'
<1>1. TableTypeOK' /\ task'[t] = new /\ \A u \in Task : u # t => task'[u] = task[u]
  BY DEF TableInv, TableTypeOK, RequestSteps
<1>2. request'[t].pc = step /\ \A u \in Task : u # t => request'[u] = request[u]
  BY DEF TableInv, TableTypeOK
<1>3. ASSUME NEW u \in Task, u # t
      PROVE  Knows(u)' /\ Stays(u) /\ Writes(u) /\ SameRetry(u) /\ (Completed(u)' => Completed(u))
  BY <1>1, <1>2, <1>3, TaskFrame, RowsUnchanged DEF Completed, Created
<1>4. Listed(t)' = {} /\ run[t] = "none" /\ request[t].pc = "none"
  <2>1. RequestKnows(t)
    BY DEF TableInv, Knows
  <2>2. Listed(t)' = Listed(t)
    BY SameRowsAreDone, RowsUnchanged
  <2> QED BY <2>1, <2>2 DEF RequestKnows
<1>5. Created(t)' /\ ~ Completed(t)' /\ ~ Started(t)
  BY <1>1 DEF Created, Completed, Started
<1>6. Knows(t)'
  <2>1. RequestKnows(t)'
    BY <1>1, <1>2, <1>4, <1>5 DEF RequestKnows, Seeded
  <2>2. TaskKnows(t)
    BY DEF TableInv, Knows
  <2> QED BY <1>1, <1>5, <2>1, <2>2 DEF Knows, TaskKnows
<1>7. Stays(t) /\ Writes(t)
  BY <1>4, <1>5 DEF Stays, Writes, RowsDone
<1>8. CASE new.retryOf = None
  <2>1. SameRetry(t)
    BY <1>1, <1>5, <1>8 DEF SameRetry
  <2> QED BY <1>1, <1>3, <1>5, <1>6, <1>7, <2>1, QuietStep
<1>9. CASE CountsOK'
  BY <1>1, <1>3, <1>5, <1>6, <1>7, <1>9, QuietPasses DEF TableInv
<1> QED BY <1>8, <1>9

LEMMA PostStep ==
    ASSUME TableInv, NEW t \in Task, PostRun(t)
    PROVE  TableInv'
<1>1. PICK rows \in {{}, Row} :
          /\ task' = [task EXCEPT ![t] = QueuedTask(rows, None)]
          /\ GoTo(t, IF rows = {} THEN "launch" ELSE "seed")
  BY DEF PostRun
<1> DEFINE step == IF rows = {} THEN "launch" ELSE "seed"
           count == request[t].count
           after == request[t].after
<1>2. request \in [Task -> RequestType]
  BY RequestsTyped
<1>3. /\ count \in Nat /\ after \in SUBSET Task
      /\ request' = [request EXCEPT ![t] = [pc |-> step, count |-> count, after |-> after]]
  <2>1. request[t] \in RequestType
    BY <1>2
  <2>2. [request[t] EXCEPT !.pc = step] = [pc |-> step, count |-> count, after |-> after]
    BY <2>1 DEF RequestType
  <2>3. request' = [request EXCEPT ![t] = [request[t] EXCEPT !.pc = step]]
    BY <1>1 DEF GoTo
  <2>4. count \in Nat /\ after \in SUBSET Task
    BY <2>1 DEF RequestType
  <2> HIDE DEF step, count, after
  <2> QED BY <2>2, <2>3, <2>4
<1>4. step \in {"seed", "launch"} /\ (step = "launch" => rows = {})
  OBVIOUS
<1>5. rows \in SUBSET Row
  OBVIOUS
<1> DEFINE new == QueuedTask(rows, None)
<1>6. /\ new \in TaskRow /\ new # None /\ new.status = "queued" /\ new.rows = rows
      /\ new.retryOf = None
  BY <1>5, NewTask
<1>7. task' = [task EXCEPT ![t] = new]
  BY <1>1
<1>8. ~ Created(t) /\ UNCHANGED <<row, output, run, result, pass>>
  BY DEF PostRun
<1> HIDE DEF new, step, count, after
<1> QED BY <1>3, <1>4, <1>6, <1>7, <1>8, CreateStep

(* A retry of row e of task "of" is created: it has read the count of the  *)
(* row, which is right for those answered so far.                          *)
LEMMA RetryCounts ==
    ASSUME TableInv, NEW t \in Task, NEW of \in Task, NEW e \in Entry, RetryRow(t, of, e)
    PROVE  CountsOK'
<1> DEFINE ref == [task |-> of, row |-> e]
           asks == [pc |-> "seed", count |-> NextCount(t, of, e), after |-> Answered(of, e)]
<1>1. /\ task' = [task EXCEPT ![t] = QueuedTask({e[1]}, ref)]
      /\ request' = [request EXCEPT ![t] = asks] /\ ~ Created(t) /\ UNCHANGED row
  BY DEF RetryRow
<1>2. /\ request'[t].pc = "seed" /\ request'[t].count = row[of][e].count + 1
      /\ request'[t].after = Answered(of, e)
      /\ \A u \in Task : u # t => request'[u] = request[u]
  BY <1>1, RequestsTyped DEF NextCount
<1>3. ref \in RetryOf /\ {e[1]} \in SUBSET Row
  BY DEF RetryOf, Entry
<1>4. /\ task'[t].retryOf = ref /\ Created(t)'
      /\ \A u \in Task : u # t => task'[u] = task[u]
  BY <1>1, <1>3, NewTask DEF TableInv, TableTypeOK, Created
<1> SUFFICES ASSUME NEW u \in Task, NEW x \in Entry
             PROVE  /\ IsFiniteSet(Answered(u, x))'
                    /\ Counted(Answered(u, x), row[u][x].count)'
                    /\ \A s \in Retries(u, x)' : RetryKnows(s, Answered(u, x))'
  BY DEF CountsOK
<1>5. PICK A, n : A = Answered(u, x) /\ n = row[u][x].count
  OBVIOUS
<1>6. /\ IsFiniteSet(A) /\ Counted(A, n) /\ n \in Nat
      /\ \A s \in Retries(u, x) : RetryKnows(s, A)
  BY <1>5 DEF TableInv, CountsOK, TableTypeOK
<1>7. \A s \in Retries(u, x) : s \in Task /\ s # t
  BY <1>1, RetriesAre
<1>8. Retries(u, x)' = Retries(u, x) \cup {s \in {t} : ref = [task |-> u, row |-> x]}
  BY <1>1, <1>4 DEF Retries, Created
<1>9. Answered(u, x)' = A
  BY <1>2, <1>5, <1>7, <1>8 DEF Answered
<1>10. A \subseteq Retries(u, x) /\ \A s \in Retries(u, x) : request'[s] = request[s]
  BY <1>2, <1>5, <1>7 DEF Answered
<1>11. Counted(A, n)'
  BY <1>6, <1>10, CountedStays
<1>12. ASSUME NEW s \in Retries(u, x) PROVE RetryKnows(s, A)'
  <2>1. PICK B, k : B = request[s].after /\ k = request[s].count - 1
    OBVIOUS
  <2>2. B \subseteq A /\ Counted(B, k)
    BY <1>6, <2>1 DEF RetryKnows
  <2>3. Counted(B, k)'
    BY <1>10, <2>2, CountedStays
  <2> QED BY <1>10, <2>1, <2>2, <2>3 DEF RetryKnows
<1>13. ASSUME ref = [task |-> u, row |-> x] PROVE RetryKnows(t, A)'
  <2>1. u = of /\ x = e
    BY <1>13
  <2>2. request'[t].after = A /\ request'[t].count - 1 = n
    BY <1>2, <1>5, <1>6, <2>1
  <2> QED BY <1>11, <2>2 DEF RetryKnows
<1>14. Counted(Answered(u, x), row[u][x].count)'
  BY <1>1, <1>5, <1>9, <1>11
<1>15. \A s \in Retries(u, x)' : RetryKnows(s, Answered(u, x))'
  BY <1>8, <1>9, <1>12, <1>13
<1> QED BY <1>6, <1>9, <1>14, <1>15

LEMMA RetryStep ==
    ASSUME TableInv, NEW t \in Task, NEW of \in Task, NEW e \in Entry, RetryRow(t, of, e)
    PROVE  TableInv'
<1> DEFINE new == QueuedTask({e[1]}, [task |-> of, row |-> e])
           count == NextCount(t, of, e)
           after == Answered(of, e)
<1>1. [task |-> of, row |-> e] \in RetryOf /\ {e[1]} \in SUBSET Row
  BY DEF RetryOf, Entry
<1>2. new \in TaskRow /\ new # None /\ new.status = "queued" /\ new.rows = {e[1]}
  BY <1>1, NewTask
<1>3. count \in Nat /\ after \in SUBSET Task
  BY DEF TableInv, TableTypeOK, NextCount, Answered, Retries
<1>4. /\ task' = [task EXCEPT ![t] = new]
      /\ request' = [request EXCEPT ![t] = [pc |-> "seed", count |-> count, after |-> after]]
      /\ ~ Created(t) /\ UNCHANGED <<row, output, run, result, pass>>
  BY DEF RetryRow
<1> HIDE DEF new, count, after
<1> QED BY <1>2, <1>3, <1>4, RetryCounts, CreateStep

(* The request of a task that exists takes a step. *)
LEMMA GoesTo ==
    ASSUME TableInv, NEW t \in Task, NEW step \in RequestSteps, GoTo(t, step)
    PROVE  /\ request'[t].pc = step /\ request'[t].count = request[t].count
           /\ request'[t].after = request[t].after
           /\ \A u \in Task : u # t => request'[u] = request[u]
           /\ request' \in [Task -> RequestType]
<1>1. request \in [Task -> RequestType]
  BY RequestsTyped
<1> QED BY <1>1 DEF GoTo, RequestType

LEMMA LaunchStep ==
    ASSUME TableInv, NEW t \in Task, Launch(t)
    PROVE  TableInv'
<1>1. Knows(t) /\ Created(t) /\ task[t] \in TaskRow /\ run[t] = "none"
  BY DEF TableInv, TableTypeOK, Launch, Knows, RequestKnows, Created
<1> DEFINE new == [task[t] EXCEPT !.artifact = TRUE]
<1>2. /\ new \in TaskRow /\ new.status = task[t].status /\ new.rows = task[t].rows
      /\ new.retryOf = task[t].retryOf
  BY <1>1 DEF TaskRow
<1> HIDE DEF new
<1>3. task' = [task EXCEPT ![t] = new] /\ new # None
  BY <1>2, TableAssumption DEF Launch, Bootstrap, new
<1>4. task'[t] = new /\ task' \in [Task -> TaskRow \cup {None}] /\ \A u \in Task : u # t => task'[u] = task[u]
  BY <1>2, <1>3 DEF TableInv, TableTypeOK
<1>5. /\ request'[t].pc = "mark" /\ request'[t].count = request[t].count /\ request'[t].after = request[t].after
      /\ \A u \in Task : u # t => request'[u] = request[u]
      /\ request' \in [Task -> RequestType]
  BY GoesTo DEF Launch, RequestSteps
<1>6. /\ run'[t] = "running" /\ \A u \in Task : u # t => run'[u] = run[u]
      /\ TableTypeOK'
  BY <1>4, <1>5 DEF Launch, TableInv, TableTypeOK, RequestType
<1>7. UNCHANGED <<row, pass, output, result>>
  BY DEF Launch
<1>8. \A u \in Task : u # t => Knows(u)' /\ Stays(u) /\ Writes(u) /\ SameRetry(u) /\ (Completed(u)' => Completed(u))
  BY <1>4, <1>5, <1>6, <1>7, TaskFrame, RowsUnchanged DEF Completed, Created
<1>9. Listed(t)' = Listed(t) /\ (RowsDone(t) => RowsDone(t)') /\ request[t].pc = "launch"
  BY <1>7, SameRowsAreDone, RowsUnchanged DEF Launch
<1>10. task[t].status = "queued" /\ Seeded(t) /\ Created(t)' /\ (Completed(t)' => Completed(t)) /\ ~ Started(t)
  BY <1>1, <1>2, <1>3, <1>4, <1>9 DEF Knows, RequestKnows, Created, Completed, Started
<1>11. Seeded(t)' /\ ~ Completed(t)'
  BY <1>2, <1>4, <1>9, <1>10 DEF Seeded, Completed
<1>12. Knows(t)'
  BY <1>1, <1>2, <1>4, <1>5, <1>6, <1>7, <1>9, <1>10, <1>11 DEF Knows, RequestKnows, TaskKnows
<1>13. Stays(t) /\ Writes(t) /\ SameRetry(t)
  BY <1>1, <1>2, <1>4, <1>5, <1>6, <1>7, <1>9, <1>10 DEF Stays, Writes, SameRetry
<1> QED BY <1>6, <1>7, <1>8, <1>10, <1>12, <1>13, QuietStep

(* A status is set while the rows and the run stay as they are. *)
LEMMA Status ==
    ASSUME TableInv, NEW t \in Task, Created(t), NEW status \in TableStatus,
           task' = [task EXCEPT ![t].status = status]
    PROVE  /\ task' \in [Task -> TaskRow \cup {None}] /\ \A u \in Task : u # t => task'[u] = task[u]
           /\ Created(t)' /\ task'[t].status = status
           /\ task'[t].rows = task[t].rows /\ task'[t].retryOf = task[t].retryOf
<1> DEFINE new == [task[t] EXCEPT !.status = status]
<1>1. task[t] \in TaskRow /\ task \in [Task -> TaskRow \cup {None}]
  BY DEF TableInv, TableTypeOK, Created
<1>2. new \in TaskRow /\ new.status = status /\ new.rows = task[t].rows /\ new.retryOf = task[t].retryOf
  BY <1>1 DEF TaskRow
<1> HIDE DEF new
<1>3. task' = [task EXCEPT ![t] = new] /\ new # None
  BY <1>2, TableAssumption DEF new
<1> QED BY <1>1, <1>2, <1>3 DEF Created

LEMMA MarkStep ==
    ASSUME TableInv, NEW t \in Task, MarkTaskRunning(t)
    PROVE  TableInv'
<1>1. Knows(t) /\ Created(t) /\ task[t].status = "queued" /\ run[t] # "none" /\ Seeded(t)
  BY DEF TableInv, MarkTaskRunning, Knows, RequestKnows
<1>2. UNCHANGED <<row, pass, output, run, result>> /\ request[t].pc = "mark"
  BY DEF MarkTaskRunning
<1>3. /\ task' \in [Task -> TaskRow \cup {None}] /\ \A u \in Task : u # t => task'[u] = task[u]
      /\ Created(t)' /\ task'[t].status = "running"
      /\ task'[t].rows = task[t].rows /\ task'[t].retryOf = task[t].retryOf
  BY <1>1, Status DEF MarkTaskRunning, TableStatus
<1>4. /\ request'[t].pc = "rows" /\ request'[t].count = request[t].count /\ request'[t].after = request[t].after
      /\ \A u \in Task : u # t => request'[u] = request[u]
      /\ request' \in [Task -> RequestType]
  BY GoesTo DEF MarkTaskRunning, RequestSteps
<1>5. TableTypeOK'
  BY <1>2, <1>3, <1>4 DEF TableInv, TableTypeOK, RequestType
<1>6. \A u \in Task : u # t => Knows(u)' /\ Stays(u) /\ Writes(u) /\ SameRetry(u) /\ (Completed(u)' => Completed(u))
  BY <1>2, <1>3, <1>4, TaskFrame, RowsUnchanged DEF Completed, Created
<1>7. Listed(t)' = Listed(t) /\ (RowsDone(t) => RowsDone(t)')
  BY <1>2, SameRowsAreDone, RowsUnchanged
<1>8. Seeded(t)' /\ ~ Completed(t)' /\ ~ Started(t)
  BY <1>1, <1>3, <1>7 DEF Seeded, Completed, Started
<1>9. Knows(t)'
  BY <1>1, <1>2, <1>3, <1>4, <1>7, <1>8 DEF Knows, RequestKnows, TaskKnows
<1>10. Stays(t) /\ Writes(t) /\ SameRetry(t)
  BY <1>1, <1>2, <1>3, <1>4, <1>7, <1>8 DEF Stays, Writes, SameRetry
<1> QED BY <1>2, <1>5, <1>6, <1>8, <1>9, <1>10, QuietStep

(* A step of the request that leaves the task itself alone. *)
LEMMA RequestGoesOn ==
    ASSUME TableInv, NEW t \in Task, NEW step \in RequestSteps, GoTo(t, step), UNCHANGED task,
           Created(t), step \in {"done", "fail", "failed"} \/ (step = "count" /\ run[t] # "none" /\ task[t].retryOf # None),
           UNCHANGED <<result, output, pass>>, run' \in [Task -> {"none", "running", "finished", "failed", "cancelled"}],
           run[t] = "none" => run'[t] \in {"none", "running"}, run[t] # "none" => run'[t] = run[t],
           \A u \in Task : u # t => run'[u] = run[u],
           row' \in [Task -> [Entry -> [status : TableStatus \cup {"none"}, count : Nat]]],
           \A u \in Task : Listed(u)' = Listed(u) /\ (Started(u) /\ RowsDone(u) => RowsDone(u)')
    PROVE  /\ TableTypeOK' /\ \A u \in Task : Knows(u)' /\ Stays(u) /\ Writes(u)
           /\ (\A p \in Proc : PassKnows(p)') /\ CompletedIsWhole' /\ SeededOnce'
<1>1. /\ request'[t].pc = step /\ request'[t].count = request[t].count /\ request'[t].after = request[t].after
      /\ \A u \in Task : u # t => request'[u] = request[u]
      /\ request' \in [Task -> RequestType]
  BY GoesTo
<1>2. TableTypeOK'
  BY <1>1 DEF TableInv, TableTypeOK, RequestType
<1>3. ASSUME NEW u \in Task
      PROVE  Knows(u)' /\ Stays(u) /\ Writes(u)
  <2>1. Knows(u)
    BY DEF TableInv
  <2>2. (Seeded(u)' <=> Seeded(u)) /\ (Created(u)' <=> Created(u)) /\ (Completed(u)' <=> Completed(u))
        /\ (Started(u)' <=> Started(u))
    BY DEF Seeded, Created, Completed, Started
  <2>3. run[u] = "none" => result[u] = {} /\ output[u].rows = {}
    BY <2>1 DEF Knows, TaskKnows
  <2>4. RequestKnows(u)'
    <3>1. CASE u = t
      BY <1>1, <2>1, <2>2, <3>1 DEF Knows, RequestKnows
    <3>2. CASE u # t
      BY <1>1, <2>1, <2>2, <3>2 DEF Knows, RequestKnows
    <3> QED BY <3>1, <3>2
  <2>5. TaskKnows(u)'
    BY <2>1, <2>2, <2>3 DEF Knows, TaskKnows
  <2>6. Stays(u) /\ Writes(u)
    BY <1>1, <2>2 DEF Stays, Writes
  <2> QED BY <2>4, <2>5, <2>6 DEF Knows
<1>4. \A p \in Proc : PassKnows(p)'
  BY <1>3, PassKeeps
<1>5. \A u \in Task : Completed(u)' => Completed(u)
  BY DEF Completed, Created
<1>6. CompletedIsWhole'
  BY <1>3, <1>5, CompletedKeeps
<1>7. SeededOnce'
  BY DEF TableInv, SeededOnce, Created
<1> QED BY <1>2, <1>3, <1>4, <1>6, <1>7

LEMMA RequestEnds ==
    ASSUME TableInv, NEW t \in Task, StepFails(t) \/ RequestDies(t)
    PROVE  TableInv'
<1>1. PICK step \in {"fail", "failed"} : GoTo(t, step)
  BY DEF StepFails, RequestDies
<1>2. Knows(t) /\ request[t].pc # "none" /\ Created(t)
  BY DEF TableInv, Knows, RequestKnows, StepFails, RequestDies
<1>3. UNCHANGED <<task, row, result, output, pass>>
  BY DEF StepFails, RequestDies
<1>4. step \in RequestSteps
  BY DEF RequestSteps
<1>5. request[t].pc = "launch" => run[t] = "none"
  BY <1>2 DEF Knows, RequestKnows
<1>6. /\ run' \in [Task -> {"none", "running", "finished", "failed", "cancelled"}]
      /\ run[t] = "none" => run'[t] \in {"none", "running"}
      /\ run[t] # "none" => run'[t] = run[t]
      /\ \A u \in Task : u # t => run'[u] = run[u]
  <2>1. run \in [Task -> {"none", "running", "finished", "failed", "cancelled"}]
    BY DEF TableInv, TableTypeOK
  <2>2. run' = run \/ (request[t].pc = "launch" /\ run' = [run EXCEPT ![t] = "running"])
    BY DEF StepFails, RequestDies
  <2> QED BY <1>5, <2>1, <2>2
<1>7. row' \in [Task -> [Entry -> [status : TableStatus \cup {"none"}, count : Nat]]]
  BY <1>3 DEF TableInv, TableTypeOK
<1>8. \A u \in Task : Listed(u)' = Listed(u) /\ (RowsDone(u) => RowsDone(u)')
  BY <1>3, RowsUnchanged, SameRowsAreDone
<1>9. /\ TableTypeOK' /\ \A u \in Task : Knows(u)' /\ Stays(u) /\ Writes(u)
      /\ (\A p \in Proc : PassKnows(p)') /\ CompletedIsWhole' /\ SeededOnce'
  BY <1>1, <1>2, <1>3, <1>4, <1>6, <1>7, <1>8, RequestGoesOn
<1>10. \A u \in Task : SameRetry(u)
  <2>1. request[t].pc # "done"
    BY DEF StepFails, RequestDies
  <2>2. request'[t].pc = step /\ \A u \in Task : u # t => request'[u] = request[u]
    BY <1>1, <1>4, GoesTo
  <2> QED BY <1>3, <2>1, <2>2 DEF SameRetry, Created
<1>11. CountsOK'
  BY <1>3, <1>9, <1>10, RowsUnchanged, CountsKeep
<1> QED BY <1>9, <1>11 DEF TableInv

LEMMA FailPostStep ==
    ASSUME TableInv, NEW t \in Task, FailPost(t)
    PROVE  TableInv'
<1>1. Knows(t) /\ Created(t) /\ request[t].pc = "fail"
  BY DEF TableInv, Knows, RequestKnows, FailPost
<1>2. UNCHANGED <<row, pass, output, run, result>>
  BY DEF FailPost
<1>3. /\ task' \in [Task -> TaskRow \cup {None}] /\ \A u \in Task : u # t => task'[u] = task[u]
      /\ Created(t)' /\ task'[t].status \in {task[t].status, "failed"}
      /\ task'[t].rows = task[t].rows /\ task'[t].retryOf = task[t].retryOf
      /\ task'[t].status # "queued"
  <2>1. CASE task[t].status \in {"queued", "running"}
    BY <1>1, <2>1, Status DEF FailPost, MarkTaskFailed, TableStatus
  <2>2. CASE task[t].status \notin {"queued", "running"}
    BY <1>1, <2>2 DEF FailPost, MarkTaskFailed, TableInv, TableTypeOK, Created
  <2> QED BY <2>1, <2>2
<1>4. /\ request'[t].pc = "failed" /\ request'[t].count = request[t].count /\ request'[t].after = request[t].after
      /\ \A u \in Task : u # t => request'[u] = request[u]
      /\ request' \in [Task -> RequestType]
  BY GoesTo DEF FailPost, RequestSteps
<1>5. TableTypeOK'
  BY <1>2, <1>3, <1>4 DEF TableInv, TableTypeOK, RequestType
<1>6. \A u \in Task : u # t => Knows(u)' /\ Stays(u) /\ Writes(u) /\ SameRetry(u) /\ (Completed(u)' => Completed(u))
  BY <1>2, <1>3, <1>4, TaskFrame, RowsUnchanged DEF Completed, Created
<1>7. Listed(t)' = Listed(t) /\ (RowsDone(t) => RowsDone(t)')
  BY <1>2, SameRowsAreDone, RowsUnchanged
<1>8. (Seeded(t)' <=> Seeded(t)) /\ (Completed(t)' => Completed(t)) /\ Started(t)'
  BY <1>1, <1>3, <1>7 DEF Seeded, Completed, Started
<1>9. Knows(t)'
  BY <1>1, <1>2, <1>3, <1>4, <1>7, <1>8 DEF Knows, RequestKnows, TaskKnows, Completed
<1>10. Stays(t) /\ Writes(t) /\ SameRetry(t)
  BY <1>1, <1>2, <1>3, <1>4, <1>7, <1>8 DEF Stays, Writes, SameRetry
<1> QED BY <1>2, <1>5, <1>6, <1>8, <1>9, <1>10, QuietStep

LEMMA RunEndsStep ==
    ASSUME TableInv, NEW t \in Task, RunEnds(t)
    PROVE  TableInv'
<1>1. Knows(t) /\ run[t] = "running" /\ output[t].rows = {}
  BY DEF TableInv, Knows, TaskKnows, RunEnds
<1>2. PICK end \in {"finished", "failed", "cancelled"}, rows \in SUBSET Row :
          /\ end # "finished" => rows = {}
          /\ run' = [run EXCEPT ![t] = end]
          /\ result' = [result EXCEPT ![t] = rows]
  BY DEF RunEnds
<1>3. UNCHANGED <<task, row, output, request, pass>>
  BY DEF RunEnds
<1>4. TableTypeOK' /\ run'[t] = end /\ result'[t] = rows
      /\ \A u \in Task : u # t => run'[u] = run[u] /\ result'[u] = result[u]
  BY <1>2, <1>3 DEF TableInv, TableTypeOK
<1>5. \A u \in Task : u # t => Knows(u)' /\ Stays(u) /\ Writes(u) /\ SameRetry(u)
  BY <1>3, <1>4, TaskFrame, RowsUnchanged
<1>6. Listed(t)' = Listed(t) /\ (RowsDone(t) => RowsDone(t)')
  BY <1>3, SameRowsAreDone, RowsUnchanged
<1>7. (Seeded(t)' <=> Seeded(t)) /\ (Created(t)' <=> Created(t)) /\ (Started(t)' <=> Started(t))
      /\ \A u \in Task : Completed(u)' <=> Completed(u)
  BY <1>3, <1>6 DEF Seeded, Completed, Started, Created
<1>8. ~ Completed(t)
  BY <1>1 DEF Knows, TaskKnows
<1>9. Knows(t)' /\ Stays(t) /\ Writes(t) /\ SameRetry(t)
  BY <1>1, <1>2, <1>3, <1>4, <1>6, <1>7, <1>8 DEF Knows, RequestKnows, TaskKnows, Stays, Writes, SameRetry
<1> QED BY <1>3, <1>4, <1>5, <1>7, <1>9, QuietStep

RowType == [Entry -> [status : TableStatus \cup {"none"}, count : Nat]]

(* The row of a table task after an update of all of its task rows. *)
LEMMA RowsReplaced ==
    ASSUME TableInv, NEW t \in Task, NEW new \in RowType, row' = [row EXCEPT ![t] = new]
    PROVE  /\ row' \in [Task -> RowType] /\ row'[t] = new
           /\ \A u \in Task : u # t => row'[u] = row[u]
           /\ \A u \in Task : u # t => SameRows(u)
BY DEF TableInv, TableTypeOK, RowType, SameRows

(* A status that replaces that of some of the listed rows. *)
LEMMA StatusesReplaced ==
    ASSUME TableInv, NEW t \in Task, NEW new \in RowType, row' = [row EXCEPT ![t] = new],
           \A e \in Entry : new[e].count = row[t][e].count,
           \A e \in Entry : new[e].status # row[t][e].status => e \in Listed(t) /\ new[e].status # "none"
    PROVE  /\ row' \in [Task -> RowType] /\ row'[t] = new
           /\ \A u \in Task : u # t => SameRows(u)
           /\ \A u \in Task : Listed(u)' = Listed(u)
           /\ \A u \in Task, e \in Entry : row'[u][e].count = row[u][e].count
<1>1. /\ row' \in [Task -> RowType] /\ row'[t] = new
      /\ \A u \in Task : u # t => row'[u] = row[u]
      /\ \A u \in Task : u # t => SameRows(u)
  BY RowsReplaced
<1>2. Listed(t)' = Listed(t)
  BY <1>1 DEF Listed
<1>3. \A u \in Task : u # t => Listed(u)' = Listed(u)
  BY <1>1, SameRowsAreDone
<1> QED BY <1>1, <1>2, <1>3

LEMMA RowsRunningStep ==
    ASSUME TableInv, NEW t \in Task, MarkTaskRowsRunning(t)
    PROVE  TableInv'
<1> DEFINE step == IF task[t].retryOf = None THEN "done" ELSE "count"
           new == [e \in Entry |-> IF StillQueued(t, e) THEN [row[t][e] EXCEPT !.status = "running"] ELSE row[t][e]]
<1>1. /\ row' = [row EXCEPT ![t] = new] /\ new \in RowType
      /\ \A e \in Entry : new[e].count = row[t][e].count
      /\ \A e \in Entry : new[e].status = IF StillQueued(t, e) THEN "running" ELSE row[t][e].status
  <2>1. \A e \in Entry : row[t][e] \in [status : TableStatus \cup {"none"}, count : Nat]
    BY DEF TableInv, TableTypeOK
  <2>2. row' = [row EXCEPT ![t] = new]
    BY DEF MarkTaskRowsRunning
  <2> QED BY <2>1, <2>2 DEF RowType, TableStatus
<1> HIDE DEF new
<1>2. \A e \in Entry : new[e].status # row[t][e].status => e \in Listed(t) /\ new[e].status # "none"
  BY <1>1 DEF StillQueued, Listed
<1>3. /\ row' \in [Task -> RowType] /\ row'[t] = new
      /\ \A u \in Task : u # t => SameRows(u)
      /\ \A u \in Task : Listed(u)' = Listed(u)
      /\ \A u \in Task, e \in Entry : row'[u][e].count = row[u][e].count
  BY <1>1, <1>2, StatusesReplaced
<1>4. RowsDone(t) => RowsDone(t)'
  BY <1>1, <1>3 DEF RowsDone, StillQueued, Listed
<1>5. \A u \in Task : Listed(u)' = Listed(u) /\ (Started(u) /\ RowsDone(u) => RowsDone(u)')
  BY <1>3, <1>4, SameRowsAreDone
<1>6. Knows(t) /\ request[t].pc = "rows"
  BY DEF TableInv, MarkTaskRowsRunning
<1>7. run[t] # "none" /\ Created(t)
  BY <1>6 DEF Knows, RequestKnows
<1>8. UNCHANGED <<task, output, run, result, pass>> /\ GoTo(t, step)
  BY DEF MarkTaskRowsRunning
<1>9. step \in RequestSteps /\ step \in {"done", "count"} /\ (step = "count" => task[t].retryOf # None)
  BY DEF RequestSteps
<1>10. run \in [Task -> {"none", "running", "finished", "failed", "cancelled"}]
  BY DEF TableInv, TableTypeOK
<1> HIDE DEF step
<1>11. /\ TableTypeOK' /\ \A u \in Task : Knows(u)' /\ Stays(u) /\ Writes(u)
       /\ (\A p \in Proc : PassKnows(p)') /\ CompletedIsWhole' /\ SeededOnce'
  BY <1>3, <1>5, <1>7, <1>8, <1>9, <1>10, RequestGoesOn DEF RowType
<1>12. \A u \in Task : SameRetry(u)
  <2>1. request'[t].pc = step /\ \A u \in Task : u # t => request'[u] = request[u]
    BY <1>8, <1>9, GoesTo
  <2>2. task[t].retryOf # None => step # "done"
    BY DEF step
  <2> QED BY <1>6, <1>8, <2>1, <2>2 DEF SameRetry, Created
<1>13. CountsOK'
  BY <1>3, <1>11, <1>12, CountsKeep
<1> QED BY <1>11, <1>13 DEF TableInv

LEMMA CountStep ==
    ASSUME TableInv, NEW t \in Task, CountRetry(t)
    PROVE  TableInv'
<1>1. Knows(t) /\ request[t].pc = "count"
  BY DEF TableInv, CountRetry
<1>2. Created(t) /\ run[t] # "none" /\ task[t].retryOf # None /\ task[t] \in TaskRow
  BY <1>1 DEF Knows, RequestKnows, TableInv, TableTypeOK, Created
<1> DEFINE of == task[t].retryOf
           new == [row[of.task][of.row] EXCEPT !.count = request[t].count]
<1>3. of \in RetryOf /\ of.task \in Task /\ of.row \in Entry
  BY <1>2 DEF TaskRow, RetryOf
<1>4. row \in [Task -> RowType] /\ request[t].count \in Nat
  BY RequestsTyped DEF TableInv, TableTypeOK, RowType, RequestType
<1>5. /\ new \in [status : TableStatus \cup {"none"}, count : Nat]
      /\ new.status = row[of.task][of.row].status /\ new.count = request[t].count
  <2>1. row[of.task][of.row] \in [status : TableStatus \cup {"none"}, count : Nat]
    BY <1>3, <1>4 DEF RowType
  <2> QED BY <1>4, <2>1
<1>6. row' = [row EXCEPT ![of.task][of.row] = new]
  BY DEF CountRetry
<1> HIDE DEF new
<1>7. /\ row' \in [Task -> RowType] /\ row'[of.task][of.row] = new
      /\ \A u \in Task, e \in Entry : u # of.task \/ e # of.row => row'[u][e] = row[u][e]
  BY <1>3, <1>4, <1>5, <1>6 DEF RowType
<1>8. \A u \in Task : SameRows(u)
  BY <1>3, <1>5, <1>7 DEF SameRows
<1>9. UNCHANGED <<task, output, run, result, pass>> /\ GoTo(t, "done")
  BY DEF CountRetry
<1>10. \A u \in Task : Listed(u)' = Listed(u) /\ (Started(u) /\ RowsDone(u) => RowsDone(u)')
  BY <1>8, SameRowsAreDone
<1>11. run \in [Task -> {"none", "running", "finished", "failed", "cancelled"}]
  BY DEF TableInv, TableTypeOK
<1>12. /\ TableTypeOK' /\ \A u \in Task : Knows(u)' /\ Stays(u) /\ Writes(u)
       /\ (\A p \in Proc : PassKnows(p)') /\ CompletedIsWhole' /\ SeededOnce'
  BY <1>2, <1>7, <1>9, <1>10, <1>11, RequestGoesOn DEF RowType, RequestSteps
<1>13. /\ request'[t].pc = "done" /\ request'[t].after = request[t].after
       /\ \A u \in Task : u # t => request'[u] = request[u]
  BY <1>9, GoesTo DEF RequestSteps
<1>14. CountsOK'
  <2> SUFFICES ASSUME NEW u \in Task, NEW e \in Entry
               PROVE  /\ IsFiniteSet(Answered(u, e))'
                      /\ Counted(Answered(u, e), row[u][e].count)'
                      /\ \A s \in Retries(u, e)' : RetryKnows(s, Answered(u, e))'
    BY DEF CountsOK
  <2>1. PICK A, n : A = Answered(u, e) /\ n = row[u][e].count
    OBVIOUS
  <2>2. /\ IsFiniteSet(A) /\ Counted(A, n)
        /\ \A s \in Retries(u, e) : RetryKnows(s, A)
    BY <2>1 DEF TableInv, CountsOK
  <2>3. Retries(u, e)' = Retries(u, e) /\ A \subseteq Retries(u, e)
    BY <1>9, <2>1 DEF Retries, Created, Answered
  <2>4. \A s \in Retries(u, e) : request'[s].after = request[s].after /\ request'[s].count = request[s].count
    BY <1>12, RetriesAre DEF Stays
  <2>5. t \notin A
    BY <1>1, <2>1 DEF Answered
  <2>6. ASSUME NEW B, NEW m, B \subseteq A, Counted(B, m) PROVE Counted(B, m)'
    BY <2>3, <2>4, <2>6, CountedStays
  <2>7. ASSUME NEW s \in Retries(u, e), NEW C, A \subseteq C PROVE RetryKnows(s, C)'
    <3>1. PICK B, k : B = request[s].after /\ k = request[s].count - 1
      OBVIOUS
    <3>2. B \subseteq A /\ Counted(B, k)
      BY <2>2, <3>1 DEF RetryKnows
    <3>3. Counted(B, k)'
      BY <2>6, <3>2
    <3> QED BY <2>4, <2>7, <3>1, <3>2, <3>3 DEF RetryKnows
  <2>8. CASE u # of.task \/ e # of.row
    <3>1. t \notin Retries(u, e)
      BY <1>3, <2>8 DEF Retries, RetryOf
    <3>2. Answered(u, e)' = A
      BY <1>13, <2>1, <2>3, <3>1 DEF Answered, Retries
    <3>3. row'[u][e].count = n
      BY <1>7, <2>1, <2>8
    <3>4. Counted(A, n)'
      BY <2>2, <2>6
    <3>5. \A s \in Retries(u, e)' : RetryKnows(s, A)'
      BY <2>3, <2>7
    <3>6. Counted(Answered(u, e), row[u][e].count)'
      BY <3>2, <3>3, <3>4
    <3>7. \A s \in Retries(u, e)' : RetryKnows(s, Answered(u, e))'
      BY <3>2, <3>5
    <3> QED BY <2>2, <3>2, <3>6, <3>7
  <2>9. CASE u = of.task /\ e = of.row
    <3>1. t \in Retries(u, e)
      BY <1>2, <1>3, <2>9 DEF Retries, RetryOf
    <3>2. PICK C : C = A \cup {t}
      OBVIOUS
    <3>3. Answered(u, e)' = C
      BY <1>13, <2>1, <2>3, <3>1, <3>2 DEF Answered, Retries
    <3>4. IsFiniteSet(C) /\ Cardinality(C) = Cardinality(A) + 1 /\ Cardinality(A) \in Nat
      BY <2>2, <2>5, <3>2, FS_AddElement, FS_CardinalityType
    <3>5. PICK B, k : B = request[t].after /\ k = request[t].count
      OBVIOUS
    <3>6. B \subseteq A /\ k \in Nat /\ k - 1 <= Cardinality(B) /\ (OneAfterTheOther(B) => k - 1 = Cardinality(B))
      BY <1>4, <2>2, <3>1, <3>5 DEF RetryKnows, Counted
    <3>7. Cardinality(B) <= Cardinality(A) /\ Cardinality(B) \in Nat
      BY <2>2, <3>6, FS_Subset, FS_CardinalityType
    <3>8. k <= Cardinality(C)
      BY <3>4, <3>6, <3>7
    <3>9. ASSUME OneAfterTheOther(C)' PROVE k = Cardinality(C)
      <4>1. ASSUME NEW a \in A PROVE a \in B
        <5>1. a \in Retries(u, e) /\ a # t /\ request[a].after \subseteq A
          BY <2>2, <2>3, <2>5 DEF RetryKnows
        <5>2. a \in C /\ t \in C
          BY <3>2
        <5>3. a \in request'[t].after \/ t \in request'[a].after
          BY <3>9, <5>1, <5>2 DEF OneAfterTheOther
        <5> QED BY <1>13, <2>4, <2>5, <3>5, <5>1, <5>3
      <4>2. A = B
        BY <3>6, <4>1
      <4>3. \A s \in A : s \in C /\ request'[s].after = request[s].after
        BY <2>3, <2>4, <3>2
      <4>4. OneAfterTheOther(B)
        BY <3>9, <4>2, <4>3 DEF OneAfterTheOther
      <4> QED BY <3>4, <3>6, <4>2, <4>4
    <3>10. row'[u][e].count = k
      BY <1>5, <1>7, <2>9, <3>5
    <3>11. Counted(C, k)'
      BY <3>8, <3>9 DEF Counted
    <3>12. Counted(Answered(u, e), row[u][e].count)'
      BY <3>3, <3>10, <3>11
    <3>13. \A s \in Retries(u, e)' : RetryKnows(s, Answered(u, e))'
      BY <2>3, <2>7, <3>2, <3>3
    <3> QED BY <3>3, <3>4, <3>12, <3>13
  <2> QED BY <2>8, <2>9
<1> QED BY <1>12, <1>14 DEF TableInv

LEMMA SeedStep ==
    ASSUME TableInv, NEW t \in Task, NEW r \in Row, SeedRow(t, r)
    PROVE  TableInv'
<1> DEFINE e == <<r, "request">>
           new == [row[t][e] EXCEPT !.status = "queued"]
<1>1. Knows(t) /\ request[t].pc = "seed" /\ r \in task[t].rows /\ e \notin Listed(t)
  BY DEF TableInv, SeedRow
<1>2. Created(t) /\ task[t].status = "queued" /\ run[t] = "none" /\ ~ Started(t) /\ ~ Completed(t)
  BY <1>1 DEF Knows, RequestKnows, Started, Completed
<1>3. e \in Entry /\ row \in [Task -> RowType]
  BY DEF Entry, TableInv, TableTypeOK, RowType
<1>4. /\ new \in [status : TableStatus \cup {"none"}, count : Nat]
      /\ new.status = "queued" /\ new.count = row[t][e].count
  <2>1. row[t][e] \in [status : TableStatus \cup {"none"}, count : Nat]
    BY <1>3 DEF RowType
  <2> QED BY <2>1 DEF TableStatus
<1>5. row' = [row EXCEPT ![t][e] = new]
  BY DEF SeedRow
<1>6. UNCHANGED <<task, output, run, result, pass>>
  BY DEF SeedRow
<1>7. /\ \/ GoTo(t, "launch") /\ task[t].rows = {x[1] : x \in Listed(t)} \cup {r}
         \/ UNCHANGED request
  BY DEF SeedRow
<1>8. e[1] = r /\ e[2] = "request"
  OBVIOUS
<1> HIDE DEF new, e
<1>9. /\ row' \in [Task -> RowType] /\ row'[t][e] = new
      /\ \A u \in Task, x \in Entry : u # t \/ x # e => row'[u][x] = row[u][x]
  BY <1>3, <1>4, <1>5 DEF RowType
<1>10. Listed(t)' = Listed(t) \cup {e}
  BY <1>3, <1>4, <1>9 DEF Listed
<1>11. \A u \in Task : u # t => SameRows(u)
  BY <1>9 DEF SameRows
<1>12. \A u \in Task, x \in Entry : row'[u][x].count = row[u][x].count
  BY <1>3, <1>4, <1>9
<1>13. /\ request'[t].count = request[t].count /\ request'[t].after = request[t].after
       /\ request'[t].pc = "seed" \/ (request'[t].pc = "launch" /\ task[t].rows = {x[1] : x \in Listed(t)} \cup {r})
       /\ \A u \in Task : u # t => request'[u] = request[u]
       /\ request' \in [Task -> RequestType]
  <2>1. CASE GoTo(t, "launch") /\ task[t].rows = {x[1] : x \in Listed(t)} \cup {r}
    <3>1. "launch" \in RequestSteps
      BY DEF RequestSteps
    <3> QED BY <2>1, <3>1, GoesTo
  <2>2. CASE UNCHANGED request
    BY <1>1, <2>2, RequestsTyped
  <2> QED BY <1>7, <2>1, <2>2
<1>14. TableTypeOK'
  BY <1>6, <1>9, <1>13 DEF TableInv, TableTypeOK, RowType, RequestType
<1>15. ASSUME NEW u \in Task, u # t PROVE Knows(u)' /\ Stays(u) /\ Writes(u)
  BY <1>6, <1>11, <1>13, <1>15, TaskFrame
<1>16. Stays(t) /\ Writes(t)
  BY <1>2, <1>6, <1>13 DEF Stays, Writes, Created
<1>17. request'[t].pc = "launch" => Seeded(t)'
  BY <1>6, <1>8, <1>10, <1>13 DEF Seeded
<1>18. Created(t)' /\ ~ Completed(t)'
  BY <1>2, <1>6 DEF Created, Completed
<1>19. Knows(t)'
  BY <1>1, <1>2, <1>6, <1>13, <1>17, <1>18 DEF Knows, RequestKnows, TaskKnows
<1>20. \A p \in Proc : PassKnows(p)'
  BY <1>6, <1>15, <1>16, PassKeeps
<1>21. CompletedIsWhole'
  <2>1. \A u \in Task : Completed(u)' => Completed(u)
    BY <1>6 DEF Completed, Created
  <2> QED BY <1>15, <1>16, <2>1, CompletedKeeps
<1>22. SeededOnce'
  <2> SUFFICES ASSUME NEW u \in Task, Created(u)', NEW x \in Listed(u)'
               PROVE  task'[u].rows # {} <=> x[2] = "request"
    BY DEF SeededOnce
  <2>1. task'[u] = task[u] /\ Created(u)
    BY <1>6 DEF Created
  <2>2. CASE u = t /\ x = e
    BY <1>1, <1>8, <2>1, <2>2
  <2>3. CASE u # t \/ x # e
    <3>1. x \in Listed(u)
      BY <1>10, <1>11, <2>3, SameRowsAreDone
    <3> QED BY <2>1, <3>1 DEF TableInv, SeededOnce
  <2> QED BY <2>2, <2>3
<1>23. CountsOK'
  <2>1. \A u \in Task : SameRetry(u)
    BY <1>1, <1>6, <1>13 DEF SameRetry, Created
  <2> QED BY <1>12, <1>15, <1>16, <2>1, CountsKeep
<1> QED BY <1>14, <1>15, <1>19, <1>20, <1>21, <1>22, <1>23 DEF TableInv

LEMMA RequestInv ==
    ASSUME TableInv, NEW t \in Task, RequestStep(t) \/ RunEnds(t)
    PROVE  TableInv'
BY PostStep, RetryStep, SeedStep, LaunchStep, MarkStep, RowsRunningStep, CountStep, RequestEnds, FailPostStep,
   RunEndsStep DEF RequestStep

(* What the passes know after a step of one of them. *)
PassOK == pass \in [Proc -> PassRow] /\ \A p \in Proc : pass[p].pc \notin {"idle", "next"} => pass[p].task # None
LEMMA PassMoves ==
    ASSUME TableInv, NEW p \in Proc, NEW new \in PassRow, pass' = [pass EXCEPT ![p] = new],
           new.pc \notin {"idle", "next"} => new.task # None
    PROVE  PassOK' /\ pass'[p] = new /\ \A q \in Proc : q # p => pass'[q] = pass[q]
BY DEF TableInv, TableTypeOK, PassOK

LEMMA PassIsFree ==
    ASSUME TableInv, NEW p \in Proc, NEW todo, todo \subseteq Task, GoOn(p, todo), \A u \in todo : Started(u)',
           \A u \in Task : Stays(u) /\ Writes(u)
    PROVE  PassOK' /\ \A q \in Proc : PassKnows(q)'
<1> DEFINE new == IF todo = {} THEN IdlePass ELSE [IdlePass EXCEPT !.pc = "next", !.todo = todo]
<1>1. new \in PassRow /\ new.pc \in {"idle", "next"} /\ new.todo \subseteq todo
  BY DEF IdlePass, PassRow
<1>2. pass' = [pass EXCEPT ![p] = new]
  BY DEF GoOn
<1> HIDE DEF new
<1>3. PassOK' /\ pass'[p] = new /\ \A q \in Proc : q # p => pass'[q] = pass[q]
  BY <1>1, <1>2, PassMoves
<1>4. PassKnows(p)'
  <2>1. pass'[p].pc \in {"idle", "next"} /\ \A u \in pass'[p].todo : Started(u)'
    BY <1>1, <1>3
  <2> QED BY <2>1 DEF PassKnows, Started, Created
<1> QED BY <1>3, <1>4, PassKeeps

(* A step that only moves a pass. *)
LEMMA PassOnly ==
    ASSUME TableInv, UNCHANGED <<task, row, output, run, result, request>>, PassOK', \A p \in Proc : PassKnows(p)'
    PROVE  TableInv'
<1>1. \A u \in Task : Knows(u)' /\ Stays(u) /\ Writes(u)
  BY TaskFrame, RowsUnchanged
<1>2. \A u \in Task : Completed(u)' => Completed(u)
  BY DEF Completed, Created
<1>3. TableTypeOK'
  BY DEF TableInv, TableTypeOK, PassOK
<1>4. \A u \in Task : Created(u)' => Created(u)
  BY DEF Created
<1>5. CompletedIsWhole' /\ SeededOnce' /\ CountsOK'
  BY <1>1, <1>2, <1>4, RowsUnchanged, CompletedKeeps, SeededKeeps, PassCountsKeep
<1> QED BY <1>1, <1>3, <1>5 DEF TableInv

LEMMA Unmoved ==
    ASSUME TableInv, UNCHANGED <<task, row, output, run, result, request>>
    PROVE  \A u \in Task : Stays(u) /\ Writes(u) /\ (Started(u)' <=> Started(u))
BY TaskFrame, RowsUnchanged DEF Started, Created

LEMMA FreeStep ==
    ASSUME TableInv, NEW p \in Proc, NEW todo, todo \subseteq Task, \A u \in todo : Started(u),
           GoOn(p, todo), UNCHANGED <<task, row, output, run, result, request>>
    PROVE  TableInv'
BY PassIsFree, PassOnly, Unmoved

LEMMA TodoIsStarted ==
    ASSUME TableInv, NEW p \in Proc
    PROVE  pass[p].todo \subseteq Task /\ \A u \in pass[p].todo : Started(u)
BY DEF TableInv, TableTypeOK, PassRow, PassKnows

LEMMA StartStep ==
    ASSUME TableInv, NEW p \in Proc, StartPass(p)
    PROVE  TableInv'
<1> DEFINE todo == {t \in Task : Created(t) /\ task[t].status = "running"}
<1>1. todo \subseteq Task /\ \A u \in todo : Started(u)
  BY DEF Started
<1>2. GoOn(p, todo) /\ UNCHANGED <<task, row, output, run, result, request>>
  BY DEF StartPass
<1> HIDE DEF todo
<1> QED BY <1>1, <1>2, FreeStep

LEMMA DiesStep ==
    ASSUME TableInv, NEW p \in Proc, ProcessDies(p)
    PROVE  TableInv'
<1>1. GoOn(p, {}) /\ UNCHANGED <<task, row, output, run, result, request>>
  BY DEF ProcessDies, GoOn
<1> QED BY <1>1, FreeStep

LEMMA InspectStep ==
    ASSUME TableInv, NEW p \in Proc, NEW t \in Task, Inspect(p, t)
    PROVE  TableInv'
<1>1. UNCHANGED <<task, row, output, run, result, request>> /\ t \in pass[p].todo
  BY DEF Inspect
<1>2. Started(t) /\ pass[p].todo \subseteq Task /\ \A u \in pass[p].todo : Started(u)
  BY <1>1, TodoIsStarted
<1>3. CASE GoOn(p, pass[p].todo \ {t})
  BY <1>1, <1>2, <1>3, FreeStep
<1>4. ASSUME NEW verdict \in {"summary", "cancel", "fail"}, verdict = "summary" => run[t] = "finished",
             Handle(p, t, verdict)
      PROVE  TableInv'
  <2> DEFINE new == [pc |-> verdict, todo |-> pass[p].todo \ {t}, task |-> t, rows |-> {}]
  <2>1. new \in PassRow /\ new.task # None
    BY <1>2, TableAssumption DEF PassRow
  <2>2. new.pc = verdict /\ new.task = t /\ new.todo \subseteq pass[p].todo
    OBVIOUS
  <2>3. pass' = [pass EXCEPT ![p] = new]
    BY <1>4 DEF Handle
  <2> HIDE DEF new
  <2>4. PassOK' /\ pass'[p] = new /\ \A q \in Proc : q # p => pass'[q] = pass[q]
    BY <2>1, <2>3, PassMoves
  <2>5. PassKnows(p)'
    BY <1>1, <1>2, <1>4, <2>2, <2>4 DEF PassKnows, Started, Created
  <2> QED BY <1>1, <2>4, <2>5, PassKeeps, Unmoved, PassOnly
<1>5. CASE Handle(p, t, Verdict(t))
  <2>1. Verdict(t) \in {"summary", "cancel", "fail"} /\ (Verdict(t) = "summary" => run[t] = "finished")
    BY DEF Verdict
  <2> QED BY <1>4, <1>5, <2>1
<1>6. CASE Handle(p, t, "fail")
  BY <1>4, <1>6
<1> QED BY <1>3, <1>5, <1>6 DEF Inspect

LEMMA BackfillStarts ==
    ASSUME TableInv, NEW p \in Proc, NEW t \in Task, StartBackfill(p, t)
    PROVE  TableInv'
<1>1. UNCHANGED <<task, row, output, run, result, request>> /\ Completed(t) /\ Listed(t) = {}
  BY DEF StartBackfill, Unlisted
<1>2. Started(t) /\ task[t].rows = {}
  <2>1. Seeded(t)
    BY <1>1 DEF TableInv, Knows, TaskKnows, Completed
  <2> QED BY <1>1, <2>1 DEF Seeded, Started, Completed
<1> DEFINE new == [pc |-> "backfill", todo |-> {}, task |-> t, rows |-> output[t].rows]
<1>3. new \in PassRow /\ new.task # None
  BY TableAssumption DEF PassRow, TableInv, TableTypeOK
<1>4. new.pc = "backfill" /\ new.task = t /\ new.todo = {}
  OBVIOUS
<1>5. pass' = [pass EXCEPT ![p] = new]
  BY DEF StartBackfill
<1> HIDE DEF new
<1>6. PassOK' /\ pass'[p] = new /\ \A q \in Proc : q # p => pass'[q] = pass[q]
  BY <1>3, <1>5, PassMoves
<1>7. PassKnows(p)'
  BY <1>1, <1>2, <1>4, <1>6 DEF PassKnows, Started, Created
<1> QED BY <1>1, <1>6, <1>7, PassKeeps, Unmoved, PassOnly

LEMMA CurrentIsStarted ==
    ASSUME TableInv, NEW p \in Proc, pass[p].pc \notin {"idle", "next"}
    PROVE  Current(p) \in Task /\ Started(Current(p)) /\ PassKnows(p) /\ pass[p] \in PassRow
BY DEF TableInv, TableTypeOK, PassRow, PassKnows, Current

(* A pass ends a running task and goes on with the next. *)
LEMMA EndsStep ==
    ASSUME TableInv, NEW p \in Proc, NEW t \in Task, Started(t), NEW status \in {"failed", "cancelled", "completed"},
           task' = IF task[t].status = "running" THEN [task EXCEPT ![t].status = status] ELSE task,
           status = "completed" => Whole(t) /\ RowsDone(t) /\ run[t] = "finished",
           Leave(p), UNCHANGED <<row, output, run, result, request>>
    PROVE  TableInv'
<1>1. Created(t) /\ Knows(t) /\ task[t].status # "queued"
  BY DEF TableInv, Started
<1>2. /\ task' \in [Task -> TaskRow \cup {None}] /\ \A u \in Task : u # t => task'[u] = task[u]
      /\ Created(t)' /\ task'[t].rows = task[t].rows /\ task'[t].retryOf = task[t].retryOf
      /\ task'[t].status = IF task[t].status = "running" THEN status ELSE task[t].status
  <2>1. CASE task[t].status = "running"
    <3>1. status \in TableStatus /\ task' = [task EXCEPT ![t].status = status]
      BY <2>1 DEF TableStatus
    <3> QED BY <1>1, <2>1, <3>1, Status
  <2>2. CASE task[t].status # "running"
    BY <1>1, <2>2 DEF TableInv, TableTypeOK, Created
  <2> QED BY <2>1, <2>2
<1>3. \A u \in Task : u # t => Knows(u)' /\ Stays(u) /\ Writes(u) /\ (Completed(u)' => Completed(u))
  BY <1>2, TaskFrame, RowsUnchanged DEF Completed, Created
<1>4. Listed(t)' = Listed(t) /\ (RowsDone(t) => RowsDone(t)')
  BY SameRowsAreDone, RowsUnchanged
<1>5. Started(t)'
  BY <1>1, <1>2 DEF Started
<1>6. Seeded(t)' <=> Seeded(t)
  BY <1>2, <1>4 DEF Seeded
<1>7. Knows(t)'
  <2>1. RequestKnows(t)'
    BY <1>1, <1>2, <1>4 DEF Knows, RequestKnows
  <2>2. TaskKnows(t)'
    <3>1. Completed(t)' => Completed(t) \/ status = "completed"
      BY <1>1, <1>2 DEF Completed
    <3>2. task'[t].status \in {"running", "completed", "cancelled"} => task[t].status \in {"running", "completed", "cancelled"}
      BY <1>2
    <3> QED BY <1>1, <1>6, <3>1, <3>2 DEF Knows, TaskKnows
  <2> QED BY <2>1, <2>2 DEF Knows
<1>8. Stays(t) /\ Writes(t)
  BY <1>1, <1>2, <1>4, <1>5 DEF Stays, Writes
<1>9. PassOK' /\ \A q \in Proc : PassKnows(q)'
  <2>1. pass[p].todo \subseteq Task /\ GoOn(p, pass[p].todo) /\ \A u \in pass[p].todo : Started(u)
    BY TodoIsStarted DEF Leave
  <2>2. \A u \in pass[p].todo : Started(u)'
    BY <1>3, <1>8, <2>1 DEF Stays
  <2> QED BY <1>3, <1>8, <2>1, <2>2, PassIsFree
<1>10. TableTypeOK'
  BY <1>2, <1>9 DEF TableInv, TableTypeOK, PassOK
<1>11. CompletedIsWhole'
  <2>1. CASE Completed(t)' => Completed(t)
    BY <1>3, <1>8, <2>1, CompletedKeeps
  <2>2. CASE Completed(t)' /\ ~ Completed(t)
    <3>1. status = "completed"
      BY <1>1, <1>2, <2>2 DEF Completed
    <3>2. Whole(t) /\ RowsDone(t)'
      BY <1>4, <3>1
    <3> SUFFICES ASSUME NEW u \in Task, Completed(u)' PROVE Whole(u)' /\ RowsDone(u)'
      BY DEF CompletedIsWhole, Whole, RowsDone
    <3>3. CASE u = t
      BY <3>2, <3>3 DEF Whole
    <3>4. CASE u # t
      <4>1. Completed(u)
        BY <1>3, <3>4
      <4>2. Whole(u) /\ RowsDone(u)
        BY <4>1 DEF TableInv, CompletedIsWhole, Whole, RowsDone
      <4>3. RowsDone(u)'
        BY <4>2, RowsUnchanged, SameRowsAreDone
      <4> QED BY <4>2, <4>3 DEF Whole
    <3> QED BY <3>3, <3>4
  <2> QED BY <2>1, <2>2
<1>12. SeededOnce' /\ CountsOK'
  <2>1. \A u \in Task : Created(u)' => Created(u)
    BY <1>1, <1>2 DEF Created
  <2> QED BY <1>3, <1>8, <2>1, RowsUnchanged, SeededKeeps, PassCountsKeep
<1> QED BY <1>3, <1>7, <1>9, <1>10, <1>11, <1>12 DEF TableInv

LEMMA FailStep ==
    ASSUME TableInv, NEW p \in Proc, FailTask(p)
    PROVE  TableInv'
<1>1. Current(p) \in Task /\ Started(Current(p))
  BY CurrentIsStarted DEF FailTask
<1>2. task' = IF task[Current(p)].status = "running"
              THEN [task EXCEPT ![Current(p)].status = "failed"] ELSE task
  BY <1>1 DEF FailTask, MarkTaskFailed, Started
<1>3. Leave(p) /\ UNCHANGED <<row, output, run, result, request>>
  BY DEF FailTask
<1> QED BY <1>1, <1>2, <1>3, EndsStep

LEMMA EndStep ==
    ASSUME TableInv, NEW p \in Proc, CancelTask(p) \/ CompleteTask(p)
    PROVE  TableInv'
<1>1. Current(p) \in Task /\ Started(Current(p)) /\ PassKnows(p)
  BY CurrentIsStarted DEF CancelTask, CompleteTask
<1>2. PICK status \in {"cancelled", "completed"} : EndTask(p, status) /\ (status = "completed" => pass[p].pc = "complete")
  BY DEF CancelTask, CompleteTask
<1>3. status = "completed" => Whole(Current(p)) /\ RowsDone(Current(p)) /\ run[Current(p)] = "finished"
  BY <1>1, <1>2 DEF PassKnows, Whole, Current
<1>4. /\ task' = IF task[Current(p)].status = "running"
                 THEN [task EXCEPT ![Current(p)].status = status] ELSE task
      /\ Leave(p) /\ UNCHANGED <<row, output, run, result, request>>
  BY <1>2 DEF EndTask
<1> QED BY <1>1, <1>3, <1>4, EndsStep

(* A pass writes some of the output of its task. *)
LEMMA WriteStep ==
    ASSUME TableInv, NEW p \in Proc, NEW t \in Task, t = Current(p), Started(t), run[t] = "finished",
           NEW new \in [summary : BOOLEAN, rows : SUBSET Row, sources : BOOLEAN],
           new.rows \subseteq result[t], output[t].rows \subseteq new.rows,
           output[t].summary => new.summary, output[t].sources => new.sources,
           output' = [output EXCEPT ![t] = new],
           NEW step \in {"summary", "results", "sources", "rows"},
           pass' = [pass EXCEPT ![p] = [pass[p] EXCEPT !.pc = step]],
           step # "summary" => new.summary, step \in {"sources", "rows"} => new.rows = result[t],
           step = "rows" => new.sources, UNCHANGED <<task, row, run, result, request>>
    PROVE  TableInv'
<1>1. output'[t] = new /\ \A u \in Task : u # t => output'[u] = output[u]
  BY DEF TableInv, TableTypeOK
<1>2. \A u \in Task : u # t => Knows(u)' /\ Stays(u) /\ Writes(u)
  BY <1>1, TaskFrame, RowsUnchanged
<1>3. Listed(t)' = Listed(t) /\ (RowsDone(t) => RowsDone(t)') /\ (Seeded(t)' <=> Seeded(t))
  BY SameRowsAreDone, RowsUnchanged DEF Seeded
<1>4. Knows(t)'
  BY <1>1, <1>3 DEF TableInv, Knows, RequestKnows, TaskKnows, Created, Completed
<1>5. Stays(t) /\ Writes(t)
  <2>1. output[t].rows = result[t] => new.rows = result[t]
    OBVIOUS
  <2> QED BY <1>1, <1>3, <2>1 DEF Stays, Writes, Started, Created
<1> DEFINE to == [pass[p] EXCEPT !.pc = step]
<1>6. to \in PassRow /\ to.pc = step /\ to.task = t /\ to.todo = pass[p].todo /\ t # None
  <2>1. pass[p] \in PassRow /\ t # None
    BY TableAssumption DEF TableInv, TableTypeOK
  <2>2. to \in PassRow /\ to.pc = step /\ to.task = pass[p].task /\ to.todo = pass[p].todo
    BY <2>1 DEF PassRow
  <2> QED BY <2>1, <2>2 DEF Current
<1> HIDE DEF to
<1>7. pass' = [pass EXCEPT ![p] = to]
  BY DEF to
<1>8. PassOK' /\ pass'[p] = to /\ \A q \in Proc : q # p => pass'[q] = pass[q]
  BY <1>6, <1>7, PassMoves
<1>9. PassKnows(p)'
  <2>1. /\ \A u \in pass'[p].todo : Started(u)'
        /\ Started(t)' /\ run'[t] = "finished"
    BY <1>2, <1>5, <1>6, <1>8, TodoIsStarted DEF Stays
  <2>2. /\ step # "summary" => output'[t].summary
        /\ step \in {"sources", "rows"} => output'[t].rows = result'[t]
        /\ step = "rows" => output'[t].sources
    BY <1>1
  <2> QED BY <1>6, <1>8, <2>1, <2>2 DEF PassKnows, Started, Created
<1>10. \A q \in Proc : PassKnows(q)'
  BY <1>2, <1>5, <1>8, <1>9, PassKeeps
<1>11. TableTypeOK'
  BY <1>8 DEF TableInv, TableTypeOK, PassOK
<1>12. \A u \in Task : (Completed(u)' => Completed(u)) /\ (Created(u)' => Created(u))
  BY DEF Completed, Created
<1>13. CompletedIsWhole' /\ SeededOnce' /\ CountsOK'
  BY <1>2, <1>5, <1>12, RowsUnchanged, CompletedKeeps, SeededKeeps, PassCountsKeep
<1> QED BY <1>2, <1>4, <1>10, <1>11, <1>13 DEF TableInv

LEMMA SummaryStep ==
    ASSUME TableInv, NEW p \in Proc, WriteSummary(p)
    PROVE  TableInv'
<1> DEFINE t == Current(p)
           new == [output[t] EXCEPT !.summary = TRUE]
           step == IF Unwritten(t) = {} THEN "sources" ELSE "results"
<1>1. t \in Task /\ Started(t) /\ PassKnows(p) /\ pass[p].pc = "summary"
  BY CurrentIsStarted DEF WriteSummary
<1>2. run[t] = "finished"
  BY <1>1 DEF PassKnows, Current
<1>3. output[t] \in [summary : BOOLEAN, rows : SUBSET Row, sources : BOOLEAN] /\ output[t].rows \subseteq result[t]
  BY <1>1 DEF TableInv, TableTypeOK, Knows, TaskKnows
<1>4. /\ new \in [summary : BOOLEAN, rows : SUBSET Row, sources : BOOLEAN]
      /\ new.rows = output[t].rows /\ new.summary /\ new.sources = output[t].sources
  BY <1>3
<1>5. step \in {"results", "sources"} /\ (step = "sources" => output[t].rows = result[t])
  BY <1>3 DEF Unwritten
<1>6. /\ output' = [output EXCEPT ![t] = new]
      /\ pass' = [pass EXCEPT ![p] = [pass[p] EXCEPT !.pc = step]]
      /\ UNCHANGED <<task, row, run, result, request>>
  BY DEF WriteSummary, Step
<1> HIDE DEF new, step
<1> QED BY <1>1, <1>2, <1>3, <1>4, <1>5, <1>6, WriteStep

LEMMA ResultStep ==
    ASSUME TableInv, NEW p \in Proc, WriteResult(p)
    PROVE  TableInv'
<1> DEFINE t == Current(p)
<1>1. t \in Task /\ Started(t) /\ PassKnows(p) /\ pass[p].pc = "results" /\ pass[p] \in PassRow
  BY CurrentIsStarted DEF WriteResult
<1>2. PICK r \in result[t] :
          /\ output' = [output EXCEPT ![t].rows = @ \cup {r}]
          /\ IF Unwritten(t) \subseteq {r} THEN Step(p, "sources") ELSE UNCHANGED pass
  BY DEF WriteResult
<1> DEFINE new == [output[t] EXCEPT !.rows = @ \cup {r}]
           step == IF Unwritten(t) \subseteq {r} THEN "sources" ELSE "results"
<1>3. run[t] = "finished" /\ output[t].summary
  BY <1>1 DEF PassKnows, Current
<1>4. /\ output[t] \in [summary : BOOLEAN, rows : SUBSET Row, sources : BOOLEAN]
      /\ output[t].rows \subseteq result[t] /\ result[t] \subseteq Row
  BY <1>1 DEF TableInv, TableTypeOK, Knows, TaskKnows
<1>5. /\ new \in [summary : BOOLEAN, rows : SUBSET Row, sources : BOOLEAN]
      /\ new.rows = output[t].rows \cup {r} /\ new.summary /\ new.sources = output[t].sources
  BY <1>3, <1>4
<1>6. step \in {"results", "sources"} /\ (step = "sources" => new.rows = result[t])
  BY <1>2, <1>4, <1>5 DEF Unwritten
<1>7. pass' = [pass EXCEPT ![p] = [pass[p] EXCEPT !.pc = step]]
  <2>1. CASE Unwritten(t) \subseteq {r}
    BY <1>2, <2>1 DEF Step
  <2>2. CASE ~ (Unwritten(t) \subseteq {r})
    <3>1. [pass[p] EXCEPT !.pc = "results"] = pass[p]
      BY <1>1 DEF PassRow
    <3>2. [pass EXCEPT ![p] = pass[p]] = pass
      BY DEF TableInv, TableTypeOK
    <3> QED BY <1>2, <2>2, <3>1, <3>2
  <2> QED BY <2>1, <2>2
<1>8. output' = [output EXCEPT ![t] = new] /\ UNCHANGED <<task, row, run, result, request>>
  BY <1>2 DEF WriteResult
<1>9. new.rows \subseteq result[t] /\ output[t].rows \subseteq new.rows
  BY <1>4, <1>5
<1> HIDE DEF new, step
<1> QED BY <1>1, <1>3, <1>5, <1>6, <1>7, <1>8, <1>9, WriteStep

LEMMA SourcesStep ==
    ASSUME TableInv, NEW p \in Proc, WriteSources(p)
    PROVE  TableInv'
<1> DEFINE t == Current(p)
           new == [output[t] EXCEPT !.sources = TRUE]
<1>1. t \in Task /\ Started(t) /\ PassKnows(p) /\ pass[p].pc = "sources"
  BY CurrentIsStarted DEF WriteSources
<1>2. run[t] = "finished" /\ output[t].summary /\ output[t].rows = result[t]
  BY <1>1 DEF PassKnows, Current
<1>3. output[t] \in [summary : BOOLEAN, rows : SUBSET Row, sources : BOOLEAN]
  BY <1>1 DEF TableInv, TableTypeOK
<1>4. /\ new \in [summary : BOOLEAN, rows : SUBSET Row, sources : BOOLEAN]
      /\ new.rows = output[t].rows /\ new.summary = output[t].summary /\ new.sources
  BY <1>3
<1>5. /\ output' = [output EXCEPT ![t] = new]
      /\ pass' = [pass EXCEPT ![p] = [pass[p] EXCEPT !.pc = "rows"]]
      /\ UNCHANGED <<task, row, run, result, request>>
  BY DEF WriteSources, Step
<1> HIDE DEF new
<1> QED BY <1>1, <1>2, <1>4, <1>5, WriteStep

LEMMA RowsCompletedStep ==
    ASSUME TableInv, NEW p \in Proc, NEW t \in Task, t = Current(p), MarkTaskRowsCompleted(p)
    PROVE  TableInv'
<1> DEFINE new == [e \in Entry |-> IF e \in Listed(t) THEN [row[t][e] EXCEPT !.status = "completed"] ELSE row[t][e]]
           to == [pass[p] EXCEPT !.pc = "complete"]
<1>1. t \in Task /\ Started(t) /\ PassKnows(p) /\ pass[p] \in PassRow /\ pass[p].pc = "rows"
  BY CurrentIsStarted DEF MarkTaskRowsCompleted
<1>2. /\ row' = [row EXCEPT ![t] = new] /\ new \in RowType
      /\ \A e \in Entry : new[e].count = row[t][e].count
      /\ \A e \in Entry : new[e].status = IF e \in Listed(t) THEN "completed" ELSE row[t][e].status
  <2>1. \A e \in Entry : row[t][e] \in [status : TableStatus \cup {"none"}, count : Nat]
    BY <1>1 DEF TableInv, TableTypeOK
  <2>2. row' = [row EXCEPT ![t] = new]
    BY DEF MarkTaskRowsCompleted
  <2> QED BY <2>1, <2>2 DEF RowType, TableStatus
<1> HIDE DEF new
<1>3. \A e \in Entry : new[e].status # row[t][e].status => e \in Listed(t) /\ new[e].status # "none"
  BY <1>2
<1>4. /\ row' \in [Task -> RowType] /\ row'[t] = new
      /\ \A u \in Task : u # t => SameRows(u)
      /\ \A u \in Task : Listed(u)' = Listed(u)
      /\ \A u \in Task, e \in Entry : row'[u][e].count = row[u][e].count
  BY <1>1, <1>2, <1>3, StatusesReplaced
<1>5. RowsDone(t)'
  BY <1>2, <1>4 DEF RowsDone, Listed
<1>6. \A u \in Task : RowsDone(u) => RowsDone(u)'
  BY <1>4, <1>5, SameRowsAreDone
<1>7. UNCHANGED <<task, output, run, result, request>>
  BY DEF MarkTaskRowsCompleted
<1>8. \A u \in Task : Knows(u)' /\ Stays(u) /\ Writes(u)
  <2> SUFFICES ASSUME NEW u \in Task PROVE Knows(u)' /\ Stays(u) /\ Writes(u)
    OBVIOUS
  <2>1. Knows(u) /\ Listed(u)' = Listed(u)
    BY <1>4 DEF TableInv
  <2>2. (Seeded(u)' <=> Seeded(u)) /\ (Created(u)' <=> Created(u)) /\ (Completed(u)' <=> Completed(u))
        /\ (Started(u)' <=> Started(u))
    BY <1>7, <2>1 DEF Seeded, Created, Completed, Started
  <2>3. Knows(u)'
    BY <1>7, <2>1, <2>2 DEF Knows, RequestKnows, TaskKnows
  <2> QED BY <1>6, <1>7, <2>2, <2>3 DEF Stays, Writes
<1>9. pass' = [pass EXCEPT ![p] = to] /\ to \in PassRow /\ to.pc = "complete" /\ to.task = t /\ to.todo = pass[p].todo
  BY <1>1 DEF MarkTaskRowsCompleted, Step, PassRow, Current
<1> HIDE DEF to
<1>10. PassOK' /\ pass'[p] = to /\ \A q \in Proc : q # p => pass'[q] = pass[q]
  <2>1. t # None
    BY <1>1, TableAssumption
  <2> QED BY <1>9, <2>1, PassMoves
<1>11. PassKnows(p)'
  <2>1. (\A u \in pass'[p].todo : Started(u)') /\ Started(t)'
    BY <1>1, <1>8, <1>9, <1>10, TodoIsStarted DEF Stays
  <2>2. run[t] = "finished" /\ output[t].summary /\ output[t].rows = result[t] /\ output[t].sources
    BY <1>1 DEF PassKnows, Current
  <2>3. run'[t] = "finished" /\ output'[t].summary /\ output'[t].rows = result'[t] /\ output'[t].sources
    BY <1>7, <2>2
  <2> QED BY <1>5, <1>9, <1>10, <2>1, <2>3 DEF PassKnows, Started, Created, RowsDone, Listed
<1>12. \A q \in Proc : PassKnows(q)'
  BY <1>8, <1>10, <1>11, PassKeeps
<1>13. TableTypeOK'
  BY <1>4, <1>7, <1>10 DEF TableInv, TableTypeOK, PassOK, RowType
<1>14. CompletedIsWhole' /\ CountsOK'
  <2>1. \A u \in Task : (Completed(u)' => Completed(u)) /\ (Created(u)' => Created(u))
    BY <1>7 DEF Completed, Created
  <2> QED BY <1>4, <1>7, <1>8, <2>1, CompletedKeeps, PassCountsKeep
<1>15. SeededOnce'
  BY <1>4, <1>7 DEF TableInv, SeededOnce, Created
<1> QED BY <1>8, <1>12, <1>13, <1>14, <1>15 DEF TableInv

LEMMA BackfillStep ==
    ASSUME TableInv, NEW p \in Proc, NEW t \in Task, t = Current(p), BackfillRow(p)
    PROVE  TableInv'
<1>1. t \in Task /\ Started(t) /\ PassKnows(p) /\ pass[p] \in PassRow /\ pass[p].pc = "backfill"
  BY CurrentIsStarted DEF BackfillRow
<1>2. PICK r \in pass[p].rows :
          /\ row' = [row EXCEPT ![t][<<r, p>>].status = "completed"]
          /\ pass' = [pass EXCEPT ![p] =
                IF pass[p].rows \ {r} = {} THEN IdlePass ELSE [pass[p] EXCEPT !.rows = pass[p].rows \ {r}]]
  BY DEF BackfillRow
<1> DEFINE e == <<r, p>>
           new == [row[t][e] EXCEPT !.status = "completed"]
           rest == pass[p].rows \ {r}
           to == IF rest = {} THEN IdlePass ELSE [pass[p] EXCEPT !.rows = rest]
<1>3. task[t].rows = {}
  BY <1>1 DEF PassKnows, Current
<1>4. e \in Entry /\ e[2] = p /\ row \in [Task -> RowType]
  BY <1>1 DEF Entry, PassRow, TableInv, TableTypeOK, RowType
<1>5. /\ new \in [status : TableStatus \cup {"none"}, count : Nat]
      /\ new.status = "completed" /\ new.count = row[t][e].count
  <2>1. row[t][e] \in [status : TableStatus \cup {"none"}, count : Nat]
    BY <1>1, <1>4 DEF RowType
  <2> QED BY <2>1 DEF TableStatus
<1>6. row' = [row EXCEPT ![t][e] = new]
  BY <1>2
<1> HIDE DEF new, e
<1>7. /\ row' \in [Task -> RowType] /\ row'[t][e] = new
      /\ \A u \in Task, x \in Entry : u # t \/ x # e => row'[u][x] = row[u][x]
  BY <1>1, <1>4, <1>5, <1>6 DEF RowType
<1>8. Listed(t)' = Listed(t) \cup {e}
  BY <1>1, <1>4, <1>5, <1>7 DEF Listed
<1>9. \A u \in Task : u # t => SameRows(u)
  BY <1>7 DEF SameRows
<1>10. \A u \in Task, x \in Entry : row'[u][x].count = row[u][x].count
  BY <1>1, <1>4, <1>5, <1>7
<1>11. RowsDone(t) => RowsDone(t)'
  BY <1>4, <1>5, <1>7, <1>8 DEF RowsDone, Listed
<1>12. UNCHANGED <<task, output, run, result, request>>
  BY DEF BackfillRow
<1>13. \A u \in Task : u # t => Knows(u)' /\ Stays(u) /\ Writes(u)
  BY <1>9, <1>12, TaskFrame
<1>14. Created(t)' /\ (Seeded(t) => Seeded(t)') /\ (Completed(t)' <=> Completed(t))
  BY <1>1, <1>8, <1>12 DEF Created, Started, Seeded, Completed
<1>15. Knows(t)'
  BY <1>1, <1>12, <1>14 DEF TableInv, Started, Knows, RequestKnows, TaskKnows
<1>16. Stays(t) /\ Writes(t)
  BY <1>11, <1>12, <1>14 DEF Stays, Writes, Started, Created
<1>17. pass' = [pass EXCEPT ![p] = to]
  BY <1>2
<1>18. /\ to \in PassRow /\ to.pc \in {"idle", "backfill"} /\ to.todo \subseteq pass[p].todo
       /\ to.pc = "backfill" => to.task = t
  <2>1. CASE rest = {}
    BY <2>1 DEF IdlePass, PassRow
  <2>2. CASE rest # {}
    BY <1>1, <2>2 DEF PassRow, Current
  <2> QED BY <2>1, <2>2
<1> HIDE DEF to
<1>19. PassOK' /\ pass'[p] = to /\ \A q \in Proc : q # p => pass'[q] = pass[q]
  <2>1. t # None
    BY <1>1, TableAssumption
  <2> QED BY <1>17, <1>18, <2>1, PassMoves
<1>20. PassKnows(p)'
  <2>1. (\A u \in pass'[p].todo : Started(u)') /\ Started(t)' /\ task'[t].rows = {}
    BY <1>1, <1>3, <1>12, <1>13, <1>16, <1>18, <1>19, TodoIsStarted DEF Stays
  <2> QED BY <1>18, <1>19, <2>1 DEF PassKnows, Started, Created
<1>21. \A q \in Proc : PassKnows(q)'
  BY <1>13, <1>16, <1>19, <1>20, PassKeeps
<1>22. TableTypeOK'
  BY <1>7, <1>12, <1>19 DEF TableInv, TableTypeOK, PassOK, RowType
<1>23. CompletedIsWhole' /\ CountsOK'
  <2>1. \A u \in Task : (Completed(u)' => Completed(u)) /\ (Created(u)' => Created(u))
    BY <1>12 DEF Completed, Created
  <2> QED BY <1>10, <1>12, <1>13, <1>16, <2>1, CompletedKeeps, PassCountsKeep
<1>24. SeededOnce'
  <2> SUFFICES ASSUME NEW u \in Task, Created(u)', NEW x \in Listed(u)'
               PROVE  task'[u].rows # {} <=> x[2] = "request"
    BY DEF SeededOnce
  <2>1. task'[u] = task[u] /\ Created(u)
    BY <1>12 DEF Created
  <2>2. CASE u = t /\ x = e
    BY <1>3, <1>4, <2>1, <2>2, TableAssumption
  <2>3. CASE u # t \/ x # e
    <3>1. x \in Listed(u)
      BY <1>8, <1>9, <2>3, SameRowsAreDone
    <3> QED BY <2>1, <3>1 DEF TableInv, SeededOnce
  <2> QED BY <2>2, <2>3
<1> QED BY <1>13, <1>15, <1>21, <1>22, <1>23, <1>24 DEF TableInv

LEMMA PassInv ==
    ASSUME TableInv, NEW p \in Proc, PassStep(p)
    PROVE  TableInv'
<1>1. CASE MarkTaskRowsCompleted(p) \/ BackfillRow(p)
  <2>1. Current(p) \in Task
    BY <1>1, CurrentIsStarted DEF MarkTaskRowsCompleted, BackfillRow
  <2> QED BY <1>1, <2>1, RowsCompletedStep, BackfillStep
<1> QED BY <1>1, StartStep, InspectStep, BackfillStarts, FailStep, EndStep, SummaryStep, ResultStep, SourcesStep,
        DiesStep DEF PassStep

LEMMA TableInitInv == TableInit => TableInv
<1> SUFFICES ASSUME TableInit PROVE TableInv
  OBVIOUS
<1>1. TableTypeOK
  BY DEF TableInit, TableTypeOK, NoRow, NoOutput, NoRequest, IdlePass, RequestSteps, PassRow
<1>2. ASSUME NEW t \in Task PROVE ~ Created(t) /\ Knows(t) /\ \A e \in Entry : row[t][e].count = 0
  <2>1. ~ Created(t) /\ ~ Completed(t) /\ run[t] = "none" /\ result[t] = {} /\ output[t] = NoOutput
        /\ request[t] = NoRequest /\ \A e \in Entry : row[t][e] = NoRow
    BY <1>2 DEF TableInit, Created, Completed
  <2>2. NoOutput.rows = {} /\ NoRequest.pc = "none" /\ NoRow.status = "none" /\ NoRow.count = 0
    BY DEF NoOutput, NoRequest, NoRow
  <2>3. Listed(t) = {}
    BY <2>1, <2>2 DEF Listed
  <2> QED BY <2>1, <2>2, <2>3 DEF Knows, RequestKnows, TaskKnows
<1>3. ASSUME NEW p \in Proc PROVE PassKnows(p)
  <2>1. pass[p].pc = "idle" /\ pass[p].todo = {}
    BY DEF TableInit, IdlePass
  <2> QED BY <2>1 DEF PassKnows
<1>4. CompletedIsWhole /\ SeededOnce
  BY <1>2 DEF CompletedIsWhole, SeededOnce, Completed
<1>5. CountsOK
  <2>1. \A t \in Task, e \in Entry : Retries(t, e) = {} /\ Answered(t, e) = {}
    BY <1>2 DEF Retries, Answered
  <2>2. IsFiniteSet({}) /\ Cardinality({}) = 0
    BY FS_EmptySet
  <2>3. Counted({}, 0)
    BY <2>2 DEF Counted
  <2>4. \A t \in Task, e \in Entry : row[t][e].count = 0
    BY <1>2
  <2> QED BY <2>1, <2>2, <2>3, <2>4 DEF CountsOK
<1> QED BY <1>1, <1>2, <1>3, <1>4, <1>5 DEF TableInv

LEMMA TableInvariance == TableSpec => []TableInv
<1>1. TableInv /\ [TableNext]_tableVars => TableInv'
  <2>1. ASSUME TableInv, UNCHANGED tableVars PROVE TableInv'
    <3>1. PassOK' /\ \A p \in Proc : PassKnows(p)'
      <4>1. UNCHANGED <<task, row, output, run, result, request, pass>>
        BY <2>1 DEF tableVars
      <4>2. PassOK'
        BY <2>1, <4>1 DEF PassOK, TableInv, TableTypeOK
      <4> QED BY <2>1, <4>1, <4>2, PassKeeps, Unmoved
    <3> QED BY <2>1, <3>1, PassOnly DEF tableVars
  <2> QED BY <2>1, RequestInv, PassInv DEF TableNext
<1> QED BY <1>1, TableInitInv, PTL DEF TableSpec

(* The rows of tasks, task_rows and the artifacts stay what the schema and  *)
(* the handlers of run-service.ts make them, and a pass that is in the      *)
(* middle of a task has one.                                                *)
THEOREM TableTypeCorrect == TableSpec => []TableTypeOK
BY TableInvariance, PTL DEF TableInv

(* A completed table run has its summary, all the rows of its results and   *)
(* its sources, and no task row of it is left queued or running, however    *)
(* the passes of several processes, markTaskRowsRunning of the request and  *)
(* the listings' backfill overlap or die (run-service.ts).                  *)
THEOREM CompletedCorrect == TableSpec => []CompletedIsWhole
BY TableInvariance, PTL DEF TableInv

(* backfillTableTaskRows never lists a row that the request has seeded.     *)
THEOREM SeededCorrect == TableSpec => []SeededOnce
BY TableInvariance, PTL DEF TableInv

(* The retry count of a row (retryTableTaskRow) is the number of the        *)
(* retries of it that were answered, if no two of them overlapped, and      *)
(* never more: failed and dead retries count for nothing.                   *)
THEOREM RetryCountCorrect == TableSpec => []RetriesAreCounted
<1>1. TableInv => RetriesAreCounted
  BY DEF TableInv, CountsOK, RetriesAreCounted
<1> QED BY <1>1, TableInvariance, PTL
===============================================================================
