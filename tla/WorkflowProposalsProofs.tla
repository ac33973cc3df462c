------------------------ MODULE WorkflowProposalsProofs ------------------------
(***************************************************************************)
(* What holds of benchmark runs and workflow proposals for every number of *)
(* runs, cases, launches, passes and reviews: runs are finalised whole,    *)
(* ledgers are scored once, and a proposal is implemented only on the      *)
(* evidence of a finished run.                                             *)
(*                                                                         *)
(* The inductive invariant has two layers.  BenchmarkInv says that a       *)
(* result, once it is final, is what its task came to, so that the stale   *)
(* verdicts that overlapping passes write back are all the same.           *)
(* ProposalInv adds that evidence, in the row or in the copy that a review *)
(* read, stays true of its run.  Between them stands Steady: what no step  *)
(* of anybody takes back.                                                  *)
(***************************************************************************)
EXTENDS WorkflowProposals, FiniteSetTheorems, TLAPS

-----------------------------------------------------------------------------
(* Every case of run r has a result that no later pass changes, if it is   *)
(* not the source run.                                                     *)
Ended(r) == \A c \in 1 .. run[r].size : result[r][c] \notin {"none", "running"}
AllCompleted(r) == \A c \in 1 .. run[r].size : result[r][c] = "completed"
Verdict(r) == IF AllCompleted(r) THEN "completed" ELSE "partial_failure"

SourceKnows ==
    /\ run[Source].status = "completed" /\ run[Source].for = None
    /\ \A c \in Case : result[Source][c] \in {"none", "completed", "needs_review"}
RunKnows(r) ==
    run[r].status = "none" => \A c \in Case : result[r][c] = "none" /\ task[r][c].status = "none"
CaseKnows(r, c) ==
    /\ result[r][c] # "none" => c <= run[r].size
    /\ task[r][c].ledger => task[r][c].status = "completed"
    /\ r # Source /\ task[r][c].status = "completed" => task[r][c].ledger
    /\ r # Source /\ result[r][c] \in {"completed", "needs_review"} =>
          result[r][c] = Outcome(task[r][c])

(* A launch knows its run, and that nobody else gets ahead of it there.    *)
StarterKnows(s) ==
    LET r == starter[s].run  c == starter[s].case IN
    starter[s].pc # "idle" =>
        /\ r \in Run \ {Source} /\ run[r].status # "none"
        /\ run[r].for = starter[s].for /\ starter[s].from # "validated"
        /\ c \in 1 .. run[r].size
        /\ \A d \in 1 .. c - 1 : result[r][d] # "none"
        /\ starter[s].pc = "started" => c = run[r].size /\ result[r][c] # "none"
        /\ starter[s].pc # "started" => \A d \in c .. MaxCases : result[r][d] = "none"
        /\ \A d \in c + 1 .. MaxCases : task[r][d].status = "none"
        /\ starter[s].pc = "creating" => task[r][c].status = "none"
        /\ starter[s].pc = "launching" => task[r][c].status = "queued"
StartersApart ==
    \A s, t \in Starter :
        s # t /\ starter[s].pc # "idle" /\ starter[t].pc # "idle" => starter[s].run # starter[t].run

(* A pass may write over a result what its task has come to, and has seen  *)
(* the run it finalises ended.                                             *)
ToWrite(r, c) == r # Source /\ result[r][c] \in {"running", Outcome(task[r][c])}
Finalizes(p, r) ==
    /\ r \in Run \ {Source} /\ run[r].status # "none"
    /\ Ended(r) /\ pass[p].verdict = Verdict(r)
PassKnows(p) ==
    LET cur == pass[p].cur IN
    /\ pass[p].pc = "cases" =>
          /\ \A x \in pass[p].todo : x \in CaseOf /\ ToWrite(x[1], x[2])
          /\ cur # None =>
                /\ cur \in CaseOf /\ ToWrite(cur[1], cur[2])
                /\ pass[p].verdict = Outcome(task[cur[1]][cur[2]]) /\ pass[p].verdict # None
    /\ pass[p].pc = "scores" => pass[p].todo \subseteq CaseOf
    /\ pass[p].pc \in {"runs", "analysing", "finishing", "comparing", "recording"} =>
          pass[p].todo \subseteq {r \in Run \ {Source} : run[r].status # "none"}
    /\ pass[p].pc \in {"analysing", "finishing", "comparing", "recording"} => Finalizes(p, cur)
    /\ pass[p].pc \in {"comparing", "recording"} => run[cur].status = pass[p].verdict

(* Evidence is of a run that was launched for the proposal, and positive   *)
(* only if that run is completed.                                          *)
EvidenceKnows(row) ==
    /\ row.run # None => Launched(row.run)
    /\ row.evidence # None => row.run # None /\ Launched(row.evidence)
    /\ row.result = "completed" =>
          /\ row.evidence # None /\ run[row.evidence].status = "completed"
          /\ row.completed = Cardinality(CompletedCases(row.evidence))
ProposalKnows ==
    /\ EvidenceKnows(proposal)
    /\ proposal.status = "implemented" \/ proposal.impl = "validated" =>
          proposal.evidence # None /\ \E r \in Run : Validated(r)
ReviewerKnows(v) ==
    /\ EvidenceKnows(reviewer[v].read)
    /\ reviewer[v].read.evidence # None => proposal.evidence # None

(* The invariant of the runs, and that of the proposal over them.          *)
RowTypes ==
    /\ run \in [Run -> [status : RunStatus, size : 0 .. MaxCases, good : BOOLEAN, for : Purpose]]
    /\ task \in [Run -> [Case -> TaskRow]]
    /\ result \in [Run -> [Case -> CaseStatus]]
    /\ scores \in [Run -> [Case -> Nat]]
RunTypes ==
    /\ RowTypes
    /\ starter \in [Starter -> StarterRow] /\ pass \in [Passer -> PassTypes]
    /\ faults \subseteq BenchmarkFaults
RowsKnow ==
    /\ SourceKnows
    /\ \A r \in Run : RunKnows(r)
    /\ \A r \in Run, c \in Case : CaseKnows(r, c)
RowsGood == RowTypes /\ RowsKnow /\ FinalizedRunsAreWhole /\ ScoredOnce
BenchmarkInv ==
    /\ RunTypes /\ RowsGood
    /\ StartersApart /\ \A s \in Starter : StarterKnows(s)
    /\ \A p \in Passer : PassKnows(p)
ProposalInv ==
    /\ ProposalsTypeOK /\ BenchmarkInv
    /\ ProposalKnows /\ \A v \in Reviewer : ReviewerKnows(v)

-----------------------------------------------------------------------------
(* What every step leaves of the runs, whatever it is about.               *)
SteadyRun(r) ==
    /\ run[r].status # "none" =>
          run'[r].status # "none" /\ run'[r].size = run[r].size /\ run'[r].for = run[r].for
    /\ run[r].status \in {"completed", "partial_failure"} => run'[r].status = run[r].status
SteadyCase(r, c) ==
    /\ r # Source /\ result[r][c] \notin {"none", "running"} => result'[r][c] = result[r][c]
    /\ result[r][c] # "none" => result'[r][c] # "none"
    /\ r # Source /\ result[r][c] = "running" =>
          result'[r][c] \in {"running", Outcome(task[r][c])}
    /\ r = Source => (result[r][c] = "none" <=> result'[r][c] = "none")
    /\ Outcome(task[r][c]) # None => task'[r][c] = task[r][c]
Steady == \A r \in Run : SteadyRun(r) /\ \A c \in Case : SteadyCase(r, c)

(* What a step that is not of its launch leaves of a run.                  *)
Respected(r) ==
    \A c \in Case :
        /\ result'[r][c] = "none" <=> result[r][c] = "none"
        /\ task[r][c].status \in {"none", "queued"} => task'[r][c] = task[r][c]

LEMMA OutcomeIs ==
    ASSUME NEW row \in TaskRow
    PROVE  /\ Outcome(row) \in {"failed", "completed", "needs_review", None}
           /\ Outcome(row) # None <=> row.status \in {"failed", "completed"}
           /\ Outcome(row) = "completed" <=> row.status = "completed" /\ row.clean
           /\ Outcome(row) = "needs_review" <=> row.status = "completed" /\ ~ row.clean
<1>1. None \notin {"failed", "completed", "needs_review"}
  BY BenchmarkAssumption DEF CaseStatus
<1>2. row.clean \in BOOLEAN
  BY DEF TaskRow
<1>3. CASE row.status = "failed"
  BY <1>1, <1>3 DEF Outcome
<1>4. CASE row.status = "completed" /\ row.clean
  BY <1>1, <1>4 DEF Outcome
<1>5. CASE row.status = "completed" /\ ~ row.clean
  BY <1>1, <1>5 DEF Outcome
<1>6. CASE row.status \notin {"completed", "failed"}
  BY <1>1, <1>6 DEF Outcome
<1> QED BY <1>2, <1>3, <1>4, <1>5, <1>6

LEMMA RunTypesHold == ASSUME ProposalsTypeOK PROVE RunTypes
BY DEF ProposalsTypeOK, RunTypes, RowTypes

LEMMA ToWriteKeeps ==
    ASSUME RowTypes, RowTypes', Steady, NEW r \in Run, NEW c \in Case, ToWrite(r, c)
    PROVE  /\ ToWrite(r, c)'
           /\ Outcome(task[r][c]) # None => Outcome(task'[r][c]) = Outcome(task[r][c])
<1>1. /\ task[r][c] \in TaskRow /\ task'[r][c] \in TaskRow
      /\ result[r][c] \in CaseStatus /\ result'[r][c] \in CaseStatus
  BY DEF RowTypes
<1>2. None \notin CaseStatus
  BY BenchmarkAssumption
<1>3. SteadyCase(r, c)
  BY DEF Steady
<1>4. CASE result[r][c] = "running" /\ result'[r][c] = "running"
  BY <1>3, <1>4 DEF SteadyCase, ToWrite
<1>5. CASE result'[r][c] = Outcome(task[r][c]) /\ result'[r][c] # "running"
  BY <1>1, <1>2, <1>3, <1>5 DEF SteadyCase, ToWrite
<1>6. result[r][c] \in {"running", Outcome(task[r][c])} /\ r # Source
  BY DEF ToWrite
<1>7. Outcome(task[r][c]) \notin {"none", "running"}
  BY <1>1, <1>2, OutcomeIs DEF CaseStatus
<1>8. CASE result[r][c] # "running"
  BY <1>3, <1>5, <1>6, <1>7, <1>8 DEF SteadyCase
<1> QED BY <1>3, <1>4, <1>5, <1>6, <1>8 DEF SteadyCase

LEMMA EndedKeeps ==
    ASSUME RowTypes, Steady, NEW r \in Run, r # Source, run[r].status # "none", Ended(r)
    PROVE  /\ Ended(r)' /\ run'[r].size = run[r].size /\ run'[r].status # "none"
           /\ Verdict(r)' = Verdict(r)
           /\ \A c \in 1 .. run[r].size : result'[r][c] = result[r][c]
           /\ CompletedCases(r)' = CompletedCases(r)
<1>1. run'[r].size = run[r].size /\ run'[r].status # "none"
  BY DEF Steady, SteadyRun
<1>2. 1 .. run[r].size \subseteq Case
  BY BenchmarkAssumption DEF RowTypes, Case
<1>3. \A c \in 1 .. run[r].size : result'[r][c] = result[r][c]
  BY <1>2 DEF Ended, Steady, SteadyCase
<1>4. Ended(r)' /\ (AllCompleted(r)' <=> AllCompleted(r))
  BY <1>1, <1>3 DEF Ended, AllCompleted
<1> QED BY <1>1, <1>3, <1>4 DEF Verdict, CompletedCases

LEMMA FinalizesKeeps ==
    ASSUME RowTypes, Steady, NEW p \in Passer, NEW r, Finalizes(p, r), pass'[p] = pass[p]
    PROVE  Finalizes(p, r)'
BY EndedKeeps DEF Finalizes

LEMMA PassKeeps ==
    ASSUME RowTypes, RowTypes', Steady, NEW p \in Passer, PassKnows(p), pass'[p] = pass[p]
    PROVE  PassKnows(p)'
<1> DEFINE pc == pass[p].pc  cur == pass[p].cur  todo == pass[p].todo
<1>1. pc = "cases" => \A x \in todo : x \in CaseOf /\ ToWrite(x[1], x[2])'
  <2>1. \A x \in CaseOf : x[1] \in Run /\ x[2] \in Case
    BY DEF CaseOf
  <2> QED BY <2>1, ToWriteKeeps DEF PassKnows
<1>2. pc = "cases" /\ cur # None =>
          /\ cur \in CaseOf /\ ToWrite(cur[1], cur[2])'
          /\ pass[p].verdict = Outcome(task'[cur[1]][cur[2]]) /\ pass[p].verdict # None
  <2>1. \A x \in CaseOf : x[1] \in Run /\ x[2] \in Case
    BY DEF CaseOf
  <2> QED BY <2>1, ToWriteKeeps DEF PassKnows
<1>3. pc \in {"runs", "analysing", "finishing", "comparing", "recording"} =>
          todo \subseteq {r \in Run \ {Source} : run'[r].status # "none"}
  BY DEF PassKnows, Steady, SteadyRun
<1>4. pc \in {"analysing", "finishing", "comparing", "recording"} => Finalizes(p, cur)'
  BY FinalizesKeeps DEF PassKnows
<1>5. pc \in {"comparing", "recording"} => run'[cur].status = pass[p].verdict
  <2> SUFFICES ASSUME pc \in {"comparing", "recording"} PROVE run'[cur].status = pass[p].verdict
    OBVIOUS
  <2>1. cur \in Run /\ run[cur].status \in {"completed", "partial_failure"}
        /\ run[cur].status = pass[p].verdict
    BY DEF PassKnows, Finalizes, Verdict
  <2> QED BY <2>1 DEF Steady, SteadyRun
<1>6. pc = "scores" => todo \subseteq CaseOf
  BY DEF PassKnows
<1> QED BY <1>1, <1>2, <1>3, <1>4, <1>5, <1>6 DEF PassKnows, Finalizes, ToWrite, Ended, Verdict, AllCompleted

LEMMA StarterKeeps ==
    ASSUME RowTypes, Steady, NEW s \in Starter, StarterKnows(s), starter'[s] = starter[s],
           starter[s].pc # "idle" => Respected(starter[s].run)
    PROVE  StarterKnows(s)'
<1> DEFINE r == starter[s].run  c == starter[s].case
<1> SUFFICES ASSUME starter[s].pc # "idle" PROVE StarterKnows(s)'
  BY DEF StarterKnows
<1>1. /\ r \in Run \ {Source} /\ run[r].status # "none"
      /\ run[r].for = starter[s].for /\ starter[s].from # "validated"
      /\ c \in 1 .. run[r].size
      /\ \A d \in 1 .. c - 1 : result[r][d] # "none"
      /\ starter[s].pc = "started" => c = run[r].size /\ result[r][c] # "none"
      /\ starter[s].pc # "started" => \A d \in c .. MaxCases : result[r][d] = "none"
      /\ \A d \in c + 1 .. MaxCases : task[r][d].status = "none"
      /\ starter[s].pc = "creating" => task[r][c].status = "none"
      /\ starter[s].pc = "launching" => task[r][c].status = "queued"
  BY DEF StarterKnows
<1>2. run'[r].status # "none" /\ run'[r].size = run[r].size /\ run'[r].for = run[r].for
  BY <1>1 DEF Steady, SteadyRun
<1>3. run[r].size \in 0 .. MaxCases
  BY <1>1 DEF RowTypes
<1>4. c \in Case /\ 1 .. c - 1 \subseteq Case /\ c .. MaxCases \subseteq Case
      /\ c + 1 .. MaxCases \subseteq Case
  BY <1>1, <1>3, BenchmarkAssumption DEF Case
<1>5. \A d \in Case : /\ result'[r][d] = "none" <=> result[r][d] = "none"
                      /\ task[r][d].status \in {"none", "queued"} => task'[r][d] = task[r][d]
  BY DEF Respected
<1>6. /\ \A d \in 1 .. c - 1 : result'[r][d] # "none"
      /\ starter[s].pc = "started" => c = run'[r].size /\ result'[r][c] # "none"
      /\ starter[s].pc # "started" => \A d \in c .. MaxCases : result'[r][d] = "none"
      /\ \A d \in c + 1 .. MaxCases : task'[r][d].status = "none"
      /\ starter[s].pc = "creating" => task'[r][c].status = "none"
      /\ starter[s].pc = "launching" => task'[r][c].status = "queued"
  BY <1>1, <1>2, <1>4, <1>5
<1> HIDE DEF r, c
<1>7. starter'[s].run = r /\ starter'[s].case = c /\ starter'[s].pc = starter[s].pc
      /\ starter'[s].for = starter[s].for /\ starter'[s].from = starter[s].from
  BY DEF r, c
<1> QED BY <1>1, <1>2, <1>6, <1>7 DEF StarterKnows

-----------------------------------------------------------------------------
ScoredAt(r, c) ==
    scores[r][c] <= (IF task[r][c].status = "completed" /\ task[r][c].ledger THEN 1 ELSE 0)

LEMMA SourceKeeps ==
    ASSUME RowTypes, Steady, SourceKnows,
           \A c \in Case : result'[Source][c] \in {"none", "completed", "needs_review"}
    PROVE  SourceKnows' /\ run'[Source].size = run[Source].size
BY BenchmarkAssumption DEF SourceKnows, Steady, SteadyRun

LEMMA WholeKeeps ==
    ASSUME RowTypes, Steady, SourceKnows, SourceKnows', FinalizedRunsAreWhole,
           NEW r \in Run, run[r].status \in {"completed", "partial_failure"}
    PROVE  /\ run'[r].status = run[r].status
           /\ \A c \in 1 .. run'[r].size : result'[r][c] \notin {"none", "running"}
           /\ r # Source => (run'[r].status = "completed" <=>
                             \A c \in 1 .. run'[r].size : result'[r][c] = "completed")
<1>1. run'[r].status = run[r].status /\ run'[r].size = run[r].size
  BY DEF Steady, SteadyRun
<1>2. /\ \A c \in 1 .. run[r].size : result[r][c] \notin {"none", "running"}
      /\ r # Source => (run[r].status = "completed" <=>
                        \A c \in 1 .. run[r].size : result[r][c] = "completed")
  BY DEF FinalizedRunsAreWhole
<1>3. 1 .. run[r].size \subseteq Case
  BY BenchmarkAssumption DEF RowTypes, Case
<1>4. CASE r # Source
  <2>1. \A c \in 1 .. run[r].size : result'[r][c] = result[r][c]
    BY <1>2, <1>3, <1>4 DEF Steady, SteadyCase
  <2> QED BY <1>1, <1>2, <1>4, <2>1
<1>5. CASE r = Source
  <2>1. \A c \in 1 .. run[r].size : result'[r][c] \notin {"none", "running"}
    BY <1>2, <1>3, <1>5 DEF Steady, SteadyCase, SourceKnows
  <2> QED BY <1>1, <1>5, <2>1
<1> QED BY <1>4, <1>5

(* A step that changes one case of one run: what it has to show is about   *)
(* that case.                                                              *)
LEMMA OneCase ==
    ASSUME RowsGood, RowTypes', run' = run, NEW a \in Run, NEW b \in Case, run[a].status # "none",
           \A r \in Run, c \in Case : r # a \/ c # b =>
               result'[r][c] = result[r][c] /\ task'[r][c] = task[r][c] /\ scores'[r][c] = scores[r][c],
           SteadyCase(a, b), CaseKnows(a, b)', ScoredAt(a, b)',
           a = Source => result'[a][b] \in {"none", "completed", "needs_review"}
    PROVE  RowsGood' /\ Steady /\ \A r \in Run \ {a} : Respected(r)
<1>1. Steady
  <2> SUFFICES ASSUME NEW r \in Run, NEW c \in Case, r # a \/ c # b PROVE SteadyCase(r, c)
    BY DEF Steady, SteadyRun
  <2> QED BY DEF SteadyCase
<1>2. \A r \in Run \ {a} : Respected(r)
  BY DEF Respected
<1>3. SourceKnows'
  <2>1. \A c \in Case : result'[Source][c] \in {"none", "completed", "needs_review"}
    BY BenchmarkAssumption DEF RowsGood, RowsKnow, SourceKnows
  <2> QED BY <1>1, <2>1, SourceKeeps DEF RowsGood, RowsKnow
<1>4. ASSUME NEW r \in Run PROVE RunKnows(r)'
  BY DEF RowsGood, RowsKnow, RunKnows
<1>5. ASSUME NEW r \in Run, NEW c \in Case PROVE CaseKnows(r, c)'
  BY DEF RowsGood, RowsKnow, CaseKnows
<1>6. FinalizedRunsAreWhole'
  BY <1>1, <1>3, WholeKeeps DEF RowsGood, RowsKnow, FinalizedRunsAreWhole
<1>7. ScoredOnce'
  <2> SUFFICES ASSUME NEW r \in Run, NEW c \in Case PROVE ScoredAt(r, c)'
    BY DEF ScoredOnce, ScoredAt
  <2>1. CASE r = a /\ c = b
    BY <2>1
  <2>2. CASE r # a \/ c # b
    BY <2>2 DEF RowsGood, ScoredOnce, ScoredAt
  <2> QED BY <2>1, <2>2
<1> QED BY <1>1, <1>2, <1>3, <1>4, <1>5, <1>6, <1>7 DEF RowsGood, RowsKnow

(* A step that changes no row.                                             *)
LEMMA NoRow ==
    ASSUME RowsGood, UNCHANGED rows
    PROVE  RowsGood' /\ Steady /\ \A r \in Run : Respected(r)
<1>1. RowsGood' <=> RowsGood
  BY DEF rows, RowsGood, RowTypes, RowsKnow, SourceKnows, RunKnows, CaseKnows, FinalizedRunsAreWhole, ScoredOnce
<1>2. \A r \in Run : SteadyRun(r) /\ Respected(r)
  BY DEF rows, SteadyRun, Respected
<1>3. \A r \in Run, c \in Case : SteadyCase(r, c)
  BY DEF rows, SteadyCase
<1> QED BY <1>1, <1>2, <1>3 DEF Steady

LEMMA AllOfARun ==
    ASSUME RowsGood, NEW r \in Run, Ready(r)
    PROVE  Ended(r) /\ FinalStatus(r) = Verdict(r)
<1>1. run[r].size \in 0 .. MaxCases /\ 1 .. run[r].size \subseteq Case
  BY BenchmarkAssumption DEF RowsGood, RowTypes, Case
<1>2. Recorded(r) \subseteq 1 .. run[r].size
  <2> SUFFICES ASSUME NEW c \in Case, result[r][c] # "none" PROVE c \in 1 .. run[r].size
    BY DEF Recorded
  <2> QED BY <1>1 DEF RowsGood, RowsKnow, CaseKnows, Case
<1>3. IsFiniteSet(1 .. run[r].size) /\ Cardinality(1 .. run[r].size) = run[r].size
  <2> DEFINE n == run[r].size
  <2>1. n \in Nat /\ n \in Int /\ 1 \in Int
    BY <1>1, BenchmarkAssumption
  <2> HIDE DEF n
  <2>2. IsFiniteSet(1 .. n) /\ Cardinality(1 .. n) = IF 1 > n THEN 0 ELSE n - 1 + 1
    BY <2>1, FS_Interval
  <2>3. Cardinality(1 .. n) = n
    BY <2>1, <2>2
  <2> QED BY <2>2, <2>3 DEF n
<1>4. Recorded(r) = 1 .. run[r].size
  <2>1. Cardinality(Recorded(r)) <= run[r].size
    BY <1>2, <1>3, FS_Subset
  <2>2. Cardinality(Recorded(r)) \in Nat
    BY <1>2, <1>3, FS_Subset, FS_CardinalityType
  <2>3. Cardinality(Recorded(r)) = run[r].size
    BY <1>1, <2>1, <2>2 DEF Ready
  <2> QED BY <1>2, <1>3, <2>3, FS_Subset
<1>5. Ended(r)
  BY <1>4 DEF Ended, Ready, NotPending, Recorded, Pending
<1>6. \A c \in Case : result[r][c] \in CaseStatus
  BY DEF RowsGood, RowTypes
<1>7. AllCompleted(r) <=> ~ \E c \in Case : result[r][c] \in {"failed", "needs_review"}
  <2>1. \A c \in Case : result[r][c] # "none" <=> c \in 1 .. run[r].size
    BY <1>4 DEF Recorded
  <2>2. \A c \in 1 .. run[r].size : result[r][c] \in {"completed", "failed", "needs_review"}
    BY <1>1, <1>5, <1>6 DEF Ended, CaseStatus
  <2>3. \A c \in Case : result[r][c] \in {"failed", "needs_review"} => c \in 1 .. run[r].size
    BY <2>1
  <2> QED BY <1>1, <2>2, <2>3 DEF AllCompleted
<1> QED BY <1>5, <1>7 DEF FinalStatus, Verdict

-----------------------------------------------------------------------------
(* The steps of launches *)

LEMMA LaunchKeeps ==
    ASSUME BenchmarkInv, RowsGood', Steady, NEW s \in Starter, pass' = pass,
           starter[s].pc # "idle" => \A r \in Run : r # starter[s].run => Respected(r),
           starter[s].pc = "idle" => \A r \in Run : Respected(r),
           starter' \in [Starter -> StarterRow], faults' \subseteq BenchmarkFaults,
           \A t \in Starter \ {s} : starter'[t] = starter[t],
           StarterKnows(s)',
           starter'[s].pc # "idle" =>
               \A t \in Starter \ {s} : starter[t].pc # "idle" => starter[t].run # starter'[s].run
    PROVE  BenchmarkInv'
<1>1. RowTypes /\ RowTypes'
  BY DEF BenchmarkInv, RowsGood
<1>2. RunTypes'
  BY <1>1 DEF BenchmarkInv, RunTypes
<1>3. StartersApart'
  BY DEF BenchmarkInv, StartersApart
<1>4. ASSUME NEW t \in Starter PROVE StarterKnows(t)'
  <2>1. CASE t = s
    BY <2>1
  <2>2. CASE t # s
    <3>1. StarterKnows(t) /\ starter'[t] = starter[t]
      BY <2>2 DEF BenchmarkInv
    <3>2. starter[t].pc # "idle" => starter[t].run \in Run
      BY <3>1 DEF StarterKnows
    <3>3. starter[t].pc # "idle" /\ starter[s].pc # "idle" => starter[t].run # starter[s].run
      BY <2>2 DEF BenchmarkInv, StartersApart
    <3>4. starter[t].pc # "idle" => Respected(starter[t].run)
      BY <3>2, <3>3
    <3> QED BY <1>1, <3>1, <3>4, StarterKeeps
  <2> QED BY <2>1, <2>2
<1>5. ASSUME NEW p \in Passer PROVE PassKnows(p)'
  BY <1>1, PassKeeps DEF BenchmarkInv
<1> QED BY <1>2, <1>3, <1>4, <1>5 DEF BenchmarkInv

LEMMA NewRunKeeps ==
    ASSUME BenchmarkInv, NEW s \in Starter, starter[s].pc = "idle",
           NEW size \in Case, NEW validates \in Purpose,
           NEW before \in Implementation \cup {None}, before # "validated",
           InsertRun(s, size, validates, before)
    PROVE  BenchmarkInv' /\ Steady
<1> PICK r \in Run, good \in BOOLEAN :
        /\ run[r].status = "none"
        /\ run' = [run EXCEPT ![r] =
               [status |-> "running", size |-> size, good |-> good, for |-> validates]]
        /\ starter' = [starter EXCEPT ![s] =
               [pc |-> "creating", run |-> r, case |-> 1, for |-> validates, from |-> before]]
  BY DEF InsertRun
<1>1. RowsGood /\ RowTypes /\ RunTypes
  BY DEF BenchmarkInv, RowsGood
<1>2. UNCHANGED <<task, result, scores, pass, faults>>
  BY DEF InsertRun, NoFault
<1>3. r # Source
  BY <1>1 DEF RowsGood, RowsKnow, SourceKnows
<1>4. \A c \in Case : result[r][c] = "none" /\ task[r][c].status = "none"
  BY <1>1 DEF RowsGood, RowsKnow, RunKnows
<1>5. size \in 0 .. MaxCases /\ size \in 1 .. MaxCases
  BY BenchmarkAssumption DEF Case
<1> DEFINE new == [status |-> "running", size |-> size, good |-> good, for |-> validates]
<1>6. RowTypes'
  <2>1. new \in [status : RunStatus, size : 0 .. MaxCases, good : BOOLEAN, for : Purpose]
    BY <1>5 DEF RunStatus
  <2> HIDE DEF new
  <2>2. run' = [run EXCEPT ![r] = new]
    BY DEF new
  <2> QED BY <1>1, <1>2, <2>1, <2>2 DEF RowTypes
<1>7. \A q \in Run : q # r => run'[q] = run[q]
  BY <1>1 DEF RowTypes
<1>8. run'[r] = new
  BY <1>1 DEF RowTypes
<1>9. Steady
  <2>1. ASSUME NEW q \in Run PROVE SteadyRun(q)
    BY <1>7 DEF SteadyRun
  <2>2. ASSUME NEW q \in Run, NEW c \in Case PROVE SteadyCase(q, c)
    BY <1>2 DEF SteadyCase
  <2> QED BY <2>1, <2>2 DEF Steady
<1>10. \A q \in Run : Respected(q)
  BY <1>2 DEF Respected
<1>11. RowsGood'
  <2>1. SourceKnows'
    BY <1>1, <1>2, <1>3, <1>7, BenchmarkAssumption DEF RowsGood, RowsKnow, SourceKnows
  <2>2. ASSUME NEW q \in Run PROVE RunKnows(q)'
    BY <1>1, <1>2, <1>7, <1>8 DEF RowsGood, RowsKnow, RunKnows
  <2>3. ASSUME NEW q \in Run, NEW c \in Case PROVE CaseKnows(q, c)'
    BY <1>1, <1>2, <1>3, <1>4, <1>7 DEF RowsGood, RowsKnow, CaseKnows
  <2>4. FinalizedRunsAreWhole'
    <3>1. \A q \in Run : run'[q].status \in {"completed", "partial_failure"} =>
              run[q].status \in {"completed", "partial_failure"}
      BY <1>7, <1>8
    <3> QED BY <1>1, <1>9, <2>1, <3>1, WholeKeeps DEF RowsGood, RowsKnow, FinalizedRunsAreWhole
  <2>5. ScoredOnce'
    BY <1>1, <1>2 DEF RowsGood, ScoredOnce
  <2> QED BY <1>6, <2>1, <2>2, <2>3, <2>4, <2>5 DEF RowsGood, RowsKnow
<1> DEFINE row == [pc |-> "creating", run |-> r, case |-> 1, for |-> validates, from |-> before]
<1>12. starter' \in [Starter -> StarterRow] /\ starter'[s] = row
       /\ \A t \in Starter \ {s} : starter'[t] = starter[t]
  <2>1. row \in StarterRow
    BY BenchmarkAssumption DEF StarterRow
  <2> HIDE DEF row
  <2>2. starter' = [starter EXCEPT ![s] = row]
    BY DEF row
  <2> QED BY <1>1, <2>1, <2>2 DEF RunTypes
<1>13. StarterKnows(s)'
  <2>1. \A d \in 1 .. MaxCases : result'[r][d] = "none" /\ task'[r][d].status = "none"
    BY <1>2, <1>4 DEF Case
  <2>2. 1 + 1 .. MaxCases \subseteq 1 .. MaxCases
    BY BenchmarkAssumption
  <2>3. 1 \in 1 .. size /\ 1 \in 1 .. MaxCases
    BY <1>5, BenchmarkAssumption
  <2>4. run'[r].status = "running" /\ run'[r].size = size /\ run'[r].for = validates
    BY <1>8
  <2> QED BY <1>3, <1>12, <2>1, <2>2, <2>3, <2>4 DEF StarterKnows
<1>14. \A t \in Starter \ {s} : starter[t].pc # "idle" => starter[t].run # r
  BY DEF BenchmarkInv, StarterKnows
<1>15. faults' \subseteq BenchmarkFaults
  BY <1>1, <1>2 DEF RunTypes
<1> HIDE DEF new
<1> QED BY <1>2, <1>9, <1>10, <1>11, <1>12, <1>13, <1>14, <1>15, LaunchKeeps

LEMMA LaunchIsAt ==
    ASSUME BenchmarkInv, NEW s \in Starter, starter[s].pc # "idle"
    PROVE  /\ starter[s].run \in Run \ {Source} /\ run[starter[s].run].status # "none"
           /\ starter[s].case \in Case
           /\ run[starter[s].run].size \in 1 .. MaxCases
           /\ starter[s].case \in 1 .. run[starter[s].run].size
           /\ starter[s] \in StarterRow
<1>1. /\ starter[s].run \in Run \ {Source} /\ run[starter[s].run].status # "none"
      /\ starter[s].case \in 1 .. run[starter[s].run].size
  BY DEF BenchmarkInv, StarterKnows
<1>2. run[starter[s].run].size \in 0 .. MaxCases
  BY <1>1 DEF BenchmarkInv, RunTypes, RowTypes
<1>3. starter[s] \in StarterRow
  BY DEF BenchmarkInv, RunTypes
<1> QED BY <1>1, <1>2, <1>3, BenchmarkAssumption DEF Case

(* A task that has not ended changes its status.                           *)
LEMMA TaskStatusKeeps ==
    ASSUME BenchmarkInv, NEW a \in Run, NEW b \in Case, run[a].status # "none",
           NEW v \in {"queued", "running", "failed", "cancelled"},
           task[a][b].status \notin {"completed", "failed"},
           task' = [task EXCEPT ![a][b].status = v],
           UNCHANGED <<run, result, scores>>
    PROVE  /\ RowsGood' /\ Steady /\ \A r \in Run \ {a} : Respected(r)
           /\ \A r \in Run, c \in Case : r # a \/ c # b => task'[r][c] = task[r][c]
           /\ task'[a][b].status = v
<1>1. RowsGood /\ RowTypes
  BY DEF BenchmarkInv, RowsGood
<1>2. task \in [Run -> [Case -> TaskRow]]
  BY <1>1 DEF RowTypes
<1>3. /\ task' \in [Run -> [Case -> TaskRow]]
      /\ \A r \in Run, c \in Case : r # a \/ c # b => task'[r][c] = task[r][c]
      /\ task'[a][b] = [task[a][b] EXCEPT !.status = v]
  <2> DEFINE new == [task[a][b] EXCEPT !.status = v]
  <2>1. new \in TaskRow
    <3>1. task[a][b] \in TaskRow
      BY <1>2
    <3> QED BY <3>1 DEF TaskRow
  <2>2. task' = [task EXCEPT ![a][b] = new]
    OBVIOUS
  <2> HIDE DEF new
  <2>3. /\ task' \in [Run -> [Case -> TaskRow]] /\ task'[a][b] = new
        /\ \A r \in Run, c \in Case : r # a \/ c # b => task'[r][c] = task[r][c]
    BY <1>2, <2>1, <2>2
  <2> QED BY <2>3 DEF new
<1>4. task[a][b] \in TaskRow /\ task'[a][b] = [task[a][b] EXCEPT !.status = v]
  BY <1>2, <1>3
<1>5. task'[a][b].status = v /\ task'[a][b].ledger = task[a][b].ledger
  BY <1>4 DEF TaskRow
<1>6. RowTypes'
  BY <1>1, <1>3 DEF RowTypes
<1>7. CaseKnows(a, b)
  BY <1>1 DEF RowsGood, RowsKnow
<1>8. Outcome(task[a][b]) = None
  BY <1>4, OutcomeIs
<1>9. SteadyCase(a, b)
  BY <1>8 DEF SteadyCase
<1>10. CaseKnows(a, b)'
  <2>1. a # Source => result[a][b] \notin {"completed", "needs_review"}
    BY <1>7, <1>8, BenchmarkAssumption DEF CaseKnows, CaseStatus
  <2> QED BY <1>5, <1>7, <2>1 DEF CaseKnows
<1>11. ScoredAt(a, b)'
  <2>1. scores[a][b] <= 0
    BY <1>1 DEF RowsGood, ScoredOnce
  <2> QED BY <1>5, <2>1 DEF ScoredAt
<1>12. \A r \in Run, c \in Case : r # a \/ c # b => task'[r][c] = task[r][c]
  BY <1>3
<1>13. a = Source => result'[a][b] \in {"none", "completed", "needs_review"}
  BY <1>1 DEF RowsGood, RowsKnow, SourceKnows
<1> QED BY <1>1, <1>5, <1>6, <1>9, <1>10, <1>11, <1>12, <1>13, OneCase

(* The launch goes on to another statement.                                *)
LEMMA StepKeeps ==
    ASSUME BenchmarkInv, NEW s \in Starter, starter[s].pc # "idle",
           NEW step \in {"launching", "launched", "failing", "failed"},
           starter[s].pc # "started",
           starter' = [starter EXCEPT ![s].pc = step],
           RowsGood', Steady, result' = result,
           \A r \in Run \ {starter[s].run} : Respected(r),
           \A c \in Case : c # starter[s].case =>
               task'[starter[s].run][c] = task[starter[s].run][c],
           step = "launching" => task'[starter[s].run][starter[s].case].status = "queued",
           pass' = pass, faults' \subseteq BenchmarkFaults
    PROVE  BenchmarkInv'
<1> DEFINE r == starter[s].run  c == starter[s].case
<1>1. /\ r \in Run \ {Source} /\ run[r].status # "none" /\ c \in Case
      /\ run[r].size \in 1 .. MaxCases /\ c \in 1 .. run[r].size /\ starter[s] \in StarterRow
  BY LaunchIsAt
<1>2. starter \in [Starter -> StarterRow]
  BY DEF BenchmarkInv, RunTypes
<1>3. starter' \in [Starter -> StarterRow] /\ starter'[s] = [starter[s] EXCEPT !.pc = step]
      /\ \A t \in Starter \ {s} : starter'[t] = starter[t]
  <2>1. [starter[s] EXCEPT !.pc = step] \in StarterRow
    BY <1>1 DEF StarterRow
  <2> QED BY <1>2, <2>1
<1>4. /\ starter'[s].pc = step /\ starter'[s].run = r /\ starter'[s].case = c
      /\ starter'[s].for = starter[s].for /\ starter'[s].from = starter[s].from
  BY <1>1, <1>3 DEF StarterRow
<1>5. /\ run[r].for = starter[s].for /\ starter[s].from # "validated"
      /\ \A d \in 1 .. c - 1 : result[r][d] # "none"
      /\ \A d \in c .. MaxCases : result[r][d] = "none"
      /\ \A d \in c + 1 .. MaxCases : task[r][d].status = "none"
  BY DEF BenchmarkInv, StarterKnows
<1>6. run'[r].status # "none" /\ run'[r].size = run[r].size /\ run'[r].for = run[r].for
  BY <1>1 DEF Steady, SteadyRun
<1>7. \A d \in c + 1 .. MaxCases : task'[r][d].status = "none"
  <2>1. \A d \in c + 1 .. MaxCases : d \in Case /\ d # c
    BY <1>1 DEF Case
  <2> QED BY <1>5, <2>1
<1>8. StarterKnows(s)'
  <2> HIDE DEF r, c
  <2>1. step = "launching" => task'[r][c].status = "queued"
    BY DEF r, c
  <2> QED BY <1>1, <1>4, <1>5, <1>6, <1>7, <2>1 DEF StarterKnows
<1>9. \A t \in Starter \ {s} : starter[t].pc # "idle" => starter[t].run # r
  BY DEF BenchmarkInv, StartersApart
<1> QED BY <1>3, <1>4, <1>8, <1>9, LaunchKeeps

LEMMA CreateKeeps ==
    ASSUME BenchmarkInv, NEW s \in Starter, CreateCaseTask(s)
    PROVE  BenchmarkInv' /\ Steady
<1> DEFINE r == starter[s].run  c == starter[s].case
<1>1. /\ r \in Run \ {Source} /\ run[r].status # "none" /\ c \in Case
      /\ starter[s].pc = "creating"
  BY LaunchIsAt DEF CreateCaseTask
<1>2. task[r][c].status = "none"
  BY <1>1 DEF BenchmarkInv, StarterKnows
<1>3. task' = [task EXCEPT ![r][c].status = "queued"] /\ UNCHANGED <<run, result, scores, pass, faults>>
      /\ starter' = [starter EXCEPT ![s].pc = "launching"]
  BY DEF CreateCaseTask, SetTask, LaunchStep, NoFault
<1>4. /\ RowsGood' /\ Steady /\ \A q \in Run \ {r} : Respected(q)
      /\ \A q \in Run, d \in Case : q # r \/ d # c => task'[q][d] = task[q][d]
      /\ task'[r][c].status = "queued"
  BY <1>1, <1>2, <1>3, TaskStatusKeeps
<1>5. faults' \subseteq BenchmarkFaults
  BY <1>3 DEF BenchmarkInv, RunTypes
<1> QED BY <1>1, <1>3, <1>4, <1>5, StepKeeps

LEMMA FaultIsOne ==
    ASSUME BenchmarkInv, NEW kind, Fault(kind)
    PROVE  faults' \subseteq BenchmarkFaults
BY BenchmarkAssumption DEF Fault, BenchmarkInv, RunTypes

LEMMA LaunchCaseKeeps ==
    ASSUME BenchmarkInv, NEW s \in Starter, LaunchCase(s)
    PROVE  BenchmarkInv' /\ Steady
<1> DEFINE r == starter[s].run  c == starter[s].case
<1>1. /\ r \in Run \ {Source} /\ run[r].status # "none" /\ c \in Case
      /\ starter[s].pc = "launching"
  BY LaunchIsAt DEF LaunchCase
<1>2. task[r][c].status = "queued"
  BY <1>1 DEF BenchmarkInv, StarterKnows
<1>3. UNCHANGED <<run, result, scores, pass>>
  BY DEF LaunchCase
<1>4. faults' \subseteq BenchmarkFaults
  BY FaultIsOne DEF LaunchCase, NoFault, BenchmarkInv, RunTypes
<1>5. PICK step \in {"launched", "failing"} : starter' = [starter EXCEPT ![s].pc = step]
  BY DEF LaunchCase, LaunchStep
<1>6. CASE SetTask(s, "running")
  <2>1. task' = [task EXCEPT ![r][c].status = "running"]
    BY <1>6 DEF SetTask
  <2>2. /\ RowsGood' /\ Steady /\ \A q \in Run \ {r} : Respected(q)
        /\ \A q \in Run, d \in Case : q # r \/ d # c => task'[q][d] = task[q][d]
    BY <1>1, <1>2, <1>3, <2>1, TaskStatusKeeps
  <2> QED BY <1>1, <1>3, <1>4, <1>5, <2>2, StepKeeps
<1>7. CASE UNCHANGED task
  <2>1. RowsGood' /\ Steady /\ \A q \in Run : Respected(q)
    BY <1>3, <1>7, NoRow DEF rows, BenchmarkInv
  <2> QED BY <1>1, <1>3, <1>4, <1>5, <1>7, <2>1, StepKeeps
<1> QED BY <1>6, <1>7 DEF LaunchCase

LEMMA FailCaseKeeps ==
    ASSUME BenchmarkInv, NEW s \in Starter, FailCaseTask(s)
    PROVE  BenchmarkInv' /\ Steady
<1> DEFINE r == starter[s].run  c == starter[s].case
<1>1. /\ r \in Run \ {Source} /\ run[r].status # "none" /\ c \in Case
      /\ starter[s].pc = "failing"
  BY LaunchIsAt DEF FailCaseTask
<1>2. UNCHANGED <<run, result, scores, pass, faults>> /\ starter' = [starter EXCEPT ![s].pc = "failed"]
  BY DEF FailCaseTask, LaunchStep, NoFault
<1>3. faults' \subseteq BenchmarkFaults
  BY <1>2 DEF BenchmarkInv, RunTypes
<1>4. CASE task[r][c].status \in Pending /\ ~ task[r][c].ledger
  <2>1. task' = [task EXCEPT ![r][c].status = "failed"]
    BY <1>4 DEF FailCaseTask, SetTask, TaskOf
  <2>2. /\ RowsGood' /\ Steady /\ \A q \in Run \ {r} : Respected(q)
        /\ \A q \in Run, d \in Case : q # r \/ d # c => task'[q][d] = task[q][d]
    BY <1>1, <1>2, <1>4, <2>1, TaskStatusKeeps DEF Pending
  <2> QED BY <1>1, <1>2, <1>3, <2>2, StepKeeps
<1>5. CASE ~ (task[r][c].status \in Pending /\ ~ task[r][c].ledger)
  <2>1. UNCHANGED task
    BY <1>5 DEF FailCaseTask, TaskOf
  <2>2. RowsGood' /\ Steady /\ \A q \in Run : Respected(q)
    BY <1>2, <2>1, NoRow DEF rows, BenchmarkInv
  <2> QED BY <1>1, <1>2, <1>3, <2>1, <2>2, StepKeeps
<1> QED BY <1>4, <1>5

LEMMA SetTaskRow ==
    ASSUME task \in [Run -> [Case -> TaskRow]], NEW a \in Run, NEW b \in Case,
           NEW new \in TaskRow, task' = [task EXCEPT ![a][b] = new]
    PROVE  /\ task' \in [Run -> [Case -> TaskRow]] /\ task'[a][b] = new
           /\ \A r \in Run, c \in Case : r # a \/ c # b => task'[r][c] = task[r][c]
OBVIOUS

LEMMA InsertResultKeeps ==
    ASSUME BenchmarkInv, NEW s \in Starter, InsertCaseResult(s),
           NEW r, r = starter[s].run, NEW c, c = starter[s].case
    PROVE  BenchmarkInv' /\ Steady
<1> DEFINE value == IF starter[s].pc = "launched" THEN "running" ELSE "failed"
           row == AfterCase(s)
<1> HIDE DEF value, row
<1>1. /\ r \in Run \ {Source} /\ run[r].status # "none" /\ c \in Case
      /\ run[r].size \in 1 .. MaxCases /\ c \in 1 .. run[r].size /\ starter[s] \in StarterRow
      /\ starter[s].pc \in {"launched", "failed"}
  BY LaunchIsAt DEF InsertCaseResult
<1>2. UNCHANGED <<run, task, scores, pass, faults>>
  BY DEF InsertCaseResult, NoFault
<1>3. RowsGood /\ RowTypes /\ RunTypes
  BY DEF BenchmarkInv, RowsGood
<1>4. /\ run[r].for = starter[s].for /\ starter[s].from # "validated"
      /\ \A d \in 1 .. c - 1 : result[r][d] # "none"
      /\ \A d \in c .. MaxCases : result[r][d] = "none"
      /\ \A d \in c + 1 .. MaxCases : task[r][d].status = "none"
  BY <1>1 DEF BenchmarkInv, StarterKnows
<1>5. /\ result' \in [Run -> [Case -> CaseStatus]] /\ result'[r][c] = value
      /\ \A q \in Run, d \in Case : q # r \/ d # c => result'[q][d] = result[q][d]
  <2>1. value \in CaseStatus
    BY DEF CaseStatus, value
  <2>2. result' = [result EXCEPT ![r][c] = value]
    BY DEF InsertCaseResult, value
  <2> QED BY <1>1, <1>3, <2>1, <2>2 DEF RowTypes
<1>6. result[r][c] = "none" /\ result'[r][c] \in {"running", "failed"}
  BY <1>1, <1>4, <1>5 DEF Case, value
<1>7. RowsGood' /\ Steady /\ \A q \in Run \ {r} : Respected(q)
  <2>1. RowTypes'
    BY <1>2, <1>3, <1>5 DEF RowTypes
  <2>2. SteadyCase(r, c)
    BY <1>1, <1>2, <1>6 DEF SteadyCase
  <2>3. CaseKnows(r, c)'
    BY <1>1, <1>2, <1>3, <1>6 DEF RowsGood, RowsKnow, CaseKnows
  <2>4. ScoredAt(r, c)'
    BY <1>1, <1>2, <1>3 DEF RowsGood, ScoredOnce, ScoredAt
  <2> QED BY <1>1, <1>2, <1>3, <1>5, <2>1, <2>2, <2>3, <2>4, OneCase
<1>8. starter' \in [Starter -> StarterRow] /\ starter'[s] = row
      /\ \A t \in Starter \ {s} : starter'[t] = starter[t]
  <2>1. row \in StarterRow
    <3>1. CASE c < run[r].size
      <4>1. row = [starter[s] EXCEPT !.pc = "creating", !.case = c + 1]
        BY <3>1 DEF AfterCase, row
      <4>2. c + 1 \in 0 .. MaxCases
        BY <1>1, <3>1, BenchmarkAssumption
      <4> QED BY <1>1, <4>1, <4>2 DEF StarterRow
    <3>2. CASE ~ (c < run[r].size)
      <4>1. row = [starter[s] EXCEPT !.pc = "started"]
        BY <3>2 DEF AfterCase, row
      <4> QED BY <1>1, <4>1 DEF StarterRow
    <3> QED BY <3>1, <3>2
  <2>2. starter' = [starter EXCEPT ![s] = row]
    BY DEF InsertCaseResult, row
  <2> QED BY <1>3, <2>1, <2>2 DEF RunTypes
<1>9. row.run = r /\ row.for = starter[s].for /\ row.from = starter[s].from
  BY <1>1 DEF AfterCase, StarterRow, row
<1>10. run'[r].status # "none" /\ run'[r].size = run[r].size /\ run'[r].for = run[r].for
  BY <1>1, <1>2
<1>11. StarterKnows(s)'
  <2>1. CASE c < run[r].size
    <3>1. row.pc = "creating" /\ row.case = c + 1
      BY <1>1, <2>1 DEF AfterCase, StarterRow, row
    <3>2. c + 1 \in 1 .. run[r].size /\ c + 1 - 1 = c
      BY <1>1, <2>1
    <3>3. \A d \in 1 .. c : result'[r][d] # "none"
      <4>1. \A d \in 1 .. c : d \in Case
        BY <1>1, BenchmarkAssumption DEF Case
      <4>2. \A d \in 1 .. c : d # c => d \in 1 .. c - 1
        BY <1>1
      <4> QED BY <1>1, <1>4, <1>5, <1>6, <4>1, <4>2
    <3>4. \A d \in c + 1 .. MaxCases : result'[r][d] = "none" /\ task'[r][d].status = "none"
      <4>1. \A d \in c + 1 .. MaxCases : d \in Case /\ d # c /\ d \in c .. MaxCases
        BY <1>1, BenchmarkAssumption DEF Case
      <4> QED BY <1>1, <1>2, <1>4, <1>5, <4>1
    <3>5. c + 1 \in c + 1 .. MaxCases /\ c + 1 + 1 .. MaxCases \subseteq c + 1 .. MaxCases
      BY <1>1, <2>1, BenchmarkAssumption
    <3> QED BY <1>1, <1>4, <1>8, <1>9, <1>10, <3>1, <3>2, <3>3, <3>4, <3>5 DEF StarterKnows
  <2>2. CASE ~ (c < run[r].size)
    <3>1. row.pc = "started" /\ row.case = c
      BY <1>1, <2>2 DEF AfterCase, StarterRow, row
    <3>2. c = run[r].size
      BY <1>1, <2>2
    <3>3. \A d \in 1 .. c - 1 : result'[r][d] # "none"
      <4>1. \A d \in 1 .. c - 1 : d \in Case /\ d # c
        BY <1>1, BenchmarkAssumption DEF Case
      <4> QED BY <1>1, <1>4, <1>5, <4>1
    <3>4. result'[r][c] # "none" /\ \A d \in c + 1 .. MaxCases : task'[r][d].status = "none"
      BY <1>2, <1>4, <1>6
    <3> QED BY <1>1, <1>4, <1>8, <1>9, <1>10, <3>1, <3>2, <3>3, <3>4 DEF StarterKnows
  <2> QED BY <2>1, <2>2
<1>12. \A t \in Starter \ {s} : starter[t].pc # "idle" => starter[t].run # r
  BY <1>1 DEF BenchmarkInv, StartersApart
<1>13. faults' \subseteq BenchmarkFaults
  BY <1>2, <1>3 DEF RunTypes
<1> QED BY <1>1, <1>2, <1>7, <1>8, <1>9, <1>11, <1>12, <1>13, LaunchKeeps

(* A launch that is over, or dead, knows nothing any more.                 *)
LEMMA LeaveKeeps ==
    ASSUME BenchmarkInv, NEW s \in Starter, starter' = [starter EXCEPT ![s] = IdleStarter],
           UNCHANGED <<run, task, result, scores, pass>>, faults' \subseteq BenchmarkFaults
    PROVE  BenchmarkInv' /\ Steady
<1>1. RowsGood' /\ Steady /\ \A q \in Run : Respected(q)
  BY NoRow DEF rows, BenchmarkInv
<1>2. starter' \in [Starter -> StarterRow] /\ starter'[s] = IdleStarter
      /\ \A t \in Starter \ {s} : starter'[t] = starter[t]
  <2>1. IdleStarter \in StarterRow
    BY BenchmarkAssumption DEF IdleStarter, StarterRow, Purpose
  <2> QED BY <2>1 DEF BenchmarkInv, RunTypes
<1>3. starter'[s].pc = "idle"
  BY <1>2 DEF IdleStarter
<1>4. StarterKnows(s)'
  BY <1>3 DEF StarterKnows
<1> QED BY <1>1, <1>2, <1>3, <1>4, LaunchKeeps

LEMMA TaskEndsKeeps ==
    ASSUME BenchmarkInv, NEW a \in Run, NEW b \in Case, TaskEnds(a, b)
    PROVE  BenchmarkInv' /\ Steady
<1>1. RowsGood /\ RowTypes /\ RunTypes
  BY DEF BenchmarkInv, RowsGood
<1>2. task[a][b].status = "running" /\ UNCHANGED <<run, result, scores, starter, pass>>
  BY DEF TaskEnds
<1>3. run[a].status # "none"
  BY <1>1, <1>2 DEF RowsGood, RowsKnow, RunKnows
<1>4. faults' \subseteq BenchmarkFaults
  <2>1. UNCHANGED faults \/ Fault("task cancelled")
    BY DEF TaskEnds, NoFault
  <2> QED BY <1>1, <2>1, FaultIsOne DEF RunTypes
<1>5. /\ RowsGood' /\ Steady /\ \A r \in Run \ {a} : Respected(r)
      /\ \A r \in Run, c \in Case : r # a \/ c # b => task'[r][c] = task[r][c]
  <2>1. CASE \E v \in {"failed", "cancelled"} : task' = [task EXCEPT ![a][b].status = v]
    <3> PICK v \in {"failed", "cancelled"} : task' = [task EXCEPT ![a][b].status = v]
      BY <2>1
    <3> QED BY <1>2, <1>3, TaskStatusKeeps
  <2>2. CASE \E clean \in BOOLEAN :
                 task' = [task EXCEPT ![a][b] =
                     [status |-> "completed", clean |-> clean, ledger |-> TRUE]]
    <3>0. PICK clean \in BOOLEAN : task' = [task EXCEPT ![a][b] =
                     [status |-> "completed", clean |-> clean, ledger |-> TRUE]]
      BY <2>2
    <3> DEFINE new == [status |-> "completed", clean |-> clean, ledger |-> TRUE]
    <3>1. new \in TaskRow
      BY DEF TaskRow
    <3>2. /\ task' \in [Run -> [Case -> TaskRow]] /\ task'[a][b] = new
          /\ \A r \in Run, c \in Case : r # a \/ c # b => task'[r][c] = task[r][c]
      <4> HIDE DEF new
      <4>1. task' = [task EXCEPT ![a][b] = new]
        BY <3>0 DEF new
      <4>2. task \in [Run -> [Case -> TaskRow]]
        BY <1>1 DEF RowTypes
      <4> QED BY <3>1, <4>1, <4>2, SetTaskRow
    <3>3. task[a][b] \in TaskRow
      BY <1>1 DEF RowTypes
    <3>4. Outcome(task[a][b]) = None
      BY <1>2, <3>3, OutcomeIs
    <3>5. CaseKnows(a, b)
      BY <1>1 DEF RowsGood, RowsKnow
    <3>6. a # Source => result[a][b] \notin {"completed", "needs_review"}
      BY <3>4, <3>5, BenchmarkAssumption DEF CaseKnows, CaseStatus
    <3>7. RowTypes'
      BY <1>1, <1>2, <3>2 DEF RowTypes
    <3>8. SteadyCase(a, b)
      BY <1>2, <3>4 DEF SteadyCase
    <3>9. CaseKnows(a, b)'
      BY <1>2, <3>2, <3>5, <3>6 DEF CaseKnows
    <3>10. ScoredAt(a, b)'
      <4>1. scores[a][b] <= 0 /\ scores[a][b] \in Nat
        BY <1>1, <1>2 DEF RowsGood, ScoredOnce, RowTypes
      <4> QED BY <1>2, <3>2, <4>1 DEF ScoredAt
    <3>11. a = Source => result'[a][b] \in {"none", "completed", "needs_review"}
      BY <1>1, <1>2 DEF RowsGood, RowsKnow, SourceKnows
    <3> QED BY <1>1, <1>2, <1>3, <3>2, <3>7, <3>8, <3>9, <3>10, <3>11, OneCase
  <2> QED BY <2>1, <2>2 DEF TaskEnds
<1>6. \A r \in Run : Respected(r)
  BY <1>2, <1>5 DEF Respected
<1>7. ASSUME NEW s \in Starter PROVE StarterKnows(s)'
  <2>1. StarterKnows(s) /\ starter'[s] = starter[s]
    BY <1>2 DEF BenchmarkInv
  <2>2. starter[s].pc # "idle" => Respected(starter[s].run)
    BY <1>6, <2>1 DEF StarterKnows
  <2> QED BY <1>1, <1>5, <2>1, <2>2, StarterKeeps
<1>8. ASSUME NEW p \in Passer PROVE PassKnows(p)'
  BY <1>1, <1>2, <1>5, PassKeeps DEF BenchmarkInv, RowsGood
<1>9. StartersApart'
  BY <1>2 DEF BenchmarkInv, StartersApart
<1>10. RunTypes'
  BY <1>1, <1>2, <1>4, <1>5 DEF RunTypes, RowsGood
<1> QED BY <1>5, <1>7, <1>8, <1>9, <1>10 DEF BenchmarkInv

-----------------------------------------------------------------------------
(* The steps of passes *)

LEMMA PassMoves ==
    ASSUME BenchmarkInv, RowsGood', Steady, \A r \in Run : Respected(r), starter' = starter,
           faults' \subseteq BenchmarkFaults,
           NEW p \in Passer, NEW new \in PassTypes, PassRow(p, new),
           pass'[p] = new => PassKnows(p)'
    PROVE  BenchmarkInv'
<1>1. RowTypes /\ RowTypes' /\ RunTypes
  BY DEF BenchmarkInv, RowsGood
<1>2. /\ pass' \in [Passer -> PassTypes] /\ pass'[p] = new
      /\ \A q \in Passer \ {p} : pass'[q] = pass[q]
  BY <1>1 DEF PassRow, RunTypes
<1>3. RunTypes'
  BY <1>1, <1>2 DEF RunTypes
<1>4. ASSUME NEW q \in Passer PROVE PassKnows(q)'
  BY <1>1, <1>2, PassKeeps DEF BenchmarkInv
<1>5. ASSUME NEW s \in Starter PROVE StarterKnows(s)'
  <2>1. StarterKnows(s) /\ starter'[s] = starter[s]
    BY DEF BenchmarkInv
  <2>2. starter[s].pc # "idle" => Respected(starter[s].run)
    BY <2>1 DEF StarterKnows
  <2> QED BY <1>1, <2>1, <2>2, StarterKeeps
<1>6. StartersApart'
  BY DEF BenchmarkInv, StartersApart
<1> QED BY <1>3, <1>4, <1>5, <1>6 DEF BenchmarkInv

LEMMA PassReads ==
    ASSUME BenchmarkInv, UNCHANGED <<rows, starter>>, faults' \subseteq BenchmarkFaults,
           NEW p \in Passer, NEW new \in PassTypes, PassRow(p, new),
           pass'[p] = new => PassKnows(p)'
    PROVE  BenchmarkInv' /\ Steady
<1>1. RowsGood' /\ Steady /\ \A r \in Run : Respected(r)
  BY NoRow DEF BenchmarkInv
<1> QED BY <1>1, PassMoves

LEMMA KeepIs ==
    ASSUME BenchmarkInv, NEW p, Keep(p)
    PROVE  starter' = starter /\ faults' \subseteq BenchmarkFaults
BY DEF Keep, NoFault, BenchmarkInv, RunTypes

LEMMA IdlePassKnows ==
    /\ IdlePass \in PassTypes
    /\ \A p \in Passer : pass'[p] = IdlePass => PassKnows(p)'
<1>1. IdlePass \in PassTypes
  BY DEF IdlePass, PassTypes, Comparison
<1>2. ASSUME NEW p \in Passer, pass'[p] = IdlePass PROVE PassKnows(p)'
  BY <1>2 DEF IdlePass, PassKnows
<1> QED BY <1>1, <1>2

LEMMA GoIdle ==
    ASSUME BenchmarkInv, UNCHANGED <<rows, starter>>, faults' \subseteq BenchmarkFaults,
           NEW p \in Passer, PassRow(p, IdlePass)
    PROVE  BenchmarkInv' /\ Steady
BY IdlePassKnows, PassReads

LEMMA PassIsTyped ==
    ASSUME BenchmarkInv, NEW p \in Passer
    PROVE  pass[p] \in PassTypes /\ PassKnows(p) /\ RowTypes /\ RowsGood
BY DEF BenchmarkInv, RunTypes, RowsGood

LEMMA ReadRunningKeeps ==
    ASSUME BenchmarkInv, NEW p \in Passer, ReadRunningResults(p)
    PROVE  BenchmarkInv' /\ Steady
<1> DEFINE todo == {x \in CaseOf : result[x[1]][x[2]] = "running"}
           new == [IdlePass EXCEPT !.pc = "cases", !.todo = todo]
<1>1. RowsGood
  BY PassIsTyped
<1>2. \A x \in CaseOf : x[1] \in Run /\ x[2] \in Case
  BY DEF CaseOf
<1>3. \A x \in todo : x \in CaseOf /\ ToWrite(x[1], x[2])
  BY <1>1, <1>2 DEF ToWrite, RowsGood, RowsKnow, SourceKnows
<1>4. UNCHANGED <<rows, starter>> /\ faults' \subseteq BenchmarkFaults /\ PassRow(p, new)
  BY KeepIs DEF ReadRunningResults
<1>5. \A x \in todo : x \in CaseOf /\ ToWrite(x[1], x[2])'
  <2> HIDE DEF todo
  <2> QED BY <1>3, <1>4 DEF rows, ToWrite
<1> HIDE DEF todo
<1>6. new \in PassTypes
  <2>1. todo \in SUBSET CaseOf
    BY DEF todo
  <2> QED BY <2>1 DEF IdlePass, PassTypes, Comparison
<1>7. new.pc = "cases" /\ new.todo = todo /\ new.cur = None
  BY DEF IdlePass
<1>8. ASSUME pass'[p] = new PROVE PassKnows(p)'
  <2> HIDE DEF new
  <2>1. pass'[p].pc = "cases" /\ pass'[p].todo = todo /\ pass'[p].cur = None
    BY <1>7, <1>8
  <2> QED BY <1>5, <2>1 DEF PassKnows
<1> HIDE DEF new
<1> QED BY <1>4, <1>6, <1>8, PassReads

LEMMA ReadTaskKeeps ==
    ASSUME BenchmarkInv, NEW p \in Passer, ReadCaseTask(p)
    PROVE  BenchmarkInv' /\ Steady
<1>1. pass[p] \in PassTypes /\ PassKnows(p) /\ RowTypes /\ pass[p].pc = "cases"
  BY PassIsTyped DEF ReadCaseTask
<1> PICK x \in pass[p].todo :
        PassRow(p, [pass[p] EXCEPT !.todo = @ \ {x}, !.verdict = Outcome(task[x[1]][x[2]]),
                                   !.cur = IF Outcome(task[x[1]][x[2]]) = None THEN None ELSE x])
  BY DEF ReadCaseTask
<1> DEFINE outcome == Outcome(task[x[1]][x[2]])
           cur == IF outcome = None THEN None ELSE x
           todo == pass[p].todo \ {x}
           new == [pass[p] EXCEPT !.todo = todo, !.verdict = outcome, !.cur = cur]
<1>2. UNCHANGED <<rows, starter>> /\ faults' \subseteq BenchmarkFaults /\ PassRow(p, new)
  BY KeepIs DEF ReadCaseTask
<1>3. \A y \in pass[p].todo : y \in CaseOf /\ ToWrite(y[1], y[2])
  BY <1>1 DEF PassKnows
<1>4. x[1] \in Run /\ x[2] \in Case
  BY <1>3 DEF CaseOf
<1>5. outcome \in {"failed", "completed", "needs_review", None}
  <2>1. task[x[1]][x[2]] \in TaskRow
    BY <1>1, <1>4 DEF RowTypes
  <2> QED BY <2>1, OutcomeIs
<1>6. todo \in SUBSET CaseOf /\ cur \in CaseOf \cup {None}
  BY <1>3
<1>7. new \in PassTypes
  <2> HIDE DEF outcome, cur, todo
  <2> QED BY <1>1, <1>5, <1>6 DEF PassTypes, CaseStatus
<1>8. /\ new.pc = "cases" /\ new.todo = todo /\ new.cur = cur /\ new.verdict = outcome
  <2> HIDE DEF outcome, cur, todo
  <2> QED BY <1>1 DEF PassTypes
<1>9. cur # None => cur = x /\ outcome # None
  OBVIOUS
<1>10. task' = task /\ result' = result
  BY <1>2 DEF rows
<1>11. ASSUME NEW new2, pass'[p] = new2, new2 = new PROVE PassKnows(p)'
  <2> HIDE DEF new, cur, todo
  <2>1. pass'[p].pc = "cases" /\ pass'[p].todo = todo /\ pass'[p].cur = cur
        /\ pass'[p].verdict = Outcome(task[x[1]][x[2]])
    BY <1>8, <1>11
  <2>2. \A y \in todo : y \in CaseOf /\ ToWrite(y[1], y[2])'
    BY <1>3, <1>10 DEF todo, ToWrite
  <2>3. cur # None => cur = x /\ x \in CaseOf /\ ToWrite(x[1], x[2])' /\ outcome # None
    BY <1>3, <1>9, <1>10 DEF ToWrite
  <2> QED BY <1>10, <2>1, <2>2, <2>3 DEF PassKnows
<1> HIDE DEF new
<1> QED BY <1>2, <1>7, <1>11, PassReads

LEMMA ReadCompletedKeeps ==
    ASSUME BenchmarkInv, NEW p \in Passer, ReadCompletedResults(p)
    PROVE  BenchmarkInv' /\ Steady
<1> DEFINE todo == {x \in CaseOf : result[x[1]][x[2]] = "completed"}
           new == [IdlePass EXCEPT !.pc = "scores", !.todo = todo]
<1>1. UNCHANGED <<rows, starter>> /\ faults' \subseteq BenchmarkFaults /\ PassRow(p, new)
  BY KeepIs DEF ReadCompletedResults
<1>2. todo \in SUBSET CaseOf
  OBVIOUS
<1> HIDE DEF todo
<1>3. new \in PassTypes
  BY <1>2 DEF IdlePass, PassTypes, Comparison
<1>4. new.pc = "scores" /\ new.todo = todo
  BY DEF IdlePass
<1> HIDE DEF new
<1>5. ASSUME pass'[p] = new PROVE PassKnows(p)'
  BY <1>2, <1>4, <1>5 DEF PassKnows
<1> QED BY <1>1, <1>3, <1>5, PassReads

LEMMA ReadActiveKeeps ==
    ASSUME BenchmarkInv, NEW p \in Passer, ReadActiveRuns(p)
    PROVE  BenchmarkInv' /\ Steady
<1> DEFINE todo == {r \in Run : Active(r)}
           new == [IdlePass EXCEPT !.pc = "runs", !.todo = todo]
<1>1. UNCHANGED <<rows, starter>> /\ faults' \subseteq BenchmarkFaults /\ PassRow(p, new)
  BY KeepIs DEF ReadActiveRuns
<1>2. todo \subseteq {r \in Run \ {Source} : run[r].status # "none"} /\ todo \in SUBSET Run
  BY DEF BenchmarkInv, RowsGood, RowsKnow, SourceKnows, Active
<1> HIDE DEF todo
<1>3. run' = run
  BY <1>1 DEF rows
<1>4. new \in PassTypes
  BY <1>2 DEF IdlePass, PassTypes, Comparison
<1>5. new.pc = "runs" /\ new.todo = todo
  BY DEF IdlePass
<1> HIDE DEF new
<1>6. ASSUME pass'[p] = new PROVE PassKnows(p)'
  BY <1>2, <1>3, <1>5, <1>6 DEF PassKnows
<1> QED BY <1>1, <1>4, <1>6, PassReads

LEMMA SetResult ==
    ASSUME result \in [Run -> [Case -> CaseStatus]], NEW a \in Run, NEW b \in Case,
           NEW v \in CaseStatus, result' = [result EXCEPT ![a][b] = v]
    PROVE  /\ result' \in [Run -> [Case -> CaseStatus]] /\ result'[a][b] = v
           /\ \A r \in Run, c \in Case : r # a \/ c # b => result'[r][c] = result[r][c]
OBVIOUS

LEMMA RowsRespected ==
    ASSUME task' = task, NEW a \in Run, NEW b \in Case,
           result'[a][b] = "none" <=> result[a][b] = "none", \A r \in Run \ {a} : Respected(r),
           \A c \in Case : c # b => result'[a][c] = result[a][c]
    PROVE  \A r \in Run : Respected(r)
BY DEF Respected

LEMMA WriteResultKeeps ==
    ASSUME BenchmarkInv, NEW p \in Passer, WriteCaseResult(p),
           NEW a, a = pass[p].cur[1], NEW b, b = pass[p].cur[2],
           NEW v, v = pass[p].verdict
    PROVE  BenchmarkInv' /\ Steady
<1>1. pass[p] \in PassTypes /\ PassKnows(p) /\ RowTypes /\ RowsGood
      /\ pass[p].pc = "cases" /\ pass[p].cur # None
  BY PassIsTyped DEF WriteCaseResult
<1>2. /\ pass[p].cur \in CaseOf /\ ToWrite(a, b) /\ v = Outcome(task[a][b]) /\ v # None
      /\ \A x \in pass[p].todo : x \in CaseOf /\ ToWrite(x[1], x[2])
  BY <1>1 DEF PassKnows
<1>3. a \in Run /\ b \in Case
  BY <1>2 DEF CaseOf
<1>4. task[a][b] \in TaskRow
  BY <1>1, <1>3 DEF RowTypes
<1>5. v \in {"failed", "completed", "needs_review"}
  BY <1>2, <1>4, OutcomeIs
<1>6. UNCHANGED <<run, task, scores, starter>> /\ faults' \subseteq BenchmarkFaults
      /\ result' = [result EXCEPT ![a][b] = v]
  BY KeepIs DEF WriteCaseResult
<1>7. /\ result' \in [Run -> [Case -> CaseStatus]] /\ result'[a][b] = v
      /\ \A r \in Run, c \in Case : r # a \/ c # b => result'[r][c] = result[r][c]
  <2>1. v \in CaseStatus /\ result \in [Run -> [Case -> CaseStatus]]
    BY <1>1, <1>5 DEF CaseStatus, RowTypes
  <2> QED BY <1>3, <1>6, <2>1, SetResult
<1>8. a # Source /\ result[a][b] \in {"running", v}
  BY <1>2 DEF ToWrite
<1>9. RowTypes'
  BY <1>1, <1>6, <1>7 DEF RowTypes
<1>10. SteadyCase(a, b)
  BY <1>2, <1>5, <1>6, <1>7, <1>8 DEF SteadyCase
<1>11. CaseKnows(a, b)
  BY <1>1, <1>3 DEF RowsGood, RowsKnow
<1>12. run[a].status # "none"
  BY <1>1, <1>3, <1>5, <1>8 DEF RowsGood, RowsKnow, RunKnows
<1>13. CaseKnows(a, b)'
  BY <1>2, <1>5, <1>6, <1>7, <1>8, <1>11 DEF CaseKnows
<1>14. ScoredAt(a, b)'
  BY <1>1, <1>3, <1>6 DEF RowsGood, ScoredOnce, ScoredAt
<1>15. RowsGood' /\ Steady /\ \A r \in Run \ {a} : Respected(r)
  BY <1>1, <1>3, <1>6, <1>7, <1>8, <1>9, <1>10, <1>12, <1>13, <1>14, OneCase
<1>16. \A r \in Run : Respected(r)
  BY <1>3, <1>5, <1>6, <1>7, <1>8, <1>15, RowsRespected
<1> DEFINE new == [pass[p] EXCEPT !.cur = None, !.verdict = None]
<1>17. new \in PassTypes /\ new.pc = "cases" /\ new.todo = pass[p].todo /\ new.cur = None
  BY <1>1 DEF PassTypes
<1>18. PassRow(p, new)
  BY DEF WriteCaseResult
<1>19. \A x \in pass[p].todo : x \in CaseOf /\ ToWrite(x[1], x[2])'
  <2>1. \A x \in CaseOf : x[1] \in Run /\ x[2] \in Case
    BY DEF CaseOf
  <2> QED BY <1>1, <1>2, <1>9, <1>15, <2>1, ToWriteKeeps
<1> HIDE DEF new
<1>20. ASSUME pass'[p] = new PROVE PassKnows(p)'
  BY <1>17, <1>19, <1>20 DEF PassKnows
<1> QED BY <1>6, <1>15, <1>16, <1>17, <1>18, <1>20, PassMoves

(* Only the source run has completed results without a ledger.             *)
LEMMA BackfillKeeps ==
    ASSUME BenchmarkInv, NEW p \in Passer, BackfillScores(p)
    PROVE  BenchmarkInv' /\ Steady
<1>1. pass[p] \in PassTypes /\ PassKnows(p) /\ RowTypes /\ RowsGood /\ pass[p].pc = "scores"
  BY PassIsTyped DEF BackfillScores
<1>2. PICK x \in pass[p].todo :
          /\ result' = IF result[x[1]][x[2]] = "completed" /\ ~ task[x[1]][x[2]].ledger
                       THEN [result EXCEPT ![x[1]][x[2]] = "needs_review"] ELSE result
          /\ scores' = IF result[x[1]][x[2]] = "completed" /\ task[x[1]][x[2]].ledger /\ Unscored(x)
                       THEN [scores EXCEPT ![x[1]][x[2]] = @ + 1] ELSE scores
          /\ PassRow(p, [pass[p] EXCEPT !.todo = @ \ {x}])
  BY DEF BackfillScores
<1> DEFINE a == x[1]  b == x[2]
<1>3. pass[p].todo \subseteq CaseOf /\ a \in Run /\ b \in Case
  <2>1. pass[p].todo \subseteq CaseOf
    BY <1>1 DEF PassKnows
  <2> QED BY <2>1 DEF CaseOf
<1>4. UNCHANGED <<run, task, starter>> /\ faults' \subseteq BenchmarkFaults
  BY KeepIs DEF BackfillScores
<1> DEFINE new == [pass[p] EXCEPT !.todo = pass[p].todo \ {x}]
<1>5. new \in PassTypes /\ new.pc = "scores" /\ new.todo \subseteq CaseOf /\ PassRow(p, new)
  <2>1. PassRow(p, new)
    BY <1>2
  <2>2. pass[p].todo \ {x} \in SUBSET CaseOf
    BY <1>3
  <2> QED BY <1>1, <2>1, <2>2 DEF PassTypes
<1>6. ASSUME pass'[p] = new PROVE PassKnows(p)'
  <2> HIDE DEF new
  <2> QED BY <1>5, <1>6 DEF PassKnows
<1> HIDE DEF new, a, b
<1>7. task[a][b] \in TaskRow /\ result[a][b] \in CaseStatus /\ scores[a][b] \in Nat
      /\ CaseKnows(a, b) /\ ScoredAt(a, b)
  BY <1>1, <1>3 DEF RowTypes, RowsGood, RowsKnow, ScoredOnce, ScoredAt
<1>8. CASE result[a][b] = "completed" /\ ~ task[a][b].ledger
  <2>1. result' = [result EXCEPT ![a][b] = "needs_review"] /\ scores' = scores
    BY <1>2, <1>8 DEF a, b
  <2>2. /\ result' \in [Run -> [Case -> CaseStatus]] /\ result'[a][b] = "needs_review"
        /\ \A r \in Run, c \in Case : r # a \/ c # b => result'[r][c] = result[r][c]
    <3>1. "needs_review" \in CaseStatus /\ result \in [Run -> [Case -> CaseStatus]]
      BY <1>1 DEF CaseStatus, RowTypes
    <3> QED BY <1>3, <2>1, <3>1, SetResult
  <2>3. a = Source
    <3>1. a # Source => result[a][b] = Outcome(task[a][b])
      BY <1>7, <1>8 DEF CaseKnows
    <3>2. a # Source => task[a][b].status = "completed"
      BY <1>7, <1>8, <3>1, OutcomeIs, BenchmarkAssumption DEF CaseStatus
    <3> QED BY <1>7, <1>8, <3>2 DEF CaseKnows
  <2>4. RowTypes'
    BY <1>1, <1>4, <2>1, <2>2 DEF RowTypes
  <2>5. SteadyCase(a, b) /\ CaseKnows(a, b)' /\ ScoredAt(a, b)'
    BY <1>4, <1>7, <1>8, <2>1, <2>2, <2>3 DEF SteadyCase, CaseKnows, ScoredAt
  <2>6. run[a].status # "none"
    BY <1>1, <2>3 DEF RowsGood, RowsKnow, SourceKnows
  <2>7. RowsGood' /\ Steady /\ \A r \in Run \ {a} : Respected(r)
    BY <1>1, <1>3, <1>4, <2>1, <2>2, <2>4, <2>5, <2>6, OneCase
  <2>8. \A r \in Run : Respected(r)
    BY <1>3, <1>4, <1>8, <2>2, <2>7, RowsRespected
  <2> QED BY <1>4, <1>5, <1>6, <2>7, <2>8, PassMoves
<1>9. CASE result[a][b] = "completed" /\ task[a][b].ledger /\ scores[a][b] = 0
  <2>1. scores' = [scores EXCEPT ![a][b] = 1] /\ result' = result
    BY <1>2, <1>9 DEF a, b, Unscored
  <2>2. scores \in [Run -> [Case -> Nat]]
    BY <1>1 DEF RowTypes
  <2>3. /\ scores' \in [Run -> [Case -> Nat]] /\ scores'[a][b] = 1
        /\ \A r \in Run, c \in Case : r # a \/ c # b => scores'[r][c] = scores[r][c]
    BY <1>3, <2>1, <2>2
  <2>4. RowTypes'
    BY <1>1, <1>4, <2>1, <2>3 DEF RowTypes
  <2>5. SteadyCase(a, b) /\ CaseKnows(a, b)' /\ ScoredAt(a, b)'
    BY <1>4, <1>7, <1>9, <2>1, <2>3 DEF SteadyCase, CaseKnows, ScoredAt
  <2>6. run[a].status # "none"
    BY <1>1, <1>3, <1>9 DEF RowsGood, RowsKnow, RunKnows
  <2>7. a = Source => result'[a][b] \in {"none", "completed", "needs_review"}
    BY <1>9, <2>1
  <2>8. RowsGood' /\ Steady /\ \A r \in Run \ {a} : Respected(r)
    BY <1>1, <1>3, <1>4, <2>1, <2>3, <2>4, <2>5, <2>6, <2>7, OneCase
  <2>9. \A r \in Run : Respected(r)
    BY <1>3, <1>4, <2>1, <2>8, RowsRespected
  <2> QED BY <1>4, <1>5, <1>6, <2>8, <2>9, PassMoves
<1>10. CASE UNCHANGED <<result, scores>>
  <2>1. UNCHANGED <<rows, starter>>
    BY <1>4, <1>10 DEF rows
  <2> QED BY <1>4, <1>5, <1>6, <2>1, PassReads
<1>11. UNCHANGED <<result, scores>> \/ (result[a][b] = "completed" /\ ~ task[a][b].ledger)
       \/ (result[a][b] = "completed" /\ task[a][b].ledger /\ scores[a][b] = 0)
  BY <1>2 DEF a, b, Unscored
<1> QED BY <1>8, <1>9, <1>10, <1>11

LEMMA ReadRunKeeps ==
    ASSUME BenchmarkInv, NEW p \in Passer, ReadRunResults(p)
    PROVE  BenchmarkInv' /\ Steady
<1>1. pass[p] \in PassTypes /\ PassKnows(p) /\ RowTypes /\ RowsGood /\ pass[p].pc = "runs"
  BY PassIsTyped DEF ReadRunResults
<1>2. PICK r \in pass[p].todo :
          PassRow(p, IF Ready(r)
                     THEN [pass[p] EXCEPT !.pc = "analysing", !.todo = @ \ {r}, !.cur = r,
                                          !.verdict = FinalStatus(r)]
                     ELSE [pass[p] EXCEPT !.todo = @ \ {r}])
  BY DEF ReadRunResults
<1>3. /\ pass[p].todo \subseteq {q \in Run \ {Source} : run[q].status # "none"}
      /\ r \in Run \ {Source} /\ run[r].status # "none"
  BY <1>1 DEF PassKnows
<1>4. UNCHANGED <<rows, starter>> /\ faults' \subseteq BenchmarkFaults
  BY KeepIs DEF ReadRunResults
<1>5. run' = run /\ result' = result
  BY <1>4 DEF rows
<1> DEFINE todo == pass[p].todo \ {r}
<1>6. todo \in SUBSET Run /\ todo \subseteq {q \in Run \ {Source} : run'[q].status # "none"}
  BY <1>3, <1>5
<1>7. CASE Ready(r)
  <2> DEFINE new == [pass[p] EXCEPT !.pc = "analysing", !.todo = todo, !.cur = r,
                                    !.verdict = FinalStatus(r)]
  <2>1. Ended(r) /\ FinalStatus(r) = Verdict(r)
    BY <1>1, <1>3, <1>7, AllOfARun
  <2>2. FinalStatus(r) \in {"completed", "partial_failure"}
    BY DEF FinalStatus
  <2>3. PassRow(p, new)
    BY <1>2, <1>7
  <2> HIDE DEF todo
  <2>4. new \in PassTypes
    BY <1>1, <1>3, <1>6, <2>2 DEF PassTypes, RunStatus
  <2>5. new.pc = "analysing" /\ new.todo = todo /\ new.cur = r /\ new.verdict = Verdict(r)
    BY <1>1, <2>1 DEF PassTypes
  <2> HIDE DEF new
  <2>6. Ended(r)' /\ Verdict(r)' = Verdict(r)
    BY <1>5, <2>1 DEF Ended, Verdict, AllCompleted
  <2>7. ASSUME pass'[p] = new PROVE PassKnows(p)'
    <3>1. Finalizes(p, r)'
      BY <1>3, <1>5, <2>5, <2>6, <2>7 DEF Finalizes
    <3> QED BY <1>6, <2>5, <2>7, <3>1 DEF PassKnows
  <2> QED BY <1>4, <2>3, <2>4, <2>7, PassReads
<1>8. CASE ~ Ready(r)
  <2> DEFINE new == [pass[p] EXCEPT !.todo = todo]
  <2>1. PassRow(p, new)
    BY <1>2, <1>8
  <2> HIDE DEF todo
  <2>2. new \in PassTypes /\ new.pc = "runs" /\ new.todo = todo
    BY <1>1, <1>6 DEF PassTypes
  <2> HIDE DEF new
  <2>3. ASSUME pass'[p] = new PROVE PassKnows(p)'
    BY <1>6, <2>2, <2>3 DEF PassKnows
  <2> QED BY <1>4, <2>1, <2>2, <2>3, PassReads
<1> QED BY <1>7, <1>8

LEMMA EndPassKeeps ==
    ASSUME BenchmarkInv, NEW p \in Passer, EndPass(p)
    PROVE  BenchmarkInv' /\ Steady
BY KeepIs, GoIdle DEF EndPass

LEMMA PassDiesKeeps ==
    ASSUME BenchmarkInv, NEW p \in Passer, PassDies(p)
    PROVE  BenchmarkInv' /\ Steady
BY FaultIsOne, GoIdle DEF PassDies

(* The run a pass finalises, and what the pass has to say of it.           *)
LEMMA FinalizedIs ==
    ASSUME BenchmarkInv, NEW p \in Passer,
           pass[p].pc \in {"analysing", "finishing", "comparing", "recording"}
    PROVE  /\ pass[p] \in PassTypes /\ RowTypes /\ RowsGood
           /\ Finalizes(p, pass[p].cur)
           /\ pass[p].todo \subseteq {r \in Run \ {Source} : run[r].status # "none"}
           /\ pass[p].verdict \in {"completed", "partial_failure"}
           /\ pass[p].pc \in {"comparing", "recording"} =>
                 run[pass[p].cur].status = pass[p].verdict
BY PassIsTyped DEF PassKnows, Finalizes, Verdict

(* A finalising pass goes on without writing a row of the runs.            *)
LEMMA FinalizeMoves ==
    ASSUME BenchmarkInv, UNCHANGED <<rows, starter>>, faults' \subseteq BenchmarkFaults,
           NEW p \in Passer, NEW r, r = pass[p].cur,
           pass[p].pc \in {"analysing", "comparing"},
           NEW new \in PassTypes, PassRow(p, new),
           \/ pass[p].pc = "analysing" /\ new.pc = "finishing"
           \/ pass[p].pc = "comparing" /\ new.pc = "recording",
           new.cur = r, new.verdict = pass[p].verdict, new.todo = pass[p].todo
    PROVE  BenchmarkInv' /\ Steady
<1>1. /\ Finalizes(p, r)
      /\ pass[p].todo \subseteq {q \in Run \ {Source} : run[q].status # "none"}
      /\ pass[p].pc = "comparing" => run[r].status = pass[p].verdict
  BY FinalizedIs
<1>2. UNCHANGED <<run, task, result>>
  BY DEF rows
<1>3. ASSUME pass'[p] = new PROVE PassKnows(p)'
  <2>1. Finalizes(p, r)'
    BY <1>1, <1>2, <1>3 DEF Finalizes, Ended, Verdict, AllCompleted
  <2> QED BY <1>1, <1>2, <1>3, <2>1 DEF PassKnows
<1> QED BY <1>3, PassReads

LEMMA WriteAnalysisKeeps ==
    ASSUME BenchmarkInv, NEW p \in Passer, WriteAnalysis(p)
    PROVE  BenchmarkInv' /\ Steady
<1> DEFINE new == [pass[p] EXCEPT !.pc = "finishing"]
<1>1. UNCHANGED <<rows, starter>> /\ faults' \subseteq BenchmarkFaults /\ PassRow(p, new)
      /\ pass[p].pc = "analysing"
  BY KeepIs DEF WriteAnalysis
<1>2. pass[p] \in PassTypes
  BY PassIsTyped
<1>3. new \in PassTypes /\ new.pc = "finishing" /\ new.cur = pass[p].cur
      /\ new.verdict = pass[p].verdict /\ new.todo = pass[p].todo
  BY <1>2 DEF PassTypes
<1> HIDE DEF new
<1> QED BY <1>1, <1>3, FinalizeMoves

LEMMA RecommendationIs ==
    ASSUME NEW r
    PROVE  Recommendation(r) \in Comparison
BY DEF Recommendation, Comparison

LEMMA CompareRunsKeeps ==
    ASSUME BenchmarkInv, NEW p \in Passer, CompareRuns(p)
    PROVE  BenchmarkInv' /\ Steady
<1> DEFINE compared == IF proposal.run = pass[p].cur THEN Recommendation(pass[p].cur) ELSE "none"
           new == [pass[p] EXCEPT !.pc = "recording", !.compared = compared]
<1>1. UNCHANGED <<rows, starter>> /\ faults' \subseteq BenchmarkFaults /\ PassRow(p, new)
      /\ pass[p].pc = "comparing"
  BY KeepIs DEF CompareRuns
<1>2. pass[p] \in PassTypes /\ compared \in Comparison
  BY PassIsTyped, RecommendationIs DEF Comparison
<1> HIDE DEF compared
<1>3. new \in PassTypes /\ new.pc = "recording" /\ new.cur = pass[p].cur
      /\ new.verdict = pass[p].verdict /\ new.todo = pass[p].todo
  BY <1>2 DEF PassTypes
<1> HIDE DEF new
<1> QED BY <1>1, <1>3, FinalizeMoves

LEMMA RecordEvidenceKeeps ==
    ASSUME BenchmarkInv, NEW p \in Passer, RecordEvidence(p)
    PROVE  BenchmarkInv' /\ Steady
<1> DEFINE new == [IdlePass EXCEPT !.pc = "runs", !.todo = pass[p].todo]
<1>1. UNCHANGED <<rows, starter>> /\ faults' \subseteq BenchmarkFaults /\ PassRow(p, new)
      /\ pass[p].pc = "recording"
  BY KeepIs DEF RecordEvidence
<1>2. /\ pass[p] \in PassTypes
      /\ pass[p].todo \subseteq {q \in Run \ {Source} : run[q].status # "none"}
  BY <1>1, FinalizedIs
<1>3. new \in PassTypes /\ new.pc = "runs" /\ new.todo = pass[p].todo
  <2>1. pass[p].todo \in SUBSET Run
    BY <1>2
  <2> QED BY <2>1 DEF IdlePass, PassTypes, Comparison
<1> HIDE DEF new
<1>4. run' = run
  BY <1>1 DEF rows
<1>5. ASSUME pass'[p] = new PROVE PassKnows(p)'
  BY <1>2, <1>3, <1>4, <1>5 DEF PassKnows
<1> QED BY <1>1, <1>3, <1>5, PassReads

(* A pass finishes its run: if another did before, with the same verdict.  *)
LEMMA FinishRunKeeps ==
    ASSUME BenchmarkInv, NEW p \in Passer, FinishRun(p), NEW a, a = pass[p].cur
    PROVE  BenchmarkInv' /\ Steady
<1> DEFINE v == pass[p].verdict  todo == pass[p].todo
           new == [pass[p] EXCEPT !.pc = "comparing"]
<1>1. /\ pass[p] \in PassTypes /\ RowTypes /\ RowsGood
      /\ Finalizes(p, a) /\ v \in {"completed", "partial_failure"}
      /\ todo \subseteq {r \in Run \ {Source} : run[r].status # "none"}
  BY FinalizedIs DEF FinishRun
<1>2. /\ a \in Run \ {Source} /\ run[a].status # "none" /\ Ended(a) /\ v = Verdict(a)
  BY <1>1 DEF Finalizes
<1>3. UNCHANGED <<task, result, scores, starter>> /\ faults' \subseteq BenchmarkFaults
      /\ run' = [run EXCEPT ![a].status = v] /\ PassRow(p, new)
  BY KeepIs DEF FinishRun
<1> HIDE DEF v, todo
<1> DEFINE row == [run[a] EXCEPT !.status = v]
<1>4. run[a] \in [status : RunStatus, size : 0 .. MaxCases, good : BOOLEAN, for : Purpose]
  BY <1>1, <1>2 DEF RowTypes
<1>5. /\ row \in [status : RunStatus, size : 0 .. MaxCases, good : BOOLEAN, for : Purpose]
      /\ row.status = v /\ row.size = run[a].size /\ row.for = run[a].for
  BY <1>1, <1>4 DEF RunStatus
<1>6. run' = [run EXCEPT ![a] = row]
  BY <1>3
<1> HIDE DEF row
<1>7. /\ run' \in [Run -> [status : RunStatus, size : 0 .. MaxCases, good : BOOLEAN, for : Purpose]]
      /\ run'[a] = row /\ \A r \in Run : r # a => run'[r] = run[r]
  BY <1>1, <1>2, <1>5, <1>6 DEF RowTypes
<1>8. RowTypes'
  BY <1>1, <1>3, <1>7 DEF RowTypes
<1>9. v = "completed" <=> \A c \in 1 .. run[a].size : result[a][c] = "completed"
  BY <1>2 DEF Verdict, AllCompleted
<1>10. Steady
  <2>1. ASSUME NEW r \in Run, r # a PROVE SteadyRun(r)
    BY <1>7, <2>1 DEF SteadyRun
  <2>2. SteadyRun(a)
    <3>1. run[a].status \in {"completed", "partial_failure"} => run[a].status = v
      BY <1>1, <1>2, <1>9 DEF RowsGood, FinalizedRunsAreWhole
    <3> QED BY <1>1, <1>5, <1>7, <3>1 DEF SteadyRun
  <2>3. ASSUME NEW r \in Run, NEW c \in Case PROVE SteadyCase(r, c)
    BY <1>3 DEF SteadyCase
  <2> QED BY <2>1, <2>2, <2>3 DEF Steady
<1>11. \A r \in Run : Respected(r)
  BY <1>3 DEF Respected
<1>12. RowsGood'
  <2>1. SourceKnows'
    BY <1>1, <1>2, <1>3, <1>7, BenchmarkAssumption DEF RowsGood, RowsKnow, SourceKnows
  <2>2. ASSUME NEW r \in Run PROVE RunKnows(r)'
    BY <1>1, <1>3, <1>5, <1>7 DEF RowsGood, RowsKnow, RunKnows
  <2>3. ASSUME NEW r \in Run, NEW c \in Case PROVE CaseKnows(r, c)'
    <3>1. CaseKnows(r, c) /\ run'[r].size = run[r].size
      BY <1>1, <1>5, <1>7 DEF RowsGood, RowsKnow
    <3> QED BY <1>3, <3>1 DEF CaseKnows
  <2>4. FinalizedRunsAreWhole'
    <3> SUFFICES ASSUME NEW r \in Run, run'[r].status \in {"completed", "partial_failure"}
                 PROVE  /\ \A c \in 1 .. run'[r].size : result'[r][c] \notin {"none", "running"}
                        /\ r # Source => (run'[r].status = "completed" <=>
                              \A c \in 1 .. run'[r].size : result'[r][c] = "completed")
      BY DEF FinalizedRunsAreWhole
    <3>1. CASE r = a
      BY <1>2, <1>3, <1>5, <1>7, <1>9, <3>1 DEF Ended
    <3>2. CASE r # a
      BY <1>1, <1>3, <1>7, <3>2 DEF RowsGood, FinalizedRunsAreWhole
    <3> QED BY <3>1, <3>2
  <2>5. ScoredOnce'
    BY <1>1, <1>3 DEF RowsGood, ScoredOnce
  <2> QED BY <1>8, <2>1, <2>2, <2>3, <2>4, <2>5 DEF RowsGood, RowsKnow
<1>13. new \in PassTypes /\ new.pc = "comparing" /\ new.cur = a /\ new.verdict = v /\ new.todo = todo
  BY <1>1 DEF PassTypes, v, todo
<1> HIDE DEF new
<1>14. ASSUME pass'[p] = new PROVE PassKnows(p)'
  <2>1. Ended(a)' /\ Verdict(a)' = Verdict(a)
    BY <1>1, <1>2, <1>10, EndedKeeps
  <2>2. Finalizes(p, a)'
    BY <1>1, <1>2, <1>5, <1>7, <1>13, <1>14, <2>1 DEF Finalizes
  <2>3. todo \subseteq {r \in Run \ {Source} : run'[r].status # "none"}
    BY <1>1, <1>5, <1>7
  <2> QED BY <1>5, <1>7, <1>13, <1>14, <2>2, <2>3 DEF PassKnows
<1> QED BY <1>3, <1>10, <1>11, <1>12, <1>13, <1>14, PassMoves

-----------------------------------------------------------------------------
(* The proposal *)

ProposalTypes ==
    /\ drafts \in [Run -> Nat] /\ comparison \in [Run -> Comparison]
    /\ proposal \in ProposalRow
    /\ reviewer \in [Reviewer -> [pc : {"idle", "comparing", "deciding"},
                                  read : ProposalRow, compared : Comparison]]
    /\ requests \in Nat

LEMMA TypesAre == ProposalsTypeOK <=> RunTypes /\ ProposalTypes
BY DEF ProposalsTypeOK, RunTypes, RowTypes, ProposalTypes

LEMMA LaunchedKeeps ==
    ASSUME BenchmarkInv, Steady, NEW r \in Run, Launched(r)
    PROVE  Launched(r)' /\ run'[r].size = run[r].size
<1>1. run'[r].status # "none" /\ run'[r].size = run[r].size /\ run'[r].for = run[r].for
  BY DEF Launched, Steady, SteadyRun
<1>2. 1 .. run[r].size \subseteq Case
  BY BenchmarkAssumption DEF BenchmarkInv, RowsGood, RowTypes, Case
<1>3. \A c \in 1 .. run[r].size : result'[r][c] # "none"
  BY <1>2 DEF Launched, Steady, SteadyCase
<1> QED BY <1>1, <1>3 DEF Launched

LEMMA CompletedRunKeeps ==
    ASSUME BenchmarkInv, Steady, NEW r \in Run, r # Source, run[r].status = "completed"
    PROVE  run'[r].status = "completed" /\ CompletedCases(r)' = CompletedCases(r)
<1>1. Ended(r)
  BY DEF BenchmarkInv, RowsGood, FinalizedRunsAreWhole, Ended
<1>2. run'[r].status = "completed"
  BY DEF Steady, SteadyRun
<1> QED BY <1>1, <1>2, EndedKeeps DEF BenchmarkInv, RowsGood

LEMMA ValidatedKeeps ==
    ASSUME BenchmarkInv, Steady, NEW r \in Run, Validated(r)
    PROVE  Validated(r)'
<1>1. Launched(r) /\ run[r].status = "completed" /\ r # Source
      /\ Cardinality(CompletedCases(r)) >= run[Source].size
  BY DEF Validated, Launched
<1>2. Launched(r)' /\ run'[r].status = "completed" /\ CompletedCases(r)' = CompletedCases(r)
  BY <1>1, LaunchedKeeps, CompletedRunKeeps
<1>3. run'[Source].size = run[Source].size
  BY BenchmarkAssumption DEF BenchmarkInv, RowsGood, RowsKnow, SourceKnows, Steady, SteadyRun
<1>4. Cardinality(CompletedCases(r))' = Cardinality(CompletedCases(r))
  BY <1>2
<1> QED BY <1>1, <1>2, <1>3, <1>4 DEF Validated

LEMMA EvidenceKeeps ==
    ASSUME BenchmarkInv, Steady, NEW row \in ProposalRow, EvidenceKnows(row)
    PROVE  EvidenceKnows(row)'
<1>1. row.run \in Run \cup {None} /\ row.evidence \in Run \cup {None}
  BY DEF ProposalRow
<1>2. row.run # None => Launched(row.run)'
  BY <1>1, LaunchedKeeps DEF EvidenceKnows
<1>3. row.evidence # None => row.run # None /\ Launched(row.evidence)'
  BY <1>1, LaunchedKeeps DEF EvidenceKnows
<1>4. row.result = "completed" =>
          /\ row.evidence # None /\ run'[row.evidence].status = "completed"
          /\ row.completed = Cardinality(CompletedCases(row.evidence))'
  <2> SUFFICES ASSUME row.result = "completed"
               PROVE  /\ row.evidence # None /\ run'[row.evidence].status = "completed"
                      /\ row.completed = Cardinality(CompletedCases(row.evidence))'
    OBVIOUS
  <2>1. /\ row.evidence \in Run /\ row.evidence # Source
        /\ run[row.evidence].status = "completed"
        /\ row.completed = Cardinality(CompletedCases(row.evidence))
    BY <1>1 DEF EvidenceKnows, Launched
  <2>2. run'[row.evidence].status = "completed"
        /\ CompletedCases(row.evidence)' = CompletedCases(row.evidence)
    BY <2>1, CompletedRunKeeps
  <2> QED BY <2>1, <2>2, BenchmarkAssumption
<1> QED BY <1>2, <1>3, <1>4 DEF EvidenceKnows

(* A step that writes neither the proposal nor a review.                   *)
LEMMA ProposalKeeps ==
    ASSUME ProposalInv, BenchmarkInv', Steady, ProposalTypes', UNCHANGED <<proposal, reviewer>>
    PROVE  ProposalInv'
<1>1. ProposalTypes
  BY TypesAre DEF ProposalInv
<1>2. ProposalsTypeOK'
  BY TypesAre, PTL DEF BenchmarkInv
<1>3. ProposalKnows'
  <2>1. proposal \in ProposalRow /\ ProposalKnows
    BY <1>1 DEF ProposalTypes, ProposalInv
  <2>2. EvidenceKnows(proposal)'
    BY <2>1, EvidenceKeeps DEF ProposalInv, ProposalKnows
  <2>3. (\E r \in Run : Validated(r)) => \E r \in Run : Validated(r)'
    BY ValidatedKeeps DEF ProposalInv
  <2> QED BY <2>1, <2>2, <2>3 DEF ProposalKnows
<1>4. ASSUME NEW v \in Reviewer PROVE ReviewerKnows(v)'
  <2>1. reviewer[v].read \in ProposalRow /\ ReviewerKnows(v)
    BY <1>1 DEF ProposalTypes, ProposalInv
  <2>2. EvidenceKnows(reviewer[v].read)'
    BY <2>1, EvidenceKeeps DEF ProposalInv, ReviewerKnows
  <2> QED BY <2>1, <2>2 DEF ReviewerKnows
<1> QED BY <1>2, <1>3, <1>4 DEF ProposalInv

(* The proposal is written; the reviews keep what they read.               *)
LEMMA ProposalMoves ==
    ASSUME ProposalInv, BenchmarkInv', Steady, ProposalTypes', reviewer' = reviewer,
           ProposalKnows', proposal.evidence # None => proposal'.evidence # None
    PROVE  ProposalInv'
<1>1. ProposalTypes
  BY TypesAre DEF ProposalInv
<1>2. ProposalsTypeOK'
  BY TypesAre, PTL DEF BenchmarkInv
<1>3. ASSUME NEW v \in Reviewer PROVE ReviewerKnows(v)'
  <2>1. reviewer[v].read \in ProposalRow /\ ReviewerKnows(v)
    BY <1>1 DEF ProposalTypes, ProposalInv
  <2>2. EvidenceKnows(reviewer[v].read)'
    BY <2>1, EvidenceKeeps DEF ProposalInv, ReviewerKnows
  <2> QED BY <2>1, <2>2 DEF ReviewerKnows
<1> QED BY <1>2, <1>3 DEF ProposalInv

LEMMA EndStartKeeps ==
    ASSUME ProposalInv, NEW s \in Starter, EndStart(s)
    PROVE  ProposalInv'
<1> DEFINE r == starter[s].run
           new == [proposal EXCEPT
                       !.run = r,
                       !.impl = IF starter[s].from = "validated" THEN "validated" ELSE "in_progress"]
<1>1. BenchmarkInv /\ ProposalTypes /\ ProposalKnows
  BY TypesAre DEF ProposalInv
<1>2. starter[s].pc = "started" /\ starter' = [starter EXCEPT ![s] = IdleStarter]
      /\ UNCHANGED <<run, task, result, scores, pass, faults, drafts, comparison, reviewer, requests>>
      /\ proposal' = IF starter[s].for = None THEN proposal ELSE new
  BY DEF EndStart, NoFault, rows
<1>3. faults' \subseteq BenchmarkFaults
  BY <1>1, <1>2 DEF BenchmarkInv, RunTypes
<1>4. BenchmarkInv' /\ Steady
  BY <1>1, <1>2, <1>3, LeaveKeeps
<1>5. StarterKnows(s) /\ starter[s] \in StarterRow
  BY <1>1 DEF BenchmarkInv, RunTypes
<1>6. /\ r \in Run /\ r # None /\ r # Source /\ run[r].status # "none"
      /\ run[r].for = starter[s].for /\ starter[s].from # "validated"
      /\ \A c \in 1 .. run[r].size : result[r][c] # "none"
  <2>1. /\ r \in Run \ {Source} /\ run[r].status # "none"
        /\ run[r].for = starter[s].for /\ starter[s].from # "validated"
        /\ \A d \in 1 .. starter[s].case - 1 : result[r][d] # "none"
        /\ starter[s].case = run[r].size /\ result[r][run[r].size] # "none"
    BY <1>2, <1>5 DEF StarterKnows
  <2>2. run[r].size \in Nat
    BY <1>1, <2>1, BenchmarkAssumption DEF BenchmarkInv, RunTypes, RowTypes
  <2>3. \A c \in 1 .. run[r].size : c \in 1 .. run[r].size - 1 \/ c = run[r].size
    BY <2>2
  <2> HIDE DEF r
  <2>4. ASSUME NEW c \in 1 .. run[r].size PROVE result[r][c] # "none"
    BY <2>1, <2>3
  <2> QED BY <2>1, <2>4, BenchmarkAssumption
<1>7. CASE starter[s].for = None
  <2>1. ProposalTypes'
    BY <1>1, <1>2, <1>7 DEF ProposalTypes
  <2> QED BY <1>2, <1>4, <1>7, <2>1, ProposalKeeps
<1>8. CASE starter[s].for # None
  <2>1. Launched(r)
    BY <1>5, <1>6, <1>8 DEF Launched, StarterRow, Purpose
  <2>2. proposal \in ProposalRow
    BY <1>1 DEF ProposalTypes
  <2> HIDE DEF r
  <2>3. /\ new \in ProposalRow /\ new.run = r /\ new.impl = "in_progress"
        /\ new.status = proposal.status /\ new.evidence = proposal.evidence
        /\ new.result = proposal.result /\ new.completed = proposal.completed
    BY <1>6, <2>2 DEF ProposalRow, Implementation
  <2>4. proposal' = new
    BY <1>2, <1>8
  <2> HIDE DEF new
  <2>5. ProposalTypes'
    BY <1>1, <1>2, <2>3, <2>4 DEF ProposalTypes
  <2>6. EvidenceKnows(new)
    BY <1>1, <1>6, <2>1, <2>3 DEF ProposalKnows, EvidenceKnows
  <2>7. EvidenceKnows(proposal)'
    BY <1>1, <1>4, <2>3, <2>4, <2>6, EvidenceKeeps
  <2>8. (\E q \in Run : Validated(q)) => \E q \in Run : Validated(q)'
    BY <1>1, <1>4, ValidatedKeeps
  <2>9. ProposalKnows'
    BY <1>1, <2>3, <2>4, <2>7, <2>8 DEF ProposalKnows
  <2> QED BY <1>2, <1>4, <2>3, <2>4, <2>5, <2>9, ProposalMoves
<1> QED BY <1>7, <1>8

LEMMA CompletedCount ==
    ASSUME RowTypes, NEW r \in Run
    PROVE  Cardinality(CompletedCases(r)) \in Nat
<1> DEFINE n == run[r].size
<1>1. n \in Nat /\ n \in Int /\ 1 \in Int
  BY BenchmarkAssumption DEF RowTypes
<1>2. CompletedCases(r) \subseteq 1 .. n
  BY DEF CompletedCases
<1> HIDE DEF n
<1>3. IsFiniteSet(1 .. n)
  BY <1>1, FS_Interval
<1>4. IsFiniteSet(CompletedCases(r))
  BY <1>2, <1>3, FS_Subset
<1> QED BY <1>4, FS_CardinalityType

LEMMA RecordedIs ==
    ASSUME BenchmarkInv, proposal \in ProposalRow, NEW r \in Run, NEW status, NEW compared,
           Launched(r), status = "completed" => run[r].status = "completed",
           NEW new, new = RecordedEvidence(r, status, compared), proposal.run = r
    PROVE  /\ new \in ProposalRow /\ EvidenceKnows(new)
           /\ new.evidence = r /\ new.run = r /\ new.status = proposal.status
           /\ new.impl = "validated" => Validated(r)
<1> DEFINE n == Cardinality(CompletedCases(r))
           gate == GateOpen(status, r, compared)
           value == IF status = "completed" THEN "completed" ELSE "needs_review"
           row == [proposal EXCEPT !.evidence = r, !.result = value, !.gate = gate, !.completed = n]
           impl == IF Readiness(row, compared) THEN "validated" ELSE "in_progress"
<1>1. n \in Nat
  BY CompletedCount DEF BenchmarkInv, RowsGood
<1>2. gate \in BOOLEAN
  BY DEF GateOpen
<1>3. new = [row EXCEPT !.impl = impl]
  BY DEF RecordedEvidence
<1>4. value \in {"completed", "needs_review"} /\ (value = "completed" => run[r].status = "completed")
  OBVIOUS
<1> HIDE DEF n, gate, value
<1>5. /\ row \in ProposalRow /\ row.evidence = r /\ row.result = value /\ row.completed = n
      /\ row.run = r /\ row.status = proposal.status
  BY <1>1, <1>2, <1>4 DEF ProposalRow
<1>6. impl \in Implementation /\ (impl = "validated" => value = "completed" /\ n >= run[Source].size)
  <2>1. Readiness(row, compared) => value = "completed" /\ n >= run[Source].size
    <3> HIDE DEF row
    <3> QED BY <1>5 DEF Readiness, Covered
  <2> HIDE DEF row
  <2> QED BY <2>1 DEF Implementation
<1> HIDE DEF row, impl
<1>7. /\ new \in ProposalRow /\ new.evidence = r /\ new.result = value /\ new.completed = n
      /\ new.run = r /\ new.status = proposal.status /\ new.impl = impl
  BY <1>3, <1>5, <1>6 DEF ProposalRow
<1>8. EvidenceKnows(new)
  BY <1>4, <1>7, BenchmarkAssumption DEF EvidenceKnows, n
<1>9. new.impl = "validated" => Validated(r)
  BY <1>4, <1>6, <1>7 DEF Validated, n
<1> QED BY <1>7, <1>8, <1>9

LEMMA RecordKeeps ==
    ASSUME ProposalInv, NEW p \in Passer, RecordEvidence(p)
    PROVE  ProposalInv'
<1>1. BenchmarkInv /\ ProposalTypes /\ ProposalKnows
  BY TypesAre DEF ProposalInv
<1>2. BenchmarkInv' /\ Steady
  BY <1>1, RecordEvidenceKeeps
<1>3. UNCHANGED <<drafts, comparison, reviewer, requests>>
  BY DEF RecordEvidence
<1>4. CASE proposal.run # pass[p].cur
  <2>1. proposal' = proposal
    BY <1>4 DEF RecordEvidence, WhereRun
  <2>2. ProposalTypes'
    BY <1>1, <1>3, <2>1 DEF ProposalTypes
  <2> QED BY <1>2, <1>3, <2>1, <2>2, ProposalKeeps
<1>5. CASE proposal.run = pass[p].cur
  <2> DEFINE r == pass[p].cur  v == pass[p].verdict  compared == pass[p].compared
             new == RecordedEvidence(r, v, compared)
  <2>1. r \in Run /\ run[r].status = v /\ r # None
    BY <1>1, FinalizedIs, BenchmarkAssumption DEF RecordEvidence, Finalizes
  <2>2. Launched(r)
    BY <1>1, <1>5, <2>1 DEF ProposalKnows, EvidenceKnows
  <2>3. proposal' = new
    BY <1>5 DEF RecordEvidence, WhereRun
  <2>4. proposal \in ProposalRow
    BY <1>1 DEF ProposalTypes
  <2> HIDE DEF r, v, compared
  <2>5. /\ new \in ProposalRow /\ EvidenceKnows(new)
        /\ new.evidence = r /\ new.run = r /\ new.status = proposal.status
        /\ new.impl = "validated" => Validated(r)
    <3>1. proposal.run = r
      BY <1>5 DEF r
    <3> QED BY <1>1, <2>1, <2>2, <2>4, <3>1, RecordedIs
  <2> HIDE DEF new
  <2>6. ProposalTypes'
    BY <1>1, <1>3, <2>3, <2>5 DEF ProposalTypes
  <2>7. EvidenceKnows(proposal)'
    BY <1>1, <1>2, <2>3, <2>5, EvidenceKeeps
  <2>8. \A q \in Run : Validated(q) => Validated(q)'
    BY <1>1, <1>2, ValidatedKeeps
  <2>9. proposal.status = "implemented" \/ new.impl = "validated" => \E q \in Run : Validated(q)
    BY <1>1, <2>1, <2>5 DEF ProposalKnows
  <2>10. ProposalKnows'
    BY <2>1, <2>3, <2>5, <2>7, <2>8, <2>9 DEF ProposalKnows
  <2> QED BY <1>2, <1>3, <2>1, <2>3, <2>5, <2>6, <2>10, ProposalMoves
<1> QED BY <1>4, <1>5

(* A step of people: the runs stay.                                        *)
LEMMA RunsStay ==
    ASSUME ProposalInv, UNCHANGED runVars
    PROVE  BenchmarkInv' /\ Steady
<1>1. BenchmarkInv
  BY DEF ProposalInv
<1>2. UNCHANGED <<rows, starter, pass, faults>>
  BY DEF runVars
<1>3. RowsGood' /\ Steady
  BY <1>1, <1>2, NoRow DEF BenchmarkInv
<1>4. RunTypes'
  BY <1>1, <1>2, <1>3 DEF BenchmarkInv, RunTypes, RowsGood
<1>5. StartersApart'
  BY <1>1, <1>2 DEF BenchmarkInv, StartersApart
<1>6. UNCHANGED <<run, task, result, starter>>
  BY <1>2 DEF rows
<1>7. ASSUME NEW s \in Starter PROVE StarterKnows(s)'
  <2>1. StarterKnows(s)
    BY <1>1 DEF BenchmarkInv
  <2> QED BY <1>6, <2>1 DEF StarterKnows
<1>8. ASSUME NEW p \in Passer PROVE PassKnows(p)'
  BY <1>1, <1>2, <1>3, PassKeeps DEF BenchmarkInv, RowsGood
<1> QED BY <1>3, <1>4, <1>5, <1>7, <1>8 DEF BenchmarkInv

LEMMA RequestComparisonKeeps ==
    ASSUME ProposalInv, NEW r \in Run, RequestComparison(r)
    PROVE  ProposalInv'
<1>1. BenchmarkInv' /\ Steady
  BY RunsStay DEF RequestComparison
<1>2. ProposalTypes
  BY TypesAre DEF ProposalInv
<1>3. ProposalTypes'
  <2> DEFINE value == Recommendation(r)
  <2>1. value \in Comparison
    BY RecommendationIs
  <2>2. comparison' = [comparison EXCEPT ![r] = value] /\ requests' = requests + 1
        /\ UNCHANGED <<drafts, proposal, reviewer>>
    BY DEF RequestComparison
  <2> HIDE DEF value
  <2> QED BY <1>2, <2>1, <2>2 DEF ProposalTypes
<1> QED BY <1>1, <1>3, ProposalKeeps DEF RequestComparison

(* A step of a review that writes its own row only.                        *)
LEMMA ReviewMoves ==
    ASSUME ProposalInv, UNCHANGED <<runVars, proposal>>, ProposalTypes',
           NEW v \in Reviewer, \A w \in Reviewer \ {v} : reviewer'[w] = reviewer[w],
           \/ reviewer'[v].read = reviewer[v].read
           \/ reviewer'[v].read = proposal
    PROVE  ProposalInv'
<1>1. BenchmarkInv /\ ProposalTypes /\ ProposalKnows /\ BenchmarkInv' /\ Steady
  BY TypesAre, RunsStay DEF ProposalInv
<1>2. ProposalsTypeOK'
  BY <1>1, TypesAre, PTL DEF BenchmarkInv
<1>3. proposal \in ProposalRow /\ EvidenceKnows(proposal)
  BY <1>1 DEF ProposalTypes, ProposalKnows
<1>4. ProposalKnows'
  <2>1. EvidenceKnows(proposal)'
    BY <1>1, <1>3, EvidenceKeeps
  <2>2. (\E r \in Run : Validated(r)) => \E r \in Run : Validated(r)'
    BY <1>1, ValidatedKeeps
  <2> QED BY <1>1, <2>1, <2>2 DEF ProposalKnows
<1>5. ASSUME NEW w \in Reviewer PROVE ReviewerKnows(w)'
  <2>1. reviewer[w].read \in ProposalRow /\ ReviewerKnows(w)
    BY <1>1 DEF ProposalTypes, ProposalInv
  <2>2. CASE reviewer'[w].read = reviewer[w].read
    <3>1. EvidenceKnows(reviewer[w].read)'
      BY <1>1, <2>1, <2>2, EvidenceKeeps DEF ReviewerKnows
    <3> QED BY <2>1, <2>2, <3>1 DEF ReviewerKnows
  <2>3. CASE reviewer'[w].read = proposal
    <3>1. EvidenceKnows(reviewer[w].read)'
      BY <1>1, <1>3, <2>3, EvidenceKeeps
    <3> QED BY <2>3, <3>1 DEF ReviewerKnows
  <2> QED BY <2>2, <2>3
<1> QED BY <1>1, <1>2, <1>4, <1>5 DEF ProposalInv

LEMMA ReadForReviewKeeps ==
    ASSUME ProposalInv, NEW v \in Reviewer, ReadForReview(v)
    PROVE  ProposalInv'
<1> DEFINE new == [pc |-> "comparing", read |-> proposal, compared |-> "none"]
<1>1. ProposalTypes
  BY TypesAre DEF ProposalInv
<1>2. reviewer' = [reviewer EXCEPT ![v] = new] /\ requests' = requests + 1
      /\ UNCHANGED <<runVars, drafts, comparison, proposal>>
  BY DEF ReadForReview
<1>3. new \in [pc : {"idle", "comparing", "deciding"}, read : ProposalRow, compared : Comparison]
      /\ new.read = proposal
  BY <1>1 DEF ProposalTypes, Comparison
<1> HIDE DEF new
<1>4. ProposalTypes' /\ reviewer'[v] = new /\ \A w \in Reviewer \ {v} : reviewer'[w] = reviewer[w]
  BY <1>1, <1>2, <1>3 DEF ProposalTypes
<1> QED BY <1>2, <1>3, <1>4, ReviewMoves

LEMMA ReadComparisonKeeps ==
    ASSUME ProposalInv, NEW v \in Reviewer, ReadComparison(v)
    PROVE  ProposalInv'
<1> DEFINE r == reviewer[v].read.run
           value == IF r = None THEN "none" ELSE comparison[r]
           new == [reviewer[v] EXCEPT !.pc = "deciding", !.compared = value]
           Row == [pc : {"idle", "comparing", "deciding"}, read : ProposalRow, compared : Comparison]
<1>1. ProposalTypes
  BY TypesAre DEF ProposalInv
<1>2. reviewer[v] \in Row /\ reviewer[v].read \in ProposalRow
  BY <1>1 DEF ProposalTypes
<1>3. value \in Comparison
  BY <1>1, <1>2 DEF ProposalTypes, ProposalRow, Comparison
<1>4. reviewer' = [reviewer EXCEPT ![v] = new]
      /\ UNCHANGED <<runVars, drafts, comparison, proposal, requests>>
  <2> DEFINE mid == [reviewer EXCEPT ![v].pc = "deciding"]
  <2>1. reviewer' = [reviewer EXCEPT ![v].pc = "deciding", ![v].compared = value]
    BY DEF ReadComparison
  <2> HIDE DEF value
  <2>2. reviewer \in [Reviewer -> Row]
    BY <1>1 DEF ProposalTypes
  <2> QED BY <2>1, <2>2 DEF ReadComparison
<1> HIDE DEF value
<1>5. new \in Row /\ new.read = reviewer[v].read
  BY <1>2, <1>3
<1> HIDE DEF new
<1>6. ProposalTypes' /\ reviewer'[v] = new /\ \A w \in Reviewer \ {v} : reviewer'[w] = reviewer[w]
  BY <1>1, <1>4, <1>5 DEF ProposalTypes
<1> QED BY <1>4, <1>5, <1>6, ReviewMoves

LEMMA DraftedIs ==
    /\ Drafted \in ProposalRow /\ NoReview.read = Drafted
    /\ NoReview \in [pc : {"idle", "comparing", "deciding"}, read : ProposalRow, compared : Comparison]
    /\ EvidenceKnows(Drafted) /\ Drafted.evidence = None
<1>1. None # "completed"
  BY BenchmarkAssumption DEF CaseStatus
<1>2. Drafted \in ProposalRow
  BY DEF Drafted, ProposalRow, Status, Implementation
<1>3. EvidenceKnows(Drafted) /\ Drafted.evidence = None
  BY <1>1 DEF Drafted, EvidenceKnows
<1>4. NoReview.read = Drafted /\ NoReview.pc = "idle" /\ NoReview.compared = "none"
  BY DEF NoReview
<1>5. NoReview \in [pc : {"idle", "comparing", "deciding"}, read : ProposalRow, compared : Comparison]
  <2> HIDE DEF Drafted
  <2> QED BY <1>2 DEF NoReview, Comparison
<1> QED BY <1>2, <1>3, <1>4, <1>5

LEMMA DecideKeeps ==
    ASSUME ProposalInv, NEW v \in Reviewer, DecideReview(v)
    PROVE  ProposalInv'
<1> DEFINE read == reviewer[v].read
           ready == Readiness(read, reviewer[v].compared)
<1>1. BenchmarkInv /\ ProposalTypes /\ ProposalKnows /\ ReviewerKnows(v)
  BY TypesAre DEF ProposalInv
<1>2. UNCHANGED <<runVars, drafts, comparison, requests>> /\ reviewer' = [reviewer EXCEPT ![v] = NoReview]
  BY DEF DecideReview
<1>3. BenchmarkInv' /\ Steady
  BY <1>2, RunsStay
<1>4. read \in ProposalRow /\ proposal \in ProposalRow
  BY <1>1 DEF ProposalTypes
<1>5. ready => proposal.evidence # None /\ \E r \in Run : Validated(r)
  <2> SUFFICES ASSUME ready PROVE proposal.evidence # None /\ \E r \in Run : Validated(r)
    OBVIOUS
  <2>1. read.result = "completed" /\ read.completed >= run[Source].size
    BY DEF Readiness, Covered
  <2>2. /\ read.evidence # None /\ read.evidence \in Run /\ Launched(read.evidence)
        /\ run[read.evidence].status = "completed"
        /\ read.completed = Cardinality(CompletedCases(read.evidence))
    BY <1>1, <1>4, <2>1 DEF ReviewerKnows, EvidenceKnows, ProposalRow
  <2>3. Validated(read.evidence)
    BY <2>1, <2>2 DEF Validated
  <2> QED BY <1>1, <2>2, <2>3 DEF ReviewerKnows
<1>6. PICK status, impl :
          /\ proposal' = [proposal EXCEPT !.status = status, !.impl = impl]
          /\ status \in Status /\ impl \in Implementation
          /\ status = "implemented" \/ impl = "validated" =>
                proposal.evidence # None /\ \E r \in Run : Validated(r)
  <2>1. CASE UNCHANGED proposal
    <3>1. proposal = [proposal EXCEPT !.status = proposal.status, !.impl = proposal.impl]
          /\ proposal.status \in Status /\ proposal.impl \in Implementation
      BY <1>4 DEF ProposalRow
    <3> QED BY <1>1, <2>1, <3>1 DEF ProposalKnows
  <2>2. CASE \E ask \in Requests :
                 LET impl == IF ask[2] = None THEN ImplementationAfter(ask[1], read.impl) ELSE ask[2]
                 IN /\ AllowedTransition(ready, ask[1], impl)
                    /\ proposal' = [proposal EXCEPT !.status = ask[1], !.impl = impl]
    <3> PICK ask \in Requests :
            LET impl == IF ask[2] = None THEN ImplementationAfter(ask[1], read.impl) ELSE ask[2]
            IN /\ AllowedTransition(ready, ask[1], impl)
               /\ proposal' = [proposal EXCEPT !.status = ask[1], !.impl = impl]
      BY <2>2
    <3> DEFINE status == ask[1]
               impl == IF ask[2] = None THEN ImplementationAfter(ask[1], read.impl) ELSE ask[2]
    <3>1. status \in Status /\ ask[2] \in Implementation \cup {None}
      BY ProposalAssumption
    <3>2. read.impl \in Implementation
      BY <1>4 DEF ProposalRow
    <3>3. ImplementationAfter(ask[1], read.impl) \in Implementation
      BY <3>1, <3>2 DEF ImplementationAfter, Implementation, Status
    <3>4. impl \in Implementation
      BY <3>1, <3>3
    <3>5. AllowedTransition(ready, status, impl)
          /\ proposal' = [proposal EXCEPT !.status = status, !.impl = impl]
      OBVIOUS
    <3> HIDE DEF status, impl, ready
    <3>6. status = "implemented" \/ impl = "validated" => ready
      BY <3>5 DEF AllowedTransition
    <3> QED BY <1>5, <3>1, <3>4, <3>5, <3>6
  <2> QED BY <2>1, <2>2 DEF DecideReview
<1>7. /\ proposal' \in ProposalRow /\ proposal'.run = proposal.run
      /\ proposal'.evidence = proposal.evidence /\ proposal'.result = proposal.result
      /\ proposal'.completed = proposal.completed
      /\ proposal'.status = status /\ proposal'.impl = impl
  BY <1>4, <1>6 DEF ProposalRow
<1>8. ProposalTypes' /\ reviewer'[v] = NoReview
      /\ \A w \in Reviewer \ {v} : reviewer'[w] = reviewer[w]
  BY <1>1, <1>2, <1>7, DraftedIs DEF ProposalTypes
<1>9. ProposalKnows'
  <2>1. EvidenceKnows(proposal)'
    <3>1. EvidenceKnows(proposal)
      BY <1>1 DEF ProposalKnows
    <3>2. EvidenceKnows(proposal)' <=> \A row \in {proposal} : EvidenceKnows(row)'
      BY <1>7 DEF EvidenceKnows
    <3> QED BY <1>1, <1>3, <1>4, <3>1, <3>2, EvidenceKeeps
  <2>2. (\E r \in Run : Validated(r)) => \E r \in Run : Validated(r)'
    BY <1>1, <1>3, ValidatedKeeps
  <2> QED BY <1>6, <1>7, <2>1, <2>2 DEF ProposalKnows
<1>10. ProposalsTypeOK'
  BY <1>3, <1>8, TypesAre, PTL DEF BenchmarkInv
<1>11. ASSUME NEW w \in Reviewer PROVE ReviewerKnows(w)'
  <2>1. reviewer[w].read \in ProposalRow /\ ReviewerKnows(w)
    BY <1>1 DEF ProposalTypes, ProposalInv
  <2>2. CASE w = v
    <3>1. EvidenceKnows(Drafted)'
      BY <1>1, <1>3, DraftedIs, EvidenceKeeps
    <3> QED BY <1>8, <2>2, <3>1, DraftedIs DEF ReviewerKnows
  <2>3. CASE w # v
    <3>1. EvidenceKnows(reviewer[w].read)'
      BY <1>1, <1>3, <1>8, <2>1, <2>3, EvidenceKeeps DEF ReviewerKnows
    <3> QED BY <1>7, <1>8, <2>1, <2>3, <3>1 DEF ReviewerKnows
  <2> QED BY <2>2, <2>3
<1> QED BY <1>3, <1>9, <1>10, <1>11 DEF ProposalInv

LEMMA UnlinkedIsNew ==
    ASSUME ProposalInv, Unvalidated
    PROVE  proposal.impl # "validated" /\ proposal.impl \in Implementation
<1>1. proposal \in ProposalRow /\ ProposalKnows
  BY TypesAre DEF ProposalInv, ProposalTypes
<1> QED BY <1>1 DEF ProposalKnows, EvidenceKnows, Unvalidated, ProposalRow

LEMMA StartKeeps ==
    ASSUME ProposalInv, NEW s \in Starter, StartRun(s) \/ StartValidation(s)
    PROVE  ProposalInv'
<1>1. BenchmarkInv /\ ProposalTypes
  BY TypesAre DEF ProposalInv
<1>2. UNCHANGED <<drafts, comparison, proposal, reviewer, requests>>
  BY DEF StartRun, StartValidation, proposalVars
<1>3. starter[s].pc = "idle"
  BY DEF StartRun, StartValidation
<1>4. None # "validated" /\ None \in Purpose /\ "proposal" \in Purpose
  BY ProposalAssumption DEF Implementation, Purpose
<1>5. BenchmarkInv' /\ Steady
  <2>1. CASE StartRun(s)
    BY <1>1, <1>3, <1>4, <2>1, NewRunKeeps DEF StartRun
  <2>2. CASE StartValidation(s)
    BY <1>1, <1>3, <1>4, <2>2, UnlinkedIsNew, NewRunKeeps DEF StartValidation
  <2> QED BY <2>1, <2>2
<1>6. ProposalTypes'
  BY <1>1, <1>2 DEF ProposalTypes
<1> QED BY <1>2, <1>5, <1>6, ProposalKeeps

LEMMA RunStepKeeps ==
    ASSUME ProposalInv, UNCHANGED proposalVars,
           \/ \E s \in Starter : StarterStep(s) \/ StarterDies(s)
           \/ \E r \in Run, c \in Case : TaskEnds(r, c)
           \/ \E p \in Passer : CaseStep(p) \/ PassDies(p)
    PROVE  ProposalInv'
<1>1. BenchmarkInv /\ ProposalTypes
  BY TypesAre DEF ProposalInv
<1>2. UNCHANGED <<drafts, comparison, proposal, reviewer, requests>>
  BY DEF proposalVars
<1>3. ASSUME NEW s \in Starter, StarterStep(s) PROVE BenchmarkInv' /\ Steady
  BY <1>1, <1>3, CreateKeeps, LaunchCaseKeeps, FailCaseKeeps, InsertResultKeeps DEF StarterStep
<1>4. ASSUME NEW s \in Starter, StarterDies(s) PROVE BenchmarkInv' /\ Steady
  <2>1. faults' \subseteq BenchmarkFaults
    BY <1>1, <1>4, FaultIsOne DEF StarterDies
  <2> QED BY <1>1, <1>4, <2>1, LeaveKeeps DEF StarterDies, rows
<1>5. ASSUME NEW r \in Run, NEW c \in Case, TaskEnds(r, c) PROVE BenchmarkInv' /\ Steady
  BY <1>1, <1>5, TaskEndsKeeps
<1>6. ASSUME NEW p \in Passer, CaseStep(p) PROVE BenchmarkInv' /\ Steady
  BY <1>1, <1>6, ReadRunningKeeps, ReadTaskKeeps, WriteResultKeeps, ReadCompletedKeeps,
     BackfillKeeps, ReadActiveKeeps, ReadRunKeeps, EndPassKeeps DEF CaseStep
<1>7. ASSUME NEW p \in Passer, PassDies(p) PROVE BenchmarkInv' /\ Steady
  BY <1>1, <1>7, PassDiesKeeps
<1>8. BenchmarkInv' /\ Steady
  BY <1>3, <1>4, <1>5, <1>6, <1>7
<1>9. ProposalTypes'
  BY <1>1, <1>2 DEF ProposalTypes
<1> QED BY <1>2, <1>8, <1>9, ProposalKeeps

LEMMA FinalizeStepKeeps ==
    ASSUME ProposalInv, NEW p \in Passer, FinalizeStep(p)
    PROVE  ProposalInv'
<1>1. BenchmarkInv /\ ProposalTypes
  BY TypesAre DEF ProposalInv
<1>2. CASE WriteAnalysis(p)
  <2>1. BenchmarkInv' /\ Steady
    BY <1>1, <1>2, WriteAnalysisKeeps
  <2>2. pass[p].cur \in Run
    BY <1>1, <1>2, FinalizedIs DEF WriteAnalysis, Finalizes
  <2>3. ProposalTypes'
    BY <1>1, <1>2, <2>2 DEF WriteAnalysis, ProposalTypes
  <2> QED BY <1>2, <2>1, <2>3, ProposalKeeps DEF WriteAnalysis
<1>3. CASE FinishRun(p)
  <2>1. BenchmarkInv' /\ Steady
    BY <1>1, <1>3, FinishRunKeeps
  <2>2. UNCHANGED <<drafts, comparison, proposal, reviewer, requests>>
    BY <1>3 DEF FinishRun, proposalVars
  <2>3. ProposalTypes'
    BY <1>1, <2>2 DEF ProposalTypes
  <2> QED BY <2>1, <2>2, <2>3, ProposalKeeps
<1>4. CASE CompareRuns(p)
  <2>1. BenchmarkInv' /\ Steady
    BY <1>1, <1>4, CompareRunsKeeps
  <2>2. ProposalTypes'
    <3> DEFINE value == Recommendation(pass[p].cur)
    <3>1. value \in Comparison
      BY RecommendationIs
    <3>2. comparison' = [comparison EXCEPT ![pass[p].cur] = value] \/ comparison' = comparison
      BY <1>4 DEF CompareRuns
    <3> HIDE DEF value
    <3>3. comparison' \in [Run -> Comparison]
      BY <1>1, <3>1, <3>2 DEF ProposalTypes
    <3> QED BY <1>1, <1>4, <3>3 DEF CompareRuns, ProposalTypes
  <2> QED BY <1>4, <2>1, <2>2, ProposalKeeps DEF CompareRuns
<1> QED BY <1>2, <1>3, <1>4, RecordKeeps DEF FinalizeStep

LEMMA ProposalStep == ProposalInv /\ [ProposalsNext]_all => ProposalInv'
<1> SUFFICES ASSUME ProposalInv, [ProposalsNext]_all PROVE ProposalInv'
  OBVIOUS
<1>1. CASE UNCHANGED all
  <2>1. UNCHANGED <<runVars, drafts, comparison, proposal, reviewer, requests>>
    BY <1>1 DEF all, proposalVars
  <2>2. BenchmarkInv' /\ Steady
    BY <2>1, RunsStay
  <2>3. ProposalTypes'
    BY <2>1, TypesAre DEF ProposalInv, ProposalTypes
  <2> QED BY <2>1, <2>2, <2>3, ProposalKeeps
<1>2. ASSUME NEW s \in Starter, StartRun(s) \/ StartValidation(s) \/ LaunchProgress(s)
      PROVE  ProposalInv'
  BY <1>2, StartKeeps, RunStepKeeps, EndStartKeeps DEF LaunchProgress
<1>3. ASSUME NEW s \in Starter, StarterDies(s) /\ UNCHANGED proposalVars
      PROVE  ProposalInv'
  BY <1>3, RunStepKeeps
<1>4. ASSUME NEW r \in Run, NEW c \in Case, TaskProgress(r, c)
      PROVE  ProposalInv'
  BY <1>4, RunStepKeeps DEF TaskProgress
<1>5. ASSUME NEW p \in Passer, PassStep(p)
      PROVE  ProposalInv'
  BY <1>5, RunStepKeeps, FinalizeStepKeeps DEF PassStep
<1>6. ASSUME NEW p \in Passer, PassDies(p) /\ UNCHANGED proposalVars
      PROVE  ProposalInv'
  BY <1>6, RunStepKeeps
<1>7. ASSUME NEW r \in Run, RequestComparison(r)
      PROVE  ProposalInv'
  BY <1>7, RequestComparisonKeeps
<1>8. ASSUME NEW v \in Reviewer, ReadForReview(v) \/ ReadComparison(v) \/ DecideReview(v)
      PROVE  ProposalInv'
  BY <1>8, ReadForReviewKeeps, ReadComparisonKeeps, DecideKeeps
<1> QED BY <1>1, <1>2, <1>3, <1>4, <1>5, <1>6, <1>7, <1>8 DEF ProposalsNext

LEMMA ProposalStart == ProposalsInit => ProposalInv
<1> SUFFICES ASSUME ProposalsInit PROVE ProposalInv
  OBVIOUS
<1>1. PICK size \in Case :
          run = [r \in Run |->
              IF r = Source THEN [NoRun EXCEPT !.status = "completed", !.size = size] ELSE NoRun]
  BY DEF ProposalsInit, RunsInit
<1>2. PICK legacy \in SUBSET Case :
          task = [r \in Run |-> [c \in Case |->
              IF r = Source /\ c <= run[r].size
              THEN [status |-> "completed", clean |-> TRUE, ledger |-> c \notin legacy]
              ELSE NoTask]]
  BY DEF ProposalsInit, RunsInit
<1>3. /\ result = [r \in Run |-> [c \in Case |->
             IF r = Source /\ c <= run[r].size THEN "completed" ELSE "none"]]
      /\ scores = [r \in Run |-> [c \in Case |-> 0]]
      /\ starter = [s \in Starter |-> IdleStarter]
      /\ pass = [p \in Passer |-> IdlePass]
      /\ faults = {}
  BY DEF ProposalsInit, RunsInit
<1>4. size \in 1 .. MaxCases /\ size \in 0 .. MaxCases
  BY BenchmarkAssumption DEF Case
<1>5. /\ run \in [Run -> [status : RunStatus, size : 0 .. MaxCases, good : BOOLEAN, for : Purpose]]
      /\ run[Source].status = "completed" /\ run[Source].for = None /\ run[Source].size = size
      /\ \A r \in Run : r # Source => run[r].status = "none"
  <2>1. NoRun \in [status : RunStatus, size : 0 .. MaxCases, good : BOOLEAN, for : Purpose]
        /\ NoRun.status = "none"
    BY BenchmarkAssumption DEF NoRun, RunStatus, Purpose
  <2> DEFINE first == [NoRun EXCEPT !.status = "completed", !.size = size]
  <2>2. first \in [status : RunStatus, size : 0 .. MaxCases, good : BOOLEAN, for : Purpose]
        /\ first.status = "completed" /\ first.size = size /\ first.for = None
    BY <1>4, <2>1 DEF NoRun, RunStatus
  <2>3. run = [r \in Run |-> IF r = Source THEN first ELSE NoRun]
    BY <1>1
  <2> HIDE DEF first
  <2> QED BY <2>1, <2>2, <2>3, BenchmarkAssumption
<1>6. /\ task \in [Run -> [Case -> TaskRow]]
      /\ \A r \in Run, c \in Case : r # Source => task[r][c].status = "none"
      /\ \A r \in Run, c \in Case : task[r][c].ledger => task[r][c].status = "completed"
      /\ \A r \in Run, c \in Case : r # Source => ~ task[r][c].ledger
  <2>1. NoTask \in TaskRow /\ NoTask.status = "none" /\ NoTask.ledger = FALSE
    BY DEF NoTask, TaskRow
  <2>2. \A c \in Case : [status |-> "completed", clean |-> TRUE, ledger |-> c \notin legacy] \in TaskRow
    BY DEF TaskRow
  <2> QED BY <1>2, <2>1, <2>2
<1>7. /\ result \in [Run -> [Case -> CaseStatus]] /\ scores \in [Run -> [Case -> Nat]]
      /\ \A r \in Run, c \in Case : r # Source => result[r][c] = "none"
      /\ \A c \in Case : result[Source][c] \in {"none", "completed"}
      /\ \A c \in Case : result[Source][c] # "none" <=> c <= run[Source].size
      /\ \A r \in Run, c \in Case : scores[r][c] = 0
  BY <1>3, BenchmarkAssumption DEF CaseStatus
<1>8. RowTypes
  BY <1>5, <1>6, <1>7 DEF RowTypes
<1>9. RowsKnow
  <2>1. SourceKnows
    BY <1>5, <1>7 DEF SourceKnows
  <2>2. ASSUME NEW r \in Run PROVE RunKnows(r)
    BY <1>5, <1>6, <1>7 DEF RunKnows
  <2>3. ASSUME NEW r \in Run, NEW c \in Case PROVE CaseKnows(r, c)
    BY <1>6, <1>7 DEF CaseKnows
  <2> QED BY <2>1, <2>2, <2>3 DEF RowsKnow
<1>10. FinalizedRunsAreWhole
  <2>1. \A c \in 1 .. size : c \in Case /\ c <= size
    BY <1>4, BenchmarkAssumption DEF Case
  <2> QED BY <1>5, <1>7, <2>1 DEF FinalizedRunsAreWhole
<1>11. ScoredOnce
  BY <1>7 DEF ScoredOnce
<1>12. RunTypes
  <2>1. IdleStarter \in StarterRow
    BY BenchmarkAssumption DEF IdleStarter, StarterRow, Purpose
  <2>2. IdlePass \in PassTypes
    BY IdlePassKnows
  <2> QED BY <1>3, <1>8, <2>1, <2>2 DEF RunTypes
<1>13. /\ StartersApart /\ \A s \in Starter : StarterKnows(s)
       /\ \A p \in Passer : PassKnows(p)
  BY <1>3 DEF StartersApart, StarterKnows, PassKnows, IdleStarter, IdlePass
<1>14. BenchmarkInv
  BY <1>8, <1>9, <1>10, <1>11, <1>12, <1>13 DEF BenchmarkInv, RowsGood
<1>15. /\ drafts = [r \in Run |-> IF r = Source THEN 1 ELSE 0]
       /\ comparison = [r \in Run |-> "none"]
       /\ proposal \in {Drafted, [Drafted EXCEPT !.status = "accepted", !.impl = "planned"]}
       /\ reviewer = [v \in Reviewer |-> NoReview]
       /\ requests = 0
  BY DEF ProposalsInit
<1>16. /\ proposal \in ProposalRow /\ proposal.status # "implemented" /\ proposal.impl # "validated"
       /\ proposal.run = None /\ proposal.evidence = None /\ proposal.result # "completed"
  <2>1. None # "completed"
    BY BenchmarkAssumption DEF CaseStatus
  <2>2. CASE proposal = Drafted
    BY <2>1, <2>2 DEF Drafted, ProposalRow, Status, Implementation
  <2>3. CASE proposal = [Drafted EXCEPT !.status = "accepted", !.impl = "planned"]
    BY <2>1, <2>3 DEF Drafted, ProposalRow, Status, Implementation
  <2> QED BY <1>15, <2>2, <2>3
<1>17. ProposalTypes
  BY <1>15, <1>16, DraftedIs DEF ProposalTypes, Comparison
<1>18. ProposalKnows
  BY <1>16 DEF ProposalKnows, EvidenceKnows
<1>19. ASSUME NEW v \in Reviewer PROVE ReviewerKnows(v)
  <2>1. reviewer[v].read = Drafted
    BY <1>15, DraftedIs
  <2> QED BY <2>1, DraftedIs DEF ReviewerKnows
<1> QED BY <1>12, <1>14, <1>17, <1>18, <1>19, TypesAre DEF ProposalInv

THEOREM ProposalInvariance == ProposalsSpec => []ProposalInv
BY ProposalStart, ProposalStep, PTL DEF ProposalsSpec

(* Every row of the benchmark, proposal and review tables, and every local *)
(* of a launch, a pass and a review, keeps its type.                       *)
THEOREM ProposalsTypeCorrect == ProposalsSpec => []ProposalsTypeOK
<1>1. ProposalInv => ProposalsTypeOK
  BY DEF ProposalInv
<1> QED BY <1>1, ProposalInvariance, PTL

(* finalizeReadyBenchmarkRuns: whatever number of passes overlap, a run    *)
(* with a final status has all its results, and the status that they give. *)
THEOREM FinalizedCorrect == ProposalsSpec => []FinalizedRunsAreWhole
<1>1. ProposalInv => FinalizedRunsAreWhole
  BY DEF ProposalInv, BenchmarkInv, RowsGood
<1> QED BY <1>1, ProposalInvariance, PTL

(* backfillBenchmarkForecastScoreRows: whatever number of passes overlap,  *)
(* a ledger is scored once, and only a committed one.                      *)
THEOREM ScoredCorrect == ProposalsSpec => []ScoredOnce
<1>1. ProposalInv => ScoredOnce
  BY DEF ProposalInv, BenchmarkInv, RowsGood
<1> QED BY <1>1, ProposalInvariance, PTL

(* updateWorkflowChangeProposalStatus and the two writers that do not read *)
(* the proposal again: it is implemented, or validated, only if a run that *)
(* was launched for it is complete, however many launches, passes and      *)
(* reviews overlap.                                                        *)
THEOREM ImplementedCorrect == ProposalsSpec => []ImplementedIsValidated
<1>1. ProposalInv => ImplementedIsValidated
  <2> SUFFICES ASSUME ProposalInv, proposal.status = "implemented" \/ proposal.impl = "validated"
               PROVE  \E r \in Run :
                          /\ Validated(r)
                          /\ \/ proposal.run = r /\ proposal.evidence = r
                             \/ \E q \in Run \ {r} : Launched(q)
    BY DEF ImplementedIsValidated
  <2>1. ProposalKnows /\ proposal \in ProposalRow
    BY TypesAre DEF ProposalInv, ProposalTypes
  <2>2. PICK r \in Run : Validated(r)
    BY <2>1 DEF ProposalKnows
  <2>3. proposal.run \in Run /\ Launched(proposal.run) /\ proposal.evidence \in Run
        /\ Launched(proposal.evidence)
    BY <2>1 DEF ProposalKnows, EvidenceKnows, ProposalRow
  <2> QED BY <2>2, <2>3
<1> QED BY <1>1, ProposalInvariance, PTL
===============================================================================
