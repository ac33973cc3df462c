------------------------- MODULE RunWorkspaceProofs -------------------------
(***************************************************************************)
(* What holds of RunWorkspace for every page size, ledger and backlog: a   *)
(* connection sends every trace event once and in order, and "done" after  *)
(* all that there were when the run ended, or a whole page.                *)
(*                                                                         *)
(* The inductive invariant WorkspaceInv adds what the state tick may rely  *)
(* on between its awaits: no second tick runs, so that the events it read  *)
(* follow the last one sent, and events read with a status that is over    *)
(* are those of the end of the run, or a whole page.  LoadsBounded counts the loads under way,  *)
(* which the message "done" alone may raise above MaxLoads, once.          *)
(***************************************************************************)
EXTENDS RunWorkspace, SequenceTheorems, TLAPS

(* A tick is under way at most once, and knows where its connection is.    *)
OneTick == \A c, d \in Caller : tick[c].pc # "idle" /\ tick[d].pc # "idle" => c = d
TickKnows(c) ==
    /\ tick[c].pc \in {"events", "send"} => tick[c].from = stream.seq
    /\ tick[c].pc = "send" => tick[c].from <= tick[c].upto
    /\ tick[c].pc = "send" /\ tick[c].status \in Terminal
          => tick[c].upto >= logAtEnd \/ tick[c].upto = tick[c].from + Page
    /\ tick[c].status \in Terminal => status \in Terminal
(* Loads under way.                                                        *)
TotalLoads == loads.asked + loads.live + loads.final
LoadsBounded ==
    \/ TotalLoads <= MaxLoads
    \/ tab.source = "closed" /\ TotalLoads <= MaxLoads + 1
WorkspaceInv ==
    /\ WorkspaceTypeOK
    /\ OneTick /\ \A c \in Caller : TickKnows(c)
    /\ LoadsBounded
    /\ EachEventOnce

-----------------------------------------------------------------------------
LEMMA UptoIsInLog ==
    ASSUME log \in Nat, NEW from \in 0..log
    PROVE  Upto(from) \in 0..log /\ from <= Upto(from) /\ Upto(from) \in {log, from + Page}
BY WorkspaceAssumption DEF WorkspaceAssumption, Upto

LEMMA ReadTaskType ==
    ASSUME log \in Nat, status \in TaskStatus, NEW s \in Snapshot, NEW from \in 0..log
    PROVE  ReadTask(s, from) \in Snapshot
BY DEF ReadTask, Snapshot

LEMMA ReadEventsType ==
    ASSUME log \in Nat, NEW s \in Snapshot
    PROVE  ReadEvents(s) \in Snapshot
<1>1. s.from \in 0..log BY DEF Snapshot
<1>2. Upto(s.from) \in 0..log BY <1>1, UptoIsInLog
<1> QED BY <1>2 DEF ReadEvents, Snapshot

LEMMA NoSnapshotType == log \in Nat => NoSnapshot \in Snapshot
BY DEF NoSnapshot, Snapshot, TaskStatus

LEMMA TypesStay == UNCHANGED log => Snapshot' = Snapshot /\ MessageType' = MessageType
BY DEF Snapshot, MessageType

LEMMA LogIsNat == WorkspaceTypeOK => log \in Nat /\ 0 \in 0..log
BY WorkspaceAssumption DEF WorkspaceAssumption, WorkspaceTypeOK

(* Loads                                                                   *)
LEMMA LoadsStay ==
    ASSUME WorkspaceTypeOK, LoadsBounded, UNCHANGED loads,
           UNCHANGED tab \/ tab.source # "closed" \/ tab'.source = tab.source
    PROVE  LoadsBounded'
<1>1. TotalLoads' = TotalLoads
  BY DEF TotalLoads
<1>2. CASE UNCHANGED tab
  BY <1>1, <1>2 DEF LoadsBounded
<1>3. CASE tab.source # "closed"
  BY <1>1, <1>3 DEF LoadsBounded
<1>4. CASE tab'.source = tab.source
  BY <1>1, <1>4 DEF LoadsBounded
<1> QED BY <1>2, <1>3, <1>4

Loads(bound) == [{"asked", "live", "final"} -> 0..bound]
LEMMA LoadsAre ==
    ASSUME NEW bound \in Nat, NEW f \in [{"asked", "live", "final"} -> Int],
           f.asked >= 0, f.live >= 0, f.final >= 0, f.asked + f.live + f.final <= bound
    PROVE  f \in Loads(bound)
BY DEF Loads

LEMMA LoadsFit ==
    ASSUME WorkspaceTypeOK, LoadsBounded
    PROVE  /\ MaxLoads \in Nat \ {0} /\ MaxLoads + 1 \in Nat
           /\ loads \in [{"asked", "live", "final"} -> Int]
           /\ loads.asked \in Nat /\ loads.live \in Nat /\ loads.final \in Nat
           /\ TotalLoads \in Nat /\ TotalLoads <= MaxLoads + 1
<1>1. MaxLoads \in Nat \ {0} BY WorkspaceAssumption DEF WorkspaceAssumption
<1>2. loads.asked \in Nat /\ loads.live \in Nat /\ loads.final \in Nat
  BY <1>1 DEF WorkspaceTypeOK
<1>3. loads \in [{"asked", "live", "final"} -> Int]
  BY <1>1 DEF WorkspaceTypeOK
<1>4. TotalLoads \in Nat
  BY <1>2 DEF TotalLoads
<1>5. TotalLoads <= MaxLoads + 1
  BY <1>1, <1>4 DEF LoadsBounded
<1> QED BY <1>1, <1>2, <1>3, <1>4, <1>5

LEMMA LoadsAsked ==
    ASSUME WorkspaceTypeOK, LoadsBounded, Ask,
           FewLoads \/ (tab.source = "open" /\ tab'.source = "closed")
    PROVE  LoadsBounded' /\ loads' \in Loads(MaxLoads + 1)
<1>1. /\ loads' \in [{"asked", "live", "final"} -> Int]
      /\ loads'.asked = loads.asked + 1 /\ loads'.live = loads.live /\ loads'.final = loads.final
  BY LoadsFit DEF Ask
<1>2. TotalLoads' = TotalLoads + 1
  BY <1>1, LoadsFit DEF TotalLoads
<1>3. CASE FewLoads
  <2>1. TotalLoads + 1 <= MaxLoads
    BY <1>3, LoadsFit DEF FewLoads, TotalLoads
  <2> QED BY <1>1, <1>2, <2>1, LoadsFit, LoadsAre DEF LoadsBounded, TotalLoads
<1>4. CASE tab.source = "open" /\ tab'.source = "closed"
  <2>1. TotalLoads <= MaxLoads
    BY <1>4 DEF LoadsBounded
  <2> QED BY <1>1, <1>2, <1>4, <2>1, LoadsFit, LoadsAre DEF LoadsBounded, TotalLoads
<1> QED BY <1>3, <1>4

LEMMA LoadsAnswered ==
    ASSUME WorkspaceTypeOK, LoadsBounded, LoadIsAnswered
    PROVE  LoadsBounded' /\ loads' \in Loads(MaxLoads + 1)
<1>1. ASSUME NEW stage \in {"live", "final"},
             loads' = [loads EXCEPT !.asked = @ - 1, ![stage] = @ + 1]
      PROVE  LoadsBounded' /\ loads' \in Loads(MaxLoads + 1)
  <2>1. /\ loads' \in [{"asked", "live", "final"} -> Int]
        /\ loads'.asked = loads.asked - 1
        /\ \/ loads'.live = loads.live + 1 /\ loads'.final = loads.final
           \/ loads'.live = loads.live /\ loads'.final = loads.final + 1
    <3>1. CASE stage = "live"
      BY <1>1, <3>1, LoadsFit
    <3>2. CASE stage = "final"
      BY <1>1, <3>2, LoadsFit
    <3> QED BY <3>1, <3>2
  <2>2. loads.asked > 0 /\ UNCHANGED tab
    BY DEF LoadIsAnswered
  <2>3. TotalLoads' = TotalLoads
    BY <2>1, LoadsFit DEF TotalLoads
  <2>4. loads'.asked >= 0 /\ loads'.live >= 0 /\ loads'.final >= 0
    BY <2>1, <2>2, LoadsFit
  <2>5. loads' \in Loads(MaxLoads + 1)
    BY <2>1, <2>3, <2>4, LoadsFit, LoadsAre DEF TotalLoads
  <2> QED BY <2>2, <2>3, <2>5 DEF LoadsBounded
<1>2. Stage \in {"live", "final"}
  BY DEF Stage
<1> QED BY <1>1, <1>2 DEF LoadIsAnswered

LEMMA LoadsEnd ==
    ASSUME WorkspaceTypeOK, LoadsBounded, NEW stage \in {"live", "final"}, loads[stage] > 0,
           loads' = [loads EXCEPT ![stage] = @ - 1], tab'.source = tab.source
    PROVE  LoadsBounded' /\ loads' \in Loads(MaxLoads + 1)
<1>1. /\ loads' \in [{"asked", "live", "final"} -> Int]
      /\ loads'.asked = loads.asked
      /\ \/ loads'.live = loads.live - 1 /\ loads'.final = loads.final /\ loads.live > 0
         \/ loads'.live = loads.live /\ loads'.final = loads.final - 1 /\ loads.final > 0
  <2>1. CASE stage = "live"
    BY <2>1, LoadsFit
  <2>2. CASE stage = "final"
    BY <2>2, LoadsFit
  <2> QED BY <2>1, <2>2
<1>2. TotalLoads' = TotalLoads - 1
  BY <1>1, LoadsFit DEF TotalLoads
<1>3. loads'.asked >= 0 /\ loads'.live >= 0 /\ loads'.final >= 0
  BY <1>1, LoadsFit
<1>4. loads'.asked + loads'.live + loads'.final <= MaxLoads + 1
  BY <1>2, LoadsFit DEF TotalLoads
<1>5. loads' \in Loads(MaxLoads + 1)
  BY <1>1, <1>3, <1>4, LoadsFit, LoadsAre
<1> QED BY <1>2, <1>5, LoadsFit DEF LoadsBounded

-----------------------------------------------------------------------------
(* What is under way                                                       *)
LEMMA NothingOnce == wire' = <<>> => EachEventOnce'
BY DEF EachEventOnce

LEMMA OnceStays == EachEventOnce /\ UNCHANGED wire /\ stream'.seq = stream.seq => EachEventOnce'
BY DEF EachEventOnce, IsTrace, IsNextTrace

LEMMA OnceAppended ==
    ASSUME wire \in Seq(MessageType), EachEventOnce, stream'.seq = stream.seq,
           NEW message \in MessageType, message.kind # "trace",
           wire' = Append(wire, message)
    PROVE  EachEventOnce'
<1>1. /\ DOMAIN wire = 1..Len(wire) /\ Len(wire) \in Nat /\ DOMAIN wire' = 1..(Len(wire) + 1)
      /\ \A i \in DOMAIN wire : wire'[i] = wire[i]
      /\ wire'[Len(wire) + 1] = message
  BY AppendProperties
<1>2. \A i \in DOMAIN wire' : IsTrace(i)' => i \in DOMAIN wire /\ IsTrace(i)
  BY <1>1 DEF IsTrace
<1>3. \A i, j \in DOMAIN wire : IsNextTrace(i, j) => IsNextTrace(i, j)'
  BY <1>1, <1>2 DEF IsNextTrace, IsTrace
<1>4. SUFFICES ASSUME NEW i \in DOMAIN wire', IsTrace(i)'
      PROVE \/ wire'[i].id = stream'.seq /\ \A j \in DOMAIN wire' : i < j => ~ IsTrace(j)'
            \/ \E j \in DOMAIN wire' : IsNextTrace(i, j)' /\ wire'[j].id = wire'[i].id + 1
  BY DEF EachEventOnce
<1>5. i \in DOMAIN wire /\ IsTrace(i) /\ wire'[i] = wire[i]
  BY <1>1, <1>2, <1>4
<1>6. CASE wire[i].id = stream.seq /\ \A j \in DOMAIN wire : i < j => ~ IsTrace(j)
  BY <1>2, <1>5, <1>6
<1>7. CASE \E j \in DOMAIN wire : IsNextTrace(i, j) /\ wire[j].id = wire[i].id + 1
  BY <1>1, <1>3, <1>5, <1>7
<1> QED BY <1>5, <1>6, <1>7 DEF EachEventOnce

LEMMA OnceReceived ==
    ASSUME wire \in Seq(MessageType), EachEventOnce, stream'.seq = stream.seq,
           wire # <<>>, wire' = Tail(wire)
    PROVE  EachEventOnce'
<1>1. /\ DOMAIN wire = 1..Len(wire) /\ Len(wire) \in Nat \ {0} /\ DOMAIN wire' = 1..(Len(wire) - 1)
      /\ \A i \in DOMAIN wire' : i + 1 \in DOMAIN wire /\ wire'[i] = wire[i + 1]
  OBVIOUS
<1>2. \A i \in DOMAIN wire' : IsTrace(i)' <=> IsTrace(i + 1)
  BY <1>1 DEF IsTrace
<1>3. ASSUME NEW i \in DOMAIN wire', NEW j \in DOMAIN wire, IsNextTrace(i + 1, j)
      PROVE  j - 1 \in DOMAIN wire' /\ IsNextTrace(i, j - 1)' /\ wire'[j - 1] = wire[j]
  <2>1. i \in Nat \ {0} /\ j \in Nat \ {0} /\ i + 1 < j /\ IsTrace(j)
    BY <1>1, <1>3 DEF IsNextTrace
  <2>2. j - 1 \in DOMAIN wire' /\ (j - 1) + 1 = j /\ i < j - 1
    BY <1>1, <2>1
  <2>3. IsTrace(j - 1)' /\ wire'[j - 1] = wire[j]
    BY <1>1, <1>2, <2>1, <2>2
  <2>4. ASSUME NEW k \in DOMAIN wire', i < k, k < j - 1
        PROVE  ~ IsTrace(k)'
    <3>1. k + 1 \in DOMAIN wire /\ i + 1 < k + 1 /\ k + 1 < j
      BY <1>1, <2>1, <2>4
    <3>2. ~ IsTrace(k + 1)
      BY <1>3, <3>1 DEF IsNextTrace
    <3> QED BY <1>2, <3>2
  <2> QED BY <2>2, <2>3, <2>4 DEF IsNextTrace
<1>4. SUFFICES ASSUME NEW i \in DOMAIN wire', IsTrace(i)'
      PROVE \/ wire'[i].id = stream'.seq /\ \A j \in DOMAIN wire' : i < j => ~ IsTrace(j)'
            \/ \E j \in DOMAIN wire' : IsNextTrace(i, j)' /\ wire'[j].id = wire'[i].id + 1
  BY DEF EachEventOnce
<1>5. i + 1 \in DOMAIN wire /\ IsTrace(i + 1) /\ wire'[i] = wire[i + 1]
  BY <1>1, <1>2, <1>4
<1>6. CASE wire[i + 1].id = stream.seq /\ \A j \in DOMAIN wire : i + 1 < j => ~ IsTrace(j)
  <2>1. ASSUME NEW j \in DOMAIN wire', i < j PROVE ~ IsTrace(j)'
    <3>1. j + 1 \in DOMAIN wire /\ i + 1 < j + 1
      BY <1>1, <2>1
    <3> QED BY <1>2, <1>6, <3>1
  <2> QED BY <1>5, <1>6, <2>1
<1>7. CASE \E j \in DOMAIN wire : IsNextTrace(i + 1, j) /\ wire[j].id = wire[i + 1].id + 1
  BY <1>3, <1>5, <1>7
<1> QED BY <1>5, <1>6, <1>7 DEF EachEventOnce

-----------------------------------------------------------------------------
(* What a tick sends: a status, the events from..upto and possibly "done". *)
LEMMA TraceType ==
    ASSUME NEW from \in Nat, NEW upto \in Nat, from <= upto, log \in Nat, upto <= log
    PROVE  /\ Trace(from, upto) \in Seq(MessageType) /\ Len(Trace(from, upto)) = upto - from
           /\ \A i \in 1..(upto - from) :
                 Trace(from, upto)[i].kind = "trace" /\ Trace(from, upto)[i].id = from + i
<1>1. \A i \in 1..(upto - from) :
         /\ Message("trace", from + i, "none") \in MessageType
         /\ Message("trace", from + i, "none").kind = "trace"
         /\ Message("trace", from + i, "none").id = from + i
  BY DEF Message, MessageType
<1>2. upto - from \in Nat
  OBVIOUS
<1> QED BY <1>1, <1>2, IsASeq DEF Trace

LEMMA ConcatParts ==
    ASSUME NEW s \in Seq(MessageType), NEW t \in Seq(MessageType)
    PROVE  /\ s \o t \in Seq(MessageType) /\ Len(s \o t) = Len(s) + Len(t)
           /\ \A i \in 1..Len(s) : (s \o t)[i] = s[i]
           /\ \A i \in (Len(s) + 1)..(Len(s) + Len(t)) : (s \o t)[i] = t[i - Len(s)]
BY ConcatProperties, LenProperties

LEMMA MessagesType ==
    ASSUME log \in Nat, NEW snapshot \in Snapshot, snapshot.from <= snapshot.upto,
           NEW d \in Nat, d = snapshot.upto - snapshot.from,
           NEW sent, sent = Messages(snapshot)
    PROVE  /\ sent \in Seq(MessageType) /\ Len(sent) \in Nat /\ Len(sent) >= d + 1
           /\ \A i \in 1..Len(sent) :
                 /\ sent[i].kind = "trace" <=> i > 1 /\ i <= d + 1
                 /\ sent[i].kind = "trace" => sent[i].id = snapshot.from + (i - 1)
                 /\ sent[i].kind = "done" => IsOver(snapshot)
<1> DEFINE first == <<Message("status", snapshot.upto, snapshot.status)>>
           trace == Trace(snapshot.from, snapshot.upto)
           last == IF IsOver(snapshot) THEN <<Message("done", 0, snapshot.status)>> ELSE <<>>
           most == first \o trace
<1>1. /\ snapshot.from \in Nat /\ snapshot.upto \in Nat /\ snapshot.upto \in 0..log
      /\ snapshot.upto <= log /\ snapshot.status \in TaskStatus
  BY DEF Snapshot
<1>2. first \in Seq(MessageType) /\ Len(first) = 1 /\ first[1].kind = "status"
  <2>1. Message("status", snapshot.upto, snapshot.status) \in MessageType
        /\ Message("status", snapshot.upto, snapshot.status).kind = "status"
    BY <1>1 DEF Message, MessageType
  <2> QED BY <2>1
<1>3. /\ trace \in Seq(MessageType) /\ Len(trace) = d
      /\ \A i \in 1..d : trace[i].kind = "trace" /\ trace[i].id = snapshot.from + i
  <2>1. /\ trace \in Seq(MessageType) /\ Len(trace) = snapshot.upto - snapshot.from
        /\ \A i \in 1..(snapshot.upto - snapshot.from) :
              trace[i].kind = "trace" /\ trace[i].id = snapshot.from + i
    BY <1>1, TraceType
  <2> QED BY <2>1
<1>4. /\ last \in Seq(MessageType) /\ Len(last) \in {0, 1}
      /\ \A i \in 1..Len(last) : last[i].kind = "done"
      /\ ~ IsOver(snapshot) => Len(last) = 0
  <2>1. CASE IsOver(snapshot)
    <3>1. Message("done", 0, snapshot.status) \in MessageType
          /\ Message("done", 0, snapshot.status).kind = "done"
      BY <1>1, <2>1 DEF Message, MessageType, IsOver
    <3> QED BY <2>1, <3>1
  <2>2. CASE ~ IsOver(snapshot)
    BY <2>2
  <2> QED BY <2>1, <2>2
<1>5. sent = most \o last
  BY DEF Messages
<1> HIDE DEF first, trace, last
<1>6. /\ most \in Seq(MessageType) /\ Len(most) = d + 1
      /\ most[1] = first[1]
      /\ \A i \in 2..(d + 1) : i - 1 \in 1..d /\ most[i] = trace[i - 1]
  <2>1. /\ most \in Seq(MessageType) /\ Len(most) = 1 + d
        /\ \A i \in 1..1 : most[i] = first[i]
        /\ \A i \in (1 + 1)..(1 + d) : most[i] = trace[i - 1]
    <3>1. /\ most \in Seq(MessageType) /\ Len(most) = Len(first) + Len(trace)
          /\ \A i \in 1..Len(first) : most[i] = first[i]
          /\ \A i \in (Len(first) + 1)..(Len(first) + Len(trace)) : most[i] = trace[i - Len(first)]
      BY <1>2, <1>3, ConcatParts
    <3> HIDE DEF most
    <3> QED BY <1>2, <1>3, <3>1
  <2> HIDE DEF most
  <2> QED BY <2>1
<1> HIDE DEF most
<1>7. /\ sent \in Seq(MessageType) /\ Len(sent) = d + 1 + Len(last)
      /\ \A i \in 1..(d + 1) : sent[i] = most[i]
      /\ \A i \in ((d + 1) + 1)..((d + 1) + Len(last)) : sent[i] = last[i - (d + 1)]
  <2>1. /\ sent \in Seq(MessageType) /\ Len(sent) = Len(most) + Len(last)
        /\ \A i \in 1..Len(most) : sent[i] = most[i]
        /\ \A i \in (Len(most) + 1)..(Len(most) + Len(last)) : sent[i] = last[i - Len(most)]
    <3>1. /\ most \o last \in Seq(MessageType) /\ Len(most \o last) = Len(most) + Len(last)
          /\ \A i \in 1..Len(most) : (most \o last)[i] = most[i]
          /\ \A i \in (Len(most) + 1)..(Len(most) + Len(last)) :
                (most \o last)[i] = last[i - Len(most)]
      BY <1>4, <1>6, ConcatParts
    <3> QED BY <1>5, <3>1, Zenon
  <2> QED BY <1>4, <1>6, <2>1
<1>8. ASSUME NEW i \in 1..Len(sent)
      PROVE  /\ sent[i].kind = "trace" <=> i > 1 /\ i <= d + 1
             /\ sent[i].kind = "trace" => sent[i].id = snapshot.from + (i - 1)
             /\ sent[i].kind = "done" => IsOver(snapshot)
  <2>1. CASE i = 1
    <3>1. sent[i].kind = "status"
      BY <1>2, <1>6, <1>7, <2>1
    <3> QED BY <2>1, <3>1
  <2>2. CASE i \in 2..(d + 1)
    <3>1. sent[i] = trace[i - 1] /\ i - 1 \in 1..d
      BY <1>6, <1>7, <2>2
    <3>2. sent[i].kind = "trace" /\ sent[i].id = snapshot.from + (i - 1)
      BY <1>3, <3>1
    <3> QED BY <2>2, <3>2
  <2>3. CASE i > d + 1
    <3>1. i = d + 2 /\ Len(last) = 1 /\ i - (d + 1) = 1
      BY <1>4, <1>7, <2>3
    <3>2. sent[i] = last[1]
      BY <1>7, <3>1
    <3>3. sent[i].kind = "done" /\ IsOver(snapshot)
      BY <1>4, <3>1, <3>2
    <3> QED BY <2>3, <3>3
  <2> QED BY <1>4, <1>7, <2>1, <2>2, <2>3
<1> QED BY <1>4, <1>7, <1>8

Sent(snapshot) == wire' = wire \o Messages(snapshot)

LEMMA TickWire ==
    ASSUME WorkspaceTypeOK, NEW snapshot \in Snapshot, snapshot.from <= snapshot.upto,
           Sent(snapshot),
           NEW d \in Nat, d = snapshot.upto - snapshot.from,
           NEW n, n = Len(wire)
    PROVE  /\ wire' \in Seq(MessageType) /\ n \in Nat /\ Len(wire') \in Nat /\ Len(wire') >= n + d + 1
           /\ \A i \in 1..n : wire'[i] = wire[i]
           /\ \A i \in (n + 1)..Len(wire') :
                 /\ wire'[i].kind = "trace" <=> i > n + 1 /\ i <= n + d + 1
                 /\ wire'[i].kind = "trace" => wire'[i].id = snapshot.from + (i - (n + 1))
                 /\ wire'[i].kind = "done" => IsOver(snapshot)
<1>1. log \in Nat /\ wire \in Seq(MessageType) /\ n \in Nat
  BY LogIsNat DEF WorkspaceTypeOK
<1>2. PICK sent : sent = Messages(snapshot)
  OBVIOUS
<1>3. /\ sent \in Seq(MessageType) /\ Len(sent) \in Nat /\ Len(sent) >= d + 1
      /\ \A i \in 1..Len(sent) :
            /\ sent[i].kind = "trace" <=> i > 1 /\ i <= d + 1
            /\ sent[i].kind = "trace" => sent[i].id = snapshot.from + (i - 1)
            /\ sent[i].kind = "done" => IsOver(snapshot)
  BY <1>1, <1>2, MessagesType
<1>4. /\ wire \o sent \in Seq(MessageType) /\ Len(wire \o sent) = n + Len(sent)
      /\ \A i \in 1..n : (wire \o sent)[i] = wire[i]
      /\ \A i \in (n + 1)..(n + Len(sent)) : (wire \o sent)[i] = sent[i - n]
  BY <1>1, <1>3, ConcatParts
<1>5. wire' = wire \o sent
  BY <1>2 DEF Sent
<1>6. /\ wire' \in Seq(MessageType) /\ Len(wire') = n + Len(sent)
      /\ \A i \in 1..n : wire'[i] = wire[i]
      /\ \A i \in (n + 1)..(n + Len(sent)) : wire'[i] = sent[i - n]
  BY <1>4, <1>5, Zenon
<1>7. ASSUME NEW i \in (n + 1)..Len(wire')
      PROVE  /\ wire'[i].kind = "trace" <=> i > n + 1 /\ i <= n + d + 1
             /\ wire'[i].kind = "trace" => wire'[i].id = snapshot.from + (i - (n + 1))
             /\ wire'[i].kind = "done" => IsOver(snapshot)
  <2>1. wire'[i] = sent[i - n] /\ i - n \in 1..Len(sent) /\ i \in Nat
    <3>1. i \in (n + 1)..(n + Len(sent)) /\ i \in Nat
      BY <1>1, <1>3, <1>6
    <3> QED BY <1>1, <1>3, <1>6, <3>1
  <2>2. /\ i - n > 1 <=> i > n + 1
        /\ i - n <= d + 1 <=> i <= n + d + 1
        /\ (i - n) - 1 = i - (n + 1)
    BY <1>1, <2>1
  <2>3. /\ sent[i - n].kind = "trace" <=> i - n > 1 /\ i - n <= d + 1
        /\ sent[i - n].kind = "trace" => sent[i - n].id = snapshot.from + ((i - n) - 1)
        /\ sent[i - n].kind = "done" => IsOver(snapshot)
    BY <1>3, <2>1
  <2> QED BY <2>1, <2>2, <2>3
<1>8. Len(wire') \in Nat /\ Len(wire') >= n + d + 1
  BY <1>1, <1>3, <1>6
<1> QED BY <1>1, <1>6, <1>7, <1>8

LEMMA OnceSent ==
    ASSUME WorkspaceTypeOK, EachEventOnce, NEW snapshot \in Snapshot,
           snapshot.from = stream.seq, snapshot.from <= snapshot.upto,
           stream'.seq = snapshot.upto,
           Sent(snapshot)
    PROVE  EachEventOnce'
<1>0. PICK n, d : n = Len(wire) /\ d = snapshot.upto - snapshot.from
  OBVIOUS
<1>1. /\ log \in Nat /\ snapshot.from \in Nat /\ snapshot.upto \in Nat
      /\ wire \in Seq(MessageType) /\ n \in Nat /\ d \in Nat
      /\ DOMAIN wire = 1..n /\ snapshot.from + d = snapshot.upto
  BY <1>0, LogIsNat DEF WorkspaceTypeOK, Snapshot
<1>2. /\ wire' \in Seq(MessageType) /\ Len(wire') \in Nat /\ Len(wire') >= n + d + 1
      /\ \A i \in 1..n : wire'[i] = wire[i]
      /\ \A i \in (n + 1)..Len(wire') :
            /\ wire'[i].kind = "trace" <=> i > n + 1 /\ i <= n + d + 1
            /\ wire'[i].kind = "trace" => wire'[i].id = snapshot.from + (i - (n + 1))
  <2>1. /\ wire' \in Seq(MessageType) /\ n \in Nat /\ Len(wire') \in Nat /\ Len(wire') >= n + d + 1
        /\ \A i \in 1..n : wire'[i] = wire[i]
        /\ \A i \in (n + 1)..Len(wire') :
              /\ wire'[i].kind = "trace" <=> i > n + 1 /\ i <= n + d + 1
              /\ wire'[i].kind = "trace" => wire'[i].id = snapshot.from + (i - (n + 1))
              /\ wire'[i].kind = "done" => IsOver(snapshot)
    <3>1. n = Len(wire) /\ d \in Nat /\ d = snapshot.upto - snapshot.from
      BY <1>0, <1>1
    <3> QED BY <3>1, TickWire
  <2> QED BY <2>1, Zenon
<1>3. DOMAIN wire' = 1..Len(wire')
  BY <1>2
<1>4. \A i \in 1..n : i \in DOMAIN wire' /\ (IsTrace(i)' <=> IsTrace(i))
  BY <1>1, <1>2, <1>3 DEF IsTrace
<1>5. \A i \in DOMAIN wire' : i > n => (IsTrace(i)' <=> i > n + 1 /\ i <= n + d + 1)
  BY <1>1, <1>2, <1>3 DEF IsTrace
<1>6. \A i \in DOMAIN wire' : i > n /\ IsTrace(i)' => wire'[i].id = snapshot.from + (i - (n + 1))
  BY <1>1, <1>2, <1>3 DEF IsTrace
<1>7. ASSUME NEW i \in 1..n, IsTrace(i), \A j \in DOMAIN wire : i < j => ~ IsTrace(j), d # 0
      PROVE  IsNextTrace(i, n + 2)' /\ n + 2 \in DOMAIN wire' /\ wire'[n + 2].id = snapshot.from + 1
  <2> DEFINE e == n + 2
  <2>1. e \in DOMAIN wire' /\ e > n + 1 /\ e <= n + d + 1 /\ e - (n + 1) = 1 /\ i < e /\ e > n
    BY <1>1, <1>2, <1>3, <1>7
  <2> HIDE DEF e
  <2>2. IsTrace(e)' /\ wire'[e].id = snapshot.from + 1
    BY <1>5, <1>6, <2>1
  <2>3. ASSUME NEW k \in DOMAIN wire', i < k, k < e PROVE ~ IsTrace(k)'
    <3>1. CASE k <= n
      <4>1. k \in 1..n
        BY <1>1, <1>2, <1>3, <3>1
      <4> QED BY <1>1, <1>4, <1>7, <2>3, <4>1
    <3>2. CASE k > n
      <4>1. ~ (k > n + 1)
        BY <1>1, <1>2, <1>3, <2>3, <3>2 DEF e
      <4> QED BY <1>5, <3>2, <4>1
    <3> QED BY <1>1, <1>2, <1>3, <3>1, <3>2
  <2>4. IsNextTrace(i, e)'
    BY <2>1, <2>2, <2>3 DEF IsNextTrace
  <2> QED BY <2>1, <2>2, <2>4 DEF e
<1>8. SUFFICES ASSUME NEW i \in DOMAIN wire', IsTrace(i)'
      PROVE \/ wire'[i].id = stream'.seq /\ \A j \in DOMAIN wire' : i < j => ~ IsTrace(j)'
            \/ \E j \in DOMAIN wire' : IsNextTrace(i, j)' /\ wire'[j].id = wire'[i].id + 1
  BY DEF EachEventOnce
<1>9. i \in Nat /\ i >= 1 /\ i <= Len(wire')
  BY <1>2, <1>3
<1>10. CASE i > n
  <2>1. /\ i > n + 1 /\ i <= n + d + 1
        /\ wire'[i].id = snapshot.from + (i - (n + 1))
    BY <1>5, <1>6, <1>8, <1>10
  <2>2. CASE i = n + d + 1
    <3>1. wire'[i].id = stream'.seq
      BY <1>1, <1>9, <2>1, <2>2
    <3>2. ASSUME NEW j \in DOMAIN wire', i < j PROVE ~ IsTrace(j)'
      <4>1. j > n /\ ~ (j <= n + d + 1)
        BY <1>1, <1>2, <1>3, <1>9, <2>2, <3>2
      <4> QED BY <1>5, <4>1
    <3> QED BY <3>1, <3>2
  <2>3. CASE i # n + d + 1
    <3> DEFINE e == i + 1
    <3>1. /\ e \in DOMAIN wire' /\ e > n + 1 /\ e > n /\ e <= n + d + 1
          /\ e - (n + 1) = (i - (n + 1)) + 1 /\ i < e
      <4>1. Len(wire') \in Nat /\ n + d + 1 <= Len(wire')
        BY <1>1, <1>2
      <4>2. e \in 1..Len(wire') /\ e > n + 1 /\ e > n /\ e <= n + d + 1 /\ i < e
        <5>1. i < n + d + 1
          BY <1>1, <1>9, <2>1, <2>3
        <5>2. i + 1 <= n + d + 1 /\ i + 1 > n + 1 /\ i + 1 > n /\ i + 1 \in Nat
          BY <1>1, <1>9, <2>1, <5>1
        <5> QED BY <1>1, <1>9, <4>1, <5>2
      <4>3. e - (n + 1) = (i - (n + 1)) + 1
        BY <1>1, <1>9
      <4> QED BY <1>3, <4>2, <4>3
    <3>2. \A k \in DOMAIN wire' : ~ (i < k /\ k < e)
      BY <1>2, <1>3, <1>9
    <3> HIDE DEF e
    <3>3. IsTrace(e)' /\ wire'[e].id = snapshot.from + (e - (n + 1))
      BY <1>5, <1>6, <3>1
    <3>4. i - (n + 1) \in Int
      BY <1>1, <1>9
    <3>5. wire'[e].id = wire'[i].id + 1
      <4>1. wire'[e].id = snapshot.from + ((i - (n + 1)) + 1)
        BY <3>1, <3>3
      <4> QED BY <1>1, <2>1, <3>4, <4>1
    <3>6. IsNextTrace(i, e)'
      BY <3>1, <3>2, <3>3 DEF IsNextTrace
    <3> QED BY <3>1, <3>5, <3>6
  <2> QED BY <2>2, <2>3
<1>11. CASE i <= n
  <2>1. i \in 1..n /\ i \in DOMAIN wire /\ IsTrace(i) /\ wire'[i] = wire[i]
    BY <1>1, <1>2, <1>4, <1>8, <1>9, <1>11
  <2>2. CASE wire[i].id = stream.seq /\ \A j \in DOMAIN wire : i < j => ~ IsTrace(j)
    <3>1. CASE d # 0
      BY <1>7, <2>1, <2>2, <3>1
    <3>2. CASE d = 0
      <4>1. wire'[i].id = stream'.seq
        BY <1>1, <2>1, <2>2, <3>2
      <4>2. ASSUME NEW j \in DOMAIN wire', i < j PROVE ~ IsTrace(j)'
        <5>1. CASE j <= n
          <6>1. j \in 1..n
            BY <1>1, <1>2, <1>3, <5>1
          <6> QED BY <1>1, <1>4, <2>2, <4>2, <6>1
        <5>2. CASE j > n
          <6>1. ~ (j > n + 1 /\ j <= n + d + 1)
            BY <1>1, <1>2, <1>3, <3>2
          <6> QED BY <1>5, <5>2, <6>1
        <5> QED BY <1>1, <1>2, <1>3, <5>1, <5>2
      <4> QED BY <4>1, <4>2
    <3> QED BY <3>1, <3>2
  <2>3. CASE \E j \in DOMAIN wire : IsNextTrace(i, j) /\ wire[j].id = wire[i].id + 1
    <3>1. PICK j \in 1..n : IsNextTrace(i, j) /\ wire[j].id = wire[i].id + 1
      BY <1>1, <2>3
    <3>2. j \in DOMAIN wire' /\ i < j /\ IsTrace(j)' /\ wire'[j] = wire[j]
      BY <1>2, <1>4, <3>1 DEF IsNextTrace
    <3>3. ASSUME NEW k \in DOMAIN wire', i < k, k < j PROVE ~ IsTrace(k)'
      <4>1. k \in 1..n
        BY <1>1, <1>2, <1>3, <3>1, <3>3
      <4>2. ~ IsTrace(k)
        BY <1>1, <3>1, <3>3, <4>1 DEF IsNextTrace
      <4> QED BY <1>4, <4>1, <4>2
    <3>4. IsNextTrace(i, j)'
      BY <3>2, <3>3 DEF IsNextTrace
    <3> QED BY <2>1, <3>1, <3>2, <3>4
  <2> QED BY <2>1, <2>2, <2>3 DEF EachEventOnce
<1> QED BY <1>1, <1>9, <1>10, <1>11

-----------------------------------------------------------------------------
(* Ticks                                                                   *)
TicksKnow == OneTick /\ \A c \in Caller : TickKnows(c)

LEMMA TicksStay ==
    ASSUME TicksKnow, UNCHANGED <<tick, logAtEnd, status>>, stream'.seq = stream.seq
    PROVE  TicksKnow'
BY DEF TicksKnow, OneTick, TickKnows

LEMMA TicksEnd == tick' = NoTicks => TicksKnow' /\ (log \in Nat => tick' \in [Caller -> Snapshot])
<1>1. SUFFICES ASSUME tick' = NoTicks PROVE TicksKnow' /\ (log \in Nat => tick' \in [Caller -> Snapshot])
  OBVIOUS
<1>2. \A c \in Caller : tick'[c] = NoSnapshot
  BY <1>1 DEF NoTicks
<1>3. OneTick' /\ \A c \in Caller : TickKnows(c)'
  BY <1>2 DEF OneTick, TickKnows, NoSnapshot, Terminal
<1>4. log \in Nat => tick' \in [Caller -> Snapshot]
  BY <1>1, NoSnapshotType DEF NoTicks
<1> QED BY <1>3, <1>4 DEF TicksKnow

LEMMA TickBegins ==
    ASSUME WorkspaceTypeOK, TicksKnow, NEW c \in Caller, tick' = Begin(c),
           UNCHANGED <<log, logAtEnd, status>>, stream'.seq = stream.seq
    PROVE  TicksKnow' /\ tick' \in [Caller -> Snapshot]
<1>1. tick \in [Caller -> Snapshot]
  BY DEF WorkspaceTypeOK
<1>2. CASE Ticking
  BY <1>1, <1>2, TicksStay DEF Begin
<1>3. CASE ~ Ticking
  <2>1. tick' = [tick EXCEPT ![c].pc = "reconcile"] /\ \A d \in Caller : tick[d].pc = "idle"
    BY <1>3 DEF Begin, Ticking
  <2>2. /\ tick'[c].pc = "reconcile" /\ tick'[c].status = tick[c].status
        /\ tick' \in [Caller -> Snapshot]
        /\ \A d \in Caller : d # c => tick'[d] = tick[d]
    BY <1>1, <2>1 DEF Snapshot
  <2>3. OneTick'
    BY <2>1, <2>2 DEF OneTick
  <2>4. \A d \in Caller : TickKnows(d)'
    BY <2>1, <2>2 DEF TicksKnow, TickKnows
  <2> QED BY <2>2, <2>3, <2>4 DEF TicksKnow
<1> QED BY <1>2, <1>3

LEMMA TickReadsKnow ==
    ASSUME WorkspaceTypeOK, TicksKnow, NEW c \in Caller, TickReads(c)
    PROVE  TicksKnow' /\ tick' \in [Caller -> Snapshot]
<1>1. /\ tick \in [Caller -> Snapshot] /\ log \in Nat /\ status \in TaskStatus
      /\ stream.seq \in 0..log /\ logAtEnd \in 0..log
  BY LogIsNat DEF WorkspaceTypeOK
<1>2. UNCHANGED <<status, log, logAtEnd, stream>>
  BY DEF TickReads
<1>3. ASSUME NEW s \in Snapshot, tick' = [tick EXCEPT ![c] = s], tick[c].pc # "idle",
             s.pc \in {"events", "send"} => s.from = stream.seq,
             s.pc = "send" => s.from <= s.upto,
             s.pc = "send" /\ s.status \in Terminal
                => s.upto >= logAtEnd \/ s.upto = s.from + Page,
             s.status \in Terminal => status \in Terminal
      PROVE  TicksKnow' /\ tick' \in [Caller -> Snapshot]
  <2>1. /\ tick' \in [Caller -> Snapshot] /\ tick'[c] = s
        /\ \A d \in Caller : d # c => tick'[d] = tick[d] /\ tick[d].pc = "idle"
    BY <1>1, <1>3 DEF TicksKnow, OneTick
  <2>2. OneTick'
    BY <2>1 DEF OneTick
  <2>3. \A d \in Caller : d # c => TickKnows(d)'
    BY <1>2, <2>1 DEF TicksKnow, TickKnows
  <2>4. TickKnows(c)'
    BY <1>2, <1>3, <2>1 DEF TickKnows
  <2> QED BY <2>1, <2>2, <2>3, <2>4 DEF TicksKnow
<1>4. TickKnows(c) /\ tick[c] \in Snapshot /\ tick[c].pc \in {"reconcile", "task", "events"}
  BY <1>1 DEF TicksKnow, TickReads
<1>5. CASE tick[c].pc = "reconcile"
  <2> DEFINE s == [tick[c] EXCEPT !.pc = "task"]
  <2>1. tick' = [tick EXCEPT ![c] = s]
    BY <1>5 DEF TickReads
  <2>2. s \in Snapshot /\ s.pc = "task" /\ s.status = tick[c].status
    BY <1>4 DEF Snapshot
  <2> HIDE DEF s
  <2> QED BY <1>3, <1>4, <1>5, <2>1, <2>2 DEF TickKnows
<1>6. CASE tick[c].pc = "task"
  <2> DEFINE s == ReadTask(tick[c], stream.seq)
  <2>1. tick' = [tick EXCEPT ![c] = s]
    BY <1>6 DEF TickReads
  <2>2. s \in Snapshot
    BY <1>1, <1>4, ReadTaskType
  <2>3. s.pc = "events" /\ s.status = status /\ s.from = stream.seq
    BY <1>4 DEF ReadTask, Snapshot
  <2> HIDE DEF s
  <2> QED BY <1>3, <1>4, <1>6, <2>1, <2>2, <2>3
<1>7. CASE tick[c].pc = "events"
  <2> DEFINE s == ReadEvents(tick[c])
  <2>1. tick' = [tick EXCEPT ![c] = s]
    BY <1>7 DEF TickReads
  <2>2. s \in Snapshot
    BY <1>1, <1>4, ReadEventsType
  <2>3. /\ s.pc = "send" /\ s.status = tick[c].status /\ s.from = tick[c].from
        /\ s.upto = Upto(s.from)
    BY <1>4 DEF ReadEvents, Snapshot
  <2> HIDE DEF s
  <2>4. s.from <= s.upto /\ (s.upto >= logAtEnd \/ s.upto = s.from + Page)
    <3>1. s.from \in 0..log
      BY <2>2 DEF Snapshot
    <3>2. s.from <= Upto(s.from) /\ Upto(s.from) \in {log, s.from + Page}
      BY <1>1, <3>1, UptoIsInLog
    <3>3. CASE Upto(s.from) = log
      BY <1>1, <2>3, <3>2, <3>3
    <3>4. CASE Upto(s.from) = s.from + Page
      BY <2>3, <3>2, <3>4
    <3> QED BY <3>2, <3>3, <3>4
  <2> QED BY <1>3, <1>4, <1>7, <2>1, <2>2, <2>3, <2>4 DEF TickKnows
<1> QED BY <1>4, <1>5, <1>6, <1>7

(* A tick that sends "done" has brought all events of the end, or a page.  *)
LEMMA TickSendsKnow ==
    ASSUME WorkspaceTypeOK, TicksKnow, EachEventOnce, NEW c \in Caller, TickSends(c)
    PROVE  /\ TicksKnow' /\ EachEventOnce'
           /\ stream' \in [open : BOOLEAN, seq : 0..log, init : Snapshot]
           /\ tick' \in [Caller -> Snapshot]
           /\ wire' \in Seq(MessageType)
           /\ (\E i \in DOMAIN wire' : i \notin DOMAIN wire /\ wire'[i].kind = "done")
                 => stream'.seq >= logAtEnd \/ stream'.seq = stream.seq + Page
           /\ \A i \in DOMAIN wire : wire'[i] = wire[i]
<1>1. /\ tick[c] \in Snapshot /\ tick[c].pc = "send" /\ TickKnows(c) /\ log \in Nat
      /\ stream \in [open : BOOLEAN, seq : 0..log, init : Snapshot]
      /\ tick \in [Caller -> Snapshot] /\ wire \in Seq(MessageType)
  BY LogIsNat DEF WorkspaceTypeOK, TickSends, TicksKnow
<1>2. PICK snapshot : snapshot = tick[c]
  OBVIOUS
<1>3. /\ snapshot \in Snapshot /\ snapshot.from = stream.seq /\ snapshot.from <= snapshot.upto
      /\ snapshot.from \in Nat /\ snapshot.upto \in 0..log
  BY <1>1, <1>2 DEF TickKnows, Snapshot
<1>4. Sent(snapshot)
  BY <1>2 DEF TickSends, Sent
<1>5. /\ IF IsOver(snapshot)
         THEN stream' = [NoStream EXCEPT !.seq = snapshot.upto] /\ tick' = NoTicks
         ELSE /\ stream' = [stream EXCEPT !.seq = snapshot.upto]
              /\ tick' = [tick EXCEPT ![c] = NoSnapshot]
      /\ UNCHANGED <<status, log, logAtEnd>>
  BY <1>2 DEF TickSends
<1>6. stream'.seq = snapshot.upto /\ stream' \in [open : BOOLEAN, seq : 0..log, init : Snapshot]
  BY <1>1, <1>3, <1>5, NoSnapshotType DEF NoStream
<1>7. EachEventOnce'
  BY <1>3, <1>4, <1>6, OnceSent
<1>8. PICK n, d : n = Len(wire) /\ d = snapshot.upto - snapshot.from /\ d \in Nat /\ n \in Nat
  BY <1>1, <1>3
<1>9. /\ wire' \in Seq(MessageType) /\ n \in Nat /\ Len(wire') \in Nat /\ Len(wire') >= n + d + 1
      /\ \A i \in 1..n : wire'[i] = wire[i]
      /\ \A i \in (n + 1)..Len(wire') :
            /\ wire'[i].kind = "trace" <=> i > n + 1 /\ i <= n + d + 1
            /\ wire'[i].kind = "trace" => wire'[i].id = snapshot.from + (i - (n + 1))
            /\ wire'[i].kind = "done" => IsOver(snapshot)
  <2>1. snapshot \in Snapshot /\ snapshot.from <= snapshot.upto
    BY <1>3
  <2>2. d \in Nat /\ d = snapshot.upto - snapshot.from /\ n = Len(wire)
    BY <1>8
  <2> QED BY <2>1, <2>2, <1>4, TickWire
<1>10. DOMAIN wire = 1..n /\ DOMAIN wire' = 1..Len(wire')
  BY <1>1, <1>8, <1>9
<1>11. IsOver(snapshot) => snapshot.upto >= logAtEnd \/ snapshot.upto = stream.seq + Page
  BY <1>1, <1>2, <1>3 DEF TickKnows, IsOver
<1>12. (\E i \in DOMAIN wire' : i \notin DOMAIN wire /\ wire'[i].kind = "done")
          => stream'.seq >= logAtEnd \/ stream'.seq = stream.seq + Page
  BY <1>11, <1>6, <1>8, <1>9, <1>10
<1>13. TicksKnow' /\ tick' \in [Caller -> Snapshot]
  <2>1. CASE IsOver(snapshot)
    BY <1>1, <1>5, <2>1, TicksEnd
  <2>2. CASE ~ IsOver(snapshot)
    <3>1. /\ tick' \in [Caller -> Snapshot]
          /\ tick'[c] = NoSnapshot /\ \A e \in Caller : e # c => tick'[e] = tick[e]
      BY <1>1, <1>5, <2>2, NoSnapshotType
    <3>2. \A e \in Caller : tick'[e].pc = "idle"
      BY <1>1, <3>1 DEF TicksKnow, OneTick, NoSnapshot
    <3>3. \A e \in Caller : tick'[e].status \in Terminal => status' \in Terminal
      BY <1>5, <3>1 DEF TicksKnow, TickKnows, NoSnapshot, Terminal
    <3>4. \A e \in Caller : TickKnows(e)'
      BY <3>2, <3>3 DEF TickKnows
    <3> QED BY <3>1, <3>2, <3>4 DEF TicksKnow, OneTick
  <2> QED BY <2>1, <2>2
<1>14. \A i \in DOMAIN wire : wire'[i] = wire[i]
  BY <1>9, <1>10
<1> QED BY <1>6, <1>7, <1>9, <1>12, <1>13, <1>14

-----------------------------------------------------------------------------
LEMMA InitInv == WorkspaceInit => WorkspaceInv
<1> SUFFICES ASSUME WorkspaceInit PROVE WorkspaceInv
  OBVIOUS
<1>1. log \in Nat /\ 0 \in 0..log /\ NoSnapshot \in Snapshot
  BY NoSnapshotType DEF WorkspaceInit
<1>2. WorkspaceTypeOK
  <2>1. stream \in [open : BOOLEAN, seq : 0..log, init : Snapshot] /\ tick \in [Caller -> Snapshot]
    BY <1>1 DEF WorkspaceInit, NoStream, NoTicks
  <2>2. loads \in [{"asked", "live", "final"} -> 0..(MaxLoads + 1)]
    BY WorkspaceAssumption DEF WorkspaceInit, WorkspaceAssumption
  <2>3. /\ wire \in Seq(MessageType) /\ status \in TaskStatus
        /\ log \in {1, 1 + LedgerEvents} /\ logAtEnd \in 0..log
    BY DEF WorkspaceInit, TaskStatus
  <2>4. tab \in [source : {"connecting", "open", "closed"}, lastId : 0..log,
                status : TaskStatus \cup {"connecting"}, connected : BOOLEAN,
                timer : BOOLEAN, shown : {"none", "live", "final"}]
    BY <1>1 DEF WorkspaceInit
  <2> QED BY <2>1, <2>2, <2>3, <2>4 DEF WorkspaceTypeOK, WorkspaceInit
<1>3. OneTick /\ \A c \in Caller : TickKnows(c)
  <2>1. \A c \in Caller : tick[c] = NoSnapshot
    BY DEF WorkspaceInit, NoTicks
  <2> QED BY <2>1 DEF OneTick, TickKnows, NoSnapshot, Terminal
<1>4. LoadsBounded
  BY WorkspaceAssumption DEF WorkspaceInit, WorkspaceAssumption, LoadsBounded, TotalLoads
<1>5. EachEventOnce
  BY DEF WorkspaceInit, EachEventOnce
<1> QED BY <1>2, <1>3, <1>4, <1>5 DEF WorkspaceInv

StreamType == [open : BOOLEAN, seq : 0..log, init : Snapshot]
TabType == [source : {"connecting", "open", "closed"}, lastId : 0..log,
            status : TaskStatus \cup {"connecting"}, connected : BOOLEAN,
            timer : BOOLEAN, shown : {"none", "live", "final"}]
LEMMA InvParts ==
    WorkspaceInv <=>
        /\ status \in TaskStatus /\ log \in {1, 1 + LedgerEvents} /\ logAtEnd \in 0..log
        /\ stream \in StreamType /\ tick \in [Caller -> Snapshot]
        /\ wire \in Seq(MessageType) /\ tab \in TabType
        /\ loads \in Loads(MaxLoads + 1) /\ faults \subseteq Faults
        /\ TicksKnow /\ LoadsBounded /\ EachEventOnce
BY DEF WorkspaceInv, WorkspaceTypeOK, StreamType, TabType, Loads, TicksKnow

LEMMA TypesSame == UNCHANGED log => StreamType' = StreamType /\ TabType' = TabType
BY TypesStay DEF StreamType, TabType

LEMMA InvFacts ==
    WorkspaceInv =>
        /\ status \in TaskStatus /\ log \in {1, 1 + LedgerEvents} /\ logAtEnd \in 0..log
        /\ stream \in StreamType /\ tick \in [Caller -> Snapshot]
        /\ wire \in Seq(MessageType) /\ tab \in TabType
        /\ loads \in Loads(MaxLoads + 1) /\ faults \subseteq Faults
        /\ TicksKnow /\ LoadsBounded /\ EachEventOnce
        /\ WorkspaceTypeOK /\ log \in Nat /\ 0 \in 0..log /\ NoSnapshot \in Snapshot
BY InvParts, LogIsNat, NoSnapshotType DEF WorkspaceInv

(* What a step that leaves log as it is has to show.                       *)
LEMMA InvOf ==
    ASSUME UNCHANGED log, WorkspaceInv,
           status' \in TaskStatus, stream' \in StreamType, tick' \in [Caller -> Snapshot],
           wire' \in Seq(MessageType), tab' \in TabType, loads' \in Loads(MaxLoads + 1),
           faults' \subseteq Faults, TicksKnow', LoadsBounded', EachEventOnce',
           logAtEnd' \in 0..log
    PROVE  WorkspaceInv'
<1>1. /\ StreamType' = StreamType /\ TabType' = TabType /\ Snapshot' = Snapshot
      /\ MessageType' = MessageType
  BY TypesSame, TypesStay
<1>2. log' \in {1, 1 + LedgerEvents} /\ logAtEnd' \in 0..log'
  BY InvFacts
<1>3. /\ status' \in TaskStatus /\ log' \in {1, 1 + LedgerEvents} /\ logAtEnd' \in 0..log'
      /\ stream' \in StreamType' /\ tick' \in [Caller -> Snapshot']
      /\ wire' \in Seq(MessageType') /\ tab' \in TabType'
      /\ loads' \in Loads(MaxLoads + 1) /\ faults' \subseteq Faults
      /\ TicksKnow' /\ LoadsBounded' /\ EachEventOnce'
  BY <1>1, <1>2
<1> QED BY <1>3 DEF WorkspaceInv, WorkspaceTypeOK, StreamType, TabType, Loads, TicksKnow

LEMMA RunInv ==
    ASSUME WorkspaceInv, CommitLedger \/ EndTask
    PROVE  WorkspaceInv'
<1>1. CASE CommitLedger
  <2>1. /\ log = 1 /\ log' = 1 + LedgerEvents /\ LedgerEvents \in Nat
        /\ UNCHANGED <<status, logAtEnd, stream, tick, wire, tab, loads, faults>>
    BY <1>1, WorkspaceAssumption DEF CommitLedger, WorkspaceAssumption, serverVars, pageVars
  <2>2. 0..log \subseteq 0..log' /\ log' \in {1, 1 + LedgerEvents}
    BY <2>1
  <2>3. Snapshot \subseteq Snapshot' /\ MessageType \subseteq MessageType'
    BY <2>2 DEF Snapshot, MessageType
  <2>4. StreamType \subseteq StreamType' /\ TabType \subseteq TabType'
    BY <2>2, <2>3 DEF StreamType, TabType
  <2>5. Seq(MessageType) \subseteq Seq(MessageType')
    BY <2>3, SeqMonotonic
  <2>6. tick' \in [Caller -> Snapshot']
    BY <2>1, <2>3, InvFacts
  <2>7. TicksKnow' /\ logAtEnd' \in 0..log'
    BY <2>1, <2>2, InvFacts, TicksStay
  <2>8. LoadsBounded' /\ EachEventOnce'
    BY <2>1, InvFacts, LoadsStay, OnceStays
  <2>9. /\ status' \in TaskStatus /\ log' \in {1, 1 + LedgerEvents}
         /\ stream' \in StreamType' /\ tick' \in [Caller -> Snapshot']
         /\ wire' \in Seq(MessageType') /\ tab' \in TabType'
         /\ loads' \in Loads(MaxLoads + 1) /\ faults' \subseteq Faults
    BY <2>1, <2>2, <2>4, <2>5, <2>6, InvFacts
  <2> QED BY <2>7, <2>8, <2>9 DEF WorkspaceInv, WorkspaceTypeOK, StreamType, TabType, Loads, TicksKnow
<1>2. CASE EndTask
  <2>1. /\ status = "running" /\ status' \in TaskStatus
        /\ UNCHANGED <<log, stream, tick, wire, tab, loads, faults>> /\ logAtEnd' = log
    BY <1>2, WorkspaceAssumption
    DEF EndTask, WorkspaceAssumption, TaskStatus, serverVars, pageVars
  <2>2. \A c \in Caller : tick[c].status \notin Terminal
    BY <2>1, InvFacts DEF TicksKnow, TickKnows, Terminal
  <2>3. TicksKnow'
    BY <2>1, <2>2, InvFacts DEF TicksKnow, OneTick, TickKnows
  <2>4. LoadsBounded' /\ EachEventOnce'
    BY <2>1, InvFacts, LoadsStay, OnceStays
  <2>5. logAtEnd' \in 0..log
    BY <2>1, InvFacts
  <2> QED BY <2>1, <2>3, <2>4, <2>5, InvFacts, InvOf
<1> QED BY <1>1, <1>2

LEMMA InitializeInv ==
    ASSUME WorkspaceInv, Initialize
    PROVE  WorkspaceInv'
<1>1. UNCHANGED <<status, log, logAtEnd, tick, wire, tab, loads, faults>>
  BY DEF Initialize, pageVars
<1>2. stream.init \in Snapshot /\ stream.init.from \in 0..log
  BY InvFacts DEF StreamType, Snapshot
<1>3. stream' \in StreamType /\ stream'.seq = stream.seq
  <2>1. /\ ReadTask(stream.init, stream.init.from) \in Snapshot
        /\ ReadEvents(stream.init) \in Snapshot
    BY <1>2, InvFacts, ReadTaskType, ReadEventsType
  <2> QED BY <2>1, InvFacts DEF Initialize, StreamType
<1>4. TicksKnow' /\ LoadsBounded' /\ EachEventOnce'
  BY <1>1, <1>3, InvFacts, TicksStay, LoadsStay, OnceStays
<1> QED BY <1>1, <1>3, <1>4, InvFacts, InvOf

LEMMA SendStatusInv ==
    ASSUME WorkspaceInv, SendStatus
    PROVE  WorkspaceInv'
<1>1. UNCHANGED <<status, log, logAtEnd, tab, loads, faults>>
  BY DEF SendStatus, pageVars
<1>2. PICK message : message = Message("status", stream.init.upto, stream.init.status)
  OBVIOUS
<1>3. message \in MessageType /\ message.kind # "trace"
  BY <1>2, InvFacts DEF StreamType, Snapshot, Message, MessageType
<1>4. wire' = Append(wire, message)
  BY <1>2 DEF SendStatus
<1>5. stream' \in StreamType /\ stream'.seq = stream.seq
  BY InvFacts DEF SendStatus, StreamType
<1>6. TicksKnow' /\ tick' \in [Caller -> Snapshot]
  <2>1. tick' = Begin("initial") /\ "initial" \in Caller
    BY DEF SendStatus, Caller
  <2> QED BY <1>1, <1>5, <2>1, InvFacts, TickBegins
<1>7. wire' \in Seq(MessageType)
  BY <1>3, <1>4, InvFacts
<1>8. LoadsBounded' /\ EachEventOnce'
  BY <1>1, <1>3, <1>4, <1>5, InvFacts, LoadsStay, OnceAppended
<1> QED BY <1>1, <1>5, <1>6, <1>7, <1>8, InvFacts, InvOf

LEMMA TickInv ==
    ASSUME WorkspaceInv, StartTick \/ \E c \in Caller : TickStep(c)
    PROVE  WorkspaceInv'
<1>1. CASE StartTick
  <2>1. /\ UNCHANGED <<status, log, logAtEnd, stream, wire, tab, loads, faults>>
        /\ tick' = Begin("interval") /\ "interval" \in Caller
    BY <1>1 DEF StartTick, pageVars, Caller
  <2>2. TicksKnow' /\ tick' \in [Caller -> Snapshot]
    BY <2>1, InvFacts, TickBegins
  <2>3. LoadsBounded' /\ EachEventOnce'
    BY <2>1, InvFacts, LoadsStay, OnceStays
  <2> QED BY <2>1, <2>2, <2>3, InvFacts, InvOf
<1>2. ASSUME NEW c \in Caller, TickReads(c) PROVE WorkspaceInv'
  <2>1. UNCHANGED <<status, log, logAtEnd, stream, wire, tab, loads, faults>>
    BY <1>2 DEF TickReads, pageVars
  <2>2. TicksKnow' /\ tick' \in [Caller -> Snapshot]
    BY <1>2, InvFacts, TickReadsKnow
  <2>3. LoadsBounded' /\ EachEventOnce'
    BY <2>1, InvFacts, LoadsStay, OnceStays
  <2> QED BY <2>1, <2>2, <2>3, InvFacts, InvOf
<1>3. ASSUME NEW c \in Caller, TickSends(c) PROVE WorkspaceInv'
  <2>1. UNCHANGED <<status, log, logAtEnd, tab, loads, faults>>
    BY <1>3 DEF TickSends, pageVars
  <2>2. /\ TicksKnow' /\ EachEventOnce' /\ stream' \in StreamType
        /\ tick' \in [Caller -> Snapshot] /\ wire' \in Seq(MessageType)
    BY <1>3, InvFacts, TickSendsKnow DEF StreamType
  <2>3. LoadsBounded'
    BY <2>1, InvFacts, LoadsStay
  <2> QED BY <2>1, <2>2, <2>3, InvFacts, InvOf
<1> QED BY <1>1, <1>2, <1>3 DEF TickStep

LEMMA StreamFailsInv ==
    ASSUME WorkspaceInv, StreamFails
    PROVE  WorkspaceInv'
<1>1. UNCHANGED <<status, log, logAtEnd, tab, loads>> /\ faults' \subseteq Faults
  BY InvFacts DEF StreamFails, Fault, pageVars
<1>2. PICK message : message = Message("error", 0, "none")
  OBVIOUS
<1>3. message \in MessageType /\ message.kind # "trace"
  BY <1>2, InvFacts DEF Message, MessageType
<1>4. wire' = Append(wire, message) /\ tick' = NoTicks
  BY <1>2 DEF StreamFails
<1>5. stream' \in StreamType /\ stream'.seq = stream.seq
  BY InvFacts DEF StreamFails, StreamType, NoStream
<1>6. wire' \in Seq(MessageType)
  BY <1>3, <1>4, InvFacts
<1>7. TicksKnow' /\ tick' \in [Caller -> Snapshot] /\ LoadsBounded' /\ EachEventOnce'
  BY <1>1, <1>3, <1>4, <1>5, InvFacts, TicksEnd, LoadsStay, OnceAppended
<1> QED BY <1>1, <1>5, <1>6, <1>7, InvFacts, InvOf

LEMMA SourceInv ==
    ASSUME WorkspaceInv, Connect \/ Refused \/ Dropped \/ EndOfStream
    PROVE  WorkspaceInv'
<1>1. CASE Connect
  <2>1. /\ UNCHANGED <<status, log, logAtEnd, loads, faults>> /\ tick' = NoTicks /\ wire' = <<>>
        /\ tab.source = "connecting"
    BY <1>1 DEF Connect
  <2>2. stream' \in StreamType
    BY <1>1, InvFacts DEF Connect, StreamType, TabType, NoSnapshot, Snapshot
  <2>3. tab' \in TabType
    BY <1>1, InvFacts DEF Connect, TabType
  <2>4. TicksKnow' /\ tick' \in [Caller -> Snapshot] /\ LoadsBounded' /\ EachEventOnce'
    BY <2>1, InvFacts, TicksEnd, LoadsStay, NothingOnce
  <2>5. wire' \in Seq(MessageType)
    BY <2>1
  <2> QED BY <2>1, <2>2, <2>3, <2>4, <2>5, InvFacts, InvOf
<1>2. CASE Refused
  <2>1. /\ UNCHANGED <<status, log, logAtEnd, stream, tick, wire, loads>> /\ faults' \subseteq Faults
        /\ tab.source = "connecting"
    BY <1>2, InvFacts DEF Refused, Fault, serverVars
  <2>2. tab' \in TabType
    BY <1>2, InvFacts DEF Refused, TabType
  <2>3. TicksKnow' /\ LoadsBounded' /\ EachEventOnce'
    BY <2>1, InvFacts, TicksStay, LoadsStay, OnceStays
  <2> QED BY <2>1, <2>2, <2>3, InvFacts, InvOf
<1>3. CASE Dropped
  <2>1. /\ UNCHANGED <<status, log, logAtEnd, loads>> /\ faults' \subseteq Faults
        /\ tick' = NoTicks /\ wire' = <<>> /\ stream' = NoStream /\ tab.source = "open"
    BY <1>3, InvFacts DEF Dropped, Fault
  <2>2. stream' \in StreamType /\ wire' \in Seq(MessageType)
    BY <2>1, InvFacts DEF StreamType, NoStream
  <2>3. tab' \in TabType
    BY <1>3, InvFacts DEF Dropped, TabType
  <2>4. TicksKnow' /\ tick' \in [Caller -> Snapshot] /\ LoadsBounded' /\ EachEventOnce'
    BY <2>1, InvFacts, TicksEnd, LoadsStay, NothingOnce
  <2> QED BY <2>1, <2>2, <2>3, <2>4, InvFacts, InvOf
<1>4. CASE EndOfStream
  <2>1. /\ UNCHANGED <<status, log, logAtEnd, stream, tick, wire, loads, faults>>
        /\ tab.source = "open"
    BY <1>4 DEF EndOfStream, serverVars
  <2>2. tab' \in TabType
    BY <1>4, InvFacts DEF EndOfStream, TabType
  <2>3. TicksKnow' /\ LoadsBounded' /\ EachEventOnce'
    BY <2>1, InvFacts, TicksStay, LoadsStay, OnceStays
  <2> QED BY <2>1, <2>2, <2>3, InvFacts, InvOf
<1> QED BY <1>1, <1>2, <1>3, <1>4

LEMMA ReceiveInv ==
    ASSUME WorkspaceInv, Receive
    PROVE  WorkspaceInv'
<1>1. /\ UNCHANGED <<status, log, logAtEnd, stream, tick, faults>> /\ tab.source = "open"
      /\ wire # <<>> /\ wire' = Tail(wire)
  BY DEF Receive, serverVars
<1>2. PICK message : message = Head(wire)
  OBVIOUS
<1>3. message \in MessageType /\ wire' \in Seq(MessageType)
  BY <1>1, <1>2, InvFacts, HeadTailProperties
<1>4. tab' = OnMessage(message)
      /\ IF message.kind = "done" THEN Ask ELSE UNCHANGED loads
  BY <1>2 DEF Receive, LoadsOnDone
<1>5. tab' \in TabType /\ (message.kind = "done" => tab'.source = "closed")
  <2>1. tab \in TabType /\ 0 \in 0..log
    BY InvFacts
  <2>2. CASE message \in [kind : {"status"}, id : 0..log, status : TaskStatus]
    BY <1>4, <2>1, <2>2 DEF OnMessage, TabType
  <2>3. CASE message \in [kind : {"trace", "error"}, id : 0..log, status : {"none"}]
    BY <1>4, <2>1, <2>3 DEF OnMessage, TabType
  <2>4. CASE message \in [kind : {"done"}, id : {0}, status : Terminal]
    BY <1>4, <2>1, <2>4 DEF OnMessage, TabType, TaskStatus
  <2> QED BY <1>3, <2>2, <2>3, <2>4 DEF MessageType
<1>6. LoadsBounded' /\ loads' \in Loads(MaxLoads + 1)
  <2>1. CASE message.kind = "done"
    BY <1>1, <1>4, <1>5, <2>1, InvFacts, LoadsAsked
  <2>2. CASE message.kind # "done"
    BY <1>1, <1>4, <2>2, InvFacts, LoadsStay
  <2> QED BY <2>1, <2>2
<1>7. TicksKnow' /\ EachEventOnce'
  BY <1>1, InvFacts, TicksStay, OnceReceived
<1> QED BY <1>1, <1>3, <1>5, <1>6, <1>7, InvFacts, InvOf

LEMMA LoadInv ==
    ASSUME WorkspaceInv,
           TimerFires \/ Poll \/ LoadIsAnswered \/ LoadIsLost
           \/ \E stage \in {"live", "final"} : LoadArrives(stage)
    PROVE  WorkspaceInv'
<1>1. ASSUME UNCHANGED <<status, log, logAtEnd, stream, tick, wire>>, faults' \subseteq Faults,
             tab' \in TabType, LoadsBounded', loads' \in Loads(MaxLoads + 1)
      PROVE  WorkspaceInv'
  <2>1. TicksKnow' /\ EachEventOnce'
    BY <1>1, InvFacts, TicksStay, OnceStays
  <2> QED BY <1>1, <2>1, InvFacts, InvOf
<1>2. CASE TimerFires
  <2>1. /\ UNCHANGED <<status, log, logAtEnd, stream, tick, wire, faults>> /\ FewLoads /\ Ask
        /\ tab' = [tab EXCEPT !.timer = FALSE]
    BY <1>2 DEF TimerFires, serverVars
  <2>2. tab' \in TabType
    BY <2>1, InvFacts DEF TabType
  <2> QED BY <1>1, <2>1, <2>2, InvFacts, LoadsAsked
<1>3. CASE Poll
  <2>1. /\ UNCHANGED <<status, log, logAtEnd, stream, tick, wire, tab, faults>> /\ FewLoads /\ Ask
    BY <1>3 DEF Poll, serverVars
  <2> QED BY <1>1, <2>1, InvFacts, LoadsAsked
<1>4. CASE LoadIsAnswered
  <2>1. UNCHANGED <<status, log, logAtEnd, stream, tick, wire, tab, faults>>
    BY <1>4 DEF LoadIsAnswered, serverVars
  <2> QED BY <1>1, <1>4, <2>1, InvFacts, LoadsAnswered
<1>5. CASE LoadIsLost
  <2>1. /\ UNCHANGED <<status, log, logAtEnd, stream, tick, wire, tab>> /\ faults' \subseteq Faults
    BY <1>5, InvFacts DEF LoadIsLost, Fault, serverVars
  <2>2. PICK stage \in {"live", "final"} :
            loads[stage] > 0 /\ loads' = [loads EXCEPT ![stage] = @ - 1]
    BY <1>5 DEF LoadIsLost
  <2> QED BY <1>1, <2>1, <2>2, InvFacts, LoadsEnd
<1>6. ASSUME NEW stage \in {"live", "final"}, LoadArrives(stage) PROVE WorkspaceInv'
  <2>1. /\ UNCHANGED <<status, log, logAtEnd, stream, tick, wire, faults>>
        /\ loads[stage] > 0 /\ loads' = [loads EXCEPT ![stage] = @ - 1]
        /\ tab' = [tab EXCEPT !.shown = stage]
    BY <1>6 DEF LoadArrives, serverVars
  <2>2. tab' \in TabType /\ tab'.source = tab.source
    BY <2>1, InvFacts DEF TabType
  <2> QED BY <1>1, <2>1, <2>2, InvFacts, LoadsEnd
<1> QED BY <1>2, <1>3, <1>4, <1>5, <1>6

LEMMA StutterInv ==
    ASSUME WorkspaceInv, UNCHANGED workspaceVars
    PROVE  WorkspaceInv'
<1>1. UNCHANGED <<status, log, logAtEnd, stream, tick, wire, tab, loads, faults>>
  BY DEF workspaceVars
<1>2. TicksKnow' /\ LoadsBounded' /\ EachEventOnce'
  BY <1>1, InvFacts, TicksStay, LoadsStay, OnceStays
<1> QED BY <1>1, <1>2, InvFacts, InvOf

LEMMA WorkspaceInvariance == WorkspaceSpec => []WorkspaceInv
<1>1. WorkspaceInv /\ [WorkspaceNext]_workspaceVars => WorkspaceInv'
  BY RunInv, InitializeInv, SendStatusInv, TickInv, StreamFailsInv, SourceInv, ReceiveInv,
     LoadInv, StutterInv
  DEF WorkspaceNext, ServerStep, SourceStep
<1> QED BY <1>1, InitInv, PTL DEF WorkspaceSpec

(* The stream, the messages under way, the page and the loads stay what    *)
(* route.ts and useRunWorkspace make them.                                 *)
THEOREM WorkspaceTypeCorrect == WorkspaceSpec => []WorkspaceTypeOK
BY WorkspaceInvariance, PTL DEF WorkspaceInv

(* On one connection stateTick sends every trace event once and in order,  *)
(* however slow it is compared with its timer (stateTicking, route.ts).    *)
THEOREM EventsCorrect == WorkspaceSpec => []EachEventOnce
BY WorkspaceInvariance, PTL DEF WorkspaceInv

(* Only a tick sends "done"                                                *)
LEMMA DoneStep ==
    ASSUME WorkspaceInv, [WorkspaceNext]_workspaceVars, ~ Done(wire), Done(wire')
    PROVE  stream'.seq >= logAtEnd \/ stream'.seq = stream.seq + Page
<1>1. ~ UNCHANGED wire /\ wire' # <<>>
  BY DEF Done
<1>2. ASSUME NEW message, message.kind # "done", wire' = Append(wire, message) PROVE FALSE
  <2>1. PICK i \in DOMAIN wire' : wire'[i].kind = "done"
    BY DEF Done
  <2>2. i \in DOMAIN wire /\ wire'[i] = wire[i]
    BY <1>2, <2>1, InvFacts, AppendProperties
  <2> QED BY <2>1, <2>2 DEF Done
<1>3. ASSUME wire # <<>>, wire' = Tail(wire) PROVE FALSE
  <2>1. PICK i \in DOMAIN wire' : wire'[i].kind = "done"
    BY DEF Done
  <2>2. i + 1 \in DOMAIN wire /\ wire'[i] = wire[i + 1]
    BY <1>3, <2>1, InvFacts
  <2> QED BY <2>1, <2>2 DEF Done
<1>4. ASSUME NEW c \in Caller, TickSends(c)
      PROVE  stream'.seq >= logAtEnd \/ stream'.seq = stream.seq + Page
  <2>1. PICK i \in DOMAIN wire' : wire'[i].kind = "done"
    BY DEF Done
  <2>2. /\ (\E j \in DOMAIN wire' : j \notin DOMAIN wire /\ wire'[j].kind = "done")
              => stream'.seq >= logAtEnd \/ stream'.seq = stream.seq + Page
        /\ \A j \in DOMAIN wire : wire'[j] = wire[j]
    BY <1>4, InvFacts, TickSendsKnow
  <2>3. i \notin DOMAIN wire
    BY <2>1, <2>2 DEF Done
  <2> QED BY <2>1, <2>2, <2>3
<1>5. \/ SendStatus \/ StreamFails \/ Receive \/ \E c \in Caller : TickSends(c)
  BY <1>1
  DEF workspaceVars, WorkspaceNext, CommitLedger, EndTask, ServerStep, Initialize, StartTick,
      TickStep, TickReads, SourceStep, Connect, EndOfStream, TimerFires, Poll, LoadIsAnswered,
      LoadArrives, Refused, Dropped, LoadIsLost, serverVars, pageVars
<1>6. ~ SendStatus
  BY <1>2 DEF SendStatus, Message
<1>7. ~ StreamFails
  BY <1>2 DEF StreamFails, Message
<1>8. ~ Receive
  BY <1>3 DEF Receive
<1> QED BY <1>4, <1>5, <1>6, <1>7, <1>8

(* A tick sends "done" after all the trace events that there were when the *)
(* run ended, or a whole page of them, whatever is committed between its   *)
(* two reads and after the end (route.ts and getRunEventSnapshot).         *)
THEOREM DoneCorrect == WorkspaceSpec => DoneFollowsTheRun
<1>1. WorkspaceInv /\ [WorkspaceNext]_workspaceVars
        => [~ Done(wire) /\ Done(wire')
              => stream'.seq >= logAtEnd \/ stream'.seq = stream.seq + Page]_workspaceVars
  BY DoneStep
<1> QED BY <1>1, WorkspaceInvariance, PTL DEF WorkspaceSpec, DoneFollowsTheRun
=============================================================================
