------------------------------ MODULE RunWorkspace ------------------------------
(***************************************************************************)
(* The page of a run: the event stream of the server, the browser's        *)
(* EventSource that reconnects with Last-Event-ID, and the loads that      *)
(* bring the data of the run to the page.                                  *)
(*   apps/web/src/app/api/runs/[taskId]/events/route.ts                    *)
(*   apps/web/src/components/run-workspace/use-run-workspace.ts            *)
(*   packages/backend/src/run-service.ts (getRunEventSnapshot)             *)
(*                                                                         *)
(* Of the run itself only the trace events and the status are kept: its    *)
(* passes are those of LiveForecast and TableRuns.  Live activity, which   *)
(* travels on the same stream, has no ids and changes nothing else.        *)
(***************************************************************************)
EXTENDS Naturals, Sequences

CONSTANTS
    Page,         \* most trace events of one snapshot
    LedgerEvents, \* trace events of a ledger
    Backlog,      \* bound on the messages under way when a tick begins
    MaxLoads,     \* bound on the loads under way when one is asked for
    Ends,         \* ends of the run that are tried
    Faults        \* kinds of faults, each of which happens at most once

VARIABLES
    status, \* status of the task
    log,    \* number of its trace events
    logAtEnd, \* their number when the task ended; read by a property only
    stream, \* server side of the connection, with its snapshot "init"
    tick,   \* tick[c]: the state tick that caller c is in
    wire,   \* messages on their way to the browser
    tab,    \* the EventSource and the state of the page
    loads,  \* loads[o]: loads asked for, or answered with data of stage o
    faults  \* kinds of faults so far
serverVars == <<stream, tick>>
pageVars == <<tab, loads>>
workspaceVars == <<status, log, logAtEnd, stream, tick, wire, tab, loads, faults>>

Caller == {"initial", "interval"}
Terminal == {"completed", "failed", "cancelled"}
Kinds == {"drop", "stream error", "refused", "load lost"}
ASSUME WorkspaceAssumption ==
    /\ Page \in Nat \ {0} /\ LedgerEvents \in Nat /\ Backlog \in Nat
    /\ MaxLoads \in Nat \ {0} /\ Ends \subseteq Terminal /\ Faults \subseteq Kinds

NoSnapshot == [pc |-> "idle", status |-> "running", from |-> 0, upto |-> 0]
NoStream == [open |-> FALSE, seq |-> 0, init |-> NoSnapshot]
NoTicks == [c \in Caller |-> NoSnapshot]

WorkspaceInit ==
    /\ status = "running" /\ log = 1 /\ logAtEnd = 0
    /\ stream = NoStream /\ tick = NoTicks
    /\ wire = <<>>
    /\ tab = [source |-> "connecting", lastId |-> 0, status |-> "connecting",
              connected |-> FALSE, timer |-> FALSE, shown |-> "none"]
    /\ loads = [asked |-> 1, live |-> 0, final |-> 0]
    /\ faults = {}

Fault(kind) == kind \in Faults \ faults /\ faults' = faults \cup {kind}

-----------------------------------------------------------------------------
(* The run, seen from here.  The ledger is committed once, whatever the    *)
(* status of the task: a pass may commit it for a task that has failed in  *)
(* the meantime, the backfill for one that is completed.                   *)
CommitLedger ==
    /\ log = 1
    /\ log' = log + LedgerEvents
    /\ UNCHANGED <<status, logAtEnd, serverVars, wire, pageVars, faults>>
EndTask ==
    /\ status = "running"
    /\ status' \in Ends /\ logAtEnd' = log
    /\ UNCHANGED <<log, serverVars, wire, pageVars, faults>>

-----------------------------------------------------------------------------
(* getRunEventSnapshot: the task is read, then a page of its events *)
UptoPage(from) == from + Page
Upto(from) == IF from + Page < log THEN from + Page ELSE log
ReadTask(snapshot, from) ==
    [snapshot EXCEPT !.pc = "events", !.status = status, !.from = from]
ReadEvents(snapshot) == [snapshot EXCEPT !.pc = "send", !.upto = Upto(snapshot.from)]

Message(kind, id, taskStatus) == [kind |-> kind, id |-> id, status |-> taskStatus]
Trace(from, upto) == [i \in 1..(upto - from) |-> Message("trace", from + i, "none")]

(* initialize: a status, and the first state tick unless one is under way  *)
Initialize ==
    /\ stream.open /\ stream.init.pc \in {"task", "events"}
    /\ stream' = [stream EXCEPT !.init = IF @.pc = "task" THEN ReadTask(@, @.from) ELSE ReadEvents(@)]
    /\ UNCHANGED <<status, log, logAtEnd, tick, wire, pageVars, faults>>

TickingIgnored == FALSE
Ticking == \E c \in Caller : tick[c].pc # "idle"
Begin(c) == IF Ticking THEN tick ELSE [tick EXCEPT ![c].pc = "reconcile"]
SendStatus ==
    /\ stream.open /\ stream.init.pc = "send"
    /\ wire' = Append(wire, Message("status", stream.init.upto, stream.init.status))
    /\ stream' = [stream EXCEPT !.init = NoSnapshot]
    /\ tick' = Begin("initial")
    /\ UNCHANGED <<status, log, logAtEnd, pageVars, faults>>

(* stateTick                                                               *)
StartTick ==
    /\ stream.open /\ ~ Ticking /\ Len(wire) <= Backlog
    /\ tick' = Begin("interval")
    /\ UNCHANGED <<status, log, logAtEnd, stream, wire, pageVars, faults>>
TickReads(c) ==
    /\ tick[c].pc \in {"reconcile", "task", "events"}
    /\ tick' = [tick EXCEPT ![c] =
          CASE @.pc = "reconcile" -> [@ EXCEPT !.pc = "task"]
            [] @.pc = "task" -> ReadTask(@, stream.seq)
            [] @.pc = "events" -> ReadEvents(@)]
    /\ UNCHANGED <<status, log, logAtEnd, stream, wire, pageVars, faults>>

IsOverCompleted(snapshot) == snapshot.status = "completed"
IsOverNow(snapshot) == status \in Terminal
IsOver(snapshot) == snapshot.status \in Terminal
Messages(snapshot) ==
    <<Message("status", snapshot.upto, snapshot.status)>>
    \o Trace(snapshot.from, snapshot.upto)
    \o IF IsOver(snapshot) THEN <<Message("done", 0, snapshot.status)>> ELSE <<>>
TickSends(c) ==
    LET snapshot == tick[c] IN
    /\ snapshot.pc = "send"
    /\ wire' = wire \o Messages(snapshot)
    /\ IF IsOver(snapshot)
       THEN stream' = [NoStream EXCEPT !.seq = snapshot.upto] /\ tick' = NoTicks
       ELSE /\ stream' = [stream EXCEPT !.seq = snapshot.upto]
            /\ tick' = [tick EXCEPT ![c] = NoSnapshot]
    /\ UNCHANGED <<status, log, logAtEnd, pageVars, faults>>
(* Anything the tick or the first reading awaits throws.                   *)
StreamFails ==
    /\ Fault("stream error")
    /\ stream.open /\ (Ticking \/ stream.init.pc # "idle")
    /\ wire' = Append(wire, Message("error", 0, "none"))
    /\ stream' = [NoStream EXCEPT !.seq = stream.seq]
    /\ tick' = NoTicks
    /\ UNCHANGED <<status, log, logAtEnd, pageVars>>

-----------------------------------------------------------------------------
(* The EventSource *)
Connect ==
    /\ tab.source = "connecting"
    /\ stream' = [open |-> TRUE, seq |-> tab.lastId, 
                   init |-> [NoSnapshot EXCEPT !.pc = "task", !.from = tab.lastId]]
    /\ tick' = NoTicks /\ wire' = <<>>
    /\ tab' = [tab EXCEPT !.source = "open", !.connected = TRUE]
    /\ UNCHANGED <<status, log, logAtEnd, loads, faults>>
(* An answer that is no event stream: the EventSource gives up.            *)
Refused ==
    /\ Fault("refused")
    /\ tab.source = "connecting"
    /\ tab' = [tab EXCEPT !.source = "closed", !.connected = FALSE]
    /\ UNCHANGED <<status, log, logAtEnd, serverVars, wire, loads>>
(* The connection is lost: the server closes the stream on its abort.      *)
Dropped ==
    /\ Fault("drop")
    /\ tab.source = "open"
    /\ tab' = [tab EXCEPT !.source = "connecting", !.connected = FALSE]
    /\ stream' = NoStream /\ tick' = NoTicks /\ wire' = <<>>
    /\ UNCHANGED <<status, log, logAtEnd, loads>>
EndOfStream ==
    /\ tab.source = "open" /\ ~ stream.open /\ wire = <<>>
    /\ tab' = [tab EXCEPT !.source = "connecting", !.connected = FALSE]
    /\ UNCHANGED <<status, log, logAtEnd, serverVars, wire, loads, faults>>

-----------------------------------------------------------------------------
(* The handlers of the page *)
OnMessage(message) ==
    CASE message.kind = "status" ->
            [tab EXCEPT !.lastId = message.id, !.connected = TRUE, !.status = message.status]
      [] message.kind = "trace" ->
            [tab EXCEPT !.lastId = message.id, !.connected = TRUE, !.timer = TRUE]
      [] message.kind = "done" ->
            [tab EXCEPT !.source = "closed", !.connected = FALSE,
                        !.timer = FALSE, !.status = message.status]
      [] message.kind = "error" -> [tab EXCEPT !.connected = FALSE]
Ask == loads' = [loads EXCEPT !.asked = @ + 1]
NeverLoads(message) == FALSE
LoadsOnDone(message) == message.kind = "done"
Receive ==
    /\ tab.source = "open" /\ wire # <<>>
    /\ tab' = OnMessage(Head(wire))
    /\ wire' = Tail(wire)
    /\ IF LoadsOnDone(Head(wire)) THEN Ask ELSE UNCHANGED loads
    /\ UNCHANGED <<status, log, logAtEnd, serverVars, faults>>

FewLoads == loads.asked + loads.live + loads.final < MaxLoads
TimerFires ==
    /\ tab.timer /\ FewLoads
    /\ tab' = [tab EXCEPT !.timer = FALSE]
    /\ Ask
    /\ UNCHANGED <<status, log, logAtEnd, serverVars, wire, faults>>
Poll ==
    /\ ~ tab.connected /\ tab.status \notin Terminal /\ FewLoads
    /\ Ask
    /\ UNCHANGED <<status, log, logAtEnd, serverVars, wire, tab, faults>>

(* A load is answered by the data of the run as it is, and the answers     *)
(* reach the page in any order.                                            *)
Stage == IF status \in Terminal THEN "final" ELSE "live"
LoadIsAnswered ==
    /\ loads.asked > 0
    /\ loads' = [loads EXCEPT !.asked = @ - 1, ![Stage] = @ + 1]
    /\ UNCHANGED <<status, log, logAtEnd, serverVars, wire, tab, faults>>
LoadArrives(stage) ==
    /\ loads[stage] > 0
    /\ loads' = [loads EXCEPT ![stage] = @ - 1]
    /\ tab' = [tab EXCEPT !.shown = stage]
    /\ UNCHANGED <<status, log, logAtEnd, serverVars, wire, faults>>
(* An answer with an error is ignored.                                     *)
LoadIsLost ==
    /\ Fault("load lost")
    /\ \E stage \in {"live", "final"} :
          loads[stage] > 0 /\ loads' = [loads EXCEPT ![stage] = @ - 1]
    /\ UNCHANGED <<status, log, logAtEnd, serverVars, wire, tab>>

-----------------------------------------------------------------------------
ServerStep == Initialize \/ SendStatus
TickStep(c) == TickReads(c) \/ TickSends(c)
SourceStep == Connect \/ EndOfStream \/ Receive
WorkspaceNext ==
    \/ CommitLedger \/ EndTask
    \/ ServerStep \/ StartTick \/ \E c \in Caller : TickStep(c)
    \/ SourceStep \/ TimerFires \/ Poll
    \/ LoadIsAnswered \/ \E stage \in {"live", "final"} : LoadArrives(stage)
    \/ StreamFails \/ Refused \/ Dropped \/ LoadIsLost
(* Requests are served, timers fire, messages and answers arrive.  That    *)
(* the run ends is not assumed.                                            *)
WorkspaceFairness ==
    /\ WF_workspaceVars(ServerStep) /\ WF_workspaceVars(StartTick)
    /\ \A c \in Caller : WF_workspaceVars(TickStep(c))
    /\ WF_workspaceVars(SourceStep) /\ WF_workspaceVars(TimerFires) /\ WF_workspaceVars(Poll)
    /\ WF_workspaceVars(LoadIsAnswered)
    /\ \A stage \in {"live", "final"} : WF_workspaceVars(LoadArrives(stage))
WorkspaceSpec == WorkspaceInit /\ [][WorkspaceNext]_workspaceVars /\ WorkspaceFairness

-----------------------------------------------------------------------------
TaskStatus == Terminal \cup {"running"}
Snapshot ==
    [pc : {"idle", "reconcile", "task", "events", "send"},
     status : TaskStatus, from : 0..log, upto : 0..log]
MessageType ==
    [kind : {"status"}, id : 0..log, status : TaskStatus]
    \cup [kind : {"trace", "error"}, id : 0..log, status : {"none"}]
    \cup [kind : {"done"}, id : {0}, status : Terminal]
WorkspaceTypeOK ==
    /\ status \in TaskStatus /\ log \in {1, 1 + LedgerEvents} /\ logAtEnd \in 0..log
    /\ stream \in [open : BOOLEAN, seq : 0..log, init : Snapshot]
    /\ tick \in [Caller -> Snapshot]
    /\ wire \in Seq(MessageType)
    /\ tab \in [source : {"connecting", "open", "closed"}, lastId : 0..log,
                status : TaskStatus \cup {"connecting"}, connected : BOOLEAN,
                timer : BOOLEAN, shown : {"none", "live", "final"}]
    /\ loads \in [{"asked", "live", "final"} -> 0..(MaxLoads + 1)]
    /\ faults \subseteq Faults

(* On one connection every trace event is sent once and in order, though   *)
(* ticks are slower than the timer that starts them: what is under way     *)
(* ends with the last event sent and has no gap.                           *)
IsTrace(i) == wire[i].kind = "trace"
IsNextTrace(i, j) ==
    i < j /\ IsTrace(j) /\ \A k \in DOMAIN wire : i < k /\ k < j => ~ IsTrace(k)
EachEventOnce ==
    \A i \in DOMAIN wire : IsTrace(i) =>
        \/ wire[i].id = stream.seq /\ \A j \in DOMAIN wire : i < j => ~ IsTrace(j)
        \/ \E j \in DOMAIN wire : IsNextTrace(i, j) /\ wire[j].id = wire[i].id + 1

(* A "done" follows all the trace events that there were when the run      *)
(* ended, or a whole page of them: events committed between the two reads  *)
(* of a snapshot are not dropped.  A ledger that is committed after the    *)
(* end may follow "done", and is then not sent.                            *)
Done(messages) == \E i \in DOMAIN messages : messages[i].kind = "done"
DoneFollowsTheRun ==
    [][~ Done(wire) /\ Done(wire')
         => stream'.seq >= logAtEnd \/ stream'.seq = stream.seq + Page]_workspaceVars

(* Once the run is over the page is shown data read after its end, with    *)
(* "done" or by polling, unless a load fails or a connection is refused    *)
(* after the page has learnt that the run is over and stopped polling.     *)
(* Whether a ledger committed after the end is part of it is left open.    *)
Stranded == faults \cap {"refused", "load lost"} # {} /\ tab.status \in Terminal
FinalDataArrives ==
    <>(status \in Terminal) => <>(tab.shown = "final" \/ Stranded)

(* Every stream is closed in the end: a run that is over is not watched.   *)
StreamCloses == status \in Terminal ~> tab.source = "closed"
=============================================================================
