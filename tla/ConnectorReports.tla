-------------------------- MODULE ConnectorReports --------------------------
(***************************************************************************)
(* What the connector keeps telling the Worker of itself over its socket:  *)
(* its capabilities (agent.ready) and the state of its app-server          *)
(* (agent.app_server_instances), with the acknowledgements, retries and    *)
(* summaries of crates/agent/src/connector.rs, and what WorkspaceDO        *)
(* (apps/worker/src/workspace-do.ts) stores of it, which may handle        *)
(* several messages at once, fail, refuse a report, and clean up after a   *)
(* socket when the next one is already there.                              *)
(***************************************************************************)
EXTENDS Integers, Sequences, FiniteSets

CONSTANTS Instances,   \* states of the app-server as they are reported
          Healthy,     \* those a report of which is cached
          Capabilities,
          Handlers,    \* messages handled at once
          Ids,         \* report ids: a report is acknowledged before its id is used again
          QueueBound,  \* messages and answers on their way when another is sent
          MaxChanges, MaxFaults, \* bounds on what changes and on what fails
          None

ReportsAssumption ==
  /\ Healthy \subseteq Instances /\ None \notin Instances \cup Capabilities
  /\ "stopped" \notin Instances /\ IsFiniteSet(Handlers)
  /\ {Ids, QueueBound, MaxChanges, MaxFaults} \subseteq Nat /\ Ids > 1 /\ QueueBound > 0

VARIABLES
  instance, capabilities, \* what the connector would report now
  changes, faults,
  socket,   \* number of the connector's socket
  ready,    \* AgentReadyState: what was sent last and acknowledged
  sent,     \* AppServerInstancesSendState: id, key and snapshot sent last
  acked,    \* the id and key acknowledged
  nextId,
  up, down, \* messages and acknowledgements on their way
  handler,  \* what each handler of the Worker is doing
  peerReady,\* whether the socket has said it is ready
  gone,     \* clean-up of the last socket: "no", "due", "stop", "rows"
  paused,   \* whether the dogfood guard refuses reports
  cache,    \* appServerReportCache
  row, rowCapabilities

truth == <<instance, capabilities, changes>>
state == <<ready, sent, acked, nextId>>
worker == <<handler, peerReady, gone, cache, row, rowCapabilities>>
vars == <<truth, faults, socket, state, up, down, worker, paused>>

Message == [kind : {"ready"}, value : Capabilities] \cup
           [kind : {"instances"}, value : Instances, id : 1..Ids, snapshot : BOOLEAN, summary : BOOLEAN]
Quiet == [step |-> "idle"]
Handled == [step : {"check", "look", "store", "answer"}, message : Message, socket : Nat,
            existing : Instances \cup {"stopped", None}]

TypeOK ==
  /\ instance \in Instances /\ capabilities \in Capabilities
  /\ changes \in 0..MaxChanges /\ faults \in 0..MaxFaults /\ socket \in Nat
  /\ ready.sent \in Capabilities /\ ready.acked \in {None, ready.sent}
  /\ sent \in [id : 0..Ids, key : Instances \cup {None}, snapshot : BOOLEAN]
  /\ acked \in [id : 0..Ids, key : Instances \cup {None}] /\ nextId \in 1..Ids
  /\ up \in Seq(Message) /\ Len(up) <= QueueBound + 1
  /\ down \in Seq([kind : {"ready"}, value : Capabilities] \cup [kind : {"instances"}, id : 1..Ids])
  /\ handler \in [Handlers -> {Quiet} \cup Handled]
  /\ peerReady \in BOOLEAN /\ gone \in {"no", "due", "stop", "rows"} /\ paused \in BOOLEAN
  /\ cache \in Instances \cup {None} /\ row \in Instances \cup {"stopped", None}
  /\ rowCapabilities \in Capabilities \cup {None}
-----------------------------------------------------------------------------
(* Sending.  What is sent on a new socket is sent whatever was sent before. *)

ReadyMessage == [kind |-> "ready", value |-> capabilities]

Report(snapshot, summary) ==
  [kind |-> "instances", value |-> instance, id |-> nextId, snapshot |-> snapshot,
   summary |-> summary]

SentReport(snapshot) ==
  /\ sent' = [id |-> nextId, key |-> instance, snapshot |-> snapshot]
  /\ acked' = [id |-> 0, key |-> None]
  /\ nextId' = (nextId % Ids) + 1

Init ==
  /\ instance \in Instances /\ capabilities \in Capabilities /\ changes = 0 /\ faults = 0
  /\ socket = 1
  /\ ready = [sent |-> capabilities, acked |-> None]
  /\ sent = [id |-> 1, key |-> instance, snapshot |-> TRUE]
  /\ acked = [id |-> 0, key |-> None] /\ nextId = 2
  /\ up = <<ReadyMessage, [Report(TRUE, FALSE) EXCEPT !.id = 1]>> /\ down = <<>>
  /\ handler = [h \in Handlers |-> Quiet] /\ peerReady = FALSE /\ gone = "no" /\ paused = FALSE
  /\ cache = None /\ row = None /\ rowCapabilities = None

(* late: the interval since the last one has passed.                        *)
ReadyIsDue(late) ==
  /\ ~(ready.sent = capabilities /\ ready.acked = capabilities)
  /\ ready.sent = capabilities => late

\* Mutant.
SentReadyKeepsAck == ready' = [sent |-> capabilities, acked |-> ready.acked]

SentReady == ready' = [sent |-> capabilities,
                       acked |-> IF ready.sent # capabilities THEN None ELSE ready.acked]

\* Mutant.
NoSummaryIsDue(late) == acked.key # instance /\ (sent.key = instance => late)

(* Acknowledged, it waits for the time of a summary; else for the retry.    *)
ReportIsDue(late) == acked.key = instance \/ sent.key = instance => late

UnackedSnapshot == sent.snapshot /\ sent.key = instance /\ sent.id # 0 /\ acked.id # sent.id

OnTheirWay == Len(up) + Len(down) + Cardinality({h \in Handlers : handler[h] # Quiet})
Connector == OnTheirWay < QueueBound /\ UNCHANGED <<truth, faults, socket, down, worker, paused>>

(* In every round, of the idle loop or of one that waits for a turn: the    *)
(* retry of either and the time of a summary may have come.                 *)
Tick(readyLate, reportLate) ==
  /\ Connector
  /\ \/ /\ ReadyIsDue(readyLate) /\ ready.sent # capabilities
        /\ SentReady /\ SentReport(TRUE)
        /\ up' = up \o <<ReadyMessage, Report(TRUE, FALSE)>>
     \/ /\ ReadyIsDue(readyLate) /\ ready.sent = capabilities /\ ~ReportIsDue(reportLate)
        /\ SentReady /\ up' = Append(up, ReadyMessage) /\ UNCHANGED <<sent, acked, nextId>>
     \/ /\ ReportIsDue(reportLate) /\ ~(ReadyIsDue(readyLate) /\ ready.sent # capabilities)
        /\ SentReport(UnackedSnapshot)
        /\ up' = up \o (IF ReadyIsDue(readyLate) THEN <<ReadyMessage>> ELSE <<>>)
                    \o <<Report(UnackedSnapshot, acked.key = instance)>>
        /\ IF ReadyIsDue(readyLate) THEN SentReady ELSE UNCHANGED ready

(* Before a command or a request is handled.                                *)
OtherText(late) ==
  /\ Connector /\ ReadyIsDue(late) /\ SentReady
  /\ IF ready.sent # capabilities
       THEN SentReport(TRUE) /\ up' = up \o <<ReadyMessage, Report(TRUE, FALSE)>>
       ELSE up' = Append(up, ReadyMessage) /\ UNCHANGED <<sent, acked, nextId>>

AcknowledgeReady ==
  /\ down # <<>> /\ Head(down).kind = "ready" /\ down' = Tail(down)
  /\ ready' = [sent |-> Head(down).value, acked |-> Head(down).value]
  /\ UNCHANGED <<truth, faults, socket, sent, acked, nextId, up, worker, paused>>

(* Of a report sent earlier it says nothing.                                *)
AcknowledgeReport ==
  /\ down # <<>> /\ Head(down).kind = "instances" /\ down' = Tail(down)
  /\ acked' = IF Head(down).id = sent.id THEN [id |-> sent.id, key |-> sent.key] ELSE acked
  /\ UNCHANGED <<truth, faults, socket, ready, sent, nextId, up, worker, paused>>
-----------------------------------------------------------------------------
(* The Worker.                                                              *)

AtWorker == UNCHANGED <<truth, faults, socket, state, paused>>
Answer(ack, from) == down' = IF from = socket THEN Append(down, ack) ELSE down

Take(h) ==
  /\ up # <<>> /\ handler[h] = Quiet /\ up' = Tail(up)
  /\ handler' = [handler EXCEPT ![h] =
       [step |-> IF Head(up).kind = "ready" THEN "store" ELSE "check", message |-> Head(up),
        socket |-> socket, existing |-> None]]
  /\ AtWorker /\ UNCHANGED <<down, peerReady, gone, cache, row, rowCapabilities>>

Is(h, kind, step) == handler[h].step = step /\ handler[h].message.kind = kind

StoreReady(h) ==
  /\ Is(h, "ready", "store")
  /\ handler' = [handler EXCEPT ![h].step = "answer"]
  /\ rowCapabilities' = handler[h].message.value
  /\ AtWorker /\ UNCHANGED <<up, down, peerReady, gone, cache, row>>

AnswerReady(h) ==
  /\ Is(h, "ready", "answer")
  /\ handler' = [handler EXCEPT ![h] = Quiet]
  /\ peerReady' = (peerReady \/ handler[h].socket = socket)
  /\ Answer(handler[h].message, handler[h].socket)
  /\ AtWorker /\ UNCHANGED <<up, gone, cache, row, rowCapabilities>>

AnswerReport(h) ==
  Answer([kind |-> "instances", id |-> handler[h].message.id], handler[h].socket)

(* A duplicate of what was accepted less than a minute ago; a summary comes *)
(* later than that.                                                         *)
IsDuplicate(m) == m.value \in Healthy /\ ~m.snapshot /\ ~m.summary /\ cache = m.value

(* Refused by the guard, or skipped: answered all the same.                 *)
Skip(h) ==
  /\ Is(h, "instances", "check") /\ (paused \/ IsDuplicate(handler[h].message))
  /\ handler' = [handler EXCEPT ![h] = Quiet] /\ AnswerReport(h)
  /\ AtWorker /\ UNCHANGED <<up, peerReady, gone, cache, row, rowCapabilities>>

Accept(h) ==
  /\ Is(h, "instances", "check") /\ ~paused
  /\ handler' = [handler EXCEPT ![h].step = "look"]
  /\ AtWorker /\ UNCHANGED <<up, down, peerReady, gone, cache, row, rowCapabilities>>

Look(h) ==
  /\ Is(h, "instances", "look")
  /\ handler' = [handler EXCEPT ![h].step = "store", ![h].existing = row]
  /\ AtWorker /\ UNCHANGED <<up, down, peerReady, gone, cache, row, rowCapabilities>>

(* What was stored already may be left as it is, and is written again once  *)
(* the debounce has passed (shouldPersistAppServerInstance).                *)
Store(h) ==
  /\ Is(h, "instances", "store")
  /\ handler' = [handler EXCEPT ![h].step = "answer"]
  /\ \/ row' = handler[h].message.value
     \/ handler[h].existing = handler[h].message.value /\ UNCHANGED row
  /\ AtWorker /\ UNCHANGED <<up, down, peerReady, gone, cache, rowCapabilities>>

RememberAndAnswer(h) ==
  /\ Is(h, "instances", "answer")
  /\ LET m == handler[h].message IN
     cache' = IF m.value \in Healthy /\ ~m.snapshot THEN m.value ELSE None
  /\ handler' = [handler EXCEPT ![h] = Quiet] /\ AnswerReport(h)
  /\ AtWorker /\ UNCHANGED <<up, peerReady, gone, row, rowCapabilities>>

Handle(h) ==
  \/ StoreReady(h) \/ AnswerReady(h) \/ Skip(h) \/ Accept(h)
  \/ Look(h) \/ Store(h) \/ RememberAndAnswer(h)

(* The socket of the last connection is cleaned up after, with waits        *)
(* between the look for a ready peer, the cache and the rows.               *)
SocketGone ==
  /\ gone = "due" /\ gone' = IF peerReady THEN "no" ELSE "stop"
  /\ AtWorker /\ UNCHANGED <<up, down, handler, peerReady, cache, row, rowCapabilities>>

ForgetReports ==
  /\ gone = "stop" /\ gone' = "rows" /\ cache' = None
  /\ AtWorker /\ UNCHANGED <<up, down, handler, peerReady, row, rowCapabilities>>

StopInstances ==
  /\ gone = "rows" /\ gone' = "no"
  /\ row' = IF paused \/ row = None THEN row ELSE "stopped"
  /\ AtWorker /\ UNCHANGED <<up, down, handler, peerReady, cache, rowCapabilities>>
-----------------------------------------------------------------------------
(* Changes and faults.                                                      *)

Change ==
  /\ changes < MaxChanges /\ changes' = changes + 1
  /\ instance' \in Instances /\ capabilities' \in Capabilities
  /\ UNCHANGED <<faults, socket, state, up, down, worker, paused>>

Fault == faults < MaxFaults /\ faults' = faults + 1

(* A statement of the Worker throws: no answer.                             *)
WorkerFails ==
  /\ Fault /\ up # <<>> /\ up' = Tail(up)
  /\ UNCHANGED <<truth, socket, state, down, worker, paused>>

Pause ==
  /\ (Fault \/ (paused /\ UNCHANGED faults)) /\ paused' = ~paused
  /\ UNCHANGED <<truth, socket, state, up, down, worker>>

(* The connector connects again and starts afresh; what a handler has taken *)
(* goes on.                                                                 *)
Reconnect ==
  /\ Fault /\ gone = "no" /\ socket' = socket + 1 /\ gone' = "due" /\ peerReady' = FALSE
  /\ ready' = [sent |-> capabilities, acked |-> None]
  /\ sent' = [id |-> nextId, key |-> instance, snapshot |-> TRUE]
  /\ acked' = [id |-> 0, key |-> None] /\ nextId' = (nextId % Ids) + 1
  /\ up' = <<ReadyMessage, Report(TRUE, FALSE)>> /\ down' = <<>>
  /\ UNCHANGED <<truth, handler, cache, row, rowCapabilities, paused>>

CleanUp == SocketGone \/ ForgetReports \/ StopInstances

Next ==
  \/ \E readyLate, reportLate \in BOOLEAN : Tick(readyLate, reportLate)
  \/ \E late \in BOOLEAN : OtherText(late)
  \/ AcknowledgeReady \/ AcknowledgeReport
  \/ \E h \in Handlers : Take(h) \/ Handle(h)
  \/ CleanUp \/ Change \/ WorkerFails \/ Pause \/ Reconnect

(* The connector looks at its intervals in every round, which takes a       *)
(* second, and whatever is on its way they pass; the Worker handles what    *)
(* reaches it, and forgets an accepted report after a minute, whatever it   *)
(* skips till then.                                                         *)
Spec == Init /\ [][Next]_vars
FairSpec ==
  /\ Spec
  /\ SF_vars(Tick(TRUE, TRUE)) /\ WF_vars(AcknowledgeReady \/ AcknowledgeReport)
  /\ WF_vars(\E h \in Handlers : Take(h))
  /\ \A h \in Handlers : WF_vars(Handle(h)) /\ SF_vars(Accept(h))
  /\ WF_vars(CleanUp)
-----------------------------------------------------------------------------
AllHandled == up = <<>> /\ down = <<>> /\ \A h \in Handlers : handler[h] = Quiet

(* With nothing on its way, the capabilities the connector counts as        *)
(* acknowledged, and will not send again, are those in the Worker's row, by *)
(* which commands are given out.                                            *)
AckedReadyIsStored == AllHandled /\ ready.acked # None => rowCapabilities = ready.acked

(* After the last change the Worker's row comes to tell the state of the    *)
(* app-server and stays so, whatever was lost, refused, handled out of      *)
(* order or stopped by the clean-up after an earlier socket.                *)
RowConverges == <>[]~paused => <>[](row = instance)

(* The same for the capabilities.                                           *)
CapabilitiesConverge == <>[](rowCapabilities = capabilities)
=============================================================================
