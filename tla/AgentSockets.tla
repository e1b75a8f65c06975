---------------------------- MODULE AgentSockets ----------------------------
(***************************************************************************)
(* One connector and the Durable Object WorkspaceDO it is connected to:    *)
(* apps/worker/src/workspace-do.ts with the connector loop of              *)
(* crates/agent/src/connector.rs.  The Durable Object keeps an attachment  *)
(* for every agent socket and runs one handler per message, request or     *)
(* close event; a handler stops at every await and others run meanwhile.   *)
(* A database call takes effect in one step and the handler goes on in a   *)
(* later one.                                                              *)
(*                                                                         *)
(* The command rows are those of CommandTable with all that concerns host  *)
(* sessions and other connectors left out.                                 *)
(***************************************************************************)
EXTENDS Naturals, Sequences, FiniteSets

CONSTANTS
    NumSockets,   \* bound on the connections the connector opens
    NumCommands,  \* bound on the commands created
    MaxWaiting,   \* bound on the dispatches that wait on a socket while leases
                  \* expire, and on the reports that wait to be handled
    Handlers,     \* handlers that may be in flight at the same time
    MayExpire,    \* whether a lease may run out
    Postures,     \* what the dogfood safety guard may answer
    MayDie,       \* whether a handler may be lost at an await
    None

ASSUME AgentSocketsAssumption ==
    /\ NumSockets \in Nat /\ NumCommands \in Nat /\ MaxWaiting \in Nat
    /\ {MayExpire, MayDie} \subseteq BOOLEAN
    /\ Postures \subseteq {"normal", "conservative", "blocked"}
    /\ None \notin Nat

VARIABLES
    socket,    \* the attachment of every agent socket
    cooling,   \* whether hostSessionsRefreshSentAt is within the cooldown
    status,    \* connectors.status
    command,   \* the state of every command row, and whether its lease is over
    work,      \* the dispatches sent on a socket and not yet handled
    mail,      \* the other messages sent on a socket and not yet handled
    inbox,     \* the messages of the connector not yet handled
    agent,     \* the connector: its socket and what it is doing
    begun,     \* how often the connector has begun to execute a command
    run        \* the frame of every handler

vars == <<socket, cooling, status, command, work, mail, inbox, agent, begun, run>>

-----------------------------------------------------------------------------

\* Sockets are numbered in the order they connect, which is the order of
\* their connectedAt.
Sockets == 1 .. NumSockets
Commands == 1 .. NumCommands
OrNone(S) == S \cup {None}

Attachments == [phase : {"new", "open", "gone"}, ready : BOOLEAN,
                pending : {"no", "yes", "late"}, active : SUBSET Commands]
CommandRows == [state : {"absent", "pending", "leased", "running", "succeeded", "failed"},
                expired : BOOLEAN]
Mail == [kind : {"ready", "refresh"}]
        \cup [kind : {"started", "finished"}, id : Commands, accepted : BOOLEAN]
Messages == [kind : {"ready", "report"}] \cup [kind : {"started", "finished"}, id : Commands]
Agents == [socket : OrNone(Sockets), doing : {"reading", "starting", "executing", "ending"},
           id : OrNone(Commands), acked : BOOLEAN]

Idle == [op |-> "idle"]
ReadyFrames == [op : {"ready"}, at : {"update", "mark", "refresh", "dispatch"},
                socket : Sockets, news : BOOLEAN]
ReportFrames == [op : {"report"}, at : {"answer"}, socket : Sockets]
EventFrames == [op : {"event"}, at : {"record", "answer"}, socket : Sockets,
                id : Commands, kind : {"started", "finished"}, accepted : BOOLEAN]
DispatchFrames == [op : {"dispatch"},
                   at : {"lease", "send", "release", "after", "degrade", "pick", "pickListed"},
                   socket : OrNone(Sockets), id : OrNone(Commands), seen : SUBSET Sockets]
GoneFrames == [op : {"gone"}, at : {"select", "fail", "degrade", "offline"}, socket : Sockets,
               peer : BOOLEAN, readyPeer : BOOLEAN, rest : SUBSET Commands]
Frames == {Idle} \cup ReadyFrames \cup ReportFrames \cup EventFrames
          \cup DispatchFrames \cup GoneFrames

TypeOK ==
    /\ socket \in [Sockets -> Attachments]
    /\ cooling \in BOOLEAN
    /\ status \in {"online", "degraded", "offline"}
    /\ command \in [Commands -> CommandRows]
    /\ work \in [Sockets -> Seq(Commands)]
    /\ mail \in [Sockets -> SUBSET Mail]
    /\ inbox \in [Sockets -> Seq(Messages)]
    /\ agent \in Agents
    /\ begun \in [Commands -> Nat]
    /\ run \in [Handlers -> Frames]

Unattached == [phase |-> "new", ready |-> FALSE, pending |-> "no", active |-> {}]
Away == [socket |-> None, doing |-> "reading", id |-> None, acked |-> FALSE]

Init ==
    /\ socket = [s \in Sockets |-> Unattached]
    /\ cooling = FALSE
    /\ status = "offline"
    /\ command = [c \in Commands |-> [state |-> "absent", expired |-> FALSE]]
    /\ work = [s \in Sockets |-> <<>>]
    /\ mail = [s \in Sockets |-> {}]
    /\ inbox = [s \in Sockets |-> <<>>]
    /\ agent = Away
    /\ begun = [c \in Commands |-> 0]
    /\ run = [w \in Handlers |-> Idle]

-----------------------------------------------------------------------------
(* The sockets as the Durable Object lists them.                           *)

Listed == {s \in Sockets : socket[s].phase = "open"}
Ready == {s \in Listed : socket[s].ready}
Newest(S) == CHOOSE s \in S : \A t \in S : t <= s

\* Mutant: the cooldown alone is trusted to keep refreshes apart.
RefreshingNever(attached) == FALSE

\* A socket on which the host sessions have been asked for, and whose deadline
\* has not passed, defers every dispatch to the connector.
Refreshing(attached) == \E s \in Sockets : attached[s].phase = "open" /\ attached[s].pending = "yes"

\* Looking for such a socket drops the flags whose deadline has passed.
Looked(attached) ==
    [s \in Sockets |->
        IF attached[s].phase = "open" /\ attached[s].pending = "late"
        THEN [attached[s] EXCEPT !.pending = "no"] ELSE attached[s]]

Active(c) == command[c].state \in {"leased", "running"}
Leasable(c) == command[c].state = "pending" \/ (command[c].state = "leased" /\ command[c].expired)

Free(w) == run[w].op = "idle"
End(w) == run' = [run EXCEPT ![w] = Idle]
Goto(w, at) == run' = [run EXCEPT ![w].at = at]

\* send throws on a socket known to be closed, and may throw on one that the
\* connector has left; what was sent on such a socket is lost.
Left(s) == agent.socket # s
Throws(s) == socket[s].phase = "gone" \/ Left(s)
Delivers(s) == socket[s].phase = "open"
Mailed(s, m) == IF Left(s) THEN mail ELSE [mail EXCEPT ![s] = @ \cup {m}]

\* sendPendingCommands begins with its checks, in the turn of its caller.
Dispatch(at, s, c) == [op |-> "dispatch", at |-> at, socket |-> s, id |-> c, seen |-> {}]

\* Mutant: the command is sent before one is leased.
DispatchUnleased(s, attached) ==
    IF attached[s].ready /\ ~Refreshing(attached) THEN Dispatch("send", s, None) ELSE Idle

DispatchOn(s, attached) ==
    IF attached[s].ready /\ ~Refreshing(attached) THEN Dispatch("lease", s, None) ELSE Idle

\* The safety guard: "blocked" ends a handler before it dispatches, and a
\* refresh needs "normal".
MayRefresh == "normal" \in Postures
MayDispatch == Postures \cap {"normal", "conservative"} # {}
Blocked(w) == "blocked" \in Postures /\ End(w)

-----------------------------------------------------------------------------
(* agent.ready                                                             *)

Takes(w, s, kind) ==
    /\ Free(w) /\ s \in Listed /\ inbox[s] # <<>> /\ Head(inbox[s]).kind = kind
    /\ inbox' = [inbox EXCEPT ![s] = Tail(@)]

ReadyBegin(w, s) ==
    /\ Takes(w, s, "ready")
    /\ run' = [run EXCEPT ![w] =
                 [op |-> "ready", at |-> "update", socket |-> s, news |-> ~socket[s].ready]]
    /\ UNCHANGED <<socket, cooling, status, command, work, mail, agent, begun>>

\* updateConnectorCapabilities tells whether the row changed.
ReadyUpdate(w) ==
    /\ run[w].op = "ready" /\ run[w].at = "update"
    /\ status' = "online"
    /\ run' = [run EXCEPT ![w].at = "mark", ![w].news = @ \/ status # "online"]
    /\ UNCHANGED <<socket, cooling, command, work, mail, inbox, agent, begun>>

\* markAgentReady and the acknowledgement.
ReadyMark(w) ==
    /\ run[w].op = "ready" /\ run[w].at = "mark"
    /\ LET s == run[w].socket
       IN  /\ socket' = [socket EXCEPT ![s].ready = TRUE,
                                       ![s].pending = IF @ = "late" THEN "no" ELSE @]
           /\ \/ /\ Delivers(s)
                 /\ mail' = Mailed(s, [kind |-> "ready"])
                 /\ IF run[w].news THEN Goto(w, "refresh") ELSE End(w)
              \/ Throws(s) /\ End(w) /\ UNCHANGED mail
    /\ UNCHANGED <<cooling, status, command, work, inbox, agent, begun>>

\* dispatchHostSessionsRefreshToSocket: at most one refresh is in flight.
AskSessions(s) ==
    IF Refreshing(socket) \/ cooling
    THEN socket' = Looked(socket) /\ UNCHANGED <<cooling, mail>>
    ELSE /\ Delivers(s)
         /\ mail' = Mailed(s, [kind |-> "refresh"])
         /\ cooling' = TRUE
         /\ socket' = [Looked(socket) EXCEPT ![s].pending = IF socket[s].ready THEN "yes" ELSE @]

ReadyRefresh(w) ==
    /\ run[w].op = "ready" /\ run[w].at = "refresh"
    /\ \/ MayRefresh /\ AskSessions(run[w].socket) /\ Goto(w, "dispatch")
       \/ /\ MayRefresh /\ ~Refreshing(socket) /\ ~cooling /\ Throws(run[w].socket)
          /\ socket' = Looked(socket) /\ End(w) /\ UNCHANGED <<cooling, mail>>
       \/ /\ \/ "conservative" \in Postures /\ Goto(w, "dispatch")
             \/ Blocked(w)
          /\ UNCHANGED <<socket, cooling, mail>>
    /\ UNCHANGED <<status, command, work, inbox, agent, begun>>

ReadyDispatch(w) ==
    /\ run[w].op = "ready" /\ run[w].at = "dispatch"
    /\ socket' = Looked(socket)
    /\ run' = [run EXCEPT ![w] = DispatchOn(run[w].socket, socket)]
    /\ UNCHANGED <<cooling, status, command, work, mail, inbox, agent, begun>>

-----------------------------------------------------------------------------
(* agent.host_sessions, and the refresh a browser asks for                 *)

ReportBegin(w, s) ==
    /\ Takes(w, s, "report")
    /\ run' = [run EXCEPT ![w] = [op |-> "report", at |-> "answer", socket |-> s]]
    /\ UNCHANGED <<socket, cooling, status, command, work, mail, agent, begun>>

\* The report that answers a refresh ends the deferral and dispatches.
ReportAnswer(w) ==
    /\ run[w].op = "report"
    /\ LET s == run[w].socket
           consumed == [socket EXCEPT ![s].pending = "no"]
       IN  \/ /\ Delivers(s)
              /\ IF socket[s].ready /\ socket[s].pending # "no"
                 THEN \/ /\ MayDispatch
                         /\ socket' = Looked(consumed)
                         /\ run' = [run EXCEPT ![w] = DispatchOn(s, consumed)]
                      \/ Blocked(w) /\ socket' = consumed
                 ELSE UNCHANGED socket /\ End(w)
           \/ Throws(s) /\ End(w) /\ UNCHANGED socket
    /\ UNCHANGED <<cooling, status, command, work, mail, inbox, agent, begun>>

\* refreshHostSessions, for the newest ready socket.
RefreshRequest ==
    /\ MayRefresh
    /\ Ready # {} /\ ~cooling
    /\ AskSessions(Newest(Ready))
    /\ UNCHANGED <<status, command, work, inbox, agent, begun, run>>

\* The deadline of a refresh passes; the cooldown lasts longer.
RefreshLapses(s) ==
    /\ s \in Listed /\ socket[s].pending = "yes"
    /\ socket' = [socket EXCEPT ![s].pending = "late"]
    /\ UNCHANGED <<cooling, status, command, work, mail, inbox, agent, begun, run>>

CooldownEnds ==
    /\ cooling /\ \A s \in Listed : socket[s].pending # "yes"
    /\ cooling' = FALSE
    /\ UNCHANGED <<socket, status, command, work, mail, inbox, agent, begun, run>>

-----------------------------------------------------------------------------
(* agent.event                                                             *)

EventBegin(w, s, kind) ==
    /\ Takes(w, s, kind)
    /\ run' = [run EXCEPT ![w] = [op |-> "event", at |-> "record", socket |-> s,
                 id |-> Head(inbox[s]).id, kind |-> kind, accepted |-> FALSE]]
    /\ UNCHANGED <<socket, cooling, status, command, work, mail, agent, begun>>

\* Mutant: the state of the command is not looked at.
AcceptsAlways(c) == command[c].state # "absent"

\* Mutant: an event is taken for the start, whatever it is.
AcceptsLeased(c) == command[c].state = "leased"

\* recordAgentEvent accepts the events of an active command.
Accepts(c) == Active(c)

EventRecord(w) ==
    /\ run[w].op = "event" /\ run[w].at = "record"
    /\ LET c == run[w].id
       IN  /\ command' = IF Accepts(c)
                THEN [command EXCEPT ![c].state =
                        IF run[w].kind = "started" THEN "running" ELSE "succeeded"]
                ELSE command
           /\ run' = [run EXCEPT ![w].at = "answer", ![w].accepted = Accepts(c)]
    /\ UNCHANGED <<socket, cooling, status, work, mail, inbox, agent, begun>>

\* Mutant: every event clears the command from the socket.
ClearsAlways(f) == TRUE

\* A final event, accepted or not, takes the command off the socket and has
\* the next one dispatched.
Clears(f) == f.kind = "finished"

EventAnswer(w) ==
    /\ run[w].op = "event" /\ run[w].at = "answer"
    /\ LET f == run[w]
           s == f.socket
           cleared == [socket EXCEPT ![s].active = @ \ {f.id}]
       IN  \/ /\ Delivers(s)
              /\ mail' = Mailed(s, [kind |-> f.kind, id |-> f.id, accepted |-> f.accepted])
              /\ IF Clears(f)
                 THEN /\ socket' = Looked(cleared)
                      /\ run' = [run EXCEPT ![w] = DispatchOn(s, cleared)]
                 ELSE UNCHANGED socket /\ End(w)
           \/ Throws(s) /\ End(w) /\ UNCHANGED <<socket, mail>>
    /\ UNCHANGED <<cooling, status, command, work, inbox, agent, begun>>

-----------------------------------------------------------------------------
(* sendPendingCommandsToAgents and sendPendingCommands                     *)

\* A user creates a command, and the route asks for its dispatch.
Request(w, c) ==
    /\ Free(w)
    /\ command[c].state = "absent" /\ \A d \in Commands : d < c => command[d].state # "absent"
    /\ command' = [command EXCEPT ![c].state = "pending"]
    /\ run' = [run EXCEPT ![w] = Dispatch("pick", None, None)]
    /\ UNCHANGED <<socket, cooling, status, work, mail, inbox, agent, begun>>

\* dispatchPending for a connector whose commands a detach has released.
DispatchRequest(w) ==
    /\ Free(w)
    /\ run' = [run EXCEPT ![w] = Dispatch("pick", None, None)]
    /\ UNCHANGED <<socket, cooling, status, command, work, mail, inbox, agent, begun>>

\* dispatchPending for every connector, at the end of a pause: the sockets are
\* listed, and the connectors that wait for a refresh left out, before awaits.
ResumeRequest(w) ==
    /\ Free(w) /\ MayDispatch /\ Listed # {} /\ ~Refreshing(socket)
    /\ socket' = Looked(socket)
    /\ run' = [run EXCEPT ![w] = [Dispatch("pickListed", None, None) EXCEPT !.seen = Listed]]
    /\ UNCHANGED <<cooling, status, command, work, mail, inbox, agent, begun>>

\* After them a listed socket may be closed, and is picked all the same.
PickListed(w) ==
    /\ run[w].op = "dispatch" /\ run[w].at = "pickListed"
    /\ LET ready == {s \in run[w].seen : socket[s].ready /\ socket[s].pending # "yes"}
       IN  \/ /\ MayDispatch
              /\ socket' = Looked(socket)
              /\ run' = [run EXCEPT ![w] =
                   IF ready = {} THEN Idle ELSE DispatchOn(Newest(ready), socket)]
           \/ Blocked(w) /\ UNCHANGED socket
    /\ UNCHANGED <<cooling, status, command, work, mail, inbox, agent, begun>>

\* The newest ready socket, unless a refresh is waited for.
Pick(w) ==
    /\ run[w].op = "dispatch" /\ run[w].at = "pick"
    /\ \/ /\ MayDispatch
          /\ socket' = Looked(socket)
          /\ run' = [run EXCEPT ![w] =
               IF Ready = {} \/ Refreshing(socket) THEN Idle ELSE Dispatch("lease", Newest(Ready), None)]
       \/ Blocked(w) /\ UNCHANGED socket
    /\ UNCHANGED <<cooling, status, command, work, mail, inbox, agent, begun>>

\* pendingCommandsForConnector: the oldest command, if any may be leased.
Lease(w) ==
    /\ run[w].op = "dispatch" /\ run[w].at = "lease"
    /\ \/ \E c \in Commands :
             /\ MayDispatch /\ status = "online"
             /\ Leasable(c) /\ \A d \in Commands : Leasable(d) => c <= d
             /\ command' = [command EXCEPT ![c] = [state |-> "leased", expired |-> FALSE]]
             /\ run' = [run EXCEPT ![w].at = "send", ![w].id = c]
       \/ /\ status # "online" \/ \A c \in Commands : ~Leasable(c)
          /\ End(w) /\ UNCHANGED command
       \/ Blocked(w) /\ UNCHANGED command
    /\ UNCHANGED <<socket, cooling, status, work, mail, inbox, agent, begun>>

\* recordSocketCommand and send.  If send throws the command is taken off the
\* socket again, and the socket is no longer ready.
Send(w) ==
    /\ run[w].op = "dispatch" /\ run[w].at = "send"
    /\ LET s == run[w].socket
           c == run[w].id
       IN  \/ /\ Delivers(s)
              /\ socket' = [socket EXCEPT ![s].active = @ \cup {c}]
              /\ work' = IF Left(s) THEN work ELSE [work EXCEPT ![s] = Append(@, c)]
              /\ End(w)
           \/ /\ Throws(s)
              /\ socket' = [socket EXCEPT ![s].active = @ \ {c}, ![s].ready = FALSE,
                                          ![s].pending = "no"]
              /\ Goto(w, "release") /\ UNCHANGED work
    /\ UNCHANGED <<cooling, status, command, mail, inbox, agent, begun>>

\* releaseLeasedCommandsForConnector
Releases(c) == command[c].state = "leased"

Release(w) ==
    /\ run[w].op = "dispatch" /\ run[w].at = "release"
    /\ LET c == run[w].id
       IN  command' = IF Releases(c)
                      THEN [command EXCEPT ![c] = [state |-> "pending", expired |-> FALSE]]
                      ELSE command
    /\ Goto(w, "after")
    /\ UNCHANGED <<socket, cooling, status, work, mail, inbox, agent, begun>>

AfterRelease(w) ==
    /\ run[w].op = "dispatch" /\ run[w].at = "after"
    /\ Goto(w, IF Ready \ {run[w].socket} = {} THEN "degrade" ELSE "pick")
    /\ UNCHANGED <<socket, cooling, status, command, work, mail, inbox, agent, begun>>

DispatchDegrade(w) ==
    /\ run[w].op = "dispatch" /\ run[w].at = "degrade"
    /\ status' = "degraded"
    /\ Goto(w, "pick")
    /\ UNCHANGED <<socket, cooling, command, work, mail, inbox, agent, begun>>

-----------------------------------------------------------------------------
(* handleSocketGone                                                        *)

\* What the handler knows of the sockets it reads before any await.  The list
\* of the closed socket is not read again.
GoneBegin(w, s) ==
    /\ Free(w) /\ s \in Listed /\ Left(s)
    /\ LET readyPeer == Ready \ {s} # {}
           peer == Listed \ {s} # {}
       IN  run' = [run EXCEPT ![w] =
             IF readyPeer /\ socket[s].active = {} THEN Idle
             ELSE [op |-> "gone", at |-> "select", socket |-> s, peer |-> peer,
                   readyPeer |-> readyPeer, rest |-> socket[s].active]]
    /\ socket' = [socket EXCEPT ![s].phase = "gone", ![s].active = {}]
    /\ cooling' = (cooling /\ socket[s].pending = "no")
    /\ inbox' = [inbox EXCEPT ![s] = <<>>]
    /\ UNCHANGED <<status, command, work, mail, agent, begun>>

\* All the active commands of the connector, or those of the socket when
\* another one is ready.
ScopeOf(f) == IF f.readyPeer THEN f.rest ELSE Commands

GoneSelect(w) ==
    /\ run[w].op = "gone" /\ run[w].at = "select"
    /\ run' = [run EXCEPT ![w].at = "fail", ![w].rest = {c \in ScopeOf(run[w]) : Active(c)}]
    /\ UNCHANGED <<socket, cooling, status, command, work, mail, inbox, agent, begun>>

GoneFail(w) ==
    /\ run[w].op = "gone" /\ run[w].at = "fail"
    /\ \/ \E c \in run[w].rest :
             /\ command' = IF Active(c)
                  THEN [command EXCEPT ![c] = [state |-> "failed", expired |-> FALSE]] ELSE command
             /\ run' = [run EXCEPT ![w].rest = @ \ {c}]
       \/ /\ run[w].rest = {}
          /\ IF run[w].readyPeer THEN End(w) ELSE Goto(w, IF run[w].peer THEN "degrade" ELSE "offline")
          /\ UNCHANGED command
    /\ UNCHANGED <<socket, cooling, status, work, mail, inbox, agent, begun>>

GoneDegrade(w) ==
    /\ run[w].op = "gone" /\ run[w].at = "degrade"
    /\ status' = "degraded"
    /\ End(w)
    /\ UNCHANGED <<socket, cooling, command, work, mail, inbox, agent, begun>>

GoneOffline(w) ==
    /\ run[w].op = "gone" /\ run[w].at = "offline"
    /\ status' = "offline"
    /\ End(w)
    /\ UNCHANGED <<socket, cooling, command, work, mail, inbox, agent, begun>>

-----------------------------------------------------------------------------
(* The clock, and the life of the Durable Object.                          *)

LeaseExpires(c) ==
    /\ MayExpire /\ command[c].state = "leased" /\ ~command[c].expired
    /\ \A s \in Sockets : Len(work[s]) < MaxWaiting   \* bound
    /\ command' = [command EXCEPT ![c].expired = TRUE]
    /\ UNCHANGED <<socket, cooling, status, work, mail, inbox, agent, begun, run>>

\* With no handler in flight the Durable Object may hibernate: attachments
\* survive, the map of refresh times does not.
Hibernate ==
    /\ \A w \in Handlers : Free(w)
    /\ cooling /\ cooling' = FALSE
    /\ UNCHANGED <<socket, status, command, work, mail, inbox, agent, begun, run>>

\* A statement throws and the rest of the handler never happens.
Die(w) ==
    /\ MayDie /\ ~Free(w)
    /\ End(w)
    /\ UNCHANGED <<socket, cooling, status, command, work, mail, inbox, agent, begun>>

-----------------------------------------------------------------------------
(* The connector: run_connected_session and handle_text_message            *)

Connect ==
    /\ agent.socket = None
    /\ \E s \in Sockets :
          /\ socket[s].phase = "new" /\ \A t \in Sockets : t < s => socket[t].phase # "new"
          /\ socket' = [socket EXCEPT ![s].phase = "open"]
          /\ inbox' = [inbox EXCEPT ![s] = <<[kind |-> "ready"]>>]
          /\ agent' = [Away EXCEPT !.socket = s]
    /\ UNCHANGED <<cooling, status, command, work, mail, begun, run>>

\* The connection breaks, or an acknowledgement does not come in time.
Leave ==
    /\ agent.socket # None
    /\ agent' = Away
    /\ work' = [work EXCEPT ![agent.socket] = <<>>]
    /\ mail' = [mail EXCEPT ![agent.socket] = {}]
    /\ UNCHANGED <<socket, cooling, status, command, inbox, begun, run>>

Says(m) == inbox' = [inbox EXCEPT ![agent.socket] = Append(@, m)]
Hears(m) == /\ agent.socket # None /\ m \in mail[agent.socket]
            /\ mail' = [mail EXCEPT ![agent.socket] = @ \ {m}]

\* Until it is acknowledged, ready is sent again.
SendReady ==
    /\ agent.socket # None /\ agent.doing = "reading" /\ ~agent.acked
    /\ \A i \in DOMAIN inbox[agent.socket] : inbox[agent.socket][i].kind # "ready"   \* bound
    /\ Says([kind |-> "ready"])
    /\ UNCHANGED <<socket, cooling, status, command, work, mail, agent, begun, run>>

HearReady ==
    /\ agent.doing = "reading" /\ Hears([kind |-> "ready"])
    /\ agent' = [agent EXCEPT !.acked = TRUE]
    /\ UNCHANGED <<socket, cooling, status, command, work, inbox, begun, run>>

\* A refresh is answered whatever the connector is doing.
HearRefresh ==
    /\ Hears([kind |-> "refresh"])
    /\ Cardinality({i \in DOMAIN inbox[agent.socket] :
                       inbox[agent.socket][i].kind = "report"}) < MaxWaiting   \* bound
    /\ Says([kind |-> "report"])
    /\ UNCHANGED <<socket, cooling, status, command, work, agent, begun, run>>

\* The oldest dispatch; those that come while it lasts are deferred.
TakeDispatch ==
    /\ agent.socket # None /\ agent.doing = "reading" /\ work[agent.socket] # <<>>
    /\ LET c == Head(work[agent.socket])
       IN  /\ agent' = [agent EXCEPT !.doing = "starting", !.id = c]
           /\ Says([kind |-> "started", id |-> c])
    /\ work' = [work EXCEPT ![agent.socket] = Tail(@)]
    /\ UNCHANGED <<socket, cooling, status, command, mail, begun, run>>

\* Only a start that was accepted is followed by the execution.
Begins(accepted) == accepted

HearStarted ==
    /\ agent.doing = "starting"
    /\ \E accepted \in BOOLEAN :
          /\ Hears([kind |-> "started", id |-> agent.id, accepted |-> accepted])
          /\ IF Begins(accepted)
             THEN /\ agent' = [agent EXCEPT !.doing = "executing"]
                  /\ begun' = [begun EXCEPT ![agent.id] = @ + 1]
             ELSE /\ agent' = [agent EXCEPT !.doing = "reading", !.id = None]
                  /\ UNCHANGED begun
    /\ UNCHANGED <<socket, cooling, status, command, work, inbox, run>>

Finish ==
    /\ agent.doing = "executing"
    /\ agent' = [agent EXCEPT !.doing = "ending"]
    /\ Says([kind |-> "finished", id |-> agent.id])
    /\ UNCHANGED <<socket, cooling, status, command, work, mail, begun, run>>

HearFinished ==
    /\ agent.doing = "ending"
    /\ \E accepted \in BOOLEAN :
          Hears([kind |-> "finished", id |-> agent.id, accepted |-> accepted])
    /\ agent' = [agent EXCEPT !.doing = "reading", !.id = None]
    /\ UNCHANGED <<socket, cooling, status, command, work, inbox, begun, run>>

-----------------------------------------------------------------------------

\* A message or a close event that the Durable Object takes up.
Receive(w, s) ==
    \/ ReadyBegin(w, s) \/ ReportBegin(w, s)
    \/ \E kind \in {"started", "finished"} : EventBegin(w, s, kind)
    \/ GoneBegin(w, s)

\* The next turn of a handler.
Continue(w) ==
    \/ ReadyUpdate(w) \/ ReadyMark(w) \/ ReadyRefresh(w) \/ ReadyDispatch(w)
    \/ ReportAnswer(w) \/ EventRecord(w) \/ EventAnswer(w)
    \/ Pick(w) \/ PickListed(w) \/ Lease(w) \/ Send(w) \/ Release(w) \/ AfterRelease(w) \/ DispatchDegrade(w)
    \/ GoneSelect(w) \/ GoneFail(w) \/ GoneDegrade(w) \/ GoneOffline(w)

AgentGoesOn ==
    \/ SendReady \/ HearReady \/ HearRefresh
    \/ TakeDispatch \/ HearStarted \/ Finish \/ HearFinished

Next ==
    \/ \E w \in Handlers :
          \/ \E s \in Sockets : Receive(w, s)
          \/ \E c \in Commands : Request(w, c)
          \/ DispatchRequest(w) \/ ResumeRequest(w) \/ Continue(w) \/ Die(w)
    \/ AgentGoesOn \/ Connect \/ Leave
    \/ RefreshRequest \/ CooldownEnds \/ Hibernate
    \/ \E s \in Sockets : RefreshLapses(s)
    \/ \E c \in Commands : LeaseExpires(c)

\* The database answers, what is delivered is handled (however many handlers
\* are in flight, which the model bounds), and a connector that executes a
\* command reaches its end.
Fairness ==
    /\ \A w \in Handlers : WF_vars(Continue(w))
    /\ \A s \in Sockets : SF_vars(\E w \in Handlers : Receive(w, s))
    /\ WF_vars(HearStarted) /\ WF_vars(Finish) /\ WF_vars(HearFinished)

Spec == Init /\ [][Next]_vars /\ Fairness

-----------------------------------------------------------------------------
(* What must hold.                                                         *)

Executing == agent.doing = "executing"

\* The connector executes a command once, although it may be dispatched
\* several times, on one socket or on two: the start gates the execution.
ExecutesAtMostOnce == \A c \in Commands : begun[c] <= 1

\* What the connector executes is running in the database, or has been failed
\* behind its back; it never waits for a lease that would hand it out again.
ExecutingIsRunning == Executing => command[agent.id].state \in {"running", "failed"}

\* The socket over which a command is executed has it on its list, so that an
\* answer of the user finds the socket and its close fails the command.
ExecutingSocketIsKnown ==
    (Executing /\ agent.socket \in Listed) =>
        agent.socket \in Ready /\ agent.id \in socket[agent.socket].active

\* A command is executed once, on whatever sockets it was handed out, is not
\* taken from the connector that executes it, and the socket it is executed on
\* is one whose close would fail it.
ExecutionIsSound == ExecutesAtMostOnce /\ ExecutingIsRunning /\ ExecutingSocketIsKnown

\* The host sessions are asked for on one socket of a connector at a time.
OneRefreshPending ==
    Cardinality({s \in Listed : socket[s].pending = "yes"}) <= 1

Settled ==
    /\ \A w \in Handlers : Free(w)
    /\ \A s \in Listed : inbox[s] = <<>> /\ ~Left(s)

\* When all is settled a running command is on the list of an open socket: no
\* close has overlooked it.  Without expired leases only.
RunningIsListed ==
    Settled => \A c \in Commands :
        command[c].state = "running" => \E s \in Listed : c \in socket[s].active

\* A started command ends: the connector finishes it, or the close of its
\* socket fails it.
StartedCommandsEnd ==
    \A c \in Commands :
        (command[c].state = "running") ~> (command[c].state \in {"succeeded", "failed"})

\* When all is settled a connector with a ready socket is online, as
\* workspace-do.test.ts has it for agent.ready after a degradation.  It does
\* not hold: GoneDegrade of an old socket may come after ReadyUpdate.
SettledReadyIsOnline == Settled /\ Ready # {} => status = "online"

\* When all is settled a connector without sockets is not degraded: as
\* workspace-do.test.ts has it, the close of the last one leaves it offline.
\* It does not hold: DispatchDegrade or GoneDegrade, for a socket that was
\* found closed before, may come after GoneOffline.
SettledAbsentIsNotDegraded == Settled /\ Listed = {} => status # "degraded"
=============================================================================
