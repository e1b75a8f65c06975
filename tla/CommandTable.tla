---------------------------- MODULE CommandTable ----------------------------
(***************************************************************************)
(* The command rows of the D1 database and the functions of                *)
(* apps/worker/src/db.ts that create, lease, release, start, finish and    *)
(* fail them.  One D1 statement is one atomic step.  A db.ts function is a *)
(* handler: between two of its statements (an await) any other handler may *)
(* run, and what an earlier SELECT returned is kept in the handler's frame *)
(* and used later, stale or not.                                           *)
(*                                                                         *)
(* A task and the thread it belongs to are attached to a host session and  *)
(* detached together, so they are one thing here, a lane.  The order of    *)
(* attached host sessions by updated_at is kept as `newest`: the session   *)
(* the sub-select "ORDER BY updated_at DESC LIMIT 1" returns for a lane.   *)
(***************************************************************************)
EXTENDS Naturals, FiniteSets

CONSTANTS
    Connectors,    \* registered connectors
    SessionIds,    \* Codex session ids
    HostSessions,  \* host session rows: a connector and a session id
    Lanes,         \* task and thread pairs a command can belong to
    OwnLane,       \* the lane an attach creates for a host session
    Heirs,         \* <<old, new>>: new registers with old's name and hostname
    Handlers,      \* handlers that may be in flight at the same time
    NumCommands,   \* bound on the commands ever created
    Modes,         \* kinds of command the users create
    EventKinds,    \* kinds of event the connectors report
    CapSets,       \* the sets of capabilities the connectors advertise
    MayDie,        \* whether a handler may be lost between two statements
    None           \* NULL

ASSUME CommandTableAssumption ==
    /\ HostSessions \subseteq Connectors \X SessionIds
    /\ OwnLane \in [HostSessions -> Lanes]
    /\ Heirs \subseteq Connectors \X Connectors
    /\ \A p \in Heirs, s \in SessionIds :
          <<p[1], s>> \in HostSessions => <<p[2], s>> \in HostSessions
    /\ NumCommands \in Nat
    /\ Modes \subseteq {"placeholder", "app_server", "cli_fallback"}
    /\ EventKinds \subseteq {"started", "finished", "failed", "requested", "resolved", "output"}
    /\ CapSets \subseteq SUBSET {"codex_exec", "codex_app_server_exec"}
    /\ MayDie \in BOOLEAN
    /\ None \notin Connectors \cup SessionIds \cup HostSessions \cup Lanes

VARIABLES
    command,   \* the commands table
    host,      \* the host_sessions table: presence in the app-server, and lane
    newest,    \* the most recently updated host session attached to a lane
    connector, \* the connectors table: whether the status is online, and the
               \* capabilities ("degraded" and "offline" are the same here)
    task,      \* the state column of a lane's task
    finals,    \* how many command.finished and command.failed events are logged
    run        \* the frame of every handler

vars == <<command, host, newest, connector, task, finals, run>>

-----------------------------------------------------------------------------
(* The rows and the frames.                                                *)

Commands == 1 .. NumCommands
States == {"absent", "pending", "leased", "running", "succeeded", "failed"}
Sources == {"explicit", "attached", "auto"}
TaskStates == {"idle", "running", "waiting", "done", "failed"}

OrNone(S) == S \cup {None}

\* target and source: target_connector_id and its source; owner and expired:
\* the lease, and whether lease_until has passed; session:
\* lease_target_host_session_id.
CommandRows ==
    [state : States, mode : Modes \cup {"none"}, lane : OrNone(Lanes),
     target : OrNone(Connectors), source : Sources,
     owner : OrNone(Connectors), expired : BOOLEAN, session : OrNone(SessionIds)]

Absent == [state |-> "absent", mode |-> "none", lane |-> None, target |-> None,
           source |-> "auto", owner |-> None, expired |-> FALSE, session |-> None]

HostRows == [known : BOOLEAN, present : BOOLEAN, lane : OrNone(Lanes)]
Unknown == [known |-> FALSE, present |-> FALSE, lane |-> None]

ConnectorRows == [online : BOOLEAN, caps : CapSets \cup {{}}]

\* What a SELECT keeps of a row until the UPDATE that follows it.
PickedCommands == [id : Commands, source : Sources, session : OrNone(SessionIds)]
PickedHosts == [session : SessionIds, present : BOOLEAN, lane : OrNone(Lanes)]

Idle == [op |-> "idle"]
CreateFrames == [op : {"create"}, row : CommandRows, host : OrNone(HostSessions),
                 present : BOOLEAN]
LeaseFrames == [op : {"lease"}, by : Connectors, id : Commands,
                host : OrNone(HostSessions), present : BOOLEAN]
EventFrames == [op : {"event"}, at : {"update", "task", "append", "reject"},
                by : Connectors, id : Commands, kind : EventKinds,
                claimed : OrNone(SessionIds), source : Sources, session : OrNone(SessionIds)]
\* A loop over selected rows that fails or releases them: when a connector
\* disconnects, when its stale targets are cleaned up, when a host session is
\* detached or lost, and the one row of a refused start.
SweepFrames == [op : {"disconnect", "cleanup", "lost", "refuse"},
                at : {"release", "select", "next", "fail", "task", "append"},
                by : Connectors, host : OrNone(HostSessions), lane : OrNone(Lanes),
                heir : OrNone(Connectors), rest : SUBSET PickedCommands,
                pick : OrNone(PickedCommands)]
MigrateFrames == [op : {"migrate"}, at : {"select", "next", "attached", "explicit", "retire"},
                  from : Connectors, to : Connectors, rest : SUBSET PickedHosts,
                  pick : OrNone(PickedHosts)]

Frames == {Idle} \cup CreateFrames \cup LeaseFrames \cup EventFrames
          \cup SweepFrames \cup MigrateFrames

TypeOK ==
    /\ command \in [Commands -> CommandRows]
    /\ host \in [HostSessions -> HostRows]
    /\ newest \in [Lanes -> OrNone(HostSessions)]
    /\ connector \in [Connectors -> ConnectorRows]
    /\ task \in [Lanes -> TaskStates]
    /\ finals \in [Commands -> Nat]
    /\ run \in [Handlers -> Frames]

Init ==
    /\ command = [c \in Commands |-> Absent]
    /\ host = [h \in HostSessions |-> Unknown]
    /\ newest = [l \in Lanes |-> None]
    /\ connector = [k \in Connectors |-> [online |-> FALSE, caps |-> {}]]
    /\ task = [l \in Lanes |-> "idle"]
    /\ finals = [c \in Commands |-> 0]
    /\ run = [w \in Handlers |-> Idle]

-----------------------------------------------------------------------------
(* The sub-selects.                                                        *)

Conn(h) == h[1]
Sid(h) == h[2]
Active(r) == r.state \in {"leased", "running"}
Codex(r) == r.mode # "placeholder"

\* The host session a lane's commands run in: the newest one attached to it.
Current(l) == IF l \in Lanes THEN newest[l] ELSE None

\* The session joined to a command when it is leased: none for CLI fallback.
Joined(r) == IF r.mode = "cli_fallback" THEN None ELSE Current(r.lane)

Present(h) == h # None /\ host[h].present
Online(k) == connector[k].online
CanRunAppServer(k) == Online(k) /\ "codex_app_server_exec" \in connector[k].caps
Executable(h) == Present(h) /\ CanRunAppServer(Conn(h))

\* The sessions that may come out newest of lane l when h is left aside.
Alternatives(l, h) ==
    LET others == {g \in HostSessions \ {h} : host[g].lane = l}
    IN  IF newest[l] \in others THEN {newest[l]}
        ELSE IF others = {} THEN {None} ELSE others

Attached(rows, l) == {h \in HostSessions : rows[h].lane = l}

\* Any session attached to l may be the newest after a report or a move: the
\* connectors choose updated_at.
NewestAmong(rows, l) ==
    IF Attached(rows, l) = {} THEN {None} ELSE Attached(rows, l)

End(w) == run' = [run EXCEPT ![w] = Idle]
Goto(w, at) == run' = [run EXCEPT ![w].at = at]
Free(w) == run[w].op = "idle"

-----------------------------------------------------------------------------
(* createCommandInDb                                                       *)

MayChoose(k, mode) ==
    Online(k) /\ (mode = "placeholder" \/ "codex_exec" \in connector[k].caps)

CanExecute(k, mode) ==
    /\ Online(k)
    /\ mode = "app_server" => "codex_app_server_exec" \in connector[k].caps
    /\ mode = "cli_fallback" => "codex_exec" \in connector[k].caps

\* chooseConnectorForWorkspace: an online connector, or nothing.
ChosenTargets(mode) ==
    LET able == {k \in Connectors : MayChoose(k, mode)}
    IN  IF able = {} THEN {None} ELSE able

Created == {c \in Commands : command[c].state # "absent"}
Creating == {w \in Handlers : run[w].op = "create"}

CreateCheck(w, mode, lane, requested) ==
    LET attached == IF mode = "cli_fallback" THEN None ELSE Current(lane)
        targets == IF requested # None THEN {requested}
                   ELSE IF attached # None THEN {Conn(attached)}
                   ELSE ChosenTargets(mode)
    IN  /\ Free(w)
        /\ Cardinality(Created) + Cardinality(Creating) < NumCommands   \* bound
        /\ mode = "app_server" => Present(attached)
        /\ \E target \in targets :
              /\ attached # None => target = Conn(attached)
              /\ target # None => CanExecute(target, mode)
              /\ run' = [run EXCEPT ![w] =
                   [op |-> "create", host |-> attached, present |-> Present(attached),
                    row |-> [state |-> "pending", mode |-> mode, lane |-> lane,
                             target |-> target,
                             source |-> IF requested # None THEN "explicit"
                                        ELSE IF attached # None THEN "attached" ELSE "auto",
                             owner |-> None, expired |-> FALSE,
                             session |-> IF mode = "app_server" THEN Sid(attached) ELSE None]]]
        /\ UNCHANGED <<command, host, newest, connector, task, finals>>

\* insertCommandInDb: with an attached target, only if it is still the target.
CreateInsert(w) ==
    /\ run[w].op = "create"
    /\ \E c \in Commands \ Created :
         LET f == run[w]
             unchanged == f.host # None =>
                 /\ Current(f.row.lane) = f.host
                 /\ host[f.host].present = f.present
         IN  /\ \A d \in Commands \ Created : c <= d
             /\ command' = IF unchanged THEN [command EXCEPT ![c] = f.row] ELSE command
    /\ End(w)
    /\ UNCHANGED <<host, newest, connector, task, finals>>

-----------------------------------------------------------------------------
(* pendingCommandsForConnector and releaseLeasedCommandsForConnector       *)

\* Mutant: any expired lease is taken over, also that of a started command.
LeasableWhenExpired(r) == r.state = "pending" \/ r.expired

Leasable(r) == r.state = "pending" \/ (r.state = "leased" /\ r.expired)

\* Mutant: an app-server lease may fall back to the CLI.
LeaseGuardWithFallback(k, r, h) ==
    /\ Leasable(r)
    /\ r.target \in {k, None} \/ (r.source = "auto" /\ Present(h) /\ Conn(h) = k)
    /\ h # None => Conn(h) = k
    /\ r.session # None => h # None /\ Sid(h) = r.session
    /\ Online(k)
    /\ \/ ~Codex(r)
       \/ Present(h) /\ "codex_app_server_exec" \in connector[k].caps
       \/ ~Present(h) /\ "codex_exec" \in connector[k].caps

\* Connector k may lease a command row r that runs in host session h.
LeaseGuard(k, r, h) ==
    /\ Leasable(r)
    /\ r.target \in {k, None} \/ (r.source = "auto" /\ Present(h) /\ Conn(h) = k)
    /\ h # None => Conn(h) = k
    /\ r.session # None => h # None /\ Sid(h) = r.session
    /\ Online(k)
    /\ \/ ~Codex(r)
       \/ Present(h) /\ "codex_app_server_exec" \in connector[k].caps
       \/ ~Present(h) /\ r.session = None /\ "codex_exec" \in connector[k].caps

\* The SELECT takes the oldest command the connector may lease.
LeaseSelect(w, k) ==
    LET able == {c \in Commands : LeaseGuard(k, command[c], Joined(command[c]))}
    IN  /\ Free(w)
        /\ \E c \in able :
              /\ \A d \in able : c <= d
              /\ run' = [run EXCEPT ![w] =
                   [op |-> "lease", by |-> k, id |-> c, host |-> Joined(command[c]),
                    present |-> Present(Joined(command[c]))]]
        /\ UNCHANGED <<command, host, newest, connector, task, finals>>

\* The UPDATE checks everything again and writes what the SELECT read.
LeaseUpdate(w) ==
    /\ run[w].op = "lease"
    /\ LET f == run[w]
           r == command[f.id]
           bind == r.source = "auto" /\ f.present
       IN  command' =
             IF LeaseGuard(f.by, r, f.host) /\ Joined(r) = f.host
             THEN [command EXCEPT ![f.id] = [r EXCEPT
                    !.state = "leased", !.owner = f.by, !.expired = FALSE,
                    !.target = IF bind THEN f.by ELSE @,
                    !.source = IF bind THEN "attached" ELSE @,
                    !.session = IF Codex(r) /\ f.present THEN Sid(f.host) ELSE None]]
             ELSE command
    /\ End(w)
    /\ UNCHANGED <<host, newest, connector, task, finals>>

\* The dispatch could not be sent.
ReleaseLeased(k, c) ==
    /\ command[c].state = "leased" /\ command[c].owner = k
    /\ command' = [command EXCEPT ![c] =
                     [@ EXCEPT !.state = "pending", !.owner = None, !.expired = FALSE]]
    /\ UNCHANGED <<host, newest, connector, task, finals, run>>

\* lease_until passes.
LeaseExpires(c) ==
    /\ command[c].state = "leased" /\ ~command[c].expired
    /\ command' = [command EXCEPT ![c].expired = TRUE]
    /\ UNCHANGED <<host, newest, connector, task, finals, run>>

-----------------------------------------------------------------------------
(* recordAgentEvent                                                        *)

CommandStateFor(kind) ==
    CASE kind = "started" -> "running"
      [] kind = "finished" -> "succeeded"
      [] kind = "failed" -> "failed"
      [] OTHER -> "none"

\* Mutant: the task is given the command's state.
TaskStateLikeCommand(kind) == CommandStateFor(kind)

TaskStateFor(kind) ==
    CASE kind \in {"started", "resolved"} -> "running"
      [] kind = "requested" -> "waiting"
      [] kind = "finished" -> "done"
      [] kind = "failed" -> "failed"
      [] OTHER -> "none"

Final(kind) == kind \in {"finished", "failed"}

\* A codex start that names a session, or whose lease does, must name the
\* session the command would run in now.
NeedsTarget(kind, mode, leased, claimed) ==
    kind = "started" /\ mode # "placeholder" /\ (leased # None \/ claimed # None)

EventNeedsTarget(f) == NeedsTarget(f.kind, command[f.id].mode, f.session, f.claimed)

Sweep(op, k) == [op |-> op, at |-> "next", by |-> k, host |-> None, lane |-> None,
                 heir |-> None, rest |-> {}, pick |-> None]

\* The SELECT and the checks that reject the event before any write.
EventSelect(w, k, c, kind, claimed) ==
    LET r == command[c]
    IN  /\ Free(w)
        /\ Active(r) /\ r.target \in {k, None} /\ r.owner = k
        /\ claimed # None => kind = "started"
        /\ run' = [run EXCEPT ![w] =
             [op |-> "event", by |-> k, id |-> c, kind |-> kind, claimed |-> claimed,
              source |-> r.source, session |-> r.session,
              at |-> IF NeedsTarget(kind, r.mode, r.session, claimed) /\ claimed = None THEN "reject"
                     ELSE IF CommandStateFor(kind) = "none" THEN "task" ELSE "update"]]
        /\ UNCHANGED <<command, host, newest, connector, task, finals>>

\* Mutants: an ended command accepts the event of its owner; a start is not
\* checked against the session the lane is attached to.
AcceptsWhenEnded(f, r) == r.owner = f.by
AcceptsAnySession(f, r) ==
    /\ r.owner = f.by /\ Active(r)
    /\ EventNeedsTarget(f) => r.session # None /\ r.session = f.claimed

\* The WHERE clause of updateCommandStateForAgentEvent.
Accepts(f, r) ==
    /\ r.owner = f.by /\ Active(r)
    /\ EventNeedsTarget(f) =>
         LET h == Current(r.lane)
         IN  /\ r.session # None /\ r.session = f.claimed
             /\ h = <<f.by, f.claimed>> /\ Present(h)

\* updateCommandStateForAgentEvent
EventUpdate(w) ==
    /\ run[w].op = "event" /\ run[w].at = "update"
    /\ LET f == run[w]
       IN  IF Accepts(f, command[f.id])
           THEN /\ command' = [command EXCEPT ![f.id].state = CommandStateFor(f.kind)]
                /\ Goto(w, "task")
           ELSE /\ UNCHANGED command
                /\ IF EventNeedsTarget(f) THEN Goto(w, "reject") ELSE End(w)
    /\ UNCHANGED <<host, newest, connector, task, finals>>

\* The task follows the event, whatever became of the command meanwhile.
EventTask(w) ==
    /\ run[w].op = "event" /\ run[w].at = "task"
    /\ LET f == run[w]
           l == command[f.id].lane
       IN  task' = IF l \in Lanes /\ TaskStateFor(f.kind) # "none"
                   THEN [task EXCEPT ![l] = TaskStateFor(f.kind)] ELSE task
    /\ Goto(w, "append")
    /\ UNCHANGED <<command, host, newest, connector, finals>>

EventAppend(w) ==
    /\ run[w].op = "event" /\ run[w].at = "append"
    /\ LET f == run[w]
       IN  finals' = IF Final(f.kind) /\ command[f.id].lane \in Lanes
                     THEN [finals EXCEPT ![f.id] = @ + 1] ELSE finals
    /\ End(w)
    /\ UNCHANGED <<command, host, newest, connector, task>>

\* releaseRejectedAppServerStartLease, and if it changes nothing the handler
\* goes on to failRejectedExplicitAppServerStartLease.
EventReject(w) ==
    /\ run[w].op = "event" /\ run[w].at = "reject"
    /\ LET f == run[w]
           r == command[f.id]
           h == Current(r.lane)
           clear == f.source = "attached"
           released ==
               /\ f.session # None
               /\ r.owner = f.by /\ r.state = "leased" /\ r.session = f.session
               /\ Executable(h)
               /\ Conn(h) # f.by \/ Sid(h) # f.session
               /\ clear \/ r.target = None \/ Conn(h) = r.target
       IN  IF released
           THEN /\ command' = [command EXCEPT ![f.id] = [r EXCEPT
                     !.state = "pending", !.owner = None, !.expired = FALSE,
                     !.target = IF clear THEN None ELSE @,
                     !.source = IF clear THEN "auto" ELSE @,
                     !.session = Sid(h)]]
                /\ End(w)
           ELSE /\ UNCHANGED command
                /\ IF f.source = "explicit" /\ f.session # None
                   THEN run' = [run EXCEPT ![w] = [Sweep("refuse", f.by) EXCEPT
                          !.at = "fail",
                          !.pick = [id |-> f.id, source |-> f.source, session |-> f.session]]]
                   ELSE End(w)
    /\ UNCHANGED <<host, newest, connector, task, finals>>

-----------------------------------------------------------------------------
(* The sweeps: failActiveCommandsForConnector,                             *)
(* cleanupStaleExplicitAppServerCommandTargets, and                        *)
(* release/failCommandsForDetachedAppServerHostSession.                    *)

PickOf(c) == [id |-> c, source |-> command[c].source, session |-> command[c].session]
Picks(S) == {PickOf(c) : c \in S}

\* A connector is gone: all its active commands, or those of one socket.
DisconnectSelect(w, k, ids) ==
    /\ Free(w)
    /\ \E c \in ids : Active(command[c]) /\ command[c].owner = k
    /\ run' = [run EXCEPT ![w] = [Sweep("disconnect", k) EXCEPT !.rest =
                 Picks({c \in ids : Active(command[c]) /\ command[c].owner = k})]]
    /\ UNCHANGED <<command, host, newest, connector, task, finals>>

\* The session a codex command's lease names is the current one, on k.
ServedBy(k, r) ==
    LET h == Current(r.lane)
    IN  h = <<k, r.session>> /\ Executable(h)

\* Mutant: a started command still counts as waiting.
WaitingOrRunning(k, r) == r.state = "pending" \/ (Active(r) /\ r.owner = k)

\* A waiting app-server command that connector k should serve and does not.
Waiting(k, r) == r.state = "pending" \/ (r.state = "leased" /\ r.owner = k /\ r.expired)

StaleTarget(k, r) ==
    /\ Codex(r) /\ r.session # None /\ Waiting(k, r)
    /\ r.target = k \/ (r.target = None /\ r.source = "auto")
    /\ ~ServedBy(k, r)

InScopeOf(k, r) ==
    r.target = k \/ \E h \in HostSessions :
                        /\ Conn(h) = k /\ host[h].known
                        /\ Sid(h) = r.session \/ Current(r.lane) = h

CleanupSelect(w, k) ==
    LET stale == {c \in Commands : StaleTarget(k, command[c]) /\ InScopeOf(k, command[c])}
    IN  /\ Free(w) /\ stale # {}
        /\ run' = [run EXCEPT ![w] = [Sweep("cleanup", k) EXCEPT !.rest = Picks(stale)]]
        /\ UNCHANGED <<command, host, newest, connector, task, finals>>

\* releaseStaleAttachedAppServerCommandTarget; a row it does not change is
\* failed next.
CleanupRelease(w) ==
    /\ run[w].op = "cleanup" /\ run[w].at = "next"
    /\ \E p \in run[w].rest :
         LET k == run[w].by
             r == command[p.id]
             h == Current(r.lane)
             released ==
                 /\ {p.source, r.source} \subseteq {"attached", "auto"}
                 /\ Codex(r) /\ Waiting(k, r)
                 /\ r.target = k \/ (r.target = None /\ r.source = "auto")
                 /\ r.session # None /\ r.session = p.session
                 /\ Executable(h)
                 /\ Conn(h) # k \/ Sid(h) # p.session
         IN  IF released
             THEN /\ command' = [command EXCEPT ![p.id] = [@ EXCEPT
                       !.state = "pending", !.owner = None, !.expired = FALSE,
                       !.target = None, !.source = "auto", !.session = Sid(h)]]
                  /\ run' = [run EXCEPT ![w].rest = @ \ {p}]
             ELSE /\ UNCHANGED command
                  /\ run' = [run EXCEPT ![w].rest = @ \ {p}, ![w].at = "fail", ![w].pick = p]
    /\ UNCHANGED <<host, newest, connector, task, finals>>

\* A codex command that waits for, or is leased to, a session that left lane l.
BoundTo(h, l, r) ==
    /\ r.mode = "app_server" /\ r.lane = l
    /\ r.target \in {Conn(h), None}
    /\ \/ r.state = "pending" /\ r.session = Sid(h)
       \/ r.state = "leased" /\ r.owner = Conn(h) /\ r.session \in {Sid(h), None}

\* releaseCommandsForDetachedAppServerHostSession: one UPDATE.
LostRelease(w) ==
    /\ run[w].op = "lost" /\ run[w].at = "release"
    /\ \E alternative \in Alternatives(run[w].lane, run[w].host) :
         LET f == run[w]
             moves(r) ==
                 /\ BoundTo(f.host, f.lane, r)
                 /\ Executable(alternative)
                 /\ \/ r.source = "attached" \/ r.target = None
                    \/ r.target = Conn(alternative)
         IN  command' = [c \in Commands |->
               IF moves(command[c])
               THEN [command[c] EXCEPT
                      !.state = "pending", !.owner = None, !.expired = FALSE,
                      !.target = IF command[c].source = "attached" THEN None ELSE @,
                      !.source = IF @ = "attached" THEN "auto" ELSE @,
                      !.session = Sid(alternative)]
               ELSE command[c]]
    /\ Goto(w, "select")
    /\ UNCHANGED <<host, newest, connector, task, finals>>

Stranded(f, r, alternative) ==
    /\ BoundTo(f.host, f.lane, r)
    /\ ~(Executable(alternative) /\ r.target \in {None, Conn(alternative)})

LostSelect(w) ==
    /\ run[w].op = "lost" /\ run[w].at = "select"
    /\ \E alternative \in Alternatives(run[w].lane, run[w].host) :
         run' = [run EXCEPT ![w].at = "next", ![w].rest =
                   Picks({c \in Commands : Stranded(run[w], command[c], alternative)})]
    /\ UNCHANGED <<command, host, newest, connector, task, finals>>

\* The WHERE clause of each sweep's UPDATE to 'failed'.
FailGuard(f, p, r, alternative) ==
    \/ f.op = "disconnect" /\ r.owner = f.by /\ Active(r)
    \/ f.op = "cleanup" /\ StaleTarget(f.by, r)
    \/ f.op = "lost" /\ Stranded(f, r, alternative)
    \/ /\ f.op = "refuse" /\ r.owner = f.by /\ r.state = "leased"
       /\ r.session # None /\ r.session = p.session /\ r.source = "explicit"

\* The row an UPDATE to 'failed' is tried on: the next of the loop, or the
\* one a release has just been tried on.
Candidates(f) ==
    IF f.at = "fail" THEN {f.pick}
    ELSE IF f.at = "next" /\ f.op \in {"disconnect", "lost"} THEN f.rest ELSE {}

\* A row that was not changed is skipped.
AfterFail(f, p, failed) ==
    [f EXCEPT !.rest = @ \ {p}, !.pick = IF failed THEN p ELSE None,
              !.at = IF failed THEN "task" ELSE "next"]

SweepFail(w) ==
    /\ run[w].op \in {"disconnect", "cleanup", "lost", "refuse"}
    /\ \E p \in Candidates(run[w]) :
       \E alternative \in IF run[w].op = "lost"
                          THEN Alternatives(run[w].lane, run[w].host) ELSE {None} :
         LET f == run[w]
             failed == FailGuard(f, p, command[p.id], alternative)
         IN  /\ command' = IF failed
                  THEN [command EXCEPT ![p.id] =
                          [@ EXCEPT !.state = "failed", !.owner = None, !.expired = FALSE]]
                  ELSE command
             /\ run' = [run EXCEPT ![w] = AfterFail(f, p, failed)]
    /\ UNCHANGED <<host, newest, connector, task, finals>>

SweepTask(w) ==
    /\ run[w].op \in {"disconnect", "cleanup", "lost", "refuse"} /\ run[w].at = "task"
    /\ LET l == command[run[w].pick.id].lane
       IN  task' = IF l \in Lanes THEN [task EXCEPT ![l] = "failed"] ELSE task
    /\ Goto(w, "append")
    /\ UNCHANGED <<command, host, newest, connector, finals>>

SweepAppend(w) ==
    /\ run[w].op \in {"disconnect", "cleanup", "lost", "refuse"} /\ run[w].at = "append"
    /\ LET c == run[w].pick.id
       IN  finals' = IF command[c].lane \in Lanes THEN [finals EXCEPT ![c] = @ + 1] ELSE finals
    /\ run' = [run EXCEPT ![w].at = "next", ![w].pick = None]
    /\ UNCHANGED <<command, host, newest, connector, task>>

\* The loop is over.  A retired connector goes offline and its host sessions
\* move to its heir.
SweepEnd(w) ==
    /\ run[w].op \in {"disconnect", "cleanup", "lost", "refuse"}
    /\ run[w].at = "next" /\ run[w].rest = {}
    /\ IF run[w].heir = None
       THEN End(w) /\ UNCHANGED connector
       ELSE /\ connector' = [connector EXCEPT ![run[w].by].online = FALSE]
            /\ run' = [run EXCEPT ![w] = [op |-> "migrate", at |-> "select", from |-> run[w].by,
                         to |-> run[w].heir, rest |-> {}, pick |-> None]]
    /\ UNCHANGED <<command, host, newest, task, finals>>

-----------------------------------------------------------------------------
(* attachHostSessionInDb, detachHostSessionInDb, and the rows of           *)
(* recordHostSessions                                                      *)

Attach(h) ==
    /\ host[h].known /\ host[h].lane = None
    /\ host' = [host EXCEPT ![h].lane = OwnLane[h]]
    /\ newest' = [newest EXCEPT ![OwnLane[h]] = h]
    /\ UNCHANGED <<command, connector, task, finals, run>>

LostFrom(h, l) == [Sweep("lost", Conn(h)) EXCEPT !.at = "release", !.host = h, !.lane = l]

\* Detaching a session clears its lane, then moves or fails its commands.
Detach(w, h) ==
    /\ Free(w)
    /\ host[h].lane # None
    /\ host' = [host EXCEPT ![h].lane = None]
    /\ \E n \in NewestAmong(host', host[h].lane) :
          /\ newest[host[h].lane] # h => n = newest[host[h].lane]
          /\ newest' = [newest EXCEPT ![host[h].lane] = n]
    /\ run' = [run EXCEPT ![w] = LostFrom(h, host[h].lane)]
    /\ UNCHANGED <<command, connector, task, finals>>

\* A report inserts the row or changes its presence and updated_at.
ReportSession(h, present) ==
    /\ host' = [host EXCEPT ![h].known = TRUE, ![h].present = present]
    /\ IF host[h].lane = None THEN UNCHANGED newest
       ELSE \E n \in NewestAmong(host, host[h].lane) :
              newest' = [newest EXCEPT ![host[h].lane] = n]
    /\ UNCHANGED <<command, connector, task, finals>>

\* An attached session that a full inventory no longer shows in the
\* app-server has its commands moved or failed, in the same handler.
LosesPresence(h, present) == host[h].present /\ ~present /\ host[h].lane # None

UpsertSession(h, present) ==
    /\ ~LosesPresence(h, present)
    /\ ReportSession(h, present)
    /\ UNCHANGED run

DemoteSession(w, h) ==
    /\ Free(w)
    /\ LosesPresence(h, FALSE)
    /\ ReportSession(h, FALSE)
    /\ run' = [run EXCEPT ![w] = LostFrom(h, host[h].lane)]

-----------------------------------------------------------------------------
(* The connector rows: updateConnectorCapabilities,                        *)
(* markConnectorDegraded and markConnectorOffline                          *)

ConnectorReady(k, caps) ==
    /\ connector' = [connector EXCEPT ![k] = [online |-> TRUE, caps |-> caps]]
    /\ UNCHANGED <<command, host, newest, task, finals, run>>

ConnectorUnavailable(k) ==
    /\ connector' = [connector EXCEPT ![k].online = FALSE]
    /\ UNCHANGED <<command, host, newest, task, finals, run>>

-----------------------------------------------------------------------------
(* retireDuplicateConnectors and migrateHostSessionsToConnector            *)

\* The new connector registers: the old one is disconnected first.
Retire(w, from, to) ==
    /\ Free(w)
    /\ run' = [run EXCEPT ![w] = [Sweep("disconnect", from) EXCEPT !.heir = to, !.rest =
                 Picks({c \in Commands : Active(command[c]) /\ command[c].owner = from})]]
    /\ UNCHANGED <<command, host, newest, connector, task, finals>>

RowsOf(k) == {h \in HostSessions : Conn(h) = k /\ host[h].known}

MigrateSelect(w) ==
    /\ run[w].op = "migrate" /\ run[w].at = "select"
    /\ run' = [run EXCEPT ![w].at = "next", ![w].rest =
                 {[session |-> Sid(h), present |-> host[h].present, lane |-> host[h].lane] :
                    h \in RowsOf(run[w].from)}]
    /\ UNCHANGED <<command, host, newest, connector, task, finals>>

\* INSERT ... ON CONFLICT: the heir's row keeps its own attachment.
MigrateRow(w) ==
    /\ run[w].op = "migrate" /\ run[w].at = "next"
    /\ \E p \in run[w].rest :
         LET h == <<run[w].to, p.session>>
             lane == IF host[h].lane # None THEN host[h].lane ELSE p.lane
         IN  /\ host' = [host EXCEPT ![h] =
                  [known |-> TRUE, present |-> @.present \/ p.present, lane |-> lane]]
             /\ IF lane = None THEN UNCHANGED newest
                ELSE \E n \in NewestAmong(host', lane) : newest' = [newest EXCEPT ![lane] = n]
             /\ run' = [run EXCEPT ![w].rest = @ \ {p}, ![w].pick = p,
                          ![w].at = IF p.lane = None THEN "explicit" ELSE "attached"]
    /\ UNCHANGED <<command, connector, task, finals>>

\* Mutant: leased commands follow their host session too.
RetargetableWhenLeased(from, r) == r.state \in {"pending", "leased"} /\ r.target = from

Retargetable(from, r) == r.state = "pending" /\ r.target = from

Retarget(from, to, moves(_)) ==
    command' = [c \in Commands |->
        IF Retargetable(from, command[c]) /\ moves(command[c])
        THEN [command[c] EXCEPT !.target = to] ELSE command[c]]

RetargetAttached(w) ==
    /\ run[w].op = "migrate" /\ run[w].at = "attached"
    /\ LET f == run[w]
           moves(r) ==
               /\ r.source = "attached" /\ r.session \in {None, f.pick.session}
               /\ r.lane = f.pick.lane /\ host[<<f.to, f.pick.session>>].lane = f.pick.lane
       IN  Retarget(f.from, f.to, moves)
    /\ Goto(w, "explicit")
    /\ UNCHANGED <<host, newest, connector, task, finals>>

RetargetExplicit(w) ==
    /\ run[w].op = "migrate" /\ run[w].at = "explicit"
    /\ LET f == run[w]
           moves(r) ==
               /\ Codex(r) /\ r.source = "explicit" /\ r.session = f.pick.session
               /\ Present(<<f.to, f.pick.session>>)
       IN  Retarget(f.from, f.to, moves)
    /\ run' = [run EXCEPT ![w].at = "next", ![w].pick = None]
    /\ UNCHANGED <<host, newest, connector, task, finals>>

\* DELETE FROM host_sessions WHERE connector_id = the old connector.
MigrateDelete(w) ==
    /\ run[w].op = "migrate" /\ run[w].at = "next" /\ run[w].rest = {}
    /\ host' = [h \in HostSessions |-> IF Conn(h) = run[w].from THEN Unknown ELSE host[h]]
    /\ \E n \in [Lanes -> OrNone(HostSessions)] :
          /\ \A l \in Lanes :
                /\ n[l] \in NewestAmong(host', l)
                /\ newest[l] \in Attached(host', l) => n[l] = newest[l]
          /\ newest' = n
    /\ Goto(w, "retire")
    /\ UNCHANGED <<command, connector, task, finals>>

MigrateEnd(w) ==
    /\ run[w].op = "migrate" /\ run[w].at = "retire"
    /\ connector' = [connector EXCEPT ![run[w].from].online = FALSE]
    /\ End(w)
    /\ UNCHANGED <<command, host, newest, task, finals>>

-----------------------------------------------------------------------------

\* The Durable Object is evicted or a statement throws: the rest of the
\* handler never happens.
Die(w) ==
    /\ MayDie /\ ~Free(w)
    /\ End(w)
    /\ UNCHANGED <<command, host, newest, connector, task, finals>>

\* The next statement of the handler w.
Continue(w) ==
    \/ CreateInsert(w) \/ LeaseUpdate(w)
    \/ EventUpdate(w) \/ EventTask(w) \/ EventAppend(w) \/ EventReject(w)
    \/ CleanupRelease(w) \/ LostRelease(w) \/ LostSelect(w)
    \/ SweepFail(w) \/ SweepTask(w) \/ SweepAppend(w) \/ SweepEnd(w)
    \/ MigrateSelect(w) \/ MigrateRow(w) \/ RetargetAttached(w) \/ RetargetExplicit(w)
    \/ MigrateDelete(w) \/ MigrateEnd(w)

\* A handler starts, or a function of one statement runs.
Begin(w) ==
    \/ \E mode \in Modes, lane \in OrNone(Lanes), k \in OrNone(Connectors) :
          CreateCheck(w, mode, lane, k)
    \/ \E k \in Connectors : LeaseSelect(w, k) \/ CleanupSelect(w, k)
    \/ \E k \in Connectors, c \in Commands, kind \in EventKinds, s \in OrNone(SessionIds) :
          EventSelect(w, k, c, kind, s)
    \/ \E k \in Connectors, ids \in SUBSET Commands : DisconnectSelect(w, k, ids)
    \/ \E h \in HostSessions : Detach(w, h) \/ DemoteSession(w, h)
    \/ \E p \in Heirs : Retire(w, p[1], p[2])

AtOnce ==
    \/ \E k \in Connectors, c \in Commands : ReleaseLeased(k, c)
    \/ \E c \in Commands : LeaseExpires(c)
    \/ \E h \in HostSessions : Attach(h) \/ \E present \in BOOLEAN : UpsertSession(h, present)
    \/ \E k \in Connectors : ConnectorUnavailable(k) \/ \E caps \in CapSets : ConnectorReady(k, caps)

Next == AtOnce \/ \E w \in Handlers : Begin(w) \/ Continue(w) \/ Die(w)

\* A handler that is not lost goes on: D1 answers every statement.
Fairness == \A w \in Handlers : WF_vars(Continue(w))

Spec == Init /\ [][Next]_vars /\ Fairness

-----------------------------------------------------------------------------
(* What must hold.                                                         *)

\* A command that is leased or running is leased to the connector it is
\* targeted at, so that the events of its owner are not rejected for the
\* target (the two columns are written by different statements: creation,
\* lease, retarget and four kinds of release).
OwnerIsTarget ==
    \A c \in Commands :
        Active(command[c]) =>
            /\ command[c].owner # None
            /\ command[c].target \in {None, command[c].owner}

\* Nobody holds the lease of a command that waits: every path back to pending
\* clears the owner.
PendingIsUnowned ==
    \A c \in Commands :
        command[c].state \in {"absent", "pending"} =>
            command[c].owner = None /\ ~command[c].expired

\* An app-server command always names the session it must run in, through
\* every release and retarget, so that it never runs as a plain CLI command
\* on some connector that can only do that.
AppServerKeepsSession ==
    \A c \in Commands :
        command[c].mode = "app_server" => command[c].session # None

\* What a handler relies on when its next statement runs, however stale its
\* frame: a create frame holds a fresh row; a lease selected while its session
\* was not in the app-server is of a command that needs no app-server and, as
\* long as its target is automatic, has no other target; only an event that
\* moves the command reaches the UPDATE.
CreateIsFresh(f) ==
    f.op = "create" =>
        /\ f.row.state = "pending" /\ f.row.owner = None /\ ~f.row.expired
        /\ f.row.mode = "app_server" => f.row.session # None

LeaseIsSound(rows, f) ==
    f.op = "lease" =>
        /\ rows[f.id].state # "absent"
        /\ f.present => f.host # None
        /\ ~f.present =>
             /\ rows[f.id].mode # "app_server"
             /\ rows[f.id].source = "auto" => rows[f.id].target \in {f.by, None}

EventMoves(f) ==
    (f.op = "event" /\ f.at = "update") => f.kind \in {"started", "finished", "failed"}

FrameIsSound(rows, f) == CreateIsFresh(f) /\ LeaseIsSound(rows, f) /\ EventMoves(f)

FramesAreSound == \A w \in Handlers : FrameIsSound(command, run[w])

\* The log of a thread closes a command at most once, although six handlers
\* may fail it and one may finish it.
AtMostOneFinalEvent == \A c \in Commands : finals[c] <= 1

\* A command whose end is logged has ended.
FinalEventIsTrue ==
    \A c \in Commands :
        finals[c] > 0 => command[c].state \in {"succeeded", "failed"}

\* The outcome shown on a task is the outcome of one of its commands.
TaskOutcomeHasCause ==
    \A l \in Lanes :
        LET outcomes == {command[c].state : c \in {d \in Commands : command[d].lane = l}}
        IN  /\ task[l] = "done" => "succeeded" \in outcomes
            /\ task[l] = "failed" => "failed" \in outcomes

\* The ends that are told: the log of a thread closes a command at most once,
\* although six handlers may fail it and one may finish it, and only when it
\* has ended; and the outcome a task shows is that of one of its commands.
EndsAreTrue == AtMostOneFinalEvent /\ FinalEventIsTrue /\ TaskOutcomeHasCause

\* When nothing is in flight any more, a lane whose only command has failed
\* shows the failure, as db.test.ts expects of a disconnect.  It does not hold:
\* EventTask of an event accepted before the failure may come after SweepTask.
FailedCommandFailsTask ==
    (\A w \in Handlers : Free(w)) =>
        \A c \in Commands :
            LET l == command[c].lane
            IN  (/\ command[c].state = "failed" /\ l \in Lanes
                 /\ \A d \in Commands \ {c} : command[d].lane # l) => task[l] = "failed"

\* Once a command runs, no release, re-lease, retarget or migration takes it
\* away from its connector or gives it another session: it only ends.
RunningIsNotMoved ==
    [][\A c \in Commands :
          command[c].state = "running" =>
              \/ command'[c] = command[c]
              \/ command'[c].state \in {"succeeded", "failed"}]_vars

\* An ended command stays as it ended, whatever stale handlers still do.
EndIsFinal ==
    [][\A c \in Commands :
          command[c].state \in {"succeeded", "failed"} => command'[c] = command[c]]_vars

\* An app-server command starts only in the session its lane is attached to
\* at that moment, and that session is on the connector that runs it.
StartsWhereAttached ==
    [][\A c \in Commands :
          (command[c].state = "leased" /\ command'[c].state = "running"
              /\ command[c].mode = "app_server") =>
              LET h == Current(command[c].lane)
              IN  h = <<command[c].owner, command[c].session>> /\ Present(h)]_vars

\* If no handler is lost, the end of every command reaches its thread.
EndIsLogged ==
    \A c \in Commands :
        (command[c].state \in {"succeeded", "failed"} /\ command[c].lane # None) ~> (finals[c] > 0)

\* The implementation of the lease protocol.
Lease == INSTANCE CommandLease WITH
            state <- [c \in Commands |-> command[c].state],
            owner <- [c \in Commands |-> command[c].owner]
LeaseProtocol == Lease!Spec
=============================================================================
