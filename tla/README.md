# chaop in TLA+

chaop runs coding-agent commands on the machines of its users.  A Cloudflare
Worker keeps tasks, threads and commands in a D1 database; one Durable Object,
`WorkspaceDO`, holds a WebSocket to every *connector* (a Rust agent on a user's
machine) and to every browser; a connector executes commands with `codex exec`
or through a Codex app-server that it starts itself.

This directory models what happens to a command between the user who creates it
and the program that executes it, what is reported back, and how the connector
looks after the app-server.  Source paths are relative to `src/`.  `DB` is
`apps/worker/src/db.ts`, `DO` is `apps/worker/src/workspace-do.ts`, `CO` is
`crates/agent/src/connector.rs`, `SI` is `crates/agent/src/session_inventory.rs`
and `MA` is `crates/agent/src/app_server_manager.rs`.

## The system

| Component | State | Operations | What makes it correct | Model |
|---|---|---|---|---|
| Command rows (`DB`, `migrations/d1`) | state, target and its source, lease owner and deadline, target session | create, lease, release, record an event, fail, retarget | one holder of the lease at a time; no end is undone; a running command is not moved; an app-server command keeps its session | `CommandTable` |
| Host session rows (`DB`) | presence in an app-server, the task and thread attached, order by `updated_at` | report, demote, attach, detach, migrate, delete, import history | commands run only in the session their thread is attached to; presence is what the app-server has | `CommandTable`, `HostSessionReports`, `HostSessionBackfill` (partly) |
| Connector rows (`DB`, `auth.ts`) | status, capabilities | ready, degraded, offline, retire a duplicate | the status agrees with the sockets, the capabilities with the connector, once all is settled | `CommandTable`, `AgentSockets`, `ConnectorReports` (partly) |
| Agent sockets (`DO`) | an attachment per socket: ready, pending refresh and deadline, active commands; the times of refreshes | connect, `agent.ready`, `agent.host_sessions`, `agent.event`, dispatch, close | a close fails what ran there and nothing is forgotten; one refresh at a time | `AgentSockets` |
| Requests to connectors (`DO`) | five maps of pending requests, each with a timer | send, resolve, time out | a request is answered once; a late answer is dropped | planned: `PendingRequests` |
| Thread events (`DB`) | `threads.last_seq`, events, usage windows | append, roll back, backfill a host session, count, list | numbers are unique, a backfill is complete, usage is not overcounted | `ThreadEvents` (partly) |
| Turn interactions (`SI`, `CO`, `DB`, `DO`, `routes.ts`) | the request a turn waits on, the delivery under way; claims with a TTL and a delivery state | ask, claim, dispatch, deliver, answer, acknowledge, resolve | an answer is used for the request it was given to, once; what is recorded was used | `TurnInteraction`, `InteractionClaims` (partly) |
| App-server reports (`DO`, `DB`, `CO`) | fingerprint cache, instance rows, what was sent and acknowledged | report, skip a duplicate, acknowledge, stop | the rows come to tell the connector's state | `ConnectorReports` (partly) |
| Budget and safety (`DB`) | budget windows, telemetry samples, pause | record, evaluate, guard | a guard lets through what its state allows | planned: `BudgetSafety` |
| Connector loop (`CO`) | ready/acknowledged, deferred messages, the command at hand | read, dispatch, wait for an acknowledgement, reconnect | executes a command only after its start was accepted | `AgentSockets`, `ConnectorReports` (partly) |
| App-server manager (`MA`, `main.rs`) | child process, schedule, backoff, pending restart, upgrade marker | ensure ready, request restart, tick, preflight | no restart under a turn before its drain time; no process is left or doubled | `AppServerManager`, `AppServerPreflight` (partly) |
| App-server client (`SI`) | resolver threads, a connection, the threads of the app-server, a turn | resolve, connect, list, archive, attach, create, run a turn | bounded threads and time; the right thread; a report of this turn | `AppServerResolver`, `AppServerConnect`, `AppServerThreads`, `AppServerTurn` (partly) |
| Session inventory (`SI`) | the files Codex writes, the list of the app-server | scan, report, read a history | a full report is whole; a history has no silent gap | `HostSessionReports`, `HostSessionBackfill` (partly) |
| Executor (`executor.rs`) | a child process, two reader threads, pipes | spawn, cancel, time out | what is reported was earned; the run ends | `ExecProcess` |
| Web application (`apps/web/src`) | the state of a browser | merge snapshots and events | converges in any order | planned: `BrowserState` |
| Protocol, configuration, scripts, sample data | - | types, parsing, I/O | - | left out: no state that interacts |

How they interact.  Routes write rows and then ask the Durable Object, by
`fetch`, to dispatch.  The Durable Object leases rows and sends them on a
socket; the connector answers with `agent.event` messages that the Durable
Object records in the rows and then acknowledges.  Everything in the Worker is
asynchronous JavaScript: between two `await`s a handler runs alone, at an
`await` any other handler may run, and D1 has no transaction that spans two
statements of a handler.  The Durable Object may be evicted, which drops its
memory, and the sockets' attachments survive.  The connector has one thread for
its socket and one worker thread per command; they share a cancellation flag,
two channels and the slot of the request a turn waits on.  The app-server, the
CLI, the peers of a connect and the host's files go their own way between any
two steps of the connector.

What is hard: rows read before an `await` and used after it, leases that expire
while their dispatch is under way, a connector that reconnects before the close
of its previous socket is handled, a connector registered anew that inherits
the host sessions of its predecessor, messages that wait for a refresh which
may never be answered, an operator's answer that races with time limits on both
sides, lists read by pages while others reorder them, pipes that fill, lookups
that never return, and restarts that must happen but not under a turn.  `PROJECT.json` lists these hazards at their
lines.

## The modules

### CommandLease

The abstract promise: a command waits, is leased to one connector, given back,
started, finished or given up.  It has no sessions, handlers or statements.

### CommandTable

The rows of `commands`, `host_sessions` and `connectors`, the state of the
tasks, and every `DB` function that writes a command.  **One action is one D1
statement.**  A function of several statements is a handler: it occupies a
member of `Handlers`, and its *frame* in `run` holds what its earlier SELECTs
returned and which statement comes next.  The conditional UPDATE that follows
uses the frame and re-checks in its WHERE exactly what the code re-checks.

| Action | Function |
|---|---|
| `CreateCheck`, `CreateInsert` | `createCommandInDb` |
| `LeaseSelect`, `LeaseUpdate` | `pendingCommandsForConnector` |
| `ReleaseLeased`, `LeaseExpires` | `releaseLeasedCommandsForConnector`; the clock |
| `EventSelect`, `EventUpdate`, `EventTask`, `EventAppend`, `EventReject` | `recordAgentEvent` and the release or failure of a refused start |
| `DisconnectSelect`, `SweepFail`, `SweepTask`, `SweepAppend`, `SweepEnd` | `failActiveCommandsForConnector` |
| `CleanupSelect`, `CleanupRelease` | `cleanupStaleExplicitAppServerCommandTargets` |
| `Attach`, `Detach`, `LostRelease`, `LostSelect` | `attachHostSessionInDb`, `detachHostSessionInDb` and the commands of a lost session |
| `UpsertSession`, `DemoteSession` | `recordHostSessions` |
| `ConnectorReady`, `ConnectorUnavailable` | connector status and capabilities |
| `Retire`, `MigrateSelect`, `MigrateRow`, `RetargetAttached`, `RetargetExplicit`, `MigrateDelete`, `MigrateEnd` | `retireDuplicateConnectors` and `migrateHostSessionsToConnector` |
| `Die` | an eviction, or a statement that throws |

The four sweeps that fail commands share the frame of a loop over selected rows
and its four statements.

Abstractions.  A task and the thread of it are attached and detached together
and are one *lane*.  `updated_at` is kept as `newest`, the session each
`ORDER BY updated_at DESC LIMIT 1` returns, with a free choice where the code
leaves a tie or an unmodelled update.  Times are the one bit `expired`.
`recordHostSessions` reads, writes and reads one session in one step; its many
sessions are separate steps in any order.  The command types are three modes:
`placeholder`, `app_server` (Codex bound to a session) and `cli_fallback`.
Events of one connector may be handled concurrently, which is more than its
loop, which waits for each acknowledgement, makes happen.  Prompts, titles and
payloads are left out.

### AgentSockets

One connector, its sockets in the order of `connectedAt`, the handlers of the
Durable Object and the connector's loop.  An action is one turn of a handler,
from one `await` to the next: `ReadyBegin`/`Update`/`Mark`/`Refresh`/`Dispatch`
for `agent.ready`, `ReportBegin`/`Answer` for `agent.host_sessions`,
`EventBegin`/`Record`/`Answer` for `agent.event`, `Pick`, `PickListed`,
`Lease`, `Send`, `Release`, `AfterRelease`, `DispatchDegrade` for
`sendPendingCommands(ToAgents)`, `GoneBegin`/`Select`/`Fail`/`Degrade`/`Offline`
for `handleSocketGone`.  `Connect`, `Leave`, `SendReady`, `HearReady`,
`HearRefresh`, `TakeDispatch`, `HearStarted`, `Finish`, `HearFinished` are the
connector.  `Hibernate` drops `hostSessionsRefreshSentAt` and keeps the
attachments; `Die` loses a handler.

Abstractions.  The command rows are those of `CommandTable` without sessions
and other connectors; a lease that has run out is the bit `expired`.  The
connector advertises the same capabilities as long as a connection lasts.  The
guards that `sendPendingCommandsToAgents` awaits one after the other are one
await, and so are the broadcast and cleanup awaits; the listing that is read
*before* them and used after them is kept (`ResumeRequest`, `PickListed`).  The
safety guard answers any member of `Postures` at every question.  Dispatches
on a socket are a queue and so are the connector's messages; acknowledgements
are a set, which allows orders the socket does not.  A send on a socket the
connector has left may succeed and be lost, or throw.  A socket is closed once;
the runtime may report an error and a close, the second of which finds nothing
to do.  An execution reports its start and its end; outputs in between change
nothing modelled here.  The dispatch to every connector that a refused start
asks for is left to `CommandTable`, which has the refusal.

### ThreadEvents

The events of one thread.  `lastSeq` is `threads.last_seq`, `events` the rows
with their number and, for history, the event that the stable id names;
`counted` is `events_received` of one usage window that every event falls in.
One action is one D1 statement, and `run` holds the frames of the handlers, as
in `CommandTable`.

| Action | Code |
|---|---|
| `AppendTake`, `AppendInsert`, `AppendCount` | `appendEvent` |
| `Rollback` | `rollbackAppendEventSequenceBestEffort` |
| `BackfillBegin`, `BackfillLook`, `BackfillTake`, `BackfillInsert`, `BackfillCount` | `recordHostSessionBackfillEvents` and the windows it counts in its `finally` |
| `BackfillFails`, `Die` | a statement of the loop throws; an eviction |

Abstractions.  The events of a report are a set, taken in any order.  A
statement that fails had no effect: an INSERT that took effect although its
answer was lost would have its number given back, and nothing in the code
guards against it (a hazard in `PROJECT.json`).  Kinds, summaries, the states
and percentages of a window, and the window a time falls in are left out.

### InteractionClaims

How the Worker lets several operators answer one request of a turn.  `claim` is
the row of `turn_interaction_resolution_claims`: whose response it is for, how
far that got (`dispatch_started_at`, `delivery_uncertain_at`, `delivered_at`)
and whether it is older than its TTL; `resolved` is the event of the
resolution.  One action is one D1 statement or one turn of the Durable Object,
and `at` says which comes next for each request.

| Action | Code |
|---|---|
| `Begin`, `FindClaim`, `HasResolution`, `DeleteStale`, `InsertClaim`, `RereadClaim` | `prepareTurnInteractionResolutionInDb`, `claimTurnInteractionResolution` |
| `MarkStarted`, `Send`, `HearAck`, `GiveUp`, `MarkUncertain`, `MarkDelivered`, `MarkFallback`, `Release` | the route and `resolveTurnInteraction` of `DO` |
| `Lookup`, `AppendResolution`, `Resume`, `Drop` | `recordTurnInteractionResolutionInDb` |
| `TakeResponse`, `LoseResponse`, `AnswerByLimit`, `RecordAnswer` | the connector, as `TurnInteraction` has it, and `recordAgentEvent` for an answer by the time limit |
| `Lost` | the handler is ended or a statement throws that nothing catches |

Abstractions.  There is one request, and it is already in the log; the task and
the command end in one step (`CommandTable` has the statements).  A claim grows
stale only while no handler is at work on it: one minute, or five from the
dispatch, stand against a wait of ten seconds.

### TurnInteraction

The connector's side of the same: what the app-server asks during a turn.  The
worker thread (`ReadRequest` to `Acknowledge`, and `EndTurn`) reads a request,
names it in the slot `active_interaction`, sends an event and waits for a
response or for the request's own limit; the connector's thread
(`DispatchEvent`, `ReadResponse`, `Deliver`, `Delivered`, `DeliveryTimeout`,
`ClearAccepted`, `Report`, `Finish`) hands responses over through a channel and
waits for the acknowledgement of the delivery.  Every statement that touches
the slot, a channel or a socket is a step of its own.  A dispatch of an event or
a report that fails makes the connector's thread return at once (`main` is
`"gone"`): the worker is not cancelled, and ends by itself when it finds a
channel closed (`ChannelCloses`, `SendRequested`, `Acknowledge`), when the turn
ends or at the deadline.  What it answers by a limit meanwhile is told to nobody,
which is why `AutoAnswersAreTold` is about a turn whose result the connector has.
Texts, decisions beyond
accept and decline, and the contents of questions are left out; the time
against an input's limit is early, grace or over.  `Slow` are the responses for
which the ten seconds may pass.

### AppServerTurn

One command on an app-server: `Prepare` and `StartTurn`, the wait for the answer
to `turn/start` (`NoteInterruption`, `GiveUpStart`, `ReadStartResponse`) and the
loop over the messages of the turn (`ReadMessage`, `Read`), with cancellation
before the deadline and `turn/interrupt` for a turn whose id is known.  The
app-server is external: it may send messages of this turn before it answers
(`Early`), messages of other turns, errors and requests, and may close.  A
message is what the code tells apart; a piece of text is the set of
byte offsets between its characters, because the limit cuts between characters.

### ExecProcess

One run of the Codex CLI (`executor.rs`): spawn, the prompt, two capped readers,
the poll for exit, cancellation and timeout, the kill, the join and the events.
A pipe holds `PipeSize` chunks and blocks its writer; codex may exit, close its
input, or leave a descendant that holds its pipes (`Heirs`).

### AppServerThreads

Archive, unarchive, attach, the thread of a command and create.  `list` is the
app-server's list in the order of the last update, read by pages whose cursor
is a position (`ReadPage`, `ScanEnds`), while `Touch` moves threads.  What the
scans say leads to the threads to change or the thread to resume (`Resolve...`),
and `Update` sends one request for each; `Fail` is a deadline, an error or a
lost connection, before or after the app-server has done what it was asked.

### AppServerConnect

A connect before a deadline, `left` ticks away: every address gets a share
(`NextAddress`, `Attempt`), a Unix connect is driven by `poll` (`ConnectRetry`,
`BacklogFull`, `InProgress`), and a watchdog shuts the stream down whose
handshake is still going on (`StartGuard`, `Fire`, `CancelGuard`).  A peer may
refuse, stay silent, or keep a handshake alive.  With `Delays` time passes also
between two statements of the thread.

### AppServerResolver

The name lookups all threads share: one active worker with a bounded queue; a
caller that times out retires it (`Recover`) if there is room for another
retired thread, and the retired one serves what it was sent before it ends.
Generations are never used twice; `Panics` are the workers a lookup may kill.
The addresses themselves are left out.

### AppServerManager and AppServerPreflight

`AppServerManager` is the process the connector manages: `Call` is
`runtime_config` (between commands, or during a turn), and its steps are the
schedule and the upgrade marker (`Schedule`), an exited child (`Inspect`), the
pending restart with its drain (`Advance`, `Blocked`, `Stop`, `Ready`) and
`ensure_ready` with spawn, health check and backoff (`Ensure`, `Probe`,
`Restop`, `Spawn`, `Wait`).  Between two steps the child binds, sickens or
exits and listeners of other programs come and go.  An instant is the number
of ticks left to it.  `AppServerPreflight` is the check of a candidate: a
process group on a private Unix socket, started, asked and stopped again, with
the signals of `terminate_child` one by one while the group lives on, and the
files it must remove.  A socket or directory that cannot be removed is only
logged, after the result is decided; `unremoved`, a variable of the model alone,
remembers it, and `NothingIsLeft` allows a file to stay only then.  A restart
that is pending between two calls shows as a drain, or as degraded when it
was blocked or a stop failed (`DrainingIsTrue`); a drain shows only while a turn
runs and a restart is pending.

### HostSessionBackfill

The history of an attached session, from the files Codex writes (`FindRolloutPath`,
`ReadRollout`, `ReadHistory`) to the thread (`ImportEvent`, `ImportEnds`,
`ImportFails`).  A rollout is a sequence of records, the last of which may be
half written; records are messages, calls or neither.  The numbers of events
and their storage are in `ThreadEvents`.

### HostSessionReports

The inventory: what `build_host_sessions_report` reads of the index, the history,
the rollouts and the app-server's pages (`ReadFiles`, `ListThreads`, `ListFails`),
which report it makes (full or incremental, cut or whole), and
`recordHostSessions`, one D1 statement per action (`FindHostSession`, `Upsert`,
`FindMissing`, `ClearMissing`), with `PersistCreated` of a session that was just
created for the browser.  Times are a counter; titles and working directories
are left out.

### ConnectorReports

`agent.ready` and `agent.app_server_instances` from what the connector sent and
was acknowledged (`Tick`, `OtherText`, `AcknowledgeReady`, `AcknowledgeReport`)
to the rows (`Take`, `StoreReady`, `Look`, `Store`, which leaves an unchanged
row alone or, after the debounce, writes it again), the cache that skips a
duplicate (`Skip`), the guard that refuses (`Pause`), statements that throw
(`WorkerFails`), a new socket (`Reconnect`) and the clean-up after the old one
(`CleanUp`).  The sockets and the status of the connector are in `AgentSockets`.

### The modules for TLC

`MCCommandTable` extends one module.  Each of the others puts several side by
side: `subject` is chosen at the start and never changes, a behaviour takes the
steps of that one, and the variables of the others stay as they began.  Nothing
meets that does not meet in the modules; the states are the sum of theirs.
Where a module is instantiated more than once, the instances differ in their
bounds.  A property of such a run is the conjunction of the modules' properties
that share a theme, each guarded by the subject where the other instances do
not have it; the modules state and explain them one by one.  Where several
subjects need fairness, one line names an action of each: only one of them can
ever be enabled, so the line is the conjunction of what the modules ask for.

## What is checked

Deadlock is not checked: handlers and users are optional, the bounds on
commands, sockets, numbers and files stop the models, and the system itself
may idle for ever.

| Run | Instance | Properties | What it shows |
|---|---|---|---|
| `sessions` | `CommandTable`: 2 connectors with a session each, 1 lane, 1 app-server command, 2 handlers, lost handlers; 1.5M states | `TypeOK`, `AppServerKeepsSession`, `StartsWhereAttached` | A detach, a demotion or a cleanup in the middle of a lease or start never lets a command start in a session its lane has left |
| `migration` | `CommandTable`: 2 connectors that share a session, one the heir; 2.5M states | `OwnerIsTarget`, `RunningIsNotMoved`, `LeaseProtocol` | The take-over, statement by statement, against leases, starts and disconnects: the table implements `CommandLease` |
| `worker` | `AgentSockets` with 2 connections, 1 command, expiring leases and lost handlers, and with 2 handlers for refreshes; `CommandTable` with every event kind, and with 2 commands of a lane; 3.6M states | `TypeOK`, `ExecutionIsSound`, `OneRefreshPending`, `EndsAreTrue` | A command dispatched several times is executed once and is never handed out again meanwhile; cooldowns survive closes and hibernation; competing ends are logged once at most, and a task shows the outcome of one of its commands |
| `worker_ends` | `AgentSockets` and `CommandTable` without expiry and lost handlers; 360k states | `RunningIsListed`, `EndsCome` (liveness) | No close overlooks a running command; a started command ends, and its end reaches the thread |
| `events` | `ThreadEvents` with 3 handlers, 2 events of history, numbers to 3, failing statements; `HostSessionBackfill` with 2 sessions, 4 or 5 writes, 2 attachments; 2.8M states | `TypesAreCorrect`, `NumbersAreFresh`, `ImportIsComplete`, `UsageNeverOvercounts`, `HistoryIsTold` | Appends that give their number back beside overlapping imports: no number twice, only duplicates dropped, no event counted that is not there; an import has no silent gap and no disorder |
| `turns` | `TurnInteraction` with 3 requests and 2 responses; `AppServerTurn` with early messages, and in order; `ExecProcess` with and without descendants; 261k states | `TypesAreCorrect`, `AnswersAreTheirs`, `AcceptedIsAnswered`, `RefusedIsUnused`, `ReportIsOfThisTurn`, `RunIsEarned`, `WorkEnds` (liveness) | Who is answered with what and what the control plane is told; a command's report is about its own turn and was earned; deliveries, turns and runs end |
| `app_server` | `AppServerResolver` with 2 callers, a queue of 1, 1 retired thread; `AppServerConnect` over 4 silent addresses, over 3, and over a Unix socket; `AppServerManager` with faults and 2 upgrades; `AppServerPreflight` with 2 processes beside the leader; 112k states | `TypesAreCorrect`, `ThreadsAreBounded`, `WaitIsHeard`, `ConnectIsSound`, `ManagerIsTrue`, `NothingIsLeft`, `WaitsEnd`, `RestartIsFair` (liveness) | Hanging lookups, silent peers, failing signals and starts: threads and time stay bounded, no process is left or doubled, a restart happens and not under a turn before its drain is over |
| `reports` | `InteractionClaims` with 3 operators; `HostSessionReports` with 1 report at a time, and with 2; `AppServerThreads` with 3 or 4 threads; 4.0M states | `TypesAreCorrect`, `ResolutionIsTrue`, `FullMeansWhole`, `SyncIsTrue`, `ThreadFits`, `NothingElseChanges` | One answer is on its way at a time and what is recorded is true; a full report is whole; a sync changes the whole session and nothing else, or says so |
| `connector_reports` | `ConnectorReports` with 1 handler, with 2, and with 2 across a reconnection; 379k states | `TypesAreCorrect`, `RowsSettle` (liveness) | Losses, refusals, duplicates, two handlers and a late clean-up: the rows come to tell the connector's state |
| `staletask` | violation | `FailedCommandFailsTask` | below |
| `staleready` | violation | `SettledReadyIsOnline` | below |
| `turn_tracked` | violation | `WaitingIsTracked` | below |

Why the bounds are enough.  The interesting cases are races of two actors over
one thing, and two handlers may follow each other any number of times, so that
a third actor is met as "one in flight, one after another beside it".

* Commands: one suffices where the property is about one row; `worker` has two
  where it relates two rows.  Two connectors are a holder and a competitor, or
  a predecessor and its heir; two connections are an old socket and a new one.
  `MaxWaiting` is 1: a lease expires only while no dispatch waits, but two
  handlers may each be about to send one, so that two of them still wait at
  the connector together; and one report waits at a time.
* Numbers: a roll back that is wrong needs one append that fails, one that took
  the number after it, and one that takes a number again: three and three.
* Answers: a stale claim needs one operator that is lost, one that removes and
  replaces it, and one that comes between: three.
* Turns: one request with a limit, one without, one that is invalid; a response
  that is late for one request is met by the next.
* Pages of one thread make every list longer than a page; one or two pages of
  budget make it too long for the budget.
* Connects: four addresses are enough for shares to round down unevenly; the
  timeouts let each address use its share, and less.
* Manager: intervals, drains and backoffs of one or two ticks are in every order
  to each other; two markers are an upgrade during an upgrade.
* Files: a scan limit of one to three lines is met by three to five writes.

Elsewhere two handlers are the limit: a race that needs three at once is outside
the runs, and where a property is proved below the proof covers it.

`RunningIsListed` is checked without expiring leases.  With them a running
command can escape the list of its socket for a while: a lease that expired, a
second dispatch whose send throws and takes the command off the list, and the
start of the first dispatch arriving in between.  `SharesRemain` is checked
without delays between two statements, which use up time that was granted.

Fairness.  A handler that is in flight goes on (weak fairness of `Continue`):
D1 answers or throws, and a throw is `Die`, which the liveness run excludes.
Messages delivered are handled although the model has few handlers (strong
fairness of `Receive`, since the scarcity is the model's).  A connector that
executes ends, because `codex exec` and the turn have timeouts.  In the
connector every thread runs and clocks go on (weak fairness of its steps and
of time); peers, lookups, users, `codex` and the app-server owe nothing, except
where a property is about them: a lookup ends some day (`RetiredEnds`), and the
app-server reads on and answers `turn/start` (`InterruptedTurnStops`,
`EndIsReported`).  A process that is stopped again and again is stopped once
(strong fairness of `Stop /\ Stopped`), and `RestartHappens` assumes that no
foreign listener keeps coming back.  In `ConnectorReports` the intervals pass
infinitely often and a duplicate is forgotten after its minute (strong
fairness), and only finitely many faults occur.  Nothing is assumed of
reconnection or of dispatch: the code has no timer that dispatches, and nothing
here claims that a waiting command is ever leased.

## Where code and tests disagree

With a run:

* `staletask`: `recordAgentEvent` writes the task in a statement after the
  command row.  A disconnect that fails the command in between is overwritten,
  and the task shows `running` for a command that has failed.
* `staleready`: `handleSocketGone` reads the other sockets, awaits, and then
  writes `offline` or `degraded`.  An `agent.ready` of a new socket handled
  during those awaits is overwritten: the socket is ready and acknowledged, so
  the connector does not repeat `agent.ready`, but the row is not `online` and
  `pendingCommandsForConnector` leases nothing to it until it reconnects.
* `turn_tracked`: `clear_active_turn_interaction` empties the slot whatever it
  names.  The worker may wait on the next request by then, and every response
  to that one is turned away.

Met while modelling, stated in the modules or kept out of a property, and
without a run of their own:

* `SettledAbsentIsNotDegraded` (`AgentSockets`): the late write of `staleready`
  can leave a connector with no socket `degraded`.
* `ExecProcess`: the prompt is written before the timeout is looked at, and the
  readers are joined after it.  A child that does not read a long prompt, or a
  descendant that holds a pipe, keeps the worker for good; `TimeoutEnds` is
  stated for prompts that fit and for no such descendant.
* `HistoryIsNotDuplicated` (`HostSessionBackfill`): a prompt imported from
  `history.jsonl`, when no rollout was found, has another id than the same
  prompt in the rollout found later, and is stored twice.
* `KeepsPresence` (`HostSessionReports`) holds of reports recorded one after the
  other.  Two at a time overwrite each other with what they read.
* `CreatedStaysPresent` (`HostSessionReports`): a full report whose list was read
  before a session was created clears the presence of its row.
* `ConnectorReports`: two `agent.ready` handled at once may be stored in the
  other order, the older one last; `AckedReadyIsStored` is stated for one
  handler.

## What is proved

`CommandTableProofs` proves, for any finite or infinite sets of connectors,
sessions, lanes and handlers, any heirs and any number of commands, from
`CommandTableAssumption` alone:

| Theorem | States |
|---|---|
| `Invariant` | `Spec => []IInv` |
| `TypeCorrect`, `OwnersAreTargets`, `WaitingCommandsAreUnowned`, `AppServerCommandsKeepSessions`, `HandlersStaySound` | the checked invariants `TypeOK`, `OwnerIsTarget`, `PendingIsUnowned`, `AppServerKeepsSession`, `FramesAreSound` |
| `EndsAreFinal`, `RunningCommandsStay` | the checked action properties `EndIsFinal`, `RunningIsNotMoved` |
| `ImplementsLease` | `LeaseProtocol`: the table implements `CommandLease` |

The argument.  None of the row invariants is inductive alone: a lease binds a
session that its SELECT read earlier, so `AppServerKeepsSession` needs to know
what a frame promises, and a frame's promise must survive what the *other*
handlers write.  `IInv` is `TypeOK`, `FramesAreSound` and the three row
invariants.  The proof has two halves.  `RowStep(old, new)` describes what any
statement may do to one row, and one lemma per group of actions shows that
every row makes such a step (`RowsContinue`, `RowsAtOnce`).  `FrameSurvives` then shows that
a sound frame stays sound under any `RowStep`s of the rows, so only the handler
that moved needs a look (`FramesContinue`, `FramesBegin`).  The action
properties and the refinement follow from `RowStep` too.

`AppServerStartsAreAttached` proves `StartsWhereAttached`, that an app-server
command starts only in the session its lane is attached to at that moment.  The
UPDATE of a start compares the session of the row with the newest attachment,
but only if the SELECT before it read a session; `StartsAreBound` says that a
start of an app-server row that reaches its UPDATE did, whatever other handlers
wrote to the row in between.

`EndsAreToldTrue` says how commands end (`EndsAreTrue`, the
conjunction of `AtMostOneFinalEvent`, `FinalEventIsTrue` and
`TaskOutcomeHasCause`).  Here the frames of several handlers have to be related.
`EndsInv` adds that between the UPDATE that ends a command and the append that
logs the end one handler at most closes that command (`OneCloses`), that what it
is about to write is the state of the row, and that the end is not logged yet
(`ClosingIsTrue`).  An ended row is never written again, which is `RowStep`, and
so the statement that ends a row finds no handler that closes it already.

`AgentSocketsProofs` proves, for any number of sockets, commands and handlers,
from `AgentSocketsAssumption`: `TypesAreCorrect` (`TypeOK`), `OneRefreshAtATime`
(`OneRefreshPending`) and `ExecutionSound` (`ExecutionIsSound`: a command is
executed once, runs in the database while it is executed, and is known to the
socket it is executed on).  The start of a command is a message of the
connector, then the frame of the handler that records it, then the
acknowledgement; dispatches of the same command may wait on the socket at the
same time, and older ones on sockets that are gone.  The invariant has nine
conjuncts, of which these carry the argument: on the socket in use there is one
start at most in any of its three forms, that of the command the connector is
starting (`OneStart`); what was accepted, and what began, has started in the
database (`AcceptedHasStarted`); an end is reported only by a connector that
began the command (`EndsAreReported`); once a command has begun and runs, no
dispatch of it is left on the socket in use unless it is being executed, and a
start of it that is on its way is not accepted (`BeginsOnce`); and a socket is
ready when it is dispatched on and lists what waits on it (`SocketKnows`).

`RunningStaysListed` proves `RunningIsListed` as `worker_ends` checks it, under
the hypotheses `~MayExpire` and `~MayDie`.  `MindedInv` follows a command through
the close of its socket: while it is active it is leased by a handler that has
not sent it, or on the list of an open socket, or about to be failed by the
handler of a close (`Minded`).  That is inductive only with what a lease means:
one handler has it at a time, and what it has not sent the connector never saw
(`Handed`), so no event can make the command run while its send may still throw
and take it off the list.  The end of a command takes it off too, but then
`EndsAreReported` has it that the row has ended.

`ThreadEventsProofs` proves, for any set of handlers and any finite history,
from `ThreadEventsAssumption`, the theorems `NumbersStayFresh`
(`NumbersAreFresh`) and `ImportsComplete` (`ImportIsComplete`).  The invariant
adds `ImportsSoFar` to them: what the loop of a backfill has been through is in
the thread.  That follows from the freshness of the numbers, without which
`OR IGNORE` could drop an event that is not a duplicate.  `NumberStep` shows
that a statement only takes the next number, keeps or drops one, uses one or
returns the last (`Takes`, `Keeps`, `Uses`, `Returns`); `FreshStep` and
`ImportStep` then need no statement-by-statement argument about numbers.
`UsageNeverRunsAhead` (`UsageNeverOvercounts`) is a fact about a count, which
becomes inductive when every event that is stored has an account: it has been
counted, or it is one that a handler has stored and still owes to the window
(`Accounts`).  It also has the composition of the run `events`:
`AllHaveTheirTypes` (`TypesAreCorrect`) and `HistoryIsToldTruly`
(`HistoryIsTold`), from what `HostSessionProofs` proves of `HostSessionBackfill`.

`AppServerResolverProofs` has the four modules of `MCAppServer`.  For any
callers, capacity and limit, from `ResolverAssumption`: `ThreadsStayBounded`
(`ThreadsAreBounded`), `NoRequestIsLost` (`WaitIsHeard`) and
`LateTimeoutsReplaceNothing` (`OnlyItsCallersRetire`).  The invariant adds
`OnlyStarted`: queues, workers and the senders that callers hold belong to
generations that were started, so that a new generation begins with an empty
queue.  The other three modules are instances whose constants are the fields of
a record `k` (see below):

* `AppServerManager`, for any intervals, drains and backoffs and any number of
  upgrades: `EveryManagerStaysTrue` (`ManagerIsTrue`) and `TurnsAreDrained`
  (`DrainIsGranted`, a conjunct of `RestartIsFair`).  Every call of the manager
  is a sequence of steps with exits between them, so the invariant is what each
  step may rely on: which report stands at which step, and that a pending restart
  shows in it (`ReportsStand`), that a
  restart under way is known to be one (`RestartIsKnown`), where the process is
  gone (`ProcessIsGone`), that an upgrade the process does not have is pending or
  about to be carried out (`UpgradeStays`), and that from the decision to
  restart on a turn that runs has had its time (`TurnIsDrained`).
* `AppServerConnect`: `ReturnedStaysOpen` (`ReturnedIsOpen`), for any number of
  addresses and any deadline, whose invariant says at which steps the watchdog
  may be armed and that it fires only at the deadline (`Guarded`); and
  `SharesAlwaysRemain` (`SharesRemain`), for connects over TCP without delays
  that begin with a tick for each address, because an equal share of what is left
  leaves a tick for each of the others (`ShareLeaves`).
* `AppServerPreflight`: `EveryPreflightCleansUp` (`ReleasedMeansDead` and
  `NothingIsLeft`), for any processes in the group and any number of attempts.
  The invariant follows whether the group was let go of through the two stops,
  and which of the files stay after it because they could not be removed
  (`CleansUp`).

`TurnInteractionProofs` has the three modules of `MCTurns`.  For any
interactions and responses, from `InteractionAssumption`: `AnswersStayTheirs`
(`AnswersFit`), `AcceptedWasUsed` (`AcceptedIsAnswered`), `RefusedWasNotUsed`
(`RefusedIsUnused`, for the responses outside `Slow`), `GrantsAreOperators`
(`GrantedByOperator`) and `AnswersAreTheirOwn` (`AnswersAreTheirs`, which adds
`AutoAnswersAreTold`).  The strengthening `Sound` says that a response that is
not settled is in one place at a time (the socket, the delivery, the channel,
the worker), that nothing was done with it while it waits, that the interaction
at hand is unanswered until the last step, and that acknowledgements tell the
truth.  `ToldInv` follows the event of an answer that a limit gave from the
worker through the channel to the control plane: the connector's thread leaves
the channel only when it is empty and the worker has ended, when the turn is
cancelled, or when it is gone.

Of `AppServerTurn`, for any limits on text and messages: `ReportsAreOfThisTurn`
and `KnownTurnsAreInterrupted`.  A report rests on messages that the app-server
sent earlier, so `TurnInv` says that every message on its way, read or not, tells
what has become of the turn (`Tells`): an end, a fatal error, an answer with an
end in it is only ever sent of a turn that has ended so.  The text stays
within its limit because what is cut off is the rest after the last offset that
fits, and the offset 0 always does.  Of `ExecProcess`, for any capacity of a pipe
and any heirs: `EveryRunIsEarned`, whose invariant `RunInv` accounts for every
chunk written - kept, in a pipe that somebody reads, or dropped with a
warning - and for the process from the spawn to the report.

`ConnectorReportsProofs` proves, of `ConnectorReports`, for any sockets, values
and handlers, from `ReportsAssumption`: `ReportTypes`, and, for one handler,
`AcknowledgedIsStored` (`AckedReadyIsStored`), which no run checks as an
invariant.  A connector that has an acknowledgement sends its value again only
when it changes, so `AckInv` follows the row through the acknowledgement: the
last `agent.ready` answer on its way holds what is in the row, no answer on its
way means that what was acknowledged is in the row, and a handler of the socket
before has not stored for the one in use.

`HostSessionProofs` proves, of `AppServerThreads`, for any threads, page sizes
and budgets of pages, from `ThreadAssumption`: `SyncsAreWhole`, `ThreadsFit` and
`OnlyMeantMove` (`OnlyMeant`, a conjunct of `NothingElseChanges`).  A sync is
whole when its scans saw what is in the list, which other clients reorder
between two pages.  The invariant has what every step may rely on (`StepsFit`);
that a scan which was not disturbed has seen the list up to its cursor, and has
found just the threads that match in it (`ScansTell`); that what a sync still
has to do together with what it has done is what it was asked for, on the
session itself or on the threads that name it (`Matches`, `ShowsNew`); that
"missing" is said only of a session with no thread in the list
(`MissingIsTrue`); and that what is attached is active (`AttachesActive`).
`Only(s, S)`, the order in which a scan finds threads, is a recursive function;
what it contains and preserves is proved by the least length
for which it would fail, since a set of numbers that is not empty has a least
element and induction is out of reach.

It has the reports too, as the instance `Reports` of `HostSessionReports`, for
any finite sets of sessions and threads, pages and cuts of any size and any
number of handlers, from `ReportAssumption`.  `FullReportsAreWhole` (`TypeOK` and
`FullIsWhole`): a report carries what it claims from the page it was made of to
the handler at work on it (`ReportsTell`), and at the making a list that is not
truncated has all the open threads, so that no session is left out and, without a
cut, each has its row; it needs that times in the files are not later than the
clock (`TimesAreMet`), for the order of the drafts.  Under `Serial`, one handler
at a time and no session created for the browser, as the run has it,
`FullReportsSettle` (`FullReportSettles`) and `OnlyAbsenceClears`
(`PresenceIsKept`): `Progress` says how far the recording has come, which rows
are as the report has them and which are left to write or to clear, and that
what `findHostSession` read is still so when the row is written.  With two
handlers it need not be, which is why `Serial` is assumed.

And it has the imported history, as the instance `Import` of
`HostSessionBackfill`, for any sessions, files and limits and any number of
attachments, from `BackfillAssumption`.  `HistoryIsImported` (`TypeOK`, `InOrder`,
`NoSilentGap`, `OldestAreLeftOut`, the conjuncts of `HistoryIsTold`) has the
invariant `HistoryInv`.  A file only grows, by lines that are newer than all
before (`FilesAreNumbered`, `Grows`); what is in the thread is a prompt of the
history or a record of a file (`StoredAreThere`), and with a record the thread has
all that an import selects of its file and that is older (`NoHoles`); what is to be
imported is in the order of the file, and neither is older than what is
in the thread nor skips anything that is not (`EventsFit`, `ImportFits`), whatever
Codex has appended since the file was read; and an import that is not truncated
has all that the file held (`AllIsImported`).  What is selected of a file
is a recursive function here too (`Only`).

`InteractionClaimsProofs` proves, for any number of operators, from
`ClaimAssumption`: `AnswersAreRecordedTruly` (`ResolutionIsTrue`).  No statement
names the owner of a claim, so the strengthening has to: until the resolution
is recorded, the claim is of the handler at work on it and is not stale
(`Owned`), and every trace of a confirmed delivery - in the row, in a handler,
in an acknowledgement - is what the app-server was answered with, for as long
as it may still be recorded (`Confirmed`).  After that a claim may be marked by
a handler it is not of, and nothing comes of it.

The compositions.  `MCWorker`, `MCEvents`, `MCTurns`, `MCAppServer`, `MCReports`
and `MCConnectorReports` are themselves specifications, of several modules side by
side with constants given.  A theorem about a module holds for all values of its
constants, but its instances in an MC module need to be brought to it.  So a
module that occurs more than once is instantiated for the proofs with a
parameter, `P(k) == INSTANCE ... WITH Ids <- k.ids, ...`, and proved about for an
arbitrary record `k` that meets the module's assumption; a lemma for each
action shows that an instance of the MC module is `P` at the record of its
constants; and `CompositionInv`, which says of each subject its invariant and of
the others that they stay as they began, gives the theorems that the runs check:
`EndsAreToldTruly` (where `CommandTableProofs` is instantiated, once for each
table), `ReportsAreOfTheTurn`, `RunsAreEarned`, `ConnectsAreSound`, `ManagerStaysTrue`,
`NothingStaysBehind`, `SyncsAreTrue`, `ThreadsAreTheRightOnes`,
`FullReportsAreBelieved`, `NothingElseIsChanged`, `HistoryIsToldTruly`, and `AllKeepTheirTypes` or
`AllHaveTheirTypes` for each run that has one.  The assumptions of the instances
are assumed in the MC modules, where TLC evaluates them.

Only model-checked.  Out of this prover's reach: liveness under fairness
(`EndsCome`, `WaitsEnd`, `WorkEnds`, `RestartHappens`, `RowsSettle` and the
others).  Every invariant and every other action property of a passing run is
stated by a theorem.

## Plan

In this order, each with its run and mutants:

1. `PendingRequests`: the five maps and timers (DO 737-1034) over an abstract
   request with one outcome.
2. The loops of the connector around a turn (CO 692-916, 1171-1409, 1573-1940):
   messages deferred, waits for acknowledgements during a turn, composed with
   `TurnInteraction` and `AgentSockets`.
3. `BudgetSafety`: usage windows and their states, samples and guards (DB
   162-445, 5383-6735).
4. `BrowserState`: merging in `apps/web/src/state.ts`.
5. Proofs: the refinement of `TurnInteraction` by `InteractionClaims` with
   `TurnInteraction`'s connector in the place of its external one.

## Not modelled

Authentication and token rotation, HTTP parsing, payload shapes, SQL indexes,
the parsing of configuration files and URLs, deployment scripts and sample
data: no interleaving, or pure I/O.  Budget windows, pending requests and the
browser's state are planned above.  Of the parts modelled: several app-server
instances of one connector, titles and working directories, pages of events,
several interactions of one task on the Worker's side, and the health probe of
the inventory.  Time is abstracted to "the deadline has passed", or to a few
ticks where durations are compared.
