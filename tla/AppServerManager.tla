-------------------------- MODULE AppServerManager --------------------------
(***************************************************************************)
(* crates/agent/src/app_server_manager.rs: the process of the app-server a *)
(* connector manages, its restarts and what the connector reports of it.   *)
(* The connector calls runtime_config between commands and                 *)
(* runtime_config_during_active_turn while a command runs on the           *)
(* app-server.  A call is a sequence of steps, because the process and     *)
(* other listeners go their own way between its health checks.  Instants   *)
(* are kept as the time that is left until they are reached.               *)
(***************************************************************************)
EXTENDS Integers

CONSTANTS
    Interval,   \* scheduled_restart_interval_seconds, 0 for never
    Drain,      \* drain_timeout_seconds
    Backoff,    \* restart_backoff_seconds
    MaxMarker,  \* bound on the times the upgrade marker is written
    Faults,     \* whether signals and the start of a process may fail
    None

Reasons == {"scheduled", "upgrade"}
Processes == [status : {"starting", "up", "sick", "exited"}, marker : Nat]

AppServerManagerAssumption ==
    /\ Interval \in Nat /\ Drain \in Nat \ {0} /\ Backoff \in Nat \ {0}
    /\ MaxMarker \in Nat /\ Faults \in BOOLEAN
    /\ None \notin Nat /\ None \notin Reasons /\ None \notin Processes

VARIABLES
    pc,        \* the next step of the call in flight
    call,      \* its local variables
    child,     \* the process the manager holds
    orphaned,  \* whether a live process it started is held no longer
    foreign,   \* whether a listener it did not start answers at the listen URL
    state,     \* what the connector reports of the instance
    detail,    \* whether the error reported is that of a forced restart
    url,       \* whether the last call returned the listen URL
    turn,      \* active_turn_count
    pending,   \* the reason of the pending restart
    drain,     \* time until its drain timeout
    schedule,  \* time until the next scheduled restart
    backoff,   \* time until a start may be tried again
    marker,    \* modification of the upgrade marker file
    seen,      \* last_upgrade_marker_modified
    shutdown   \* shutdown_requested

vars == <<pc, call, child, orphaned, foreign, state, detail, url, turn, pending, drain,
          schedule, backoff, marker, seen, shutdown>>
process == <<child, orphaned>>
clock == <<drain, schedule, backoff>>
environment == <<foreign, marker, shutdown>>
report == <<state, detail, url>>

-----------------------------------------------------------------------------

Steps == {"idle", "schedule", "inspect", "advance", "block", "stop", "reblock",
          "ensure", "probe", "restop", "spawn", "wait", "dropped"}
States == {"healthy", "degraded", "draining", "restarting", "stopped"}

\* restart: the call carries out a restart for this reason; forced: under a
\* turn; deferred: the scheduled restart gives way to the backoff.
Calls == [next : {"advance", "ensure"}, restart : Reasons \cup {None},
          forced : BOOLEAN, deferred : BOOLEAN]
NoCall == [next |-> "ensure", restart |-> None, forced |-> FALSE, deferred |-> FALSE]

TypeOK ==
    /\ pc \in Steps /\ call \in Calls
    /\ child \in Processes \cup {None} /\ orphaned \in BOOLEAN /\ foreign \in BOOLEAN
    /\ state \in States /\ detail \in BOOLEAN /\ url \in BOOLEAN
    /\ turn \in BOOLEAN
    /\ pending \in Reasons \cup {None}
    /\ drain \in Nat /\ schedule \in Nat \cup {None} /\ backoff \in Nat
    /\ marker \in Nat /\ seen \in Nat /\ shutdown \in BOOLEAN

\* A marker file that does not exist is older than any other.
Init ==
    /\ pc = "idle" /\ call = NoCall
    /\ child = None /\ orphaned = FALSE /\ foreign \in BOOLEAN
    /\ state = "stopped" /\ detail = FALSE /\ url = FALSE
    /\ turn = FALSE
    /\ pending = None
    /\ drain = 0 /\ schedule = None /\ backoff = 0
    /\ marker = 0 /\ seen = 0
    /\ shutdown = FALSE

Alive == child # None /\ child.status # "exited"
Answers == foreign \/ (child # None /\ child.status = "up")
Armed == IF Interval = 0 THEN None ELSE Interval

SetState(s, forcedDetail) == state' = s /\ detail' = forcedDetail

\* The call returns the listen URL, or nothing.
Return(ok) == pc' = "idle" /\ call' = NoCall /\ url' = ok

-----------------------------------------------------------------------------
(* The connector.                                                          *)

Call ==
    /\ pc = "idle" /\ pc' = "schedule"
    /\ UNCHANGED <<call, process, report, turn, pending, clock, seen, environment>>

BeginTurn ==
    /\ pc = "idle" /\ ~turn
    /\ turn' = TRUE
    /\ UNCHANGED <<pc, call, process, report, pending, clock, seen, environment>>

\* Mutant: the manager is not asked again when a turn ends.
FinishTurnQuietly ==
    /\ pc = "idle" /\ turn
    /\ turn' = FALSE
    /\ UNCHANGED <<pc, call, process, report, pending, clock, seen, environment>>

\* However the turn ends, runtime_config follows at once.
FinishTurn ==
    /\ pc = "idle" /\ turn
    /\ turn' = FALSE
    /\ pc' = "schedule"
    /\ UNCHANGED <<call, process, report, pending, clock, seen, environment>>

-----------------------------------------------------------------------------
(* schedule_configured_restart_requests                                    *)

\* request_restart: an upgrade supersedes a scheduled restart.
AfterRequest(pend, reason) ==
    IF pend = None \/ (reason = "upgrade" /\ pend = "scheduled") THEN reason ELSE pend

\* schedule_periodic_restart: a restart that is due waits for the backoff.
Due == schedule = 0 /\ ~(child = None /\ backoff > 0)
NextSchedule ==
    CASE Interval = 0 -> None
      [] Interval > 0 /\ schedule = None -> Interval
      [] Interval > 0 /\ schedule = 0 /\ ~Due -> backoff
      [] OTHER -> schedule

\* Mutant: every look at the schedule requests the restart anew.
Postponed(pend) == IF pend = None THEN drain ELSE Drain

Requested(pend) == IF pend # pending THEN Drain ELSE drain

Schedule ==
    /\ pc = "schedule"
    /\ LET periodic == IF Due /\ Interval > 0 THEN AfterRequest(pending, "scheduled") ELSE pending
           upgraded == IF marker > seen THEN AfterRequest(periodic, "upgrade") ELSE periodic
       IN  /\ pending' = upgraded
           /\ drain' = Requested(upgraded)
           /\ IF upgraded # pending
              THEN SetState(IF turn THEN "draining" ELSE "restarting", FALSE)
              ELSE UNCHANGED <<state, detail>>
           /\ IF upgraded = None /\ turn
              THEN pc' = "idle" /\ UNCHANGED call
              ELSE /\ pc' = "inspect"
                   /\ call' = [call EXCEPT !.next = IF upgraded = None THEN "ensure" ELSE "advance"]
    /\ schedule' = NextSchedule
    /\ seen' = IF marker > seen THEN marker ELSE seen
    /\ UNCHANGED <<process, url, turn, backoff, environment>>

-----------------------------------------------------------------------------
(* Processes                                                               *)

\* stop_child_checked: the process is gone, or it could not be stopped.
Stopped == child' = None /\ UNCHANGED orphaned
StopFails == Faults /\ child # None /\ UNCHANGED process

\* clear_exited_child: an exited process is cleaned up, and a failure noted.
Inspect ==
    /\ pc = "inspect" /\ pc' = call.next
    /\ \/ /\ child # None /\ child.status = "exited"
          /\ Stopped \/ StopFails
          /\ SetState("degraded", FALSE)
          /\ backoff' = Backoff
       \/ /\ child = None \/ Alive
          /\ UNCHANGED <<process, state, detail, backoff>>
    /\ UNCHANGED <<call, url, turn, pending, drain, schedule, seen, environment>>

-----------------------------------------------------------------------------
(* advance_pending_restart                                                 *)

Forced == turn /\ drain = 0
OfferedInDrain == FALSE

Advance ==
    /\ pc = "advance"
    /\ LET forced == Forced
           deferred == pending = "scheduled" /\ child = None /\ backoff > 0
       IN  IF turn /\ (deferred \/ ~forced)
           THEN /\ SetState("draining", FALSE)
                /\ Return(OfferedInDrain)
                /\ schedule' = IF deferred THEN backoff ELSE schedule
           ELSE /\ pc' = "block"
                /\ call' = [call EXCEPT !.forced = forced, !.deferred = deferred]
                /\ UNCHANGED <<report, schedule>>
    /\ UNCHANGED <<process, turn, pending, drain, backoff, seen, environment>>

\* block_unowned_listener_restart: what the manager did not start is left
\* alone, and the restart waits.
Blocked == child = None /\ Answers

Block ==
    /\ pc = "block"
    /\ \/ /\ Blocked
          /\ SetState("degraded", FALSE) /\ Return(FALSE)
          /\ UNCHANGED <<pending, schedule, backoff>>
       \/ /\ ~Blocked /\ call.deferred
          /\ pending' = None
          /\ schedule' = backoff
          /\ pc' = "inspect" /\ call' = [NoCall EXCEPT !.next = "ensure"]
          /\ UNCHANGED <<report, backoff>>
       \/ /\ ~Blocked /\ ~call.deferred
          /\ pending' = None
          /\ schedule' = Armed
          /\ backoff' = IF child # None \/ call.forced \/ pending = "upgrade" THEN 0 ELSE backoff
          /\ SetState("restarting", call.forced)
          /\ pc' = "stop" /\ call' = [call EXCEPT !.restart = pending]
          /\ UNCHANGED url
    /\ UNCHANGED <<process, turn, drain, seen, environment>>

Stop ==
    /\ pc = "stop"
    /\ \/ Stopped /\ pc' = "reblock" /\ UNCHANGED <<call, report, pending>>
       \/ StopFails /\ pending' = call.restart /\ SetState("degraded", FALSE) /\ Return(FALSE)
    /\ UNCHANGED <<turn, clock, seen, environment>>

Reblock ==
    /\ pc = "reblock"
    /\ \/ Blocked /\ pending' = call.restart /\ SetState("degraded", FALSE) /\ Return(FALSE)
       \/ ~Blocked /\ pc' = "inspect" /\ call' = [call EXCEPT !.next = "ensure"]
          /\ UNCHANGED <<report, pending>>
    /\ UNCHANGED <<process, turn, clock, seen, environment>>

-----------------------------------------------------------------------------
(* ensure_ready                                                            *)

\* The end of ensure_ready in state s, and after a restart of the restart:
\* the next one is armed, and the result of a forced one is recorded.
Ready(ok, s) ==
    /\ Return(ok)
    /\ schedule' = IF ok /\ call.restart # None THEN Armed ELSE schedule
    /\ IF call.forced
       THEN SetState(IF ok THEN "healthy" ELSE "degraded", ~ok)
       ELSE SetState(s, FALSE)

Fails(s) == Ready(FALSE, s) /\ backoff' = Backoff

Ensure ==
    /\ pc = "ensure"
    /\ \/ Answers /\ Ready(TRUE, "healthy")
       \/ ~Answers /\ pc' = "probe" /\ UNCHANGED <<call, report, schedule>>
    /\ UNCHANGED <<process, turn, pending, drain, backoff, seen, environment>>

\* The health check has failed.  The report of a forced restart is kept
\* during the backoff.
Probe ==
    /\ pc = "probe"
    /\ \/ /\ backoff > 0
          /\ IF state = "degraded" /\ detail /\ ~call.forced
             THEN Return(FALSE) /\ UNCHANGED <<state, detail, schedule>>
             ELSE Ready(FALSE, "degraded")
       \/ backoff = 0 /\ shutdown /\ Ready(FALSE, "stopped")
       \/ /\ backoff = 0 /\ ~shutdown
          /\ IF child # None
             THEN pc' = "restop" /\ SetState("restarting", FALSE)
             ELSE pc' = "spawn" /\ UNCHANGED <<state, detail>>
          /\ UNCHANGED <<call, url, schedule>>
    /\ UNCHANGED <<process, turn, pending, drain, backoff, seen, environment>>

Restop ==
    /\ pc = "restop"
    /\ \/ Stopped /\ pc' = "spawn" /\ UNCHANGED <<call, report, schedule, backoff>>
       \/ StopFails /\ Fails("degraded")
    /\ UNCHANGED <<turn, pending, drain, seen, environment>>

\* A process that is held is not held any more when another takes its place.
Spawn ==
    /\ pc = "spawn"
    /\ \/ /\ child' = [status |-> "starting", marker |-> marker]
          /\ orphaned' = (orphaned \/ Alive)
          /\ pc' = "wait"
          /\ UNCHANGED <<call, report, schedule, backoff>>
       \/ /\ Faults
          /\ Fails("degraded")
          /\ UNCHANGED process
    /\ UNCHANGED <<turn, pending, drain, seen, environment>>

\* wait_until_ready: healthy, or stopped because of its exit, the startup
\* timeout or a shutdown.
Wait ==
    /\ pc = "wait"
    /\ \/ Answers /\ Alive /\ Ready(TRUE, "healthy") /\ UNCHANGED <<process, backoff>>
       \/ Answers /\ ~Alive /\ StopFails /\ Ready(TRUE, "healthy") /\ backoff' = Backoff
       \/ (Stopped \/ StopFails) /\ Fails("degraded")
    /\ UNCHANGED <<turn, pending, drain, seen, environment>>

-----------------------------------------------------------------------------

\* The manager is dropped when the connector shuts down.
Drop ==
    /\ pc = "idle" /\ shutdown /\ ~turn
    /\ pc' = "dropped"
    /\ Stopped \/ StopFails
    /\ UNCHANGED <<call, report, turn, pending, clock, seen, environment>>

-----------------------------------------------------------------------------
(* Time, the process and the rest of the machine.                          *)

Minus(t) == IF t \in Nat \ {0} THEN t - 1 ELSE t

Tick ==
    /\ drain' = Minus(drain) /\ schedule' = Minus(schedule) /\ backoff' = Minus(backoff)
    /\ UNCHANGED <<pc, call, process, report, turn, pending, seen, environment>>

\* A process binds the listen URL, stops answering, recovers or exits.
ChildMoves ==
    /\ Alive
    /\ \E s \in {"up", "sick", "exited"} :
          /\ s = "up" => ~foreign
          /\ child' = [child EXCEPT !.status = s]
    /\ UNCHANGED <<pc, call, orphaned, report, turn, pending, clock, seen, environment>>

ForeignMoves ==
    /\ foreign' = ~foreign
    /\ foreign' => ~(child # None /\ child.status = "up")
    /\ UNCHANGED <<pc, call, process, report, turn, pending, clock, seen, marker, shutdown>>

WriteMarker ==
    /\ marker < MaxMarker
    /\ marker' = marker + 1
    /\ UNCHANGED <<pc, call, process, report, turn, pending, clock, seen, foreign, shutdown>>

Shutdown ==
    /\ ~shutdown /\ shutdown' = TRUE
    /\ UNCHANGED <<pc, call, process, report, turn, pending, clock, seen, foreign, marker>>

-----------------------------------------------------------------------------

Work ==
    \/ Schedule \/ Inspect
    \/ Advance \/ Block \/ Stop \/ Reblock
    \/ Ensure \/ Probe \/ Restop \/ Spawn \/ Wait
    \/ Drop

Next ==
    \/ Call \/ BeginTurn \/ FinishTurn
    \/ Work
    \/ Tick \/ ChildMoves \/ ForeignMoves \/ WriteMarker \/ Shutdown

Spec == Init /\ [][Next]_vars

\* The connector calls the manager at every tick of its loop, every call
\* returns, time passes, and a process that is stopped again and again is
\* stopped once.
FairSpec ==
    /\ Spec
    /\ WF_vars(Call) /\ WF_vars(Work) /\ WF_vars(Tick)
    /\ SF_vars(Stop /\ Stopped)

-----------------------------------------------------------------------------
(* What must hold.                                                         *)

\* Between calls the connector advertises the app-server exactly when it
\* reports it healthy: the capabilities it sends with agent.ready and the
\* state in agent.app_server_instances come from different variables, which
\* every path of a call must leave in step.
AdvertisesWhatItReports == pc = "idle" => (url <=> state = "healthy")

\* A drain is reported only while there is one: a turn that runs and a restart
\* that waits for it.  No call leaves a restart that is neither done nor pending,
\* and a restart that is pending is never hidden by a report of good health: it
\* is reported as a drain or, when a listener or a failed stop blocks it, as
\* degraded, which it also is without a turn.
DrainingIsTrue ==
    pc = "idle" =>
        /\ state # "restarting"
        /\ state = "draining" => turn /\ pending # None
        /\ pending # None => state \in {"draining", "degraded"}

\* A process that is older than the last upgrade the manager has noticed is
\* about to be replaced: no failure to stop it, no scheduled restart and no
\* backoff makes the manager forget the upgrade.
UpgradeReachesChild ==
    (child # None /\ child.marker < seen) =>
        pending = "upgrade" \/ call.restart = "upgrade"

\* The manager never starts a second process beside one that lives.
NoOrphan == ~orphaned

\* What the manager keeps right whatever fails: between calls its two reports
\* agree and are true of the drain, and at no time does it run a second
\* process or forget an upgrade it has noticed.
ManagerIsTrue ==
    AdvertisesWhatItReports /\ DrainingIsTrue /\ NoOrphan /\ UpgradeReachesChild

\* A process is not taken from under a turn before the drain timeout of the
\* restart has passed.
DrainIsGranted == [][(turn /\ Alive /\ child' = None) => drain = 0]_vars

\* A restart that is requested is carried out, or has nothing to stop, unless
\* a listener that the manager did not start keeps coming back.
RestartHappens == <>[]~foreign => (pending # None ~> (pending = None \/ shutdown))

=============================================================================
