------------------------- MODULE AppServerPreflight -------------------------
(***************************************************************************)
(* `--managed-app-server-preflight-check` (crates/agent/src/main.rs and    *)
(* app_server_manager.rs): a candidate app-server is started in a process  *)
(* group of its own on a private Unix socket, must answer before the       *)
(* startup deadline, and is stopped again.  The steps of terminate_child   *)
(* are separate, because the group lives on between two signals.           *)
(***************************************************************************)
EXTENDS Integers

CONSTANTS Members,        \* processes the app-server may start in its group
          SpawnAttempts,  \* APP_SERVER_SPAWN_ATTEMPTS
          Faults          \* whether a signal or a file operation may fail

PreflightAssumption == SpawnAttempts \in Nat \ {0} /\ Faults \in BOOLEAN

VARIABLES pc,       \* the step preflight_managed_app_server is at
          next,     \* where stop_child returns to
          result,   \* what it will return
          attempt,  \* of spawn_app_server
          held,     \* manager.child is Some
          leader,   \* the process that was spawned
          members,  \* the other live processes of its group
          resisted, \* a stop has failed
  unremoved,\* the removal of the socket or of the directory has failed by itself
          probe,    \* the directory that tests the configured parent exists
          dir,      \* the private directory exists
          socket    \* the socket in it exists

vars == <<pc, next, result, attempt, held, leader, members, resisted, unremoved, probe, dir, socket>>
group == <<leader, members>>
files == <<unremoved, probe, dir, socket>>

TypeOK ==
  /\ pc \in {"probe", "dir", "spawn", "ready", "inspected", "stop", "grace", "kill", "sweep",
             "unlink", "rmdir", "drop", "done"}
  /\ next \in {"inspected", "unlink", "done"}
  /\ result \in {"none", "passed", "failed"}
  /\ attempt \in 1..SpawnAttempts
  /\ held \in BOOLEAN /\ resisted \in BOOLEAN /\ unremoved \in BOOLEAN
  /\ leader \in {"none", "runs", "zombie", "reaped"}
  /\ members \subseteq Members
  /\ held => leader # "none"
  /\ probe \in BOOLEAN /\ dir \in BOOLEAN /\ socket \in BOOLEAN
  /\ socket => dir

Init ==
  /\ pc = "probe" /\ next = "unlink" /\ result = "none" /\ attempt = 1
  /\ held = FALSE /\ leader = "none" /\ members = {} /\ resisted = FALSE /\ unremoved = FALSE
  /\ probe = FALSE /\ dir = FALSE /\ socket = FALSE

Alive == leader = "runs" \/ members # {}
-----------------------------------------------------------------------------
(* AppServerPreflightEndpoint::new *)

(* The parent of the configured socket must let a directory be made and    *)
(* removed; a removal that fails is tried once more, and fails the check.  *)
ProbeParent ==
  /\ pc = "probe"
  /\ \/ pc' = "dir" /\ UNCHANGED <<result, probe>>
     \/ /\ Faults /\ pc' = "done" /\ result' = "failed"
        /\ probe' \in BOOLEAN
  /\ UNCHANGED <<next, attempt, held, group, resisted, unremoved, dir, socket>>

CreateDir ==
  /\ pc = "dir"
  /\ \/ dir' = TRUE /\ pc' = "spawn" /\ UNCHANGED result
     \/ Faults /\ pc' = "done" /\ result' = "failed" /\ UNCHANGED dir
  /\ UNCHANGED <<next, attempt, held, group, resisted, unremoved, probe, socket>>
-----------------------------------------------------------------------------
(* spawn_app_server: an executable that is busy is tried again.            *)
Spawn ==
  /\ pc = "spawn"
  /\ \/ /\ pc' = "ready" /\ held' = TRUE /\ leader' = "runs"
        /\ UNCHANGED <<result, attempt>>
     \/ /\ attempt < SpawnAttempts /\ attempt' = attempt + 1
        /\ UNCHANGED <<pc, result, held, leader>>
     \/ /\ pc' = "unlink" /\ result' = "failed"
        /\ UNCHANGED <<attempt, held, leader>>
  /\ UNCHANGED <<next, members, resisted, files>>

(* clear_exited_child at the top of the loop of wait_until_ready: an exit  *)
(* cleans up the group before anything is asked of the socket.             *)
StopFor(n) == pc' = "stop" /\ next' = n
Inspect ==
  /\ pc = "ready"
  /\ IF leader = "runs" THEN pc' = "inspected" /\ UNCHANGED next ELSE StopFor("inspected")
  /\ UNCHANGED <<result, attempt, held, group, resisted, files>>

(* The loop ends with a healthy answer, without a child, at the deadline   *)
(* or at a shutdown, or goes round again.                                  *)
Ready ==
  /\ pc = "inspected"
  /\ \/ held /\ pc' = "ready" /\ UNCHANGED <<next, result>>
     \/ held /\ socket /\ Alive /\ result' = "passed" /\ StopFor("unlink")
     \/ result' = "failed" /\ StopFor("unlink")
  /\ UNCHANGED <<attempt, held, group, resisted, files>>
-----------------------------------------------------------------------------
(* stop_child_checked and terminate_child *)

StopReturns == pc' = next
Resist ==
  /\ Faults /\ resisted' = TRUE
  /\ result' = IF next = "unlink" THEN "failed" ELSE result
  /\ StopReturns
  /\ UNCHANGED <<held, group>>

(* The process is waited for, and is the manager's no longer. *)
Release ==
  /\ leader' = "reaped" /\ members' = {} /\ held' = FALSE
  /\ StopReturns /\ UNCHANGED <<result, resisted>>

(* SIGTERM to the group of a leader that runs. *)
Stop ==
  /\ pc = "stop"
  /\ \/ ~held /\ StopReturns /\ UNCHANGED <<result, held, group, resisted>>
     \/ /\ held /\ leader = "runs"
        /\ \/ pc' = "grace" /\ UNCHANGED <<result, held, group, resisted>>
           \/ Resist
     \/ /\ held /\ leader # "runs"
        /\ leader' = "reaped" /\ pc' = "sweep"
        /\ UNCHANGED <<result, held, members, resisted>>
  /\ UNCHANGED <<next, attempt, files>>

(* wait_for_child_exit: two seconds for the leader. *)
Grace ==
  /\ pc = "grace"
  /\ \/ leader = "zombie" /\ leader' = "reaped" /\ pc' = "sweep"
     \/ leader = "runs" /\ pc' = "kill" /\ UNCHANGED leader
  /\ UNCHANGED <<next, result, attempt, held, members, resisted, files>>

(* SIGKILL, to the group that is left or to all of it. *)
Kill ==
  /\ pc = "kill"
  /\ Release \/ Resist
  /\ UNCHANGED <<next, attempt, files>>

\* Mutant.
SweepLeader ==
  /\ pc = "sweep" /\ held' = FALSE /\ StopReturns
  /\ UNCHANGED <<next, result, attempt, group, resisted, files>>

Sweep ==
  /\ pc = "sweep"
  /\ Release \/ Resist
  /\ UNCHANGED <<next, attempt, files>>
-----------------------------------------------------------------------------
(* The locals are dropped in reverse: the endpoint, then the manager.      *)

(* What cannot be removed is logged, after the result has been decided.     *)
Unlink ==
  /\ pc = "unlink" /\ pc' = "rmdir"
  /\ \/ socket' = FALSE /\ UNCHANGED unremoved
     \/ Faults /\ unremoved' = TRUE /\ UNCHANGED socket
  /\ UNCHANGED <<next, result, attempt, held, group, resisted, probe, dir>>

(* A directory that is not empty cannot be removed either: the group may    *)
(* have bound the socket again.                                             *)
RemoveDir ==
  /\ pc = "rmdir" /\ pc' = "drop"
  /\ \/ ~socket /\ dir' = FALSE /\ UNCHANGED unremoved
     \/ socket /\ UNCHANGED <<dir, unremoved>>
     \/ Faults /\ unremoved' = TRUE /\ UNCHANGED dir
  /\ UNCHANGED <<next, result, attempt, held, group, resisted, probe, socket>>

DropManager ==
  /\ pc = "drop" /\ StopFor("done")
  /\ UNCHANGED <<result, attempt, held, group, resisted, files>>
-----------------------------------------------------------------------------
(* The processes of the group: they bind the socket, fork, and exit when   *)
(* they like, also at a SIGTERM.                                           *)
Bind ==
  /\ Alive /\ dir /\ ~socket /\ socket' = TRUE
  /\ UNCHANGED <<pc, next, result, attempt, held, group, resisted, unremoved, probe, dir>>

Fork ==
  /\ Alive /\ \E m \in Members \ members : members' = members \cup {m}
  /\ UNCHANGED <<pc, next, result, attempt, held, leader, resisted, files>>

Exit ==
  /\ \/ leader = "runs" /\ leader' = "zombie" /\ UNCHANGED members
     \/ \E m \in members : members' = members \ {m} /\ UNCHANGED leader
  /\ UNCHANGED <<pc, next, result, attempt, held, resisted, files>>
-----------------------------------------------------------------------------
Next ==
  \/ ProbeParent \/ CreateDir \/ Spawn \/ Inspect \/ Ready
  \/ Stop \/ Grace \/ Kill \/ Sweep
  \/ Unlink \/ RemoveDir \/ DropManager
  \/ Bind \/ Fork \/ Exit

Spec == Init /\ [][Next]_vars
-----------------------------------------------------------------------------
(* A process group that the manager has let go of is dead to the last      *)
(* member, whichever of them exited first (terminate_child).               *)
ReleasedMeansDead == ~held => ~Alive

(* A preflight that passes, or whose stops all succeeded, leaves no process *)
(* behind, and of its socket and its directory only what it failed to       *)
(* remove; the test of the parent leaves nothing where the result is        *)
(* "passed".  A failed removal is only logged, so a preflight that passed   *)
(* may have left a file, but never one that a process still uses.           *)
NothingIsLeft ==
  pc = "done" =>
    /\ result = "passed" => ~probe
    /\ result = "passed" \/ ~resisted => ~Alive /\ (dir \/ socket => unremoved)
=============================================================================
