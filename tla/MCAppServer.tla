------------------------------ MODULE MCAppServer ------------------------------
(***************************************************************************)
(* The app-server and the way to it, for TLC: name resolution, the connect *)
(* over three addresses, four addresses and a Unix socket, the managed     *)
(* process and its preflight.  They do not meet while they run, so a       *)
(* behaviour is about one of them, named by subject, and the others stay   *)
(* in their initial states.                                                *)
(***************************************************************************)
EXTENDS AppServerResolver

VARIABLES
  subject,
  at, left, tried, share, stream, guard, result,             \* the connect
  step, call, child, orphaned, foreign, state, detail, url, turn, pending,
  drain, schedule, backoff, marker, seen, shutdown,          \* the process
  stage, next, verdict, attempt, held, leader, members, resisted,
  unremoved, probe, dir, socket                                                \* its preflight

CONSTANTS c1, c2, m1, m2

Silent == INSTANCE AppServerConnect
  WITH Addresses <- 4, Timeout <- 11, Unix <- FALSE, Tls <- TRUE, Delays <- FALSE
Tcp == INSTANCE AppServerConnect
  WITH Addresses <- 3, Timeout <- 7, Unix <- FALSE, Tls <- TRUE, Delays <- TRUE
Local == INSTANCE AppServerConnect
  WITH Addresses <- 1, Timeout <- 12, Unix <- TRUE, Tls <- FALSE, Delays <- TRUE
Manager == INSTANCE AppServerManager
  WITH pc <- step, Interval <- 2, Drain <- 2, Backoff <- 1, MaxMarker <- 2, Faults <- TRUE
Preflight == INSTANCE AppServerPreflight
  WITH pc <- stage, result <- verdict, Members <- {m1, m2}, SpawnAttempts <- 3, Faults <- TRUE

\* The bounds of the instances are what their modules assume of them.
ASSUME Silent!ConnectAssumption /\ Tcp!ConnectAssumption /\ Local!ConnectAssumption
ASSUME ManagerBounds == Manager!AppServerManagerAssumption
ASSUME Preflight!PreflightAssumption

connect == <<at, left, tried, share, stream, guard, result>>
manager == <<step, call, child, orphaned, foreign, state, detail, url, turn, pending, drain,
             schedule, backoff, marker, seen, shutdown>>
preflight == <<stage, next, verdict, attempt, held, leader, members, resisted, unremoved,
               probe, dir, socket>>
all == <<subject, vars, connect, manager, preflight>>

About(s) == subject = s /\ UNCHANGED subject
Resolves(A) == About("resolver") /\ A /\ UNCHANGED <<connect, manager, preflight>>
Connects(s, A) == About(s) /\ A /\ UNCHANGED <<vars, manager, preflight>>
Manages(A) == About("manager") /\ A /\ UNCHANGED <<vars, connect, preflight>>
Checks(A) == About("preflight") /\ A /\ UNCHANGED <<vars, connect, manager>>

MCInit ==
  /\ subject \in {"resolver", "silent", "tcp", "local", "manager", "preflight"}
  /\ Init /\ Manager!Init /\ Preflight!Init
  /\ CASE subject = "tcp" -> Tcp!Init [] subject = "local" -> Local!Init [] OTHER -> Silent!Init

MCNext ==
  \/ Resolves(Next)
  \/ Connects("silent", Silent!Next) \/ Connects("tcp", Tcp!Next) \/ Connects("local", Local!Next)
  \/ Manages(Manager!Next) \/ Checks(Preflight!Next)

(* The fairness of each, as its module explains it.  Only one disjunct of a *)
(* line can ever be enabled in a behaviour, so a line says what one         *)
(* condition for each of them would say.                                    *)
MCSpec ==
  /\ MCInit /\ [][MCNext]_all
  /\ \A c \in Callers : WF_all(Resolves(Caller(c)))
  /\ \A g \in Generations : WF_all(Resolves(Worker(g)))
  /\ WF_all(Connects("tcp", Tcp!Own) \/ Connects("local", Local!Own) \/ Manages(Manager!Call))
  /\ WF_all(Connects("tcp", Tcp!Fire) \/ Connects("local", Local!Fire) \/ Manages(Manager!Work))
  /\ WF_all(Connects("tcp", Tcp!Tick) \/ Connects("local", Local!Tick) \/ Manages(Manager!Tick))
  /\ SF_all(Manages(Manager!Stop /\ Manager!Stopped))
-----------------------------------------------------------------------------
MCCallers == {c1, c2}

(* All states have their types.                                             *)
TypesAreCorrect ==
  /\ TypeOK /\ Manager!TypeOK /\ Preflight!TypeOK
  /\ CASE subject = "tcp" -> Tcp!TypeOK [] subject = "local" -> Local!TypeOK [] OTHER -> Silent!TypeOK

(* A socket that is returned is open and stays open: no watchdog has shut  *)
(* it, and none is left that could, whenever the deadline fell.  As long   *)
(* as the thread is not delayed where it does not block, an address is     *)
(* taken up with a tick left for each that remains, however silent those   *)
(* before it were.                                                         *)
ConnectIsSound == Tcp!ReturnedIsOpen /\ (subject = "silent" => Silent!SharesRemain)

(* Between calls the connector advertises the app-server exactly when it   *)
(* reports it healthy, reports a drain only while there is one, and a      *)
(* pending restart as a drain or as degraded; it never starts a second     *)
(* process beside one that lives; and one older than the last upgrade      *)
(* noticed is about to be replaced, whatever failed or was scheduled in    *)
(* between.                                                                *)
ManagerIsTrue == Manager!ManagerIsTrue

(* A process group that the preflight has let go of is dead to the last    *)
(* member, whichever of them exited first.  No process is left of one that *)
(* passes or whose stops succeeded, and of its socket and its directory    *)
(* only what it failed to remove.                                          *)
NothingIsLeft == Preflight!ReleasedMeansDead /\ Preflight!NothingIsLeft

(* A lookup thread is retired only by a caller that was using it, and ends  *)
(* once its lookups do; a connect ends with its deadline, even against a    *)
(* peer that keeps the handshake alive.                                     *)
WaitsEnd ==
  /\ OnlyItsCallersRetire /\ RetiredEnds
  /\ subject \in {"tcp", "local"} => Tcp!DeadlineEnds

(* A restart that is requested is carried out, or has nothing to stop,     *)
(* unless a listener that the manager did not start keeps coming back, and *)
(* takes no process from under a turn before its drain timeout.            *)
RestartIsFair == Manager!RestartHappens /\ Manager!DrainIsGranted
=============================================================================
