------------------------------ MODULE MCWorker ------------------------------
(***************************************************************************)
(* The Worker's handlers, for TLC: the sockets of a connector with the     *)
(* commands given out on them, its sockets while host sessions are asked   *)
(* for and no command exists (Refresh), and the command rows of            *)
(* connectors without host sessions (Fallback), of two commands in a lane  *)
(* (Backlog) and of one whose end is logged (Logged).  They do not meet: a *)
(* behaviour is about one of Parts, named by subject, and the others stay  *)
(* in their initial states.                                                *)
(***************************************************************************)
EXTENDS AgentSockets, TLC

CONSTANTS Parts, h1, h2, c1, c2, k1, s1, l1

VARIABLES subject, rows, host, newest, connector, task, finals, frame

\* The rows of the commands stay empty where there are none.
Refresh == INSTANCE AgentSockets
  WITH command <- <<>>, begun <- <<>>, NumCommands <- 0, MaxWaiting <- 1,
       MayExpire <- FALSE, Postures <- {"normal", "blocked"}, MayDie <- TRUE
Fallback == INSTANCE CommandTable
  WITH command <- rows, run <- frame, Connectors <- {c1, c2}, SessionIds <- {},
       HostSessions <- {}, Lanes <- {l1}, OwnLane <- <<>>, Heirs <- {}, NumCommands <- 1,
       Modes <- {"cli_fallback", "placeholder"},
       EventKinds <- {"started", "finished", "failed", "requested", "resolved", "output"},
       CapSets <- {{}, {"codex_exec"}}, MayDie <- TRUE
Backlog == INSTANCE CommandTable
  WITH command <- rows, run <- frame, Connectors <- {k1}, SessionIds <- {},
       HostSessions <- {}, Lanes <- {l1}, OwnLane <- <<>>,
       Heirs <- {}, NumCommands <- 2, Modes <- {"cli_fallback"},
       EventKinds <- {"started", "finished"}, CapSets <- {{"codex_exec"}},
       MayDie <- FALSE
Logged == INSTANCE CommandTable
  WITH command <- rows, run <- frame, Connectors <- {k1}, SessionIds <- {s1},
       HostSessions <- {<<k1, s1>>}, Lanes <- {l1}, OwnLane <- [h \in {<<k1, s1>>} |-> l1],
       Heirs <- {}, NumCommands <- 1, Modes <- {"app_server", "cli_fallback"},
       EventKinds <- {"started", "finished"},
       CapSets <- {{"codex_exec", "codex_app_server_exec"}}, MayDie <- FALSE

\* The bounds of the instances are what CommandTable assumes of them.
ASSUME MCWorkerAssumption ==
  /\ Fallback!CommandTableAssumption /\ Backlog!CommandTableAssumption
  /\ Logged!CommandTableAssumption

table == <<rows, host, newest, connector, task, finals, frame>>
all == <<subject, vars, table>>

About(s) == subject = s /\ UNCHANGED subject
OnSockets(A) == About("sockets") /\ A /\ UNCHANGED table
InTable(s, A) == About(s) /\ A /\ UNCHANGED vars

MCInit ==
  /\ subject \in Parts /\ Init
  /\ CASE subject = "backlog" -> Backlog!Init
       [] subject = "logged" -> Logged!Init
       [] OTHER -> Fallback!Init

MCNext ==
  \/ OnSockets(Next)
  \/ About("refresh") /\ Refresh!Next /\ UNCHANGED <<command, begun, table>>
  \/ InTable("fallback", Fallback!Next) \/ InTable("backlog", Backlog!Next)
  \/ InTable("logged", Logged!Next)

(* The fairness of those with a liveness property, as their modules explain *)
(* it.  Only one disjunct of a line can ever be enabled in a behaviour, so  *)
(* a line says what one condition for each of them would say.               *)
MCSpec ==
  /\ MCInit /\ [][MCNext]_all
  /\ \A w \in Handlers : WF_all(OnSockets(Continue(w)) \/ InTable("logged", Logged!Continue(w)))
  /\ \A s \in Sockets : SF_all(OnSockets(\E w \in Handlers : Receive(w, s)))
  /\ WF_all(OnSockets(HearStarted)) /\ WF_all(OnSockets(Finish))
  /\ WF_all(OnSockets(HearFinished))
-----------------------------------------------------------------------------
Symmetry == Permutations({h1, h2}) \cup Permutations({c1, c2})

(* The ends of commands, as CommandTable states them, of the instance the   *)
(* behaviour is about.                                                      *)
EndsAreTrue ==
  IF subject = "backlog" THEN Backlog!EndsAreTrue ELSE Fallback!EndsAreTrue

(* A command that was started ends, although its connector vanishes; and if *)
(* no handler is lost, the end of every command reaches its thread.         *)
EndsCome == StartedCommandsEnd /\ (subject = "logged" => Logged!EndIsLogged)
=============================================================================
