------------------------------- MODULE MCTurns -------------------------------
(***************************************************************************)
(* How a connector carries out a command, for TLC: the requests of a turn  *)
(* and their answers, one command on an app-server that answers at once or *)
(* not at all (Cmd) or in order (Tidy), and one run of the Codex CLI whose *)
(* descendants hold its pipes (Family) or not (Exec).  They do not meet: a *)
(* behaviour is about one of them, named by subject, and the others stay   *)
(* in their initial states.                                                *)
(***************************************************************************)
EXTENDS TurnInteraction

VARIABLES
  subject,
  step, result, cancelled, expired, stop, stopLate, output, halted,  \* the command
  toServer, toClient, messages, status, told,
  stage, child, code, stdin, written, heir, pipe, made, kept, cut,   \* the CLI
  reader, elapsed, killed, outcome, lines

CONSTANTS ask, input, bad, r1, r2

Cmd == INSTANCE AppServerTurn
  WITH pc <- step, cancel <- cancelled, late <- expired, interrupted <- halted,
       sent <- messages, turn <- status,
       Deltas <- {{0, 1}, {0, 1, 4}}, OutputMax <- 3, MaxMessages <- 2, Early <- TRUE
Tidy == INSTANCE AppServerTurn
  WITH pc <- step, cancel <- cancelled, late <- expired, interrupted <- halted,
       sent <- messages, turn <- status,
       Deltas <- {}, OutputMax <- 3, MaxMessages <- 2, Early <- FALSE
Family == INSTANCE ExecProcess
  WITH pc <- stage, sent <- written, cancel <- killed, events <- lines,
       Prompt <- 2, PipeSize <- 1, OutputCap <- 1, Timeout <- 1, MaxOutput <- 2, Heirs <- TRUE
Exec == INSTANCE ExecProcess
  WITH pc <- stage, sent <- written, cancel <- killed, events <- lines,
       Prompt <- 1, PipeSize <- 1, OutputCap <- 1, Timeout <- 2, MaxOutput <- 2, Heirs <- FALSE

\* The bounds of the instances are what their modules assume of them.
ASSUME Cmd!TurnAssumption /\ Tidy!TurnAssumption
ASSUME Family!ExecAssumption /\ Exec!ExecAssumption

command == <<step, result, cancelled, expired, stop, stopLate, output, halted,
             toServer, toClient, messages, status, told>>
cli == <<stage, child, code, stdin, written, heir, pipe, made, kept, cut,
         reader, elapsed, killed, outcome, lines>>
all == <<subject, vars, command, cli>>

About(s) == subject = s /\ UNCHANGED subject
Interacts(A) == About("interaction") /\ A /\ UNCHANGED <<command, cli>>
Commands(s, A) == About(s) /\ A /\ UNCHANGED <<vars, cli>>
Executes(s, A) == About(s) /\ A /\ UNCHANGED <<vars, command>>

MCInit ==
  /\ subject \in {"interaction", "command", "tidy", "family", "exec"}
  /\ Init /\ Cmd!Init /\ Exec!Init

MCNext ==
  \/ Interacts(Next)
  \/ Commands("command", Cmd!Next) \/ Commands("tidy", Tidy!Next)
  \/ Executes("family", Family!Next) \/ Executes("exec", Exec!Next)
  \/ stage = "done" /\ UNCHANGED all

(* The fairness of each, as its module explains it.  Only one disjunct of a *)
(* line can ever be enabled in a behaviour, so a line says what one         *)
(* condition for each of them would say.                                    *)
MCSpec ==
  /\ MCInit /\ [][MCNext]_all
  /\ WF_all(\/ Interacts(Worker) \/ Commands("command", Cmd!Worker)
            \/ Commands("tidy", Tidy!Worker) \/ Executes("exec", Exec!Worker))
  /\ WF_all(\/ Interacts(DeadlinePasses) \/ Commands("command", Cmd!Deadline)
            \/ Commands("tidy", Tidy!AnswerStart) \/ Executes("exec", Exec!Tick))
  /\ WF_all(\/ Interacts(DispatchEvent) \/ Commands("command", Cmd!StopDeadline)
            \/ Commands("tidy", Tidy!StopDeadline)
            \/ Executes("exec", Exec!Read("stdout") \/ Exec!EndOfFile("stdout")))
  /\ WF_all(\/ Interacts(Deliver) \/ Commands("tidy", Tidy!TellStarted)
            \/ Executes("exec", Exec!Read("stderr") \/ Exec!EndOfFile("stderr")))
  /\ WF_all(Interacts(Delivered) \/ Commands("tidy", Tidy!HandleInterrupt))
  /\ WF_all(Interacts(ClearAccepted))
  /\ WF_all(Interacts(Finish))
-----------------------------------------------------------------------------
OneOfEach == [i \in {ask, input, bad} |-> CASE i = ask -> "permissions" [] i = input -> "input"
                                            [] OTHER -> "approval"]
TwoAsks == [i \in {ask, input} |-> "approval"]

(* All states have their types.                                             *)
TypesAreCorrect ==
  /\ TypeOK
  /\ IF subject = "tidy" THEN Tidy!TypeOK ELSE Cmd!TypeOK
  /\ IF subject = "family" THEN Family!TypeOK ELSE Exec!TypeOK

(* What a command reports is about this turn, whatever other turns of its   *)
(* thread and other threads do on the same socket: "finished" means that it *)
(* completed, "failed" that it or its connection failed, and the text fits  *)
(* its limit, whatever the width of the characters at the limit.            *)
ReportIsOfThisTurn == Cmd!FinishedIsThisTurn /\ Cmd!FailedIsThisTurn /\ Cmd!OutputFits

(* What a run of the CLI reports it has earned: the process is gone, except *)
(* after a failed write of the prompt; "finished" is a good exit that       *)
(* neither the flag nor the clock came before; and without the warning      *)
(* every chunk that codex and what it started wrote was kept.               *)
RunIsEarned == Family!EndMeansReaped /\ Family!FinishedIsEarned /\ Family!FinishedIsWhole

(* A delivery is acknowledged one way or the other and the turn ends.  The  *)
(* end of a turn is reported without waiting for the deadline, if the       *)
(* app-server's messages of it follow its answer to turn/start; with a      *)
(* silent app-server a command ends at its deadline; and one that gives up  *)
(* interrupts the turn whose id it knows, which stops, also when its id is  *)
(* learnt only after the interruption.  A run of the CLI ends once codex    *)
(* has exited or its time is up, if the prompt fits the pipe and codex      *)
(* leaves no process behind.                                                *)
WorkEnds ==
  /\ Cmd!KnownTurnIsInterrupted
  /\ subject = "interaction" => DeliveryEnds /\ TurnEnds
  /\ subject = "tidy" => Tidy!EndIsReported /\ Tidy!InterruptedTurnStops
  /\ subject = "command" => Cmd!CommandEnds
  /\ subject = "exec" => Exec!TimeoutEnds
=============================================================================
