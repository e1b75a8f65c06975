---------------------------- MODULE AppServerTurn ----------------------------
(***************************************************************************)
(* One command on an app-server (crates/agent/src/session_inventory.rs):   *)
(* the worker thread connects, finds and resumes the thread, starts a turn *)
(* and reads messages until the turn ends, the command is cancelled or its *)
(* time is over.  The last two interrupt the turn.  How the thread is      *)
(* found is in AppServerThreads, how requests are answered in              *)
(* TurnInteraction.                                                        *)
(***************************************************************************)
EXTENDS Integers, Sequences, FiniteSetsExt

CONSTANTS Deltas,      \* pieces of agent text: the bytes before and after their characters
          OutputMax,   \* execution.codex_output_max_bytes
          MaxMessages, \* bound on the messages the app-server sends
          Early        \* whether messages of a turn may precede its response

TurnAssumption ==
  /\ \A d \in Deltas : d \subseteq Nat /\ 0 \in d
  /\ OutputMax \in Nat /\ MaxMessages \in Nat /\ Early \in BOOLEAN

VARIABLES
  pc,        \* the worker's step
  result,    \* how the command ended
  cancel,    \* its cancellation flag
  late,      \* the deadline of the command has passed
  stop,      \* interruption noted while turn/start is unanswered
  stopLate,  \* the time given to that answer is over
  output,    \* bytes of the agent's text kept
  interrupted, \* turn/interrupt was sent
  toServer,  \* requests on their way
  toClient,  \* messages on their way
  sent,      \* messages the app-server has sent
  turn,      \* state of the turn at the app-server
  told       \* the app-server has answered turn/start

workerVars == <<pc, result, stop, output, interrupted>>
serverVars == <<turn, told, sent>>
vars == <<workerVars, cancel, late, stopLate, toServer, toClient, serverVars>>

Ends == {"completed", "failed", "interrupted", "unknown"}
Terminal == {"completed", "failed", "interrupted"}
Whose == {"mine", "other"}
Message ==
  [kind : {"started", "completed"}, of : Whose, what : Ends \cup {"running"}]
    \cup [kind : {"refused", "ask", "close"}, of : Whose, what : {"none"}]
    \cup [kind : {"error"}, of : Whose, what : {"retry", "fatal"}]
    \cup [kind : {"delta"}, of : Whose, what : Deltas]
Results == {"finished", "failed", "cancelled", "timed out", "other"}

TypeOK ==
  /\ pc \in {"connect", "resume", "start", "await", "turn", "done"}
  /\ result \in Results \cup {"none"} /\ (result = "none") = (pc # "done")
  /\ cancel \in BOOLEAN /\ late \in BOOLEAN /\ stopLate \in BOOLEAN
  /\ stop \in {"none", "cancelled", "timed out"}
  /\ output \in Nat /\ interrupted \in BOOLEAN
  /\ toServer \in Seq({"start", "interrupt"})
  /\ toClient \in Seq(Message) /\ sent \in 0..MaxMessages
  /\ turn \in {"none", "running"} \cup Ends /\ told \in BOOLEAN

Init ==
  /\ pc = "connect" /\ result = "none" /\ stop = "none" /\ output = 0
  /\ interrupted = FALSE /\ cancel = FALSE /\ late = FALSE /\ stopLate = FALSE
  /\ toServer = <<>> /\ toClient = <<>> /\ sent = 0 /\ turn = "none" /\ told = FALSE

Clocks == <<cancel, late, stopLate>>
-----------------------------------------------------------------------------
(* The worker.                                                              *)

(* Cancellation goes before the deadline.                                   *)
Interruption == IF cancel THEN "cancelled" ELSE IF late THEN "timed out" ELSE "none"

Done(how) == pc' = "done" /\ result' = how

\* Mutant.
SendInterruptLost == interrupted' = TRUE /\ UNCHANGED toServer

(* Best effort: the connection may be gone.                                 *)
SendInterrupt ==
  /\ interrupted' = TRUE /\ toServer' = Append(toServer, "interrupt")

NoInterrupt == UNCHANGED <<interrupted, toServer>>

(* One request: the budget is checked before each message is read, and      *)
(* everything that is not its response is skipped.                          *)
Request(next) ==
  \/ Interruption = "none" /\ pc' = next /\ UNCHANGED result
  \/ Interruption # "none" /\ Done(Interruption)
  \/ Done("other")

(* Connecting, initialize, the scan of the threads and thread/resume.       *)
Prepare ==
  /\ \/ pc = "connect" /\ Request("resume")
     \/ pc = "resume" /\ Request("start")
  /\ NoInterrupt
  /\ UNCHANGED <<stop, output, Clocks, toClient, serverVars>>

StartTurn ==
  /\ pc = "start"
  /\ \/ Interruption # "none" /\ Done(Interruption) /\ UNCHANGED toServer
     \/ Interruption = "none" /\ pc' = "await" /\ toServer' = Append(toServer, "start")
        /\ UNCHANGED result
  /\ UNCHANGED <<stop, output, interrupted, Clocks, toClient, serverVars>>

(* An interruption is noted, and the answer waited for a little longer.     *)
NoteInterruption ==
  /\ pc = "await" /\ stop = "none" /\ Interruption # "none" /\ stop' = Interruption
  /\ UNCHANGED <<pc, result, output, interrupted, Clocks, toServer, toClient, serverVars>>

GiveUpStart ==
  /\ pc = "await" /\ stop # "none" /\ stopLate /\ Done(stop)
  /\ UNCHANGED <<stop, output, interrupted, Clocks, toServer, toClient, serverVars>>

(* app_server_command_events_from_turn                                      *)
ResultOf(status) == IF status = "completed" THEN "finished" ELSE "failed"

(* The turn of the response may have ended already.                         *)
Begun(status) ==
  \/ status \in Terminal /\ Done(ResultOf(status))
  \/ status \notin Terminal /\ pc' = "turn" /\ UNCHANGED result

Read == toClient # <<>> /\ toClient' = Tail(toClient)
Got == Head(toClient)

(* Messages with another id are skipped, and so lost.                       *)
ReadStartResponse ==
  /\ pc = "await" /\ Read
  /\ \/ Got.kind \notin {"started", "refused", "close"} /\ UNCHANGED <<pc, result>> /\ NoInterrupt
     \/ Got.kind = "refused" /\ Done(IF stop # "none" THEN stop ELSE "other") /\ NoInterrupt
     \/ Got.kind = "close" /\ Done("other") /\ NoInterrupt
     \/ Got.kind = "started" /\ stop # "none" /\ Done(stop) /\ SendInterrupt
     \/ Got.kind = "started" /\ stop = "none" /\ Begun(Got.what) /\ NoInterrupt
  /\ UNCHANGED <<stop, output, Clocks, serverVars>>

EndByInterrupt ==
  /\ pc = "turn" /\ Interruption # "none" /\ Done(Interruption) /\ SendInterrupt
  /\ UNCHANGED <<stop, output, Clocks, toClient, serverVars>>

(* The longest beginning of a delta that fits ends between two characters.  *)
Fitting(d) == Max({n \in d : n <= OutputMax - output})

Kept == IF Got.kind = "delta" /\ Got.of = "mine" THEN output + Fitting(Got.what) ELSE output

\* Mutant.
OursByThread == TRUE

(* notification_matches: every message but a close names its turn.          *)
Ours == Got.of = "mine"

(* A request whose event cannot be built, or whose answer does not fit,     *)
(* ends the command without an interrupt.                                   *)
ReadMessage ==
  /\ pc = "turn" /\ Read /\ output' = Kept
  /\ \/ Got.kind = "completed" /\ Ours /\ Done(ResultOf(Got.what)) /\ NoInterrupt
     \/ Got.kind = "error" /\ Ours /\ Got.what = "fatal" /\ Done("other") /\ NoInterrupt
     \/ Got.kind = "close" /\ Done("other") /\ NoInterrupt
     \/ Got.kind = "ask" /\ Ours /\ Done("other") /\ NoInterrupt
     \/ Got.kind = "ask" /\ Ours /\ Interruption # "none" /\ Done(Interruption) /\ SendInterrupt
     \/ /\ \/ Got.kind \in {"delta", "ask", "refused", "started"}
           \/ Got.kind = "completed" /\ ~Ours
           \/ Got.kind = "error" /\ (~Ours \/ Got.what = "retry")
        /\ UNCHANGED <<pc, result>> /\ NoInterrupt
  /\ UNCHANGED <<stop, Clocks, serverVars>>

Worker ==
  \/ Prepare \/ StartTurn \/ NoteInterruption \/ GiveUpStart \/ ReadStartResponse
  \/ EndByInterrupt \/ ReadMessage
-----------------------------------------------------------------------------
(* The app-server, as this code sees it, and time.                          *)

Send(m) == toClient' = Append(toClient, m) /\ sent' = sent + 1
Msg(kind, of, what) == [kind |-> kind, of |-> of, what |-> what]

AnswerStart ==
  /\ turn = "none" /\ toServer # <<>> /\ Head(toServer) = "start" /\ toServer' = Tail(toServer)
  /\ \/ turn' = "running" /\ told' = FALSE /\ UNCHANGED <<toClient, sent>>
     \/ turn' \in {"completed", "failed"} /\ told' = TRUE
        /\ toClient' = Append(toClient, Msg("started", "mine", turn')) /\ UNCHANGED sent
     \/ turn' = "failed" /\ told' = TRUE
        /\ toClient' = Append(toClient, Msg("refused", "mine", "none")) /\ UNCHANGED sent
  /\ UNCHANGED <<workerVars, Clocks>>

TellStarted ==
  /\ turn # "none" /\ ~told /\ told' = TRUE
  /\ toClient' = Append(toClient, Msg("started", "mine", "running"))
  /\ UNCHANGED <<workerVars, Clocks, toServer, turn, sent>>

EndTurn(status) ==
  /\ turn = "running" /\ (told \/ Early) /\ turn' = status
  /\ toClient' = Append(toClient, Msg("completed", "mine", status))
  /\ UNCHANGED <<workerVars, Clocks, toServer, told, sent>>

(* Text, requests and errors of this turn, and what other turns send.       *)
Chatter ==
  /\ sent < MaxMessages /\ UNCHANGED <<workerVars, Clocks, toServer, turn, told>>
  /\ \/ /\ turn = "running" /\ (told \/ Early)
        /\ \/ \E d \in Deltas : Send(Msg("delta", "mine", d))
           \/ Send(Msg("ask", "mine", "none")) \/ Send(Msg("error", "mine", "retry"))
     \/ \E m \in {Msg("completed", "other", "failed"), Msg("completed", "other", "completed"),
                Msg("error", "other", "fatal")} : Send(m)

FatalError ==
  /\ turn = "running" /\ (told \/ Early) /\ turn' = "failed"
  /\ toClient' = Append(toClient, Msg("error", "mine", "fatal"))
  /\ UNCHANGED <<workerVars, Clocks, toServer, told, sent>>

HandleInterrupt ==
  /\ toServer # <<>> /\ Head(toServer) = "interrupt" /\ told /\ toServer' = Tail(toServer)
  /\ \/ turn = "running" /\ turn' = "interrupted"
        /\ toClient' = Append(toClient, Msg("completed", "mine", "interrupted"))
     \/ turn # "running" /\ UNCHANGED <<turn, toClient>>
  /\ UNCHANGED <<workerVars, Clocks, told, sent>>

Close ==
  /\ sent < MaxMessages /\ Send(Msg("close", "mine", "none"))
  /\ UNCHANGED <<workerVars, Clocks, toServer, turn, told>>

Cancel == ~cancel /\ pc # "done" /\ cancel' = TRUE
          /\ UNCHANGED <<workerVars, late, stopLate, toServer, toClient, serverVars>>

Deadline == ~late /\ late' = TRUE
            /\ UNCHANGED <<workerVars, cancel, stopLate, toServer, toClient, serverVars>>

StopDeadline == stop # "none" /\ ~stopLate /\ stopLate' = TRUE
                /\ UNCHANGED <<workerVars, cancel, late, toServer, toClient, serverVars>>

Over == pc = "done" /\ UNCHANGED vars

Next ==
  \/ Worker \/ AnswerStart \/ TellStarted \/ Chatter \/ FatalError \/ HandleInterrupt \/ Close
  \/ \E status \in Ends : EndTurn(status)
  \/ Cancel \/ Deadline \/ StopDeadline \/ Over

Spec == Init /\ [][Next]_vars

(* The worker's thread runs and clocks go on; nothing is asked of the       *)
(* app-server but that it reads what it is sent and answers turn/start.     *)
FairSpec ==
  /\ Spec /\ WF_vars(Worker) /\ WF_vars(StopDeadline)
  /\ WF_vars(AnswerStart) /\ WF_vars(TellStarted) /\ WF_vars(HandleInterrupt)
SilentSpec == Spec /\ WF_vars(Worker) /\ WF_vars(Deadline) /\ WF_vars(StopDeadline)
-----------------------------------------------------------------------------
(* "finished" is reported only of a turn that completed: the end of another *)
(* turn of the same thread is not mistaken for it.                          *)
FinishedIsThisTurn == result = "finished" => turn = "completed"

(* A failure is reported of this turn or this connection, never because of  *)
(* what another turn does.                                                  *)
FailedIsThisTurn == result = "failed" => turn \in Ends \ {"completed"}

(* A command that is cancelled or out of time stops its turn once it knows  *)
(* it, also when it learns of it only after the interruption, as long as    *)
(* the app-server reads on.                                                 *)
InterruptedTurnStops ==
  result \in {"cancelled", "timed out"} /\ interrupted ~> turn # "running"

(* The turn's id was known to the worker, and it gave up: then it has said  *)
(* so.                                                                      *)
KnownTurnIsInterrupted ==
  [][result = "none" /\ result' \in {"cancelled", "timed out"}
       /\ (pc = "turn" \/ (pc = "await" /\ toClient' # toClient /\ Got.kind = "started"))
     => interrupted']_vars

(* A turn that ends is reported without waiting for the deadline, also one  *)
(* that ended before turn/start was answered, if its messages follow that   *)
(* answer.                                                                  *)
EndIsReported == turn \in Ends ~> result # "none"

(* With a silent app-server every command ends at its deadline, and at most *)
(* one socket timeout later while turn/start is unanswered.                 *)
CommandEnds == <>(result # "none")

(* The agent's text never exceeds its limit, whatever the width of the      *)
(* characters at the limit.                                                 *)
OutputFits == output <= OutputMax
=============================================================================
