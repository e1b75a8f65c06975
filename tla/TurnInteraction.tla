--------------------------- MODULE TurnInteraction ---------------------------
(***************************************************************************)
(* What an app-server asks during a turn and how the answer comes back     *)
(* (crates/agent/src/session_inventory.rs, connector.rs).  The worker      *)
(* thread of the turn reads a request, names it in the slot                *)
(* active_interaction, sends an event and waits for a response or for the  *)
(* request's own time limit.  The connector's thread dispatches the        *)
(* events, passes responses to the worker through a channel, and waits for *)
(* the worker's delivery acknowledgement before it reports.  A call of the *)
(* connector's socket that fails while an event or a report goes out ends  *)
(* the connector's part at once: the worker is detached and finds its      *)
(* channels closed.                                                        *)
(***************************************************************************)
EXTENDS Integers, Sequences, FiniteSets

CONSTANTS Interactions,  \* requests the app-server makes in this turn
          Kind,          \* what each asks: "approval", "permissions" or "input"
          Limited,       \* the inputs that carry autoResolutionMs
          Invalid,       \* requests without one valid decision or question
          Responses,     \* response messages the control plane sends
          Slow,          \* those for which the 10 s for an acknowledgement may pass
          None           \* no interaction

ASSUME InteractionAssumption ==
  /\ DOMAIN Kind = Interactions
  /\ \A i \in Interactions : Kind[i] \in {"approval", "permissions", "input"}
  /\ Limited \subseteq {i \in Interactions : Kind[i] = "input"}
  /\ Invalid \subseteq Interactions
  /\ Slow \subseteq Responses
  /\ None \notin Interactions \cup [to : Interactions, says : {"accept", "decline", "input"}]
  /\ {"auto", "none"} \cap Responses = {}

VARIABLES
  requests,  \* interactions the app-server has not sent yet
  active,    \* active_interaction, under its lock
  worker,    \* the worker's step
  turn,      \* the interaction it handles
  taken,     \* the response it has taken, "auto" or "none"
  phase,     \* time against the interaction's own limit: early, grace, over
  late,      \* the command's deadline has passed
  cancel,    \* the command's cancellation flag
  answer,    \* what each interaction was answered with on the app-server socket
  granted,   \* interactions whose answer grants permissions
  interrupted, \* turn/interrupt was sent
  events,    \* the worker's event channel
  dispatched, \* events the control plane has accepted
  sent,      \* each response message: [to, says], or None
  inbox,     \* response messages on the connector's socket
  channel,   \* deliveries on their way to the worker
  ack,       \* each delivery's acknowledgement channel
  main,      \* the connector thread's step
  held,      \* the response it delivers
  report     \* turn.interaction_response_ack of each response

workerVars == <<worker, turn, taken, phase, answer, granted, interrupted>>
mainVars == <<main, held, report>>
vars == <<requests, active, workerVars, late, cancel, events, dispatched, sent,
          inbox, channel, ack, mainVars>>

(* With at least one decision or question the operator can answer.          *)
Valid == Interactions \ Invalid

Ids == Interactions \cup {None}
Event == [kind : {"requested", "received"}, of : Interactions]
Said == {"accept", "decline", "input"}

TypeOK ==
  /\ requests \subseteq Interactions /\ active \in Ids /\ turn \in Ids
  /\ worker \in {"reading", "asking", "budget", "try", "limit", "recv", "taken",
                 "clear", "answer", "ack", "ended"}
  /\ taken \in Responses \cup {"auto", "none"}
  /\ phase \in {"early", "grace", "over"} /\ late \in BOOLEAN /\ cancel \in BOOLEAN
  /\ answer \in [Interactions -> Responses \cup {"auto", "none"}]
  /\ granted \subseteq Interactions /\ interrupted \in BOOLEAN
  /\ events \in Seq(Event) /\ dispatched \subseteq Event
  /\ sent \in [Responses -> [to : Interactions, says : Said] \cup {None}]
  /\ inbox \subseteq Responses /\ channel \in Seq(Responses)
  /\ ack \in [Responses -> {"none", "yes", "no"}]
  /\ main \in {"idle", "deliver", "wait", "clear", "join", "done", "gone"}
  /\ held \in IF main \in {"deliver", "wait", "clear"} THEN Responses ELSE {"none"}
  /\ report \in [Responses -> {"none", "yes", "no"}]

Init ==
  /\ requests = Interactions /\ active = None
  /\ worker = "reading" /\ turn = None /\ taken = "none" /\ phase = "early"
  /\ answer = [i \in Interactions |-> "none"] /\ granted = {}
  /\ interrupted = FALSE /\ late = FALSE /\ cancel = FALSE
  /\ events = <<>> /\ dispatched = {}
  /\ sent = [r \in Responses |-> None] /\ inbox = {}
  /\ channel = <<>> /\ ack = [r \in Responses |-> "none"]
  /\ main = "idle" /\ held = "none" /\ report = [r \in Responses |-> "none"]

Rest == <<late, cancel, dispatched, sent, inbox, mainVars>>
-----------------------------------------------------------------------------
(* The worker thread.  When it ends it drops its receiver: every delivery   *)
(* still in the channel is refused by the drop of its sender.               *)

Refused(rs) == [r \in Responses |-> IF r \in rs THEN "no" ELSE ack[r]]
InChannel == {channel[k] : k \in 1..Len(channel)}

End(rs, stop) ==
  /\ worker' = "ended" /\ interrupted' = (interrupted \/ stop)
  /\ ack' = Refused(rs \cup InChannel) /\ channel' = <<>>
  /\ UNCHANGED <<turn, taken, phase>>

Busy == late \/ cancel

(* A turn/completed, a turn error, or the end of the budget between two     *)
(* messages; only the last interrupts the turn.                             *)
EndTurn ==
  /\ worker = "reading"
  /\ \E stop \in BOOLEAN : (stop => Busy) /\ End({}, stop)
  /\ UNCHANGED <<requests, active, answer, granted, events, Rest>>

(* The event could not be built: the turn is given up without an interrupt. *)
RejectRequest(i) ==
  /\ worker = "reading" /\ i \in requests \ Valid
  /\ requests' = requests \ {i}
  /\ End({}, FALSE)
  /\ UNCHANGED <<active, answer, granted, events, Rest>>

ReadRequest(i) ==
  /\ worker = "reading" /\ i \in requests \cap Valid
  /\ requests' = requests \ {i}
  /\ worker' = "asking" /\ turn' = i /\ active' = i
  /\ UNCHANGED <<taken, phase, answer, granted, interrupted, events, channel, ack, Rest>>

(* The connector drops the event receiver only when it returns.             *)
SendRequested ==
  /\ worker = "asking"
  /\ \/ /\ main # "gone"
        /\ events' = Append(events, [kind |-> "requested", of |-> turn])
        /\ worker' = "budget" /\ phase' = "early" /\ UNCHANGED active
        /\ UNCHANGED <<turn, taken, interrupted, channel, ack>>
     \/ /\ main = "gone"
        /\ active' = None /\ End({}, FALSE) /\ UNCHANGED events
  /\ UNCHANGED <<requests, answer, granted, Rest>>

Step(from, to) ==
  /\ worker = from /\ worker' = to
  /\ UNCHANGED <<requests, active, turn, phase, answer, granted, interrupted, events,
                 channel, ack, Rest>>

CheckBudget ==
  \/ ~Busy /\ Step("budget", "try") /\ UNCHANGED taken
  \/ Busy /\ Step("budget", "clear") /\ taken' = "none"

\* Mutant.
MatchAny(r) == TRUE

Matches(r) == sent[r].to = turn

(* One delivery of the channel: taken if it names this interaction, refused *)
(* otherwise.                                                               *)
TakeDelivery ==
  /\ worker \in {"try", "recv"} /\ channel # <<>>
  /\ LET r == Head(channel) IN
       \/ /\ Matches(r)
          /\ taken' = r /\ worker' = "clear" /\ UNCHANGED ack
       \/ /\ ~Matches(r)
          /\ ack' = [ack EXCEPT ![r] = "no"]
          /\ worker' = IF worker = "try" THEN "try" ELSE "budget"
          /\ UNCHANGED taken
  /\ channel' = Tail(channel)
  /\ UNCHANGED <<requests, active, turn, phase, answer, granted, interrupted, events, Rest>>

NothingQueued ==
  channel = <<>> /\ main # "gone" /\ Step("try", "limit") /\ UNCHANGED taken

(* The connector has returned, and nothing of it is left in the channel.    *)
ChannelCloses ==
  /\ worker \in {"try", "recv"} /\ channel = <<>> /\ main = "gone"
  /\ active' = None /\ End({}, FALSE)
  /\ UNCHANGED <<requests, answer, granted, events, Rest>>

CheckLimit ==
  \/ phase = "over" /\ Step("limit", "clear") /\ taken' = "auto"
  \/ phase # "over" /\ Step("limit", "recv") /\ UNCHANGED taken

WaitEnds ==
  channel = <<>> /\ main # "gone" /\ Step("recv", "budget") /\ UNCHANGED taken

(* autoResolutionMs passes, then the grace of 250 ms.                       *)
TimePasses ==
  /\ worker \in {"budget", "try", "limit", "recv"} /\ turn \in Limited
  /\ \/ phase = "early" /\ phase' = "grace"
     \/ phase = "grace" /\ phase' = "over"
  /\ UNCHANGED <<requests, active, worker, turn, taken, answer, granted, interrupted,
                 events, channel, ack, Rest>>

ClearActive ==
  /\ worker = "clear" /\ active' = None
  /\ \/ taken # "none" /\ worker' = "answer"
        /\ UNCHANGED <<turn, taken, phase, interrupted, channel, ack>>
     \/ taken = "none" /\ End({}, TRUE)
  /\ UNCHANGED <<requests, answer, granted, events, Rest>>

Says == IF taken = "auto" THEN "input" ELSE sent[taken].says
TakenBy == {taken} \cap Responses

(* app_server_turn_interaction_result has a result for these.               *)
Fits == (Says = "input") = (Kind[turn] = "input")
Grants == Kind[turn] = "permissions" /\ Says = "accept"

SendAnswer ==
  /\ worker = "answer"
  /\ \/ /\ Fits
        /\ answer' = [answer EXCEPT ![turn] = taken]
        /\ granted' = granted \cup {i \in {turn} : Grants}
        /\ worker' = "ack"
        /\ UNCHANGED <<turn, taken, phase, interrupted, channel, ack>>
     \/ End(TakenBy, FALSE) /\ UNCHANGED <<answer, granted>>   \* no fit, or a dead socket
  /\ UNCHANGED <<requests, active, events, Rest>>

(* The acknowledgement, and the event of an automatic resolution, which     *)
(* nobody receives after the connector has returned.                        *)
Acknowledge ==
  /\ worker = "ack"
  /\ \/ /\ taken # "auto" \/ main # "gone"
        /\ ack' = [r \in Responses |-> IF r = taken THEN "yes" ELSE ack[r]]
        /\ events' = IF taken = "auto" THEN Append(events, [kind |-> "received", of |-> turn])
                                       ELSE events
        /\ worker' = "reading" /\ turn' = None /\ taken' = "none" /\ phase' = "early"
        /\ UNCHANGED <<interrupted, channel>>
     \/ /\ taken = "auto" /\ main = "gone"
        /\ End({}, FALSE) /\ UNCHANGED events
  /\ UNCHANGED <<requests, active, answer, granted, Rest>>

Worker ==
  \/ EndTurn
  \/ \E i \in Interactions : RejectRequest(i) \/ ReadRequest(i)
  \/ SendRequested \/ CheckBudget \/ TakeDelivery \/ NothingQueued \/ CheckLimit
  \/ WaitEnds \/ ChannelCloses \/ ClearActive \/ SendAnswer \/ Acknowledge
-----------------------------------------------------------------------------
(* The connector's thread and the control plane.                            *)

WorkerVars == <<requests, workerVars, late>>

\* Mutant.
ReportHeld(r, says) == report' = [report EXCEPT ![r] = says] /\ main' = "idle" /\ UNCHANGED held

(* The report may fail to go out.                                           *)
Report(r, says) ==
  /\ held' = "none"
  /\ \/ report' = [report EXCEPT ![r] = says] /\ main' = "idle"
     \/ main' = "gone" /\ UNCHANGED report

(* An event goes out and its acknowledgement is waited for; a rejection     *)
(* cancels the turn, and either step may fail.                              *)
DispatchEvent ==
  /\ main = "idle" /\ events # <<>> /\ events' = Tail(events)
  /\ \/ dispatched' = dispatched \cup {Head(events)} /\ UNCHANGED <<main, cancel>>
     \/ main' = "join" /\ cancel' = TRUE /\ UNCHANGED dispatched
     \/ /\ main' = "gone" /\ dispatched' \in {dispatched, dispatched \cup {Head(events)}}
        /\ UNCHANGED cancel
  /\ UNCHANGED <<WorkerVars, active, sent, inbox, channel, ack, held, report>>

ReadResponse(r) ==
  /\ main = "idle" /\ r \in inbox /\ inbox' = inbox \ {r}
  /\ \/ active # sent[r].to /\ Report(r, "no")
     \/ active = sent[r].to /\ main' = "deliver" /\ held' = r /\ UNCHANGED report
  /\ UNCHANGED <<WorkerVars, active, cancel, events, dispatched, sent, channel, ack>>

Deliver ==
  /\ main = "deliver"
  /\ \/ worker # "ended" /\ channel' = Append(channel, held) /\ main' = "wait"
        /\ UNCHANGED <<held, report>>
     \/ worker = "ended" /\ Report(held, "no") /\ UNCHANGED channel
  /\ UNCHANGED <<WorkerVars, active, cancel, events, dispatched, sent, inbox, ack>>

\* Mutant.
DeliveredAlways ==
  /\ main = "wait" /\ ack[held] # "none" /\ main' = "clear" /\ UNCHANGED <<held, report>>
  /\ UNCHANGED <<WorkerVars, active, cancel, events, dispatched, sent, inbox, channel, ack>>

Delivered ==
  /\ main = "wait" /\ ack[held] # "none"
  /\ \/ ack[held] = "yes" /\ main' = "clear" /\ UNCHANGED <<held, report>>
     \/ ack[held] = "no" /\ Report(held, "no")
  /\ UNCHANGED <<WorkerVars, active, cancel, events, dispatched, sent, inbox, channel, ack>>

\* Mutant.
DeliveryPolled ==
  /\ main = "wait" /\ Report(held, "no")
  /\ UNCHANGED <<WorkerVars, active, cancel, events, dispatched, sent, inbox, channel, ack>>

(* TURN_INTERACTION_DELIVERY_ACK_TIMEOUT                                    *)
DeliveryTimeout ==
  /\ main = "wait" /\ held \in Slow /\ Report(held, "no")
  /\ UNCHANGED <<WorkerVars, active, cancel, events, dispatched, sent, inbox, channel, ack>>

ClearAccepted ==
  /\ main = "clear" /\ active' = None /\ Report(held, "yes")
  /\ UNCHANGED <<WorkerVars, cancel, events, dispatched, sent, inbox, channel, ack>>

(* A shutdown, or an error while the connection is read or maintained.      *)
CancelTurn ==
  /\ main = "idle" /\ main' = "join" /\ cancel' = TRUE
  /\ UNCHANGED <<WorkerVars, active, events, dispatched, sent, inbox, channel, ack, held, report>>

(* The worker's result has arrived, or the cancelled worker is joined; the   *)
(* events of a worker that ended by itself are dispatched first.            *)
Finish ==
  /\ main \in {"idle", "join"} /\ worker = "ended" /\ main' = "done"
  /\ main = "idle" => events = <<>>
  /\ UNCHANGED <<WorkerVars, active, cancel, events, dispatched, sent, inbox, channel, ack,
                 held, report>>

Main ==
  \/ \E r \in Responses : ReadResponse(r)
  \/ DispatchEvent \/ Deliver \/ Delivered \/ DeliveryTimeout \/ ClearAccepted \/ Finish

(* The control plane answers what it knows of, more than once if it tries   *)
(* again.                                                                   *)
Respond(r, i, says) ==
  /\ sent[r] = None /\ [kind |-> "requested", of |-> i] \in dispatched
  /\ sent' = [sent EXCEPT ![r] = [to |-> i, says |-> says]]
  /\ inbox' = inbox \cup {r}
  /\ UNCHANGED <<WorkerVars, active, cancel, events, dispatched, channel, ack, mainVars>>

DeadlinePasses ==
  /\ ~late /\ late' = TRUE
  /\ UNCHANGED <<requests, active, workerVars, cancel, events, dispatched, sent, inbox,
                 channel, ack, mainVars>>

Ended == main \in {"done", "gone"} /\ worker = "ended" /\ UNCHANGED vars

Next ==
  \/ Worker \/ Main \/ TimePasses \/ DeadlinePasses \/ CancelTurn \/ Ended
  \/ \E r \in Responses, i \in Interactions, says \in Said : Respond(r, i, says)

Spec == Init /\ [][Next]_vars

(* Both threads run, and the clock passes the deadline of a turn nobody     *)
(* ends.  The connector always comes to its next step: dispatching comes    *)
(* first in its loop, reading a response is one of many messages.           *)
FairSpec ==
  /\ Spec /\ WF_vars(Worker) /\ WF_vars(DeadlinePasses)
  /\ WF_vars(DispatchEvent) /\ WF_vars(Deliver) /\ WF_vars(Delivered)
  /\ WF_vars(ClearAccepted) /\ WF_vars(Finish)
-----------------------------------------------------------------------------
(* An answer reaches the app-server only for the interaction it was given   *)
(* to: a delivery that was still in the channel when the worker came to     *)
(* the next request never answers that one (the check of the id at          *)
(* session_inventory.rs:3299).                                              *)
AnswersFit ==
  \A i \in Interactions : answer[i] \in Responses =>
    sent[answer[i]].to = i /\ (sent[answer[i]].says = "input") = (Kind[i] = "input")

(* The control plane is told "accepted" only of a response that was sent to *)
(* the app-server, so what it records of a turn happened there.             *)
AcceptedIsAnswered ==
  \A r \in Responses : report[r] = "yes" => answer[sent[r].to] = r

(* As long as ten seconds suffice, a response reported as refused was not   *)
(* used: the operator's second attempt is the only one.                     *)
RefusedIsUnused ==
  \A r \in Responses \ Slow, i \in Interactions : report[r] = "no" => answer[i] # r

(* A permission is granted only on an operator's accept for that very       *)
(* request, never by a time limit or by another request's answer.           *)
GrantedByOperator ==
  \A i \in granted : answer[i] \in Responses /\ sent[answer[i]] = [to |-> i, says |-> "accept"]

(* An input that was resolved by its time limit is reported before the turn *)
(* is, or the control plane would show a question that nobody can answer    *)
(* any more (the journal: "The connector now drains pending interaction     *)
(* events before returning final turn events").  A connector that is gone   *)
(* reports neither.                                                         *)
AutoAnswersAreTold ==
  main = "done" /\ ~cancel => \A i \in Interactions :
    answer[i] = "auto" => [kind |-> "received", of |-> i] \in dispatched

(* A request is never answered with a response meant for another,           *)
(* permissions are granted only by the operator, and what the limits of the *)
(* turn answered by themselves is told before the turn's result is.         *)
AnswersAreTheirs == AnswersFit /\ GrantedByOperator /\ AutoAnswersAreTold

(* A response the connector has begun to deliver is reported in the end,    *)
(* although the worker may have stopped listening just before, and even if  *)
(* the ten seconds never passed: the turn's end drops what is left.         *)
DeliveryEnds == main = "wait" ~> main # "wait"

(* The turn ends and the connector gets its result.                         *)
TurnEnds == <>(worker = "ended")

(* The slot names the interaction the worker waits on, so that no response  *)
(* to it is turned away (the journal of the change: "The connector now      *)
(* tracks the active interaction for each app-server turn").                *)
WaitingIsTracked == worker \in {"budget", "try", "limit", "recv"} => active = turn
=============================================================================
