-------------------------- MODULE InteractionClaims --------------------------
(***************************************************************************)
(* How the Worker lets operators answer one request of a turn (routes.ts,  *)
(* db.ts, workspace-do.ts): a row of turn_interaction_resolution_claims    *)
(* keeps others from answering while a response is on its way to the       *)
(* connector, says afterwards whether it may have got there, and goes when *)
(* the event of the resolution is in the log.  One action is one D1        *)
(* statement or one turn of the Durable Object.  Each request brings a     *)
(* response of its own and is named by it.                                 *)
(***************************************************************************)
EXTENDS Integers, FiniteSets

CONSTANTS Requests,  \* the requests of operators, each with its response
          Timed,     \* the interaction carries autoResolutionMs
          None       \* no claim, no response, no event

ASSUME ClaimAssumption ==
  /\ Timed \in BOOLEAN /\ {"auto", None} \cap Requests = {} /\ None # "auto"
  /\ None \notin [response : Requests, state : {"new", "dispatched", "uncertain", "delivered"},
                  stale : BOOLEAN]
  /\ None \notin [response : Requests \cup {"auto"}, sure : BOOLEAN]

VARIABLES
  active,    \* the command is leased or running
  expired,   \* the interaction's own limit has passed, for the Worker
  task,      \* the task: waiting, running or over
  claim,     \* the row: whose response, how far it got, whether older than its TTL
  resolved,  \* the event of the resolution, and whether the connector confirmed it
  at,        \* the step of each request's handler
  seen,      \* the command was active when the handler read it
  keeps,     \* the response it will record
  sure,      \* the connector has confirmed that response
  wire,      \* responses on their way to the connector
  ack,       \* its acknowledgement of each
  answered,  \* what it answered the app-server with
  told       \* the event of an answer by the time limit: its handler's step

handler == <<at, seen, keeps, sure>>
connector == <<wire, ack, answered>>
rows == <<active, expired, task, claim, resolved>>
vars == <<rows, handler, connector, told>>

Claim == [response : Requests, state : {"new", "dispatched", "uncertain", "delivered"},
          stale : BOOLEAN]
Resolution == [response : Requests \cup {"auto"}, sure : BOOLEAN]

\* The handler has put its claim and is not done with what it is for.
Claiming == {"mark", "send", "wait", "unsure", "sure", "fallback", "release"}
Ended == {"accepted", "refused", "failed"}

TypeOK ==
  /\ active \in BOOLEAN /\ expired \in BOOLEAN /\ task \in {"waiting", "running", "over"}
  /\ claim \in Claim \cup {None} /\ resolved \in Resolution \cup {None}
  /\ at \in [Requests -> {"new", "find", "has", "sweep", "insert", "reread", "lookup", "append",
                          "resume", "drop"} \cup Claiming \cup Ended]
  /\ seen \in [Requests -> BOOLEAN] /\ sure \in [Requests -> BOOLEAN]
  /\ keeps \in [Requests -> Requests]
  /\ wire \subseteq Requests /\ ack \in [Requests -> {"none", "yes", "no"}]
  /\ answered \in Requests \cup {"auto", None}
  /\ told \in {"none", "sent", "find", "task", "append"}

Init ==
  /\ active = TRUE /\ expired = FALSE /\ task = "waiting" /\ claim = None /\ resolved = None
  /\ at = [h \in Requests |-> "new"] /\ seen = [h \in Requests |-> FALSE]
  /\ keeps = [h \in Requests |-> h] /\ sure = [h \in Requests |-> FALSE]
  /\ wire = {} /\ ack = [h \in Requests |-> "none"] /\ answered = None /\ told = "none"

Goto(h, step) == at' = [at EXCEPT ![h] = step]
-----------------------------------------------------------------------------
(* prepareTurnInteractionResolutionInDb *)

Begin(h) ==
  /\ at[h] = "new" /\ Goto(h, "find")
  /\ seen' = [seen EXCEPT ![h] = active]
  /\ UNCHANGED <<rows, keeps, sure, connector, told>>

(* claimDeliveryMayHaveReachedConnector *)
MayHaveArrived == claim # None /\ claim.state \in {"uncertain", "delivered"}

(* A claim that may have been delivered is recorded with its own response. *)
Recovers(h) ==
  /\ MayHaveArrived
  /\ keeps' = [keeps EXCEPT ![h] = claim.response]
  /\ sure' = [sure EXCEPT ![h] = claim.state = "delivered"]
  /\ Goto(h, "lookup")

FindClaim(h) ==
  /\ at[h] = "find"
  /\ \/ Recovers(h)
     \/ ~MayHaveArrived /\ Goto(h, "has") /\ UNCHANGED <<keeps, sure>>
  /\ UNCHANGED <<rows, seen, connector, told>>

HasResolution(h) ==
  /\ at[h] = "has"
  /\ Goto(h, IF resolved # None THEN "lookup"
             ELSE IF ~seen[h] \/ expired THEN "refused" ELSE "sweep")
  /\ UNCHANGED <<rows, seen, keeps, sure, connector, told>>

(* deleteStaleTurnInteractionResolutionClaim *)
DeleteStale(h) ==
  /\ at[h] = "sweep" /\ Goto(h, "insert")
  /\ claim' = IF claim # None /\ ~MayHaveArrived /\ claim.stale /\ resolved = None
              THEN None ELSE claim
  /\ UNCHANGED <<active, expired, task, resolved, seen, keeps, sure, connector, told>>

\* Mutant: the conflict is not noticed.
ClaimAnyway(h) ==
  /\ at[h] = "insert" /\ Goto(h, "mark")
  /\ claim' = IF claim = None THEN [response |-> h, state |-> "new", stale |-> FALSE] ELSE claim
  /\ UNCHANGED <<active, expired, task, resolved, seen, keeps, sure, connector, told>>

(* claimTurnInteractionResolution: ON CONFLICT DO NOTHING *)
InsertClaim(h) ==
  /\ at[h] = "insert"
  /\ \/ /\ claim = None /\ Goto(h, "mark")
        /\ claim' = [response |-> h, state |-> "new", stale |-> FALSE]
     \/ /\ claim # None /\ Goto(h, "reread") /\ UNCHANGED claim
  /\ UNCHANGED <<active, expired, task, resolved, seen, keeps, sure, connector, told>>

RereadClaim(h) ==
  /\ at[h] = "reread"
  /\ \/ Recovers(h)
     \/ ~MayHaveArrived /\ Goto(h, "refused") /\ UNCHANGED <<keeps, sure>>
  /\ UNCHANGED <<rows, seen, connector, told>>
-----------------------------------------------------------------------------
(* The route, and resolveTurnInteraction of the Durable Object.  A marker   *)
(* names the interaction and not the claim: it writes whatever row there is.*)

Mark(states, state) ==
  claim' = IF claim # None /\ claim.state \in states
           THEN [claim EXCEPT !.state = state, !.stale = FALSE] ELSE claim

MarkStarted(h) ==
  /\ at[h] = "mark"
  /\ \/ Mark({"new"}, "dispatched") /\ Goto(h, "send")
     \/ Goto(h, "release") /\ UNCHANGED claim
  /\ UNCHANGED <<active, expired, task, resolved, seen, keeps, sure, connector, told>>

(* No ready socket has the command, or its send throws: not_sent.          *)
Send(h) ==
  /\ at[h] = "send"
  /\ \/ Goto(h, "wait") /\ wire' = wire \cup {h}
     \/ Goto(h, "release") /\ UNCHANGED wire
  /\ UNCHANGED <<rows, seen, keeps, sure, ack, answered, told>>

(* turn.interaction_response_ack                                            *)
HearAck(h) ==
  /\ at[h] = "wait"
  /\ \/ ack[h] = "yes" /\ Goto(h, "sure") /\ sure' = [sure EXCEPT ![h] = TRUE]
     \/ ack[h] = "no" /\ Goto(h, "release") /\ UNCHANGED sure
  /\ UNCHANGED <<rows, seen, keeps, connector, told>>

(* The timer of 10 s (sent_unknown); the Durable Object is evicted, and the *)
(* fetch throws an error that carries no delivery state.                    *)
GiveUp(h) ==
  /\ at[h] = "wait"
  /\ \/ Goto(h, "unsure") \/ Goto(h, "release")
  /\ UNCHANGED <<rows, seen, keeps, sure, connector, told>>

MarkUncertain(h) ==
  /\ at[h] = "unsure" /\ Goto(h, "lookup")
  /\ Mark({"new", "dispatched"}, "uncertain")
  /\ UNCHANGED <<active, expired, task, resolved, seen, keeps, sure, connector, told>>

(* markConfirmedTurnInteractionDeliveryBestEffort                           *)
MarkDelivered(h) ==
  /\ at[h] = "sure"
  /\ \/ Mark({"new", "dispatched", "uncertain"}, "delivered") /\ Goto(h, "lookup")
     \/ Goto(h, "fallback") /\ UNCHANGED claim
  /\ UNCHANGED <<active, expired, task, resolved, seen, keeps, sure, connector, told>>

MarkFallback(h) ==
  /\ at[h] = "fallback" /\ Goto(h, "lookup")
  /\ Mark({"new", "dispatched"}, "uncertain") \/ UNCHANGED claim
  /\ UNCHANGED <<active, expired, task, resolved, seen, keeps, sure, connector, told>>

(* By interaction, whoever put the claim; the error is thrown then.         *)
Release(h) ==
  /\ at[h] = "release" /\ Goto(h, "refused") /\ claim' = None
  /\ UNCHANGED <<active, expired, task, resolved, seen, keeps, sure, connector, told>>
-----------------------------------------------------------------------------
(* recordTurnInteractionResolutionInDb *)

Lookup(h) ==
  /\ at[h] = "lookup" /\ Goto(h, IF resolved = None THEN "append" ELSE "resume")
  /\ UNCHANGED <<rows, seen, keeps, sure, connector, told>>

Event(response, s) == [response |-> response, sure |-> s]

(* The unique index of resolutions makes a second INSERT fail, and the      *)
(* handler goes on with the event it finds.                                 *)
AppendResolution(h) ==
  /\ at[h] = "append" /\ Goto(h, "resume")
  /\ resolved' = IF resolved = None THEN Event(keeps[h], sure[h]) ELSE resolved
  /\ UNCHANGED <<active, expired, task, claim, seen, keeps, sure, connector, told>>

Resume(h) ==
  /\ at[h] = "resume" /\ Goto(h, "drop")
  /\ task' = IF task = "waiting" THEN "running" ELSE task
  /\ UNCHANGED <<active, expired, claim, resolved, seen, keeps, sure, connector, told>>

(* releaseTurnInteractionResolutionClaimBestEffort, and 202.                *)
Drop(h) ==
  /\ at[h] = "drop" /\ Goto(h, "accepted")
  /\ claim' = None \/ UNCHANGED claim
  /\ UNCHANGED <<active, expired, task, resolved, seen, keeps, sure, connector, told>>

(* The Worker is gone, or a statement throws that nothing catches.          *)
Lost(h) ==
  /\ at[h] \notin Ended \cup {"new"} /\ Goto(h, "failed")
  /\ UNCHANGED <<rows, seen, keeps, sure, connector, told>>
-----------------------------------------------------------------------------
(* The connector, as TurnInteraction has it: the first response it uses     *)
(* answers the request, and one it acknowledges as accepted was used.  It   *)
(* may refuse any, also one it uses after the ten seconds have passed.      *)

TakeResponse(h) ==
  /\ h \in wire /\ wire' = wire \ {h}
  /\ \/ /\ answered = None /\ answered' = h
        /\ \E says \in {"yes", "no"} : ack' = [ack EXCEPT ![h] = says]
     \/ ack' = [ack EXCEPT ![h] = "no"] /\ UNCHANGED answered
  /\ UNCHANGED <<rows, handler, told>>

(* The socket is lost with what is on it.                                   *)
LoseResponse(h) ==
  /\ h \in wire /\ wire' = wire \ {h}
  /\ UNCHANGED <<rows, handler, ack, answered, told>>

AnswerByLimit ==
  /\ Timed /\ answered = None /\ answered' = "auto" /\ told' = "sent"
  /\ UNCHANGED <<rows, handler, wire, ack>>

(* recordAgentEvent, for the event of that answer; it may be lost.          *)
RecordAnswer ==
  /\ \/ /\ told = "sent" /\ told' = (IF active THEN "find" ELSE "none")
        /\ UNCHANGED <<task, resolved>>
     \/ /\ told = "find" /\ told' = (IF resolved = None THEN "task" ELSE "none")
        /\ UNCHANGED <<task, resolved>>
     \/ /\ told = "task" /\ told' = "append" /\ task' = "running"
        /\ UNCHANGED resolved
     \/ /\ told = "append" /\ told' = "none"
        /\ resolved' = IF resolved = None THEN Event("auto", TRUE) ELSE resolved
        /\ UNCHANGED task
     \/ /\ told # "none" /\ told' = "none" /\ UNCHANGED <<task, resolved>>
  /\ UNCHANGED <<active, expired, claim, handler, connector>>

(* The command ends or fails, with its task.                                *)
CommandEnds ==
  /\ active /\ active' = FALSE /\ task' = "over"
  /\ UNCHANGED <<expired, claim, resolved, handler, connector, told>>

LimitPasses ==
  /\ Timed /\ ~expired /\ expired' = TRUE
  /\ UNCHANGED <<active, task, claim, resolved, handler, connector, told>>

(* TURN_INTERACTION_RESOLUTION_CLAIM_TTL_MS, 60 s, and ..._DISPATCH_TTL_MS, *)
(* 5 min: no handler takes so long for the statements around a wait of 10 s.*)
GrowsStale ==
  /\ claim # None /\ ~MayHaveArrived /\ ~claim.stale
  /\ \A h \in Requests : at[h] \notin Claiming
  /\ claim' = [claim EXCEPT !.stale = TRUE]
  /\ UNCHANGED <<active, expired, task, resolved, handler, connector, told>>
-----------------------------------------------------------------------------
Prepare(h) ==
  Begin(h) \/ FindClaim(h) \/ HasResolution(h) \/ DeleteStale(h) \/ InsertClaim(h) \/ RereadClaim(h)
Deliver(h) ==
  \/ MarkStarted(h) \/ Send(h) \/ HearAck(h) \/ GiveUp(h) \/ MarkUncertain(h)
  \/ MarkDelivered(h) \/ MarkFallback(h) \/ Release(h)
Record(h) == Lookup(h) \/ AppendResolution(h) \/ Resume(h) \/ Drop(h)

Next ==
  \/ \E h \in Requests :
       Prepare(h) \/ Deliver(h) \/ Record(h) \/ Lost(h) \/ TakeResponse(h) \/ LoseResponse(h)
  \/ AnswerByLimit \/ RecordAnswer \/ CommandEnds \/ LimitPasses \/ GrowsStale

Spec == Init /\ [][Next]_vars
-----------------------------------------------------------------------------
(* As long as nothing is recorded, at most one response is being sent: the  *)
(* claim stays with its handler through lost handlers, failed markers and   *)
(* the clean-up of stale claims, although no statement names its owner.     *)
SendingIsExclusive ==
  resolved = None =>
    \A g, h \in Requests : at[g] \in {"send", "wait"} /\ at[h] \in {"send", "wait"} => g = h

(* An event that rests on a confirmed delivery tells what the app-server    *)
(* was answered with, whoever recorded it, also after the handler that      *)
(* delivered it was lost.                                                   *)
RecordedIsUsed == resolved # None /\ resolved.sure => answered = resolved.response

(* An operator who is told that the response was accepted finds an event,   *)
(* and the task is not left waiting for it.                                 *)
AcceptedIsSettled ==
  \A h \in Requests : at[h] = "accepted" => resolved # None /\ task # "waiting"

(* The three of them.                                                       *)
ResolutionIsTrue == SendingIsExclusive /\ RecordedIsUsed /\ AcceptedIsSettled
=============================================================================
