------------------------ MODULE TurnInteractionProofs ------------------------
(***************************************************************************)
(* For any number of interactions and responses: an answer is used for the *)
(* interaction it was given to, what is reported as accepted was used, and *)
(* what is reported as refused was not.  What a turn reports is about this *)
(* turn, and a run of the CLI counts as finished only when it was, for any *)
(* values of their constants; and so do the instances that the runs check. *)
(***************************************************************************)
EXTENDS MCTurns, TLAPS, WellFoundedInduction, SequenceTheorems

ElementsOf(s) == {s[k] : k \in 1..Len(s)}
Distinct(s) == \A j, k \in 1..Len(s) : s[j] = s[k] => j = k

Taken(r) == worker \in {"clear", "answer"} /\ taken = r
Delivering(r) == main = "deliver" /\ held = r
\* A response that the worker has not answered with yet.
Waiting(r) == r \in inbox \/ Delivering(r) \/ r \in InChannel \/ Taken(r)

\* A response is in one place at a time.
OnePlace ==
  /\ Distinct(channel)
  /\ \A r \in Responses :
       /\ r \in inbox => ~Delivering(r) /\ r \notin InChannel /\ ~Taken(r)
       /\ Delivering(r) => r \notin InChannel /\ ~Taken(r)
       /\ r \in InChannel => ~Taken(r)

\* Nothing was done yet with a response that waits, nor with one not sent.
WaitingIsUnused ==
  \A r \in Responses :
    /\ Waiting(r) => ack[r] = "none" /\ sent[r] # None
    /\ Waiting(r) \/ sent[r] = None \/ ack[r] = "no" => \A i \in Interactions : answer[i] # r
    /\ sent[r] = None => ack[r] = "none" /\ report[r] = "none" /\ ~(main = "wait" /\ held = r)

\* The interaction at hand is answered in the last step and in no other.
WorkerIsSound ==
  /\ worker \notin {"reading", "ended"} => turn \in Interactions \ requests
  /\ \A i \in requests : answer[i] = "none"
  /\ worker \in {"asking", "budget", "try", "limit", "recv", "clear", "answer"} =>
       answer[turn] = "none"
  /\ worker \in {"reading", "asking", "budget", "try", "limit", "recv"} => taken = "none"
  /\ worker \in {"answer", "ack"} => taken # "none"
  /\ \A r \in Responses : Taken(r) => sent[r].to = turn
  /\ worker = "ack" /\ taken \in Responses =>
       answer[turn] = taken /\ ack[taken] = "none" /\ sent[taken] # None /\ sent[taken].to = turn

\* What the worker acknowledges it has answered with, and what the connector
\* reports the worker has acknowledged.
AcksAreTrue ==
  /\ \A r \in Responses : ack[r] = "yes" => answer[sent[r].to] = r
  /\ \A r \in Responses : report[r] = "yes" => ack[r] = "yes"
  /\ main = "clear" => ack[held] = "yes"

RefusedIsGone ==
  \A r \in Responses \ Slow : report[r] = "no" =>
    ~Waiting(r) /\ \A i \in Interactions : answer[i] # r

AnsweredWasSent ==
  \A i \in Interactions : answer[i] \in Responses => sent[answer[i]] # None

Sound ==
  /\ OnePlace /\ WaitingIsUnused /\ WorkerIsSound /\ AcksAreTrue
  /\ RefusedIsGone /\ AnsweredWasSent /\ AnswersFit /\ GrantedByOperator

IInv == TypeOK /\ Sound
-----------------------------------------------------------------------------
LEMMA AppendRange ==
    ASSUME NEW S, NEW s \in Seq(S), NEW e \in S
    PROVE  /\ Append(s, e) \in Seq(S)
           /\ ElementsOf(Append(s, e)) = ElementsOf(s) \cup {e}
           /\ Distinct(s) /\ e \notin ElementsOf(s) => Distinct(Append(s, e))
BY DEF ElementsOf, Distinct

LEMMA TailRange ==
    ASSUME NEW S, NEW s \in Seq(S), s # <<>>, Distinct(s)
    PROVE  /\ Head(s) \in ElementsOf(s) /\ Tail(s) \in Seq(S)
           /\ ElementsOf(Tail(s)) = ElementsOf(s) \ {Head(s)}
           /\ Distinct(Tail(s))
<1>1. /\ Head(s) = s[1] /\ Len(s) \in Nat \ {0} /\ Tail(s) \in Seq(S)
      /\ Len(Tail(s)) = Len(s) - 1 /\ \A k \in 1..(Len(s) - 1) : Tail(s)[k] = s[k + 1]
  OBVIOUS
<1>2. ElementsOf(s) = {s[k] : k \in 1..Len(s)}
  BY DEF ElementsOf
<1>3. Head(s) \in ElementsOf(s)
  BY <1>1, <1>2
<1>4. ElementsOf(Tail(s)) \subseteq ElementsOf(s) \ {Head(s)}
  BY <1>1 DEF ElementsOf, Distinct
<1>5. ASSUME NEW e \in ElementsOf(s), e # Head(s) PROVE e \in ElementsOf(Tail(s))
  <2>1. PICK k \in 1..Len(s) : e = s[k]
    BY DEF ElementsOf
  <2>2. k - 1 \in 1..(Len(s) - 1) /\ Tail(s)[k - 1] = e
    BY <1>1, <1>5, <2>1
  <2> QED
    BY <1>1, <2>2 DEF ElementsOf
<1>6. Distinct(Tail(s))
  BY <1>1 DEF Distinct
<1> QED
  BY <1>1, <1>3, <1>4, <1>5, <1>6

LEMMA InitIInv == Init => IInv
<1> SUFFICES ASSUME Init PROVE IInv
  OBVIOUS
<1> USE InteractionAssumption
<1>1. TypeOK
  <2>1. /\ <<>> \in Seq(Event) /\ <<>> \in Seq(Responses)
        /\ events = <<>> /\ channel = <<>>
    BY DEF Init
  <2>2. /\ answer \in [Interactions -> Responses \cup {"auto", "none"}]
        /\ sent \in [Responses -> [to : Interactions, says : Said] \cup {None}]
        /\ ack \in [Responses -> {"none", "yes", "no"}]
        /\ report \in [Responses -> {"none", "yes", "no"}]
    BY DEF Init
  <2>3. /\ late \in BOOLEAN /\ cancel \in BOOLEAN /\ interrupted \in BOOLEAN
    BY DEF Init
  <2>4. held \in IF main \in {"deliver", "wait", "clear"} THEN Responses ELSE {"none"}
    BY DEF Init
  <2> QED
    BY <2>1, <2>2, <2>3, <2>4 DEF Init, TypeOK, Ids
<1>2. InChannel = {} /\ inbox = {} /\ main = "idle" /\ worker = "reading" /\ Distinct(channel)
  BY DEF Init, InChannel, Distinct
<1>3. OnePlace
  BY <1>2 DEF OnePlace, Delivering, Taken
<1>4. WaitingIsUnused
  BY <1>2 DEF Init, WaitingIsUnused, Waiting, Delivering, Taken
<1>5. WorkerIsSound
  BY DEF Init, WorkerIsSound, Taken
<1>6. AcksAreTrue /\ RefusedIsGone
  BY DEF Init, AcksAreTrue, RefusedIsGone
<1>7. AnsweredWasSent /\ AnswersFit /\ GrantedByOperator
  BY DEF Init, AnsweredWasSent, AnswersFit, GrantedByOperator
<1> QED
  BY <1>1, <1>3, <1>4, <1>5, <1>6, <1>7 DEF IInv, Sound

LEMMA EndType ==
    ASSUME TypeOK, NEW rs \in SUBSET Responses, NEW halt \in BOOLEAN, End(rs, halt)
    PROVE  /\ worker' = "ended" /\ interrupted' \in BOOLEAN /\ channel' \in Seq(Responses)
           /\ ack' \in [Responses -> {"none", "yes", "no"}]
           /\ UNCHANGED <<turn, taken, phase>>
<1>1. ack' = Refused(rs \cup InChannel) /\ channel' = <<>> /\ interrupted' = (interrupted \/ halt)
      /\ worker' = "ended" /\ UNCHANGED <<turn, taken, phase>>
  BY Zenon DEF End
<1>2. Refused(rs \cup InChannel) \in [Responses -> {"none", "yes", "no"}]
  BY DEF TypeOK, Refused
<1>3. interrupted \in BOOLEAN
  BY DEF TypeOK
<1>4. (interrupted \/ halt) \in BOOLEAN
  BY <1>3
<1>5. interrupted' \in BOOLEAN
  BY Zenon, <1>1, <1>4
<1>6. channel' \in Seq(Responses)
  BY <1>1
<1>7. ack' \in [Responses -> {"none", "yes", "no"}]
  BY <1>1, <1>2
<1> QED
  BY Zenon, <1>1, <1>5, <1>6, <1>7

LEMMA TypeStep == TypeOK /\ WorkerIsSound /\ [Next]_vars => TypeOK'
<1> SUFFICES ASSUME TypeOK, WorkerIsSound, [Next]_vars PROVE TypeOK'
  OBVIOUS
<1> USE DEF Rest, workerVars, mainVars, WorkerVars
<1>1. CASE UNCHANGED vars
  BY <1>1 DEF vars, TypeOK
<1>2. CASE EndTurn
  BY <1>2, EndType DEF EndTurn, TypeOK
<1>3. ASSUME NEW i \in Interactions, RejectRequest(i) PROVE TypeOK'
  BY <1>3, EndType DEF RejectRequest, TypeOK
<1>4. ASSUME NEW i \in Interactions, ReadRequest(i) PROVE TypeOK'
  BY <1>4 DEF ReadRequest, TypeOK, Ids
<1>5. CASE SendRequested
  <2>1. CASE main = "gone" /\ active' = None /\ End({}, FALSE) /\ UNCHANGED events
    BY <1>5, <2>1, EndType DEF SendRequested, TypeOK, Ids
  <2>2. CASE main # "gone" /\ events' = Append(events, [kind |-> "requested", of |-> turn])
    <3>1. [kind |-> "requested", of |-> turn] \in Event
      BY <1>5 DEF SendRequested, WorkerIsSound, Event
    <3>2. events' \in Seq(Event)
      BY <2>2, <3>1 DEF TypeOK
    <3> QED
      BY <1>5, <2>2, <3>2 DEF SendRequested, TypeOK
  <2> QED
    BY <1>5, <2>1, <2>2 DEF SendRequested
<1>6. CASE CheckBudget \/ NothingQueued \/ CheckLimit \/ WaitEnds
  BY <1>6 DEF CheckBudget, NothingQueued, CheckLimit, WaitEnds, Step, TypeOK
<1>7. CASE TakeDelivery
  <2>1. Head(channel) \in Responses /\ Tail(channel) \in Seq(Responses)
    BY <1>7 DEF TakeDelivery, TypeOK
  <2> QED
    BY <1>7, <2>1 DEF TakeDelivery, TypeOK
<1>8. CASE ClearActive
  BY <1>8, EndType DEF ClearActive, TypeOK, Ids
<1>9. CASE SendAnswer
  <2>1. CASE End(TakenBy, FALSE) /\ UNCHANGED <<answer, granted>>
    BY <1>9, <2>1, EndType DEF SendAnswer, TypeOK, TakenBy
  <2>2. CASE UNCHANGED <<turn, taken, phase, interrupted, channel, ack>>
    <3>1. turn \in Interactions
      BY <1>9 DEF SendAnswer, WorkerIsSound
    <3>2. answer' \in [Interactions -> Responses \cup {"auto", "none"}] /\ granted' \subseteq Interactions
      BY <1>9, <2>2, <3>1 DEF SendAnswer, TypeOK
    <3>3. worker' \in {"ack", "ended"}
      BY <1>9 DEF SendAnswer, End
    <3> QED
      BY <1>9, <2>2, <3>2, <3>3 DEF SendAnswer, TypeOK
  <2> QED
    BY <1>9, <2>1, <2>2 DEF SendAnswer
<1>10. CASE Acknowledge
  <2>1. [kind |-> "received", of |-> turn] \in Event
    BY <1>10 DEF Acknowledge, WorkerIsSound, Event
  <2>2. CASE End({}, FALSE) /\ taken = "auto" /\ UNCHANGED events
    BY <1>10, <2>2, EndType DEF Acknowledge, TypeOK
  <2>3. CASE worker' = "reading"
    <3>1. /\ UNCHANGED <<requests, active, interrupted, channel, answer, granted, Rest>>
          /\ turn' = None /\ taken' = "none" /\ phase' = "early"
          /\ ack' = [r \in Responses |-> IF r = taken THEN "yes" ELSE ack[r]]
          /\ events' = events \/ events' = Append(events, [kind |-> "received", of |-> turn])
      BY <1>10, <2>3 DEF Acknowledge, End
    <3>2. events' \in Seq(Event)
      BY <2>1, <3>1 DEF TypeOK
    <3>3. ack' \in [Responses -> {"none", "yes", "no"}]
      BY <3>1 DEF TypeOK
    <3> QED
      BY <2>3, <3>1, <3>2, <3>3 DEF TypeOK, Ids
  <2> QED
    BY <1>10, <2>2, <2>3 DEF Acknowledge
<1>11. CASE TimePasses
  BY <1>11 DEF TimePasses, TypeOK
<1>12. CASE DispatchEvent
  <2>1. Head(events) \in Event /\ Tail(events) \in Seq(Event)
    BY <1>12 DEF DispatchEvent, TypeOK
  <2>2. CASE dispatched' = dispatched \cup {Head(events)} /\ UNCHANGED <<main, cancel>>
    BY <1>12, <2>1, <2>2 DEF DispatchEvent, TypeOK
  <2>3. CASE main' = "join" /\ cancel' = TRUE /\ UNCHANGED dispatched
    BY <1>12, <2>1, <2>3 DEF DispatchEvent, TypeOK
  <2>4. CASE /\ main' = "gone" /\ dispatched' \in {dispatched, dispatched \cup {Head(events)}}
             /\ UNCHANGED cancel
    BY <1>12, <2>1, <2>4 DEF DispatchEvent, TypeOK
  <2> QED
    BY <1>12, <2>2, <2>3, <2>4 DEF DispatchEvent
<1>13. ASSUME NEW r \in Responses, ReadResponse(r) PROVE TypeOK'
  BY <1>13 DEF ReadResponse, Report, TypeOK
<1>14. CASE Deliver
  <2>1. held \in Responses
    BY <1>14 DEF Deliver, TypeOK
  <2>2. CASE channel' = Append(channel, held) /\ main' = "wait" /\ UNCHANGED <<held, report>>
    <3>1. channel' \in Seq(Responses)
      BY <2>1, <2>2 DEF TypeOK
    <3> QED
      BY <1>14, <2>1, <2>2, <3>1 DEF Deliver, TypeOK
  <2>3. CASE Report(held, "no") /\ UNCHANGED channel
    BY <1>14, <2>1, <2>3 DEF Deliver, Report, TypeOK
  <2> QED
    BY <1>14, <2>2, <2>3 DEF Deliver
<1>15. CASE Delivered \/ DeliveryTimeout \/ ClearAccepted
  <2>1. CASE Delivered
    BY <2>1 DEF Delivered, Report, TypeOK, Ids
  <2>2. CASE DeliveryTimeout
    BY <2>2 DEF DeliveryTimeout, Report, TypeOK, Ids
  <2>3. CASE ClearAccepted
    <3>1. held \in Responses /\ active' = None
      BY <2>3 DEF ClearAccepted, TypeOK
    <3>2. /\ main' \in {"idle", "gone"} /\ held' = "none"
          /\ report' \in [Responses -> {"none", "yes", "no"}]
      BY <2>3, <3>1 DEF ClearAccepted, Report, TypeOK
    <3>3. UNCHANGED <<WorkerVars, cancel, events, dispatched, sent, inbox, channel, ack>>
      BY <2>3 DEF ClearAccepted
    <3> QED
      BY <3>1, <3>2, <3>3 DEF TypeOK, WorkerVars, Ids
  <2> QED
    BY <1>15, <2>1, <2>2, <2>3
<1>16. CASE Finish \/ CancelTurn
  <2>1. CASE Finish
    BY <2>1 DEF Finish, TypeOK
  <2>2. CASE CancelTurn
    BY <2>2 DEF CancelTurn, TypeOK
  <2> QED
    BY <1>16, <2>1, <2>2
<1>18. CASE DeadlinePasses
  BY <1>18 DEF DeadlinePasses, TypeOK
<1>19. CASE ChannelCloses
  BY <1>19, EndType DEF ChannelCloses, TypeOK, Ids
<1>17. ASSUME NEW r \in Responses, NEW i \in Interactions, NEW says \in Said, Respond(r, i, says)
       PROVE  TypeOK'
  BY <1>17 DEF Respond, TypeOK
<1> QED
  BY <1>1, <1>2, <1>3, <1>4, <1>5, <1>6, <1>7, <1>8, <1>9, <1>10, <1>11, <1>12, <1>13, <1>14,
     <1>15, <1>16, <1>17, <1>18, <1>19 DEF Next, Worker, Main, Ended
-----------------------------------------------------------------------------
\* A response that waits is moved from one place to the next, and what was done
\* with the others stays.  A step is sound if no response comes to a place but
\* from the one before it.
LEMMA Places ==
    ASSUME TypeOK
    PROVE  InChannel = ElementsOf(channel) /\ InChannel \subseteq Responses
BY DEF TypeOK, InChannel, ElementsOf

LEMMA QuietStep ==
    ASSUME IInv,
           UNCHANGED <<requests, worker, turn, taken, answer, granted, sent, inbox, channel, ack,
                       held, report>>,
           main' = main \/ main' \in {"idle", "join", "done", "gone"}
    PROVE  Sound'
<1> USE DEF Taken, Delivering, Waiting, InChannel, Distinct
<1>1. OnePlace'
  BY DEF IInv, Sound, OnePlace
<1>2. WaitingIsUnused'
  BY DEF IInv, Sound, WaitingIsUnused
<1>3. WorkerIsSound'
  BY DEF IInv, Sound, WorkerIsSound
<1>4. AcksAreTrue'
  BY DEF IInv, Sound, AcksAreTrue
<1>5. RefusedIsGone'
  BY DEF IInv, Sound, RefusedIsGone
<1>6. AnsweredWasSent' /\ AnswersFit' /\ GrantedByOperator'
  BY DEF IInv, Sound, AnsweredWasSent, AnswersFit, GrantedByOperator
<1> QED
  BY <1>1, <1>2, <1>3, <1>4, <1>5, <1>6 DEF Sound

\* The worker ends, with the response it has taken or without one.
LEMMA EndStep ==
    ASSUME IInv, NEW rs \in SUBSET Responses, NEW halt \in BOOLEAN, End(rs, halt),
           \A r \in rs : worker = "answer" /\ taken = r,
           requests' \subseteq requests,
           UNCHANGED <<answer, granted, sent, inbox, main, held, report>>
    PROVE  Sound'
<1>a. /\ worker' = "ended" /\ channel' = <<>> /\ taken' = taken /\ turn' = turn
      /\ ack' = [r \in Responses |-> IF r \in rs \cup InChannel THEN "no" ELSE ack[r]]
  BY DEF End, Refused
<1>b. InChannel' = {} /\ Distinct(channel')
  BY <1>a DEF InChannel, Distinct
<1>c. \A r \in rs \cup InChannel : Waiting(r) /\ r \notin inbox /\ ~Delivering(r)
  BY Places DEF IInv, Sound, OnePlace, Waiting, Taken
<1>d. \A r \in Responses : Waiting(r)' <=> r \in inbox \/ Delivering(r)
  BY <1>a, <1>b DEF Waiting, Delivering, Taken
<1>1. OnePlace'
  BY <1>a, <1>b DEF IInv, Sound, OnePlace, Delivering, Taken
<1>2. WaitingIsUnused'
  BY <1>a, <1>c, <1>d DEF IInv, Sound, WaitingIsUnused, Waiting
<1>3. WorkerIsSound'
  BY <1>a DEF IInv, Sound, WorkerIsSound, Taken
<1>4. AcksAreTrue'
  <2>1. \A r \in rs \cup InChannel : ack[r] = "none"
    BY <1>c, Places DEF IInv, Sound, WaitingIsUnused
  <2>2. \A r \in Responses : ack[r] = "yes" <=> ack'[r] = "yes"
    BY <1>a, <2>1
  <2>3. main = "clear" => held \in Responses
    BY DEF IInv, TypeOK
  <2> QED
    BY <2>2, <2>3 DEF IInv, Sound, AcksAreTrue
<1>5. RefusedIsGone'
  BY <1>d DEF IInv, Sound, RefusedIsGone, Waiting
<1>6. AnsweredWasSent' /\ AnswersFit' /\ GrantedByOperator'
  BY DEF IInv, Sound, AnsweredWasSent, AnswersFit, GrantedByOperator
<1> QED
  BY <1>1, <1>2, <1>3, <1>4, <1>5, <1>6 DEF Sound

\* The worker goes on without touching a response.
LEMMA WorkerMoves ==
    ASSUME IInv,
           UNCHANGED <<answer, granted, sent, inbox, channel, ack, main, held, report>>,
           WorkerIsSound', \A r \in Responses : Taken(r)' <=> Taken(r)
    PROVE  Sound'
<1>1. \A r \in Responses : (Waiting(r)' <=> Waiting(r)) /\ (Delivering(r)' <=> Delivering(r))
  BY DEF Waiting, Delivering, InChannel
<1>2. OnePlace'
  BY <1>1 DEF IInv, Sound, OnePlace, InChannel
<1>3. WaitingIsUnused'
  BY <1>1 DEF IInv, Sound, WaitingIsUnused
<1>4. AcksAreTrue'
  BY DEF IInv, Sound, AcksAreTrue
<1>5. RefusedIsGone'
  BY <1>1 DEF IInv, Sound, RefusedIsGone
<1>6. AnsweredWasSent' /\ AnswersFit' /\ GrantedByOperator'
  BY DEF IInv, Sound, AnsweredWasSent, AnswersFit, GrantedByOperator
<1> QED
  BY <1>2, <1>3, <1>4, <1>5, <1>6 DEF Sound

LEMMA WorkerStep == IInv /\ Worker => Sound'
<1> SUFFICES ASSUME IInv, Worker PROVE Sound'
  OBVIOUS
<1> USE DEF Rest, mainVars
<1>n. {"auto", "none"} \cap Responses = {}
  BY InteractionAssumption
<1>e. ASSUME NEW halt \in BOOLEAN, End({}, halt), requests' \subseteq requests,
             UNCHANGED <<answer, granted, sent, inbox, main, held, report>>
      PROVE  Sound'
  <2>1. {} \in SUBSET Responses /\ \A r \in {} : worker = "answer" /\ taken = r
    OBVIOUS
  <2> QED
    BY <1>e, <2>1, EndStep
<1>1. CASE EndTurn
  BY <1>1, <1>e DEF EndTurn
<1>2. ASSUME NEW i \in Interactions, RejectRequest(i) PROVE Sound'
  <2>1. requests' \subseteq requests /\ End({}, FALSE)
        /\ UNCHANGED <<answer, granted, sent, inbox, main, held, report>>
    BY <1>2 DEF RejectRequest
  <2> QED
    BY <2>1, <1>e
<1>3. ASSUME NEW i \in Interactions, ReadRequest(i) PROVE Sound'
  <2>1. WorkerIsSound'
    BY <1>3 DEF ReadRequest, IInv, Sound, TypeOK, WorkerIsSound, Taken
  <2> QED
    BY <1>3, <2>1, WorkerMoves DEF ReadRequest, Taken
<1>4. CASE SendRequested
  <2>1. CASE End({}, FALSE)
    BY <1>4, <2>1, <1>e DEF SendRequested
  <2>2. CASE worker' = "budget" /\ UNCHANGED <<turn, taken, interrupted, channel, ack>>
    <3>1. WorkerIsSound'
      BY <1>4, <2>2 DEF SendRequested, IInv, Sound, WorkerIsSound, Taken
    <3> QED
      BY <1>4, <2>2, <3>1, WorkerMoves DEF SendRequested, Taken
  <2> QED
    BY <1>4, <2>1, <2>2 DEF SendRequested
<1>5. CASE CheckBudget \/ NothingQueued \/ CheckLimit \/ WaitEnds
  <2>1. WorkerIsSound'
    BY <1>5, <1>n DEF CheckBudget, NothingQueued, CheckLimit, WaitEnds, Step, IInv, Sound,
                      WorkerIsSound, Taken
  <2>2. \A r \in Responses : Taken(r)' <=> Taken(r)
    BY <1>5, <1>n DEF CheckBudget, NothingQueued, CheckLimit, WaitEnds, Step, Taken
  <2> QED
    BY <1>5, <2>1, <2>2, WorkerMoves DEF CheckBudget, NothingQueued, CheckLimit, WaitEnds, Step
<1>6. CASE TakeDelivery
  <2> DEFINE r == Head(channel)
  <2>a. /\ r \in Responses /\ r \in InChannel /\ InChannel' = InChannel \ {r}
        /\ Distinct(channel') /\ worker \in {"try", "recv"}
        /\ UNCHANGED <<requests, turn, answer, granted, sent, inbox, main, held, report>>
    <3>1. channel \in Seq(Responses) /\ channel # <<>> /\ Distinct(channel) /\ channel' = Tail(channel)
      BY <1>6 DEF TakeDelivery, IInv, Sound, TypeOK, OnePlace
    <3>2. InChannel = ElementsOf(channel) /\ InChannel' = ElementsOf(channel')
      BY DEF InChannel, ElementsOf
    <3>3. r \in Responses
      BY <3>1
    <3> QED
      BY <1>6, <3>1, <3>2, <3>3, TailRange DEF TakeDelivery
  <2> HIDE DEF r
  <2>b. /\ Waiting(r) /\ r \notin inbox /\ ~Delivering(r) /\ ack[r] = "none" /\ sent[r] # None
        /\ \A i \in Interactions : answer[i] # r
    BY <2>a DEF IInv, Sound, OnePlace, WaitingIsUnused, Waiting
  <2>1. CASE Matches(r) /\ taken' = r /\ worker' = "clear" /\ ack' = ack
    <3>1. \A q \in Responses : (Taken(q)' <=> q = r) /\ ~Taken(q) /\ (Delivering(q)' <=> Delivering(q))
      BY <2>a, <2>1 DEF Taken, Delivering
    <3>2. \A q \in Responses : Waiting(q)' <=> Waiting(q)
      BY <2>a, <3>1 DEF Waiting
    <3>3. OnePlace'
      BY <2>a, <2>b, <3>1 DEF IInv, Sound, OnePlace
    <3>4. WaitingIsUnused'
      BY <2>a, <2>1, <3>2 DEF IInv, Sound, WaitingIsUnused
    <3>5. WorkerIsSound'
      BY <2>a, <2>1, <3>1 DEF IInv, Sound, WorkerIsSound, Matches
    <3>6. AcksAreTrue' /\ RefusedIsGone'
      BY <2>a, <2>1, <3>2 DEF IInv, Sound, AcksAreTrue, RefusedIsGone
    <3>7. AnsweredWasSent' /\ AnswersFit' /\ GrantedByOperator'
      BY <2>a DEF IInv, Sound, AnsweredWasSent, AnswersFit, GrantedByOperator
    <3> QED
      BY <3>3, <3>4, <3>5, <3>6, <3>7 DEF Sound
  <2>2. CASE ack' = [ack EXCEPT ![r] = "no"] /\ worker' \in {"try", "budget"} /\ taken' = taken
    <3>1. \A q \in Responses : ~Taken(q)' /\ ~Taken(q) /\ (Delivering(q)' <=> Delivering(q))
      BY <2>a, <2>2 DEF Taken, Delivering
    <3>2. \A q \in Responses : Waiting(q)' <=> Waiting(q) /\ q # r
      BY <2>a, <2>b, <3>1 DEF Waiting
    <3>3. OnePlace'
      BY <2>a, <3>1 DEF IInv, Sound, OnePlace
    <3>4. ack' \in [Responses -> {"none", "yes", "no"}] /\ \A q \in Responses : q # r => ack'[q] = ack[q]
      BY <2>2 DEF IInv, TypeOK
    <3>5. WaitingIsUnused'
      BY <2>a, <2>b, <3>2, <3>4 DEF IInv, Sound, WaitingIsUnused
    <3>6. WorkerIsSound'
      BY <2>a, <2>2, <3>1 DEF IInv, Sound, WorkerIsSound
    <3>7. AcksAreTrue'
      <4>1. \A q \in Responses : ack'[q] = "yes" <=> ack[q] = "yes"
        BY <2>a, <2>b, <2>2 DEF IInv, TypeOK
      <4>2. main = "clear" => held \in Responses
        BY DEF IInv, TypeOK
      <4> QED
        BY <2>a, <4>1, <4>2 DEF IInv, Sound, AcksAreTrue
    <3>8. RefusedIsGone'
      BY <2>a, <3>2 DEF IInv, Sound, RefusedIsGone
    <3>9. AnsweredWasSent' /\ AnswersFit' /\ GrantedByOperator'
      BY <2>a DEF IInv, Sound, AnsweredWasSent, AnswersFit, GrantedByOperator
    <3> QED
      BY <3>3, <3>5, <3>6, <3>7, <3>8, <3>9 DEF Sound
  <2> QED
    BY <1>6, <2>1, <2>2 DEF TakeDelivery, r
<1>7. CASE ClearActive
  <2>1. CASE taken = "none" /\ End({}, TRUE)
    BY <1>7, <2>1, <1>e DEF ClearActive
  <2>2. CASE taken # "none" /\ worker' = "answer" /\ UNCHANGED <<turn, taken, phase,
                                                                 interrupted, channel, ack>>
    <3>1. worker = "clear" /\ UNCHANGED <<requests, answer, granted, sent, inbox, main, held,
                                          report>>
      BY <1>7 DEF ClearActive
    <3>2. \A r \in Responses : Taken(r)' <=> Taken(r)
      BY <2>2, <3>1 DEF Taken
    <3>3. WorkerIsSound'
      BY <2>2, <3>1, <3>2 DEF IInv, Sound, WorkerIsSound
    <3> QED
      BY <2>2, <3>1, <3>2, <3>3, WorkerMoves
  <2> QED
    BY <1>7, <2>1, <2>2 DEF ClearActive
<1>8. CASE SendAnswer
  <2>a. /\ worker = "answer" /\ turn \in Interactions \ requests /\ taken # "none" /\ answer[turn] = "none"
        /\ UNCHANGED <<requests, sent, inbox, main, held, report>>
    BY <1>8 DEF SendAnswer, IInv, Sound, WorkerIsSound
  <2>1. CASE End(TakenBy, FALSE) /\ UNCHANGED <<answer, granted>>
    <3>1. TakenBy \in SUBSET Responses /\ \A r \in TakenBy : worker = "answer" /\ taken = r
      BY <2>a DEF TakenBy
    <3> QED
      BY <2>a, <2>1, <3>1, EndStep
  <2>2. CASE /\ Fits /\ answer' = [answer EXCEPT ![turn] = taken]
             /\ granted' = granted \cup {i \in {turn} : Grants}
             /\ worker' = "ack" /\ UNCHANGED <<turn, taken, phase, interrupted, channel, ack>>
    <3>1. \A q \in Responses : ~Taken(q)' /\ (Taken(q) <=> q = taken) /\ (Delivering(q)' <=> Delivering(q))
      BY <2>a, <2>2 DEF Taken, Delivering
    <3>2. InChannel' = InChannel
      BY <2>2 DEF InChannel
    <3>3. \A q \in Responses : Waiting(q)' <=> Waiting(q) /\ q # taken
      BY <2>a, <3>1, <3>2 DEF Waiting, IInv, Sound, OnePlace
    <3>4. /\ answer'[turn] = taken
          /\ \A i \in Interactions : i # turn => answer'[i] = answer[i]
      BY <2>a, <2>2 DEF IInv, TypeOK
    <3>5. taken \in Responses => /\ Waiting(taken) /\ sent[taken] # None /\ sent[taken].to = turn
                                /\ ack[taken] = "none" /\ \A i \in Interactions : answer[i] # taken
      BY <2>a, <3>1 DEF Waiting, IInv, Sound, WaitingIsUnused, WorkerIsSound
    <3>6. OnePlace'
      BY <2>a, <2>2, <3>1, <3>2 DEF IInv, Sound, OnePlace
    <3>7. WaitingIsUnused'
      BY <2>a, <2>2, <3>3, <3>4, <3>5 DEF IInv, Sound, WaitingIsUnused
    <3>8. WorkerIsSound'
      BY <2>a, <2>2, <3>1, <3>4, <3>5 DEF IInv, Sound, WorkerIsSound
    <3>9. AcksAreTrue'
      <4>1. ASSUME NEW r \in Responses, ack[r] = "yes" PROVE answer'[sent[r].to] = r
        <5>1. sent[r].to \in Interactions
          BY <4>1 DEF IInv, TypeOK, Sound, WaitingIsUnused
        <5>2. answer[sent[r].to] = r
          BY <4>1 DEF IInv, Sound, AcksAreTrue
        <5>3. r # "none"
          BY <1>n
        <5> QED
          BY <2>a, <3>4, <5>1, <5>2, <5>3
      <4> QED
        BY <2>a, <2>2, <4>1 DEF IInv, Sound, AcksAreTrue
    <3>10. RefusedIsGone'
      BY <2>a, <3>3, <3>4, <3>5 DEF IInv, Sound, RefusedIsGone
    <3>11. AnsweredWasSent' /\ AnswersFit'
      <4>1. taken \in Responses => (sent[taken].says = "input") = (Kind[turn] = "input")
        BY <1>n, <2>2 DEF Fits, Says
      <4> QED
        BY <2>a, <3>4, <3>5, <4>1 DEF IInv, Sound, AnsweredWasSent, AnswersFit
    <3>12. GrantedByOperator'
      <4>1. ASSUME NEW i \in granted', i # turn PROVE i \in granted /\ i \in Interactions /\ answer'[i] = answer[i]
        BY <2>2, <3>4, <4>1 DEF IInv, TypeOK
      <4>2. ASSUME turn \in granted
            PROVE  FALSE
        BY <1>n, <2>a, <4>2 DEF IInv, Sound, GrantedByOperator
      <4>3. ASSUME Grants PROVE taken \in Responses /\ sent[taken] = [to |-> turn, says |-> "accept"]
        <5>1. taken # "auto" /\ sent[taken].says = "accept"
          BY <4>3 DEF Grants, Says
        <5>2. taken \in Responses
          BY <2>a, <5>1 DEF IInv, TypeOK
        <5>3. sent[taken] \in [to : Interactions, says : Said]
          BY <3>5, <5>2 DEF IInv, TypeOK
        <5> QED
          BY <3>5, <5>1, <5>2, <5>3
      <4> QED
        BY <2>a, <2>2, <3>4, <4>1, <4>2, <4>3 DEF IInv, Sound, GrantedByOperator
    <3> QED
      BY <3>6, <3>7, <3>8, <3>9, <3>10, <3>11, <3>12 DEF Sound
  <2> QED
    BY <1>8, <2>1, <2>2 DEF SendAnswer
<1>10. CASE ChannelCloses
  <2>1. requests' = requests /\ End({}, FALSE)
        /\ UNCHANGED <<answer, granted, sent, inbox, main, held, report>>
    BY <1>10 DEF ChannelCloses
  <2> QED
    BY <2>1, <1>e
<1>11. CASE Acknowledge /\ End({}, FALSE)
  <2>1. requests' = requests /\ UNCHANGED <<answer, granted, sent, inbox, main, held, report>>
    BY <1>11 DEF Acknowledge
  <2> QED
    BY <1>11, <2>1, <1>e
<1>9. CASE Acknowledge /\ ~End({}, FALSE)
  <2>a. /\ worker = "ack" /\ worker' = "reading" /\ taken' = "none"
        /\ ack' = [r \in Responses |-> IF r = taken THEN "yes" ELSE ack[r]]
        /\ UNCHANGED <<requests, answer, granted, channel, sent, inbox, main, held, report>>
    BY <1>9 DEF Acknowledge
  <2>b. taken \in Responses => /\ answer[turn] = taken /\ ack[taken] = "none" /\ turn \in Interactions
                              /\ sent[taken] # None /\ sent[taken].to = turn /\ ~Waiting(taken)
    BY <2>a DEF IInv, Sound, WorkerIsSound, WaitingIsUnused
  <2>1. \A r \in Responses : /\ ~Taken(r) /\ ~Taken(r)' /\ (Delivering(r)' <=> Delivering(r))
                            /\ (Waiting(r)' <=> Waiting(r))
    BY <2>a DEF Taken, Delivering, Waiting, InChannel
  <2>2. InChannel' = InChannel
    BY <2>a DEF InChannel
  <2>3. OnePlace'
    BY <2>a, <2>1, <2>2 DEF IInv, Sound, OnePlace
  <2>4. WaitingIsUnused'
    BY <2>a, <2>b, <2>1 DEF IInv, Sound, WaitingIsUnused
  <2>5. WorkerIsSound'
    BY <2>a, <2>1 DEF IInv, Sound, WorkerIsSound
  <2>6. AcksAreTrue'
    <3>1. main = "clear" => held \in Responses
      BY DEF IInv, TypeOK
    <3> QED
      BY <2>a, <2>b, <3>1 DEF IInv, Sound, AcksAreTrue
  <2>7. RefusedIsGone'
    BY <2>a, <2>1 DEF IInv, Sound, RefusedIsGone
  <2>8. AnsweredWasSent' /\ AnswersFit' /\ GrantedByOperator'
    BY <2>a DEF IInv, Sound, AnsweredWasSent, AnswersFit, GrantedByOperator
  <2> QED
    BY <2>3, <2>4, <2>5, <2>6, <2>7, <2>8 DEF Sound
<1> QED
  BY <1>1, <1>2, <1>3, <1>4, <1>5, <1>6, <1>7, <1>8, <1>9, <1>10, <1>11 DEF Worker

LEMMA MainStep ==
    ASSUME IInv, \/ \E r \in Responses : ReadResponse(r)
                 \/ Deliver \/ Delivered \/ DeliveryTimeout \/ ClearAccepted
    PROVE  Sound'
<1> USE DEF WorkerVars, workerVars
<1>1. ASSUME NEW r \in Responses, ReadResponse(r) PROVE Sound'
  <2>a. /\ main = "idle" /\ r \in inbox /\ inbox' = inbox \ {r}
        /\ UNCHANGED <<requests, worker, turn, taken, answer, granted, sent, channel, ack>>
    BY <1>1 DEF ReadResponse
  <2>b. InChannel' = InChannel /\ \A q \in Responses : (Taken(q)' <=> Taken(q)) /\ ~Delivering(q)
    BY <2>a DEF InChannel, Taken, Delivering
  <2>c. /\ sent[r] # None /\ ack[r] = "none" /\ (\A i \in Interactions : answer[i] # r)
        /\ r \notin InChannel /\ ~Taken(r)
    BY <2>a DEF IInv, Sound, WaitingIsUnused, OnePlace, Waiting
  <2>1. CASE Report(r, "no")
    <3>1. \A q \in Responses : ~Delivering(q)' /\ (Waiting(q)' <=> Waiting(q) /\ q # r)
      BY <2>a, <2>b, <2>c, <2>1 DEF Report, Waiting, Delivering
    <3>r. /\ report' \in [Responses -> {"none", "yes", "no"}] /\ report'[r] \in {"no", report[r]}
          /\ main' \in {"idle", "gone"}
          /\ \A q \in Responses : q # r => report'[q] = report[q]
      BY <2>1 DEF Report, IInv, TypeOK
    <3>2. OnePlace'
      BY <2>a, <2>b, <3>1 DEF IInv, Sound, OnePlace, Distinct
    <3>3. WaitingIsUnused'
      BY <2>a, <2>c, <3>1, <3>r DEF IInv, Sound, WaitingIsUnused
    <3>4. WorkerIsSound' /\ AnsweredWasSent' /\ AnswersFit' /\ GrantedByOperator'
      BY <2>a, <2>b DEF IInv, Sound, WorkerIsSound, AnsweredWasSent, AnswersFit,
         GrantedByOperator
    <3>5. AcksAreTrue'
      BY <2>a, <3>r DEF IInv, Sound, AcksAreTrue
    <3>6. RefusedIsGone'
      BY <2>a, <2>c, <3>1, <3>r DEF IInv, Sound, RefusedIsGone
    <3> QED
      BY <3>2, <3>3, <3>4, <3>5, <3>6 DEF Sound
  <2>2. CASE main' = "deliver" /\ held' = r /\ UNCHANGED report
    <3>1. \A q \in Responses : (Delivering(q)' <=> q = r) /\ (Waiting(q)' <=> Waiting(q))
      BY <2>a, <2>b, <2>c, <2>2 DEF Waiting, Delivering
    <3>2. OnePlace'
      BY <2>a, <2>b, <2>c, <3>1 DEF IInv, Sound, OnePlace, Distinct
    <3>3. WaitingIsUnused'
      BY <2>a, <2>c, <2>2, <3>1 DEF IInv, Sound, WaitingIsUnused
    <3>4. WorkerIsSound' /\ AnsweredWasSent' /\ AnswersFit' /\ GrantedByOperator'
      BY <2>a, <2>b DEF IInv, Sound, WorkerIsSound, AnsweredWasSent, AnswersFit,
         GrantedByOperator
    <3>5. AcksAreTrue' /\ RefusedIsGone'
      BY <2>a, <2>2, <3>1 DEF IInv, Sound, AcksAreTrue, RefusedIsGone
    <3> QED
      BY <3>2, <3>3, <3>4, <3>5 DEF Sound
  <2> QED
    BY <1>1, <2>1, <2>2 DEF ReadResponse
<1>2. CASE Deliver
  <2>a. /\ main = "deliver" /\ held \in Responses /\ Delivering(held)
        /\ UNCHANGED <<requests, worker, turn, taken, answer, granted, sent, inbox, ack>>
    BY <1>2 DEF Deliver, Delivering, IInv, TypeOK
  <2>b. /\ sent[held] # None /\ ack[held] = "none" /\ (\A i \in Interactions : answer[i] # held)
        /\ held \notin InChannel /\ held \notin inbox /\ ~Taken(held)
    BY <2>a DEF IInv, Sound, WaitingIsUnused, OnePlace, Waiting
  <2>c. \A q \in Responses : (Taken(q)' <=> Taken(q)) /\ (Delivering(q) <=> q = held)
    BY <2>a DEF Taken, Delivering
  <2>1. CASE channel' = Append(channel, held) /\ main' = "wait" /\ UNCHANGED <<held, report>>
    <3>1. InChannel' = InChannel \cup {held} /\ Distinct(channel')
      <4>1. InChannel = ElementsOf(channel) /\ InChannel' = ElementsOf(channel')
        BY DEF InChannel, ElementsOf
      <4>2. channel \in Seq(Responses) /\ Distinct(channel)
        BY DEF IInv, TypeOK, Sound, OnePlace
      <4> QED
        BY <2>a, <2>b, <2>1, <4>1, <4>2, AppendRange
    <3>2. \A q \in Responses : ~Delivering(q)' /\ (Waiting(q)' <=> Waiting(q))
      BY <2>a, <2>c, <2>1, <3>1 DEF Waiting, Delivering
    <3>3. OnePlace'
      BY <2>a, <2>b, <2>c, <3>1, <3>2 DEF IInv, Sound, OnePlace
    <3>4. WaitingIsUnused'
      BY <2>a, <2>b, <2>1, <3>2 DEF IInv, Sound, WaitingIsUnused
    <3>5. WorkerIsSound' /\ AnsweredWasSent' /\ AnswersFit' /\ GrantedByOperator'
      BY <2>a, <2>c DEF IInv, Sound, WorkerIsSound, AnsweredWasSent, AnswersFit,
         GrantedByOperator
    <3>6. AcksAreTrue' /\ RefusedIsGone'
      BY <2>a, <2>1, <3>2 DEF IInv, Sound, AcksAreTrue, RefusedIsGone
    <3> QED
      BY <3>3, <3>4, <3>5, <3>6 DEF Sound
  <2>2. CASE Report(held, "no") /\ UNCHANGED channel
    <3>1. InChannel' = InChannel
      BY <2>2 DEF InChannel
    <3>2. \A q \in Responses : ~Delivering(q)' /\ (Waiting(q)' <=> Waiting(q) /\ q # held)
      BY <2>a, <2>b, <2>c, <2>2, <3>1 DEF Report, Waiting, Delivering
    <3>r. /\ report' \in [Responses -> {"none", "yes", "no"}] /\ main' \in {"idle", "gone"}
          /\ report'[held] \in {"no", report[held]}
          /\ \A q \in Responses : q # held => report'[q] = report[q]
      BY <2>a, <2>2 DEF Report, IInv, TypeOK
    <3>3. OnePlace'
      BY <2>a, <2>c, <2>2, <3>1, <3>2 DEF IInv, Sound, OnePlace, Distinct
    <3>4. WaitingIsUnused'
      BY <2>a, <2>b, <3>2, <3>r DEF IInv, Sound, WaitingIsUnused
    <3>5. WorkerIsSound' /\ AnsweredWasSent' /\ AnswersFit' /\ GrantedByOperator'
      BY <2>a, <2>c DEF IInv, Sound, WorkerIsSound, AnsweredWasSent, AnswersFit,
         GrantedByOperator
    <3>6. AcksAreTrue'
      BY <2>a, <3>r DEF IInv, Sound, AcksAreTrue
    <3>7. RefusedIsGone'
      BY <2>a, <2>b, <3>2, <3>r DEF IInv, Sound, RefusedIsGone
    <3> QED
      BY <3>3, <3>4, <3>5, <3>6, <3>7 DEF Sound
  <2> QED
    BY <1>2, <2>1, <2>2 DEF Deliver
\* What is reported at the end of a wait or after it.
<1>3. ASSUME NEW says \in {"yes", "no"}, main \in {"wait", "clear"}, Report(held, says),
             UNCHANGED <<requests, worker, turn, taken, answer, granted, sent, inbox, channel,
                         ack>>,
             says = "yes" => ack[held] = "yes",
             says = "no" => held \in Slow \/ ack[held] = "no"
      PROVE  Sound'
  <2>1. held \in Responses
    BY <1>3 DEF IInv, TypeOK
  <2>2. /\ report' \in [Responses -> {"none", "yes", "no"}] /\ main' \in {"idle", "gone"}
        /\ report'[held] \in {says, report[held]}
        /\ \A q \in Responses : q # held => report'[q] = report[q]
    BY <1>3, <2>1 DEF Report, IInv, TypeOK
  <2>3. InChannel' = InChannel /\ \A q \in Responses :
          (Taken(q)' <=> Taken(q)) /\ ~Delivering(q) /\ ~Delivering(q)' /\ (Waiting(q)' <=> Waiting(q))
    BY <1>3, <2>2 DEF InChannel, Taken, Delivering, Waiting
  <2>4. OnePlace'
    BY <1>3, <2>3 DEF IInv, Sound, OnePlace, Distinct
  <2>5. sent[held] # None
    <3>1. main = "clear" => ack[held] = "yes"
      BY DEF IInv, Sound, AcksAreTrue
    <3> QED
      BY <1>3, <2>1, <3>1 DEF IInv, Sound, WaitingIsUnused
  <2>6. WaitingIsUnused'
    BY <1>3, <2>1, <2>2, <2>3, <2>5 DEF IInv, Sound, WaitingIsUnused
  <2>7. WorkerIsSound' /\ AnsweredWasSent' /\ AnswersFit' /\ GrantedByOperator'
    BY <1>3, <2>3 DEF IInv, Sound, WorkerIsSound, AnsweredWasSent, AnswersFit, GrantedByOperator
  <2>8. AcksAreTrue'
    BY <1>3, <2>2 DEF IInv, Sound, AcksAreTrue
  <2>9. RefusedIsGone'
    <3>1. ack[held] = "no" => ~Waiting(held) /\ \A i \in Interactions : answer[i] # held
      BY <2>1 DEF IInv, Sound, WaitingIsUnused
    <3> QED
      BY <1>3, <2>1, <2>2, <2>3, <3>1 DEF IInv, Sound, RefusedIsGone
  <2> QED
    BY <2>4, <2>6, <2>7, <2>8, <2>9 DEF Sound
<1>4. CASE Delivered
  <2>a. /\ main = "wait" /\ held \in Responses
        /\ UNCHANGED <<requests, worker, turn, taken, answer, granted, sent, inbox, channel, ack>>
    BY <1>4 DEF Delivered, IInv, TypeOK
  <2>1. CASE ack[held] = "yes" /\ main' = "clear" /\ UNCHANGED <<held, report>>
    <3>1. InChannel' = InChannel /\ \A q \in Responses :
            (Taken(q)' <=> Taken(q)) /\ ~Delivering(q) /\ ~Delivering(q)' /\ (Waiting(q)' <=> Waiting(q))
      BY <2>a, <2>1 DEF InChannel, Taken, Delivering, Waiting
    <3>2. OnePlace'
      BY <2>a, <3>1 DEF IInv, Sound, OnePlace, Distinct
    <3>3. WaitingIsUnused' /\ AcksAreTrue' /\ RefusedIsGone'
      BY <2>a, <2>1, <3>1 DEF IInv, Sound, WaitingIsUnused, AcksAreTrue, RefusedIsGone
    <3>4. WorkerIsSound' /\ AnsweredWasSent' /\ AnswersFit' /\ GrantedByOperator'
      BY <2>a, <3>1 DEF IInv, Sound, WorkerIsSound, AnsweredWasSent, AnswersFit,
         GrantedByOperator
    <3> QED
      BY <3>2, <3>3, <3>4 DEF Sound
  <2>2. CASE ack[held] = "no" /\ Report(held, "no")
    BY <1>3, <2>a, <2>2
  <2> QED
    BY <1>4, <2>1, <2>2 DEF Delivered
<1>5. CASE DeliveryTimeout
  BY <1>3, <1>5 DEF DeliveryTimeout
<1>6. CASE ClearAccepted
  <2>1. ack[held] = "yes"
    BY <1>6 DEF ClearAccepted, IInv, Sound, AcksAreTrue
  <2> QED
    BY <1>3, <1>6, <2>1 DEF ClearAccepted
<1> QED
  BY <1>1, <1>2, <1>4, <1>5, <1>6

LEMMA RespondStep ==
    ASSUME IInv, NEW r \in Responses, NEW i \in Interactions, NEW says \in Said, Respond(r, i, says)
    PROVE  Sound'
<1> USE DEF WorkerVars, workerVars, mainVars
<1>a. /\ sent[r] = None /\ inbox' = inbox \cup {r}
      /\ UNCHANGED <<requests, worker, turn, taken, answer, granted, channel, ack, main, held,
                     report>>
  BY DEF Respond
<1>b. /\ sent'[r] = [to |-> i, says |-> says] /\ sent'[r] # None
      /\ \A q \in Responses : q # r => sent'[q] = sent[q]
  <2>1. sent'[r] = [to |-> i, says |-> says] /\ \A q \in Responses : q # r => sent'[q] = sent[q]
    BY DEF Respond, IInv, TypeOK
  <2>2. [to |-> i, says |-> says] # None
    BY InteractionAssumption DEF Said
  <2> QED
    BY <2>1, <2>2
<1>c. /\ ~Waiting(r) /\ ack[r] = "none" /\ report[r] = "none"
      /\ \A j \in Interactions : answer[j] # r
  BY <1>a DEF IInv, Sound, WaitingIsUnused
<1>d. InChannel' = InChannel /\ \A q \in Responses :
        /\ (Taken(q)' <=> Taken(q)) /\ (Delivering(q)' <=> Delivering(q))
        /\ (Waiting(q)' <=> Waiting(q) \/ q = r)
  BY <1>a DEF InChannel, Taken, Delivering, Waiting
<1>1. OnePlace'
  BY <1>a, <1>c, <1>d DEF IInv, Sound, OnePlace, Distinct, Waiting
<1>2. WaitingIsUnused'
  BY <1>a, <1>b, <1>c, <1>d DEF IInv, Sound, WaitingIsUnused
<1>3. WorkerIsSound'
  BY <1>a, <1>b, <1>c, <1>d DEF IInv, Sound, WorkerIsSound, Waiting
<1>4. AcksAreTrue'
  <2>1. main = "clear" => held \in Responses
    BY DEF IInv, TypeOK
  <2> QED
    BY <1>a, <1>b, <1>c, <2>1 DEF IInv, Sound, AcksAreTrue
<1>5. RefusedIsGone'
  BY <1>a, <1>c, <1>d DEF IInv, Sound, RefusedIsGone
<1>6. AnsweredWasSent' /\ AnswersFit'
  BY <1>a, <1>b, <1>c DEF IInv, Sound, AnsweredWasSent, AnswersFit
<1>7. GrantedByOperator'
  BY <1>a, <1>b, <1>c DEF IInv, TypeOK, Sound, GrantedByOperator
<1> QED
  BY <1>1, <1>2, <1>3, <1>4, <1>5, <1>6, <1>7 DEF Sound

LEMMA Inductive == IInv /\ [Next]_vars => IInv'
<1> SUFFICES ASSUME IInv, [Next]_vars PROVE Sound'
  BY TypeStep DEF IInv, Sound
<1> USE DEF Rest, WorkerVars, workerVars, mainVars
<1>1. CASE UNCHANGED vars \/ Ended \/ TimePasses \/ DeadlinePasses
  BY <1>1, QuietStep DEF vars, Ended, TimePasses, DeadlinePasses
<1>2. CASE DispatchEvent \/ Finish \/ CancelTurn
  BY <1>2, QuietStep DEF DispatchEvent, Finish, CancelTurn
<1> QED
  BY <1>1, <1>2, WorkerStep, MainStep, RespondStep DEF Next, Main
-----------------------------------------------------------------------------
\* The inductive invariant, for any number of interactions and responses.
THEOREM Invariant == Spec => []IInv
<1> QED
  BY InitIInv, Inductive, PTL DEF Spec

\* Every variable keeps to its values.
THEOREM TypeCorrect == Spec => []TypeOK
<1>1. IInv => TypeOK
  BY DEF IInv
<1> QED
  BY <1>1, Invariant, PTL

\* The app-server is answered with what was said to that very request.
THEOREM AnswersStayTheirs == Spec => []AnswersFit
<1>1. IInv => AnswersFit
  BY DEF IInv, Sound
<1> QED
  BY <1>1, Invariant, PTL

\* A response reported as accepted is the one the app-server was answered with.
THEOREM AcceptedWasUsed == Spec => []AcceptedIsAnswered
<1>1. IInv => AcceptedIsAnswered
  BY DEF IInv, Sound, AcksAreTrue, AcceptedIsAnswered
<1> QED
  BY <1>1, Invariant, PTL

\* Unless the ten seconds passed, a response reported as refused was not used.
THEOREM RefusedWasNotUsed == Spec => []RefusedIsUnused
<1>1. IInv => RefusedIsUnused
  BY DEF IInv, Sound, RefusedIsGone, RefusedIsUnused
<1> QED
  BY <1>1, Invariant, PTL

\* Permissions are granted on an operator's accept for that request alone.
THEOREM GrantsAreOperators == Spec => []GrantedByOperator
<1>1. IInv => GrantedByOperator
  BY DEF IInv, Sound
<1> QED
  BY <1>1, Invariant, PTL
-----------------------------------------------------------------------------
(* What the limits of the turn answered is told.                           *)

Received(i) == [kind |-> "received", of |-> i]

\* Unless the turn is cancelled or the connector gone, an answer by a limit is
\* told, or its event is in the channel, or the worker is about to send it; and
\* the connector's thread is not done before the worker has ended and the
\* channel is empty.
ToldInv ==
  /\ main = "join" => cancel
  /\ main = "done" => worker = "ended" /\ (cancel \/ events = <<>>)
  /\ \A i \in Interactions : answer[i] = "auto" =>
       \/ cancel \/ main = "gone"
       \/ Received(i) \in dispatched \cup ElementsOf(events)
       \/ worker = "ack" /\ taken = "auto" /\ turn = i

LEMMA RangeGrows ==
    ASSUME NEW S, NEW s \in Seq(S), NEW e \in S, NEW x
    PROVE  x \in ElementsOf(Append(s, e)) <=> x \in ElementsOf(s) \/ x = e
<1>1. /\ Len(Append(s, e)) = Len(s) + 1 /\ Append(s, e)[Len(s) + 1] = e
      /\ \A k \in 1..Len(s) : Append(s, e)[k] = s[k]
  OBVIOUS
<1>2. Len(s) \in Nat
  OBVIOUS
<1> QED
  BY <1>1, <1>2 DEF ElementsOf

LEMMA RangeShrinks ==
    ASSUME NEW S, NEW s \in Seq(S), s # <<>>, NEW x \in ElementsOf(s), x # Head(s)
    PROVE  x \in ElementsOf(Tail(s))
<1>1. PICK k \in 1..Len(s) : x = s[k]
  BY DEF ElementsOf
<1>2. k - 1 \in 1..Len(Tail(s)) /\ Tail(s)[k - 1] = x
  BY <1>1
<1> QED
  BY <1>2 DEF ElementsOf

\* The worker sends an event of every answer it gives by a limit.
LEMMA WorkerTells ==
    ASSUME IInv, ToldInv, Worker
    PROVE  ToldInv'
<1> USE DEF Rest, mainVars
<1>t. TypeOK /\ WorkerIsSound
  BY DEF IInv, Sound
<1>0. worker # "ended" /\ main # "done" /\ UNCHANGED <<main, cancel, dispatched>>
  <2>1. worker # "ended"
    BY DEF Worker, EndTurn, RejectRequest, ReadRequest, SendRequested, CheckBudget,
       TakeDelivery,
       NothingQueued, CheckLimit, WaitEnds, ChannelCloses, Step, ClearActive, SendAnswer,
       Acknowledge
  <2>2. UNCHANGED <<main, cancel, dispatched>>
    BY DEF Worker, EndTurn, RejectRequest, ReadRequest, SendRequested, CheckBudget,
       TakeDelivery,
       NothingQueued, CheckLimit, WaitEnds, ChannelCloses, Step, ClearActive, SendAnswer,
       Acknowledge
  <2> QED
    BY <2>1, <2>2 DEF ToldInv
\* It is enough to look at the answers.
<1>w. ASSUME \A i \in Interactions : answer'[i] = "auto" =>
               \/ cancel \/ main = "gone"
               \/ Received(i) \in dispatched \cup ElementsOf(events')
               \/ worker' = "ack" /\ taken' = "auto" /\ turn' = i
      PROVE  ToldInv'
  BY <1>0, <1>w DEF ToldInv
<1>1. CASE SendAnswer
  <2>1. CASE answer' = [answer EXCEPT ![turn] = taken] /\ worker' = "ack" /\ UNCHANGED <<turn, taken>>
    BY <1>1, <1>t, <1>w, <2>1 DEF SendAnswer, ToldInv, TypeOK
  <2>2. CASE UNCHANGED answer
    BY <1>1, <1>w, <2>2 DEF SendAnswer, ToldInv
  <2> QED
    BY <1>1, <2>1, <2>2 DEF SendAnswer
<1>2. CASE Acknowledge
  <2>3. CASE main = "gone"
    <3>1. answer' = answer
      BY <1>2 DEF Acknowledge
    <3> QED
      BY <1>w, <2>3, <3>1
  <2>1. CASE taken = "auto" /\ main # "gone"
    <3>1. Received(turn) \in Event /\ events' = Append(events, Received(turn)) /\ answer' = answer
      BY <1>2, <1>t, <2>1 DEF Acknowledge, WorkerIsSound, Received, Event
    <3>2. \A x : x \in ElementsOf(events') <=> x \in ElementsOf(events) \/ x = Received(turn)
      BY <1>t, <3>1, RangeGrows DEF TypeOK
    <3> QED
      BY <1>w, <3>1, <3>2 DEF ToldInv
  <2>2. CASE taken # "auto"
    BY <1>2, <1>w, <2>2 DEF Acknowledge, ToldInv
  <2> QED
    BY <2>1, <2>2, <2>3
<1>3. CASE SendRequested
  <2>1. answer' = answer /\ worker # "ack"
    BY <1>3 DEF SendRequested
  <2>2. CASE UNCHANGED events
    BY <1>w, <2>1, <2>2 DEF ToldInv
  <2>3. CASE events' = Append(events, [kind |-> "requested", of |-> turn])
    <3>1. [kind |-> "requested", of |-> turn] \in Event
      BY <1>3, <1>t DEF SendRequested, WorkerIsSound, Event
    <3>2. \A x : x \in ElementsOf(events) => x \in ElementsOf(events')
      BY <1>t, <2>3, <3>1, RangeGrows DEF TypeOK
    <3> QED
      BY <1>w, <2>1, <3>2 DEF ToldInv
  <2> QED
    BY <1>3, <2>2, <2>3 DEF SendRequested
<1>4. CASE \/ EndTurn \/ (\E i \in Interactions : RejectRequest(i) \/ ReadRequest(i))
           \/ CheckBudget \/ TakeDelivery \/ NothingQueued \/ CheckLimit \/ WaitEnds
           \/ ChannelCloses \/ ClearActive
  <2>1. answer' = answer /\ events' = events /\ worker # "ack"
    BY <1>4 DEF EndTurn, RejectRequest, ReadRequest, CheckBudget, TakeDelivery, NothingQueued,
       CheckLimit, WaitEnds, ChannelCloses, Step, ClearActive
  <2> QED
    BY <1>w, <2>1 DEF ToldInv
<1> QED
  BY <1>1, <1>2, <1>3, <1>4 DEF Worker

\* The connector's thread loses an event only in cancelling the turn or in
\* leaving it.
LEMMA OthersTell ==
    ASSUME IInv, ToldInv, [Next]_vars, ~Worker
    PROVE  ToldInv'
<1> USE DEF WorkerVars, workerVars, mainVars
<1>t. TypeOK
  BY DEF IInv
<1>1. CASE DispatchEvent
  <2>1. /\ main = "idle" /\ events # <<>> /\ events' = Tail(events)
        /\ UNCHANGED <<answer, worker, taken, turn>>
    BY <1>1 DEF DispatchEvent
  <2>2. CASE main' = "join" /\ cancel' = TRUE
    BY <2>1, <2>2 DEF ToldInv
  <2>3. CASE dispatched' = dispatched \cup {Head(events)} /\ UNCHANGED <<main, cancel>>
    <3>1. \A x : x \in dispatched \cup ElementsOf(events) => x \in dispatched' \cup ElementsOf(events')
      BY <1>t, <2>1, <2>3, RangeShrinks DEF TypeOK
    <3> QED
      BY <2>1, <2>3, <3>1 DEF ToldInv
  <2>4. CASE main' = "gone"
    BY <2>1, <2>4 DEF ToldInv
  <2> QED
    BY <1>1, <2>2, <2>3, <2>4 DEF DispatchEvent
<1>2. CASE Finish
  BY <1>2 DEF Finish, ToldInv
<1>3. CASE CancelTurn
  BY <1>3 DEF CancelTurn, ToldInv
<1>4. ASSUME UNCHANGED <<answer, worker, taken, turn, events, dispatched, cancel>>,
             main' = main \/ main' \notin {"join", "done"}, main # "gone" \/ main' = "gone"
      PROVE  ToldInv'
  BY <1>4 DEF ToldInv
<1>5. CASE UNCHANGED vars
  BY <1>4, <1>5 DEF vars
<1>6. CASE \/ (\E r \in Responses : ReadResponse(r))
           \/ Deliver \/ Delivered \/ DeliveryTimeout \/ ClearAccepted
  BY <1>4, <1>6 DEF ReadResponse, Deliver, Delivered, DeliveryTimeout, ClearAccepted, Report
<1>7. CASE TimePasses \/ DeadlinePasses \/ Ended
  BY <1>4, <1>7 DEF TimePasses, DeadlinePasses, Ended, Rest, vars
<1>8. CASE \E r \in Responses, i \in Interactions, says \in Said : Respond(r, i, says)
  BY <1>4, <1>8 DEF Respond
<1> QED
  BY <1>1, <1>2, <1>3, <1>5, <1>6, <1>7, <1>8 DEF Next, Main

LEMMA InitTells == Init => ToldInv
BY DEF Init, ToldInv

\* What operators and limits answered is theirs: a request gets only what was
\* said to it, permissions only the operator's accept, and when the connector
\* has the result of a turn that was not cancelled the control plane knows of
\* every answer that a limit gave.
THEOREM AnswersAreTheirOwn == Spec => []AnswersAreTheirs
<1>1. Init => IInv /\ ToldInv
  BY InitIInv, InitTells
<1>2. IInv /\ ToldInv /\ [Next]_vars => (IInv /\ ToldInv)'
  BY Inductive, WorkerTells, OthersTell
<1>3. IInv /\ ToldInv => AnswersAreTheirs
  <2> SUFFICES ASSUME IInv, ToldInv PROVE AnswersAreTheirs
    OBVIOUS
  <2>1. AnswersFit /\ GrantedByOperator
    BY DEF IInv, Sound
  <2>2. AutoAnswersAreTold
    <3>1. ASSUME main = "done", ~cancel PROVE ElementsOf(events) = {} /\ worker # "ack"
      BY <3>1 DEF ToldInv, ElementsOf
    <3> QED
      BY <3>1 DEF ToldInv, AutoAnswersAreTold, Received
  <2> QED
    BY <2>1, <2>2 DEF AnswersAreTheirs
<1> QED
  BY <1>1, <1>2, <1>3, PTL DEF Spec

-----------------------------------------------------------------------------
(* A turn of an app-server, and a run of the CLI, for any values of their   *)
(* constants: k is a record of them.                                        *)

Turn(k) == INSTANCE AppServerTurn
  WITH pc <- step, cancel <- cancelled, late <- expired, interrupted <- halted,
       sent <- messages, turn <- status,
       Deltas <- k.deltas, OutputMax <- k.outputMax, MaxMessages <- k.messages, Early <- k.early
Cli(k) == INSTANCE ExecProcess
  WITH pc <- stage, sent <- written, cancel <- killed, events <- lines,
       Prompt <- k.prompt, PipeSize <- k.pipe, OutputCap <- k.cap, Timeout <- k.timeout,
       MaxOutput <- k.output, Heirs <- k.heirs

-----------------------------------------------------------------------------
(* Numbers.                                                                *)

\* A set of numbers that is not empty has a least.
LEMMA LeastOf ==
    ASSUME NEW T \in SUBSET Nat, T # {}
    PROVE  \E x \in T : \A y \in T : x <= y
<1> DEFINE R == {ss \in Nat \X Nat : ss[1] < ss[2]}
<1>1. IsWellFoundedOn(R, Nat)
  BY NatLessThanWellFounded DEF OpToRel
<1> HIDE DEF R
<1>2. PICK x \in T : \A y \in T : ~(<<y, x>> \in R)
  BY <1>1, WFMin
<1>3. \A y \in T : ~(y < x)
  BY <1>2 DEF R
<1> QED
  BY <1>3

Largest(S) == CHOOSE x \in S : \A y \in S : x >= y

\* A bounded set of numbers that is not empty has its largest.
LEMMA MaxOf ==
    ASSUME NEW T \in SUBSET Nat, T # {}, NEW n \in Nat, \A x \in T : x <= n
    PROVE  Largest(T) \in T /\ \A x \in T : x <= Largest(T)
<1> DEFINE U == {k \in Nat : \A x \in T : x <= k}
<1>1. U # {} /\ U \in SUBSET Nat
  OBVIOUS
<1>2. PICK m \in U : \A k \in U : m <= k
  BY <1>1, LeastOf
<1>3. m \in T
  <2> SUFFICES ASSUME m \notin T PROVE FALSE
    OBVIOUS
  <2>1. \A x \in T : x < m
    <3>1. m \in Nat /\ \A x \in T : x <= m /\ x \in Nat
      BY <1>2
    <3>2. \A x \in T : x # m
      OBVIOUS
    <3> QED
      BY <3>1, <3>2
  <2>2. m \in Nat /\ m > 0
    <3>1. PICK x \in T : x \in Nat
      OBVIOUS
    <3>2. x < m /\ m \in Nat
      BY <2>1, <1>2
    <3> QED
      BY <3>1, <3>2
  <2>3. m - 1 \in Nat /\ \A x \in T : x <= m - 1
    BY <2>1, <2>2
  <2>4. m - 1 \in U
    BY <2>3
  <2>5. m <= m - 1
    BY <2>4, <1>2
  <2> QED
    BY <2>2, <2>5
<1>4. \E x \in T : \A y \in T : x >= y
  BY <1>2, <1>3
<1> QED
  BY <1>4 DEF Largest

-----------------------------------------------------------------------------
(* The turn.                                                                *)

\* The beginning of a piece of text that is kept fits.
LEMMA FittingFits ==
    ASSUME NEW k, Turn(k)!TurnAssumption, NEW d \in k.deltas, output \in Nat, output <= k.outputMax
    PROVE  Turn(k)!Fitting(d) \in Nat /\ output + Turn(k)!Fitting(d) <= k.outputMax
<1> DEFINE r == k.outputMax - output
           T == {n \in d : n <= r}
<1>1. d \subseteq Nat /\ 0 \in d /\ k.outputMax \in Nat
  BY DEF Turn!TurnAssumption
<1>2. r \in Nat
  BY <1>1
<1>3. Turn(k)!Fitting(d) = Largest(T)
  BY DEF Turn!Fitting, Largest, Turn!Max
<1> HIDE DEF r
<1>4. T \in SUBSET Nat /\ 0 \in T /\ \A n \in T : n <= r
  <2>1. \A n \in d : n \in Nat
    BY <1>1
  <2>2. \A n \in T : n \in Nat /\ n <= r
    BY <2>1
  <2>3. 0 \in T
    BY <1>1, <1>2
  <2> QED
    BY <2>2, <2>3
<1> HIDE DEF T
<1>5. Largest(T) \in T
  BY <1>2, <1>4, MaxOf
<1>6. Largest(T) \in Nat /\ Largest(T) <= r
  BY <1>4, <1>5
<1> QED
  BY <1>1, <1>3, <1>6 DEF r

-----------------------------------------------------------------------------
\* What a message that is on its way says is so: an end that it tells is that
\* of the turn.
Tells(k, m) ==
    /\ m.kind = "completed" /\ m.of = "mine" => status = m.what /\ m.what \in Turn(k)!Ends
    /\ m.kind = "error" /\ m.of = "mine" /\ m.what = "fatal" => status = "failed"
    /\ m.kind = "started" /\ m.what \in Turn(k)!Terminal => status = m.what

TurnInv(k) ==
    /\ Turn(k)!TypeOK /\ output <= k.outputMax
    /\ \A i \in 1 .. Len(toClient) : Tells(k, toClient[i])
    /\ result = "finished" => status = "completed"
    /\ result = "failed" => status \in Turn(k)!Ends \ {"completed"}

LEMMA TurnStart == ASSUME NEW k, Turn(k)!TurnAssumption, Turn(k)!Init PROVE TurnInv(k)
<1>1. toClient = <<>> /\ toServer = <<>> /\ output = 0 /\ messages = 0 /\ k.outputMax \in Nat /\ k.messages \in Nat
  BY DEF Turn!Init, Turn!TurnAssumption
<1>2. toServer \in Seq({"start", "interrupt"}) /\ toClient \in Seq(Turn(k)!Message)
  BY <1>1
<1>4. {cancelled, expired, stopLate, halted, told} \subseteq BOOLEAN
  BY DEF Turn!Init
<1>5. (result = "none") = (step # "done")
  BY DEF Turn!Init
<1>6. /\ step = "connect" /\ result = "none" /\ stop = "none" /\ status = "none"
  BY DEF Turn!Init
<1>3. Turn(k)!TypeOK
  BY <1>1, <1>2, <1>4, <1>5, <1>6 DEF Turn!TypeOK
<1> QED
  BY <1>1, <1>3 DEF TurnInv, Turn!Init

\* A queue that loses its first message still tells the truth, and the message
\* has a type.
LEMMA ReadTells ==
    ASSUME NEW k, TurnInv(k), Turn(k)!Read
    PROVE  /\ Turn(k)!Got \in Turn(k)!Message /\ Tells(k, Turn(k)!Got)
           /\ toClient' \in Seq(Turn(k)!Message)
           /\ \A i \in 1 .. Len(toClient') : Tells(k, toClient'[i])
<1>1. toClient \in Seq(Turn(k)!Message) /\ toClient # <<>> /\ toClient' = Tail(toClient)
  BY DEF TurnInv, Turn!TypeOK, Turn!Read
<1>2. /\ Head(toClient) = toClient[1] /\ toClient[1] \in Turn(k)!Message /\ Len(toClient) \in Nat
      /\ Len(toClient) >= 1
  BY <1>1
<1>3. /\ Tail(toClient) \in Seq(Turn(k)!Message) /\ Len(Tail(toClient)) = Len(toClient) - 1
      /\ \A i \in 1 .. Len(Tail(toClient)) : Tail(toClient)[i] = toClient[i + 1]
  BY <1>1, HeadTailProperties
<1> QED
  BY <1>1, <1>2, <1>3 DEF TurnInv, Turn!Got

\* What the worker does not read, it leaves as it was.
LEMMA TellsAlong ==
    ASSUME NEW k, TurnInv(k), UNCHANGED <<toClient, status>>
    PROVE  (\A i \in 1 .. Len(toClient) : Tells(k, toClient[i]))'
BY DEF TurnInv, Tells

\* A message that is sent and tells the truth.
LEMMA SentTells ==
    ASSUME NEW k, TurnInv(k), NEW m \in Turn(k)!Message, toClient' = Append(toClient, m),
           \/ UNCHANGED status
           \/ status \notin Turn(k)!Ends,
           Tells(k, m)'
    PROVE  /\ toClient' \in Seq(Turn(k)!Message)
           /\ (\A i \in 1 .. Len(toClient) : Tells(k, toClient[i]))'
<1>1. toClient \in Seq(Turn(k)!Message) /\ \A i \in 1 .. Len(toClient) : Tells(k, toClient[i])
  BY DEF TurnInv, Turn!TypeOK
<1> DEFINE TellsThen(x) ==
             /\ x.kind = "completed" /\ x.of = "mine" => status' = x.what /\ x.what \in Turn(k)!Ends
             /\ x.kind = "error" /\ x.of = "mine" /\ x.what = "fatal" => status' = "failed"
             /\ x.kind = "started" /\ x.what \in Turn(k)!Terminal => status' = x.what
<1>2. \A i \in 1 .. Len(toClient) : TellsThen(toClient[i])
  BY <1>1 DEF Tells, Turn!Ends, Turn!Terminal
<1>3. /\ toClient' \in Seq(Turn(k)!Message) /\ Len(toClient') = Len(toClient) + 1
      /\ \A i \in 1 .. Len(toClient') : toClient'[i] = IF i <= Len(toClient) THEN toClient[i] ELSE m
  BY <1>1
<1>4. TellsThen(m)
  BY DEF Tells
<1>5. \A i \in 1 .. Len(toClient') : TellsThen(toClient'[i])
  BY <1>1, <1>2, <1>3, <1>4
<1> QED
  BY <1>3, <1>5 DEF Tells

\* What the worker ends with, but for an end of the turn.
LEMMA Interruptions ==
    ASSUME NEW k, TurnInv(k)
    PROVE  /\ Turn(k)!Interruption \in {"none", "cancelled", "timed out"}
           /\ stop \in {"none", "cancelled", "timed out"}
BY DEF TurnInv, Turn!TypeOK, Turn!Interruption

\* The types of a step of the worker that leaves the app-server alone.
LEMMA WorkerTypes ==
    ASSUME NEW k, TurnInv(k), UNCHANGED <<cancelled, expired, stopLate, status, told, messages>>,
           step' \in {"connect", "resume", "start", "await", "turn", "done"},
           result' \in Turn(k)!Results \cup {"none"}, (result' = "none") = (step' # "done"),
           stop' \in {"none", "cancelled", "timed out"},
           output' \in Nat, halted' \in BOOLEAN, toServer' \in Seq({"start", "interrupt"}),
           toClient' \in Seq(Turn(k)!Message)
    PROVE  Turn(k)!TypeOK'
BY DEF TurnInv, Turn!TypeOK

\* The steps before the turn is known, and those that end it without a message.
LEMMA QuietTurn ==
    ASSUME NEW k, TurnInv(k),
           \/ Turn(k)!Prepare \/ Turn(k)!StartTurn \/ Turn(k)!NoteInterruption \/ Turn(k)!GiveUpStart
           \/ Turn(k)!EndByInterrupt
    PROVE  TurnInv(k)'
<1>1. /\ UNCHANGED <<cancelled, expired, stopLate, status, told, messages, output, toClient>>
      /\ step # "done"
  BY DEF Turn!Prepare, Turn!StartTurn, Turn!NoteInterruption, Turn!GiveUpStart,
     Turn!EndByInterrupt,
         Turn!Clocks, Turn!serverVars
<1>2. /\ stop' \in {"none", "cancelled", "timed out"}
      /\ step' \in {"connect", "resume", "start", "await", "turn", "done"}
      /\ result' \in {"none", "cancelled", "timed out", "other"}
      /\ (result' = "none") = (step' # "done")
  <2>1. result = "none" /\ stop \in {"none", "cancelled", "timed out"}
    BY <1>1 DEF TurnInv, Turn!TypeOK
  <2>2. CASE Turn(k)!Prepare
    BY <2>1, <2>2, Interruptions DEF Turn!Prepare, Turn!Request, Turn!Done
  <2>3. CASE Turn(k)!StartTurn
    BY <2>1, <2>3, Interruptions DEF Turn!StartTurn, Turn!Done
  <2>4. CASE Turn(k)!NoteInterruption
    BY <2>1, <2>4, Interruptions DEF Turn!NoteInterruption
  <2>5. CASE Turn(k)!GiveUpStart
    BY <2>1, <2>5 DEF Turn!GiveUpStart, Turn!Done
  <2>6. CASE Turn(k)!EndByInterrupt
    BY <2>1, <2>6, Interruptions DEF Turn!EndByInterrupt, Turn!Done
  <2> QED
    BY <2>2, <2>3, <2>4, <2>5, <2>6
<1>3. halted' \in BOOLEAN
  BY DEF TurnInv, Turn!TypeOK, Turn!Prepare, Turn!StartTurn,
     Turn!NoteInterruption, Turn!GiveUpStart,
         Turn!EndByInterrupt, Turn!NoInterrupt, Turn!SendInterrupt
<1>4. toServer' \in Seq({"start", "interrupt"})
  <2>1. toServer \in Seq({"start", "interrupt"})
    BY DEF TurnInv, Turn!TypeOK
  <2>2. toServer' \in {toServer, Append(toServer, "start"), Append(toServer, "interrupt")}
    BY DEF Turn!Prepare, Turn!StartTurn, Turn!NoteInterruption, Turn!GiveUpStart,
           Turn!EndByInterrupt, Turn!NoInterrupt, Turn!SendInterrupt
  <2> QED
    BY <2>1, <2>2
<1>5. Turn(k)!TypeOK'
  <2>1. output \in Nat /\ toClient \in Seq(Turn(k)!Message)
    BY DEF TurnInv, Turn!TypeOK
  <2> QED
    BY <1>1, <1>2, <1>3, <1>4, <2>1, WorkerTypes DEF Turn!Results
<1>6. (\A i \in 1 .. Len(toClient) : Tells(k, toClient[i]))'
  BY <1>1, TellsAlong
<1> QED
  BY <1>1, <1>2, <1>5, <1>6 DEF TurnInv

\* The ends that a message brings.
LEMMA ResultTells ==
    ASSUME NEW k, NEW s \in Turn(k)!Ends, status = s
    PROVE  /\ Turn(k)!ResultOf(s) \in {"finished", "failed"}
           /\ Turn(k)!ResultOf(s) = "finished" => status = "completed"
           /\ Turn(k)!ResultOf(s) = "failed" => status \in Turn(k)!Ends \ {"completed"}
BY DEF Turn!ResultOf

\* The steps that read a message.
LEMMA ReadStep ==
    ASSUME NEW k, Turn(k)!TurnAssumption, TurnInv(k), Turn(k)!ReadStartResponse \/ Turn(k)!ReadMessage
    PROVE  TurnInv(k)'
<1>1. /\ UNCHANGED <<cancelled, expired, stopLate, status, told, messages, stop>> /\ Turn(k)!Read
      /\ step \in {"await", "turn"}
  BY DEF Turn!ReadStartResponse, Turn!ReadMessage, Turn!Clocks, Turn!serverVars
<1>2. /\ Turn(k)!Got \in Turn(k)!Message /\ Tells(k, Turn(k)!Got) /\ toClient' \in Seq(Turn(k)!Message)
      /\ \A i \in 1 .. Len(toClient') : Tells(k, toClient'[i])
  BY <1>1, ReadTells
<1>3. (\A i \in 1 .. Len(toClient) : Tells(k, toClient[i]))'
  BY <1>1, <1>2 DEF Tells
<1>4. halted' \in BOOLEAN /\ toServer' \in Seq({"start", "interrupt"})
  <2>1. toServer \in Seq({"start", "interrupt"})
    BY DEF TurnInv, Turn!TypeOK
  <2>2. toServer' \in {toServer, Append(toServer, "interrupt")}
    BY DEF Turn!ReadStartResponse, Turn!ReadMessage, Turn!NoInterrupt,
       Turn!SendInterrupt
  <2>3. halted' \in BOOLEAN
    BY DEF TurnInv, Turn!TypeOK, Turn!ReadStartResponse, Turn!ReadMessage,
       Turn!NoInterrupt,
           Turn!SendInterrupt
  <2> QED
    BY <2>1, <2>2, <2>3
<1>5. result = "none" /\ stop \in {"none", "cancelled", "timed out"}
  BY <1>1 DEF TurnInv, Turn!TypeOK
<1>6. output' \in Nat /\ output' <= k.outputMax
  <2>1. output \in Nat /\ output <= k.outputMax
    BY DEF TurnInv, Turn!TypeOK
  <2>2. CASE Turn(k)!ReadStartResponse
    BY <2>1, <2>2 DEF Turn!ReadStartResponse
  <2>3. CASE Turn(k)!ReadMessage
    <3>1. output' = Turn(k)!Kept
      BY <2>3 DEF Turn!ReadMessage
    <3>2. Turn(k)!Got.kind = "delta" => Turn(k)!Got.what \in k.deltas
      BY <1>2 DEF Turn!Message
    <3> QED
      BY <2>1, <3>1, <3>2, FittingFits DEF Turn!Kept
  <2> QED
    BY <2>2, <2>3
<1>7. /\ step' \in {"await", "turn", "done"} /\ result' \in Turn(k)!Results \cup {"none"}
      /\ (result' = "none") = (step' # "done")
      /\ result' = "finished" => status = "completed"
      /\ result' = "failed" => status \in Turn(k)!Ends \ {"completed"}
  <2>1. CASE Turn(k)!ReadStartResponse
    <3>1. CASE UNCHANGED <<step, result>>
      BY <1>1, <1>5, <3>1
    <3>2. CASE \E how \in {"other", "cancelled", "timed out"} : Turn(k)!Done(how)
      BY <3>2 DEF Turn!Done, Turn!Results
    <3>3. CASE Turn(k)!Got.kind = "started" /\ Turn(k)!Begun(Turn(k)!Got.what)
      <4>1. CASE Turn(k)!Got.what \in Turn(k)!Terminal
        <5>1. status = Turn(k)!Got.what /\ Turn(k)!Got.what \in Turn(k)!Ends
          BY <1>2, <3>3, <4>1 DEF Tells, Turn!Ends, Turn!Terminal
        <5>2. step' = "done" /\ result' = Turn(k)!ResultOf(Turn(k)!Got.what)
          BY <3>3, <4>1 DEF Turn!Begun, Turn!Done
        <5> QED
          BY <5>1, <5>2, ResultTells DEF Turn!Results
      <4>2. CASE Turn(k)!Got.what \notin Turn(k)!Terminal
        BY <1>5, <3>3, <4>2 DEF Turn!Begun
      <4> QED
        BY <4>1, <4>2
    <3> QED
      BY <1>5, <2>1, <3>1, <3>2, <3>3 DEF Turn!ReadStartResponse
  <2>2. CASE Turn(k)!ReadMessage
    <3>1. CASE UNCHANGED <<step, result>>
      BY <1>1, <1>5, <3>1
    <3>2. CASE \E how \in {"other", "cancelled", "timed out"} : Turn(k)!Done(how)
      BY <3>2 DEF Turn!Done, Turn!Results
    <3>3. CASE Turn(k)!Got.kind = "completed" /\ Turn(k)!Ours /\ Turn(k)!Done(Turn(k)!ResultOf(Turn(k)!Got.what))
      <4>1. status = Turn(k)!Got.what /\ Turn(k)!Got.what \in Turn(k)!Ends
        BY <1>2, <3>3 DEF Tells, Turn!Ours
      <4>2. step' = "done" /\ result' = Turn(k)!ResultOf(Turn(k)!Got.what)
        BY <3>3 DEF Turn!Done
      <4> QED
        BY <4>1, <4>2, ResultTells DEF Turn!Results
    <3> QED
      BY <2>2, <3>1, <3>2, <3>3, Interruptions DEF Turn!ReadMessage
  <2> QED
    BY <2>1, <2>2
<1>8. Turn(k)!TypeOK'
  BY <1>1, <1>2, <1>4, <1>5, <1>6, <1>7, WorkerTypes
<1> QED
  BY <1>1, <1>3, <1>6, <1>7, <1>8 DEF TurnInv

\* The types of a step of the app-server.
LEMMA ServerTypes ==
    ASSUME NEW k, TurnInv(k), UNCHANGED <<step, result, stop, output, halted, cancelled,
                                          expired, stopLate>>,
           toServer' \in Seq({"start", "interrupt"}), toClient' \in Seq(Turn(k)!Message),
           messages' \in 0 .. k.messages,
           status' \in {"none", "running"} \cup Turn(k)!Ends, told' \in BOOLEAN
    PROVE  Turn(k)!TypeOK'
BY DEF TurnInv, Turn!TypeOK

\* A request that the app-server takes leaves a queue of requests.
LEMMA TakenIn ==
    ASSUME NEW k, TurnInv(k), toServer # <<>>
    PROVE  Tail(toServer) \in Seq({"start", "interrupt"})
<1>1. toServer \in Seq({"start", "interrupt"})
  BY DEF TurnInv, Turn!TypeOK
<1> QED
  BY <1>1, HeadTailProperties

\* The message is on its way, or none is, and the turn goes on as it says.
LEMMA ServerStep ==
    ASSUME NEW k, TurnInv(k), UNCHANGED <<step, result, stop, output, halted, cancelled,
                                          expired, stopLate>>,
           toServer' \in Seq({"start", "interrupt"}),
           messages' \in 0 .. k.messages,
           status' \in {"none", "running"} \cup Turn(k)!Ends, told' \in BOOLEAN,
           UNCHANGED status \/ status \notin Turn(k)!Ends,
           \/ UNCHANGED toClient /\ (UNCHANGED status \/ status' \notin Turn(k)!Ends)
           \/ \E m \in Turn(k)!Message : toClient' = Append(toClient, m) /\ Tells(k, m)'
    PROVE  TurnInv(k)'
<1>1. /\ toClient' \in Seq(Turn(k)!Message)
      /\ (\A i \in 1 .. Len(toClient) : Tells(k, toClient[i]))'
  <2>1. CASE UNCHANGED toClient /\ (UNCHANGED status \/ status' \notin Turn(k)!Ends)
    BY <2>1 DEF TurnInv, Turn!TypeOK, Tells, Turn!Ends, Turn!Terminal
  <2>2. CASE \E m \in Turn(k)!Message : toClient' = Append(toClient, m) /\ Tells(k, m)'
    BY <2>2, SentTells
  <2> QED
    BY <2>1, <2>2
<1>2. Turn(k)!TypeOK'
  BY <1>1, ServerTypes
<1> QED
  BY <1>1, <1>2 DEF TurnInv, Turn!Ends

LEMMA AppServerStep ==
    ASSUME NEW k, Turn(k)!TurnAssumption, TurnInv(k),
           \/ Turn(k)!AnswerStart \/ Turn(k)!TellStarted \/ Turn(k)!Chatter \/ Turn(k)!FatalError
           \/ Turn(k)!HandleInterrupt \/ Turn(k)!Close
           \/ \E end \in Turn(k)!Ends : Turn(k)!EndTurn(end)
    PROVE  TurnInv(k)'
<1> USE DEF Turn!workerVars, Turn!Clocks, Turn!Msg
<1>1. /\ UNCHANGED <<step, result, stop, output, halted, cancelled, expired, stopLate>>
  BY DEF Turn!AnswerStart, Turn!TellStarted, Turn!Chatter, Turn!FatalError,
     Turn!HandleInterrupt,
         Turn!Close, Turn!EndTurn
<1>2. /\ toServer \in Seq({"start", "interrupt"}) /\ messages \in 0 .. k.messages
      /\ status \in {"none", "running"} \cup Turn(k)!Ends /\ told \in BOOLEAN
      /\ k.messages \in Nat
  BY DEF TurnInv, Turn!TypeOK, Turn!TurnAssumption
<1>3. CASE Turn(k)!AnswerStart
  <2>1. /\ status = "none" /\ toServer # <<>> /\ toServer' = Tail(toServer) /\ messages' = messages
    BY <1>3 DEF Turn!AnswerStart, Turn!Send
  <2>2. toServer' \in Seq({"start", "interrupt"})
    BY <2>1, TakenIn
  <2>3. CASE status' = "running" /\ told' = FALSE /\ UNCHANGED <<toClient, messages>>
    BY <1>1, <1>2, <2>1, <2>2, <2>3, ServerStep DEF Turn!Ends
  <2>4. CASE /\ status' \in {"completed", "failed"} /\ told' = TRUE
             /\ toClient' = Append(toClient, Turn(k)!Msg("started", "mine", status')) /\ UNCHANGED messages
    <3>4. PICK s \in {"completed", "failed"} : status' = s
      BY <2>4
    <3> DEFINE m == [kind |-> "started", of |-> "mine", what |-> s]
    <3>1. m \in Turn(k)!Message
      BY DEF Turn!Message, Turn!Whose, Turn!Ends
    <3>2. Tells(k, m)'
      BY <3>4 DEF Tells
    <3>3. toClient' = Append(toClient, m)
      BY <2>4, <3>4
    <3> HIDE DEF m
    <3> QED
      BY <1>1, <1>2, <2>1, <2>2, <2>4, <3>1, <3>2, <3>3, ServerStep DEF Turn!Ends
  <2>5. CASE /\ status' = "failed" /\ told' = TRUE
             /\ toClient' = Append(toClient, Turn(k)!Msg("refused", "mine", "none")) /\ UNCHANGED messages
    <3> DEFINE m == [kind |-> "refused", of |-> "mine", what |-> "none"]
    <3>1. m \in Turn(k)!Message
      BY DEF Turn!Message, Turn!Whose
    <3>2. Tells(k, m)'
      BY DEF Tells
    <3>3. toClient' = Append(toClient, m)
      BY <2>5
    <3> HIDE DEF m
    <3> QED
      BY <1>1, <1>2, <2>1, <2>2, <2>5, <3>1, <3>2, <3>3, ServerStep DEF Turn!Ends
  <2> QED
    BY <1>3, <2>3, <2>4, <2>5 DEF Turn!AnswerStart
<1>4. CASE Turn(k)!TellStarted
  <2> DEFINE m == [kind |-> "started", of |-> "mine", what |-> "running"]
  <2>1. m \in Turn(k)!Message
    BY DEF Turn!Message, Turn!Whose
  <2>2. Tells(k, m)'
    BY DEF Tells, Turn!Terminal
  <2>3. /\ toClient' = Append(toClient, m) /\ UNCHANGED <<toServer, status,
                                                          messages>> /\ told' = TRUE
    BY <1>4 DEF Turn!TellStarted
  <2> HIDE DEF m
  <2> QED
    BY <1>1, <1>2, <2>1, <2>2, <2>3, ServerStep
<1>5. ASSUME NEW end \in Turn(k)!Ends, Turn(k)!EndTurn(end) PROVE TurnInv(k)'
  <2> DEFINE m == [kind |-> "completed", of |-> "mine", what |-> end]
  <2>1. m \in Turn(k)!Message
    BY DEF Turn!Message, Turn!Whose
  <2>2. /\ toClient' = Append(toClient, m) /\ UNCHANGED <<toServer, told, messages>>
        /\ status = "running" /\ status' = end
    BY <1>5 DEF Turn!EndTurn
  <2>3. Tells(k, m)'
    BY <2>2 DEF Tells
  <2> HIDE DEF m
  <2> QED
    BY <1>1, <1>2, <2>1, <2>2, <2>3, ServerStep DEF Turn!Ends
<1>6. CASE Turn(k)!FatalError
  <2> DEFINE m == [kind |-> "error", of |-> "mine", what |-> "fatal"]
  <2>1. m \in Turn(k)!Message
    BY DEF Turn!Message, Turn!Whose
  <2>2. /\ toClient' = Append(toClient, m) /\ UNCHANGED <<toServer, told, messages>>
        /\ status = "running" /\ status' = "failed"
    BY <1>6 DEF Turn!FatalError
  <2>3. Tells(k, m)'
    BY <2>2 DEF Tells
  <2> HIDE DEF m
  <2> QED
    BY <1>1, <1>2, <2>1, <2>2, <2>3, ServerStep DEF Turn!Ends
<1>7. CASE Turn(k)!HandleInterrupt
  <2>1. toServer' \in Seq({"start", "interrupt"}) /\ UNCHANGED <<told, messages>>
    BY <1>7, TakenIn DEF Turn!HandleInterrupt
  <2>2. CASE /\ status = "running" /\ status' = "interrupted"
             /\ toClient' = Append(toClient, Turn(k)!Msg("completed", "mine", "interrupted"))
    <3> DEFINE m == [kind |-> "completed", of |-> "mine", what |-> "interrupted"]
    <3>1. m \in Turn(k)!Message
      BY DEF Turn!Message, Turn!Whose, Turn!Ends
    <3>2. Tells(k, m)'
      BY <2>2 DEF Tells, Turn!Ends
    <3>3. toClient' = Append(toClient, m)
      BY <2>2
    <3> HIDE DEF m
    <3> QED
      BY <1>1, <1>2, <2>1, <2>2, <3>1, <3>2, <3>3, ServerStep DEF Turn!Ends
  <2>3. CASE UNCHANGED <<status, toClient>>
    BY <1>1, <1>2, <2>1, <2>3, ServerStep
  <2> QED
    BY <1>7, <2>2, <2>3 DEF Turn!HandleInterrupt
<1>8. CASE Turn(k)!Chatter \/ Turn(k)!Close
  <2>1. /\ UNCHANGED <<toServer, status, told>> /\ messages < k.messages
    BY <1>8 DEF Turn!Chatter, Turn!Close
  <2>2. PICK m \in Turn(k)!Message :
          /\ toClient' = Append(toClient, m) /\ messages' = messages + 1
          /\ ~(m.kind = "completed" /\ m.of = "mine") /\ m.kind # "started"
          /\ ~(m.kind = "error" /\ m.of = "mine" /\ m.what = "fatal")
    <3>1. CASE \E d \in k.deltas : Turn(k)!Send(Turn(k)!Msg("delta", "mine", d))
      BY <3>1 DEF Turn!Send, Turn!Message, Turn!Whose
    <3>2. CASE \/ Turn(k)!Send(Turn(k)!Msg("ask", "mine", "none"))
               \/ Turn(k)!Send(Turn(k)!Msg("error", "mine", "retry"))
               \/ Turn(k)!Send(Turn(k)!Msg("close", "mine", "none"))
      BY <3>2 DEF Turn!Send, Turn!Message, Turn!Whose
    <3>3. CASE \E x \in {Turn(k)!Msg("completed", "other", "failed"),
                          Turn(k)!Msg("completed", "other", "completed"),
                          Turn(k)!Msg("error", "other", "fatal")} : Turn(k)!Send(x)
      BY <3>3 DEF Turn!Send, Turn!Message, Turn!Whose, Turn!Ends
    <3> QED
      BY <1>8, <3>1, <3>2, <3>3 DEF Turn!Chatter, Turn!Close
  <2>3. Tells(k, m)'
    BY <2>2 DEF Tells
  <2>4. messages' \in 0 .. k.messages
    BY <1>2, <2>1, <2>2
  <2> QED
    BY <1>1, <1>2, <2>1, <2>2, <2>3, <2>4, ServerStep
<1> QED
  BY <1>3, <1>4, <1>5, <1>6, <1>7, <1>8

LEMMA TurnStep ==
    ASSUME NEW k, Turn(k)!TurnAssumption, TurnInv(k), [Turn(k)!Next]_(Turn(k)!vars)
    PROVE  TurnInv(k)'
<1>1. CASE \/ Turn(k)!Cancel \/ Turn(k)!Deadline \/ Turn(k)!StopDeadline \/ Turn(k)!Over
           \/ UNCHANGED Turn(k)!vars
  <2>1. /\ UNCHANGED <<step, result, stop, output, halted, toServer, toClient, status, told,
                       messages>>
    BY <1>1 DEF Turn!Cancel, Turn!Deadline, Turn!StopDeadline, Turn!Over,
       Turn!vars, Turn!workerVars,
                Turn!serverVars
  <2>2. {cancelled', expired', stopLate'} \subseteq BOOLEAN
    BY <1>1 DEF Turn!Cancel, Turn!Deadline, Turn!StopDeadline, Turn!Over,
       Turn!vars, TurnInv, Turn!TypeOK
  <2>3. Turn(k)!TypeOK'
    BY <2>1, <2>2 DEF TurnInv, Turn!TypeOK
  <2> QED
    BY <2>1, <2>3 DEF TurnInv, Tells
<1> QED
  BY <1>1, QuietTurn, ReadStep, AppServerStep DEF Turn!Next, Turn!Worker

\* What a turn reports is about this turn.
LEMMA TurnSays ==
    ASSUME NEW k, TurnInv(k)
    PROVE  Turn(k)!FinishedIsThisTurn /\ Turn(k)!FailedIsThisTurn /\ Turn(k)!OutputFits
BY DEF TurnInv, Turn!FinishedIsThisTurn, Turn!FailedIsThisTurn, Turn!OutputFits

\* "finished" is reported only of a turn that completed and "failed" only of one
\* that ended otherwise, whatever other turns of its thread do on the same socket
\* and however early its messages come; and the text never exceeds its limit,
\* whatever the width of the characters at the limit (wait_for_app_server_turn_
\* completion, notification_matches, push_agent_message_delta).
THEOREM ReportsAreOfThisTurn ==
    ASSUME NEW k
    PROVE
    Turn(k)!TurnAssumption =>
        (Turn(k)!Spec => [](Turn(k)!FinishedIsThisTurn /\ Turn(k)!FailedIsThisTurn /\ Turn(k)!OutputFits))
<1> SUFFICES ASSUME Turn(k)!TurnAssumption
             PROVE  Turn(k)!Spec =>
               [](Turn(k)!FinishedIsThisTurn /\ Turn(k)!FailedIsThisTurn /\ Turn(k)!OutputFits)
  OBVIOUS
<1>1. Turn(k)!Init => TurnInv(k)
  BY TurnStart
<1>2. TurnInv(k) /\ [Turn(k)!Next]_(Turn(k)!vars) => TurnInv(k)'
  BY TurnStep
<1>3. TurnInv(k) => Turn(k)!FinishedIsThisTurn /\ Turn(k)!FailedIsThisTurn /\ Turn(k)!OutputFits
  BY TurnSays
<1> QED
  BY <1>1, <1>2, <1>3, PTL DEF Turn!Spec

\* A command that gives up a turn whose id it knows has told the app-server to
\* interrupt it, also when it learns of the id only after the interruption
\* (wait_for_app_server_turn_completion, send_app_server_turn_start_for_command).
THEOREM KnownTurnsAreInterrupted ==
    ASSUME NEW k
    PROVE
    Turn(k)!TurnAssumption => (Turn(k)!Spec => Turn(k)!KnownTurnIsInterrupted)
<1> SUFFICES ASSUME Turn(k)!TurnAssumption PROVE Turn(k)!Spec => Turn(k)!KnownTurnIsInterrupted
  OBVIOUS
<1> DEFINE Given == result = "none" /\ result' \in {"cancelled", "timed out"}
                    /\ (\/ step = "turn"
                        \/ step = "await" /\ toClient' # toClient /\ Turn(k)!Got.kind = "started")
<1>1. ASSUME TurnInv(k), [Turn(k)!Next]_(Turn(k)!vars), Given PROVE halted'
  <2>1. Turn(k)!Worker
    BY <1>1 DEF Turn!Next, Turn!vars, Turn!workerVars, Turn!AnswerStart,
       Turn!TellStarted, Turn!Chatter,
                Turn!FatalError, Turn!HandleInterrupt, Turn!Close, Turn!EndTurn, Turn!Cancel, Turn!Deadline,
                Turn!StopDeadline, Turn!Over
  <2>2. CASE Turn(k)!ReadStartResponse
    <3>1. Turn(k)!Got.kind = "started" /\ step = "await"
      BY <1>1, <2>2 DEF Turn!ReadStartResponse
    <3>2. CASE Turn(k)!SendInterrupt
      BY <3>2 DEF Turn!SendInterrupt
    <3>3. CASE Turn(k)!Begun(Turn(k)!Got.what)
      BY <1>1, <3>3 DEF Turn!Begun, Turn!Done, Turn!ResultOf
    <3> QED
      BY <2>2, <3>1, <3>2, <3>3 DEF Turn!ReadStartResponse
  <2>3. CASE Turn(k)!ReadMessage
    <3>1. CASE Turn(k)!SendInterrupt
      BY <3>1 DEF Turn!SendInterrupt
    <3>2. CASE Turn(k)!Done("other") \/ Turn(k)!Done(Turn(k)!ResultOf(Turn(k)!Got.what)) \/ UNCHANGED <<step, result>>
      BY <1>1, <3>2 DEF Turn!Done, Turn!ResultOf
    <3> QED
      BY <2>3, <3>1, <3>2 DEF Turn!ReadMessage
  <2>4. CASE Turn(k)!EndByInterrupt
    BY <2>4 DEF Turn!EndByInterrupt, Turn!SendInterrupt
  <2>5. CASE Turn(k)!Prepare \/ Turn(k)!StartTurn \/ Turn(k)!NoteInterruption \/ Turn(k)!GiveUpStart
    BY <1>1, <2>5 DEF Turn!Prepare, Turn!StartTurn, Turn!NoteInterruption,
       Turn!GiveUpStart
  <2> QED
    BY <2>1, <2>2, <2>3, <2>4, <2>5 DEF Turn!Worker
<1>2. Turn(k)!Init => TurnInv(k)
  BY TurnStart
<1>3. TurnInv(k) /\ [Turn(k)!Next]_(Turn(k)!vars) => TurnInv(k)'
  BY TurnStep
<1>4. TurnInv(k) /\ [Turn(k)!Next]_(Turn(k)!vars) => [Given => halted']_(Turn(k)!vars)
  BY <1>1
<1> QED
  BY <1>2, <1>3, <1>4, PTL DEF Turn!Spec, Turn!KnownTurnIsInterrupted

-----------------------------------------------------------------------------
(* The CLI.                                                                 *)

\* What has been written is in the pipe, kept or dropped, and none is dropped
\* without a mark.
Accounted(s) ==
    /\ made[s] >= kept[s] + pipe[s]
    /\ cut[s] <=> made[s] > kept[s] + pipe[s]

\* A reader ends when no one is left to write to its pipe.
Drained(s) == reader[s] = "ended" => pipe[s] = 0 /\ child \in {"zombie", "reaped"} /\ ~heir

\* The child through the steps of the run, and what ended it.
ChildFits(k) ==
    /\ stage = "spawn" => child = "none"
    /\ stage = "join" => child = "reaped" /\ outcome \in {"exit", "cancelled", "timed_out"}
    /\ stage \in {"spawn", "prompt", "poll"} => outcome = "none"
    /\ child = "none" => ~heir
    /\ stage = "done" =>
         \/ outcome \in {"not_found", "spawn_error"} /\ child = "none"
         \/ outcome = "write_error"
         \/ outcome \in {"exit", "cancelled", "timed_out"} /\ child = "reaped" /\ Cli(k)!Joined

\* The events that end a run, and what "finished" among them stands for.
EventsFit(k) ==
    /\ stage # "done" => lines = <<>>
    /\ \A i \in 1 .. Len(lines) :
         lines[i] = "finished" =>
           /\ i = Len(lines) /\ outcome = "exit" /\ code = "ok"
           /\ (\A j \in 1 .. Len(lines) : lines[j] # "warning") <=> (\A s \in Cli(k)!Streams : ~cut[s])

RunInv(k) ==
    /\ Cli(k)!TypeOK /\ ChildFits(k) /\ EventsFit(k)
    /\ \A s \in Cli(k)!Streams : Accounted(s) /\ Drained(s)

\* A run that ended well ends with "finished", once, and has a warning if and
\* only if a stream was cut.
LEMMA EventsOfEnd ==
    ASSUME NEW k, NEW u \in {<<>>, <<"usage">>}, NEW w \in {<<>>, <<"warning">>},
           NEW e, e = <<"output">> \o u \o w \o <<"finished">>
    PROVE  /\ e \in Seq(Cli(k)!Kinds)
           /\ \A i \in 1 .. Len(e) : e[i] = "finished" => i = Len(e)
           /\ (\A j \in 1 .. Len(e) : e[j] # "warning") <=> w = <<>>
<1> DEFINE x == <<"output">> \o u
           y == x \o w
<1>1. /\ u \in Seq({"usage"}) /\ w \in Seq({"warning"}) /\ Len(w) \in Nat
      /\ (w = <<>> <=> Len(w) = 0)
  <2>1. <<>> \in Seq({"usage"}) /\ <<"usage">> \in Seq({"usage"})
    OBVIOUS
  <2>2. <<>> \in Seq({"warning"}) /\ <<"warning">> \in Seq({"warning"})
    OBVIOUS
  <2>3. u \in Seq({"usage"}) /\ w \in Seq({"warning"})
    BY <2>1, <2>2
  <2> QED
    BY <2>3, EmptySeq
<1>2. x \in Seq({"output", "usage"})
  <2>1. u \in Seq({"output", "usage"}) /\ <<"output">> \in Seq({"output", "usage"})
    BY <1>1
  <2> QED
    BY <2>1, ConcatProperties
<1>3. Len(x) \in Nat /\ \A i \in 1 .. Len(x) : x[i] \in {"output", "usage"}
  BY <1>2
<1> HIDE DEF x
<1>4. /\ y \in Seq({"output", "usage", "warning"}) /\ Len(y) = Len(x) + Len(w)
      /\ \A i \in 1 .. Len(x) + Len(w) : y[i] = IF i <= Len(x) THEN x[i] ELSE w[i - Len(x)]
  <2>1. x \in Seq({"output", "usage", "warning"}) /\ w \in Seq({"output", "usage", "warning"})
    BY <1>1, <1>2
  <2> QED
    BY <2>1, ConcatProperties
<1> HIDE DEF y
<1>5. e = y \o <<"finished">>
  BY DEF x, y
<1>6. /\ e \in Seq(Cli(k)!Kinds) /\ Len(e) = Len(y) + 1
      /\ \A i \in 1 .. Len(y) + 1 : e[i] = IF i <= Len(y) THEN y[i] ELSE "finished"
  <2>1. y \in Seq(Cli(k)!Kinds) /\ <<"finished">> \in Seq(Cli(k)!Kinds)
    BY <1>4 DEF Cli!Kinds
  <2> DEFINE z == <<"finished">>
  <2>4. Len(z) = 1 /\ z[1] = "finished" /\ z \in Seq(Cli(k)!Kinds) /\ e = y \o z
    BY <2>1, <1>5
  <2> HIDE DEF z
  <2>5. y \o z \in Seq(Cli(k)!Kinds) /\ Len(y \o z) = Len(y) + Len(z)
    BY <2>1, <2>4, ConcatProperties
  <2>2. e \in Seq(Cli(k)!Kinds) /\ Len(e) = Len(y) + 1
    BY <2>4, <2>5
  <2>3. \A i \in 1 .. Len(y) + 1 : e[i] = IF i <= Len(y) THEN y[i] ELSE z[i - Len(y)]
    BY <2>1, <2>4, ConcatProperties
  <2> QED
    BY <2>1, <2>2, <2>3, <2>4
<1>7. Len(y) \in Nat /\ \A i \in 1 .. Len(y) : y[i] \in {"output", "usage", "warning"}
  BY <1>4
<1>8. \A i \in 1 .. Len(e) : e[i] = "finished" => i = Len(e)
  <2> TAKE i \in 1 .. Len(e)
  <2>1. i <= Len(y) => e[i] # "finished"
    BY <1>6, <1>7
  <2> QED
    BY <2>1, <1>6, <1>7
<1>9. ASSUME w = <<>>, NEW j \in 1 .. Len(e) PROVE e[j] # "warning"
  <2>1. Len(w) = 0
    BY <1>1, <1>9
  <2>2. j <= Len(y) => e[j] = x[j] /\ j \in 1 .. Len(x)
    BY <2>1, <1>3, <1>4, <1>6, <1>7
  <2> QED
    BY <2>2, <1>3, <1>6, <1>7, <1>9
<1>10. ASSUME w # <<>> PROVE \E j \in 1 .. Len(e) : e[j] = "warning"
  <2>1. w = <<"warning">>
    BY <1>10
  <2>2. y[Len(x) + 1] = "warning" /\ Len(y) = Len(x) + 1
    BY <2>1, <1>3, <1>4
  <2>3. Len(x) + 1 \in 1 .. Len(y) /\ Len(x) + 1 \in 1 .. Len(e)
    BY <2>2, <1>3, <1>6
  <2>4. e[Len(x) + 1] = "warning"
    BY <2>2, <2>3, <1>6
  <2> QED
    BY <2>3, <2>4
<1> QED
  BY <1>6, <1>8, <1>9, <1>10

\* What a run reports, whatever it ended with.
LEMMA EventsReported ==
    ASSUME NEW k, NEW o, NEW e \in Cli(k)!ResultEvents(o), Cli(k)!TypeOK
    PROVE  /\ e \in Seq(Cli(k)!Kinds)
           /\ \A i \in 1 .. Len(e) :
                e[i] = "finished" =>
                  /\ i = Len(e) /\ o = "exit" /\ code = "ok"
                  /\ (\A j \in 1 .. Len(e) : e[j] # "warning") <=> (\A s \in Cli(k)!Streams : ~cut[s])
<1>1. CASE o = "exit" /\ code = "ok"
  <2>1. PICK u \in {<<>>, <<"usage">>} : e = <<"output">> \o u \o Cli(k)!Warning \o <<"finished">>
    BY <1>1 DEF Cli!ResultEvents
  <2>2. Cli(k)!Warning \in {<<>>, <<"warning">>} /\ (Cli(k)!Warning = <<>> <=> \A s \in Cli(k)!Streams : ~cut[s])
    BY DEF Cli!Warning, Cli!Streams
  <2> DEFINE w == Cli(k)!Warning
  <2>3. e = <<"output">> \o u \o w \o <<"finished">>
    BY <2>1
  <2> HIDE DEF w
  <2>4. w \in {<<>>, <<"warning">>} /\ (w = <<>> <=> \A s \in Cli(k)!Streams : ~cut[s])
    BY <2>2 DEF w
  <2>5. /\ e \in Seq(Cli(k)!Kinds)
        /\ \A i \in 1 .. Len(e) : e[i] = "finished" => i = Len(e)
        /\ (\A j \in 1 .. Len(e) : e[j] # "warning") <=> w = <<>>
    BY <2>3, <2>4, EventsOfEnd
  <2> QED
    BY <1>1, <2>4, <2>5
<1>2. CASE ~(o = "exit" /\ code = "ok")
  <2>1. e = <<"failed">>
    BY <1>2 DEF Cli!ResultEvents
  <2> QED
    BY <2>1 DEF Cli!Kinds
<1> QED
  BY <1>1, <1>2

\* The bounds are numbers.
LEMMA RunBounds ==
    ASSUME NEW k, Cli(k)!ExecAssumption
    PROVE  /\ k.prompt \in Nat /\ k.cap \in Nat /\ k.output \in Nat
           /\ k.pipe \in Nat /\ k.pipe > 0 /\ k.timeout \in Nat /\ k.timeout > 0
BY DEF Cli!ExecAssumption

LEMMA RunStart == ASSUME NEW k, Cli(k)!ExecAssumption, Cli(k)!Init PROVE RunInv(k)
<1>1. Cli(k)!TypeOK
  <2>1. /\ pipe \in [Cli(k)!Streams -> 0 .. k.pipe] /\ made \in [Cli(k)!Streams -> 0 .. k.output]
        /\ kept \in [Cli(k)!Streams -> 0 .. k.cap] /\ cut \in [Cli(k)!Streams -> BOOLEAN]
        /\ reader \in [Cli(k)!Streams -> {"absent", "reads", "ended"}]
    BY RunBounds DEF Cli!Init
  <2>2. stdin \in [open : BOOLEAN, taken : 0 .. k.prompt] /\ written \in stdin.taken .. k.prompt
        /\ written - stdin.taken <= k.pipe
    BY RunBounds DEF Cli!Init
  <2>3. lines \in Seq(Cli(k)!Kinds) /\ outcome \in Cli(k)!Outcomes /\ elapsed \in 0 .. k.timeout
    BY RunBounds DEF Cli!Init, Cli!Outcomes
  <2> QED
    BY <2>1, <2>2, <2>3 DEF Cli!Init, Cli!TypeOK
<1>2. ChildFits(k) /\ EventsFit(k)
  BY DEF Cli!Init, ChildFits, EventsFit
<1>3. \A s \in Cli(k)!Streams : Accounted(s) /\ Drained(s)
  BY DEF Cli!Init, Accounted, Drained
<1> QED
  BY <1>1, <1>2, <1>3 DEF RunInv

\* Writing into a pipe and reading from it.
LEMMA PipeStep ==
    ASSUME NEW k, Cli(k)!ExecAssumption, RunInv(k),
           Cli(k)!Produce \/ \E s \in Cli(k)!Streams : Cli(k)!Read(s) \/ Cli(k)!EndOfFile(s)
    PROVE  RunInv(k)'
<1> USE DEF Cli!processVars
<1>1. CASE Cli(k)!Produce
  <2>1. PICK s \in Cli(k)!Streams :
          /\ child = "runs" \/ heir
          /\ stage # "done" /\ pipe[s] < k.pipe /\ made[s] < k.output
          /\ pipe' = [pipe EXCEPT ![s] = pipe[s] + 1]
          /\ made' = [made EXCEPT ![s] = made[s] + 1]
    BY <1>1 DEF Cli!Produce
  <2>2. UNCHANGED <<stage, child, code, stdin, heir, written, kept, cut, reader, elapsed,
                    killed, outcome, lines>>
    BY <1>1 DEF Cli!Produce
  <2>3. pipe' \in [Cli(k)!Streams -> 0 .. k.pipe] /\ made' \in [Cli(k)!Streams -> 0 .. k.output]
    <3>1. /\ pipe \in [Cli(k)!Streams -> 0 .. k.pipe] /\ made \in [Cli(k)!Streams -> 0 .. k.output]
          /\ k.pipe \in Nat /\ k.output \in Nat
      BY RunBounds DEF RunInv, Cli!TypeOK
    <3>2. pipe' \in [Cli(k)!Streams -> 0 .. k.pipe]
      BY <2>1, <3>1
    <3>3. made' \in [Cli(k)!Streams -> 0 .. k.output]
      BY <2>1, <3>1
    <3> QED
      BY <3>2, <3>3
  <2>9. Cli(k)!TypeOK'
    BY <2>2, <2>3 DEF RunInv, Cli!TypeOK
  <2>4. ChildFits(k)' /\ EventsFit(k)'
    BY <2>1, <2>2 DEF RunInv, ChildFits, EventsFit, Cli!Joined
  <2>5. \A t \in Cli(k)!Streams : (Accounted(t) /\ Drained(t))'
    BY <2>1, <2>2 DEF RunInv, Accounted, Drained, Cli!TypeOK, ChildFits
  <2> QED
    BY <2>4, <2>5, <2>9 DEF RunInv
<1>2. ASSUME NEW s \in Cli(k)!Streams, Cli(k)!Read(s) PROVE RunInv(k)'
  <2>1. /\ reader[s] = "reads" /\ pipe[s] > 0 /\ pipe' = [pipe EXCEPT ![s] = pipe[s] - 1]
        /\ UNCHANGED <<stage, child, code, stdin, heir, written, made, reader, elapsed,
                       killed, outcome, lines>>
    BY <1>2 DEF Cli!Read
  <2>2. \/ kept[s] < k.cap /\ kept' = [kept EXCEPT ![s] = kept[s] + 1] /\ UNCHANGED cut
        \/ cut' = [cut EXCEPT ![s] = TRUE] /\ UNCHANGED kept
    BY <1>2 DEF Cli!Read, Cli!Keep
  <2>8. /\ pipe' \in [Cli(k)!Streams -> 0 .. k.pipe] /\ kept' \in [Cli(k)!Streams -> 0 .. k.cap]
        /\ cut' \in [Cli(k)!Streams -> BOOLEAN]
    <3>0. /\ pipe \in [Cli(k)!Streams -> 0 .. k.pipe] /\ kept \in [Cli(k)!Streams -> 0 .. k.cap]
          /\ cut \in [Cli(k)!Streams -> BOOLEAN]
      BY DEF RunInv, Cli!TypeOK
    <3>1. pipe' \in [Cli(k)!Streams -> 0 .. k.pipe]
      BY <2>1, <3>0, RunBounds
    <3>2. CASE kept[s] < k.cap /\ kept' = [kept EXCEPT ![s] = kept[s] + 1] /\ UNCHANGED cut
      <4>1. kept' \in [Cli(k)!Streams -> 0 .. k.cap]
        BY <3>0, <3>2, RunBounds
      <4> QED
        BY <3>0, <3>1, <3>2, <4>1
    <3>3. CASE cut' = [cut EXCEPT ![s] = TRUE] /\ UNCHANGED kept
      BY <3>0, <3>1, <3>3
    <3> QED
      BY <2>2, <3>2, <3>3
  <2>3. Cli(k)!TypeOK'
    <3>1. /\ stage \in {"spawn", "prompt", "poll", "join", "done"} /\ heir \in BOOLEAN
          /\ Cli(k)!TypeOK
      BY DEF RunInv, Cli!TypeOK
    <3> QED
      BY <2>1, <2>8, <3>1 DEF Cli!TypeOK
  <2>4. ChildFits(k)'
    BY <2>1 DEF RunInv, ChildFits, Cli!Joined
  <2>5. \A t \in Cli(k)!Streams : Accounted(t)'
    BY <2>1, <2>2 DEF RunInv, Accounted, Cli!TypeOK
  <2>6. \A t \in Cli(k)!Streams : Drained(t)'
    BY <2>1 DEF RunInv, Drained, Cli!TypeOK
  <2>7. EventsFit(k)'
    <3>1. CASE stage = "done"
      <4>1. outcome # "exit"
        BY <3>1, <2>1 DEF RunInv, ChildFits, Cli!Joined
      <4> QED
        BY <3>1, <4>1, <2>1 DEF RunInv, EventsFit
    <3>2. CASE stage # "done"
      BY <3>2, <2>1 DEF RunInv, EventsFit
    <3> QED
      BY <3>1, <3>2
  <2> QED
    BY <2>3, <2>4, <2>5, <2>6, <2>7 DEF RunInv
<1>3. ASSUME NEW s \in Cli(k)!Streams, Cli(k)!EndOfFile(s) PROVE RunInv(k)'
  <2>1. /\ reader[s] = "reads" /\ pipe[s] = 0 /\ child \in {"zombie", "reaped"} /\ ~heir
        /\ reader' = [reader EXCEPT ![s] = "ended"]
        /\ UNCHANGED <<stage, child, code, stdin, heir, written, pipe, made, kept, cut,
                       elapsed, killed, outcome, lines>>
    BY <1>3 DEF Cli!EndOfFile
  <2>2. Cli(k)!TypeOK'
    BY <2>1 DEF RunInv, Cli!TypeOK
  <2>3. ChildFits(k)' /\ EventsFit(k)'
    BY <2>1 DEF RunInv, ChildFits, EventsFit, Cli!Joined, Cli!TypeOK
  <2>4. \A t \in Cli(k)!Streams : Accounted(t)'
    BY <2>1 DEF RunInv, Accounted
  <2>5. \A t \in Cli(k)!Streams : Drained(t)'
    BY <2>1 DEF RunInv, Drained, Cli!TypeOK
  <2> QED
    BY <2>2, <2>3, <2>4, <2>5 DEF RunInv
<1> QED
  BY <1>1, <1>2, <1>3

\* The rest of what the child, what it starts and time do.
LEMMA AroundStep ==
    ASSUME NEW k, Cli(k)!ExecAssumption, RunInv(k),
           \/ Cli(k)!TakePrompt \/ Cli(k)!CloseStdin \/ Cli(k)!LeaveHeir \/ Cli(k)!HeirExits \/ Cli(k)!Exit
           \/ Cli(k)!Cancel \/ Cli(k)!Tick
    PROVE  RunInv(k)'
<1> USE DEF Cli!processVars, Cli!outputVars
<1>1. CASE Cli(k)!TakePrompt \/ Cli(k)!CloseStdin
  <2>1. /\ UNCHANGED <<stage, child, code, written, heir, pipe, made, kept, cut, reader,
                       elapsed, killed, outcome, lines>>
        /\ \/ stdin.taken < written /\ stdin' = [stdin EXCEPT !.taken = stdin.taken + 1]
           \/ stdin' = [stdin EXCEPT !.open = FALSE]
    BY <1>1 DEF Cli!TakePrompt, Cli!CloseStdin
  <2>3. /\ stdin' \in [open : BOOLEAN, taken : 0 .. k.prompt] /\ written' \in stdin'.taken .. k.prompt
        /\ written' - stdin'.taken <= k.pipe
    <3>1. /\ stdin \in [open : BOOLEAN, taken : 0 .. k.prompt] /\ written \in stdin.taken .. k.prompt
          /\ written - stdin.taken <= k.pipe /\ k.prompt \in Nat /\ k.pipe \in Nat
      BY RunBounds DEF RunInv, Cli!TypeOK
    <3>2. CASE stdin.taken < written /\ stdin' = [stdin EXCEPT !.taken = stdin.taken + 1]
      BY <2>1, <3>1, <3>2
    <3>3. CASE stdin' = [stdin EXCEPT !.open = FALSE]
      BY <2>1, <3>1, <3>3
    <3> QED
      BY <2>1, <3>2, <3>3
  <2>2. Cli(k)!TypeOK'
    BY <2>1, <2>3 DEF RunInv, Cli!TypeOK
  <2> QED
    BY <2>1, <2>2 DEF RunInv, ChildFits, EventsFit, Accounted, Drained, Cli!Joined
<1>2. CASE Cli(k)!LeaveHeir \/ Cli(k)!HeirExits
  <2>1. /\ UNCHANGED <<stage, child, code, stdin, written, pipe, made, kept, cut, reader,
                       elapsed, killed, outcome, lines>>
        /\ \/ child = "runs" /\ stage # "done" /\ heir' = TRUE
           \/ heir' = FALSE
    BY <1>2 DEF Cli!LeaveHeir, Cli!HeirExits
  <2>2. Cli(k)!TypeOK'
    BY <2>1 DEF RunInv, Cli!TypeOK
  <2>3. ChildFits(k)' /\ EventsFit(k)'
    BY <2>1 DEF RunInv, ChildFits, EventsFit, Cli!Joined
  <2>4. \A s \in Cli(k)!Streams : (Accounted(s) /\ Drained(s))'
    BY <2>1 DEF RunInv, Accounted, Drained
  <2> QED
    BY <2>2, <2>3, <2>4 DEF RunInv
<1>3. CASE Cli(k)!Exit
  <2>1. /\ child = "runs" /\ child' = "zombie" /\ code' \in {"ok", "error"}
        /\ stdin' = [stdin EXCEPT !.open = FALSE]
        /\ UNCHANGED <<stage, written, heir, pipe, made, kept, cut, reader, elapsed, killed,
                       outcome, lines>>
    BY <1>3 DEF Cli!Exit
  <2>2. Cli(k)!TypeOK'
    BY <2>1 DEF RunInv, Cli!TypeOK
  <2>3. ChildFits(k)' /\ EventsFit(k)'
    BY <2>1 DEF RunInv, ChildFits, EventsFit, Cli!Joined
  <2>4. \A s \in Cli(k)!Streams : (Accounted(s) /\ Drained(s))'
    BY <2>1 DEF RunInv, Accounted, Drained
  <2> QED
    BY <2>2, <2>3, <2>4 DEF RunInv
<1>4. CASE Cli(k)!Cancel \/ Cli(k)!Tick
  <2>1. /\ UNCHANGED <<stage, child, code, stdin, heir, written, pipe, made, kept, cut,
                       reader, outcome, lines>>
        /\ elapsed' \in 0 .. k.timeout /\ killed' \in BOOLEAN
    <3>1. elapsed \in 0 .. k.timeout /\ killed \in BOOLEAN /\ k.timeout \in Nat
      BY RunBounds DEF RunInv, Cli!TypeOK
    <3>2. CASE Cli(k)!Cancel
      BY <3>1, <3>2 DEF Cli!Cancel
    <3>3. CASE Cli(k)!Tick
      BY <3>1, <3>3 DEF Cli!Tick
    <3> QED
      BY <1>4, <3>2, <3>3
  <2>2. Cli(k)!TypeOK'
    BY <2>1 DEF RunInv, Cli!TypeOK
  <2> QED
    BY <2>1, <2>2 DEF RunInv, ChildFits, EventsFit, Accounted, Drained, Cli!Joined
<1> QED
  BY <1>1, <1>2, <1>3, <1>4

\* The steps of run_codex_command.
LEMMA RunGoesOn ==
    ASSUME NEW k, Cli(k)!ExecAssumption, RunInv(k), Cli(k)!Worker
    PROVE  RunInv(k)'
<1> USE DEF Cli!processVars, Cli!outputVars, Cli!Return
<1>1. CASE Cli(k)!Spawn
  <2>1. /\ stage = "spawn" /\ child = "none" /\ ~heir /\ outcome = "none" /\ lines = <<>>
        /\ UNCHANGED <<code, written, heir, pipe, made, kept, cut, reader, elapsed, killed>>
    BY <1>1 DEF Cli!Spawn, RunInv, ChildFits, EventsFit
  <2>2. \A s \in Cli(k)!Streams : (Accounted(s) /\ Drained(s))'
    BY <2>1 DEF RunInv, Accounted, Drained
  <2>3. CASE stage' = "prompt" /\ child' = "runs" /\ stdin' = [stdin EXCEPT !.open = TRUE] /\ UNCHANGED <<outcome, lines>>
    <3>1. Cli(k)!TypeOK'
      BY <2>1, <2>3 DEF RunInv, Cli!TypeOK
    <3> QED
      BY <2>1, <2>2, <2>3, <3>1 DEF RunInv, ChildFits, EventsFit
  <2>4. ASSUME NEW o \in {"not_found", "spawn_error"}, Cli(k)!Return(o), UNCHANGED <<child, stdin>>
        PROVE  RunInv(k)'
    <3>1. stage' = "done" /\ outcome' = o /\ lines' \in Cli(k)!ResultEvents(o)
      BY <2>4
    <3>2. /\ lines' \in Seq(Cli(k)!Kinds)
          /\ \A i \in 1 .. Len(lines') : lines'[i] # "finished"
      BY <3>1, EventsReported DEF RunInv
    <3>3. Cli(k)!TypeOK'
      BY <2>1, <2>4, <3>1, <3>2 DEF RunInv, Cli!TypeOK, Cli!Outcomes
    <3> QED
      BY <2>1, <2>2, <2>4, <3>1, <3>2, <3>3 DEF RunInv, ChildFits, EventsFit
  <2> QED
    BY <1>1, <2>3, <2>4 DEF Cli!Spawn
<1>2. CASE Cli(k)!WritePrompt
  <2>1. /\ written < k.prompt /\ written - stdin.taken < k.pipe /\ written' = written + 1
        /\ UNCHANGED <<stage, child, code, stdin, heir, pipe, made, kept, cut, reader,
                       elapsed, killed, outcome, lines>>
    BY <1>2 DEF Cli!WritePrompt
  <2>2. Cli(k)!TypeOK'
    <3>1. /\ stdin \in [open : BOOLEAN, taken : 0 .. k.prompt] /\ written \in stdin.taken .. k.prompt
          /\ k.prompt \in Nat /\ k.pipe \in Nat
      BY DEF RunInv, Cli!TypeOK, Cli!ExecAssumption
    <3>2. stdin.taken \in 0 .. k.prompt
      BY <3>1
    <3>3. written' \in stdin.taken .. k.prompt /\ written' - stdin.taken <= k.pipe
      BY <2>1, <3>1, <3>2
    <3> QED
      BY <2>1, <3>3 DEF RunInv, Cli!TypeOK
  <2> QED
    BY <2>1, <2>2 DEF RunInv, ChildFits, EventsFit, Accounted, Drained, Cli!Joined
<1>3. CASE Cli(k)!StartReaders
  <2>1. /\ stage = "prompt" /\ stage' = "poll" /\ reader' = [s \in Cli(k)!Streams |-> "reads"]
        /\ UNCHANGED <<child, code, stdin, heir, written, pipe, made, kept, cut, elapsed,
                       killed, outcome, lines>>
    BY <1>3 DEF Cli!StartReaders
  <2>2. Cli(k)!TypeOK'
    BY <2>1 DEF RunInv, Cli!TypeOK
  <2> QED
    BY <2>1, <2>2 DEF RunInv, ChildFits, EventsFit, Accounted, Drained
<1>4. CASE Cli(k)!PromptFails
  <2>1. /\ stage = "prompt" /\ stage' = "done" /\ outcome' = "write_error"
        /\ lines' \in Cli(k)!ResultEvents("write_error")
        /\ UNCHANGED <<child, code, stdin, heir, written, pipe, made, kept, cut, reader,
                       elapsed, killed>>
    BY <1>4 DEF Cli!PromptFails
  <2>2. /\ lines' \in Seq(Cli(k)!Kinds)
        /\ \A i \in 1 .. Len(lines') : lines'[i] # "finished"
    BY <2>1, EventsReported DEF RunInv
  <2>3. Cli(k)!TypeOK'
    BY <2>1, <2>2 DEF RunInv, Cli!TypeOK, Cli!Outcomes
  <2> QED
    BY <2>1, <2>2, <2>3 DEF RunInv, ChildFits, EventsFit, Accounted, Drained
<1>5. CASE Cli(k)!PollExit \/ Cli(k)!PollCancel \/ Cli(k)!PollTimeout
  <2>1. /\ stage = "poll" /\ stage' = "join" /\ child' = "reaped"
        /\ outcome' \in {"exit", "cancelled", "timed_out"} /\ code' \in {code, "killed"}
        /\ stdin' = [stdin EXCEPT !.open = FALSE]
        /\ UNCHANGED <<written, heir, pipe, made, kept, cut, reader, elapsed, killed, lines>>
    BY <1>5 DEF Cli!PollExit, Cli!PollCancel, Cli!PollTimeout, Cli!Reap,
       Cli!Killed
  <2>2. Cli(k)!TypeOK'
    BY <2>1 DEF RunInv, Cli!TypeOK, Cli!Outcomes
  <2>3. ChildFits(k)' /\ EventsFit(k)'
    BY <2>1 DEF RunInv, ChildFits, EventsFit
  <2>4. \A s \in Cli(k)!Streams : (Accounted(s) /\ Drained(s))'
    BY <2>1 DEF RunInv, Accounted, Drained
  <2> QED
    BY <2>2, <2>3, <2>4 DEF RunInv
<1>6. CASE Cli(k)!Join
  <2>1. /\ stage = "join" /\ Cli(k)!Joined /\ stage' = "done" /\ outcome' = outcome
        /\ lines' \in Cli(k)!ResultEvents(outcome)
        /\ UNCHANGED <<child, code, stdin, heir, written, pipe, made, kept, cut, reader,
                       elapsed, killed>>
    BY <1>6 DEF Cli!Join
  <2>2. /\ lines' \in Seq(Cli(k)!Kinds)
        /\ \A i \in 1 .. Len(lines') :
             lines'[i] = "finished" =>
               /\ i = Len(lines') /\ outcome = "exit" /\ code = "ok"
               /\ (\A j \in 1 .. Len(lines') : lines'[j] # "warning")
                  <=> (\A s \in Cli(k)!Streams : ~cut[s])
    BY <2>1, EventsReported DEF RunInv
  <2>3. Cli(k)!TypeOK'
    BY <2>1, <2>2 DEF RunInv, Cli!TypeOK
  <2>4. EventsFit(k)'
    BY <2>1, <2>2 DEF EventsFit
  <2> QED
    BY <2>1, <2>3, <2>4 DEF RunInv, ChildFits, Accounted, Drained, Cli!Joined
<1> QED
  BY <1>1, <1>2, <1>3, <1>4, <1>5, <1>6 DEF Cli!Worker

LEMMA RunStep ==
    ASSUME NEW k, Cli(k)!ExecAssumption, RunInv(k), [Cli(k)!Next]_(Cli(k)!vars)
    PROVE  RunInv(k)'
<1>1. CASE UNCHANGED Cli(k)!vars
  <2>1. UNCHANGED <<stage, child, code, stdin, written, heir, pipe, made, kept, cut, reader,
                    elapsed,
                    killed, outcome, lines>>
    BY <1>1 DEF Cli!vars
  <2>2. Cli(k)!TypeOK'
    BY <2>1 DEF RunInv, Cli!TypeOK
  <2> QED
    BY <2>1, <2>2 DEF RunInv, ChildFits, EventsFit, Accounted, Drained, Cli!Joined
<1>2. CASE Cli(k)!Next
  BY <1>2, PipeStep, AroundStep, RunGoesOn DEF Cli!Next, Cli!Readers,
     Cli!Environment
<1> QED
  BY <1>1, <1>2

\* What a run says of itself, it has earned.
LEMMA RunSays ==
    ASSUME NEW k, RunInv(k)
    PROVE  Cli(k)!EndMeansReaped /\ Cli(k)!FinishedIsEarned /\ Cli(k)!FinishedIsWhole
<1>1. Cli(k)!EndMeansReaped
  BY DEF RunInv, ChildFits, Cli!EndMeansReaped
<1>2. ASSUME NEW i \in 1 .. Len(lines), lines[i] = "finished"
      PROVE  /\ i = Len(lines) /\ outcome = "exit" /\ code = "ok" /\ child = "reaped"
             /\ (\A j \in 1 .. i : lines[j] # "warning")
                <=> (\A s \in Cli(k)!Streams : kept[s] = made[s])
  <2>1. stage = "done"
    BY <1>2 DEF RunInv, EventsFit
  <2>2. /\ i = Len(lines) /\ outcome = "exit" /\ code = "ok"
        /\ (\A j \in 1 .. i : lines[j] # "warning") <=> (\A s \in Cli(k)!Streams : ~cut[s])
    BY <1>2 DEF RunInv, EventsFit
  <2>3. child = "reaped" /\ \A s \in Cli(k)!Streams : reader[s] = "ended"
    BY <2>1, <2>2 DEF RunInv, ChildFits, Cli!Joined
  <2>4. \A s \in Cli(k)!Streams : cut[s] <=> kept[s] # made[s]
    BY <2>3 DEF RunInv, Accounted, Drained, Cli!TypeOK
  <2> QED
    BY <2>2, <2>3, <2>4
<1>3. Cli(k)!FinishedIsEarned
  BY <1>2 DEF Cli!FinishedIsEarned
<1>4. Cli(k)!FinishedIsWhole
  BY <1>2 DEF Cli!FinishedIsWhole, RunInv, Accounted
<1> QED
  BY <1>1, <1>3, <1>4

\* Once a run of the CLI has been reported its process is gone, except after a
\* failed write of the prompt; "finished" is a good exit that neither the flag
\* nor the clock came before; and without the warning every chunk that codex
\* and what it started wrote was kept (run_codex_command, read_capped).
THEOREM EveryRunIsEarned ==
    ASSUME NEW k
    PROVE
    Cli(k)!ExecAssumption =>
        (Cli(k)!Spec => [](Cli(k)!EndMeansReaped /\ Cli(k)!FinishedIsEarned /\ Cli(k)!FinishedIsWhole))
<1> SUFFICES ASSUME Cli(k)!ExecAssumption
             PROVE  Cli(k)!Spec =>
               [](Cli(k)!EndMeansReaped /\ Cli(k)!FinishedIsEarned /\ Cli(k)!FinishedIsWhole)
  OBVIOUS
<1>1. Cli(k)!Init => RunInv(k)
  BY RunStart
<1>2. RunInv(k) /\ [Cli(k)!Next]_(Cli(k)!vars) => RunInv(k)'
  BY RunStep
<1>3. RunInv(k) => Cli(k)!EndMeansReaped /\ Cli(k)!FinishedIsEarned /\ Cli(k)!FinishedIsWhole
  BY RunSays
<1> QED
  BY <1>1, <1>2, <1>3, PTL DEF Cli!Spec

-----------------------------------------------------------------------------
(* The composition that the runs check: what is proved of a turn and of the *)
(* CLI, of the instances of MCTurns.                                        *)

First == [deltas |-> {{0, 1}, {0, 1, 4}}, outputMax |-> 3, messages |-> 2, early |-> TRUE, prompt |-> 2,
          pipe |-> 1, cap |-> 1, timeout |-> 1, output |-> 2, heirs |-> TRUE]

Second == [deltas |-> {}, outputMax |-> 3, messages |-> 2, early |-> FALSE, prompt |-> 1,
          pipe |-> 1, cap |-> 1, timeout |-> 2, output |-> 2, heirs |-> FALSE]

LEMMA Bounds ==
    /\ Turn(First)!TurnAssumption /\ Turn(Second)!TurnAssumption
    /\ Cli(First)!ExecAssumption /\ Cli(Second)!ExecAssumption
BY DEF Turn!TurnAssumption, Cli!ExecAssumption, First, Second

LEMMA CmdIsTurn ==
    /\ Cmd!Init <=> Turn(First)!Init
    /\ [Cmd!Next]_(Cmd!vars) <=> [Turn(First)!Next]_(Turn(First)!vars)
<1>1. /\ First.deltas = {{0, 1}, {0, 1, 4}} /\ First.outputMax = 3 /\ First.messages = 2 /\ First.early = TRUE
  BY DEF First
<1>2. \A d : Cmd!Fitting(d) = Turn(First)!Fitting(d)
  BY <1>1 DEF Cmd!Fitting, Turn!Fitting, Cmd!Max, Turn!Max
<1>3. (Cmd!Init <=> Turn(First)!Init) /\ Cmd!vars = Turn(First)!vars
  BY <1>1, <1>2 DEF
     Cmd!workerVars, Cmd!serverVars, Cmd!vars, Cmd!Init, Turn!workerVars, Turn!serverVars,
     Turn!vars, Turn!Init
<1>4. Cmd!Prepare <=> Turn(First)!Prepare
  BY <1>1, <1>2 DEF
     Cmd!serverVars, Cmd!Clocks, Cmd!Interruption, Cmd!Done, Cmd!NoInterrupt, Cmd!Request,
     Cmd!Prepare, Turn!serverVars, Turn!Clocks, Turn!Interruption, Turn!Done,
     Turn!NoInterrupt, Turn!Request, Turn!Prepare
<1>5. Cmd!StartTurn <=> Turn(First)!StartTurn
  BY <1>1, <1>2 DEF
     Cmd!serverVars, Cmd!Clocks, Cmd!Interruption, Cmd!Done, Cmd!StartTurn, Turn!serverVars,
     Turn!Clocks, Turn!Interruption, Turn!Done, Turn!StartTurn
<1>6. Cmd!NoteInterruption <=> Turn(First)!NoteInterruption
  BY <1>1, <1>2 DEF
     Cmd!serverVars, Cmd!Clocks, Cmd!Interruption, Cmd!NoteInterruption, Turn!serverVars,
     Turn!Clocks, Turn!Interruption, Turn!NoteInterruption
<1>7. Cmd!GiveUpStart <=> Turn(First)!GiveUpStart
  BY <1>1, <1>2 DEF
     Cmd!serverVars, Cmd!Clocks, Cmd!Done, Cmd!GiveUpStart, Turn!serverVars, Turn!Clocks,
     Turn!Done, Turn!GiveUpStart
<1>8. Cmd!ReadStartResponse <=> Turn(First)!ReadStartResponse
  BY <1>1, <1>2 DEF
     Cmd!serverVars, Cmd!Terminal, Cmd!Clocks, Cmd!Done, Cmd!SendInterrupt, Cmd!NoInterrupt,
     Cmd!ResultOf, Cmd!Begun, Cmd!Read, Cmd!Got, Cmd!ReadStartResponse, Turn!serverVars,
     Turn!Terminal, Turn!Clocks, Turn!Done, Turn!SendInterrupt, Turn!NoInterrupt,
     Turn!ResultOf, Turn!Begun, Turn!Read, Turn!Got, Turn!ReadStartResponse
<1>9. Cmd!EndByInterrupt <=> Turn(First)!EndByInterrupt
  BY <1>1, <1>2 DEF
     Cmd!serverVars, Cmd!Clocks, Cmd!Interruption, Cmd!Done, Cmd!SendInterrupt,
     Cmd!EndByInterrupt, Turn!serverVars, Turn!Clocks, Turn!Interruption, Turn!Done,
     Turn!SendInterrupt, Turn!EndByInterrupt
<1>10. Cmd!ReadMessage <=> Turn(First)!ReadMessage
  BY <1>1, <1>2 DEF
     Cmd!serverVars, Cmd!Clocks, Cmd!Interruption, Cmd!Done, Cmd!SendInterrupt,
     Cmd!NoInterrupt, Cmd!ResultOf, Cmd!Read, Cmd!Got, Cmd!Kept, Cmd!Ours, Cmd!ReadMessage,
     Turn!serverVars, Turn!Clocks, Turn!Interruption, Turn!Done, Turn!SendInterrupt,
     Turn!NoInterrupt, Turn!ResultOf, Turn!Read, Turn!Got, Turn!Kept, Turn!Ours,
     Turn!ReadMessage
<1>11. Cmd!Worker <=> Turn(First)!Worker
  BY <1>4, <1>5, <1>6, <1>7, <1>8, <1>9, <1>10
     DEF Cmd!Worker, Turn!Worker
<1>12. Cmd!AnswerStart <=> Turn(First)!AnswerStart
  BY <1>1, <1>2 DEF
     Cmd!workerVars, Cmd!Clocks, Cmd!Msg, Cmd!AnswerStart, Turn!workerVars, Turn!Clocks,
     Turn!Msg, Turn!AnswerStart
<1>13. Cmd!TellStarted <=> Turn(First)!TellStarted
  BY <1>1, <1>2 DEF
     Cmd!workerVars, Cmd!Clocks, Cmd!Msg, Cmd!TellStarted, Turn!workerVars, Turn!Clocks,
     Turn!Msg, Turn!TellStarted
<1>14. Cmd!Chatter <=> Turn(First)!Chatter
  BY <1>1, <1>2 DEF
     Cmd!workerVars, Cmd!Clocks, Cmd!Send, Cmd!Msg, Cmd!Chatter, Turn!workerVars,
     Turn!Clocks, Turn!Send, Turn!Msg, Turn!Chatter
<1>15. Cmd!FatalError <=> Turn(First)!FatalError
  BY <1>1, <1>2 DEF
     Cmd!workerVars, Cmd!Clocks, Cmd!Msg, Cmd!FatalError, Turn!workerVars, Turn!Clocks,
     Turn!Msg, Turn!FatalError
<1>16. Cmd!HandleInterrupt <=> Turn(First)!HandleInterrupt
  BY <1>1, <1>2 DEF
     Cmd!workerVars, Cmd!Clocks, Cmd!Msg, Cmd!HandleInterrupt, Turn!workerVars, Turn!Clocks,
     Turn!Msg, Turn!HandleInterrupt
<1>17. Cmd!Close <=> Turn(First)!Close
  BY <1>1, <1>2 DEF
     Cmd!workerVars, Cmd!Clocks, Cmd!Send, Cmd!Msg, Cmd!Close, Turn!workerVars, Turn!Clocks,
     Turn!Send, Turn!Msg, Turn!Close
<1>18. Cmd!Cancel <=> Turn(First)!Cancel
  BY <1>1, <1>2 DEF
     Cmd!workerVars, Cmd!serverVars, Cmd!Cancel, Turn!workerVars, Turn!serverVars,
     Turn!Cancel
<1>19. Cmd!Deadline <=> Turn(First)!Deadline
  BY <1>1, <1>2 DEF
     Cmd!workerVars, Cmd!serverVars, Cmd!Deadline, Turn!workerVars, Turn!serverVars,
     Turn!Deadline
<1>20. Cmd!StopDeadline <=> Turn(First)!StopDeadline
  BY <1>1, <1>2 DEF
     Cmd!workerVars, Cmd!serverVars, Cmd!StopDeadline, Turn!workerVars, Turn!serverVars,
     Turn!StopDeadline
<1>21. Cmd!Over <=> Turn(First)!Over
  BY <1>1, <1>2 DEF
     Cmd!workerVars, Cmd!serverVars, Cmd!vars, Cmd!Over, Turn!workerVars, Turn!serverVars,
     Turn!vars, Turn!Over
<1>22. Cmd!Ends = Turn(First)!Ends /\ \A s : Cmd!EndTurn(s) <=> Turn(First)!EndTurn(s)
  BY <1>1, <1>2 DEF
     Cmd!workerVars, Cmd!Ends, Cmd!Clocks, Cmd!Msg, Cmd!EndTurn, Turn!workerVars, Turn!Ends,
     Turn!Clocks, Turn!Msg, Turn!EndTurn
<1>23. Cmd!Next <=> Turn(First)!Next
  BY <1>11, <1>12, <1>13, <1>14, <1>15, <1>16, <1>17, <1>18, <1>19, <1>20, <1>21, <1>22
     DEF Cmd!Next, Turn!Next
<1> QED
  BY <1>3, <1>23 DEF Cmd!vars, Turn!vars, Cmd!workerVars, Turn!workerVars, Cmd!serverVars, Turn!serverVars

LEMMA TidyIsTurn ==
    /\ Tidy!Init <=> Turn(Second)!Init
    /\ [Tidy!Next]_(Tidy!vars) <=> [Turn(Second)!Next]_(Turn(Second)!vars)
<1>1. /\ Second.deltas = {} /\ Second.outputMax = 3 /\ Second.messages = 2 /\ Second.early = FALSE
  BY DEF Second
<1>2. \A d : Tidy!Fitting(d) = Turn(Second)!Fitting(d)
  BY <1>1 DEF Tidy!Fitting, Turn!Fitting, Tidy!Max, Turn!Max
<1>3. (Tidy!Init <=> Turn(Second)!Init) /\ Tidy!vars = Turn(Second)!vars
  BY <1>1, <1>2 DEF
     Tidy!workerVars, Tidy!serverVars, Tidy!vars, Tidy!Init, Turn!workerVars,
     Turn!serverVars, Turn!vars, Turn!Init
<1>4. Tidy!Prepare <=> Turn(Second)!Prepare
  BY <1>1, <1>2 DEF
     Tidy!serverVars, Tidy!Clocks, Tidy!Interruption, Tidy!Done, Tidy!NoInterrupt,
     Tidy!Request, Tidy!Prepare, Turn!serverVars, Turn!Clocks, Turn!Interruption, Turn!Done,
     Turn!NoInterrupt, Turn!Request, Turn!Prepare
<1>5. Tidy!StartTurn <=> Turn(Second)!StartTurn
  BY <1>1, <1>2 DEF
     Tidy!serverVars, Tidy!Clocks, Tidy!Interruption, Tidy!Done, Tidy!StartTurn,
     Turn!serverVars, Turn!Clocks, Turn!Interruption, Turn!Done, Turn!StartTurn
<1>6. Tidy!NoteInterruption <=> Turn(Second)!NoteInterruption
  BY <1>1, <1>2 DEF
     Tidy!serverVars, Tidy!Clocks, Tidy!Interruption, Tidy!NoteInterruption, Turn!serverVars,
     Turn!Clocks, Turn!Interruption, Turn!NoteInterruption
<1>7. Tidy!GiveUpStart <=> Turn(Second)!GiveUpStart
  BY <1>1, <1>2 DEF
     Tidy!serverVars, Tidy!Clocks, Tidy!Done, Tidy!GiveUpStart, Turn!serverVars, Turn!Clocks,
     Turn!Done, Turn!GiveUpStart
<1>8. Tidy!ReadStartResponse <=> Turn(Second)!ReadStartResponse
  BY <1>1, <1>2 DEF
     Tidy!serverVars, Tidy!Terminal, Tidy!Clocks, Tidy!Done, Tidy!SendInterrupt,
     Tidy!NoInterrupt, Tidy!ResultOf, Tidy!Begun, Tidy!Read, Tidy!Got,
     Tidy!ReadStartResponse, Turn!serverVars, Turn!Terminal, Turn!Clocks, Turn!Done,
     Turn!SendInterrupt, Turn!NoInterrupt, Turn!ResultOf, Turn!Begun, Turn!Read, Turn!Got,
     Turn!ReadStartResponse
<1>9. Tidy!EndByInterrupt <=> Turn(Second)!EndByInterrupt
  BY <1>1, <1>2 DEF
     Tidy!serverVars, Tidy!Clocks, Tidy!Interruption, Tidy!Done, Tidy!SendInterrupt,
     Tidy!EndByInterrupt, Turn!serverVars, Turn!Clocks, Turn!Interruption, Turn!Done,
     Turn!SendInterrupt, Turn!EndByInterrupt
<1>10. Tidy!ReadMessage <=> Turn(Second)!ReadMessage
  BY <1>1, <1>2 DEF
     Tidy!serverVars, Tidy!Clocks, Tidy!Interruption, Tidy!Done, Tidy!SendInterrupt,
     Tidy!NoInterrupt, Tidy!ResultOf, Tidy!Read, Tidy!Got, Tidy!Kept, Tidy!Ours,
     Tidy!ReadMessage, Turn!serverVars, Turn!Clocks, Turn!Interruption, Turn!Done,
     Turn!SendInterrupt, Turn!NoInterrupt, Turn!ResultOf, Turn!Read, Turn!Got, Turn!Kept,
     Turn!Ours, Turn!ReadMessage
<1>11. Tidy!Worker <=> Turn(Second)!Worker
  BY <1>4, <1>5, <1>6, <1>7, <1>8, <1>9, <1>10
     DEF Tidy!Worker, Turn!Worker
<1>12. Tidy!AnswerStart <=> Turn(Second)!AnswerStart
  BY <1>1, <1>2 DEF
     Tidy!workerVars, Tidy!Clocks, Tidy!Msg, Tidy!AnswerStart, Turn!workerVars, Turn!Clocks,
     Turn!Msg, Turn!AnswerStart
<1>13. Tidy!TellStarted <=> Turn(Second)!TellStarted
  BY <1>1, <1>2 DEF
     Tidy!workerVars, Tidy!Clocks, Tidy!Msg, Tidy!TellStarted, Turn!workerVars, Turn!Clocks,
     Turn!Msg, Turn!TellStarted
<1>14. Tidy!Chatter <=> Turn(Second)!Chatter
  BY <1>1, <1>2 DEF
     Tidy!workerVars, Tidy!Clocks, Tidy!Send, Tidy!Msg, Tidy!Chatter, Turn!workerVars,
     Turn!Clocks, Turn!Send, Turn!Msg, Turn!Chatter
<1>15. Tidy!FatalError <=> Turn(Second)!FatalError
  BY <1>1, <1>2 DEF
     Tidy!workerVars, Tidy!Clocks, Tidy!Msg, Tidy!FatalError, Turn!workerVars, Turn!Clocks,
     Turn!Msg, Turn!FatalError
<1>16. Tidy!HandleInterrupt <=> Turn(Second)!HandleInterrupt
  BY <1>1, <1>2 DEF
     Tidy!workerVars, Tidy!Clocks, Tidy!Msg, Tidy!HandleInterrupt, Turn!workerVars,
     Turn!Clocks, Turn!Msg, Turn!HandleInterrupt
<1>17. Tidy!Close <=> Turn(Second)!Close
  BY <1>1, <1>2 DEF
     Tidy!workerVars, Tidy!Clocks, Tidy!Send, Tidy!Msg, Tidy!Close, Turn!workerVars,
     Turn!Clocks, Turn!Send, Turn!Msg, Turn!Close
<1>18. Tidy!Cancel <=> Turn(Second)!Cancel
  BY <1>1, <1>2 DEF
     Tidy!workerVars, Tidy!serverVars, Tidy!Cancel, Turn!workerVars, Turn!serverVars,
     Turn!Cancel
<1>19. Tidy!Deadline <=> Turn(Second)!Deadline
  BY <1>1, <1>2 DEF
     Tidy!workerVars, Tidy!serverVars, Tidy!Deadline, Turn!workerVars, Turn!serverVars,
     Turn!Deadline
<1>20. Tidy!StopDeadline <=> Turn(Second)!StopDeadline
  BY <1>1, <1>2 DEF
     Tidy!workerVars, Tidy!serverVars, Tidy!StopDeadline, Turn!workerVars, Turn!serverVars,
     Turn!StopDeadline
<1>21. Tidy!Over <=> Turn(Second)!Over
  BY <1>1, <1>2 DEF
     Tidy!workerVars, Tidy!serverVars, Tidy!vars, Tidy!Over, Turn!workerVars,
     Turn!serverVars, Turn!vars, Turn!Over
<1>22. Tidy!Ends = Turn(Second)!Ends /\ \A s : Tidy!EndTurn(s) <=> Turn(Second)!EndTurn(s)
  BY <1>1, <1>2 DEF
     Tidy!workerVars, Tidy!Ends, Tidy!Clocks, Tidy!Msg, Tidy!EndTurn, Turn!workerVars,
     Turn!Ends, Turn!Clocks, Turn!Msg, Turn!EndTurn
<1>23. Tidy!Next <=> Turn(Second)!Next
  BY <1>11, <1>12, <1>13, <1>14, <1>15, <1>16, <1>17, <1>18, <1>19, <1>20, <1>21, <1>22
     DEF Tidy!Next, Turn!Next
<1> QED
  BY <1>3, <1>23 DEF Tidy!vars, Turn!vars, Tidy!workerVars, Turn!workerVars, Tidy!serverVars, Turn!serverVars

LEMMA FamilyIsExec ==
    /\ Family!Init <=> Cli(First)!Init
    /\ [Family!Next]_(Family!vars) <=> [Cli(First)!Next]_(Cli(First)!vars)
<1>1. /\ First.prompt = 2 /\ First.pipe = 1 /\ First.cap = 1 /\ First.timeout = 1
      /\ First.output = 2 /\ First.heirs = TRUE
  BY DEF First
<1> QED
  BY <1>1 DEF
     Family!vars, Family!processVars, Family!outputVars, Family!Streams, Family!Init,
     Family!Produce, Family!TakePrompt, Family!CloseStdin, Family!LeaveHeir,
     Family!HeirExits, Family!Exit, Family!Cancel, Family!Tick, Family!Warning,
     Family!ResultEvents, Family!Return, Family!Spawn, Family!WritePrompt,
     Family!StartReaders, Family!PromptFails, Family!Reap, Family!Killed, Family!PollExit,
     Family!PollCancel, Family!PollTimeout, Family!Keep, Family!Read, Family!EndOfFile,
     Family!Joined, Family!Join, Family!Worker, Family!Readers, Family!Environment,
     Family!Next, Cli!vars, Cli!processVars, Cli!outputVars, Cli!Streams,
     Cli!Init, Cli!Produce, Cli!TakePrompt, Cli!CloseStdin,
     Cli!LeaveHeir, Cli!HeirExits, Cli!Exit, Cli!Cancel, Cli!Tick,
     Cli!Warning, Cli!ResultEvents, Cli!Return, Cli!Spawn,
     Cli!WritePrompt, Cli!StartReaders, Cli!PromptFails, Cli!Reap,
     Cli!Killed, Cli!PollExit, Cli!PollCancel, Cli!PollTimeout, Cli!Keep,
     Cli!Read, Cli!EndOfFile, Cli!Joined, Cli!Join, Cli!Worker,
     Cli!Readers, Cli!Environment, Cli!Next

LEMMA ExecIsExec ==
    /\ Exec!Init <=> Cli(Second)!Init
    /\ [Exec!Next]_(Exec!vars) <=> [Cli(Second)!Next]_(Cli(Second)!vars)
<1>1. /\ Second.prompt = 1 /\ Second.pipe = 1 /\ Second.cap = 1 /\ Second.timeout = 2
      /\ Second.output = 2 /\ Second.heirs = FALSE
  BY DEF Second
<1> QED
  BY <1>1 DEF
     Exec!vars, Exec!processVars, Exec!outputVars, Exec!Streams, Exec!Init, Exec!Produce,
     Exec!TakePrompt, Exec!CloseStdin, Exec!LeaveHeir, Exec!HeirExits, Exec!Exit,
     Exec!Cancel, Exec!Tick, Exec!Warning, Exec!ResultEvents, Exec!Return, Exec!Spawn,
     Exec!WritePrompt, Exec!StartReaders, Exec!PromptFails, Exec!Reap, Exec!Killed,
     Exec!PollExit, Exec!PollCancel, Exec!PollTimeout, Exec!Keep, Exec!Read, Exec!EndOfFile,
     Exec!Joined, Exec!Join, Exec!Worker, Exec!Readers, Exec!Environment, Exec!Next,
     Cli!vars, Cli!processVars, Cli!outputVars, Cli!Streams, Cli!Init,
     Cli!Produce, Cli!TakePrompt, Cli!CloseStdin, Cli!LeaveHeir,
     Cli!HeirExits, Cli!Exit, Cli!Cancel, Cli!Tick, Cli!Warning,
     Cli!ResultEvents, Cli!Return, Cli!Spawn, Cli!WritePrompt,
     Cli!StartReaders, Cli!PromptFails, Cli!Reap, Cli!Killed,
     Cli!PollExit, Cli!PollCancel, Cli!PollTimeout, Cli!Keep, Cli!Read,
     Cli!EndOfFile, Cli!Joined, Cli!Join, Cli!Worker, Cli!Readers,
     Cli!Environment, Cli!Next

\* What the composition keeps: of each part what its proof relies on.
CompositionInv ==
    /\ subject \in {"interaction", "command", "tidy", "family", "exec"}
    /\ IInv
    /\ IF subject = "tidy" THEN TurnInv(Second) ELSE TurnInv(First)
    /\ IF subject = "family" THEN RunInv(First) ELSE RunInv(Second)

LEMMA CompositionStarts == MCInit => CompositionInv
<1> SUFFICES ASSUME MCInit PROVE CompositionInv
  OBVIOUS
<1>1. TurnInv(First) /\ TurnInv(Second)
  <2>1. Cmd!Init /\ Tidy!Init
    BY DEF MCInit, Cmd!Init, Tidy!Init
  <2> QED
    BY <2>1, Bounds, CmdIsTurn, TidyIsTurn, TurnStart
<1>2. RunInv(First) /\ RunInv(Second)
  <2>1. Family!Init /\ Exec!Init
    BY DEF MCInit, Family!Init, Exec!Init, Family!Streams, Exec!Streams
  <2> QED
    BY <2>1, Bounds, FamilyIsExec, ExecIsExec, RunStart
<1> QED
  BY <1>1, <1>2, InitIInv DEF MCInit, CompositionInv

LEMMA CompositionKeeps == CompositionInv /\ [MCNext]_all => CompositionInv'
<1> SUFFICES ASSUME CompositionInv, [MCNext]_all PROVE CompositionInv'
  OBVIOUS
<1>1. UNCHANGED subject
  BY DEF MCNext, all, About, Interacts, Commands, Executes
<1>2. IInv'
  <2>1. [Next]_vars
    BY DEF MCNext, all, Interacts, Commands, Executes
  <2> QED
    BY <2>1, Inductive DEF CompositionInv
<1>3. IF subject = "tidy" THEN TurnInv(Second)' ELSE TurnInv(First)'
  <2>1. IF subject = "tidy" THEN [Tidy!Next]_(Tidy!vars) ELSE [Cmd!Next]_(Cmd!vars)
    BY DEF MCNext, all, About, Interacts, Commands, Executes, command, Cmd!vars, Tidy!vars,
       Cmd!workerVars, Cmd!serverVars, Tidy!workerVars, Tidy!serverVars
  <2> QED
    BY <2>1, Bounds, CmdIsTurn, TidyIsTurn, TurnStep DEF CompositionInv
<1>4. IF subject = "family" THEN RunInv(First)' ELSE RunInv(Second)'
  <2>1. IF subject = "family" THEN [Family!Next]_(Family!vars) ELSE [Exec!Next]_(Exec!vars)
    BY DEF MCNext, all, About, Interacts, Commands, Executes, cli, Family!vars, Exec!vars
  <2> QED
    BY <2>1, Bounds, FamilyIsExec, ExecIsExec, RunStep DEF CompositionInv
<1> QED
  BY <1>1, <1>2, <1>3, <1>4 DEF CompositionInv

LEMMA CompositionHolds == MCSpec => []CompositionInv
BY CompositionStarts, CompositionKeeps, PTL DEF MCSpec

\* Every variable of the composition keeps its type.
THEOREM AllKeepTheirTypes == MCSpec => []TypesAreCorrect
<1>1. CompositionInv => TypesAreCorrect
  <2> SUFFICES ASSUME CompositionInv PROVE TypesAreCorrect
    OBVIOUS
  <2>1. TypeOK
    BY DEF CompositionInv, IInv
  <2>2. IF subject = "tidy" THEN Tidy!TypeOK ELSE Cmd!TypeOK
    BY DEF CompositionInv, TurnInv, Turn!TypeOK, Cmd!TypeOK, Tidy!TypeOK, Turn!Results,
       Cmd!Results, Tidy!Results, Turn!Message, Cmd!Message, Tidy!Message, Turn!Whose,
       Cmd!Whose, Tidy!Whose, Turn!Ends, Cmd!Ends, Tidy!Ends, First, Second
  <2>3. IF subject = "family" THEN Family!TypeOK ELSE Exec!TypeOK
    BY DEF CompositionInv, RunInv, Cli!TypeOK, Family!TypeOK, Exec!TypeOK, Cli!Streams,
       Family!Streams, Exec!Streams, Cli!Outcomes, Family!Outcomes, Exec!Outcomes,
       Cli!Kinds, Family!Kinds, Exec!Kinds, First, Second
  <2> QED
    BY <2>1, <2>2, <2>3 DEF TypesAreCorrect
<1> QED
  BY <1>1, CompositionHolds, PTL

\* What a command reports is about its own turn, and its text fits the limit.
THEOREM ReportsAreOfTheTurn == MCSpec => []ReportIsOfThisTurn
<1>1. CompositionInv => ReportIsOfThisTurn
  <2> SUFFICES ASSUME CompositionInv PROVE ReportIsOfThisTurn
    OBVIOUS
  <2>1. \/ Turn(First)!FinishedIsThisTurn /\ Turn(First)!FailedIsThisTurn /\ Turn(First)!OutputFits
        \/ Turn(Second)!FinishedIsThisTurn /\ Turn(Second)!FailedIsThisTurn /\ Turn(Second)!OutputFits
    BY TurnSays DEF CompositionInv
  <2> QED
    BY <2>1 DEF ReportIsOfThisTurn, Cmd!FinishedIsThisTurn, Cmd!FailedIsThisTurn,
       Cmd!OutputFits,
       Cmd!Ends, Turn!FinishedIsThisTurn, Turn!FailedIsThisTurn, Turn!OutputFits,
       Turn!Ends, First, Second
<1> QED
  BY <1>1, CompositionHolds, PTL

\* What a run of the CLI reports, it has earned.
THEOREM RunsAreEarned == MCSpec => []RunIsEarned
<1>1. CompositionInv => RunIsEarned
  <2> SUFFICES ASSUME CompositionInv PROVE RunIsEarned
    OBVIOUS
  <2>1. \/ Cli(First)!EndMeansReaped /\ Cli(First)!FinishedIsEarned /\ Cli(First)!FinishedIsWhole
        \/ Cli(Second)!EndMeansReaped /\ Cli(Second)!FinishedIsEarned /\ Cli(Second)!FinishedIsWhole
    BY RunSays DEF CompositionInv
  <2> QED
    BY <2>1 DEF RunIsEarned, Family!EndMeansReaped, Family!FinishedIsEarned,
       Family!FinishedIsWhole,
       Family!Streams, Cli!EndMeansReaped, Cli!FinishedIsEarned,
       Cli!FinishedIsWhole, Cli!Streams, First, Second
<1> QED
  BY <1>1, CompositionHolds, PTL
=============================================================================
