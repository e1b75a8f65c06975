----------------------- MODULE InteractionClaimsProofs -----------------------
(***************************************************************************)
(* For any number of requests of operators: one response at a time is on   *)
(* its way, a confirmed event is true, and a 202 means an event.  And what *)
(* HostSessionProofs proves, of the instances that the run checks.         *)
(***************************************************************************)
EXTENDS MCReports, TLAPS

States == {"new", "dispatched", "uncertain", "delivered"}
\* Until the resolution is recorded, the claim is of the handler at work on it.
Owned ==
  resolved = None =>
    \A h \in Requests : at[h] \in Claiming => claim # None /\ claim.response = h /\ ~claim.stale

\* A handler past the recording has an event, and its task does not wait.
Settled ==
  \A h \in Requests :
    /\ at[h] \in {"resume", "drop", "accepted"} => resolved # None
    /\ at[h] \in {"drop", "accepted"} => task # "waiting"

\* What stands for a confirmed delivery is what the app-server got, for as
\* long as it may still be recorded.
Confirmed ==
  /\ \A h \in Requests : ack[h] = "yes" => answered = h
  /\ told # "none" => answered = "auto"
  /\ \A h \in Requests : at[h] \in Claiming \cup {"new", "find", "has", "sweep", "insert", "reread"}
       => keeps[h] = h
  /\ \A h \in Requests : at[h] = "sure" => sure[h]
  /\ RecordedIsUsed
  /\ resolved = None =>
       /\ \A h \in Requests : sure[h] => answered = keeps[h]
       /\ claim # None /\ claim.state = "delivered" => answered = claim.response

IInv == TypeOK /\ Owned /\ Settled /\ Confirmed

LEMMA NewClaim ==
    ASSUME NEW h \in Requests
    PROVE  /\ [response |-> h, state |-> "new", stale |-> FALSE] \in Claim
           /\ [response |-> h, state |-> "new", stale |-> FALSE] # None
<1>1. [response |-> h, state |-> "new", stale |-> FALSE] \in Claim
  BY DEF Claim
<1>2. None \notin Claim
  BY ClaimAssumption DEF Claim
<1> QED
  BY <1>1, <1>2

LEMMA Events ==
    ASSUME NEW r \in Requests \cup {"auto"}, NEW b \in BOOLEAN
    PROVE  Event(r, b) \in Resolution
BY DEF Event, Resolution

LEMMA MarkFrame ==
    ASSUME TypeOK, NEW S \in SUBSET States, NEW s \in States, Mark(S, s)
    PROVE  /\ claim' \in Claim \cup {None} /\ (claim' = None <=> claim = None)
           /\ claim # None =>
                /\ claim'.response = claim.response /\ claim'.state \in {claim.state, s}
                /\ ~claim.stale => ~claim'.stale
<1>1. CASE claim # None /\ claim.state \in S
  <2>1. claim \in Claim /\ claim' = [claim EXCEPT !.state = s, !.stale = FALSE]
    BY <1>1 DEF Mark, TypeOK
  <2>2. claim' = [response |-> claim.response, state |-> s, stale |-> FALSE] /\ claim' \in Claim
    BY <2>1 DEF Claim, States
  <2> QED
    BY <1>1, <2>2, ClaimAssumption DEF Claim
<1>2. CASE ~(claim # None /\ claim.state \in S)
  BY <1>2 DEF Mark, TypeOK
<1> QED
  BY <1>1, <1>2

LEMMA RecoversFrame ==
    ASSUME TypeOK, NEW h \in Requests, Recovers(h)
    PROVE  /\ claim \in Claim /\ claim # None
           /\ at' = [at EXCEPT ![h] = "lookup"]
           /\ keeps' = [keeps EXCEPT ![h] = claim.response]
           /\ keeps' \in [Requests -> Requests]
           /\ sure' = [sure EXCEPT ![h] = claim.state = "delivered"]
           /\ sure' \in [Requests -> BOOLEAN]
<1>1. claim \in Claim /\ claim # None /\ claim.response \in Requests
  BY DEF Recovers, MayHaveArrived, TypeOK, Claim
<1>2. /\ at' = [at EXCEPT ![h] = "lookup"] /\ keeps' = [keeps EXCEPT ![h] = claim.response]
      /\ sure' = [sure EXCEPT ![h] = claim.state = "delivered"]
  BY DEF Recovers, Goto
<1>3. keeps' \in [Requests -> Requests]
  BY <1>1, <1>2 DEF TypeOK
<1>4. sure' \in [Requests -> BOOLEAN]
  BY <1>2 DEF TypeOK
<1> QED
  BY <1>1, <1>2, <1>3, <1>4

LEMMA TypeStep ==
    ASSUME TypeOK, Next
    PROVE  TypeOK'
<1> USE DEF Goto, rows, handler, connector, TypeOK, Claim, Resolution,
          Claiming, Ended
<1>1. ASSUME NEW h \in Requests, Begin(h) PROVE TypeOK'
  BY <1>1 DEF Begin
<1>2. ASSUME NEW h \in Requests, FindClaim(h) PROVE TypeOK'
  <2>1. CASE Recovers(h)
    <3>1. UNCHANGED <<rows, seen, connector, told>>
      BY <1>2 DEF FindClaim
    <3> QED
      BY <2>1, <3>1, RecoversFrame
  <2>2. CASE ~MayHaveArrived /\ Goto(h, "has") /\ UNCHANGED <<keeps, sure>>
    BY <1>2, <2>2 DEF FindClaim
  <2> QED
    BY <1>2, <2>1, <2>2 DEF FindClaim
<1>3. ASSUME NEW h \in Requests, HasResolution(h) PROVE TypeOK'
  BY <1>3 DEF HasResolution
<1>4. ASSUME NEW h \in Requests, DeleteStale(h) PROVE TypeOK'
  BY <1>4 DEF DeleteStale, MayHaveArrived
<1>5. ASSUME NEW h \in Requests, InsertClaim(h) PROVE TypeOK'
  <2>1. CASE claim = None
    <3>1. /\ Goto(h, "mark") /\ claim' = [response |-> h, state |-> "new", stale |-> FALSE]
          /\ UNCHANGED <<active, expired, task, resolved, seen, keeps, sure, connector, told>>
      BY <1>5, <2>1 DEF InsertClaim
    <3>2. claim' \in Claim /\ claim' # None
      BY <3>1, NewClaim
    <3> QED
      BY <1>5, <2>1, <3>1, <3>2 DEF InsertClaim
  <2>2. CASE claim # None
    BY <1>5, <2>2 DEF InsertClaim
  <2> QED
    BY <2>1, <2>2
<1>6. ASSUME NEW h \in Requests, RereadClaim(h) PROVE TypeOK'
  <2>1. CASE Recovers(h)
    <3>1. UNCHANGED <<rows, seen, connector, told>>
      BY <1>6 DEF RereadClaim
    <3> QED
      BY <2>1, <3>1, RecoversFrame
  <2>2. CASE ~MayHaveArrived /\ Goto(h, "refused") /\ UNCHANGED <<keeps, sure>>
    BY <1>6, <2>2 DEF RereadClaim
  <2> QED
    BY <1>6, <2>1, <2>2 DEF RereadClaim
<1>7. ASSUME NEW h \in Requests, MarkStarted(h) PROVE TypeOK'
  <2>1. CASE Mark({"new"}, "dispatched") /\ Goto(h, "send")
    <3>1. /\ Mark({"new"}, "dispatched")
          /\ {"new"} \in SUBSET States
          /\ "dispatched" \in States
      BY <2>1 DEF States
    <3>2. /\ claim' \in Claim \cup {None} /\ (claim' = None <=> claim = None)
          /\ claim # None =>
               /\ claim'.response = claim.response /\ claim'.state \in {claim.state, "dispatched"}
               /\ ~claim.stale => ~claim'.stale
      BY <3>1, MarkFrame
    <3> QED
      BY <1>7, <2>1, <3>2 DEF MarkStarted
  <2>2. CASE Goto(h, "release") /\ UNCHANGED claim
    BY <1>7, <2>2 DEF MarkStarted
  <2> QED
    BY <1>7, <2>1, <2>2 DEF MarkStarted
<1>8. ASSUME NEW h \in Requests, Send(h) PROVE TypeOK'
  BY <1>8 DEF Send
<1>9. ASSUME NEW h \in Requests, HearAck(h) PROVE TypeOK'
  <2>1. CASE Goto(h, "sure") /\ sure' = [sure EXCEPT ![h] = TRUE]
    BY <1>9, <2>1 DEF HearAck
  <2>2. CASE Goto(h, "release") /\ UNCHANGED sure
    BY <1>9, <2>2 DEF HearAck
  <2> QED
    BY <1>9, <2>1, <2>2 DEF HearAck
<1>10. ASSUME NEW h \in Requests, GiveUp(h) PROVE TypeOK'
  BY <1>10 DEF GiveUp
<1>11. ASSUME NEW h \in Requests, MarkUncertain(h) PROVE TypeOK'
  <2>1. /\ Mark({"new", "dispatched"}, "uncertain")
        /\ {"new", "dispatched"} \in SUBSET States
        /\ "uncertain" \in States
    BY <1>11 DEF MarkUncertain, States
  <2>2. claim' \in Claim \cup {None}
    BY <2>1, MarkFrame
  <2> QED
    BY <1>11, <2>2 DEF MarkUncertain
<1>12. ASSUME NEW h \in Requests, MarkDelivered(h) PROVE TypeOK'
  <2>1. CASE Mark({"new", "dispatched", "uncertain"}, "delivered") /\ Goto(h, "lookup")
    <3>1. /\ Mark({"new", "dispatched", "uncertain"}, "delivered")
          /\ {"new", "dispatched", "uncertain"} \in SUBSET States
          /\ "delivered" \in States
      BY <2>1 DEF States
    <3>2. /\ claim' \in Claim \cup {None} /\ (claim' = None <=> claim = None)
          /\ claim # None =>
               /\ claim'.response = claim.response /\ claim'.state \in {claim.state, "delivered"}
               /\ ~claim.stale => ~claim'.stale
      BY <3>1, MarkFrame
    <3> QED
      BY <1>12, <2>1, <3>2 DEF MarkDelivered
  <2>2. CASE Goto(h, "fallback") /\ UNCHANGED claim
    BY <1>12, <2>2 DEF MarkDelivered
  <2> QED
    BY <1>12, <2>1, <2>2 DEF MarkDelivered
<1>13. ASSUME NEW h \in Requests, MarkFallback(h) PROVE TypeOK'
  <2>1. CASE Mark({"new", "dispatched"}, "uncertain")
    <3>1. /\ Mark({"new", "dispatched"}, "uncertain")
          /\ {"new", "dispatched"} \in SUBSET States
          /\ "uncertain" \in States
      BY <2>1 DEF States
    <3>2. /\ claim' \in Claim \cup {None} /\ (claim' = None <=> claim = None)
          /\ claim # None =>
               /\ claim'.response = claim.response /\ claim'.state \in {claim.state, "uncertain"}
               /\ ~claim.stale => ~claim'.stale
      BY <3>1, MarkFrame
    <3> QED
      BY <1>13, <2>1, <3>2 DEF MarkFallback
  <2>2. CASE UNCHANGED claim
    BY <1>13, <2>2 DEF MarkFallback
  <2> QED
    BY <1>13, <2>1, <2>2 DEF MarkFallback
<1>14. ASSUME NEW h \in Requests, Release(h) PROVE TypeOK'
  BY <1>14 DEF Release
<1>15. ASSUME NEW h \in Requests, Lookup(h) PROVE TypeOK'
  BY <1>15 DEF Lookup
<1>16. ASSUME NEW h \in Requests, AppendResolution(h) PROVE TypeOK'
  BY <1>16 DEF AppendResolution, Event
<1>17. ASSUME NEW h \in Requests, Resume(h) PROVE TypeOK'
  BY <1>17 DEF Resume
<1>18. ASSUME NEW h \in Requests, Drop(h) PROVE TypeOK'
  BY <1>18 DEF Drop
<1>19. ASSUME NEW h \in Requests, Lost(h) PROVE TypeOK'
  BY <1>19 DEF Lost
<1>20. ASSUME NEW h \in Requests, TakeResponse(h) PROVE TypeOK'
  BY <1>20 DEF TakeResponse
<1>21. ASSUME NEW h \in Requests, LoseResponse(h) PROVE TypeOK'
  BY <1>21 DEF LoseResponse
<1>22. CASE AnswerByLimit
  BY <1>22 DEF AnswerByLimit
<1>23. CASE RecordAnswer
  <2>1. /\ UNCHANGED <<active, expired, claim, at, seen, keeps, sure, wire, ack, answered>>
        /\ told' \in {"none", "find", "task", "append"} /\ task' \in {task, "running"}
    BY <1>23 DEF RecordAnswer
  <2>2. resolved' \in {resolved, Event("auto", TRUE)}
    BY <1>23 DEF RecordAnswer
  <2>3. resolved' \in Resolution \cup {None}
    <3>1. Event("auto", TRUE) \in Resolution
      BY Events, Zenon
    <3> QED
      BY <2>2, <3>1
  <2> QED
    BY <2>1, <2>3
<1>24. CASE CommandEnds
  BY <1>24 DEF CommandEnds
<1>25. CASE LimitPasses
  BY <1>25 DEF LimitPasses
<1>26. CASE GrowsStale
  BY <1>26 DEF GrowsStale, MayHaveArrived
<1> QED
  BY <1>1, <1>2, <1>3, <1>4, <1>5, <1>6, <1>7, <1>8, <1>9, <1>10, <1>11, <1>12, <1>13,
     <1>14, <1>15, <1>16, <1>17, <1>18, <1>19, <1>20, <1>21, <1>22, <1>23, <1>24,
     <1>25, <1>26 DEF Next, Prepare, Deliver, Record

LEMMA OwnedStep ==
    ASSUME TypeOK, Owned, Settled, Next
    PROVE  Owned'
<1> USE DEF Goto, rows, handler, connector, TypeOK, Owned, Settled, Claim,
          Resolution, Claiming, Ended
<1>1. ASSUME NEW h \in Requests, Begin(h) PROVE Owned'
  BY <1>1 DEF Begin
<1>2. ASSUME NEW h \in Requests, FindClaim(h) PROVE Owned'
  <2>1. CASE Recovers(h)
    <3>1. UNCHANGED <<rows, seen, connector, told>>
      BY <1>2 DEF FindClaim
    <3> QED
      BY <2>1, <3>1, RecoversFrame
  <2>2. CASE ~MayHaveArrived /\ Goto(h, "has") /\ UNCHANGED <<keeps, sure>>
    BY <1>2, <2>2 DEF FindClaim
  <2> QED
    BY <1>2, <2>1, <2>2 DEF FindClaim
<1>3. ASSUME NEW h \in Requests, HasResolution(h) PROVE Owned'
  BY <1>3 DEF HasResolution
<1>4. ASSUME NEW h \in Requests, DeleteStale(h) PROVE Owned'
  BY <1>4 DEF DeleteStale, MayHaveArrived
<1>5. ASSUME NEW h \in Requests, InsertClaim(h) PROVE Owned'
  <2>1. CASE claim = None
    <3>1. /\ Goto(h, "mark") /\ claim' = [response |-> h, state |-> "new", stale |-> FALSE]
          /\ UNCHANGED <<active, expired, task, resolved, seen, keeps, sure, connector, told>>
      BY <1>5, <2>1 DEF InsertClaim
    <3>2. claim' \in Claim /\ claim' # None
      BY <3>1, NewClaim
    <3> QED
      BY <1>5, <2>1, <3>1, <3>2 DEF InsertClaim
  <2>2. CASE claim # None
    BY <1>5, <2>2 DEF InsertClaim
  <2> QED
    BY <2>1, <2>2
<1>6. ASSUME NEW h \in Requests, RereadClaim(h) PROVE Owned'
  <2>1. CASE Recovers(h)
    <3>1. UNCHANGED <<rows, seen, connector, told>>
      BY <1>6 DEF RereadClaim
    <3> QED
      BY <2>1, <3>1, RecoversFrame
  <2>2. CASE ~MayHaveArrived /\ Goto(h, "refused") /\ UNCHANGED <<keeps, sure>>
    BY <1>6, <2>2 DEF RereadClaim
  <2> QED
    BY <1>6, <2>1, <2>2 DEF RereadClaim
<1>7. ASSUME NEW h \in Requests, MarkStarted(h) PROVE Owned'
  <2>1. CASE Mark({"new"}, "dispatched") /\ Goto(h, "send")
    <3>1. /\ Mark({"new"}, "dispatched")
          /\ {"new"} \in SUBSET States
          /\ "dispatched" \in States
      BY <2>1 DEF States
    <3>2. /\ claim' \in Claim \cup {None} /\ (claim' = None <=> claim = None)
          /\ claim # None =>
               /\ claim'.response = claim.response /\ claim'.state \in {claim.state, "dispatched"}
               /\ ~claim.stale => ~claim'.stale
      BY <3>1, MarkFrame
    <3> QED
      BY <1>7, <2>1, <3>2 DEF MarkStarted
  <2>2. CASE Goto(h, "release") /\ UNCHANGED claim
    BY <1>7, <2>2 DEF MarkStarted
  <2> QED
    BY <1>7, <2>1, <2>2 DEF MarkStarted
<1>8. ASSUME NEW h \in Requests, Send(h) PROVE Owned'
  BY <1>8 DEF Send
<1>9. ASSUME NEW h \in Requests, HearAck(h) PROVE Owned'
  BY <1>9 DEF HearAck
<1>10. ASSUME NEW h \in Requests, GiveUp(h) PROVE Owned'
  BY <1>10 DEF GiveUp
<1>11. ASSUME NEW h \in Requests, MarkUncertain(h) PROVE Owned'
  BY <1>11 DEF MarkUncertain, Mark
<1>12. ASSUME NEW h \in Requests, MarkDelivered(h) PROVE Owned'
  <2>1. CASE Mark({"new", "dispatched", "uncertain"}, "delivered") /\ Goto(h, "lookup")
    <3>1. /\ Mark({"new", "dispatched", "uncertain"}, "delivered")
          /\ {"new", "dispatched", "uncertain"} \in SUBSET States
          /\ "delivered" \in States
      BY <2>1 DEF States
    <3>2. /\ claim' \in Claim \cup {None} /\ (claim' = None <=> claim = None)
          /\ claim # None =>
               /\ claim'.response = claim.response /\ claim'.state \in {claim.state, "delivered"}
               /\ ~claim.stale => ~claim'.stale
      BY <3>1, MarkFrame
    <3> QED
      BY <1>12, <2>1, <3>2 DEF MarkDelivered
  <2>2. CASE Goto(h, "fallback") /\ UNCHANGED claim
    BY <1>12, <2>2 DEF MarkDelivered
  <2> QED
    BY <1>12, <2>1, <2>2 DEF MarkDelivered
<1>13. ASSUME NEW h \in Requests, MarkFallback(h) PROVE Owned'
  <2>1. CASE Mark({"new", "dispatched"}, "uncertain")
    <3>1. /\ Mark({"new", "dispatched"}, "uncertain")
          /\ {"new", "dispatched"} \in SUBSET States
          /\ "uncertain" \in States
      BY <2>1 DEF States
    <3>2. /\ claim' \in Claim \cup {None} /\ (claim' = None <=> claim = None)
          /\ claim # None =>
               /\ claim'.response = claim.response /\ claim'.state \in {claim.state, "uncertain"}
               /\ ~claim.stale => ~claim'.stale
      BY <3>1, MarkFrame
    <3> QED
      BY <1>13, <2>1, <3>2 DEF MarkFallback
  <2>2. CASE UNCHANGED claim
    BY <1>13, <2>2 DEF MarkFallback
  <2> QED
    BY <1>13, <2>1, <2>2 DEF MarkFallback
<1>14. ASSUME NEW h \in Requests, Release(h) PROVE Owned'
  BY <1>14 DEF Release
<1>15. ASSUME NEW h \in Requests, Lookup(h) PROVE Owned'
  BY <1>15 DEF Lookup
<1>16. ASSUME NEW h \in Requests, AppendResolution(h) PROVE Owned'
  BY <1>16 DEF AppendResolution, Event
<1>17. ASSUME NEW h \in Requests, Resume(h) PROVE Owned'
  BY <1>17 DEF Resume
<1>18. ASSUME NEW h \in Requests, Drop(h) PROVE Owned'
  BY <1>18 DEF Drop
<1>19. ASSUME NEW h \in Requests, Lost(h) PROVE Owned'
  BY <1>19 DEF Lost
<1>20. ASSUME NEW h \in Requests, TakeResponse(h) PROVE Owned'
  BY <1>20 DEF TakeResponse
<1>21. ASSUME NEW h \in Requests, LoseResponse(h) PROVE Owned'
  BY <1>21 DEF LoseResponse
<1>22. CASE AnswerByLimit
  BY <1>22 DEF AnswerByLimit
<1>23. CASE RecordAnswer
  BY <1>23 DEF RecordAnswer, Event
<1>24. CASE CommandEnds
  BY <1>24 DEF CommandEnds
<1>25. CASE LimitPasses
  BY <1>25 DEF LimitPasses
<1>26. CASE GrowsStale
  BY <1>26 DEF GrowsStale, MayHaveArrived
<1> QED
  BY <1>1, <1>2, <1>3, <1>4, <1>5, <1>6, <1>7, <1>8, <1>9, <1>10, <1>11, <1>12, <1>13,
     <1>14, <1>15, <1>16, <1>17, <1>18, <1>19, <1>20, <1>21, <1>22, <1>23, <1>24,
     <1>25, <1>26 DEF Next, Prepare, Deliver, Record

LEMMA SettledStep ==
    ASSUME TypeOK, Settled, Next
    PROVE  Settled'
<1> USE DEF Goto, rows, handler, connector, TypeOK, Settled, Claim, Resolution,
          Claiming, Ended
<1>1. ASSUME NEW h \in Requests, Begin(h) PROVE Settled'
  BY <1>1 DEF Begin
<1>2. ASSUME NEW h \in Requests, FindClaim(h) PROVE Settled'
  BY <1>2 DEF FindClaim, Recovers, MayHaveArrived
<1>3. ASSUME NEW h \in Requests, HasResolution(h) PROVE Settled'
  BY <1>3 DEF HasResolution
<1>4. ASSUME NEW h \in Requests, DeleteStale(h) PROVE Settled'
  BY <1>4 DEF DeleteStale, MayHaveArrived
<1>5. ASSUME NEW h \in Requests, InsertClaim(h) PROVE Settled'
  BY <1>5 DEF InsertClaim
<1>6. ASSUME NEW h \in Requests, RereadClaim(h) PROVE Settled'
  BY <1>6 DEF RereadClaim, Recovers, MayHaveArrived
<1>7. ASSUME NEW h \in Requests, MarkStarted(h) PROVE Settled'
  BY <1>7 DEF MarkStarted, Mark
<1>8. ASSUME NEW h \in Requests, Send(h) PROVE Settled'
  BY <1>8 DEF Send
<1>9. ASSUME NEW h \in Requests, HearAck(h) PROVE Settled'
  BY <1>9 DEF HearAck
<1>10. ASSUME NEW h \in Requests, GiveUp(h) PROVE Settled'
  BY <1>10 DEF GiveUp
<1>11. ASSUME NEW h \in Requests, MarkUncertain(h) PROVE Settled'
  BY <1>11 DEF MarkUncertain, Mark
<1>12. ASSUME NEW h \in Requests, MarkDelivered(h) PROVE Settled'
  BY <1>12 DEF MarkDelivered, Mark
<1>13. ASSUME NEW h \in Requests, MarkFallback(h) PROVE Settled'
  BY <1>13 DEF MarkFallback, Mark
<1>14. ASSUME NEW h \in Requests, Release(h) PROVE Settled'
  BY <1>14 DEF Release
<1>15. ASSUME NEW h \in Requests, Lookup(h) PROVE Settled'
  BY <1>15 DEF Lookup
<1>16. ASSUME NEW h \in Requests, AppendResolution(h) PROVE Settled'
  BY <1>16, ClaimAssumption DEF AppendResolution, Event
<1>17. ASSUME NEW h \in Requests, Resume(h) PROVE Settled'
  BY <1>17 DEF Resume
<1>18. ASSUME NEW h \in Requests, Drop(h) PROVE Settled'
  BY <1>18 DEF Drop
<1>19. ASSUME NEW h \in Requests, Lost(h) PROVE Settled'
  BY <1>19 DEF Lost
<1>20. ASSUME NEW h \in Requests, TakeResponse(h) PROVE Settled'
  BY <1>20 DEF TakeResponse
<1>21. ASSUME NEW h \in Requests, LoseResponse(h) PROVE Settled'
  BY <1>21 DEF LoseResponse
<1>22. CASE AnswerByLimit
  BY <1>22 DEF AnswerByLimit
<1>23. CASE RecordAnswer
  BY <1>23 DEF RecordAnswer, Event
<1>24. CASE CommandEnds
  BY <1>24 DEF CommandEnds
<1>25. CASE LimitPasses
  BY <1>25 DEF LimitPasses
<1>26. CASE GrowsStale
  BY <1>26 DEF GrowsStale, MayHaveArrived
<1> QED
  BY <1>1, <1>2, <1>3, <1>4, <1>5, <1>6, <1>7, <1>8, <1>9, <1>10, <1>11, <1>12, <1>13,
     <1>14, <1>15, <1>16, <1>17, <1>18, <1>19, <1>20, <1>21, <1>22, <1>23, <1>24,
     <1>25, <1>26 DEF Next, Prepare, Deliver, Record

LEMMA ConfirmedStep ==
    ASSUME TypeOK, Owned, Settled, Confirmed, Next
    PROVE  Confirmed'
<1> USE DEF Goto, rows, handler, connector, TypeOK, Owned, Settled, Confirmed,
          RecordedIsUsed, Claim, Resolution, Claiming, Ended
<1>1. ASSUME NEW h \in Requests, Begin(h) PROVE Confirmed'
  BY <1>1 DEF Begin
<1>2. ASSUME NEW h \in Requests, FindClaim(h) PROVE Confirmed'
  <2>1. CASE Recovers(h)
    <3>1. UNCHANGED <<rows, seen, connector, told>>
      BY <1>2 DEF FindClaim
    <3> QED
      BY <2>1, <3>1, RecoversFrame
  <2>2. CASE ~MayHaveArrived /\ Goto(h, "has") /\ UNCHANGED <<keeps, sure>>
    BY <1>2, <2>2 DEF FindClaim
  <2> QED
    BY <1>2, <2>1, <2>2 DEF FindClaim
<1>3. ASSUME NEW h \in Requests, HasResolution(h) PROVE Confirmed'
  BY <1>3 DEF HasResolution
<1>4. ASSUME NEW h \in Requests, DeleteStale(h) PROVE Confirmed'
  BY <1>4 DEF DeleteStale, MayHaveArrived
<1>5. ASSUME NEW h \in Requests, InsertClaim(h) PROVE Confirmed'
  <2>1. CASE claim = None
    <3>1. /\ Goto(h, "mark") /\ claim' = [response |-> h, state |-> "new", stale |-> FALSE]
          /\ UNCHANGED <<active, expired, task, resolved, seen, keeps, sure, connector, told>>
      BY <1>5, <2>1 DEF InsertClaim
    <3>2. claim' \in Claim /\ claim' # None
      BY <3>1, NewClaim
    <3> QED
      BY <1>5, <2>1, <3>1, <3>2 DEF InsertClaim
  <2>2. CASE claim # None
    BY <1>5, <2>2 DEF InsertClaim
  <2> QED
    BY <2>1, <2>2
<1>6. ASSUME NEW h \in Requests, RereadClaim(h) PROVE Confirmed'
  <2>1. CASE Recovers(h)
    <3>1. UNCHANGED <<rows, seen, connector, told>>
      BY <1>6 DEF RereadClaim
    <3> QED
      BY <2>1, <3>1, RecoversFrame
  <2>2. CASE ~MayHaveArrived /\ Goto(h, "refused") /\ UNCHANGED <<keeps, sure>>
    BY <1>6, <2>2 DEF RereadClaim
  <2> QED
    BY <1>6, <2>1, <2>2 DEF RereadClaim
<1>7. ASSUME NEW h \in Requests, MarkStarted(h) PROVE Confirmed'
  <2>1. CASE Mark({"new"}, "dispatched") /\ Goto(h, "send")
    <3>1. /\ Mark({"new"}, "dispatched")
          /\ {"new"} \in SUBSET States
          /\ "dispatched" \in States
      BY <2>1 DEF States
    <3>2. /\ claim' \in Claim \cup {None} /\ (claim' = None <=> claim = None)
          /\ claim # None =>
               /\ claim'.response = claim.response /\ claim'.state \in {claim.state, "dispatched"}
               /\ ~claim.stale => ~claim'.stale
      BY <3>1, MarkFrame
    <3> QED
      BY <1>7, <2>1, <3>2 DEF MarkStarted
  <2>2. CASE Goto(h, "release") /\ UNCHANGED claim
    BY <1>7, <2>2 DEF MarkStarted
  <2> QED
    BY <1>7, <2>1, <2>2 DEF MarkStarted
<1>8. ASSUME NEW h \in Requests, Send(h) PROVE Confirmed'
  BY <1>8 DEF Send
<1>9. ASSUME NEW h \in Requests, HearAck(h) PROVE Confirmed'
  BY <1>9 DEF HearAck
<1>10. ASSUME NEW h \in Requests, GiveUp(h) PROVE Confirmed'
  BY <1>10 DEF GiveUp
<1>11. ASSUME NEW h \in Requests, MarkUncertain(h) PROVE Confirmed'
  BY <1>11 DEF MarkUncertain, Mark
<1>12. ASSUME NEW h \in Requests, MarkDelivered(h) PROVE Confirmed'
  <2>1. CASE Mark({"new", "dispatched", "uncertain"}, "delivered") /\ Goto(h, "lookup")
    <3>1. /\ Mark({"new", "dispatched", "uncertain"}, "delivered")
          /\ {"new", "dispatched", "uncertain"} \in SUBSET States
          /\ "delivered" \in States
      BY <2>1 DEF States
    <3>2. /\ claim' \in Claim \cup {None} /\ (claim' = None <=> claim = None)
          /\ claim # None =>
               /\ claim'.response = claim.response /\ claim'.state \in {claim.state, "delivered"}
               /\ ~claim.stale => ~claim'.stale
      BY <3>1, MarkFrame
    <3> QED
      BY <1>12, <2>1, <3>2 DEF MarkDelivered
  <2>2. CASE Goto(h, "fallback") /\ UNCHANGED claim
    BY <1>12, <2>2 DEF MarkDelivered
  <2> QED
    BY <1>12, <2>1, <2>2 DEF MarkDelivered
<1>13. ASSUME NEW h \in Requests, MarkFallback(h) PROVE Confirmed'
  <2>1. CASE Mark({"new", "dispatched"}, "uncertain")
    <3>1. /\ Mark({"new", "dispatched"}, "uncertain")
          /\ {"new", "dispatched"} \in SUBSET States
          /\ "uncertain" \in States
      BY <2>1 DEF States
    <3>2. /\ claim' \in Claim \cup {None} /\ (claim' = None <=> claim = None)
          /\ claim # None =>
               /\ claim'.response = claim.response /\ claim'.state \in {claim.state, "uncertain"}
               /\ ~claim.stale => ~claim'.stale
      BY <3>1, MarkFrame
    <3> QED
      BY <1>13, <2>1, <3>2 DEF MarkFallback
  <2>2. CASE UNCHANGED claim
    BY <1>13, <2>2 DEF MarkFallback
  <2> QED
    BY <1>13, <2>1, <2>2 DEF MarkFallback
<1>14. ASSUME NEW h \in Requests, Release(h) PROVE Confirmed'
  BY <1>14 DEF Release
<1>15. ASSUME NEW h \in Requests, Lookup(h) PROVE Confirmed'
  BY <1>15 DEF Lookup
<1>16. ASSUME NEW h \in Requests, AppendResolution(h) PROVE Confirmed'
  BY <1>16 DEF AppendResolution, Event
<1>17. ASSUME NEW h \in Requests, Resume(h) PROVE Confirmed'
  BY <1>17 DEF Resume
<1>18. ASSUME NEW h \in Requests, Drop(h) PROVE Confirmed'
  BY <1>18 DEF Drop
<1>19. ASSUME NEW h \in Requests, Lost(h) PROVE Confirmed'
  BY <1>19 DEF Lost
<1>20. ASSUME NEW h \in Requests, TakeResponse(h) PROVE Confirmed'
  BY <1>20, ClaimAssumption DEF TakeResponse
<1>21. ASSUME NEW h \in Requests, LoseResponse(h) PROVE Confirmed'
  BY <1>21 DEF LoseResponse
<1>22. CASE AnswerByLimit
  BY <1>22, ClaimAssumption DEF AnswerByLimit
<1>23. CASE RecordAnswer
  BY <1>23 DEF RecordAnswer, Event
<1>24. CASE CommandEnds
  BY <1>24 DEF CommandEnds
<1>25. CASE LimitPasses
  BY <1>25 DEF LimitPasses
<1>26. CASE GrowsStale
  BY <1>26 DEF GrowsStale, MayHaveArrived
<1> QED
  BY <1>1, <1>2, <1>3, <1>4, <1>5, <1>6, <1>7, <1>8, <1>9, <1>10, <1>11, <1>12, <1>13,
     <1>14, <1>15, <1>16, <1>17, <1>18, <1>19, <1>20, <1>21, <1>22, <1>23, <1>24,
     <1>25, <1>26 DEF Next, Prepare, Deliver, Record

LEMMA InitIInv == Init => IInv
<1> SUFFICES ASSUME Init PROVE IInv
  OBVIOUS
<1>1. TypeOK
  BY DEF Init, TypeOK
<1>2. Owned /\ Settled /\ Confirmed
  BY DEF Init, Owned, Settled, Confirmed, RecordedIsUsed, Claiming
<1> QED
  BY <1>1, <1>2 DEF IInv

LEMMA StepIInv == IInv /\ [Next]_vars => IInv'
<1> SUFFICES ASSUME IInv, [Next]_vars PROVE IInv'
  OBVIOUS
<1>1. CASE Next
  BY <1>1, TypeStep, OwnedStep, SettledStep, ConfirmedStep DEF IInv
<1>2. CASE UNCHANGED vars
  BY <1>2 DEF vars, rows, handler, connector, IInv, TypeOK, Owned, Settled, Confirmed,
     RecordedIsUsed
<1> QED
  BY <1>1, <1>2

(* The strengthening holds in every reachable state.                        *)
THEOREM Invariant == Spec => []IInv
<1>1. Init => IInv
  BY InitIInv
<1>2. IInv /\ [Next]_vars => IInv'
  BY StepIInv
<1> QED
  BY <1>1, <1>2, PTL DEF Spec

(* The rows and handlers of a resolution have their types                   *)
(* (prepareTurnInteractionResolutionInDb and what follows it).              *)
THEOREM TypesAreKept == Spec => []TypeOK
<1>1. IInv => TypeOK
  BY DEF IInv
<1> QED
  BY <1>1, Invariant, PTL

(* For any number of operators who answer one request at the same time: one *)
(* response is on its way until the resolution is recorded, a confirmed     *)
(* event tells what the app-server got, and an operator who read 202 finds  *)
(* an event (the claim rows of db.ts and the route around them).            *)
THEOREM AnswersAreRecordedTruly == Spec => []ResolutionIsTrue
<1>1. IInv => SendingIsExclusive
  BY DEF IInv, Owned, SendingIsExclusive, Claiming
<1>2. IInv => RecordedIsUsed
  BY DEF IInv, Confirmed
<1>3. IInv => AcceptedIsSettled
  BY DEF IInv, Settled, AcceptedIsSettled
<1>4. IInv => ResolutionIsTrue
  BY <1>1, <1>2, <1>3 DEF ResolutionIsTrue
<1> QED
  BY <1>4, Invariant, PTL

-----------------------------------------------------------------------------
(* The threads in the composition that the run checks: what is proved in    *)
(* HostSessionProofs of the operations on them, of the instances of         *)
(* MCReports.                                                               *)

\* A step is one of those that a behaviour is about, and leaves the others alone.
LEMMA CompositionSteps ==
    ASSUME [MCNext]_all
    PROVE  /\ subject' = subject
           /\ [Next]_vars
           /\ subject = "pages" => [Pages!Next]_(Pages!vars)
           /\ subject # "pages" => [Alone!Next]_(Alone!vars)
           /\ subject = "sync" => [Sync!Next]_(Sync!vars)
           /\ subject = "exact" => [Exact!Next]_(Exact!vars)
           /\ subject = "attach" => [Attach!Next]_(Attach!vars)
           /\ subject \notin {"sync", "exact", "attach"} => UNCHANGED threads
<1>1. subject' = subject
  BY DEF MCNext, About, all
<1>2. [Next]_vars
  BY DEF MCNext, About, all
<1>3. UNCHANGED reports => UNCHANGED Pages!vars /\ UNCHANGED Alone!vars
  BY DEF reports, Pages!vars, Pages!files, Pages!connector, Alone!vars, Alone!files,
     Alone!connector
<1>4. /\ subject = "pages" => Pages!Next \/ UNCHANGED reports
      /\ subject # "pages" => Alone!Next \/ UNCHANGED reports
  BY DEF MCNext, About, all
<1>5. /\ subject = "sync" => [Sync!Next]_(Sync!vars)
      /\ subject = "exact" => [Exact!Next]_(Exact!vars)
      /\ subject = "attach" => [Attach!Next]_(Attach!vars)
  BY DEF MCNext, About, all, threads, Sync!vars, Sync!server, Sync!scan, Exact!vars,
     Exact!server, Exact!scan, Attach!vars, Attach!server, Attach!scan
<1>6. subject \notin {"sync", "exact", "attach"} => UNCHANGED threads
  BY DEF MCNext, About, all
<1> QED
  BY <1>1, <1>2, <1>3, <1>4, <1>5, <1>6

OfSync == INSTANCE HostSessionProofs
  WITH op <- kind, seen <- shown, Threads <- {root, kid, kid2, other}, SessionId <- Tree,
       Wanted <- root,
       Ops <- {"archive", "unarchive"}, PageSize <- 1, MaxPages <- 2, MaxTouches <- 0,
       Sessions <- {1, 2}, AppThreads <- {t1, t2, t3},
       ThreadSession <- [t \in {t1, t2, t3} |-> IF t = t3 THEN 2 ELSE 1],
       MaxSessions <- 1, MetaScan <- 2, RolloutScan <- 1, PageCap <- 1, WorkerCut <- 1,
       Handlers <- {1},
       Asks <- {"refresh"}, MaxWrites <- 3, MaxReports <- 2, active <- open, wire <- reported,
       handler <- handling, doing <- op,
       Dated <- TRUE, FileScan <- 1, LineScan <- 1, HistoryScan <- 1, Limit <- 1, MaxAttaches <- 0,
       files <- <<>>, path <- 0, events <- <<>>, clipped <- FALSE, there <- {}, thread <- <<>>,
       attaches <- 0

\* Sync: the instance there and here is the same.
LEMMA SyncWords ==
    /\ \A S : Sync!ToSet(S) = OfSync!ToSet(S) /\ Sync!SetToSeqs(S) = OfSync!SetToSeqs(S)
         /\ Sync!Min(S) = OfSync!Min(S)
    /\ \A f : Sync!IsInjective(f) <=> OfSync!IsInjective(f)
    /\ \A f, S : Sync!Only(f, S) = OfSync!Only(f, S)
    /\ \A S : Sync!IsFiniteSet(S) <=> OfSync!IsFiniteSet(S)
<1>1. \A S : Sync!ToSet(S) = OfSync!ToSet(S)
  BY DEF Sync!ToSet, OfSync!ToSet
<1>2. \A f : Sync!IsInjective(f) <=> OfSync!IsInjective(f)
  BY DEF Sync!IsInjective, OfSync!IsInjective
<1>6. \A S : (Sync!IsFiniteSet(S) <=> OfSync!IsFiniteSet(S))
        /\ Sync!Cardinality(S) = OfSync!Cardinality(S)
  BY Zenon DEF Sync!IsFiniteSet, OfSync!IsFiniteSet, Sync!Cardinality, OfSync!Cardinality
<1>3. \A S : Sync!SetToSeqs(S) = OfSync!SetToSeqs(S)
  BY <1>6, Zenon DEF Sync!SetToSeqs, OfSync!SetToSeqs
<1>4. \A S : Sync!Min(S) = OfSync!Min(S)
  BY Zenon DEF Sync!Min, OfSync!Min
<1>5. \A f, S : Sync!Only(f, S) = OfSync!Only(f, S)
  BY Zenon DEF Sync!Only, OfSync!Only
<1> QED
  BY <1>1, <1>2, <1>3, <1>4, <1>5, <1>6

LEMMA SyncIsThreads ==
    /\ Sync!Init <=> OfSync!Init
    /\ [Sync!Next]_(Sync!vars) <=> [OfSync!Next]_(OfSync!vars)
    /\ OfSync!ThreadAssumption
<1>1. /\ Sync!Side <=> OfSync!Side
      /\ Sync!SessionOf(rollout) = OfSync!SessionOf(rollout)
           /\ Sync!SessionOf(chosen) = OfSync!SessionOf(chosen)
  BY DEF Sync!Side, OfSync!Side, Sync!SessionOf, OfSync!SessionOf
<1>2. Sync!Listed = OfSync!Listed
  BY <1>1, SyncWords DEF Sync!Listed, OfSync!Listed
<1>3. Sync!Page = OfSync!Page /\ (Sync!HasNext <=> OfSync!HasNext)
  BY <1>2, SyncWords DEF Sync!Page, OfSync!Page, Sync!HasNext, OfSync!HasNext
<1>4. Sync!Exact = OfSync!Exact /\ Sync!Matched = OfSync!Matched
  BY <1>3, SyncWords DEF Sync!Exact, OfSync!Exact, Sync!Matched, OfSync!Matched
<1>5. Sync!AllFound = OfSync!AllFound /\ (Sync!LastPage <=> OfSync!LastPage)
  BY <1>3, <1>4, SyncWords DEF Sync!AllFound, OfSync!AllFound, Sync!LastPage, OfSync!LastPage
<1>6. Sync!Init <=> OfSync!Init
  BY SyncWords DEF Sync!Init, OfSync!Init, Sync!FirstStep, OfSync!FirstStep
<1>7. \A o : Sync!Begin(o) <=> OfSync!Begin(o)
  BY <1>1, <1>2, <1>3, <1>4, <1>5, SyncWords DEF
     Sync!FirstStep, Sync!Begin, OfSync!FirstStep, OfSync!Begin
<1>8. Sync!ReadPage <=> OfSync!ReadPage
  BY <1>1, <1>2, <1>3, <1>4, <1>5, SyncWords DEF
     Sync!server, Sync!BudgetSpent, Sync!ScanEnds, Sync!ReadOn, Sync!ReadPage, OfSync!server,
     OfSync!BudgetSpent, OfSync!ScanEnds, OfSync!ReadOn, OfSync!ReadPage
<1>9. Sync!ResolveSource <=> OfSync!ResolveSource
  BY <1>1, <1>2, <1>3, <1>4, <1>5, SyncWords DEF
     Sync!server, Sync!scan, Sync!End, Sync!Source, Sync!Exhausted, Sync!Found, Sync!Goto,
     Sync!ResolveSource, OfSync!server, OfSync!scan, OfSync!End, OfSync!Source,
     OfSync!Exhausted, OfSync!Found, OfSync!Goto, OfSync!ResolveSource
<1>10. Sync!ResolveTarget <=> OfSync!ResolveTarget
  BY <1>1, <1>2, <1>3, <1>4, <1>5, SyncWords DEF
     Sync!server, Sync!scan, Sync!End, Sync!Source, Sync!Target, Sync!Exhausted, Sync!Found,
     Sync!Goto, Sync!ResolveTarget, OfSync!server, OfSync!scan, OfSync!End, OfSync!Source,
     OfSync!Target, OfSync!Exhausted, OfSync!Found, OfSync!Goto, OfSync!ResolveTarget
<1>11. Sync!ResolveFirst <=> OfSync!ResolveFirst
  BY <1>1, <1>2, <1>3, <1>4, <1>5, SyncWords DEF
     Sync!server, Sync!scan, Sync!Found, Sync!Goto, Sync!ResolveFirst, OfSync!server,
     OfSync!scan, OfSync!Found, OfSync!Goto, OfSync!ResolveFirst
<1>12. Sync!NoRollout <=> OfSync!NoRollout
  BY <1>1, <1>2, <1>3, <1>4, <1>5, SyncWords DEF
     Sync!server, Sync!scan, Sync!End, Sync!FoundRollout, Sync!NoRollout, OfSync!server,
     OfSync!scan, OfSync!End, OfSync!FoundRollout, OfSync!NoRollout
<1>13. Sync!ResumeRollout <=> OfSync!ResumeRollout
  BY <1>1, <1>2, <1>3, <1>4, <1>5, SyncWords DEF
     Sync!scan, Sync!End, Sync!Goto, Sync!FoundRollout, Sync!Loaded, Sync!ResumeRollout,
     OfSync!scan, OfSync!End, OfSync!Goto, OfSync!FoundRollout, OfSync!Loaded,
     OfSync!ResumeRollout
<1>14. Sync!Update <=> OfSync!Update
  BY <1>1, <1>2, <1>3, <1>4, <1>5, SyncWords DEF
     Sync!scan, Sync!Changed, Sync!Update, OfSync!scan, OfSync!Changed, OfSync!Update
<1>15. Sync!UpdateDone <=> OfSync!UpdateDone
  BY <1>1, <1>2, <1>3, <1>4, <1>5, SyncWords DEF
     Sync!server, Sync!scan, Sync!End, Sync!Goto, Sync!UpdateDone, OfSync!server,
     OfSync!scan, OfSync!End, OfSync!Goto, OfSync!UpdateDone
<1>16. Sync!Resume <=> OfSync!Resume
  BY <1>1, <1>2, <1>3, <1>4, <1>5, SyncWords DEF
     Sync!server, Sync!scan, Sync!End, Sync!Resume, OfSync!server, OfSync!scan, OfSync!End,
     OfSync!Resume
<1>17. Sync!Create <=> OfSync!Create
  BY <1>1, <1>2, <1>3, <1>4, <1>5, SyncWords DEF
     Sync!scan, Sync!End, Sync!Create, OfSync!scan, OfSync!End, OfSync!Create
<1>18. Sync!Fail <=> OfSync!Fail
  BY <1>1, <1>2, <1>3, <1>4, <1>5, SyncWords DEF
     Sync!scan, Sync!End, Sync!FoundRollout, Sync!Loaded, Sync!Changed, Sync!Fail,
     OfSync!scan, OfSync!End, OfSync!FoundRollout, OfSync!Loaded, OfSync!Changed, OfSync!Fail
<1>19. \A t : Sync!Touch(t) <=> OfSync!Touch(t)
  BY <1>1, <1>2, <1>3, <1>4, <1>5, SyncWords DEF
     Sync!scan, Sync!Touch, OfSync!scan, OfSync!Touch
<1>20. Sync!Next <=> OfSync!Next
  BY <1>7, <1>8, <1>9, <1>10, <1>11, <1>12, <1>13, <1>14, <1>15, <1>16, <1>17, <1>18, <1>19
     DEF Sync!Next, OfSync!Next, Sync!Operation, OfSync!Operation
<1>21. Sync!vars = OfSync!vars /\ Sync!vars' = OfSync!vars'
  BY DEF Sync!vars, OfSync!vars, Sync!server, OfSync!server, Sync!scan, OfSync!scan
<1>22. OfSync!ThreadAssumption
  BY MCThreadAssumption, SyncWords DEF Sync!ThreadAssumption, OfSync!ThreadAssumption
<1> QED
  BY <1>6, <1>20, <1>21, <1>22

\* Alone: the instance there and here is the same.
LEMMA AloneWords ==
    /\ \A S : Alone!ToSet(S) = OfSync!Reports!ToSet(S)
         /\ Alone!SetToSeqs(S) = OfSync!Reports!SetToSeqs(S)
    /\ \A S : Alone!Min(S) = OfSync!Reports!Min(S) /\ Alone!Max(S) = OfSync!Reports!Max(S)
    /\ \A S : (Alone!IsFiniteSet(S) <=> OfSync!Reports!IsFiniteSet(S))
         /\ Alone!Cardinality(S) = OfSync!Reports!Cardinality(S)
<1>1. \A S : Alone!ToSet(S) = OfSync!Reports!ToSet(S)
  BY DEF Alone!ToSet, OfSync!Reports!ToSet
<1>2. \A S : (Alone!IsFiniteSet(S) <=> OfSync!Reports!IsFiniteSet(S))
        /\ Alone!Cardinality(S) = OfSync!Reports!Cardinality(S)
  BY Zenon DEF Alone!IsFiniteSet, OfSync!Reports!IsFiniteSet, Alone!Cardinality,
     OfSync!Reports!Cardinality
<1>3. \A S : Alone!SetToSeqs(S) = OfSync!Reports!SetToSeqs(S)
  BY <1>2, Zenon DEF Alone!SetToSeqs, OfSync!Reports!SetToSeqs
<1>4. \A S : Alone!Min(S) = OfSync!Reports!Min(S) /\ Alone!Max(S) = OfSync!Reports!Max(S)
  BY Zenon DEF Alone!Min, OfSync!Reports!Min, Alone!Max, OfSync!Reports!Max
<1> QED
  BY <1>1, <1>2, <1>3, <1>4

LEMMA AloneIsReports ==
    /\ Alone!Init <=> OfSync!Reports!Init
    /\ [Alone!Next]_(Alone!vars) <=> [OfSync!Reports!Next]_(OfSync!Reports!vars)
    /\ OfSync!Reports!ReportAssumption
    /\ Alone!TypeOK <=> OfSync!Reports!TypeOK
    /\ Alone!FullIsWhole <=> OfSync!Reports!FullIsWhole
    /\ Alone!FullReportSettles <=> OfSync!Reports!FullReportSettles
    /\ Alone!KeepsPresence <=> OfSync!Reports!KeepsPresence
<1>1. (\A S : Alone!AppSessions(S) = OfSync!Reports!AppSessions(S))
        /\ Alone!Open = OfSync!Reports!Open /\ Alone!Open' = OfSync!Reports!Open'
  BY DEF
     Alone!AppSessions, Alone!Open, OfSync!Reports!AppSessions, OfSync!Reports!Open
<1>2. \A q, n : Alone!Recent(q, n) = OfSync!Reports!Recent(q, n)
  BY AloneWords DEF
     Alone!Recent, OfSync!Reports!Recent
<1>3. \A s : Alone!IndexTimes(s) = OfSync!Reports!IndexTimes(s)
        /\ Alone!HistoryTimes(s) = OfSync!Reports!HistoryTimes(s)
  BY <1>2, AloneWords DEF
     Alone!IndexTimes, Alone!HistoryTimes, OfSync!Reports!IndexTimes,
     OfSync!Reports!HistoryTimes
<1>4. Alone!InNewestDays = OfSync!Reports!InNewestDays /\ Alone!Scanned = OfSync!Reports!Scanned
  BY AloneWords DEF
     Alone!InNewestDays, Alone!Scanned, OfSync!Reports!InNewestDays, OfSync!Reports!Scanned
<1>5. \A s : Alone!Latest(s) = OfSync!Reports!Latest(s)
  BY <1>3, <1>4, AloneWords DEF
     Alone!RolloutTimes, Alone!LocalTimes, Alone!Latest, OfSync!Reports!RolloutTimes,
     OfSync!Reports!LocalTimes, OfSync!Reports!Latest
<1>6. Alone!Listings = OfSync!Reports!Listings
  BY <1>1, AloneWords DEF
     Alone!Listings, OfSync!Reports!Listings
<1>7. \A q : Alone!Page(q) = OfSync!Reports!Page(q)
  BY AloneWords DEF
     Alone!Page, OfSync!Reports!Page
<1>8. \A q : Alone!HasNext(q) <=> OfSync!Reports!HasNext(q)
  BY <1>7 DEF
     Alone!HasNext, OfSync!Reports!HasNext
<1>9. \A q : Alone!Truncated(q) <=> OfSync!Reports!Truncated(q)
  BY <1>7, <1>8 DEF
     Alone!Truncated, OfSync!Reports!Truncated
<1>10. \A p, s : Alone!AppTime(p, s) = OfSync!Reports!AppTime(p, s)
  BY AloneWords DEF
     Alone!AppTime, OfSync!Reports!AppTime
<1>11. \A p, S : Alone!Drafts(p, S) = OfSync!Reports!Drafts(p, S)
  BY <1>10, AloneWords DEF
     Alone!Drafts, OfSync!Reports!Drafts
<1>12. \A q, S, k, t : Alone!ReportOf(q, S, k, t) = OfSync!Reports!ReportOf(q, S, k, t)
  BY <1>1, AloneWords DEF
     Alone!ReportOf, OfSync!Reports!ReportOf
<1>13. \A s : Alone!WriteIndex(s) <=> OfSync!Reports!WriteIndex(s)
  BY <1>1 DEF
     Alone!connector, Alone!Written, Alone!Elsewhere, Alone!WriteIndex,
     OfSync!Reports!connector, OfSync!Reports!Written, OfSync!Reports!Elsewhere,
     OfSync!Reports!WriteIndex
<1>14. \A s, b : Alone!WriteHistory(s, b) <=> OfSync!Reports!WriteHistory(s, b)
  BY <1>1 DEF
     Alone!connector, Alone!Written, Alone!Elsewhere, Alone!WriteHistory,
     OfSync!Reports!connector, OfSync!Reports!Written, OfSync!Reports!Elsewhere,
     OfSync!Reports!WriteHistory
<1>15. \A s, b : Alone!NewRollout(s, b) <=> OfSync!Reports!NewRollout(s, b)
  BY <1>1 DEF
     Alone!connector, Alone!Written, Alone!Elsewhere, Alone!NewRollout,
     OfSync!Reports!connector, OfSync!Reports!Written, OfSync!Reports!Elsewhere,
     OfSync!Reports!NewRollout
<1>16. \A f : Alone!UseRollout(f) <=> OfSync!Reports!UseRollout(f)
  BY <1>1 DEF
     Alone!connector, Alone!Written, Alone!Elsewhere, Alone!UseRollout,
     OfSync!Reports!connector, OfSync!Reports!Written, OfSync!Reports!Elsewhere,
     OfSync!Reports!UseRollout
<1>17. \A t : Alone!Use(t) <=> OfSync!Reports!Use(t)
  BY <1>1 DEF
     Alone!files, Alone!connector, Alone!Written, Alone!Elsewhere, Alone!Use,
     OfSync!Reports!files, OfSync!Reports!connector, OfSync!Reports!Written,
     OfSync!Reports!Elsewhere, OfSync!Reports!Use
<1>18. \A t : Alone!Close(t) <=> OfSync!Reports!Close(t)
  BY <1>1 DEF
     Alone!files, Alone!connector, Alone!Written, Alone!Elsewhere, Alone!Close,
     OfSync!Reports!files, OfSync!Reports!connector, OfSync!Reports!Written,
     OfSync!Reports!Elsewhere, OfSync!Reports!Close
<1>19. Alone!Refresh <=> OfSync!Reports!Refresh
  BY DEF
     Alone!files, Alone!Ask, Alone!Refresh, OfSync!Reports!files, OfSync!Reports!Ask,
     OfSync!Reports!Refresh
<1>20. \A t : Alone!Archive(t) <=> OfSync!Reports!Archive(t)
  BY <1>1 DEF
     Alone!files, Alone!Ask, Alone!Archive, OfSync!Reports!files, OfSync!Reports!Ask,
     OfSync!Reports!Archive
<1>21. \A t : Alone!Create(t) <=> OfSync!Reports!Create(t)
  BY DEF
     Alone!files, Alone!Written, Alone!Ask, Alone!Create, OfSync!Reports!files,
     OfSync!Reports!Written, OfSync!Reports!Ask, OfSync!Reports!Create
<1>22. Alone!ReadFiles <=> OfSync!Reports!ReadFiles
  BY <1>5 DEF
     Alone!files, Alone!ReadFiles, OfSync!Reports!files, OfSync!Reports!ReadFiles
<1>23. Alone!ReadFails <=> OfSync!Reports!ReadFails
  BY DEF
     Alone!files, Alone!NoReport, Alone!Send, Alone!ReadFails, OfSync!Reports!files,
     OfSync!Reports!NoReport, OfSync!Reports!Send, OfSync!Reports!ReadFails
<1>24. Alone!ListThreads <=> OfSync!Reports!ListThreads
  BY <1>1, <1>6, <1>7, <1>9, <1>11, <1>12, AloneWords DEF
     Alone!files, Alone!Send, Alone!ListThreads, OfSync!Reports!files, OfSync!Reports!Send,
     OfSync!Reports!ListThreads
<1>25. Alone!ListFails <=> OfSync!Reports!ListFails
  BY <1>11, <1>12 DEF
     Alone!files, Alone!Send, Alone!Unlisted, Alone!ListFails, OfSync!Reports!files,
     OfSync!Reports!Send, OfSync!Reports!Unlisted, OfSync!Reports!ListFails
<1>26. Alone!NoAppServer <=> OfSync!Reports!NoAppServer
  BY <1>11, <1>12 DEF
     Alone!files, Alone!Send, Alone!Unlisted, Alone!NoAppServer, OfSync!Reports!files,
     OfSync!Reports!Send, OfSync!Reports!Unlisted, OfSync!Reports!NoAppServer
<1>27. \A h : Alone!Record(h) <=> OfSync!Reports!Record(h)
  BY AloneWords DEF
     Alone!files, Alone!Recording, Alone!Record, OfSync!Reports!files,
     OfSync!Reports!Recording, OfSync!Reports!Record
<1>28. \A h : Alone!FindHostSession(h) <=> OfSync!Reports!FindHostSession(h)
  BY DEF
     Alone!files, Alone!Recording, Alone!FindHostSession, OfSync!Reports!files,
     OfSync!Reports!Recording, OfSync!Reports!FindHostSession
<1>29. \A h : Alone!Upsert(h) <=> OfSync!Reports!Upsert(h)
  BY DEF
     Alone!files, Alone!Recording, Alone!CanUseAbsence, Alone!AppServerPresent, Alone!Upsert,
     OfSync!Reports!files, OfSync!Reports!Recording, OfSync!Reports!CanUseAbsence,
     OfSync!Reports!AppServerPresent, OfSync!Reports!Upsert
<1>30. \A h : Alone!FindMissing(h) <=> OfSync!Reports!FindMissing(h)
  BY AloneWords DEF
     Alone!files, Alone!Recording, Alone!CanUseAbsence, Alone!CanClearMissing,
     Alone!MissingSessions, Alone!FindMissing, OfSync!Reports!files,
     OfSync!Reports!Recording, OfSync!Reports!CanUseAbsence, OfSync!Reports!CanClearMissing,
     OfSync!Reports!MissingSessions, OfSync!Reports!FindMissing
<1>31. \A h : Alone!ClearMissing(h) <=> OfSync!Reports!ClearMissing(h)
  BY DEF
     Alone!files, Alone!Recording, Alone!ClearMissing, OfSync!Reports!files,
     OfSync!Reports!Recording, OfSync!Reports!ClearMissing
<1>32. \A h : Alone!RecordEnds(h) <=> OfSync!Reports!RecordEnds(h)
  BY DEF
     Alone!files, Alone!NoReport, Alone!Quiet, Alone!Recording, Alone!Recorded,
     Alone!RecordEnds, OfSync!Reports!files, OfSync!Reports!NoReport, OfSync!Reports!Quiet,
     OfSync!Reports!Recording, OfSync!Reports!Recorded, OfSync!Reports!RecordEnds
<1>33. Alone!Blocked <=> OfSync!Reports!Blocked
  BY DEF
     Alone!files, Alone!Recording, Alone!Blocked, OfSync!Reports!files,
     OfSync!Reports!Recording, OfSync!Reports!Blocked
<1>34. \A s : Alone!PersistCreated(s) <=> OfSync!Reports!PersistCreated(s)
  BY <1>1 DEF
     Alone!files, Alone!Recording, Alone!PersistCreated, OfSync!Reports!files,
     OfSync!Reports!Recording, OfSync!Reports!PersistCreated
<1>35. Alone!Next <=> OfSync!Reports!Next
  BY <1>13, <1>14, <1>15, <1>16, <1>17, <1>18, <1>19, <1>20, <1>21, <1>22, <1>23, <1>24,
     <1>25, <1>26, <1>27, <1>28, <1>29, <1>30, <1>31, <1>32, <1>33, <1>34 DEF
     Alone!Next, Alone!Host, OfSync!Reports!Next, OfSync!Reports!Host
<1>36. Alone!vars = OfSync!Reports!vars /\ Alone!vars' = OfSync!Reports!vars'
  BY DEF
     Alone!vars, Alone!files, Alone!connector, OfSync!Reports!vars, OfSync!Reports!files,
     OfSync!Reports!connector
<1>37. Alone!Init <=> OfSync!Reports!Init
  BY DEF
     Alone!Init, Alone!Quiet, Alone!NoReport, OfSync!Reports!Init, OfSync!Reports!Quiet,
     OfSync!Reports!NoReport
<1>38. OfSync!Reports!ReportAssumption
  BY MCReportAssumption, AloneWords DEF Alone!ReportAssumption, OfSync!Reports!ReportAssumption
<1>39. Alone!TypeOK <=> OfSync!Reports!TypeOK
  BY DEF
     Alone!TypeOK, Alone!Report, OfSync!Reports!TypeOK, OfSync!Reports!Report
<1>40. Alone!FullIsWhole <=> OfSync!Reports!FullIsWhole
  BY DEF
     Alone!FullIsWhole, Alone!CanUseAbsence, OfSync!Reports!FullIsWhole,
     OfSync!Reports!CanUseAbsence
<1>41. Alone!FullReportSettles <=> OfSync!Reports!FullReportSettles
  BY DEF
     Alone!FullReportSettles, Alone!Recorded, Alone!CanClearMissing, Alone!CanUseAbsence,
     OfSync!Reports!FullReportSettles, OfSync!Reports!Recorded,
     OfSync!Reports!CanClearMissing, OfSync!Reports!CanUseAbsence
<1>42. Alone!KeepsPresence <=> OfSync!Reports!KeepsPresence
  BY DEF
     Alone!KeepsPresence, Alone!CanUseAbsence, OfSync!Reports!KeepsPresence,
     OfSync!Reports!CanUseAbsence
<1> QED
  BY <1>35, <1>36, <1>37, <1>38, <1>39, <1>40, <1>41, <1>42

OfExact == INSTANCE HostSessionProofs
  WITH op <- kind, seen <- shown, Threads <- {root, kid, other}, SessionId <- Rows, Wanted <- root,
       Ops <- {"archive", "unarchive"}, PageSize <- 1, MaxPages <- 1, MaxTouches <- 0,
       Sessions <- {1, 2}, AppThreads <- {t1, t2},
       ThreadSession <- [t \in {t1, t2} |-> IF t = t1 THEN 1 ELSE 2],
       MaxSessions <- 2, MetaScan <- 2, RolloutScan <- 1, PageCap <- 1, WorkerCut <- 1,
       Handlers <- {1, 2},
       Asks <- {"refresh", "archive", "create"}, MaxWrites <- 2, MaxReports <- 2, active <- open,
       wire <- reported, handler <- handling, doing <- op,
       Dated <- TRUE, FileScan <- 1, LineScan <- 1, HistoryScan <- 1, Limit <- 1, MaxAttaches <- 0,
       files <- <<>>, path <- 0, events <- <<>>, clipped <- FALSE, there <- {}, thread <- <<>>,
       attaches <- 0

\* Exact: the instance there and here is the same.
LEMMA ExactWords ==
    /\ \A S : Exact!ToSet(S) = OfExact!ToSet(S) /\ Exact!SetToSeqs(S) = OfExact!SetToSeqs(S)
         /\ Exact!Min(S) = OfExact!Min(S)
    /\ \A f : Exact!IsInjective(f) <=> OfExact!IsInjective(f)
    /\ \A f, S : Exact!Only(f, S) = OfExact!Only(f, S)
    /\ \A S : Exact!IsFiniteSet(S) <=> OfExact!IsFiniteSet(S)
<1>1. \A S : Exact!ToSet(S) = OfExact!ToSet(S)
  BY DEF Exact!ToSet, OfExact!ToSet
<1>2. \A f : Exact!IsInjective(f) <=> OfExact!IsInjective(f)
  BY DEF Exact!IsInjective, OfExact!IsInjective
<1>6. \A S : (Exact!IsFiniteSet(S) <=> OfExact!IsFiniteSet(S))
        /\ Exact!Cardinality(S) = OfExact!Cardinality(S)
  BY Zenon DEF Exact!IsFiniteSet, OfExact!IsFiniteSet, Exact!Cardinality, OfExact!Cardinality
<1>3. \A S : Exact!SetToSeqs(S) = OfExact!SetToSeqs(S)
  BY <1>6, Zenon DEF Exact!SetToSeqs, OfExact!SetToSeqs
<1>4. \A S : Exact!Min(S) = OfExact!Min(S)
  BY Zenon DEF Exact!Min, OfExact!Min
<1>5. \A f, S : Exact!Only(f, S) = OfExact!Only(f, S)
  BY Zenon DEF Exact!Only, OfExact!Only
<1> QED
  BY <1>1, <1>2, <1>3, <1>4, <1>5, <1>6

LEMMA ExactIsThreads ==
    /\ Exact!Init <=> OfExact!Init
    /\ [Exact!Next]_(Exact!vars) <=> [OfExact!Next]_(OfExact!vars)
    /\ OfExact!ThreadAssumption
<1>1. /\ Exact!Side <=> OfExact!Side
      /\ Exact!SessionOf(rollout) = OfExact!SessionOf(rollout)
           /\ Exact!SessionOf(chosen) = OfExact!SessionOf(chosen)
  BY DEF Exact!Side, OfExact!Side, Exact!SessionOf, OfExact!SessionOf
<1>2. Exact!Listed = OfExact!Listed
  BY <1>1, ExactWords DEF Exact!Listed, OfExact!Listed
<1>3. Exact!Page = OfExact!Page /\ (Exact!HasNext <=> OfExact!HasNext)
  BY <1>2, ExactWords DEF Exact!Page, OfExact!Page, Exact!HasNext, OfExact!HasNext
<1>4. Exact!Exact = OfExact!Exact /\ Exact!Matched = OfExact!Matched
  BY <1>3, ExactWords DEF Exact!Exact, OfExact!Exact, Exact!Matched, OfExact!Matched
<1>5. Exact!AllFound = OfExact!AllFound /\ (Exact!LastPage <=> OfExact!LastPage)
  BY <1>3, <1>4, ExactWords DEF Exact!AllFound, OfExact!AllFound, Exact!LastPage,
     OfExact!LastPage
<1>6. Exact!Init <=> OfExact!Init
  BY ExactWords DEF Exact!Init, OfExact!Init, Exact!FirstStep, OfExact!FirstStep
<1>7. \A o : Exact!Begin(o) <=> OfExact!Begin(o)
  BY <1>1, <1>2, <1>3, <1>4, <1>5, ExactWords DEF
     Exact!FirstStep, Exact!Begin, OfExact!FirstStep, OfExact!Begin
<1>8. Exact!ReadPage <=> OfExact!ReadPage
  BY <1>1, <1>2, <1>3, <1>4, <1>5, ExactWords DEF
     Exact!server, Exact!BudgetSpent, Exact!ScanEnds, Exact!ReadOn, Exact!ReadPage,
     OfExact!server, OfExact!BudgetSpent, OfExact!ScanEnds, OfExact!ReadOn, OfExact!ReadPage
<1>9. Exact!ResolveSource <=> OfExact!ResolveSource
  BY <1>1, <1>2, <1>3, <1>4, <1>5, ExactWords DEF
     Exact!server, Exact!scan, Exact!End, Exact!Source, Exact!Exhausted, Exact!Found,
     Exact!Goto, Exact!ResolveSource, OfExact!server, OfExact!scan, OfExact!End,
     OfExact!Source, OfExact!Exhausted, OfExact!Found, OfExact!Goto, OfExact!ResolveSource
<1>10. Exact!ResolveTarget <=> OfExact!ResolveTarget
  BY <1>1, <1>2, <1>3, <1>4, <1>5, ExactWords DEF
     Exact!server, Exact!scan, Exact!End, Exact!Source, Exact!Target, Exact!Exhausted,
     Exact!Found, Exact!Goto, Exact!ResolveTarget, OfExact!server, OfExact!scan, OfExact!End,
     OfExact!Source, OfExact!Target, OfExact!Exhausted, OfExact!Found, OfExact!Goto,
     OfExact!ResolveTarget
<1>11. Exact!ResolveFirst <=> OfExact!ResolveFirst
  BY <1>1, <1>2, <1>3, <1>4, <1>5, ExactWords DEF
     Exact!server, Exact!scan, Exact!Found, Exact!Goto, Exact!ResolveFirst, OfExact!server,
     OfExact!scan, OfExact!Found, OfExact!Goto, OfExact!ResolveFirst
<1>12. Exact!NoRollout <=> OfExact!NoRollout
  BY <1>1, <1>2, <1>3, <1>4, <1>5, ExactWords DEF
     Exact!server, Exact!scan, Exact!End, Exact!FoundRollout, Exact!NoRollout,
     OfExact!server, OfExact!scan, OfExact!End, OfExact!FoundRollout, OfExact!NoRollout
<1>13. Exact!ResumeRollout <=> OfExact!ResumeRollout
  BY <1>1, <1>2, <1>3, <1>4, <1>5, ExactWords DEF
     Exact!scan, Exact!End, Exact!Goto, Exact!FoundRollout, Exact!Loaded,
     Exact!ResumeRollout, OfExact!scan, OfExact!End, OfExact!Goto, OfExact!FoundRollout,
     OfExact!Loaded, OfExact!ResumeRollout
<1>14. Exact!Update <=> OfExact!Update
  BY <1>1, <1>2, <1>3, <1>4, <1>5, ExactWords DEF
     Exact!scan, Exact!Changed, Exact!Update, OfExact!scan, OfExact!Changed, OfExact!Update
<1>15. Exact!UpdateDone <=> OfExact!UpdateDone
  BY <1>1, <1>2, <1>3, <1>4, <1>5, ExactWords DEF
     Exact!server, Exact!scan, Exact!End, Exact!Goto, Exact!UpdateDone, OfExact!server,
     OfExact!scan, OfExact!End, OfExact!Goto, OfExact!UpdateDone
<1>16. Exact!Resume <=> OfExact!Resume
  BY <1>1, <1>2, <1>3, <1>4, <1>5, ExactWords DEF
     Exact!server, Exact!scan, Exact!End, Exact!Resume, OfExact!server, OfExact!scan,
     OfExact!End, OfExact!Resume
<1>17. Exact!Create <=> OfExact!Create
  BY <1>1, <1>2, <1>3, <1>4, <1>5, ExactWords DEF
     Exact!scan, Exact!End, Exact!Create, OfExact!scan, OfExact!End, OfExact!Create
<1>18. Exact!Fail <=> OfExact!Fail
  BY <1>1, <1>2, <1>3, <1>4, <1>5, ExactWords DEF
     Exact!scan, Exact!End, Exact!FoundRollout, Exact!Loaded, Exact!Changed, Exact!Fail,
     OfExact!scan, OfExact!End, OfExact!FoundRollout, OfExact!Loaded, OfExact!Changed,
     OfExact!Fail
<1>19. \A t : Exact!Touch(t) <=> OfExact!Touch(t)
  BY <1>1, <1>2, <1>3, <1>4, <1>5, ExactWords DEF
     Exact!scan, Exact!Touch, OfExact!scan, OfExact!Touch
<1>20. Exact!Next <=> OfExact!Next
  BY <1>7, <1>8, <1>9, <1>10, <1>11, <1>12, <1>13, <1>14, <1>15, <1>16, <1>17, <1>18, <1>19
     DEF Exact!Next, OfExact!Next, Exact!Operation, OfExact!Operation
<1>21. Exact!vars = OfExact!vars /\ Exact!vars' = OfExact!vars'
  BY DEF Exact!vars, OfExact!vars, Exact!server, OfExact!server, Exact!scan, OfExact!scan
<1>22. OfExact!ThreadAssumption
  BY MCThreadAssumption, ExactWords DEF Exact!ThreadAssumption, OfExact!ThreadAssumption
<1> QED
  BY <1>6, <1>20, <1>21, <1>22

\* Pages: the instance there and here is the same.
LEMMA PagesWords ==
    /\ \A S : Pages!ToSet(S) = OfExact!Reports!ToSet(S)
         /\ Pages!SetToSeqs(S) = OfExact!Reports!SetToSeqs(S)
    /\ \A S : Pages!Min(S) = OfExact!Reports!Min(S) /\ Pages!Max(S) = OfExact!Reports!Max(S)
    /\ \A S : (Pages!IsFiniteSet(S) <=> OfExact!Reports!IsFiniteSet(S))
         /\ Pages!Cardinality(S) = OfExact!Reports!Cardinality(S)
<1>1. \A S : Pages!ToSet(S) = OfExact!Reports!ToSet(S)
  BY DEF Pages!ToSet, OfExact!Reports!ToSet
<1>2. \A S : (Pages!IsFiniteSet(S) <=> OfExact!Reports!IsFiniteSet(S))
        /\ Pages!Cardinality(S) = OfExact!Reports!Cardinality(S)
  BY Zenon DEF Pages!IsFiniteSet, OfExact!Reports!IsFiniteSet, Pages!Cardinality,
     OfExact!Reports!Cardinality
<1>3. \A S : Pages!SetToSeqs(S) = OfExact!Reports!SetToSeqs(S)
  BY <1>2, Zenon DEF Pages!SetToSeqs, OfExact!Reports!SetToSeqs
<1>4. \A S : Pages!Min(S) = OfExact!Reports!Min(S) /\ Pages!Max(S) = OfExact!Reports!Max(S)
  BY Zenon DEF Pages!Min, OfExact!Reports!Min, Pages!Max, OfExact!Reports!Max
<1> QED
  BY <1>1, <1>2, <1>3, <1>4

LEMMA PagesIsReports ==
    /\ Pages!Init <=> OfExact!Reports!Init
    /\ [Pages!Next]_(Pages!vars) <=> [OfExact!Reports!Next]_(OfExact!Reports!vars)
    /\ OfExact!Reports!ReportAssumption
    /\ Pages!TypeOK <=> OfExact!Reports!TypeOK
    /\ Pages!FullIsWhole <=> OfExact!Reports!FullIsWhole
    /\ Pages!FullReportSettles <=> OfExact!Reports!FullReportSettles
    /\ Pages!KeepsPresence <=> OfExact!Reports!KeepsPresence
<1>1. (\A S : Pages!AppSessions(S) = OfExact!Reports!AppSessions(S))
        /\ Pages!Open = OfExact!Reports!Open /\ Pages!Open' = OfExact!Reports!Open'
  BY DEF
     Pages!AppSessions, Pages!Open, OfExact!Reports!AppSessions, OfExact!Reports!Open
<1>2. \A q, n : Pages!Recent(q, n) = OfExact!Reports!Recent(q, n)
  BY PagesWords DEF
     Pages!Recent, OfExact!Reports!Recent
<1>3. \A s : Pages!IndexTimes(s) = OfExact!Reports!IndexTimes(s)
        /\ Pages!HistoryTimes(s) = OfExact!Reports!HistoryTimes(s)
  BY <1>2, PagesWords DEF
     Pages!IndexTimes, Pages!HistoryTimes, OfExact!Reports!IndexTimes,
     OfExact!Reports!HistoryTimes
<1>4. Pages!InNewestDays = OfExact!Reports!InNewestDays /\ Pages!Scanned = OfExact!Reports!Scanned
  BY PagesWords DEF
     Pages!InNewestDays, Pages!Scanned, OfExact!Reports!InNewestDays, OfExact!Reports!Scanned
<1>5. \A s : Pages!Latest(s) = OfExact!Reports!Latest(s)
  BY <1>3, <1>4, PagesWords DEF
     Pages!RolloutTimes, Pages!LocalTimes, Pages!Latest, OfExact!Reports!RolloutTimes,
     OfExact!Reports!LocalTimes, OfExact!Reports!Latest
<1>6. Pages!Listings = OfExact!Reports!Listings
  BY <1>1, PagesWords DEF
     Pages!Listings, OfExact!Reports!Listings
<1>7. \A q : Pages!Page(q) = OfExact!Reports!Page(q)
  BY PagesWords DEF
     Pages!Page, OfExact!Reports!Page
<1>8. \A q : Pages!HasNext(q) <=> OfExact!Reports!HasNext(q)
  BY <1>7 DEF
     Pages!HasNext, OfExact!Reports!HasNext
<1>9. \A q : Pages!Truncated(q) <=> OfExact!Reports!Truncated(q)
  BY <1>7, <1>8 DEF
     Pages!Truncated, OfExact!Reports!Truncated
<1>10. \A p, s : Pages!AppTime(p, s) = OfExact!Reports!AppTime(p, s)
  BY PagesWords DEF
     Pages!AppTime, OfExact!Reports!AppTime
<1>11. \A p, S : Pages!Drafts(p, S) = OfExact!Reports!Drafts(p, S)
  BY <1>10, PagesWords DEF
     Pages!Drafts, OfExact!Reports!Drafts
<1>12. \A q, S, k, t : Pages!ReportOf(q, S, k, t) = OfExact!Reports!ReportOf(q, S, k, t)
  BY <1>1, PagesWords DEF
     Pages!ReportOf, OfExact!Reports!ReportOf
<1>13. \A s : Pages!WriteIndex(s) <=> OfExact!Reports!WriteIndex(s)
  BY <1>1 DEF
     Pages!connector, Pages!Written, Pages!Elsewhere, Pages!WriteIndex,
     OfExact!Reports!connector, OfExact!Reports!Written, OfExact!Reports!Elsewhere,
     OfExact!Reports!WriteIndex
<1>14. \A s, b : Pages!WriteHistory(s, b) <=> OfExact!Reports!WriteHistory(s, b)
  BY <1>1 DEF
     Pages!connector, Pages!Written, Pages!Elsewhere, Pages!WriteHistory,
     OfExact!Reports!connector, OfExact!Reports!Written, OfExact!Reports!Elsewhere,
     OfExact!Reports!WriteHistory
<1>15. \A s, b : Pages!NewRollout(s, b) <=> OfExact!Reports!NewRollout(s, b)
  BY <1>1 DEF
     Pages!connector, Pages!Written, Pages!Elsewhere, Pages!NewRollout,
     OfExact!Reports!connector, OfExact!Reports!Written, OfExact!Reports!Elsewhere,
     OfExact!Reports!NewRollout
<1>16. \A f : Pages!UseRollout(f) <=> OfExact!Reports!UseRollout(f)
  BY <1>1 DEF
     Pages!connector, Pages!Written, Pages!Elsewhere, Pages!UseRollout,
     OfExact!Reports!connector, OfExact!Reports!Written, OfExact!Reports!Elsewhere,
     OfExact!Reports!UseRollout
<1>17. \A t : Pages!Use(t) <=> OfExact!Reports!Use(t)
  BY <1>1 DEF
     Pages!files, Pages!connector, Pages!Written, Pages!Elsewhere, Pages!Use,
     OfExact!Reports!files, OfExact!Reports!connector, OfExact!Reports!Written,
     OfExact!Reports!Elsewhere, OfExact!Reports!Use
<1>18. \A t : Pages!Close(t) <=> OfExact!Reports!Close(t)
  BY <1>1 DEF
     Pages!files, Pages!connector, Pages!Written, Pages!Elsewhere, Pages!Close,
     OfExact!Reports!files, OfExact!Reports!connector, OfExact!Reports!Written,
     OfExact!Reports!Elsewhere, OfExact!Reports!Close
<1>19. Pages!Refresh <=> OfExact!Reports!Refresh
  BY DEF
     Pages!files, Pages!Ask, Pages!Refresh, OfExact!Reports!files, OfExact!Reports!Ask,
     OfExact!Reports!Refresh
<1>20. \A t : Pages!Archive(t) <=> OfExact!Reports!Archive(t)
  BY <1>1 DEF
     Pages!files, Pages!Ask, Pages!Archive, OfExact!Reports!files, OfExact!Reports!Ask,
     OfExact!Reports!Archive
<1>21. \A t : Pages!Create(t) <=> OfExact!Reports!Create(t)
  BY DEF
     Pages!files, Pages!Written, Pages!Ask, Pages!Create, OfExact!Reports!files,
     OfExact!Reports!Written, OfExact!Reports!Ask, OfExact!Reports!Create
<1>22. Pages!ReadFiles <=> OfExact!Reports!ReadFiles
  BY <1>5 DEF
     Pages!files, Pages!ReadFiles, OfExact!Reports!files, OfExact!Reports!ReadFiles
<1>23. Pages!ReadFails <=> OfExact!Reports!ReadFails
  BY DEF
     Pages!files, Pages!NoReport, Pages!Send, Pages!ReadFails, OfExact!Reports!files,
     OfExact!Reports!NoReport, OfExact!Reports!Send, OfExact!Reports!ReadFails
<1>24. Pages!ListThreads <=> OfExact!Reports!ListThreads
  BY <1>1, <1>6, <1>7, <1>9, <1>11, <1>12, PagesWords DEF
     Pages!files, Pages!Send, Pages!ListThreads, OfExact!Reports!files, OfExact!Reports!Send,
     OfExact!Reports!ListThreads
<1>25. Pages!ListFails <=> OfExact!Reports!ListFails
  BY <1>11, <1>12 DEF
     Pages!files, Pages!Send, Pages!Unlisted, Pages!ListFails, OfExact!Reports!files,
     OfExact!Reports!Send, OfExact!Reports!Unlisted, OfExact!Reports!ListFails
<1>26. Pages!NoAppServer <=> OfExact!Reports!NoAppServer
  BY <1>11, <1>12 DEF
     Pages!files, Pages!Send, Pages!Unlisted, Pages!NoAppServer, OfExact!Reports!files,
     OfExact!Reports!Send, OfExact!Reports!Unlisted, OfExact!Reports!NoAppServer
<1>27. \A h : Pages!Record(h) <=> OfExact!Reports!Record(h)
  BY PagesWords DEF
     Pages!files, Pages!Recording, Pages!Record, OfExact!Reports!files,
     OfExact!Reports!Recording, OfExact!Reports!Record
<1>28. \A h : Pages!FindHostSession(h) <=> OfExact!Reports!FindHostSession(h)
  BY DEF
     Pages!files, Pages!Recording, Pages!FindHostSession, OfExact!Reports!files,
     OfExact!Reports!Recording, OfExact!Reports!FindHostSession
<1>29. \A h : Pages!Upsert(h) <=> OfExact!Reports!Upsert(h)
  BY DEF
     Pages!files, Pages!Recording, Pages!CanUseAbsence, Pages!AppServerPresent, Pages!Upsert,
     OfExact!Reports!files, OfExact!Reports!Recording, OfExact!Reports!CanUseAbsence,
     OfExact!Reports!AppServerPresent, OfExact!Reports!Upsert
<1>30. \A h : Pages!FindMissing(h) <=> OfExact!Reports!FindMissing(h)
  BY PagesWords DEF
     Pages!files, Pages!Recording, Pages!CanUseAbsence, Pages!CanClearMissing,
     Pages!MissingSessions, Pages!FindMissing, OfExact!Reports!files,
     OfExact!Reports!Recording, OfExact!Reports!CanUseAbsence,
     OfExact!Reports!CanClearMissing, OfExact!Reports!MissingSessions,
     OfExact!Reports!FindMissing
<1>31. \A h : Pages!ClearMissing(h) <=> OfExact!Reports!ClearMissing(h)
  BY DEF
     Pages!files, Pages!Recording, Pages!ClearMissing, OfExact!Reports!files,
     OfExact!Reports!Recording, OfExact!Reports!ClearMissing
<1>32. \A h : Pages!RecordEnds(h) <=> OfExact!Reports!RecordEnds(h)
  BY DEF
     Pages!files, Pages!NoReport, Pages!Quiet, Pages!Recording, Pages!Recorded,
     Pages!RecordEnds, OfExact!Reports!files, OfExact!Reports!NoReport,
     OfExact!Reports!Quiet, OfExact!Reports!Recording, OfExact!Reports!Recorded,
     OfExact!Reports!RecordEnds
<1>33. Pages!Blocked <=> OfExact!Reports!Blocked
  BY DEF
     Pages!files, Pages!Recording, Pages!Blocked, OfExact!Reports!files,
     OfExact!Reports!Recording, OfExact!Reports!Blocked
<1>34. \A s : Pages!PersistCreated(s) <=> OfExact!Reports!PersistCreated(s)
  BY <1>1 DEF
     Pages!files, Pages!Recording, Pages!PersistCreated, OfExact!Reports!files,
     OfExact!Reports!Recording, OfExact!Reports!PersistCreated
<1>35. Pages!Next <=> OfExact!Reports!Next
  BY <1>13, <1>14, <1>15, <1>16, <1>17, <1>18, <1>19, <1>20, <1>21, <1>22, <1>23, <1>24,
     <1>25, <1>26, <1>27, <1>28, <1>29, <1>30, <1>31, <1>32, <1>33, <1>34 DEF
     Pages!Next, Pages!Host, OfExact!Reports!Next, OfExact!Reports!Host
<1>36. Pages!vars = OfExact!Reports!vars /\ Pages!vars' = OfExact!Reports!vars'
  BY DEF
     Pages!vars, Pages!files, Pages!connector, OfExact!Reports!vars, OfExact!Reports!files,
     OfExact!Reports!connector
<1>37. Pages!Init <=> OfExact!Reports!Init
  BY DEF
     Pages!Init, Pages!Quiet, Pages!NoReport, OfExact!Reports!Init, OfExact!Reports!Quiet,
     OfExact!Reports!NoReport
<1>38. OfExact!Reports!ReportAssumption
  BY MCReportAssumption, PagesWords DEF Pages!ReportAssumption, OfExact!Reports!ReportAssumption
<1>39. Pages!TypeOK <=> OfExact!Reports!TypeOK
  BY DEF
     Pages!TypeOK, Pages!Report, OfExact!Reports!TypeOK, OfExact!Reports!Report
<1>40. Pages!FullIsWhole <=> OfExact!Reports!FullIsWhole
  BY DEF
     Pages!FullIsWhole, Pages!CanUseAbsence, OfExact!Reports!FullIsWhole,
     OfExact!Reports!CanUseAbsence
<1>41. Pages!FullReportSettles <=> OfExact!Reports!FullReportSettles
  BY DEF
     Pages!FullReportSettles, Pages!Recorded, Pages!CanClearMissing, Pages!CanUseAbsence,
     OfExact!Reports!FullReportSettles, OfExact!Reports!Recorded,
     OfExact!Reports!CanClearMissing, OfExact!Reports!CanUseAbsence
<1>42. Pages!KeepsPresence <=> OfExact!Reports!KeepsPresence
  BY DEF
     Pages!KeepsPresence, Pages!CanUseAbsence, OfExact!Reports!KeepsPresence,
     OfExact!Reports!CanUseAbsence
<1> QED
  BY <1>35, <1>36, <1>37, <1>38, <1>39, <1>40, <1>41, <1>42

OfAttach == INSTANCE HostSessionProofs
  WITH op <- kind, seen <- shown, Threads <- {root, kid, other}, SessionId <- Small, Wanted <- root,
       Ops <- {"ensure", "command", "create"}, PageSize <- 1, MaxPages <- 2, MaxTouches <- 2,
       Sessions <- {1, 2}, AppThreads <- {t1, t2, t3},
       ThreadSession <- [t \in {t1, t2, t3} |-> IF t = t3 THEN 2 ELSE 1],
       MaxSessions <- 1, MetaScan <- 2, RolloutScan <- 1, PageCap <- 1, WorkerCut <- 1,
       Handlers <- {1},
       Asks <- {"refresh"}, MaxWrites <- 3, MaxReports <- 2, active <- open, wire <- reported,
       handler <- handling, doing <- op,
       Dated <- TRUE, FileScan <- 1, LineScan <- 1, HistoryScan <- 1, Limit <- 1, MaxAttaches <- 0,
       files <- <<>>, path <- 0, events <- <<>>, clipped <- FALSE, there <- {}, thread <- <<>>,
       attaches <- 0

\* Attach: the instance there and here is the same.
LEMMA AttachWords ==
    /\ \A S : Attach!ToSet(S) = OfAttach!ToSet(S) /\ Attach!SetToSeqs(S) = OfAttach!SetToSeqs(S)
         /\ Attach!Min(S) = OfAttach!Min(S)
    /\ \A f : Attach!IsInjective(f) <=> OfAttach!IsInjective(f)
    /\ \A f, S : Attach!Only(f, S) = OfAttach!Only(f, S)
    /\ \A S : Attach!IsFiniteSet(S) <=> OfAttach!IsFiniteSet(S)
<1>1. \A S : Attach!ToSet(S) = OfAttach!ToSet(S)
  BY DEF Attach!ToSet, OfAttach!ToSet
<1>2. \A f : Attach!IsInjective(f) <=> OfAttach!IsInjective(f)
  BY DEF Attach!IsInjective, OfAttach!IsInjective
<1>6. \A S : (Attach!IsFiniteSet(S) <=> OfAttach!IsFiniteSet(S))
        /\ Attach!Cardinality(S) = OfAttach!Cardinality(S)
  BY Zenon DEF Attach!IsFiniteSet, OfAttach!IsFiniteSet, Attach!Cardinality,
     OfAttach!Cardinality
<1>3. \A S : Attach!SetToSeqs(S) = OfAttach!SetToSeqs(S)
  BY <1>6, Zenon DEF Attach!SetToSeqs, OfAttach!SetToSeqs
<1>4. \A S : Attach!Min(S) = OfAttach!Min(S)
  BY Zenon DEF Attach!Min, OfAttach!Min
<1>5. \A f, S : Attach!Only(f, S) = OfAttach!Only(f, S)
  BY Zenon DEF Attach!Only, OfAttach!Only
<1> QED
  BY <1>1, <1>2, <1>3, <1>4, <1>5, <1>6

LEMMA AttachIsThreads ==
    /\ Attach!Init <=> OfAttach!Init
    /\ [Attach!Next]_(Attach!vars) <=> [OfAttach!Next]_(OfAttach!vars)
    /\ OfAttach!ThreadAssumption
<1>1. /\ Attach!Side <=> OfAttach!Side
      /\ Attach!SessionOf(rollout) = OfAttach!SessionOf(rollout)
           /\ Attach!SessionOf(chosen) = OfAttach!SessionOf(chosen)
  BY DEF Attach!Side, OfAttach!Side, Attach!SessionOf, OfAttach!SessionOf
<1>2. Attach!Listed = OfAttach!Listed
  BY <1>1, AttachWords DEF Attach!Listed, OfAttach!Listed
<1>3. Attach!Page = OfAttach!Page /\ (Attach!HasNext <=> OfAttach!HasNext)
  BY <1>2, AttachWords DEF Attach!Page, OfAttach!Page, Attach!HasNext, OfAttach!HasNext
<1>4. Attach!Exact = OfAttach!Exact /\ Attach!Matched = OfAttach!Matched
  BY <1>3, AttachWords DEF Attach!Exact, OfAttach!Exact, Attach!Matched, OfAttach!Matched
<1>5. Attach!AllFound = OfAttach!AllFound /\ (Attach!LastPage <=> OfAttach!LastPage)
  BY <1>3, <1>4, AttachWords DEF Attach!AllFound, OfAttach!AllFound, Attach!LastPage,
     OfAttach!LastPage
<1>6. Attach!Init <=> OfAttach!Init
  BY AttachWords DEF Attach!Init, OfAttach!Init, Attach!FirstStep, OfAttach!FirstStep
<1>7. \A o : Attach!Begin(o) <=> OfAttach!Begin(o)
  BY <1>1, <1>2, <1>3, <1>4, <1>5, AttachWords DEF
     Attach!FirstStep, Attach!Begin, OfAttach!FirstStep, OfAttach!Begin
<1>8. Attach!ReadPage <=> OfAttach!ReadPage
  BY <1>1, <1>2, <1>3, <1>4, <1>5, AttachWords DEF
     Attach!server, Attach!BudgetSpent, Attach!ScanEnds, Attach!ReadOn, Attach!ReadPage,
     OfAttach!server, OfAttach!BudgetSpent, OfAttach!ScanEnds, OfAttach!ReadOn,
     OfAttach!ReadPage
<1>9. Attach!ResolveSource <=> OfAttach!ResolveSource
  BY <1>1, <1>2, <1>3, <1>4, <1>5, AttachWords DEF
     Attach!server, Attach!scan, Attach!End, Attach!Source, Attach!Exhausted, Attach!Found,
     Attach!Goto, Attach!ResolveSource, OfAttach!server, OfAttach!scan, OfAttach!End,
     OfAttach!Source, OfAttach!Exhausted, OfAttach!Found, OfAttach!Goto,
     OfAttach!ResolveSource
<1>10. Attach!ResolveTarget <=> OfAttach!ResolveTarget
  BY <1>1, <1>2, <1>3, <1>4, <1>5, AttachWords DEF
     Attach!server, Attach!scan, Attach!End, Attach!Source, Attach!Target, Attach!Exhausted,
     Attach!Found, Attach!Goto, Attach!ResolveTarget, OfAttach!server, OfAttach!scan,
     OfAttach!End, OfAttach!Source, OfAttach!Target, OfAttach!Exhausted, OfAttach!Found,
     OfAttach!Goto, OfAttach!ResolveTarget
<1>11. Attach!ResolveFirst <=> OfAttach!ResolveFirst
  BY <1>1, <1>2, <1>3, <1>4, <1>5, AttachWords DEF
     Attach!server, Attach!scan, Attach!Found, Attach!Goto, Attach!ResolveFirst,
     OfAttach!server, OfAttach!scan, OfAttach!Found, OfAttach!Goto, OfAttach!ResolveFirst
<1>12. Attach!NoRollout <=> OfAttach!NoRollout
  BY <1>1, <1>2, <1>3, <1>4, <1>5, AttachWords DEF
     Attach!server, Attach!scan, Attach!End, Attach!FoundRollout, Attach!NoRollout,
     OfAttach!server, OfAttach!scan, OfAttach!End, OfAttach!FoundRollout, OfAttach!NoRollout
<1>13. Attach!ResumeRollout <=> OfAttach!ResumeRollout
  BY <1>1, <1>2, <1>3, <1>4, <1>5, AttachWords DEF
     Attach!scan, Attach!End, Attach!Goto, Attach!FoundRollout, Attach!Loaded,
     Attach!ResumeRollout, OfAttach!scan, OfAttach!End, OfAttach!Goto, OfAttach!FoundRollout,
     OfAttach!Loaded, OfAttach!ResumeRollout
<1>14. Attach!Update <=> OfAttach!Update
  BY <1>1, <1>2, <1>3, <1>4, <1>5, AttachWords DEF
     Attach!scan, Attach!Changed, Attach!Update, OfAttach!scan, OfAttach!Changed,
     OfAttach!Update
<1>15. Attach!UpdateDone <=> OfAttach!UpdateDone
  BY <1>1, <1>2, <1>3, <1>4, <1>5, AttachWords DEF
     Attach!server, Attach!scan, Attach!End, Attach!Goto, Attach!UpdateDone, OfAttach!server,
     OfAttach!scan, OfAttach!End, OfAttach!Goto, OfAttach!UpdateDone
<1>16. Attach!Resume <=> OfAttach!Resume
  BY <1>1, <1>2, <1>3, <1>4, <1>5, AttachWords DEF
     Attach!server, Attach!scan, Attach!End, Attach!Resume, OfAttach!server, OfAttach!scan,
     OfAttach!End, OfAttach!Resume
<1>17. Attach!Create <=> OfAttach!Create
  BY <1>1, <1>2, <1>3, <1>4, <1>5, AttachWords DEF
     Attach!scan, Attach!End, Attach!Create, OfAttach!scan, OfAttach!End, OfAttach!Create
<1>18. Attach!Fail <=> OfAttach!Fail
  BY <1>1, <1>2, <1>3, <1>4, <1>5, AttachWords DEF
     Attach!scan, Attach!End, Attach!FoundRollout, Attach!Loaded, Attach!Changed,
     Attach!Fail, OfAttach!scan, OfAttach!End, OfAttach!FoundRollout, OfAttach!Loaded,
     OfAttach!Changed, OfAttach!Fail
<1>19. \A t : Attach!Touch(t) <=> OfAttach!Touch(t)
  BY <1>1, <1>2, <1>3, <1>4, <1>5, AttachWords DEF
     Attach!scan, Attach!Touch, OfAttach!scan, OfAttach!Touch
<1>20. Attach!Next <=> OfAttach!Next
  BY <1>7, <1>8, <1>9, <1>10, <1>11, <1>12, <1>13, <1>14, <1>15, <1>16, <1>17, <1>18, <1>19
     DEF Attach!Next, OfAttach!Next, Attach!Operation, OfAttach!Operation
<1>21. Attach!vars = OfAttach!vars /\ Attach!vars' = OfAttach!vars'
  BY DEF Attach!vars, OfAttach!vars, Attach!server, OfAttach!server, Attach!scan, OfAttach!scan
<1>22. OfAttach!ThreadAssumption
  BY MCThreadAssumption, AttachWords DEF Attach!ThreadAssumption, OfAttach!ThreadAssumption
<1> QED
  BY <1>6, <1>20, <1>21, <1>22

\* The recording of reports that Alone does is one after the other.
LEMMA AloneIsSerial == OfSync!Serial
BY DEF OfSync!Serial

\* The invariants of the threads' operations say their types, and the same of a
\* step here and there.
LEMMA TypesOfThreads ==
    /\ OfSync!IInv => Sync!TypeOK
    /\ OfExact!IInv => Exact!TypeOK
    /\ OfAttach!IInv => Attach!TypeOK
<1>1. OfSync!TypeOK => Sync!TypeOK
  BY SyncWords DEF Sync!TypeOK, OfSync!TypeOK, Sync!Scan, OfSync!Scan
<1>2. OfExact!TypeOK => Exact!TypeOK
  BY ExactWords DEF Exact!TypeOK, OfExact!TypeOK, Exact!Scan, OfExact!Scan
<1>3. OfAttach!TypeOK => Attach!TypeOK
  BY AttachWords DEF Attach!TypeOK, OfAttach!TypeOK, Attach!Scan, OfAttach!Scan
<1> QED
  BY <1>1, <1>2, <1>3 DEF OfSync!IInv, OfExact!IInv, OfAttach!IInv

LEMMA MeansTheSame ==
    /\ OfSync!MeansOnly => Sync!MeansOnly
    /\ OfAttach!MeansOnly => Attach!MeansOnly
<1>1. OfSync!MeansOnly => Sync!MeansOnly
  BY DEF Sync!MeansOnly, OfSync!MeansOnly, Sync!SessionOf, OfSync!SessionOf
<1>2. OfAttach!MeansOnly => Attach!MeansOnly
  BY DEF Attach!MeansOnly, OfAttach!MeansOnly, Attach!SessionOf, OfAttach!SessionOf
<1> QED
  BY <1>1, <1>2

\* What the composition keeps: the invariants of those that a behaviour is about,
\* and of the others, which stay as they were at the start.
CompositionInv ==
  /\ subject \in {"answers", "alone", "pages", "sync", "exact", "attach"}
  /\ IInv
  /\ subject = "pages" => OfExact!RepInv /\ OfExact!WritesARow
  /\ subject # "pages" => OfSync!SerialInv
  /\ subject = "sync" => OfSync!IInv
  /\ subject = "exact" => OfExact!IInv
  /\ subject = "attach" => OfAttach!IInv
  /\ subject \notin {"sync", "exact", "attach"} => NoThreads

LEMMA CompositionStarts == MCInit => CompositionInv
<1> SUFFICES ASSUME MCInit PROVE CompositionInv
  OBVIOUS
<1>1. /\ subject \in {"answers", "alone", "pages", "sync", "exact", "attach"}
      /\ Init
      /\ subject = "pages" => Pages!Init
      /\ subject # "pages" => Alone!Init
      /\ subject = "sync" => Sync!Init
      /\ subject = "exact" => Exact!Init
      /\ subject = "attach" => Attach!Init
      /\ subject \notin {"sync", "exact", "attach"} => NoThreads
  BY DEF MCInit
<1>2. /\ OfSync!Init => OfSync!IInv
      /\ OfExact!Init => OfExact!IInv
      /\ OfAttach!Init => OfAttach!IInv
  BY SyncIsThreads, ExactIsThreads, AttachIsThreads, OfSync!InvStart, OfExact!InvStart,
     OfAttach!InvStart
<1>3. Pages!Init => OfExact!RepInv /\ OfExact!WritesARow
  BY PagesIsReports, OfExact!RepBegins
<1>4. Alone!Init => OfSync!SerialInv
  BY AloneIsReports, AloneIsSerial, OfSync!SerialBegins
<1> QED
  BY <1>1, <1>2, <1>3, <1>4, InitIInv, SyncIsThreads, ExactIsThreads, AttachIsThreads
     DEF CompositionInv

LEMMA CompositionKeeps == CompositionInv /\ [MCNext]_all => CompositionInv'
<1> SUFFICES ASSUME CompositionInv, [MCNext]_all PROVE CompositionInv'
  OBVIOUS
<1>1. /\ OfSync!IInv /\ [OfSync!Next]_(OfSync!vars) => OfSync!IInv'
      /\ OfExact!IInv /\ [OfExact!Next]_(OfExact!vars) => OfExact!IInv'
      /\ OfAttach!IInv /\ [OfAttach!Next]_(OfAttach!vars) => OfAttach!IInv'
  BY SyncIsThreads, ExactIsThreads, AttachIsThreads, OfSync!InvStep, OfExact!InvStep,
     OfAttach!InvStep
<1>2. subject = "pages" => OfExact!RepInv' /\ OfExact!WritesARow'
  BY CompositionSteps, PagesIsReports, OfExact!RepGoesOn DEF CompositionInv
<1>3. subject # "pages" => OfSync!SerialInv'
  BY CompositionSteps, AloneIsReports, AloneIsSerial, OfSync!SerialGoesOn DEF CompositionInv
<1>4. subject \notin {"sync", "exact", "attach"} => NoThreads'
  BY CompositionSteps DEF CompositionInv, NoThreads, threads
<1>5. IInv'
  BY CompositionSteps, StepIInv DEF CompositionInv
<1>6. /\ subject = "sync" => OfSync!IInv'
      /\ subject = "exact" => OfExact!IInv'
      /\ subject = "attach" => OfAttach!IInv'
  BY <1>1, CompositionSteps, SyncIsThreads, ExactIsThreads, AttachIsThreads DEF CompositionInv
<1>7. subject' = subject
  BY CompositionSteps
<1> QED
  BY <1>2, <1>3, <1>4, <1>5, <1>6, <1>7 DEF CompositionInv

LEMMA CompositionHolds == MCSpec => []CompositionInv
BY CompositionStarts, CompositionKeeps, PTL DEF MCSpec

(* Every part of the composition has its types.                             *)
THEOREM AllHaveTheirTypes == MCSpec => []TypesAreCorrect
<1>1. CompositionInv => TypesAreCorrect
  <2> SUFFICES ASSUME CompositionInv PROVE TypesAreCorrect
    OBVIOUS
  <2>1. TypeOK
    BY DEF CompositionInv, IInv
  <2>2. IF subject = "pages" THEN Pages!TypeOK ELSE Alone!TypeOK
    BY PagesIsReports, AloneIsReports DEF CompositionInv, OfExact!RepInv, OfSync!SerialInv,
       OfSync!RepInv
  <2>3. CASE subject = "sync"
    BY <2>1, <2>2, <2>3, TypesOfThreads DEF CompositionInv, TypesAreCorrect
  <2>4. CASE subject = "exact"
    BY <2>1, <2>2, <2>4, TypesOfThreads DEF CompositionInv, TypesAreCorrect
  <2>5. CASE subject = "attach"
    BY <2>1, <2>2, <2>5, TypesOfThreads DEF CompositionInv, TypesAreCorrect
  <2>6. CASE subject \notin {"sync", "exact", "attach"}
    BY <2>1, <2>2, <2>6 DEF CompositionInv, TypesAreCorrect
  <2> QED
    BY <2>3, <2>4, <2>5, <2>6
<1> QED
  BY <1>1, CompositionHolds, PTL

(* A report that calls itself full has all the sessions of the app-server,  *)
(* whatever a behaviour is about, and once one has been recorded the rows   *)
(* marked present are exactly those sessions.                               *)
THEOREM FullReportsAreBelieved == MCSpec => []FullMeansWhole
<1>1. CompositionInv => FullMeansWhole
  <2> SUFFICES ASSUME CompositionInv PROVE FullMeansWhole
    OBVIOUS
  <2>1. CASE subject = "pages"
    <3>1. Pages!FullIsWhole
      BY <2>1, PagesIsReports, OfExact!WholeReports DEF CompositionInv
    <3>2. Alone!FullIsWhole
      BY <3>1 DEF Pages!FullIsWhole, Alone!FullIsWhole, Pages!CanUseAbsence, Alone!CanUseAbsence
    <3> QED
      BY <2>1, <3>2 DEF FullMeansWhole
  <2>2. CASE subject # "pages"
    <3>1. Alone!FullIsWhole
      BY <2>2, AloneIsReports, OfSync!WholeReports DEF CompositionInv, OfSync!SerialInv
    <3>2. Alone!FullReportSettles
      BY <2>2, AloneIsReports, OfSync!SerialSettles DEF CompositionInv
    <3> QED
      BY <3>1, <3>2 DEF FullMeansWhole
  <2> QED
    BY <2>1, <2>2
<1> QED
  BY <1>1, CompositionHolds, PTL

(* A row loses its presence only to a full report that knows better, and no *)
(* operation touches a thread of another session.                           *)
THEOREM NothingElseIsChanged == MCSpec => NothingElseChanges
<1> DEFINE A == /\ subject = "alone" => Alone!KeepsPresence
                /\ subject = "sync" => Sync!MeansOnly
                /\ subject = "attach" => Attach!MeansOnly
<1>1. CompositionInv /\ [MCNext]_all => A
  <2> SUFFICES ASSUME CompositionInv, [MCNext]_all PROVE A
    OBVIOUS
  <2>1. ASSUME subject = "alone" PROVE Alone!KeepsPresence
    <3>1. [OfSync!Reports!Next]_(OfSync!Reports!vars) /\ OfSync!SerialInv
      BY <2>1, CompositionSteps, AloneIsReports DEF CompositionInv
    <3>2. CASE OfSync!Reports!Next
      BY <3>1, <3>2, AloneIsReports, AloneIsSerial, OfSync!PresenceStep
    <3>3. CASE UNCHANGED OfSync!Reports!vars
      BY <3>3 DEF OfSync!Reports!vars, Alone!KeepsPresence
    <3> QED
      BY <3>1, <3>2, <3>3
  <2>2. ASSUME subject = "sync" PROVE Sync!MeansOnly
    <3>1. [OfSync!Next]_(OfSync!vars) /\ OfSync!IInv
      BY <2>2, CompositionSteps, SyncIsThreads DEF CompositionInv
    <3> QED
      BY <3>1, SyncIsThreads, MeansTheSame, OfSync!MeansStep
  <2>3. ASSUME subject = "attach" PROVE Attach!MeansOnly
    <3>1. [OfAttach!Next]_(OfAttach!vars) /\ OfAttach!IInv
      BY <2>3, CompositionSteps, AttachIsThreads DEF CompositionInv
    <3> QED
      BY <3>1, AttachIsThreads, MeansTheSame, OfAttach!MeansStep
  <2> QED
    BY <2>1, <2>2, <2>3
<1>2. CompositionInv /\ [MCNext]_all => [A]_all
  BY <1>1
<1> QED
  BY <1>2, CompositionHolds, PTL DEF MCSpec, NothingElseChanges, A

\* A sync that reports success has left no thread of the session behind, also
\* when official rows name no session, and what it does not find is not there.
THEOREM SyncsAreTrue == MCSpec => []SyncIsTrue
<1>1. CompositionInv => SyncIsTrue
  <2> SUFFICES ASSUME CompositionInv PROVE SyncIsTrue
    OBVIOUS
  <2>1. ASSUME subject = "sync" PROVE Sync!SyncedIsWhole /\ Sync!MissingIsTrue
    <3>1. OfSync!SyncedIsWhole /\ OfSync!MissingIsTrue
      BY <2>1, SyncIsThreads, OfSync!InvSays DEF CompositionInv
    <3> QED
      BY <3>1, SyncWords DEF Sync!SyncedIsWhole, Sync!MissingIsTrue, Sync!Meant,
         OfSync!SyncedIsWhole, OfSync!MissingIsTrue, OfSync!Meant
  <2>2. ASSUME subject = "exact" PROVE Exact!SyncedIsWhole /\ Exact!MissingIsTrue
    <3>1. OfExact!SyncedIsWhole /\ OfExact!MissingIsTrue
      BY <2>2, ExactIsThreads, OfExact!InvSays DEF CompositionInv
    <3> QED
      BY <3>1, ExactWords DEF Exact!SyncedIsWhole, Exact!MissingIsTrue, Exact!Meant,
         OfExact!SyncedIsWhole, OfExact!MissingIsTrue, OfExact!Meant
  <2> QED
    BY <2>1, <2>2 DEF SyncIsTrue
<1> QED
  BY <1>1, CompositionHolds, PTL

\* What is attached, or runs a command, is a thread of the session asked for, and
\* no scan reads more pages than there are threads.
THEOREM ThreadsAreTheRightOnes == MCSpec => []ThreadFits
<1>1. CompositionInv => ThreadFits
  <2> SUFFICES ASSUME CompositionInv, subject = "attach"
               PROVE  Attach!AttachedFits /\ Attach!CommandFits /\ Attach!ScanIsBounded
    BY DEF ThreadFits
  <2>1. OfAttach!AttachedFits /\ OfAttach!CommandFits /\ OfAttach!ScanIsBounded
    BY AttachIsThreads, OfAttach!InvSays DEF CompositionInv
  <2>2. Attach!Cardinality({root, kid, other}) = OfAttach!Cardinality({root, kid, other})
    BY Zenon DEF Attach!Cardinality, OfAttach!Cardinality
  <2> QED
    BY <2>1, <2>2 DEF Attach!AttachedFits, Attach!CommandFits, Attach!ScanIsBounded,
       Attach!SessionOf, OfAttach!AttachedFits, OfAttach!CommandFits, OfAttach!ScanIsBounded,
       OfAttach!SessionOf
<1> QED
  BY <1>1, CompositionHolds, PTL

=============================================================================
