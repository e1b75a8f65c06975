------------------------ MODULE ConnectorReportsProofs ------------------------
(***************************************************************************)
(* For any number of handlers, ids, changes and faults: what the connector *)
(* holds an acknowledgement for is what the Worker stored, and every       *)
(* variable keeps its type; and so it is in the instances that the run     *)
(* checks.                                                                 *)
(***************************************************************************)
EXTENDS MCConnectorReports, TLAPS, FiniteSetTheorems, SequenceTheorems

(* The connector and the Worker whose constants are the fields of k.        *)
P(k) == INSTANCE ConnectorReports
  WITH Capabilities <- k.capabilities, Handlers <- k.handlers, Ids <- k.ids,
       MaxFaults <- k.faults, MaxChanges <- k.changes

\* What the Worker may say.
Answers(k) == [kind : {"ready"}, value : k.capabilities] \cup [kind : {"instances"}, id : 1 .. k.ids]

-----------------------------------------------------------------------------
(* Types.                                                                   *)

\* A message and an answer are of one of two kinds.
LEMMA Kinds ==
    ASSUME NEW k
    PROVE
    /\ \A m \in P(k)!Message : m.kind = "ready" => m \in [kind : {"ready"}, value : k.capabilities]
    /\ \A m \in P(k)!Message : m.kind = "instances" =>
         m.id \in 1 .. k.ids /\ m.value \in Instances /\ m.snapshot \in BOOLEAN /\ m.summary \in BOOLEAN
    /\ \A m \in P(k)!Message : m.kind \in {"ready", "instances"}
    /\ \A a \in Answers(k) : a.kind = "ready" => a.value \in k.capabilities
    /\ \A a \in Answers(k) : a.kind \in {"ready", "instances"}
BY DEF P!Message, Answers

LEMMA Remainder == ASSUME NEW a \in Nat, NEW b \in Nat, b > 1 PROVE a % b \in 0 .. b - 1
OBVIOUS

\* What is sent are messages.
LEMMA Sendable ==
    ASSUME NEW k, P(k)!ReportsAssumption, P(k)!TypeOK
    PROVE  /\ P(k)!ReadyMessage \in P(k)!Message
           /\ \A s, b \in BOOLEAN : P(k)!Report(s, b) \in P(k)!Message
           /\ \A s \in BOOLEAN : [P(k)!Report(s, FALSE) EXCEPT !.id = 1] \in P(k)!Message
           /\ P(k)!UnackedSnapshot \in BOOLEAN
           /\ (nextId % k.ids) + 1 \in 1 .. k.ids
<1>1. /\ k.ids \in Nat /\ k.ids > 1 /\ nextId \in 1 .. k.ids /\ nextId \in Nat /\ 1 \in 1 .. k.ids
      /\ instance \in Instances /\ capabilities \in k.capabilities
  BY DEF P!ReportsAssumption, P!TypeOK
<1>2. nextId % k.ids \in 0 .. k.ids - 1
  <2> HIDE DEF P!TypeOK
  <2> QED
    BY <1>1, Remainder
<1>3. (nextId % k.ids) + 1 \in 1 .. k.ids
  BY <1>1, <1>2
<1>4. P(k)!ReadyMessage \in P(k)!Message
  BY <1>1 DEF P!ReadyMessage, P!Message
<1>5. \A s, b \in BOOLEAN : P(k)!Report(s, b) \in P(k)!Message
  BY <1>1 DEF P!Report, P!Message
<1>6. \A s \in BOOLEAN : [P(k)!Report(s, FALSE) EXCEPT !.id = 1] \in P(k)!Message
  BY <1>1 DEF P!Report, P!Message
<1>7. P(k)!UnackedSnapshot \in BOOLEAN
  BY DEF P!UnackedSnapshot
<1> QED
  BY <1>3, <1>4, <1>5, <1>6, <1>7

\* Sets are counted in the instances as they are here.
LEMMA SameCount ==
    ASSUME NEW k, NEW S
    PROVE  (P(k)!IsFiniteSet(S) <=> IsFiniteSet(S)) /\ P(k)!Cardinality(S) = Cardinality(S)
<1>1. P(k)!IsFiniteSet(S) <=> IsFiniteSet(S)
  BY DEF P!IsFiniteSet, IsFiniteSet
<1>2. P(k)!Cardinality(S) = Cardinality(S)
  BY Zenon DEF P!Cardinality, Cardinality
<1> QED
  BY <1>1, <1>2

\* With room in the queue the length of up is below the bound.
LEMMA Room ==
    ASSUME NEW k, P(k)!ReportsAssumption, P(k)!TypeOK
    PROVE  P(k)!OnTheirWay < QueueBound => Len(up) < QueueBound
<1> DEFINE busy == {h \in k.handlers : handler[h] # P(k)!Quiet}
<1> DEFINE handlers == k.handlers
<1>1. Cardinality(busy) \in Nat
  <2>1. IsFiniteSet(busy)
    <3>1. IsFiniteSet(handlers) /\ busy \subseteq handlers
      BY SameCount DEF P!ReportsAssumption
    <3> HIDE DEF busy, handlers
    <3> QED
      BY <3>1, FS_Subset
  <2> QED
    BY <2>1, FS_CardinalityType
<1>2. P(k)!OnTheirWay = Len(up) + Len(down) + Cardinality(busy)
  BY SameCount DEF P!OnTheirWay
<1>3. up \in Seq(P(k)!Message) /\ down \in Seq(Answers(k))
  BY DEF P!TypeOK, Answers
<1> HIDE DEF busy
<1>4. Len(up) \in Nat /\ Len(down) \in Nat /\ QueueBound \in Nat
  BY <1>3 DEF P!ReportsAssumption
<1> QED
  BY <1>1, <1>2, <1>4

LEMMA TwoInRow ==
    ASSUME NEW S, NEW a \in S, NEW b \in S
    PROVE  <<a, b>> \in Seq(S) /\ Len(<<a, b>>) = 2 /\ <<a>> \in Seq(S) /\ Len(<<a>>) = 1
OBVIOUS

LEMMA TypeStart == ASSUME NEW k, P(k)!ReportsAssumption, P(k)!Init PROVE P(k)!TypeOK
<1>1. /\ k.ids \in Nat /\ k.ids > 1 /\ QueueBound \in Nat /\ QueueBound > 0
      /\ k.changes \in Nat /\ k.faults \in Nat
  BY DEF P!ReportsAssumption
<1>2. /\ P(k)!ReadyMessage \in P(k)!Message /\ [P(k)!Report(TRUE, FALSE) EXCEPT !.id = 1] \in P(k)!Message
  <2>1. instance \in Instances /\ capabilities \in k.capabilities /\ 1 \in 1 .. k.ids
    BY <1>1 DEF P!Init
  <2>2. P(k)!ReadyMessage \in P(k)!Message
    BY <2>1 DEF P!ReadyMessage, P!Message
  <2>3. [P(k)!Report(TRUE, FALSE) EXCEPT !.id = 1] \in P(k)!Message
    BY <2>1 DEF P!Report, P!Message
  <2> QED
    BY <2>2, <2>3
<1>3. up \in Seq(P(k)!Message) /\ Len(up) = 2 /\ down \in Seq(Answers(k))
  <2>1. up = <<P(k)!ReadyMessage, [P(k)!Report(TRUE, FALSE) EXCEPT !.id = 1]>> /\ down = <<>>
    BY DEF P!Init
  <2> QED
    BY <1>2, <2>1, TwoInRow
<1>4. handler \in [k.handlers -> {P(k)!Quiet} \cup P(k)!Handled]
  BY DEF P!Init
<1>5. /\ sent \in [id : 0 .. k.ids, key : Instances \cup {None}, snapshot : BOOLEAN]
      /\ acked \in [id : 0 .. k.ids, key : Instances \cup {None}] /\ nextId \in 1 .. k.ids
  BY <1>1 DEF P!Init
<1>6. /\ changes \in 0 .. k.changes /\ faults \in 0 .. k.faults /\ socket \in Nat
      /\ Len(up) <= QueueBound + 1
  BY <1>1, <1>3 DEF P!Init
<1>7. /\ ready.sent \in k.capabilities /\ ready.acked \in {None, ready.sent}
      /\ peerReady \in BOOLEAN /\ gone = "no" /\ paused \in BOOLEAN
      /\ cache = None /\ row = None /\ rowCapabilities = None
      /\ instance \in Instances /\ capabilities \in k.capabilities
  BY DEF P!Init
<1> QED
  BY <1>3, <1>4, <1>5, <1>6, <1>7 DEF P!TypeOK, Answers

\* The types of a step of the connector that sends.
LEMMA TypeSends ==
    ASSUME NEW k, P(k)!ReportsAssumption, P(k)!TypeOK, P(k)!Connector,
           P(k)!SentReady \/ UNCHANGED ready,
           (\E s \in BOOLEAN : P(k)!SentReport(s)) \/ UNCHANGED <<sent, acked, nextId>>,
           NEW q \in Seq(P(k)!Message), Len(q) <= 2, up' = up \o q
    PROVE  P(k)!TypeOK'
<1>1. up \in Seq(P(k)!Message) /\ Len(up) < QueueBound /\ QueueBound \in Nat
  BY Room DEF P!TypeOK, P!Connector, P!ReportsAssumption
<1>2. up' \in Seq(P(k)!Message) /\ Len(up') <= QueueBound + 1
  BY <1>1, ConcatProperties
<1>3. ready'.sent \in k.capabilities /\ ready'.acked \in {None, ready'.sent}
  BY DEF P!TypeOK, P!SentReady
<1>4. /\ sent' \in [id : 0 .. k.ids, key : Instances \cup {None}, snapshot : BOOLEAN]
      /\ acked' \in [id : 0 .. k.ids, key : Instances \cup {None}] /\ nextId' \in 1 .. k.ids
  <2>1. CASE UNCHANGED <<sent, acked, nextId>>
    BY <2>1 DEF P!TypeOK
  <2>2. ASSUME NEW s \in BOOLEAN, P(k)!SentReport(s)
        PROVE  /\ sent' \in [id : 0 .. k.ids, key : Instances \cup {None}, snapshot : BOOLEAN]
               /\ acked' \in [id : 0 .. k.ids, key : Instances \cup {None}] /\ nextId' \in 1 .. k.ids
    <3>1. nextId \in 0 .. k.ids /\ 0 \in 0 .. k.ids /\ instance \in Instances
      BY DEF P!TypeOK, P!ReportsAssumption
    <3> QED
      BY <2>2, <3>1, Sendable DEF P!SentReport
  <2> QED
    BY <2>1, <2>2
<1> QED
  BY <1>2, <1>3, <1>4 DEF P!TypeOK, P!Connector, P!truth, P!worker

LEMMA TypeTick ==
    ASSUME NEW k, P(k)!ReportsAssumption, P(k)!TypeOK, NEW b \in BOOLEAN, NEW c \in BOOLEAN, P(k)!Tick(b, c)
    PROVE  P(k)!TypeOK'
<1>1. P(k)!Connector
  BY DEF P!Tick
<1> DEFINE both == <<P(k)!ReadyMessage, P(k)!Report(TRUE, FALSE)>>
           one == <<P(k)!ReadyMessage>>
<1>2. /\ both \in Seq(P(k)!Message) /\ Len(both) <= 2
      /\ one \in Seq(P(k)!Message) /\ Len(one) <= 1 /\ Len(one) <= 2
      /\ up \in Seq(P(k)!Message)
  <2>1. P(k)!Report(TRUE, FALSE) \in P(k)!Message /\ P(k)!ReadyMessage \in P(k)!Message
    BY Sendable
  <2>2. both \in Seq(P(k)!Message) /\ Len(both) = 2 /\ one \in Seq(P(k)!Message) /\ Len(one) = 1
    BY <2>1, TwoInRow
  <2>3. up \in Seq(P(k)!Message)
    BY DEF P!TypeOK
  <2> HIDE DEF both, one
  <2> QED
    BY <2>2, <2>3
<1>3. CASE /\ P(k)!SentReady /\ P(k)!SentReport(TRUE) /\ up' = up \o both
  <2> HIDE DEF both, one
  <2> QED
    BY <1>1, <1>2, <1>3, TypeSends
<1>4. CASE /\ P(k)!SentReady /\ up' = Append(up, P(k)!ReadyMessage) /\ UNCHANGED <<sent, acked, nextId>>
  <2>1. up' = up \o one
    BY <1>2, <1>4, Sendable
  <2> HIDE DEF both, one
  <2> QED
    BY <1>1, <1>2, <1>4, <2>1, TypeSends
<1>5. CASE /\ P(k)!SentReport(P(k)!UnackedSnapshot)
           /\ \/ P(k)!SentReady
              \/ UNCHANGED ready
           /\ up' = up \o (IF P(k)!ReadyIsDue(b) THEN <<P(k)!ReadyMessage>> ELSE <<>>)
                       \o <<P(k)!Report(P(k)!UnackedSnapshot, acked.key = instance)>>
  <2> DEFINE first == IF P(k)!ReadyIsDue(b) THEN one ELSE <<>>
             m == P(k)!Report(P(k)!UnackedSnapshot, acked.key = instance)
  <2>1. first \in Seq(P(k)!Message) /\ Len(first) <= 1 /\ m \in P(k)!Message
    <3>1. m \in P(k)!Message
      BY Sendable
    <3>2. CASE P(k)!ReadyIsDue(b)
      <4>1. first = one
        BY <3>2
      <4> HIDE DEF first, one, m
      <4> QED
        BY <1>2, <3>1, <4>1
    <3>3. CASE ~P(k)!ReadyIsDue(b)
      <4>1. first = <<>>
        BY <3>3
      <4> QED
        BY <3>1, <4>1
    <3> QED
      BY <3>2, <3>3
  <2>4. up' = (up \o first) \o <<m>>
    BY <1>5
  <2> HIDE DEF first, m
  <2>2. first \o <<m>> \in Seq(P(k)!Message) /\ Len(first \o <<m>>) <= 2
    BY <2>1
  <2>3. up' = up \o (first \o <<m>>)
    BY <1>2, <2>1, <2>4, ConcatAssociative
  <2>5. P(k)!UnackedSnapshot \in BOOLEAN
    BY Sendable
  <2> QED
    BY <1>1, <1>5, <2>2, <2>3, <2>5, TypeSends
<1> QED
  BY <1>3, <1>4, <1>5 DEF P!Tick

LEMMA TypeOther ==
    ASSUME NEW k, P(k)!ReportsAssumption, P(k)!TypeOK, NEW b \in BOOLEAN, P(k)!OtherText(b)
    PROVE  P(k)!TypeOK'
<1>1. P(k)!Connector /\ P(k)!SentReady
  BY DEF P!OtherText
<1> DEFINE both == <<P(k)!ReadyMessage, P(k)!Report(TRUE, FALSE)>>
           one == <<P(k)!ReadyMessage>>
<1>2. /\ both \in Seq(P(k)!Message) /\ Len(both) <= 2
      /\ one \in Seq(P(k)!Message) /\ Len(one) <= 1 /\ Len(one) <= 2
      /\ up \in Seq(P(k)!Message)
  <2>1. P(k)!Report(TRUE, FALSE) \in P(k)!Message /\ P(k)!ReadyMessage \in P(k)!Message
    BY Sendable
  <2>2. both \in Seq(P(k)!Message) /\ Len(both) = 2 /\ one \in Seq(P(k)!Message) /\ Len(one) = 1
    BY <2>1, TwoInRow
  <2>3. up \in Seq(P(k)!Message)
    BY DEF P!TypeOK
  <2> HIDE DEF both, one
  <2> QED
    BY <2>2, <2>3
<1>3. CASE P(k)!SentReport(TRUE) /\ up' = up \o both
  <2> HIDE DEF both, one
  <2> QED
    BY <1>1, <1>2, <1>3, TypeSends
<1>4. CASE up' = Append(up, P(k)!ReadyMessage) /\ UNCHANGED <<sent, acked, nextId>>
  <2>1. up' = up \o one
    BY <1>2, <1>4, Sendable
  <2> HIDE DEF both, one
  <2> QED
    BY <1>1, <1>2, <1>4, <2>1, TypeSends
<1> QED
  BY <1>3, <1>4 DEF P!OtherText

LEMMA TypeAcknowledge ==
    ASSUME NEW k, P(k)!TypeOK, P(k)!AcknowledgeReady \/ P(k)!AcknowledgeReport
    PROVE  P(k)!TypeOK'
<1>1. down \in Seq(Answers(k)) /\ down # <<>> /\ down' = Tail(down)
  BY DEF P!TypeOK, Answers, P!AcknowledgeReady, P!AcknowledgeReport
<1>2. down' \in Seq(Answers(k)) /\ Head(down) \in Answers(k)
  BY <1>1
<1>3. UNCHANGED <<P(k)!truth, faults, socket, nextId, up, P(k)!worker, paused, sent>>
  BY DEF P!AcknowledgeReady, P!AcknowledgeReport
<1>4. CASE P(k)!AcknowledgeReady
  <2>1. ready'.sent \in k.capabilities /\ ready'.acked \in {None, ready'.sent} /\ UNCHANGED acked
    BY <1>2, <1>4, Kinds DEF P!AcknowledgeReady
  <2> QED
    BY <1>2, <1>3, <2>1 DEF P!TypeOK, Answers, P!truth, P!worker
<1>5. CASE P(k)!AcknowledgeReport
  <2>1. acked' \in [id : 0 .. k.ids, key : Instances \cup {None}] /\ UNCHANGED ready
    BY <1>5 DEF P!AcknowledgeReport, P!TypeOK
  <2> QED
    BY <1>2, <1>3, <2>1 DEF P!TypeOK, Answers, P!truth, P!worker
<1> QED
  BY <1>4, <1>5

\* What a handler at work holds.
LEMMA Held ==
    ASSUME NEW k, P(k)!TypeOK, NEW h \in k.handlers, handler[h].step # "idle"
    PROVE  handler[h] \in P(k)!Handled /\ handler[h].message \in P(k)!Message
BY DEF P!TypeOK, P!Quiet, P!Handled

\* The types of a step of a handler.
LEMMA TypeHandles ==
    ASSUME NEW k, P(k)!ReportsAssumption, P(k)!TypeOK, P(k)!AtWorker, UNCHANGED gone, NEW h \in k.handlers,
           NEW w \in {P(k)!Quiet} \cup P(k)!Handled, handler' = [handler EXCEPT ![h] = w],
           up' = up \/ (up # <<>> /\ up' = Tail(up)),
           down' \in Seq(Answers(k)), peerReady' \in BOOLEAN, cache' \in Instances \cup {None},
           row' \in Instances \cup {"stopped", None},
           rowCapabilities' \in k.capabilities \cup {None}
    PROVE  P(k)!TypeOK'
<1>1. up' \in Seq(P(k)!Message) /\ Len(up') <= QueueBound + 1
  <2>1. up \in Seq(P(k)!Message) /\ Len(up) <= QueueBound + 1
    BY DEF P!TypeOK
  <2>2. CASE up # <<>> /\ up' = Tail(up)
    <3>1. Tail(up) \in Seq(P(k)!Message) /\ Len(Tail(up)) = Len(up) - 1 /\ Len(up) \in Nat
      BY <2>1, <2>2, HeadTailProperties
    <3>2. Len(Tail(up)) <= QueueBound + 1
      BY <3>1, <2>1 DEF P!ReportsAssumption
    <3> QED
      BY <2>1, <2>2, <3>1, <3>2
  <2> QED
    BY <2>1, <2>2
<1>2. handler' \in [k.handlers -> {P(k)!Quiet} \cup P(k)!Handled]
  BY DEF P!TypeOK
<1>3. UNCHANGED <<instance, capabilities, changes, faults, socket, ready, sent, acked, nextId,
                  paused, gone>>
  BY DEF P!AtWorker, P!truth, P!state
<1> QED
  BY <1>1, <1>2, <1>3 DEF P!TypeOK, Answers

LEMMA TypeWorker ==
    ASSUME NEW k, P(k)!ReportsAssumption, P(k)!TypeOK, NEW h \in k.handlers, P(k)!Take(h) \/ P(k)!Handle(h)
    PROVE  P(k)!TypeOK'
<1> USE DEF P!Answer
<1>1. /\ down \in Seq(Answers(k)) /\ peerReady \in BOOLEAN /\ cache \in Instances \cup {None}
      /\ row \in Instances \cup {"stopped", None} /\ rowCapabilities \in k.capabilities \cup {None}
      /\ handler \in [k.handlers -> {P(k)!Quiet} \cup P(k)!Handled] /\ P(k)!Quiet \in {P(k)!Quiet} \cup P(k)!Handled
      /\ up \in Seq(P(k)!Message) /\ socket \in Nat
  BY DEF P!TypeOK, Answers
<1>2. P(k)!AtWorker /\ UNCHANGED gone
  BY DEF P!Take, P!Handle, P!StoreReady, P!AnswerReady, P!Skip, P!Accept, P!Look, P!Store,
     P!RememberAndAnswer
<1>3. CASE P(k)!Take(h)
  <2> DEFINE w == [step |-> IF Head(up).kind = "ready" THEN "store" ELSE "check", message |-> Head(up),
                   socket |-> socket, existing |-> None]
  <2>1. up # <<>> /\ up' = Tail(up) /\ handler' = [handler EXCEPT ![h] = w]
        /\ UNCHANGED <<down, peerReady, cache, row, rowCapabilities>>
    BY <1>3 DEF P!Take
  <2>2. Head(up) \in P(k)!Message
    BY <1>1, <2>1
  <2>3. w \in P(k)!Handled
    BY <1>1, <2>2 DEF P!Handled
  <2> HIDE DEF w
  <2> QED
    BY <1>1, <1>2, <2>1, <2>3, TypeHandles
<1>4. CASE P(k)!StoreReady(h)
  <2> DEFINE w == [handler[h] EXCEPT !.step = "answer"]
  <2>1. handler[h] \in P(k)!Handled /\ handler[h].message \in P(k)!Message
    BY <1>4, Held DEF P!StoreReady, P!Is
  <2>2. w \in P(k)!Handled
    BY <2>1 DEF P!Handled
  <2>3. handler' = [handler EXCEPT ![h] = w] /\ rowCapabilities' \in k.capabilities
    BY <1>4, <2>1, Kinds DEF P!StoreReady, P!Is
  <2>4. UNCHANGED <<up, down, peerReady, cache, row>>
    BY <1>4 DEF P!StoreReady
  <2> HIDE DEF w
  <2> QED
    BY <1>1, <1>2, <2>2, <2>3, <2>4, TypeHandles
<1>5. CASE P(k)!AnswerReady(h)
  <2>1. handler[h].message \in Answers(k)
    BY <1>5, Held, Kinds DEF P!AnswerReady, P!Is, Answers
  <2>2. down' \in Seq(Answers(k))
    BY <1>1, <1>5, <2>1 DEF P!AnswerReady
  <2>3. peerReady' \in BOOLEAN
    BY <1>1, <1>5 DEF P!AnswerReady
  <2>4. UNCHANGED <<up, cache, row,
                    rowCapabilities>> /\ handler' = [handler EXCEPT ![h] = P(k)!Quiet]
    BY <1>5 DEF P!AnswerReady
  <2> QED
    BY <1>1, <1>2, <2>2, <2>3, <2>4, TypeHandles
<1>6. CASE P(k)!Skip(h)
  <2>1. [kind |-> "instances", id |-> handler[h].message.id] \in Answers(k)
    BY <1>6, Held, Kinds DEF P!Skip, P!Is, Answers
  <2>2. down' \in Seq(Answers(k))
    BY <1>1, <1>6, <2>1 DEF P!Skip, P!AnswerReport
  <2>3. UNCHANGED <<up, peerReady, cache, row,
                    rowCapabilities>> /\ handler' = [handler EXCEPT ![h] = P(k)!Quiet]
    BY <1>6 DEF P!Skip
  <2> QED
    BY <1>1, <1>2, <2>2, <2>3, TypeHandles
<1>7. CASE P(k)!Accept(h)
  <2> DEFINE w == [handler[h] EXCEPT !.step = "look"]
  <2>1. handler[h] \in P(k)!Handled
    BY <1>7, Held DEF P!Accept, P!Is
  <2>2. w \in P(k)!Handled
    BY <2>1 DEF P!Handled
  <2>3. handler' = [handler EXCEPT ![h] = w] /\ UNCHANGED <<up, down, peerReady, cache, row,
                                                            rowCapabilities>>
    BY <1>7 DEF P!Accept
  <2> HIDE DEF w
  <2> QED
    BY <1>1, <1>2, <2>2, <2>3, TypeHandles
<1>8. CASE P(k)!Look(h)
  <2> DEFINE w == [handler[h] EXCEPT !.step = "store", !.existing = row]
  <2>1. handler[h] \in P(k)!Handled
    BY <1>8, Held DEF P!Look, P!Is
  <2>2. w \in P(k)!Handled
    BY <1>1, <2>1 DEF P!Handled
  <2>3. handler' = [handler EXCEPT ![h] = w] /\ UNCHANGED <<up, down, peerReady, cache, row,
                                                            rowCapabilities>>
    BY <1>8 DEF P!Look
  <2> HIDE DEF w
  <2> QED
    BY <1>1, <1>2, <2>2, <2>3, TypeHandles
<1>9. CASE P(k)!Store(h)
  <2> DEFINE w == [handler[h] EXCEPT !.step = "answer"]
  <2>1. handler[h] \in P(k)!Handled /\ handler[h].message \in P(k)!Message
    BY <1>9, Held DEF P!Store, P!Is
  <2>2. w \in P(k)!Handled
    BY <2>1 DEF P!Handled
  <2>3. handler' = [handler EXCEPT ![h] = w] /\ UNCHANGED <<up, down, peerReady, cache,
                                                            rowCapabilities>>
    BY <1>9 DEF P!Store
  <2>4. row' \in Instances \cup {"stopped", None}
    BY <1>1, <1>9, <2>1, Kinds DEF P!Store, P!Is
  <2> HIDE DEF w
  <2> QED
    BY <1>1, <1>2, <2>2, <2>3, <2>4, TypeHandles
<1>10. CASE P(k)!RememberAndAnswer(h)
  <2>1. handler[h].message \in P(k)!Message /\ handler[h].message.kind = "instances"
    BY <1>10, Held DEF P!RememberAndAnswer, P!Is
  <2>2. [kind |-> "instances", id |-> handler[h].message.id] \in Answers(k)
    BY <2>1, Kinds DEF Answers
  <2>3. down' \in Seq(Answers(k))
    BY <1>1, <1>10, <2>2 DEF P!RememberAndAnswer, P!AnswerReport
  <2>4. cache' \in Instances \cup {None}
    BY <1>10, <2>1, Kinds DEF P!RememberAndAnswer
  <2>5. UNCHANGED <<up, peerReady, row,
                    rowCapabilities>> /\ handler' = [handler EXCEPT ![h] = P(k)!Quiet]
    BY <1>10 DEF P!RememberAndAnswer
  <2> QED
    BY <1>1, <1>2, <2>3, <2>4, <2>5, TypeHandles
<1> QED
  BY <1>3, <1>4, <1>5, <1>6, <1>7, <1>8, <1>9, <1>10 DEF P!Handle

LEMMA TypeRest ==
    ASSUME NEW k, P(k)!ReportsAssumption, P(k)!TypeOK, P(k)!CleanUp \/ P(k)!Change \/ P(k)!WorkerFails \/ P(k)!Pause \/ P(k)!Reconnect
    PROVE  P(k)!TypeOK'
<1> USE DEF P!truth, P!state, P!worker
<1>1. CASE P(k)!CleanUp
  BY <1>1 DEF P!TypeOK, P!CleanUp, P!SocketGone, P!ForgetReports, P!StopInstances, P!AtWorker
<1>2. CASE P(k)!Change
  BY <1>2 DEF P!TypeOK, P!Change, P!ReportsAssumption
<1>3. CASE P(k)!WorkerFails
  <2>1. up' \in Seq(P(k)!Message) /\ Len(up') <= QueueBound + 1
    <3>1. up \in Seq(P(k)!Message) /\ Len(up) <= QueueBound + 1 /\ up # <<>> /\ up' = Tail(up) /\ QueueBound \in Nat
      BY <1>3 DEF P!TypeOK, P!WorkerFails, P!ReportsAssumption
    <3>2. Tail(up) \in Seq(P(k)!Message) /\ Len(Tail(up)) = Len(up) - 1 /\ Len(up) \in Nat
      BY <3>1, HeadTailProperties
    <3> QED
      BY <3>1, <3>2
  <2>2. faults' \in 0 .. k.faults
    BY <1>3 DEF P!TypeOK, P!WorkerFails, P!Fault, P!ReportsAssumption
  <2> QED
    BY <1>3, <2>1, <2>2 DEF P!TypeOK, P!WorkerFails
<1>4. CASE P(k)!Pause
  <2>1. faults' \in 0 .. k.faults
    BY <1>4 DEF P!TypeOK, P!Pause, P!Fault, P!ReportsAssumption
  <2>2. paused' \in BOOLEAN
    BY <1>4 DEF P!Pause
  <2> QED
    BY <1>4, <2>1, <2>2 DEF P!TypeOK, P!Pause
<1>5. CASE P(k)!Reconnect
  <2>1. faults' \in 0 .. k.faults /\ socket' \in Nat
    BY <1>5 DEF P!TypeOK, P!Reconnect, P!Fault, P!ReportsAssumption
  <2>2. up' \in Seq(P(k)!Message) /\ Len(up') <= QueueBound + 1
    <3>1. up' \in Seq(P(k)!Message) /\ Len(up') = 2
      BY <1>5, Sendable, TwoInRow DEF P!Reconnect
    <3> QED
      BY <3>1 DEF P!ReportsAssumption
  <2>3. /\ sent' \in [id : 0 .. k.ids, key : Instances \cup {None}, snapshot : BOOLEAN]
        /\ acked' \in [id : 0 .. k.ids, key : Instances \cup {None}] /\ nextId' \in 1 .. k.ids
    <3>1. nextId \in 0 .. k.ids /\ 0 \in 0 .. k.ids /\ instance \in Instances
      BY DEF P!TypeOK, P!ReportsAssumption
    <3> QED
      BY <1>5, <3>1, Sendable DEF P!Reconnect
  <2>4. /\ ready'.sent \in k.capabilities /\ ready'.acked \in {None, ready'.sent}
        /\ peerReady' \in BOOLEAN /\ gone' \in {"no", "due", "stop", "rows"}
    BY <1>5 DEF P!TypeOK, P!Reconnect
  <2>5. down' \in Seq(Answers(k))
    BY <1>5 DEF P!Reconnect
  <2>6. UNCHANGED <<instance, capabilities, changes, handler, cache, row, rowCapabilities, paused>>
    BY <1>5 DEF P!Reconnect
  <2> QED
    BY <2>1, <2>2, <2>3, <2>4, <2>5, <2>6 DEF P!TypeOK, Answers
<1> QED
  BY <1>1, <1>2, <1>3, <1>4, <1>5

LEMMA TypeStep ==
    ASSUME NEW k, P(k)!ReportsAssumption, P(k)!TypeOK, [P(k)!Next]_(P(k)!vars)
    PROVE  P(k)!TypeOK'
<1>1. CASE UNCHANGED P(k)!vars
  BY <1>1 DEF P!TypeOK, P!vars, P!truth, P!state, P!worker
<1>2. CASE P(k)!Next
  BY <1>2, TypeTick, TypeOther, TypeAcknowledge, TypeWorker, TypeRest DEF P!Next
<1> QED
  BY <1>1, <1>2

-----------------------------------------------------------------------------
(* The acknowledged capabilities, with one handler.                         *)

Answering(w) == handler[w].step = "answer" /\ handler[w].message.kind = "ready"
LastReady(q, i) == q[i].kind = "ready" /\ \A j \in i + 1 .. Len(q) : q[j].kind # "ready"
NoReady(q) == \A i \in 1 .. Len(q) : q[i].kind # "ready"

\* The row is what the last answer tells; and a handler that still works for an
\* earlier socket has nothing behind it that the connector has heard of.
AckInv(w) ==
    /\ Answering(w) => rowCapabilities = handler[w].message.value
    /\ \A i \in 1 .. Len(down) :
         LastReady(down, i) /\ ~Answering(w) => down[i].value = rowCapabilities
    /\ NoReady(down) /\ ready.acked # None /\ ~Answering(w) => rowCapabilities = ready.acked
    /\ handler[w].step # "idle" /\ handler[w].socket # socket /\ handler[w].message.kind = "ready"
         => ready.acked = None /\ NoReady(down)

LEMMA AckStart == ASSUME NEW k, NEW w \in k.handlers, P(k)!Init PROVE AckInv(w)
BY DEF P!Init, AckInv, Answering, P!Quiet

LEMMA AckSends ==
    ASSUME NEW k, P(k)!TypeOK, NEW w \in k.handlers, AckInv(w), UNCHANGED <<socket, down,
                                                                            handler,
                                                                            rowCapabilities>>,
           P(k)!SentReady \/ UNCHANGED ready
    PROVE  AckInv(w)'
<1>1. ready'.acked \in {None, ready.acked}
  BY DEF P!SentReady
<1> QED
  BY <1>1 DEF AckInv, Answering, LastReady, NoReady

LEMMA AckAcknowledge ==
    ASSUME NEW k, P(k)!TypeOK, NEW w \in k.handlers, AckInv(w), P(k)!AcknowledgeReady \/ P(k)!AcknowledgeReport
    PROVE  AckInv(w)'
<1>1. down \in Seq(Answers(k)) /\ down # <<>> /\ down' = Tail(down) /\ Head(down) = down[1]
  BY DEF P!TypeOK, Answers, P!AcknowledgeReady, P!AcknowledgeReport
<1>2. /\ Len(down) \in Nat /\ Len(down) >= 1 /\ Len(down') = Len(down) - 1
      /\ \A i \in 1 .. Len(down') : down'[i] = down[i + 1]
  BY <1>1, HeadTailProperties
<1>3. UNCHANGED <<socket, handler, rowCapabilities>>
  BY DEF P!AcknowledgeReady, P!AcknowledgeReport, P!worker
<1>4. \A i \in 1 .. Len(down') : LastReady(down', i) => LastReady(down, i + 1)
  <2> SUFFICES ASSUME NEW i \in 1 .. Len(down'), LastReady(down', i)
               PROVE  LastReady(down, i + 1)
    OBVIOUS
  <2>1. \A j \in i + 2 .. Len(down) : j - 1 \in i + 1 .. Len(down') /\ down'[j - 1] = down[j]
    BY <1>2
  <2>2. down[i + 1].kind = "ready"
    BY <1>2 DEF LastReady
  <2>3. \A j \in i + 2 .. Len(down) : down[j].kind # "ready"
    BY <2>1 DEF LastReady
  <2>4. i + 1 + 1 = i + 2
    BY <1>2
  <2> QED
    BY <2>2, <2>3, <2>4 DEF LastReady
<1>5. NoReady(down') => \A j \in 2 .. Len(down) : down[j].kind # "ready"
  <2>1. \A j \in 2 .. Len(down) : j - 1 \in 1 .. Len(down') /\ down'[j - 1] = down[j]
    BY <1>2
  <2> QED
    BY <2>1 DEF NoReady
<1>6. NoReady(down) => NoReady(down')
  BY <1>2 DEF NoReady
<1>7. \A i \in 1 .. Len(down') : LastReady(down', i) /\ ~Answering(w) => down'[i].value = rowCapabilities
  <2>1. \A i \in 1 .. Len(down') : i + 1 \in 1 .. Len(down)
    BY <1>2
  <2> QED
    BY <1>2, <1>4, <2>1 DEF AckInv
<1>8. CASE P(k)!AcknowledgeReady
  <2>1. down[1].kind = "ready" /\ ready' = [sent |-> down[1].value, acked |-> down[1].value]
    BY <1>1, <1>8 DEF P!AcknowledgeReady
  <2>2. ~NoReady(down)
    BY <1>2, <2>1 DEF NoReady
  <2>3. NoReady(down') /\ ~Answering(w) => rowCapabilities = down[1].value
    <3>1. NoReady(down') => LastReady(down, 1)
      BY <1>5, <2>1 DEF LastReady
    <3> QED
      BY <1>2, <3>1 DEF AckInv
  <2> QED
    BY <1>3, <1>7, <2>1, <2>2, <2>3 DEF AckInv, Answering, LastReady, NoReady
<1>9. CASE P(k)!AcknowledgeReport
  <2>1. down[1].kind # "ready" /\ UNCHANGED ready
    BY <1>1, <1>9 DEF P!AcknowledgeReport
  <2>2. NoReady(down') => NoReady(down)
    <3>1. \A i \in 1 .. Len(down) : i = 1 \/ i \in 2 .. Len(down)
      BY <1>2
    <3>2. NoReady(down') => \A i \in 1 .. Len(down) : down[i].kind # "ready"
      BY <1>5, <2>1, <3>1
    <3> QED
      BY <3>2 DEF NoReady
  <2>3. UNCHANGED <<handler, rowCapabilities, socket>>
    BY <1>3
  <2>4. NoReady(down') /\ ready'.acked # None /\ ~Answering(w) => rowCapabilities = ready'.acked
    BY <2>1, <2>2 DEF AckInv
  <2> QED
    BY <1>6, <1>7, <2>1, <2>3, <2>4 DEF AckInv, Answering, LastReady, NoReady
<1> QED
  BY <1>8, <1>9

\* What a queue is with an answer at its end.
Longer(q, a, r) ==
    /\ Len(q) \in Nat /\ Len(r) = Len(q) + 1 /\ r[Len(r)] = a
    /\ \A i \in 1 .. Len(q) : r[i] = q[i]
    /\ a.kind = "ready" =>
         ~NoReady(r) /\ \A i \in 1 .. Len(r) : LastReady(r, i) => i = Len(r)
    /\ a.kind # "ready" =>
         /\ NoReady(r) <=> NoReady(q)
         /\ \A i \in 1 .. Len(r) : LastReady(r, i) => i \in 1 .. Len(q) /\ LastReady(q, i)

LEMMA Appended ==
    ASSUME NEW k, NEW q \in Seq(Answers(k)), NEW a \in Answers(k), NEW r, r = Append(q, a)
    PROVE  Longer(q, a, r)
<1>1. /\ Len(q) \in Nat /\ Len(r) = Len(q) + 1 /\ r[Len(r)] = a
      /\ \A i \in 1 .. Len(q) : r[i] = q[i]
  OBVIOUS
<1>2. \A i \in 1 .. Len(r) : i \in 1 .. Len(q) \/ i = Len(r)
  BY <1>1
<1>3. a.kind = "ready" => ~NoReady(r) /\ \A i \in 1 .. Len(r) : LastReady(r, i) => i = Len(r)
  <2> SUFFICES ASSUME a.kind = "ready"
               PROVE  ~NoReady(r) /\ \A i \in 1 .. Len(r) : LastReady(r, i) => i = Len(r)
    OBVIOUS
  <2>1. Len(r) \in 1 .. Len(r) /\ \A i \in 1 .. Len(q) : Len(r) \in i + 1 .. Len(r)
    BY <1>1
  <2> QED
    BY <1>1, <1>2, <2>1 DEF NoReady, LastReady
<1>4. a.kind # "ready" => (NoReady(r) <=> NoReady(q))
  <2>1. \A i \in 1 .. Len(q) : i \in 1 .. Len(r)
    BY <1>1
  <2> QED
    BY <1>1, <1>2, <2>1 DEF NoReady
<1>5. a.kind # "ready" =>
        \A i \in 1 .. Len(r) : LastReady(r, i) => i \in 1 .. Len(q) /\ LastReady(q, i)
  <2> SUFFICES ASSUME a.kind # "ready", NEW i \in 1 .. Len(r), LastReady(r, i)
               PROVE  i \in 1 .. Len(q) /\ LastReady(q, i)
    OBVIOUS
  <2>1. i \in 1 .. Len(q)
    BY <1>1, <1>2 DEF LastReady
  <2>2. \A j \in i + 1 .. Len(q) : j \in 1 .. Len(q) /\ j \in i + 1 .. Len(r)
    BY <1>1, <2>1
  <2> QED
    BY <1>1, <2>1, <2>2 DEF LastReady
<1> QED
  BY <1>1, <1>3, <1>4, <1>5 DEF Longer

\* A step after which the handler answers nothing of capabilities, and which says
\* nothing of them.
LEMMA AckQuiet ==
    ASSUME NEW k, P(k)!TypeOK, NEW w \in k.handlers, AckInv(w), UNCHANGED <<socket, ready,
                                                                            rowCapabilities>>,
           ~Answering(w), ~Answering(w)',
           handler'[w].step # "idle" /\ handler'[w].message.kind = "ready" => handler'[w].socket = socket,
           \/ UNCHANGED down
           \/ \E a \in Answers(k) : a.kind # "ready" /\ down' = Append(down, a)
    PROVE  AckInv(w)'
<1>1. down \in Seq(Answers(k))
  BY DEF P!TypeOK, Answers
<1>2. CASE UNCHANGED down
  BY <1>2 DEF AckInv, Answering, LastReady, NoReady
<1>3. ASSUME NEW a \in Answers(k), a.kind # "ready", down' = Append(down, a) PROVE AckInv(w)'
  <2>5. PICK r : r = Append(down, a)
    OBVIOUS
  <2>0. down' = r
    BY <1>3, <2>5
  <2>6. Longer(down, a, r)
    BY <1>1, <2>5, Appended
  <2>4. /\ NoReady(r) <=> NoReady(down)
        /\ \A i \in 1 .. Len(r) :
             LastReady(r, i) => i \in 1 .. Len(down) /\ LastReady(down, i) /\ r[i] = down[i]
    BY <1>3, <2>6 DEF Longer
  <2>1. NoReady(down') => NoReady(down)
    BY <2>0, <2>4
  <2>2. \A i \in 1 .. Len(down') :
          LastReady(down', i) => i \in 1 .. Len(down) /\ LastReady(down, i) /\ down'[i] = down[i]
    BY <2>0, <2>4
  <2>3. \A i \in 1 .. Len(down') : LastReady(down', i) => down'[i].value = rowCapabilities
    BY <2>2 DEF AckInv
  <2> QED
    BY <2>1, <2>3 DEF AckInv, Answering, LastReady, NoReady
<1> QED
  BY <1>2, <1>3

LEMMA AckWorker ==
    ASSUME NEW k, P(k)!TypeOK, NEW w \in k.handlers, AckInv(w), P(k)!Take(w) \/ P(k)!Handle(w)
    PROVE  AckInv(w)'
<1> USE DEF P!Answer, P!AtWorker, P!state
<1>1. handler \in [k.handlers -> {P(k)!Quiet} \cup P(k)!Handled] /\ down \in Seq(Answers(k))
  BY DEF P!TypeOK, Answers
<1>2. UNCHANGED <<socket, ready>>
  BY DEF P!Take, P!Handle, P!StoreReady, P!AnswerReady, P!Skip, P!Accept, P!Look, P!Store,
     P!RememberAndAnswer
<1>3. CASE P(k)!Take(w)
  <2>1. handler'[w].step \in {"store", "check"} /\ handler'[w].socket = socket /\ handler[w].step = "idle"
        /\ UNCHANGED <<down, rowCapabilities>>
    BY <1>1, <1>3 DEF P!Take, P!Quiet
  <2> QED
    BY <1>2, <2>1, AckQuiet DEF Answering
<1>4. CASE P(k)!StoreReady(w)
  <2>1. /\ handler'[w].step = "answer" /\ handler'[w].message = handler[w].message
        /\ handler'[w].socket = handler[w].socket /\ handler[w].step = "store"
        /\ handler[w].message.kind = "ready"
        /\ rowCapabilities' = handler[w].message.value /\ UNCHANGED down
    BY <1>1, <1>4, Held DEF P!StoreReady, P!Is, P!Handled
  <2> QED
    BY <1>2, <2>1 DEF AckInv, Answering, LastReady, NoReady
<1>5. CASE P(k)!AnswerReady(w)
  <2>1. /\ handler'[w] = P(k)!Quiet /\ Answering(w) /\ UNCHANGED rowCapabilities
    BY <1>1, <1>5 DEF P!AnswerReady, P!Is, Answering
  <2>2. handler'[w].step = "idle" /\ rowCapabilities = handler[w].message.value
    BY <2>1 DEF P!Quiet, AckInv
  <2>3. CASE handler[w].socket = socket
    <3> DEFINE a == handler[w].message
    <3>1. a \in Answers(k) /\ a.kind = "ready" /\ down' = Append(down, a)
      BY <1>5, <2>3, Held, Kinds DEF P!AnswerReady, P!Is, Answers
    <3>2. ~NoReady(down') /\ \A i \in 1 .. Len(down') : LastReady(down', i) => down'[i] = a
      <4>3. PICK r : r = Append(down, a)
        OBVIOUS
      <4>4. Longer(down, a, r)
        BY <1>1, <3>1, <4>3, Appended
      <4>1. ~NoReady(r) /\ \A i \in 1 .. Len(r) : LastReady(r, i) => r[i] = a
        <5> HIDE DEF a
        <5> QED
          BY <3>1, <4>4 DEF Longer
      <4>2. down' = r
        BY <3>1, <4>3
      <4> QED
        BY <4>1, <4>2
    <3> QED
      BY <1>2, <2>1, <2>2, <3>2 DEF AckInv, Answering, LastReady, NoReady
  <2>4. CASE handler[w].socket # socket
    <3>1. UNCHANGED down
      BY <1>5, <2>4 DEF P!AnswerReady
    <3>2. ready.acked = None /\ NoReady(down)
      BY <1>5, <2>4 DEF AckInv, P!AnswerReady, P!Is
    <3> QED
      BY <1>2, <2>1, <2>2, <3>1, <3>2 DEF AckInv, Answering, LastReady, NoReady
  <2> QED
    BY <2>3, <2>4
<1>6. CASE P(k)!Skip(w)
  <2> DEFINE a == [kind |-> "instances", id |-> handler[w].message.id]
  <2>1. a \in Answers(k) /\ a.kind # "ready"
    BY <1>6, Held, Kinds DEF P!Skip, P!Is, Answers
  <2>2. /\ handler'[w].step = "idle" /\ ~Answering(w) /\ UNCHANGED rowCapabilities
        /\ UNCHANGED down \/ down' = Append(down, a)
    BY <1>1, <1>6 DEF P!Skip, P!Is, Answering, P!AnswerReport, P!Quiet
  <2> HIDE DEF a
  <2> QED
    BY <1>2, <2>1, <2>2, AckQuiet DEF Answering
<1>7. CASE P(k)!Accept(w) \/ P(k)!Look(w) \/ P(k)!Store(w)
  <2>1. /\ handler'[w].message = handler[w].message /\ handler[w].message.kind = "instances"
        /\ UNCHANGED <<down, rowCapabilities>>
    BY <1>1, <1>7, Held DEF P!Accept, P!Look, P!Store, P!Is, P!Handled
  <2> QED
    BY <1>2, <2>1, AckQuiet DEF Answering
<1>8. CASE P(k)!RememberAndAnswer(w)
  <2> DEFINE a == [kind |-> "instances", id |-> handler[w].message.id]
  <2>1. a \in Answers(k) /\ a.kind # "ready"
    BY <1>8, Held, Kinds DEF P!RememberAndAnswer, P!Is, Answers
  <2>2. /\ handler'[w].step = "idle" /\ ~Answering(w) /\ UNCHANGED rowCapabilities
        /\ UNCHANGED down \/ down' = Append(down, a)
    BY <1>1, <1>8 DEF P!RememberAndAnswer, P!Is, Answering, P!AnswerReport, P!Quiet
  <2> HIDE DEF a
  <2> QED
    BY <1>2, <2>1, <2>2, AckQuiet DEF Answering
<1> QED
  BY <1>3, <1>4, <1>5, <1>6, <1>7, <1>8 DEF P!Handle

LEMMA AckRest ==
    ASSUME NEW k, NEW w \in k.handlers, AckInv(w), P(k)!CleanUp \/ P(k)!Change \/ P(k)!WorkerFails \/ P(k)!Pause \/ P(k)!Reconnect
    PROVE  AckInv(w)'
<1>1. CASE UNCHANGED <<socket, down, handler, ready, rowCapabilities>>
  BY <1>1 DEF AckInv, Answering, LastReady, NoReady
<1>2. CASE P(k)!Reconnect
  <2>1. ready'.acked = None /\ down' = <<>> /\ UNCHANGED <<handler, rowCapabilities>>
    BY <1>2 DEF P!Reconnect
  <2> QED
    BY <2>1 DEF AckInv, Answering, LastReady, NoReady
<1> QED
  BY <1>1, <1>2 DEF P!CleanUp, P!SocketGone, P!ForgetReports, P!StopInstances, P!Change,
     P!WorkerFails, P!Pause,
     P!AtWorker, P!state, P!worker

LEMMA AckStep ==
    ASSUME NEW k, P(k)!TypeOK, NEW w, k.handlers = {w}, AckInv(w), [P(k)!Next]_(P(k)!vars)
    PROVE  AckInv(w)'
<1>1. ASSUME NEW b \in BOOLEAN, NEW c \in BOOLEAN, P(k)!Tick(b, c) \/ P(k)!OtherText(b) PROVE AckInv(w)'
  BY <1>1, AckSends DEF P!Tick, P!OtherText, P!Connector, P!worker
<1>2. CASE UNCHANGED P(k)!vars
  BY <1>2, AckSends DEF P!vars, P!state, P!worker
<1> QED
  BY <1>1, <1>2, AckAcknowledge, AckWorker, AckRest DEF P!Next

LEMMA AckSays == ASSUME NEW k, NEW w \in k.handlers, AckInv(w) PROVE P(k)!AckedReadyIsStored
BY DEF AckInv, P!AckedReadyIsStored, P!AllHandled, Answering, P!Quiet, NoReady

\* Every variable keeps its type.
THEOREM ReportTypes == ASSUME NEW k, P(k)!ReportsAssumption PROVE P(k)!Spec => []P(k)!TypeOK
<1>1. P(k)!Init => P(k)!TypeOK
  BY TypeStart
<1>2. P(k)!TypeOK /\ [P(k)!Next]_(P(k)!vars) => P(k)!TypeOK'
  BY TypeStep
<1> QED
  BY <1>1, <1>2, PTL DEF P!Spec

\* With one handler, what the connector counts as acknowledged and will not send
\* again is in the Worker's row when nothing is on its way.
THEOREM AcknowledgedIsStored ==
    ASSUME NEW k, P(k)!ReportsAssumption, NEW w, k.handlers = {w}
    PROVE  P(k)!Spec => []P(k)!AckedReadyIsStored
<1>1. P(k)!Init => AckInv(w)
  BY AckStart
<1>2. P(k)!TypeOK /\ AckInv(w) /\ [P(k)!Next]_(P(k)!vars) => AckInv(w)'
  BY AckStep
<1>3. AckInv(w) => P(k)!AckedReadyIsStored
  BY AckSays
<1>4. P(k)!Spec => []P(k)!TypeOK
  BY ReportTypes
<1> QED
  BY <1>1, <1>2, <1>3, <1>4, PTL DEF P!Spec

-----------------------------------------------------------------------------
(* The composition that the run checks.                                     *)

OneHandler == [capabilities |-> Capabilities, handlers |-> Handlers, ids |-> Ids,
               faults |-> MaxFaults, changes |-> MaxChanges]
TwoHandlers == [capabilities |-> {full}, handlers |-> {1, 2}, ids |-> 3, faults |-> 0,
                changes |-> MaxChanges]
LateHandlers == [capabilities |-> {full}, handlers |-> {1, 2}, ids |-> 3, faults |-> MaxFaults,
                 changes |-> 0]

LEMMA CountsAlike ==
    ASSUME NEW S
    PROVE  Two!Cardinality(S) = Cardinality(S) /\ Late!Cardinality(S) = Cardinality(S)
BY Zenon DEF Two!Cardinality, Late!Cardinality, Cardinality

LEMMA OneIsInstance ==
    /\ Init <=> P(OneHandler)!Init
    /\ [Next]_(vars) <=> [P(OneHandler)!Next]_(P(OneHandler)!vars)
<1>1. /\ OneHandler.capabilities = Capabilities /\ OneHandler.handlers = Handlers
      /\ OneHandler.ids = Ids /\ OneHandler.faults = MaxFaults
      /\ OneHandler.changes = MaxChanges
  BY DEF OneHandler
<1>2. OnTheirWay = P(OneHandler)!OnTheirWay
  BY <1>1, SameCount DEF OnTheirWay, P!OnTheirWay, Quiet, P!Quiet
<1> QED
  BY <1>1, <1>2 DEF
     truth, state, worker, vars, Quiet, ReadyMessage, Report, SentReport, Init, ReadyIsDue,
     SentReady, ReportIsDue, UnackedSnapshot, Connector, Tick, OtherText, AcknowledgeReady,
     AcknowledgeReport, AtWorker, Answer, Take, Is, StoreReady, AnswerReady, AnswerReport,
     IsDuplicate, Skip, Accept, Look, Store, RememberAndAnswer, Handle, SocketGone,
     ForgetReports, StopInstances, Change, Fault, WorkerFails, Pause, Reconnect, CleanUp,
     Next, P!truth, P!state, P!worker, P!vars, P!Quiet, P!ReadyMessage, P!Report,
     P!SentReport, P!Init, P!ReadyIsDue, P!SentReady, P!ReportIsDue, P!UnackedSnapshot,
     P!Connector, P!Tick, P!OtherText, P!AcknowledgeReady, P!AcknowledgeReport, P!AtWorker,
     P!Answer, P!Take, P!Is, P!StoreReady, P!AnswerReady, P!AnswerReport, P!IsDuplicate,
     P!Skip, P!Accept, P!Look, P!Store, P!RememberAndAnswer, P!Handle, P!SocketGone,
     P!ForgetReports, P!StopInstances, P!Change, P!Fault, P!WorkerFails, P!Pause,
     P!Reconnect, P!CleanUp, P!Next

LEMMA TwoIsInstance ==
    /\ Two!Init <=> P(TwoHandlers)!Init
    /\ [Two!Next]_(Two!vars) <=> [P(TwoHandlers)!Next]_(P(TwoHandlers)!vars)
<1>1. /\ TwoHandlers.capabilities = {full} /\ TwoHandlers.handlers = {1, 2}
      /\ TwoHandlers.ids = 3 /\ TwoHandlers.faults = 0
      /\ TwoHandlers.changes = MaxChanges
  BY DEF TwoHandlers
<1>2. Two!OnTheirWay = P(TwoHandlers)!OnTheirWay
  BY <1>1, SameCount, CountsAlike DEF Two!OnTheirWay, P!OnTheirWay, Two!Quiet, P!Quiet
<1> QED
  BY <1>1, <1>2 DEF
     Two!truth, Two!state, Two!worker, Two!vars, Two!Quiet, Two!ReadyMessage, Two!Report,
     Two!SentReport, Two!Init, Two!ReadyIsDue, Two!SentReady, Two!ReportIsDue,
     Two!UnackedSnapshot, Two!Connector, Two!Tick, Two!OtherText, Two!AcknowledgeReady,
     Two!AcknowledgeReport, Two!AtWorker, Two!Answer, Two!Take, Two!Is, Two!StoreReady,
     Two!AnswerReady, Two!AnswerReport, Two!IsDuplicate, Two!Skip, Two!Accept, Two!Look,
     Two!Store, Two!RememberAndAnswer, Two!Handle, Two!SocketGone, Two!ForgetReports,
     Two!StopInstances, Two!Change, Two!Fault, Two!WorkerFails, Two!Pause, Two!Reconnect,
     Two!CleanUp, Two!Next, P!truth, P!state, P!worker, P!vars, P!Quiet, P!ReadyMessage,
     P!Report, P!SentReport, P!Init, P!ReadyIsDue, P!SentReady, P!ReportIsDue,
     P!UnackedSnapshot, P!Connector, P!Tick, P!OtherText, P!AcknowledgeReady,
     P!AcknowledgeReport, P!AtWorker, P!Answer, P!Take, P!Is, P!StoreReady, P!AnswerReady,
     P!AnswerReport, P!IsDuplicate, P!Skip, P!Accept, P!Look, P!Store, P!RememberAndAnswer,
     P!Handle, P!SocketGone, P!ForgetReports, P!StopInstances, P!Change, P!Fault,
     P!WorkerFails, P!Pause, P!Reconnect, P!CleanUp, P!Next

LEMMA LateIsInstance ==
    /\ Late!Init <=> P(LateHandlers)!Init
    /\ [Late!Next]_(Late!vars) <=> [P(LateHandlers)!Next]_(P(LateHandlers)!vars)
<1>1. /\ LateHandlers.capabilities = {full} /\ LateHandlers.handlers = {1, 2}
      /\ LateHandlers.ids = 3 /\ LateHandlers.faults = MaxFaults
      /\ LateHandlers.changes = 0
  BY DEF LateHandlers
<1>2. Late!OnTheirWay = P(LateHandlers)!OnTheirWay
  BY <1>1, SameCount, CountsAlike DEF Late!OnTheirWay, P!OnTheirWay, Late!Quiet, P!Quiet
<1> QED
  BY <1>1, <1>2 DEF
     Late!truth, Late!state, Late!worker, Late!vars, Late!Quiet, Late!ReadyMessage,
     Late!Report, Late!SentReport, Late!Init, Late!ReadyIsDue, Late!SentReady,
     Late!ReportIsDue, Late!UnackedSnapshot, Late!Connector, Late!Tick, Late!OtherText,
     Late!AcknowledgeReady, Late!AcknowledgeReport, Late!AtWorker, Late!Answer, Late!Take,
     Late!Is, Late!StoreReady, Late!AnswerReady, Late!AnswerReport, Late!IsDuplicate,
     Late!Skip, Late!Accept, Late!Look, Late!Store, Late!RememberAndAnswer, Late!Handle,
     Late!SocketGone, Late!ForgetReports, Late!StopInstances, Late!Change, Late!Fault,
     Late!WorkerFails, Late!Pause, Late!Reconnect, Late!CleanUp, Late!Next, P!truth, P!state,
     P!worker, P!vars, P!Quiet, P!ReadyMessage, P!Report, P!SentReport, P!Init, P!ReadyIsDue,
     P!SentReady, P!ReportIsDue, P!UnackedSnapshot, P!Connector, P!Tick, P!OtherText,
     P!AcknowledgeReady, P!AcknowledgeReport, P!AtWorker, P!Answer, P!Take, P!Is,
     P!StoreReady, P!AnswerReady, P!AnswerReport, P!IsDuplicate, P!Skip, P!Accept, P!Look,
     P!Store, P!RememberAndAnswer, P!Handle, P!SocketGone, P!ForgetReports, P!StopInstances,
     P!Change, P!Fault, P!WorkerFails, P!Pause, P!Reconnect, P!CleanUp, P!Next

LEMMA OneHandlerTypes == P(OneHandler)!TypeOK => TypeOK
<1>1. /\ OneHandler.capabilities = Capabilities /\ OneHandler.handlers = Handlers
      /\ OneHandler.ids = Ids /\ OneHandler.faults = MaxFaults
      /\ OneHandler.changes = MaxChanges
  BY DEF OneHandler
<1> QED
  BY <1>1 DEF
     Message, Quiet, Handled, TypeOK, P!Message, P!Quiet, P!Handled, P!TypeOK

LEMMA TwoHandlersTypes == P(TwoHandlers)!TypeOK => Two!TypeOK
<1>1. /\ TwoHandlers.capabilities = {full} /\ TwoHandlers.handlers = {1, 2}
      /\ TwoHandlers.ids = 3 /\ TwoHandlers.faults = 0
      /\ TwoHandlers.changes = MaxChanges
  BY DEF TwoHandlers
<1> QED
  BY <1>1 DEF
     Two!Message, Two!Quiet, Two!Handled, Two!TypeOK, P!Message, P!Quiet, P!Handled, P!TypeOK

LEMMA LateHandlersTypes == P(LateHandlers)!TypeOK => Late!TypeOK
<1>1. /\ LateHandlers.capabilities = {full} /\ LateHandlers.handlers = {1, 2}
      /\ LateHandlers.ids = 3 /\ LateHandlers.faults = MaxFaults
      /\ LateHandlers.changes = 0
  BY DEF LateHandlers
<1> QED
  BY <1>1 DEF
     Late!Message, Late!Quiet, Late!Handled, Late!TypeOK, P!Message, P!Quiet, P!Handled,
     P!TypeOK

\* What the composition keeps: the types of the instance a behaviour is about.
CompositionInv ==
    /\ subject = "one" => P(OneHandler)!TypeOK
    /\ subject = "two" => P(TwoHandlers)!TypeOK
    /\ subject = "late" => P(LateHandlers)!TypeOK
    /\ subject \in {"one", "two", "late"}

LEMMA Bounds ==
    /\ P(OneHandler)!ReportsAssumption /\ P(TwoHandlers)!ReportsAssumption
    /\ P(LateHandlers)!ReportsAssumption
<1>1. IsFiniteSet({1, 2})
  <2>1. IsFiniteSet({1})
    BY FS_Singleton
  <2>2. IsFiniteSet({1} \cup {2})
    BY <2>1, FS_AddElement
  <2>3. {1} \cup {2} = {1, 2}
    OBVIOUS
  <2> QED
    BY <2>2, <2>3, Zenon
<1>2. ReportsAssumption /\ full \notin {None} /\ None \notin {full}
  BY MCReportsAssumption DEF Two!ReportsAssumption
<1> QED
  BY <1>1, <1>2, SameCount DEF P!ReportsAssumption, ReportsAssumption, OneHandler, TwoHandlers,
     LateHandlers

LEMMA CompositionStarts == MCInit => CompositionInv
<1> SUFFICES ASSUME MCInit PROVE CompositionInv
  OBVIOUS
<1>1. subject = "one" => Init
  BY DEF MCInit
<1>2. subject # "one" => Two!Init /\ Late!Init
  BY DEF MCInit, Two!Init, Late!Init, Two!ReadyMessage, Late!ReadyMessage, Two!Report,
     Late!Report,
     Two!Quiet, Late!Quiet
<1> QED
  BY <1>1, <1>2, Bounds, OneIsInstance, TwoIsInstance, LateIsInstance, TypeStart
     DEF CompositionInv, MCInit

LEMMA CompositionKeeps == CompositionInv /\ [MCNext]_all => CompositionInv'
<1> SUFFICES ASSUME CompositionInv, [MCNext]_all PROVE CompositionInv'
  OBVIOUS
<1>1. UNCHANGED subject
  BY DEF MCNext, all, About, One
<1>2. /\ subject = "one" => [Next]_vars
      /\ subject = "two" => [Two!Next]_(Two!vars)
      /\ subject = "late" => [Late!Next]_(Late!vars)
  BY DEF MCNext, all, About, One, vars, truth, state, worker, Two!vars, Two!truth,
     Two!state, Two!worker, Late!vars,
     Late!truth, Late!state, Late!worker
<1>3. /\ subject = "one" => P(OneHandler)!TypeOK'
      /\ subject = "two" => P(TwoHandlers)!TypeOK'
      /\ subject = "late" => P(LateHandlers)!TypeOK'
  BY <1>2, Bounds, OneIsInstance, TwoIsInstance, LateIsInstance, TypeStep DEF CompositionInv
<1> QED
  BY <1>1, <1>3 DEF CompositionInv

\* The connector's bookkeeping, the messages and the Worker's handlers and rows
\* keep their types, in each of the three instances.
THEOREM AllKeepTheirTypes == MCSpec => []TypesAreCorrect
<1>1. CompositionInv => TypesAreCorrect
  BY OneHandlerTypes, TwoHandlersTypes, LateHandlersTypes DEF CompositionInv, TypesAreCorrect
<1> QED
  BY <1>1, CompositionStarts, CompositionKeeps, PTL DEF MCSpec
=============================================================================
