------------------------ MODULE AgentSocketsProofs ------------------------
(***************************************************************************)
(* Theorems about AgentSockets, for any number of sockets, commands and    *)
(* handlers: the type invariant, one refresh at a time, that a command is  *)
(* executed once, as a running command, on a socket that knows it, and     *)
(* that no close of a socket overlooks a running command.  And what        *)
(* CommandTableProofs proves of the ends of commands, of the tables that   *)
(* the runs check.                                                         *)
(*                                                                         *)
(* The start of a command travels as a message, as the frame of the        *)
(* handler that records it, and as the acknowledgement.  The argument is   *)
(* that on the socket in use there is one start at most, that of the       *)
(* command the connector is starting; and that once the command has begun  *)
(* no dispatch of it is left on that socket that could be accepted, since  *)
(* a dispatch is leased before the start is recorded, for a socket that is *)
(* open then.                                                              *)
(***************************************************************************)
EXTENDS MCWorker, TLAPS, FiniteSetTheorems, WellFoundedInduction, SequenceTheorems

-----------------------------------------------------------------------------
(* The inductive invariant.                                                *)

Started == {"running", "succeeded", "failed"}
Ended == {"succeeded", "failed"}
Busy(c) == agent.doing \in {"executing", "ending"} /\ agent.id = c

IsEvent(w, kind) == run[w].op = "event" /\ run[w].kind = kind

\* A frame names a socket that has been open, and after the lease a command.
FramesFit ==
    \A w \in Handlers :
        LET f == run[w]
        IN  /\ f.op \in {"ready", "report", "event", "gone"} => socket[f.socket].phase # "new"
            /\ f.op = "dispatch" =>
                 /\ \A s \in f.seen : socket[s].phase # "new"
                 /\ f.at \notin {"pick", "pickListed"} =>
                      f.socket # None /\ socket[f.socket].phase # "new"
                 /\ f.at \in {"send", "release"} => f.id # None

\* A new socket has no attachment yet, nothing waits on a socket that the
\* connector has left, and what it does is about a command.
SocketsFit ==
    /\ \A s \in Sockets : socket[s].phase = "new" => ~socket[s].ready /\ socket[s].pending = "no"
    /\ \A s \in Sockets : agent.socket # s => work[s] = <<>> /\ mail[s] = {}
    /\ agent.socket # None => socket[agent.socket].phase # "new"
    /\ agent.doing # "reading" => agent.socket # None /\ agent.id # None

OneAsked ==
    \A s, t \in Listed : socket[s].pending = "yes" /\ socket[t].pending = "yes" => s = t

\* On the socket in use there is one start at most: a message, a frame or an
\* acknowledgement.
Sent == {i \in DOMAIN inbox[agent.socket] : inbox[agent.socket][i].kind = "started"}
Taken == {w \in Handlers : IsEvent(w, "started") /\ run[w].socket = agent.socket}
Heard == {m \in mail[agent.socket] : m.kind = "started"}

OneStart ==
    agent.socket # None =>
        /\ \A i \in Sent : agent.doing = "starting" /\ inbox[agent.socket][i].id = agent.id
        /\ \A w \in Taken : agent.doing = "starting" /\ run[w].id = agent.id
        /\ \A m \in Heard : agent.doing = "starting" /\ m.id = agent.id
        /\ \A i, j \in Sent : i = j
        /\ \A v, w \in Taken : v = w
        /\ \A m, n \in Heard : m = n
        /\ Sent = {} \/ Taken = {}
        /\ Sent = {} \/ Heard = {}
        /\ Taken = {} \/ Heard = {}

\* What was accepted has started, and what began has.
AcceptedHasStarted ==
    /\ \A w \in Handlers :
          IsEvent(w, "started") /\ run[w].at = "answer" /\ run[w].accepted
              => command[run[w].id].state \in Started
    /\ \A s \in Sockets : \A m \in mail[s] :
          m.kind = "started" /\ m.accepted => command[m.id].state \in Started
    /\ \A c \in Commands : begun[c] > 0 => command[c].state \in Started

\* The end of a command is reported by a connector that began it and executes
\* it no more; when the report is answered the command has ended.
Reported(c) == begun[c] > 0 /\ ~(Executing /\ agent.id = c)

EndsAreReported ==
    /\ \A s \in Sockets : \A i \in DOMAIN inbox[s] :
          inbox[s][i].kind = "finished" => Reported(inbox[s][i].id)
    /\ \A w \in Handlers :
          IsEvent(w, "finished") =>
              /\ Reported(run[w].id)
              /\ run[w].at = "answer" => command[run[w].id].state \in Ended
    /\ \A s \in Sockets : \A m \in mail[s] :
          m.kind = "finished" => command[m.id].state \in Ended
    /\ \A c \in Commands : command[c].state = "succeeded" => Reported(c)

\* What is executed has begun, once.  A command that has begun and runs, and
\* is not being executed, is not dispatched on the socket in use; one that has
\* begun and is being started again is not accepted.
Dispatched(c) ==
    \/ \E i \in DOMAIN work[agent.socket] : work[agent.socket][i] = c
    \/ \E w \in Handlers : /\ run[w].op = "dispatch" /\ run[w].at = "send"
                           /\ run[w].socket = agent.socket /\ run[w].id = c
Accepted(c) ==
    \/ \E w \in Taken : run[w].at = "answer" /\ run[w].accepted /\ run[w].id = c
    \/ \E m \in Heard : m.accepted /\ m.id = c

BeginsOnce ==
    /\ \A c \in Commands : begun[c] <= 1 /\ (Busy(c) => begun[c] = 1)
    /\ agent.socket # None =>
         \A c \in Commands : begun[c] > 0 =>
            /\ command[c].state = "running" /\ ~Busy(c) => ~Dispatched(c)
            /\ agent.doing = "starting" /\ agent.id = c =>
                 command[c].state # "running" /\ ~Accepted(c)

\* The socket in use is ready when it is dispatched on, and lists the commands
\* that wait on it or are being started or executed.
Known(c) ==
    \/ \E i \in DOMAIN work[agent.socket] : work[agent.socket][i] = c
    \/ agent.doing = "starting" /\ agent.id = c

SocketKnows ==
    agent.socket # None /\ socket[agent.socket].phase = "open" =>
        /\ \A w \in Handlers :
              run[w].op = "dispatch" /\ run[w].at \in {"lease", "send"}
                  /\ run[w].socket = agent.socket => socket[agent.socket].ready
        /\ work[agent.socket] # <<>> \/ agent.doing # "reading" => socket[agent.socket].ready
        /\ \A c \in Commands :
              (begun[c] = 0 /\ Known(c)) \/ (Executing /\ agent.id = c)
                  => c \in socket[agent.socket].active

IInv ==
    /\ TypeOK /\ FramesFit /\ SocketsFit /\ OneAsked
    /\ OneStart /\ AcceptedHasStarted /\ EndsAreReported /\ BeginsOnce /\ SocketKnows

-----------------------------------------------------------------------------
(* Types.                                                                  *)

\* The greatest of a set of numbers up to n, which CHOOSE finds.
LEMMA NewestExists ==
    ASSUME NEW S \in SUBSET Sockets, S # {}
    PROVE  Newest(S) \in S
<1> DEFINE T == {n \in 0 .. NumSockets : NumSockets - n \in S}
<1>1. NumSockets \in Nat
  BY AgentSocketsAssumption
<1>2. PICK x \in S : TRUE
  OBVIOUS
<1>3. NumSockets - x \in T
  BY <1>1, <1>2 DEF Sockets
<1>4. T \in SUBSET Nat
  BY <1>1
<1>5. PICK m \in T : \A n \in T : m <= n
  <2>1. PICK m \in T : \A n \in T : <<n, m>> \notin OpToRel(<, Nat)
    <3> HIDE DEF T
    <3> QED
      BY <1>3, <1>4, NatLessThanWellFounded, WFMin
  <2>2. \A n \in T : ~(n < m)
    BY <1>4, <2>1 DEF OpToRel
  <2> QED
    BY <1>4, <2>2
<1>6. ASSUME NEW t \in S PROVE t <= NumSockets - m
  <2>1. NumSockets - t \in T
    BY <1>1 DEF Sockets
  <2> QED
    BY <1>1, <1>5, <2>1 DEF Sockets
<1>7. NumSockets - m \in S
  BY <1>5
<1> QED
  BY <1>6, <1>7 DEF Newest

LEMMA FrameByOp ==
    ASSUME NEW f \in Frames
    PROVE  /\ f.op = "ready" => f \in ReadyFrames
           /\ f.op = "report" => f \in ReportFrames
           /\ f.op = "event" => f \in EventFrames
           /\ f.op = "dispatch" => f \in DispatchFrames
           /\ f.op = "gone" => f \in GoneFrames
BY DEF Frames, Idle, ReadyFrames, ReportFrames, EventFrames, DispatchFrames, GoneFrames

LEMMA LookedType ==
    ASSUME NEW attached \in [Sockets -> Attachments]
    PROVE  Looked(attached) \in [Sockets -> Attachments]
BY DEF Looked, Attachments

LEMMA DispatchType ==
    ASSUME NEW s \in Sockets, NEW attached
    PROVE  DispatchOn(s, attached) \in Frames
BY DEF DispatchOn, Dispatch, Frames, DispatchFrames, OrNone

\* The writes to an attachment and to a command row.
LEMMA AttachmentType ==
    ASSUME NEW a \in Attachments
    PROVE  /\ \A p \in {"no", "yes", "late"} : [a EXCEPT !.pending = p] \in Attachments
           /\ \A p \in {"no", "yes", "late"}, r \in BOOLEAN :
                 [a EXCEPT !.ready = r, !.pending = p] \in Attachments
           /\ \A S \in SUBSET Commands : [a EXCEPT !.active = S] \in Attachments
           /\ \A S \in SUBSET Commands, p \in {"no", "yes", "late"}, r \in BOOLEAN :
                 [a EXCEPT !.active = S, !.ready = r, !.pending = p] \in Attachments
           /\ \A S \in SUBSET Commands, p \in {"new", "open", "gone"} :
                 [a EXCEPT !.phase = p, !.active = S] \in Attachments
           /\ \A p \in {"new", "open", "gone"} : [a EXCEPT !.phase = p] \in Attachments
           /\ a.active \in SUBSET Commands /\ a.pending \in {"no", "yes", "late"}
BY DEF Attachments

LEMMA RowType ==
    ASSUME NEW r \in CommandRows
    PROVE  /\ \A st \in {"absent", "pending", "leased", "running", "succeeded", "failed"} :
                 /\ [r EXCEPT !.state = st] \in CommandRows
                 /\ \A e \in BOOLEAN : [state |-> st, expired |-> e] \in CommandRows
           /\ [r EXCEPT !.expired = TRUE] \in CommandRows
BY DEF CommandRows

LEMMA TypeInit == Init => TypeOK
<1> SUFFICES ASSUME Init PROVE TypeOK
  OBVIOUS
<1>1. Unattached \in Attachments /\ Away \in Agents /\ Idle \in Frames
  BY DEF Unattached, Attachments, Away, Agents, OrNone, Frames
<1>2. [state |-> "absent", expired |-> FALSE] \in CommandRows
  BY DEF CommandRows
<1>3. socket \in [Sockets -> Attachments] /\ command \in [Commands -> CommandRows]
  BY <1>1, <1>2 DEF Init
<1>4. /\ work \in [Sockets -> Seq(Commands)] /\ mail \in [Sockets -> SUBSET Mail]
      /\ inbox \in [Sockets -> Seq(Messages)]
  BY DEF Init
<1>5. begun \in [Commands -> Nat] /\ run \in [Handlers -> Frames] /\ agent \in Agents
  BY <1>1 DEF Init
<1> QED
  BY <1>3, <1>4, <1>5 DEF Init, TypeOK

LEMMA AskType ==
    ASSUME TypeOK, NEW s \in Sockets, AskSessions(s)
    PROVE  /\ socket' \in [Sockets -> Attachments] /\ cooling' \in BOOLEAN
           /\ mail' \in [Sockets -> SUBSET Mail]
<1>1. CASE Refreshing(socket) \/ cooling
  BY <1>1, LookedType DEF AskSessions, TypeOK
<1>2. CASE ~(Refreshing(socket) \/ cooling)
  <2> DEFINE looked == Looked(socket)
             p == IF socket[s].ready THEN "yes" ELSE looked[s].pending
  <2>1. /\ mail' = Mailed(s, [kind |-> "refresh"]) /\ cooling'
        /\ socket' = [looked EXCEPT ![s] = [looked[s] EXCEPT !.pending = p]]
    BY <1>2 DEF AskSessions
  <2>2. looked \in [Sockets -> Attachments]
    BY LookedType DEF TypeOK
  <2> HIDE DEF looked
  <2>3. looked[s] \in Attachments /\ p \in {"no", "yes", "late"}
    BY <2>2, AttachmentType
  <2>4. [looked[s] EXCEPT !.pending = p] \in Attachments
    BY <2>3, AttachmentType
  <2>5. [kind |-> "refresh"] \in Mail
    BY DEF Mail
  <2> HIDE DEF p
  <2>6. mail' \in [Sockets -> SUBSET Mail]
    BY <2>1, <2>5 DEF Mailed, TypeOK
  <2>7. cooling' \in BOOLEAN
    BY <1>2 DEF AskSessions
  <2> QED
    BY <2>1, <2>2, <2>4, <2>6, <2>7
<1> QED
  BY <1>1, <1>2

LEMMA TypeContinue ==
    ASSUME TypeOK, FramesFit, NEW w \in Handlers, Continue(w)
    PROVE  TypeOK'
<1> USE AgentSocketsAssumption
<1> DEFINE f == run[w]
<1>f. /\ f.op = "ready" => f \in ReadyFrames
      /\ f.op = "report" => f \in ReportFrames
      /\ f.op = "event" => f \in EventFrames
      /\ f.op = "dispatch" => f \in DispatchFrames
      /\ f.op = "gone" => f \in GoneFrames
  BY FrameByOp DEF TypeOK
<1>i. /\ {Idle} \cup ReadyFrames \cup ReportFrames \cup EventFrames \subseteq Frames
      /\ DispatchFrames \cup GoneFrames \subseteq Frames
  BY DEF Frames
<1>l. \A a \in [Sockets -> Attachments] : Looked(a) \in [Sockets -> Attachments]
  BY LookedType
<1>d. \A s \in Sockets : \A a : DispatchOn(s, a) \in Frames
  BY DispatchType
<1>s. ASSUME NEW s \in Sockets, NEW a \in Attachments
      PROVE  [socket EXCEPT ![s] = a] \in [Sockets -> Attachments]
  BY DEF TypeOK
<1>m. ASSUME NEW s \in Sockets, NEW m \in Mail
      PROVE  Mailed(s, m) \in [Sockets -> SUBSET Mail]
  BY DEF TypeOK, Mailed
<1>c. ASSUME NEW c \in Commands, NEW r \in CommandRows
      PROVE  [command EXCEPT ![c] = r] \in [Commands -> CommandRows]
  BY DEF TypeOK
<1>a. \A s \in Sockets : socket[s] \in Attachments
  BY DEF TypeOK
<1>r. \A c \in Commands : command[c] \in CommandRows
  BY DEF TypeOK
<1>1. CASE ReadyUpdate(w)
  <2>1. [[f EXCEPT !.at = "mark"] EXCEPT !.news = @ \/ status # "online"] \in ReadyFrames
    BY <1>1, <1>f DEF ReadyUpdate, ReadyFrames
  <2> QED
    BY <1>1, <1>i, <2>1 DEF ReadyUpdate, TypeOK
<1>2. CASE ReadyMark(w)
  <2>1. f \in ReadyFrames
    BY <1>2, <1>f DEF ReadyMark
  <2>2. socket' \in [Sockets -> Attachments]
    <3> DEFINE s == f.socket
               a == [socket[s] EXCEPT !.ready = TRUE,
                       !.pending = IF socket[s].pending = "late" THEN "no" ELSE socket[s].pending]
    <3>1. s \in Sockets
      BY <2>1 DEF ReadyFrames
    <3>2. a \in Attachments
      <4>1. socket[s] \in Attachments /\ socket[s].pending \in {"no", "yes", "late"}
        BY <3>1, AttachmentType DEF TypeOK
      <4>2. (IF socket[s].pending = "late" THEN "no" ELSE socket[s].pending) \in {"no", "yes", "late"}
        BY <4>1
      <4> QED
        BY <4>1, <4>2, AttachmentType
    <3>3. socket' = [socket EXCEPT ![s] = a]
      BY <1>2, <3>1 DEF ReadyMark, TypeOK
    <3> QED
      BY <1>s, <3>1, <3>2, <3>3
  <2>3. mail' \in [Sockets -> SUBSET Mail]
    <3>1. f.socket \in Sockets /\ [kind |-> "ready"] \in Mail
      BY <2>1 DEF ReadyFrames, Mail
    <3>2. mail' = Mailed(f.socket, [kind |-> "ready"]) \/ mail' = mail
      BY <1>2 DEF ReadyMark
    <3> QED
      BY <1>m, <3>1, <3>2 DEF TypeOK
  <2>4. [f EXCEPT !.at = "refresh"] \in Frames
    BY <1>i, <2>1 DEF ReadyFrames
  <2> QED
    BY <1>2, <1>i, <2>2, <2>3, <2>4 DEF ReadyMark, Goto, End, TypeOK
<1>3. CASE ReadyRefresh(w)
  <2>1. f \in ReadyFrames
    BY <1>3, <1>f DEF ReadyRefresh
  <2>2. [f EXCEPT !.at = "dispatch"] \in Frames
    BY <1>i, <2>1 DEF ReadyFrames
  <2>3. socket' \in [Sockets -> Attachments] /\ cooling' \in BOOLEAN
    <3>1. f.socket \in Sockets
      BY <2>1 DEF ReadyFrames
    <3>2. CASE AskSessions(f.socket)
      BY <3>1, <3>2, AskType
    <3>3. CASE socket' = Looked(socket) /\ UNCHANGED cooling
      BY <3>3, <1>l DEF TypeOK
    <3>4. CASE UNCHANGED <<socket, cooling>>
      BY <3>4 DEF TypeOK
    <3> QED
      BY <1>3, <3>2, <3>3, <3>4 DEF ReadyRefresh
  <2>4. mail' \in [Sockets -> SUBSET Mail]
    <3>1. f.socket \in Sockets
      BY <2>1 DEF ReadyFrames
    <3>2. AskSessions(f.socket) \/ UNCHANGED mail
      BY <1>3 DEF ReadyRefresh
    <3> QED
      BY <3>1, <3>2, AskType DEF TypeOK
  <2>5. run' \in [Handlers -> Frames]
    BY <1>3, <1>i, <2>2 DEF ReadyRefresh, Goto, End, Blocked, TypeOK
  <2> QED
    BY <1>3, <2>3, <2>4, <2>5 DEF ReadyRefresh, TypeOK
<1>4. CASE ReadyDispatch(w)
  BY <1>4, <1>f, <1>l, <1>d DEF ReadyDispatch, ReadyFrames, TypeOK
<1>5. CASE ReportAnswer(w)
  <2>1. f \in ReportFrames
    BY <1>5, <1>f DEF ReportAnswer
  <2>2. [socket EXCEPT ![f.socket].pending = "no"] \in [Sockets -> Attachments]
    BY <2>1, <1>a, <1>s, AttachmentType DEF ReportFrames
  <2>3. socket' \in [Sockets -> Attachments]
    <3> DEFINE consumed == [socket EXCEPT ![f.socket].pending = "no"]
    <3>1. socket' \in {socket, consumed, Looked(consumed)}
      BY <1>5 DEF ReportAnswer
    <3> HIDE DEF consumed
    <3>2. consumed \in [Sockets -> Attachments]
      BY <2>2 DEF consumed
    <3> QED
      BY <1>l, <3>1, <3>2 DEF TypeOK
  <2>4. run' \in [Handlers -> Frames]
    <3> DEFINE consumed == [socket EXCEPT ![f.socket].pending = "no"]
    <3>1. \/ run' = [run EXCEPT ![w] = Idle]
          \/ run' = [run EXCEPT ![w] = DispatchOn(f.socket, consumed)]
      BY <1>5 DEF ReportAnswer, End, Blocked
    <3>2. DispatchOn(f.socket, consumed) \in Frames
      BY <1>d, <2>1 DEF ReportFrames
    <3> HIDE DEF consumed
    <3> QED
      BY <1>i, <3>1, <3>2 DEF TypeOK
  <2> QED
    BY <1>5, <2>3, <2>4 DEF ReportAnswer, TypeOK
<1>6. CASE EventRecord(w)
  <2>1. f \in EventFrames
    BY <1>6, <1>f DEF EventRecord
  <2>2. \A a \in BOOLEAN : [[f EXCEPT !.at = "answer"] EXCEPT !.accepted = a] \in EventFrames
    BY <2>1 DEF EventFrames
  <2>3. Accepts(f.id) \in BOOLEAN
    BY DEF Accepts, Active
  <2>4. command' \in [Commands -> CommandRows]
    <3>1. f.id \in Commands
      BY <2>1 DEF EventFrames
    <3>2. \/ command' = command
          \/ \E st \in {"running", "succeeded"} :
                command' = [command EXCEPT ![f.id] = [command[f.id] EXCEPT !.state = st]]
      BY <1>6, <3>1 DEF EventRecord, TypeOK
    <3>3. CASE command' = command
      BY <3>3 DEF TypeOK
    <3>4. ASSUME NEW st \in {"running", "succeeded"},
                 command' = [command EXCEPT ![f.id] = [command[f.id] EXCEPT !.state = st]]
          PROVE  command' \in [Commands -> CommandRows]
      <4>1. [command[f.id] EXCEPT !.state = st] \in CommandRows
        BY <1>r, <3>1, RowType
      <4> QED
        BY <1>c, <3>1, <3>4, <4>1
    <3> QED
      BY <3>2, <3>3, <3>4
  <2> QED
    BY <1>6, <1>i, <2>2, <2>3, <2>4 DEF EventRecord, TypeOK
<1>7. CASE EventAnswer(w)
  <2>1. f \in EventFrames
    BY <1>7, <1>f DEF EventAnswer
  <2>2. [socket EXCEPT ![f.socket].active = @ \ {f.id}] \in [Sockets -> Attachments]
    <3>1. socket[f.socket].active \ {f.id} \in SUBSET Commands /\ f.socket \in Sockets
      BY <2>1, <1>a, AttachmentType DEF EventFrames
    <3> QED
      BY <3>1, <1>a, <1>s, AttachmentType
  <2>3. [kind |-> f.kind, id |-> f.id, accepted |-> f.accepted] \in Mail
    BY <2>1 DEF EventFrames, Mail
  <2>4. mail' \in [Sockets -> SUBSET Mail]
    <3>1. \/ mail' = mail
          \/ mail' = Mailed(f.socket, [kind |-> f.kind, id |-> f.id, accepted |-> f.accepted])
      BY <1>7 DEF EventAnswer
    <3> QED
      BY <1>m, <2>1, <2>3, <3>1 DEF TypeOK, EventFrames
  <2>5. socket' \in [Sockets -> Attachments]
    <3> DEFINE cleared == [socket EXCEPT ![f.socket].active = @ \ {f.id}]
    <3>1. socket' = socket \/ socket' = Looked(cleared)
      BY <1>7 DEF EventAnswer
    <3> HIDE DEF cleared
    <3>2. cleared \in [Sockets -> Attachments]
      BY <2>2 DEF cleared
    <3> QED
      BY <1>l, <3>1, <3>2 DEF TypeOK
  <2>6. run' \in [Handlers -> Frames]
    <3> DEFINE cleared == [socket EXCEPT ![f.socket].active = @ \ {f.id}]
    <3>1. \/ run' = [run EXCEPT ![w] = Idle]
          \/ run' = [run EXCEPT ![w] = DispatchOn(f.socket, cleared)]
      BY <1>7 DEF EventAnswer, End
    <3>2. DispatchOn(f.socket, cleared) \in Frames
      BY <1>d, <2>1 DEF EventFrames
    <3> HIDE DEF cleared
    <3> QED
      BY <1>i, <3>1, <3>2 DEF TypeOK
  <2> QED
    BY <1>7, <2>4, <2>5, <2>6 DEF EventAnswer, TypeOK
<1>8. CASE Pick(w)
  <2>1. Ready # {} => Dispatch("lease", Newest(Ready), None) \in DispatchFrames
    BY NewestExists DEF Ready, Listed, Dispatch, DispatchFrames, OrNone
  <2> QED
    BY <1>8, <1>i, <1>l, <2>1 DEF Pick, Blocked, End, TypeOK
<1>9. CASE PickListed(w)
  <2>1. f \in DispatchFrames
    BY <1>9, <1>f DEF PickListed
  <2>2. \A S \in SUBSET Sockets : S # {} => DispatchOn(Newest(S), socket) \in Frames
    BY NewestExists, <1>d
  <2>3. {s \in f.seen : socket[s].ready /\ socket[s].pending # "yes"} \in SUBSET Sockets
    BY <2>1 DEF DispatchFrames
  <2> QED
    BY <1>9, <1>i, <1>l, <2>2, <2>3 DEF PickListed, Blocked, End, TypeOK
<1>10. CASE Lease(w)
  <2>1. f \in DispatchFrames
    BY <1>10, <1>f DEF Lease
  <2>2. \A c \in Commands : [[f EXCEPT !.at = "send"] EXCEPT !.id = c] \in Frames
    BY <1>i, <2>1 DEF DispatchFrames, OrNone
  <2> QED
    <3>1. run' \in [Handlers -> Frames]
      <4>1. \/ run' = [run EXCEPT ![w] = Idle]
            \/ \E c \in Commands :
                  run' = [run EXCEPT ![w] = [[f EXCEPT !.at = "send"] EXCEPT !.id = c]]
        BY <1>10 DEF Lease, Blocked, End, TypeOK
      <4> QED
        BY <1>i, <2>2, <4>1 DEF TypeOK
    <3>2. command' = command \/ \E c \in Commands :
             command' = [command EXCEPT ![c] = [state |-> "leased", expired |-> FALSE]]
      BY <1>10 DEF Lease
    <3>3. command' \in [Commands -> CommandRows]
      BY <1>c, <1>r, <3>2, RowType DEF TypeOK
    <3> QED
      BY <1>10, <3>1, <3>3 DEF Lease, TypeOK
<1>11. CASE Send(w)
  <2>1. f \in DispatchFrames /\ f.socket \in Sockets /\ f.id \in Commands
    BY <1>11, <1>f DEF Send, FramesFit, DispatchFrames, OrNone
  <2>2. socket' \in [Sockets -> Attachments]
    <3> DEFINE a == socket[f.socket]
    <3>1. a \in Attachments /\ a.active \cup {f.id} \in SUBSET Commands
          /\ a.active \ {f.id} \in SUBSET Commands
      BY <2>1, <1>a, AttachmentType
    <3>2. \/ socket' = [socket EXCEPT ![f.socket] = [a EXCEPT !.active = a.active \cup {f.id}]]
          \/ socket' = [socket EXCEPT ![f.socket] =
               [a EXCEPT !.active = a.active \ {f.id}, !.ready = FALSE, !.pending = "no"]]
      BY <1>11, <2>1 DEF Send, TypeOK
    <3> HIDE DEF a
    <3>3. \/ \E b \in Attachments : socket' = [socket EXCEPT ![f.socket] = b]
      BY <3>1, <3>2, AttachmentType
    <3> QED
      BY <2>1, <1>s, <3>3
  <2>3. work' \in [Sockets -> Seq(Commands)]
    <3>1. work[f.socket] \in Seq(Commands)
      BY <2>1 DEF TypeOK
    <3>2. Append(work[f.socket], f.id) \in Seq(Commands)
      BY <2>1, <3>1
    <3>3. work' = work \/ work' = [work EXCEPT ![f.socket] = Append(work[f.socket], f.id)]
      BY <1>11, <2>1 DEF Send
    <3> QED
      BY <3>2, <3>3 DEF TypeOK
  <2>4. [f EXCEPT !.at = "release"] \in Frames
    BY <1>i, <2>1 DEF DispatchFrames
  <2> QED
    <3>1. run' \in [Handlers -> Frames]
      BY <1>11, <1>i, <2>4 DEF Send, Goto, End, TypeOK
    <3> QED
      BY <1>11, <2>2, <2>3, <3>1 DEF Send, TypeOK
<1>12. CASE Release(w)
  <2>1. [f EXCEPT !.at = "after"] \in Frames
    BY <1>12, <1>f, <1>i DEF Release, DispatchFrames
  <2> QED
    BY <1>12, <2>1 DEF Release, Goto, TypeOK, CommandRows
<1>13. CASE AfterRelease(w) \/ DispatchDegrade(w)
  <2>1. \A at \in {"degrade", "pick"} : [f EXCEPT !.at = at] \in Frames
    BY <1>13, <1>f, <1>i DEF AfterRelease, DispatchDegrade, DispatchFrames
  <2> QED
    BY <1>13, <2>1 DEF AfterRelease, DispatchDegrade, Goto, TypeOK
<1>14. CASE GoneSelect(w)
  <2>1. [[f EXCEPT !.at = "fail"] EXCEPT !.rest = {c \in ScopeOf(f) : Active(c)}] \in Frames
    BY <1>14, <1>f, <1>i DEF GoneSelect, ScopeOf, GoneFrames
  <2> QED
    BY <1>14, <2>1 DEF GoneSelect, TypeOK
<1>15. CASE GoneFail(w)
  <2>1. f \in GoneFrames
    BY <1>15, <1>f DEF GoneFail
  <2>2. \A c : [f EXCEPT !.rest = @ \ {c}] \in Frames
    BY <1>i, <2>1 DEF GoneFrames
  <2>3. \A at \in {"degrade", "offline"} : [f EXCEPT !.at = at] \in Frames
    BY <1>i, <2>1 DEF GoneFrames
  <2> QED
    <3>1. run' \in [Handlers -> Frames]
      <4>1. \A g \in Frames : [run EXCEPT ![w] = g] \in [Handlers -> Frames]
        BY DEF TypeOK
      <4>2. \E g \in Frames : run' = [run EXCEPT ![w] = g]
        <5>1. \/ \E c : run' = [run EXCEPT ![w] = [f EXCEPT !.rest = @ \ {c}]]
              \/ run' = [run EXCEPT ![w] = Idle]
              \/ \E at \in {"degrade", "offline"} : run' = [run EXCEPT ![w] = [f EXCEPT !.at = at]]
          BY <1>15 DEF GoneFail, Goto, End
        <5> QED
          BY <1>i, <2>2, <2>3, <5>1
      <4> QED
        BY <4>1, <4>2
    <3>2. command' = command \/ \E c \in f.rest :
             command' = [command EXCEPT ![c] = [state |-> "failed", expired |-> FALSE]]
      BY <1>15 DEF GoneFail
    <3>3. command' \in [Commands -> CommandRows]
      BY <1>c, <1>r, <2>1, <3>2, RowType DEF TypeOK, GoneFrames
    <3> QED
      BY <1>15, <3>1, <3>3 DEF GoneFail, TypeOK
<1>16. CASE GoneDegrade(w) \/ GoneOffline(w)
  BY <1>16, <1>i DEF GoneDegrade, GoneOffline, End, TypeOK
<1> QED
  BY <1>1, <1>2, <1>3, <1>4, <1>5, <1>6, <1>7, <1>8, <1>9, <1>10, <1>11, <1>12, <1>13, <1>14,
     <1>15, <1>16 DEF Continue

LEMMA TakesType ==
    ASSUME TypeOK, NEW w \in Handlers, NEW s \in Sockets, NEW kind, Takes(w, s, kind)
    PROVE  /\ inbox' \in [Sockets -> Seq(Messages)]
           /\ Head(inbox[s]) \in Messages /\ Head(inbox[s]).kind = kind
<1>1. inbox[s] \in Seq(Messages) /\ inbox[s] # <<>>
  BY DEF TypeOK, Takes
<1>2. Tail(inbox[s]) \in Seq(Messages) /\ Head(inbox[s]) \in Messages
  BY <1>1
<1> QED
  BY <1>2 DEF TypeOK, Takes

LEMMA TypeBegin ==
    ASSUME TypeOK, NEW w \in Handlers,
           \/ \E s \in Sockets : Receive(w, s)
           \/ \E c \in Commands : Request(w, c)
           \/ DispatchRequest(w) \/ ResumeRequest(w) \/ Die(w)
    PROVE  TypeOK'
<1>i. Idle \in Frames /\ \A f \in Frames : [run EXCEPT ![w] = f] \in [Handlers -> Frames]
  BY DEF Frames, TypeOK
<1>1. ASSUME NEW s \in Sockets, ReadyBegin(w, s) PROVE TypeOK'
  <2>1. [op |-> "ready", at |-> "update", socket |-> s, news |-> ~socket[s].ready] \in Frames
    BY DEF Frames, ReadyFrames
  <2>2. inbox' \in [Sockets -> Seq(Messages)]
    BY <1>1, TakesType DEF ReadyBegin
  <2> QED
    BY <1>1, <1>i, <2>1, <2>2 DEF ReadyBegin, TypeOK
<1>2. ASSUME NEW s \in Sockets, ReportBegin(w, s) PROVE TypeOK'
  <2>1. [op |-> "report", at |-> "answer", socket |-> s] \in Frames
    BY DEF Frames, ReportFrames
  <2>2. inbox' \in [Sockets -> Seq(Messages)]
    BY <1>2, TakesType DEF ReportBegin
  <2> QED
    BY <1>2, <1>i, <2>1, <2>2 DEF ReportBegin, TypeOK
<1>3. ASSUME NEW s \in Sockets, NEW kind \in {"started", "finished"}, EventBegin(w, s, kind)
      PROVE  TypeOK'
  <2> DEFINE m == Head(inbox[s])
  <2>1. m \in Messages /\ m.kind = kind /\ inbox' \in [Sockets -> Seq(Messages)]
    BY <1>3, TakesType DEF EventBegin
  <2>2. m.id \in Commands
    BY <2>1 DEF Messages
  <2>3. [op |-> "event", at |-> "record", socket |-> s, id |-> m.id, kind |-> kind,
         accepted |-> FALSE] \in Frames
    BY <2>2 DEF Frames, EventFrames
  <2> QED
    BY <1>3, <1>i, <2>1, <2>3 DEF EventBegin, TypeOK
<1>4. ASSUME NEW s \in Sockets, GoneBegin(w, s) PROVE TypeOK'
  <2>1. socket[s] \in Attachments
    BY DEF TypeOK
  <2>2. run' \in [Handlers -> Frames]
    <3> DEFINE readyPeer == Ready \ {s} # {}
               peer == Listed \ {s} # {}
               g == [op |-> "gone", at |-> "select", socket |-> s, peer |-> peer,
                     readyPeer |-> readyPeer, rest |-> socket[s].active]
    <3>1. run' = [run EXCEPT ![w] = Idle] \/ run' = [run EXCEPT ![w] = g]
      BY <1>4 DEF GoneBegin
    <3>2. socket[s].active \in SUBSET Commands
      BY <2>1, AttachmentType
    <3>3. g \in Frames
      BY <3>2 DEF Frames, GoneFrames
    <3> HIDE DEF g
    <3> QED
      BY <1>i, <3>1, <3>3
  <2>3. socket' \in [Sockets -> Attachments]
    <3>1. [socket[s] EXCEPT !.phase = "gone", !.active = {}] \in Attachments
      BY <2>1, AttachmentType
    <3>2. socket' = [socket EXCEPT ![s] = [socket[s] EXCEPT !.phase = "gone", !.active = {}]]
      BY <1>4 DEF GoneBegin
    <3> QED
      BY <3>1, <3>2 DEF TypeOK
  <2>4. cooling' \in BOOLEAN
    BY <1>4 DEF GoneBegin
  <2>5. inbox' \in [Sockets -> Seq(Messages)]
    BY <1>4 DEF GoneBegin, TypeOK
  <2> QED
    BY <1>4, <2>2, <2>3, <2>4, <2>5 DEF GoneBegin, TypeOK
<1>5. ASSUME NEW c \in Commands, Request(w, c) PROVE TypeOK'
  <2>1. Dispatch("pick", None, None) \in Frames
    BY DEF Dispatch, Frames, DispatchFrames, OrNone
  <2>2. [command[c] EXCEPT !.state = "pending"] \in CommandRows
    BY RowType DEF TypeOK
  <2> QED
    BY <1>5, <1>i, <2>1, <2>2 DEF Request, TypeOK
<1>6. CASE DispatchRequest(w)
  <2>1. Dispatch("pick", None, None) \in Frames
    BY DEF Dispatch, Frames, DispatchFrames, OrNone
  <2> QED
    BY <1>6, <1>i, <2>1 DEF DispatchRequest, TypeOK
<1>7. CASE ResumeRequest(w)
  <2>1. [Dispatch("pickListed", None, None) EXCEPT !.seen = Listed] \in Frames
    BY DEF Dispatch, Frames, DispatchFrames, OrNone, Listed
  <2>2. socket' \in [Sockets -> Attachments]
    BY <1>7, LookedType DEF ResumeRequest, TypeOK
  <2> QED
    BY <1>7, <1>i, <2>1, <2>2 DEF ResumeRequest, TypeOK
<1>8. CASE Die(w)
  BY <1>8, <1>i DEF Die, End, TypeOK
<1> QED
  BY <1>1, <1>2, <1>3, <1>4, <1>5, <1>6, <1>7, <1>8 DEF Receive

LEMMA TypeOthers ==
    ASSUME TypeOK,
           \/ RefreshRequest \/ CooldownEnds \/ Hibernate
           \/ \E s \in Sockets : RefreshLapses(s)
           \/ \E c \in Commands : LeaseExpires(c)
    PROVE  TypeOK'
<1>1. CASE RefreshRequest
  <2>1. Newest(Ready) \in Sockets
    BY <1>1, NewestExists DEF RefreshRequest, Ready, Listed
  <2> QED
    BY <1>1, <2>1, AskType DEF RefreshRequest, TypeOK
<1>2. CASE CooldownEnds \/ Hibernate
  BY <1>2 DEF CooldownEnds, Hibernate, TypeOK
<1>3. ASSUME NEW s \in Sockets, RefreshLapses(s) PROVE TypeOK'
  <2>1. [socket[s] EXCEPT !.pending = "late"] \in Attachments
    BY AttachmentType DEF TypeOK
  <2> QED
    BY <1>3, <2>1 DEF RefreshLapses, TypeOK
<1>4. ASSUME NEW c \in Commands, LeaseExpires(c) PROVE TypeOK'
  <2>1. [command[c] EXCEPT !.expired = TRUE] \in CommandRows
    BY RowType DEF TypeOK
  <2> QED
    BY <1>4, <2>1 DEF LeaseExpires, TypeOK
<1> QED
  BY <1>1, <1>2, <1>3, <1>4

\* What the connector says.
LEMMA SaysType ==
    ASSUME TypeOK, agent.socket # None, NEW m \in Messages, Says(m)
    PROVE  inbox' \in [Sockets -> Seq(Messages)] /\ agent.socket \in Sockets
<1>1. agent.socket \in Sockets
  BY DEF TypeOK, Agents, OrNone
<1>2. Append(inbox[agent.socket], m) \in Seq(Messages)
  BY <1>1 DEF TypeOK
<1> QED
  BY <1>1, <1>2 DEF Says, TypeOK

LEMMA HearsType ==
    ASSUME TypeOK, NEW m, Hears(m)
    PROVE  mail' \in [Sockets -> SUBSET Mail] /\ agent.socket \in Sockets /\ m \in Mail
BY DEF Hears, TypeOK, Agents, OrNone

LEMMA TypeAgent ==
    ASSUME TypeOK, SocketsFit, AgentGoesOn \/ Connect \/ Leave
    PROVE  TypeOK'
<1>a. \A a \in Agents : \A d \in {"reading", "starting", "executing", "ending"} :
        /\ [a EXCEPT !.doing = d] \in Agents
        /\ \A c \in OrNone(Commands) : [a EXCEPT !.doing = d, !.id = c] \in Agents
        /\ [a EXCEPT !.acked = TRUE] \in Agents
  BY DEF Agents
<1>t. agent \in Agents
  BY DEF TypeOK
<1>1. CASE SendReady
  <2>1. [kind |-> "ready"] \in Messages
    BY DEF Messages
  <2> QED
    BY <1>1, <2>1, SaysType DEF SendReady, TypeOK
<1>2. CASE HearReady
  BY <1>2, <1>a, <1>t, HearsType DEF HearReady, TypeOK
<1>3. CASE HearRefresh
  <2>1. [kind |-> "report"] \in Messages
    BY DEF Messages
  <2>2. inbox' \in [Sockets -> Seq(Messages)]
    BY <1>3, <2>1, SaysType DEF HearRefresh, Hears
  <2>3. mail' \in [Sockets -> SUBSET Mail]
    BY <1>3, HearsType DEF HearRefresh
  <2> QED
    BY <1>3, <2>2, <2>3 DEF HearRefresh, TypeOK
<1>4. CASE TakeDispatch
  <2> DEFINE q == work[agent.socket]
  <2>1. q \in Seq(Commands) /\ q # <<>> /\ agent.socket \in Sockets
    BY <1>4 DEF TakeDispatch, TypeOK, Agents, OrNone
  <2>2. Head(q) \in Commands /\ Tail(q) \in Seq(Commands)
    BY <2>1
  <2>3. [kind |-> "started", id |-> Head(q)] \in Messages
    BY <2>2 DEF Messages
  <2>4. inbox' \in [Sockets -> Seq(Messages)]
    BY <1>4, <2>3, SaysType DEF TakeDispatch
  <2>5. agent' \in Agents
    BY <1>4, <1>a, <1>t, <2>2 DEF TakeDispatch, OrNone
  <2> QED
    BY <1>4, <2>1, <2>2, <2>4, <2>5 DEF TakeDispatch, TypeOK
<1>5. CASE HearStarted
  <2>1. mail' \in [Sockets -> SUBSET Mail]
    BY <1>5, HearsType DEF HearStarted
  <2>2. agent.id \in Commands
    BY <1>5 DEF HearStarted, SocketsFit, TypeOK, Agents, OrNone
  <2>3. agent' \in Agents
    <3>1. \/ agent' = [agent EXCEPT !.doing = "executing"]
          \/ agent' = [agent EXCEPT !.doing = "reading", !.id = None]
      BY <1>5 DEF HearStarted
    <3> QED
      <4>1. [agent EXCEPT !.doing = "executing"] \in Agents
        BY <1>a, <1>t
      <4>2. [agent EXCEPT !.doing = "reading", !.id = None] \in Agents
        BY <1>a, <1>t DEF OrNone
      <4> QED
        BY <3>1, <4>1, <4>2
  <2>4. begun' \in [Commands -> Nat]
    <3>1. begun' = begun \/ begun' = [begun EXCEPT ![agent.id] = begun[agent.id] + 1]
      BY <1>5 DEF HearStarted
    <3>2. begun[agent.id] + 1 \in Nat
      BY <2>2 DEF TypeOK
    <3> QED
      BY <3>1, <3>2 DEF TypeOK
  <2> QED
    BY <1>5, <2>1, <2>3, <2>4 DEF HearStarted, TypeOK
<1>6. CASE Finish
  <2>1. agent.socket # None /\ agent.id \in Commands
    BY <1>6 DEF Finish, SocketsFit, TypeOK, Agents, OrNone
  <2>2. [kind |-> "finished", id |-> agent.id] \in Messages
    BY <2>1 DEF Messages
  <2> QED
    BY <1>6, <1>a, <1>t, <2>1, <2>2, SaysType DEF Finish, TypeOK
<1>7. CASE HearFinished
  <2>1. mail' \in [Sockets -> SUBSET Mail]
    BY <1>7, HearsType DEF HearFinished
  <2> QED
    BY <1>7, <1>a, <1>t, <2>1 DEF HearFinished, TypeOK, OrNone
<1>8. CASE Connect
  <2>1. PICK s \in Sockets :
           /\ socket' = [socket EXCEPT ![s].phase = "open"]
           /\ inbox' = [inbox EXCEPT ![s] = <<[kind |-> "ready"]>>]
           /\ agent' = [Away EXCEPT !.socket = s]
    BY <1>8 DEF Connect
  <2>2. [socket[s] EXCEPT !.phase = "open"] \in Attachments
    BY AttachmentType DEF TypeOK
  <2>3. [kind |-> "ready"] \in Messages
    BY DEF Messages
  <2>4. inbox' \in [Sockets -> Seq(Messages)]
    <3>1. <<[kind |-> "ready"]>> \in Seq(Messages)
      BY <2>3
    <3> QED
      BY <2>1, <3>1 DEF TypeOK
  <2>5. agent' \in Agents
    BY <2>1 DEF Away, Agents, OrNone
  <2> QED
    BY <1>8, <2>1, <2>2, <2>4, <2>5 DEF Connect, TypeOK
<1>9. CASE Leave
  <2>1. agent' \in Agents
    BY <1>9 DEF Leave, Away, Agents, OrNone
  <2>2. work' \in [Sockets -> Seq(Commands)]
    <3>1. << >> \in Seq(Commands)
      OBVIOUS
    <3>2. work' = [work EXCEPT ![agent.socket] = << >>]
      BY <1>9 DEF Leave
    <3> QED
      BY <3>1, <3>2 DEF TypeOK
  <2>3. mail' \in [Sockets -> SUBSET Mail]
    BY <1>9 DEF Leave, TypeOK
  <2> QED
    BY <1>9, <2>1, <2>2, <2>3 DEF Leave, TypeOK
<1> QED
  BY <1>1, <1>2, <1>3, <1>4, <1>5, <1>6, <1>7, <1>8, <1>9 DEF AgentGoesOn

LEMMA TypeStep ==
    ASSUME TypeOK, FramesFit, SocketsFit, [Next]_vars
    PROVE  TypeOK'
<1>1. CASE UNCHANGED vars
  BY <1>1 DEF vars, TypeOK
<1>2. CASE Next
  BY <1>2, TypeContinue, TypeBegin, TypeOthers, TypeAgent DEF Next
<1> QED
  BY <1>1, <1>2

-----------------------------------------------------------------------------
(* What a step does to a socket.                                           *)

\* Attachments are written for sockets that have been open; those that are new
\* are as they were.  The socket in use stays ready while it is open, and a
\* command leaves its list only by the answer to its final event.
LEMMA SocketStep ==
    ASSUME TypeOK, FramesFit, SocketsFit, [Next]_vars, NEW s \in Sockets
    PROVE  /\ \/ socket'[s].phase = socket[s].phase
              \/ /\ Connect /\ agent'.socket = s
                 /\ socket[s].phase = "new" /\ socket'[s] = [socket[s] EXCEPT !.phase = "open"]
              \/ agent.socket # s /\ socket[s].phase = "open" /\ socket'[s].phase = "gone"
           /\ socket'[s].phase = "new" => socket'[s] = socket[s]
           /\ agent.socket = s /\ socket[s].phase = "open" =>
                /\ socket[s].ready => socket'[s].ready
                /\ \A c \in socket[s].active :
                     \/ c \in socket'[s].active
                     \/ \E w \in Handlers : /\ IsEvent(w, "finished")
                                            /\ run[w].socket = s /\ run[w].id = c
<1> DEFINE Good(b) ==
             /\ b.phase = socket[s].phase
             /\ b.phase = "new" => b = socket[s]
             /\ agent.socket = s /\ b.phase = "open" =>
                  (socket[s].ready => b.ready) /\ socket[s].active \subseteq b.active
<1>a. socket[s] \in Attachments /\ \A t \in Sockets : socket[t] \in Attachments
  BY DEF TypeOK
<1>f. \A w \in Handlers : run[w] \in Frames
  BY DEF TypeOK
<1>l. ASSUME NEW attached \in [Sockets -> Attachments], Good(attached[s])
      PROVE  Good(Looked(attached)[s])
  <2>1. attached[s] \in Attachments
    OBVIOUS
  <2> QED
    BY <1>l, <2>1 DEF Looked, Attachments
<1>k. Good(socket[s]) /\ Good(Looked(socket)[s])
  BY <1>l DEF TypeOK
<1>s. ASSUME NEW t \in Sockets, AskSessions(t) PROVE Good(socket'[s])
  <2>1. \/ socket'[s] = Looked(socket)[s]
        \/ /\ s = t /\ socket[s].phase = "open"
           /\ socket'[s] = [Looked(socket)[s] EXCEPT !.pending =
                             IF socket[s].ready THEN "yes" ELSE Looked(socket)[s].pending]
    <3> DEFINE looked == Looked(socket)
    <3>1. DOMAIN looked = Sockets
      BY DEF Looked
    <3>2. CASE Refreshing(socket) \/ cooling
      BY <1>s, <3>2 DEF AskSessions
    <3>3. CASE ~(Refreshing(socket) \/ cooling)
      <4>1. /\ socket[t].phase = "open"
            /\ socket' = [looked EXCEPT ![t].pending = IF socket[t].ready THEN "yes" ELSE @]
        BY <1>s, <3>3 DEF AskSessions, Delivers
      <4>2. CASE s = t
        <5>1. socket'[s] = [looked[s] EXCEPT !.pending = IF socket[s].ready THEN "yes" ELSE looked[s].pending]
          <6> HIDE DEF looked
          <6> QED
            BY <3>1, <4>1, <4>2
        <5> QED
          BY <4>1, <4>2, <5>1
      <4>3. CASE s # t
        <5>1. socket'[s] = looked[s]
          <6> HIDE DEF looked
          <6> QED
            BY <3>1, <4>1, <4>3
        <5> QED
          BY <5>1
      <4> QED
        BY <4>2, <4>3
    <3> QED
      BY <3>2, <3>3
  <2>2. Looked(socket)[s] \in Attachments
    BY LookedType DEF TypeOK
  <2>3. ASSUME NEW b \in Attachments, Good(b), NEW p PROVE Good([b EXCEPT !.pending = p]) \/ b.phase = "new"
    BY <2>3 DEF Attachments
  <2>4. socket[s].phase = "open" => Looked(socket)[s].phase = "open"
    BY <1>k
  <2> DEFINE b == Looked(socket)[s]
  <2>5. CASE socket'[s] = b
    BY <1>k, <2>5
  <2>6. ASSUME NEW p, socket[s].phase = "open", socket'[s] = [b EXCEPT !.pending = p]
        PROVE  Good(socket'[s])
    <3> HIDE DEF b
    <3> QED
      BY <1>k, <2>2, <2>3, <2>4, <2>6 DEF b
  <2> QED
    BY <2>1, <2>5, <2>6
<1>1. CASE Good(socket'[s])
  BY <1>1
<1>2. ASSUME NEW w \in Handlers, Continue(w), ~EventAnswer(w)
      PROVE  Good(socket'[s])
  <2> DEFINE f == run[w]
  <2>1. CASE ReadyMark(w)
    <3>1. f \in ReadyFrames /\ socket[f.socket].phase # "new"
      BY <1>f, <2>1, FrameByOp DEF ReadyMark, FramesFit
    <3> DEFINE t == f.socket
               a == [socket[t] EXCEPT !.ready = TRUE,
                      !.pending = IF socket[t].pending = "late" THEN "no" ELSE socket[t].pending]
    <3>4. t \in Sockets /\ socket' = [socket EXCEPT ![t] = a]
      BY <2>1, <3>1 DEF ReadyMark, TypeOK, ReadyFrames
    <3>2. socket'[s] = socket[s] \/ (s = t /\ socket'[s] = a)
      BY <3>4 DEF TypeOK
    <3>3. CASE socket'[s] # socket[s]
      <4>1. /\ socket'[s].phase = socket[s].phase /\ socket'[s].ready
            /\ socket'[s].active = socket[s].active /\ socket[s].phase # "new"
        <5>1. s = t /\ socket'[s] = a /\ socket[t] \in Attachments
          BY <1>a, <3>2, <3>3
        <5>2. a.phase = socket[t].phase /\ a.ready /\ a.active = socket[t].active
          BY <5>1 DEF Attachments
        <5> QED
          BY <3>1, <5>1, <5>2
      <4> QED
        BY <4>1
    <3> QED
      BY <1>k, <3>3
  <2>2. CASE ReadyRefresh(w)
    <3>1. f \in ReadyFrames
      BY <1>f, <2>2, FrameByOp DEF ReadyRefresh
    <3>2. CASE AskSessions(f.socket)
      BY <3>1, <3>2, <1>s DEF ReadyFrames
    <3>3. CASE socket' = socket \/ socket' = Looked(socket)
      BY <3>3, <1>k
    <3> QED
      BY <2>2, <3>2, <3>3 DEF ReadyRefresh
  <2>3. CASE ReportAnswer(w)
    <3> DEFINE consumed == [socket EXCEPT ![f.socket].pending = "no"]
    <3>1. f \in ReportFrames /\ socket[f.socket].phase # "new"
      BY <1>f, <2>3, FrameByOp DEF ReportAnswer, FramesFit
    <3>2. consumed \in [Sockets -> Attachments]
      BY <3>1, AttachmentType DEF TypeOK, ReportFrames
    <3>3. Good(consumed[s])
      BY <1>a, <1>k, <3>1 DEF Attachments, TypeOK, ReportFrames
    <3>4. socket' \in {socket, consumed, Looked(consumed)}
      BY <2>3 DEF ReportAnswer
    <3> QED
      BY <1>k, <1>l, <3>2, <3>3, <3>4
  <2>4. CASE Send(w)
    <3>1. f \in DispatchFrames /\ f.socket \in Sockets /\ socket[f.socket].phase # "new"
      BY <1>f, <2>4, FrameByOp DEF Send, FramesFit, DispatchFrames, OrNone
    <3>2. \/ socket'[s] = socket[s]
          \/ s = f.socket /\ socket'[s] = [socket[s] EXCEPT !.active = socket[s].active \cup {f.id}]
          \/ /\ s = f.socket /\ Throws(s)
             /\ socket'[s] = [socket[s] EXCEPT !.active = socket[s].active \ {f.id},
                                               !.ready = FALSE, !.pending = "no"]
      BY <2>4, <3>1 DEF Send, TypeOK
    <3>3. CASE s = f.socket
      <4>1. socket'[s].phase = socket[s].phase /\ socket[s].phase # "new"
        BY <1>a, <3>1, <3>2, <3>3 DEF Attachments
      <4>2. ASSUME agent.socket = s, socket[s].phase = "open"
            PROVE  (socket[s].ready => socket'[s].ready) /\ socket[s].active \subseteq socket'[s].active
        BY <1>a, <3>2, <4>2 DEF Attachments, Throws, Left
      <4> QED
        BY <4>1, <4>2
    <3>4. CASE s # f.socket
      BY <1>k, <3>2, <3>4
    <3> QED
      BY <3>3, <3>4
  <2>5. CASE socket' = socket \/ socket' = Looked(socket)
    BY <2>5, <1>k
  <2> QED
    BY <1>2, <2>1, <2>2, <2>3, <2>4, <2>5
       DEF Continue, ReadyUpdate, ReadyDispatch, EventRecord, Pick, PickListed, Lease, Release,
           AfterRelease, DispatchDegrade, GoneSelect, GoneFail, GoneDegrade, GoneOffline
<1>3. ASSUME NEW w \in Handlers, EventAnswer(w)
      PROVE  \/ Good(socket'[s])
             \/ /\ IsEvent(w, "finished") /\ run[w].socket = s
                /\ socket'[s].phase = socket[s].phase /\ socket[s].phase # "new"
                /\ socket'[s].ready = socket[s].ready
                /\ socket'[s].active = socket[s].active \ {run[w].id}
  <2> DEFINE f == run[w]
             cleared == [socket EXCEPT ![f.socket].active = @ \ {f.id}]
  <2>1. f \in EventFrames /\ socket[f.socket].phase # "new"
    BY <1>f, <1>3, FrameByOp DEF EventAnswer, FramesFit
  <2>2. socket' = socket \/ (f.kind = "finished" /\ socket' = Looked(cleared))
    BY <1>3 DEF EventAnswer, Clears
  <2>3. CASE s # f.socket /\ socket' = Looked(cleared)
    <3>1. socket'[s] = Looked(socket)[s]
      BY <2>1, <2>3 DEF Looked, TypeOK
    <3> QED
      BY <3>1, <1>k
  <2>4. CASE s = f.socket /\ socket' = Looked(cleared) /\ f.kind = "finished"
    <3>1. cleared[s] = [socket[s] EXCEPT !.active = socket[s].active \ {f.id}]
      BY <2>1, <2>4 DEF TypeOK, EventFrames
    <3>2. socket'[s] = cleared[s] \/ socket'[s] = [cleared[s] EXCEPT !.pending = "no"]
      BY <2>4 DEF Looked
    <3>3. /\ socket'[s].phase = socket[s].phase /\ socket'[s].ready = socket[s].ready
          /\ socket'[s].active = socket[s].active \ {f.id}
      BY <1>a, <3>1, <3>2 DEF Attachments
    <3>4. IsEvent(w, "finished") /\ socket[s].phase # "new"
      BY <1>3, <2>1, <2>4 DEF IsEvent, EventAnswer
    <3> QED
      BY <2>4, <3>3, <3>4
  <2> QED
    BY <1>k, <2>2, <2>3, <2>4
<1>4. ASSUME NEW w \in Handlers, NEW t \in Sockets, GoneBegin(w, t)
      PROVE  \/ Good(socket'[s])
             \/ agent.socket # s /\ socket[s].phase = "open" /\ socket'[s].phase = "gone"
  BY <1>a, <1>k, <1>4 DEF GoneBegin, Listed, Left, TypeOK, Attachments
<1>5. ASSUME RefreshRequest PROVE Good(socket'[s])
  <2>1. Newest(Ready) \in Sockets
    BY <1>5, NewestExists DEF RefreshRequest, Ready, Listed
  <2> QED
    BY <1>5, <1>s, <2>1 DEF RefreshRequest
<1>6. ASSUME NEW t \in Sockets, RefreshLapses(t) PROVE Good(socket'[s])
  BY <1>a, <1>k, <1>6 DEF RefreshLapses, Listed, TypeOK, Attachments
<1>7. CASE Connect
  <2>1. PICK t \in Sockets :
          /\ socket[t].phase = "new"
          /\ socket' = [socket EXCEPT ![t].phase = "open"]
          /\ agent' = [Away EXCEPT !.socket = t]
    BY <1>7 DEF Connect
  <2>2. agent'.socket = t /\ agent.socket = None
    BY <1>7, <2>1 DEF Away, Connect
  <2>3. CASE s = t
    BY <1>a, <1>7, <2>1, <2>2, <2>3, AgentSocketsAssumption DEF TypeOK, Attachments, Sockets
  <2>4. CASE s # t
    BY <1>k, <2>1, <2>4
  <2> QED
    BY <2>3, <2>4
<1>8. ASSUME socket' = socket \/ socket' = Looked(socket) PROVE Good(socket'[s])
  BY <1>8, <1>k
<1> HIDE DEF Good
<1>9. \/ Good(socket'[s])
      \/ \E w \in Handlers : EventAnswer(w)
      \/ \E w \in Handlers : \E t \in Sockets : GoneBegin(w, t)
      \/ Connect
  <2>1. CASE UNCHANGED vars
    BY <2>1, <1>8 DEF vars
  <2>2. CASE \E w \in Handlers : Continue(w)
    BY <2>2, <1>2
  <2>3. ASSUME NEW w \in Handlers, NEW t \in Sockets, Receive(w, t), ~GoneBegin(w, t)
        PROVE  Good(socket'[s])
    BY <2>3, <1>8 DEF Receive, ReadyBegin, ReportBegin, EventBegin
  <2>4. ASSUME NEW w \in Handlers,
               \/ DispatchRequest(w) \/ ResumeRequest(w) \/ Die(w)
               \/ \E c \in Commands : Request(w, c)
        PROVE  Good(socket'[s])
    BY <2>4, <1>8 DEF Request, DispatchRequest, ResumeRequest, Die
  <2>5. ASSUME AgentGoesOn \/ Leave PROVE Good(socket'[s])
    BY <2>5, <1>8 DEF AgentGoesOn, Leave, SendReady, HearReady, HearRefresh, TakeDispatch,
                      HearStarted, Finish, HearFinished
  <2>6. ASSUME CooldownEnds \/ Hibernate \/ \E c \in Commands : LeaseExpires(c)
        PROVE  Good(socket'[s])
    BY <2>6, <1>8 DEF CooldownEnds, Hibernate, LeaseExpires
  <2>7. ASSUME RefreshRequest \/ \E t \in Sockets : RefreshLapses(t)
        PROVE  Good(socket'[s])
    BY <2>7, <1>5, <1>6
  <2> QED
    BY <2>1, <2>2, <2>3, <2>4, <2>5, <2>6, <2>7 DEF Next
<1> USE DEF Good
<1>10. ASSUME NEW w \in Handlers, EventAnswer(w)
       PROVE  Good(socket'[s]) \/ socket'[s].phase = socket[s].phase
  BY <1>10, <1>3
<1> QED
  BY <1>1, <1>3, <1>4, <1>7, <1>9

LEMMA FramesFitStep ==
    ASSUME TypeOK, FramesFit, SocketsFit, [Next]_vars
    PROVE  FramesFit'
<1> DEFINE Been(s) == s \in Sockets /\ socket'[s].phase # "new"
           Fits(f) ==
             /\ f.op \in {"ready", "report", "event", "gone"} => Been(f.socket)
             /\ f.op = "dispatch" =>
                  /\ \A s \in f.seen : Been(s)
                  /\ f.at \notin {"pick", "pickListed"} => f.socket # None /\ Been(f.socket)
                  /\ f.at \in {"send", "release"} => f.id # None
<1>p. \A s \in Sockets : socket[s].phase # "new" => Been(s)
  BY SocketStep
<1>f. \A w \in Handlers : run[w] \in Frames
  BY DEF TypeOK
<1>n. None \notin Sockets /\ None \notin Commands
  BY AgentSocketsAssumption DEF Sockets, Commands
<1>o. ASSUME NEW w \in Handlers PROVE Fits(run[w])
  <2>1. run[w].op \in {"ready", "report", "event", "gone"} => run[w].socket \in Sockets
    BY <1>f, FrameByOp DEF ReadyFrames, ReportFrames, EventFrames, GoneFrames
  <2>2. run[w].op = "dispatch" =>
          run[w].seen \subseteq Sockets /\ run[w].socket \in OrNone(Sockets)
    BY <1>f, FrameByOp DEF DispatchFrames
  <2> QED
    BY <2>1, <2>2, <1>p DEF FramesFit, OrNone
<1> SUFFICES ASSUME NEW v \in Handlers PROVE Fits(run'[v])
  BY DEF FramesFit
<1>g. ASSUME NEW w \in Handlers, NEW g, Fits(g), run' = [run EXCEPT ![w] = g]
      PROVE  Fits(run'[v])
  <2> HIDE DEF Fits
  <2> QED
    BY <1>g, <1>o DEF TypeOK
<1>i. Fits(Idle) /\ Fits(Dispatch("pick", None, None))
  BY DEF Idle, Dispatch
<1>d. ASSUME NEW s \in Sockets, socket[s].phase # "new", NEW a PROVE Fits(DispatchOn(s, a))
  <2>1. Been(s) /\ s # None
    BY <1>d, <1>n, <1>p
  <2> HIDE DEF Been
  <2> QED
    BY <1>i, <2>1 DEF DispatchOn, Dispatch
<1>u. ASSUME run' = run PROVE Fits(run'[v])
  BY <1>u, <1>o
<1>1. ASSUME NEW w \in Handlers, NEW s \in Sockets, Receive(w, s) PROVE Fits(run'[v])
  <2>1. socket[s].phase # "new" /\ Been(s)
    BY <1>1, <1>p DEF Receive, ReadyBegin, ReportBegin, EventBegin, GoneBegin, Takes, Listed
  <2>2. \E g : run' = [run EXCEPT ![w] = g]
                /\ (g = Idle \/ (g.op \in {"ready", "report", "event", "gone"} /\ g.socket = s))
    BY <1>1 DEF Receive, ReadyBegin, ReportBegin, EventBegin, GoneBegin
  <2> QED
    BY <1>g, <1>i, <2>1, <2>2
<1>2. ASSUME NEW w \in Handlers,
             \/ \E c \in Commands : Request(w, c)
             \/ DispatchRequest(w) \/ Die(w)
      PROVE  Fits(run'[v])
  BY <1>2, <1>g, <1>i DEF Request, DispatchRequest, Die, End
<1>3. ASSUME NEW w \in Handlers, ResumeRequest(w) PROVE Fits(run'[v])
  <2> DEFINE g == [Dispatch("pickListed", None, None) EXCEPT !.seen = Listed]
  <2>1. g.op = "dispatch" /\ g.at = "pickListed" /\ g.seen = Listed
    BY DEF Dispatch
  <2>2. \A s \in Listed : Been(s)
    BY <1>p DEF Listed
  <2> HIDE DEF g
  <2>3. Fits(g)
    BY <2>1, <2>2
  <2>4. run' = [run EXCEPT ![w] = g]
    BY <1>3 DEF ResumeRequest, g
  <2> QED
    BY <1>g, <2>3, <2>4
<1>4. ASSUME NEW w \in Handlers, Continue(w) PROVE Fits(run'[v])
  <2> DEFINE f == run[w]
  <2>o. Fits(f)
    BY <1>o
  <2>t. /\ f.op = "ready" => f \in ReadyFrames
        /\ f.op = "report" => f \in ReportFrames
        /\ f.op = "event" => f \in EventFrames
        /\ f.op = "dispatch" => f \in DispatchFrames
        /\ f.op = "gone" => f \in GoneFrames
    BY <1>f, FrameByOp
  <2>e. ASSUME run' = [run EXCEPT ![w] = Idle] PROVE Fits(run'[v])
    BY <2>e, <1>g, <1>i
  <2>1. CASE f.op \in {"ready", "report", "event", "gone"}
    <3>1. f.socket \in Sockets /\ socket[f.socket].phase # "new" /\ Been(f.socket)
      BY <1>p, <2>1, <2>t DEF FramesFit, ReadyFrames, ReportFrames, EventFrames, GoneFrames
    <3>2. ASSUME NEW g, run' = [run EXCEPT ![w] = g], g.op = f.op, g.socket = f.socket
          PROVE  Fits(run'[v])
      <4>1. Fits(g)
        BY <2>1, <3>1, <3>2
      <4> QED
        BY <1>g, <3>2, <4>1
    <3>3. ASSUME NEW a, run' = [run EXCEPT ![w] = DispatchOn(f.socket, a)] PROVE Fits(run'[v])
      BY <1>d, <1>g, <3>1, <3>3
    <3> HIDE DEF Fits
    <3>4. CASE f.op = "ready"
      <4>1. \A at : [f EXCEPT !.at = at].op = f.op /\ [f EXCEPT !.at = at].socket = f.socket
        BY <2>t, <3>4 DEF ReadyFrames
      <4>2. ASSUME NEW at, Goto(w, at) PROVE Fits(run'[v])
        BY <3>2, <4>1, <4>2 DEF Goto
      <4>3. CASE ReadyUpdate(w)
        <5> DEFINE g == [[f EXCEPT !.at = "mark"] EXCEPT !.news = f.news \/ status # "online"]
        <5>1. run' = [run EXCEPT ![w] = g]
          BY <4>3 DEF ReadyUpdate, TypeOK
        <5>2. g.op = f.op /\ g.socket = f.socket
          BY <2>t, <3>4 DEF ReadyFrames
        <5> HIDE DEF g
        <5> QED
          BY <3>2, <5>1, <5>2
      <4>4. CASE ReadyMark(w)
        BY <2>e, <4>2, <4>4 DEF ReadyMark, End
      <4>5. CASE ReadyRefresh(w)
        BY <2>e, <4>2, <4>5 DEF ReadyRefresh, End, Blocked
      <4>6. CASE ReadyDispatch(w)
        BY <3>3, <4>6 DEF ReadyDispatch
      <4> QED
        BY <1>4, <3>4, <4>3, <4>4, <4>5, <4>6
           DEF Continue, ReportAnswer, EventRecord, EventAnswer, Pick, PickListed, Lease, Send,
               Release, AfterRelease, DispatchDegrade, GoneSelect, GoneFail, GoneDegrade,
               GoneOffline
    <3>5. CASE f.op = "report"
      <4>1. ReportAnswer(w)
        BY <1>4, <3>5
           DEF Continue, ReadyUpdate, ReadyMark, ReadyRefresh, ReadyDispatch, EventRecord,
               EventAnswer, Pick, PickListed, Lease, Send, Release, AfterRelease,
               DispatchDegrade, GoneSelect, GoneFail, GoneDegrade, GoneOffline
      <4> QED
        BY <2>e, <3>3, <4>1 DEF ReportAnswer, End, Blocked
    <3>6. CASE f.op = "event"
      <4>1. CASE EventRecord(w)
        <5> DEFINE g == [[f EXCEPT !.at = "answer"] EXCEPT !.accepted = Accepts(f.id)]
        <5>1. run' = [run EXCEPT ![w] = g]
          BY <4>1 DEF EventRecord, TypeOK
        <5>2. g.op = f.op /\ g.socket = f.socket
          BY <2>t, <3>6 DEF EventFrames
        <5> HIDE DEF g
        <5> QED
          BY <3>2, <5>1, <5>2
      <4>2. CASE EventAnswer(w)
        BY <2>e, <3>3, <4>2 DEF EventAnswer, End
      <4> QED
        BY <1>4, <3>6, <4>1, <4>2
           DEF Continue, ReadyUpdate, ReadyMark, ReadyRefresh, ReadyDispatch, ReportAnswer,
               Pick, PickListed, Lease, Send, Release, AfterRelease,
               DispatchDegrade, GoneSelect, GoneFail, GoneDegrade, GoneOffline
    <3>7. CASE f.op = "gone"
      <4>1. CASE GoneSelect(w)
        <5> DEFINE g == [[f EXCEPT !.at = "fail"] EXCEPT !.rest = {c \in ScopeOf(f) : Active(c)}]
        <5>1. run' = [run EXCEPT ![w] = g]
          BY <4>1 DEF GoneSelect, TypeOK
        <5>2. g.op = f.op /\ g.socket = f.socket
          BY <2>t, <3>7 DEF GoneFrames
        <5> HIDE DEF g
        <5> QED
          BY <3>2, <5>1, <5>2
      <4>2. ASSUME NEW c, run' = [run EXCEPT ![w].rest = @ \ {c}] PROVE Fits(run'[v])
        <5>1. run' = [run EXCEPT ![w] = [f EXCEPT !.rest = f.rest \ {c}]]
          BY <4>2
        <5>2. LET g == [f EXCEPT !.rest = f.rest \ {c}] IN g.op = f.op /\ g.socket = f.socket
          BY <2>t, <3>7 DEF GoneFrames
        <5> QED
          BY <3>2, <5>1, <5>2
      <4>3. ASSUME NEW at, Goto(w, at) PROVE Fits(run'[v])
        <5>1. [f EXCEPT !.at = at].op = f.op /\ [f EXCEPT !.at = at].socket = f.socket
          BY <2>t, <3>7 DEF GoneFrames
        <5> QED
          BY <3>2, <4>3, <5>1 DEF Goto
      <4>4. CASE GoneFail(w)
        BY <2>e, <4>2, <4>3, <4>4 DEF GoneFail, End
      <4>5. CASE GoneDegrade(w) \/ GoneOffline(w)
        BY <2>e, <4>5 DEF GoneDegrade, GoneOffline, End
      <4> QED
        BY <1>4, <3>7, <4>1, <4>4, <4>5
           DEF Continue, ReadyUpdate, ReadyMark, ReadyRefresh, ReadyDispatch, ReportAnswer,
               EventRecord, EventAnswer, Pick, PickListed, Lease, Send, Release, AfterRelease,
               DispatchDegrade
    <3> QED
      BY <2>1, <3>4, <3>5, <3>6, <3>7
  <2>2. CASE Pick(w)
    <3>1. Ready # {} => Newest(Ready) \in Ready
      BY NewestExists DEF Ready, Listed
    <3>2. Ready # {} => Fits(Dispatch("lease", Newest(Ready), None))
      <4>1. Ready # {} => Been(Newest(Ready)) /\ Newest(Ready) # None
        BY <1>n, <1>p, <3>1 DEF Ready, Listed
      <4> HIDE DEF Been
      <4> QED
        BY <4>1 DEF Dispatch
    <3>3. run' = [run EXCEPT ![w] = Idle]
          \/ (Ready # {} /\ run' = [run EXCEPT ![w] = Dispatch("lease", Newest(Ready), None)])
      BY <2>2 DEF Pick, Blocked, End
    <3> QED
      BY <1>g, <2>e, <3>2, <3>3
  <2>3. CASE PickListed(w)
    <3> DEFINE S == {s \in f.seen : socket[s].ready /\ socket[s].pending # "yes"}
    <3>1. S \in SUBSET Sockets
      BY <2>3, <2>t DEF PickListed, DispatchFrames
    <3>2. S # {} => Newest(S) \in S
      BY <3>1, NewestExists
    <3>3. S # {} => Newest(S) \in Sockets /\ socket[Newest(S)].phase # "new"
      BY <2>3, <3>1, <3>2 DEF PickListed, FramesFit
    <3>4. run' = [run EXCEPT ![w] = Idle]
          \/ (S # {} /\ run' = [run EXCEPT ![w] = DispatchOn(Newest(S), socket)])
      BY <2>3 DEF PickListed, Blocked, End
    <3> QED
      BY <1>d, <1>g, <2>e, <3>3, <3>4
  <2>4. CASE Lease(w)
    <3>1. \A c \in Commands : Fits([[f EXCEPT !.at = "send"] EXCEPT !.id = c])
      <4> TAKE c \in Commands
      <4> DEFINE g == [[f EXCEPT !.at = "send"] EXCEPT !.id = c]
      <4>1. g.op = "dispatch" /\ g.at = "send" /\ g.socket = f.socket /\ g.seen = f.seen /\ g.id = c
        BY <2>4, <2>t DEF Lease, DispatchFrames
      <4>2. f.op = "dispatch" /\ f.at = "lease"
        BY <2>4 DEF Lease
      <4> HIDE DEF g, Been
      <4> QED
        BY <1>n, <2>o, <4>1, <4>2
    <3>2. \/ run' = [run EXCEPT ![w] = Idle]
          \/ \E c \in Commands : run' = [run EXCEPT ![w] = [[f EXCEPT !.at = "send"] EXCEPT !.id = c]]
      BY <2>4 DEF Lease, Blocked, End, TypeOK
    <3> QED
      BY <1>g, <2>e, <3>1, <3>2
  <2>5. CASE Send(w) \/ Release(w) \/ AfterRelease(w) \/ DispatchDegrade(w)
    <3>1. f.op = "dispatch" /\ f.at \in {"send", "release", "after", "degrade"}
      BY <2>5 DEF Send, Release, AfterRelease, DispatchDegrade
    <3>2. \/ run' = [run EXCEPT ![w] = Idle]
          \/ f.at = "send" /\ run' = [run EXCEPT ![w] = [f EXCEPT !.at = "release"]]
          \/ \E at \in {"after", "degrade", "pick"} : run' = [run EXCEPT ![w] = [f EXCEPT !.at = at]]
      BY <2>5 DEF Send, Release, AfterRelease, DispatchDegrade, Goto, End
    <3>3. \A at : LET g == [f EXCEPT !.at = at]
                  IN  /\ g.op = "dispatch" /\ g.at = at /\ g.socket = f.socket
                      /\ g.seen = f.seen /\ g.id = f.id
      BY <2>t, <3>1 DEF DispatchFrames
    <3>4. f.at = "send" => Fits([f EXCEPT !.at = "release"])
      <4> HIDE DEF Been
      <4> QED
        BY <2>o, <3>1, <3>3
    <3>5. \A at \in {"after", "degrade", "pick"} : Fits([f EXCEPT !.at = at])
      <4> HIDE DEF Been
      <4> QED
        BY <2>o, <3>1, <3>3
    <3> QED
      BY <1>g, <2>e, <3>2, <3>4, <3>5
  <2> QED
    BY <1>4, <2>1, <2>2, <2>3, <2>4, <2>5
       DEF Continue, ReadyUpdate, ReadyMark, ReadyRefresh, ReadyDispatch, ReportAnswer,
           EventRecord, EventAnswer, GoneSelect, GoneFail, GoneDegrade, GoneOffline
<1>5. ASSUME AgentGoesOn \/ Connect \/ Leave PROVE Fits(run'[v])
  BY <1>5, <1>u DEF AgentGoesOn, Connect, Leave, SendReady, HearReady, HearRefresh, TakeDispatch,
                    HearStarted, Finish, HearFinished
<1>6. ASSUME \/ RefreshRequest \/ CooldownEnds \/ Hibernate \/ UNCHANGED vars
             \/ \E s \in Sockets : RefreshLapses(s)
             \/ \E c \in Commands : LeaseExpires(c)
      PROVE  Fits(run'[v])
  BY <1>6, <1>u DEF RefreshRequest, CooldownEnds, Hibernate, RefreshLapses, LeaseExpires, vars
<1> QED
  BY <1>1, <1>2, <1>3, <1>4, <1>5, <1>6 DEF Next

\* Only the socket in use gets dispatches and messages.
LEMMA MailedElsewhere ==
    ASSUME TypeOK, NEW s \in Sockets, NEW t \in Sockets, NEW m, agent.socket # t
    PROVE  Mailed(s, m)[t] = mail[t]
BY DEF Mailed, Left, TypeOK

LEMMA MailStep ==
    ASSUME TypeOK, FramesFit, SocketsFit, [Next]_vars, ~Connect, ~Leave
    PROVE  /\ agent'.socket = agent.socket
           /\ \A s \in Sockets : agent.socket # s => work'[s] = work[s] /\ mail'[s] = mail[s]
<1> DEFINE Kept == \A s \in Sockets : agent.socket # s => work'[s] = work[s] /\ mail'[s] = mail[s]
<1>f. \A w \in Handlers : run[w] \in Frames
  BY DEF TypeOK
<1>m. ASSUME NEW s \in Sockets, NEW m, work' = work, mail' = Mailed(s, m) PROVE Kept
  BY <1>m, MailedElsewhere
<1>a. ASSUME NEW s \in Sockets, AskSessions(s), work' = work PROVE Kept
  BY <1>a, <1>m DEF AskSessions
<1>1. ASSUME NEW w \in Handlers, Continue(w) PROVE Kept /\ agent' = agent
  <2>1. CASE ReadyMark(w)
    <3>1. run[w].socket \in Sockets
      BY <1>f, <2>1, FrameByOp DEF ReadyMark, ReadyFrames
    <3> QED
      BY <1>m, <2>1, <3>1 DEF ReadyMark
  <2>2. CASE ReadyRefresh(w)
    <3>1. run[w].socket \in Sockets
      BY <1>f, <2>2, FrameByOp DEF ReadyRefresh, ReadyFrames
    <3> QED
      BY <1>a, <2>2, <3>1 DEF ReadyRefresh
  <2>3. CASE EventAnswer(w)
    <3>1. run[w].socket \in Sockets
      BY <1>f, <2>3, FrameByOp DEF EventAnswer, EventFrames
    <3> QED
      BY <1>m, <2>3, <3>1 DEF EventAnswer
  <2>4. CASE Send(w)
    BY <2>4 DEF Send, Left, TypeOK
  <2>5. CASE work' = work /\ mail' = mail /\ agent' = agent
    BY <2>5
  <2> QED
    BY <1>1, <2>1, <2>2, <2>3, <2>4, <2>5
       DEF Continue, ReadyUpdate, ReadyDispatch, ReportAnswer, EventRecord, Pick, PickListed,
           Lease, Release, AfterRelease, DispatchDegrade, GoneSelect, GoneFail, GoneDegrade,
           GoneOffline
<1>2. ASSUME NEW w \in Handlers,
             \/ \E s \in Sockets : Receive(w, s)
             \/ \E c \in Commands : Request(w, c)
             \/ DispatchRequest(w) \/ ResumeRequest(w) \/ Die(w)
      PROVE  Kept /\ agent' = agent
  BY <1>2 DEF Receive, ReadyBegin, ReportBegin, EventBegin, GoneBegin, Request, DispatchRequest,
              ResumeRequest, Die
<1>3. ASSUME AgentGoesOn PROVE Kept /\ agent'.socket = agent.socket
  <2>1. agent \in Agents
    BY DEF TypeOK
  <2>2. agent'.socket = agent.socket
    BY <1>3, <2>1 DEF AgentGoesOn, SendReady, HearReady, HearRefresh, TakeDispatch, HearStarted,
                      Finish, HearFinished, Agents
  <2>3. Kept
    BY <1>3 DEF AgentGoesOn, SendReady, HearReady, HearRefresh, TakeDispatch, HearStarted,
                Finish, HearFinished, Hears, TypeOK
  <2> QED
    BY <2>2, <2>3
<1>4. ASSUME RefreshRequest PROVE Kept /\ agent' = agent
  <2>1. Newest(Ready) \in Sockets
    BY <1>4, NewestExists DEF RefreshRequest, Ready, Listed
  <2> QED
    BY <1>4, <1>a, <2>1 DEF RefreshRequest
<1>5. ASSUME \/ CooldownEnds \/ Hibernate \/ UNCHANGED vars
             \/ \E s \in Sockets : RefreshLapses(s)
             \/ \E c \in Commands : LeaseExpires(c)
      PROVE  Kept /\ agent' = agent
  BY <1>5 DEF CooldownEnds, Hibernate, RefreshLapses, LeaseExpires, vars
<1> HIDE DEF Kept
<1>6. Kept /\ agent'.socket = agent.socket
  BY <1>1, <1>2, <1>3, <1>4, <1>5 DEF Next
<1> QED
  BY <1>6 DEF Kept

LEMMA SocketsFitStep ==
    ASSUME TypeOK, FramesFit, SocketsFit, [Next]_vars
    PROVE  SocketsFit'
<1>n. None \notin Sockets
  BY AgentSocketsAssumption DEF Sockets
<1>1. ASSUME NEW s \in Sockets, socket'[s].phase = "new"
      PROVE  ~socket'[s].ready /\ socket'[s].pending = "no"
  <2>1. socket'[s] = socket[s]
    BY <1>1, SocketStep
  <2> QED
    BY <1>1, <2>1 DEF SocketsFit
<1>2. ASSUME NEW s \in Sockets, agent'.socket # s PROVE work'[s] = <<>> /\ mail'[s] = {}
  <2>1. CASE Connect
    BY <1>n, <2>1 DEF Connect, SocketsFit
  <2>2. CASE Leave
    BY <1>2, <2>2 DEF Leave, SocketsFit, TypeOK
  <2>3. CASE ~Connect /\ ~Leave
    BY <1>2, <2>3, MailStep DEF SocketsFit
  <2> QED
    BY <2>1, <2>2, <2>3
<1>3. agent'.socket # None => socket'[agent'.socket].phase # "new"
  <2>1. CASE Connect
    <3>1. PICK s \in Sockets : /\ socket' = [socket EXCEPT ![s].phase = "open"]
                               /\ agent' = [Away EXCEPT !.socket = s]
      BY <2>1 DEF Connect
    <3>2. socket[s] \in Attachments /\ agent'.socket = s
      BY <3>1 DEF TypeOK, Away
    <3> QED
      BY <3>1, <3>2 DEF TypeOK, Attachments
  <2>2. CASE Leave
    BY <2>2 DEF Leave, Away
  <2>3. CASE ~Connect /\ ~Leave
    <3>1. agent'.socket = agent.socket
      BY <2>3, MailStep
    <3>2. agent.socket \in OrNone(Sockets)
      BY DEF TypeOK, Agents
    <3> QED
      BY <3>1, <3>2, SocketStep DEF SocketsFit, OrNone
  <2> QED
    BY <2>1, <2>2, <2>3
<1>4. agent'.doing # "reading" => agent'.socket # None /\ agent'.id # None
  <2>t. agent \in Agents
    BY DEF TypeOK
  <2>1. CASE Connect \/ Leave
    BY <2>1 DEF Connect, Leave, Away
  <2>2. CASE TakeDispatch
    <3> DEFINE c == Head(work[agent.socket])
    <3>1. agent.socket \in Sockets /\ work[agent.socket] # <<>>
      BY <2>2, <2>t DEF TakeDispatch, Agents, OrNone
    <3>2. c \in Commands
      BY <3>1 DEF TypeOK
    <3>3. c # None
      BY <3>2, AgentSocketsAssumption DEF Commands
    <3>4. agent' = [agent EXCEPT !.doing = "starting", !.id = c]
      BY <2>2 DEF TakeDispatch
    <3> QED
      BY <2>t, <3>1, <3>3, <3>4, <1>n DEF Agents
  <2>3. CASE SendReady \/ HearReady \/ HearRefresh
    BY <2>3, <2>t DEF SendReady, HearReady, HearRefresh, SocketsFit, Agents
  <2>4. CASE HearStarted \/ Finish \/ HearFinished
    BY <2>4, <2>t DEF HearStarted, Finish, HearFinished, SocketsFit, Agents
  <2>5. CASE agent' = agent
    BY <2>5 DEF SocketsFit
  <2>6. \/ Connect \/ Leave \/ AgentGoesOn \/ agent' = agent
    <3>1. ASSUME NEW w \in Handlers, Continue(w) PROVE agent' = agent
      BY <3>1
         DEF Continue, ReadyUpdate, ReadyMark, ReadyRefresh, ReadyDispatch, ReportAnswer,
             EventRecord, EventAnswer, Pick, PickListed, Lease, Send, Release, AfterRelease,
             DispatchDegrade, GoneSelect, GoneFail, GoneDegrade, GoneOffline
    <3>2. ASSUME NEW w \in Handlers,
                 \/ \E s \in Sockets : Receive(w, s)
                 \/ \E c \in Commands : Request(w, c)
                 \/ DispatchRequest(w) \/ ResumeRequest(w) \/ Die(w)
          PROVE  agent' = agent
      BY <3>2 DEF Receive, ReadyBegin, ReportBegin, EventBegin, GoneBegin, Request,
                  DispatchRequest, ResumeRequest, Die
    <3>3. ASSUME \/ RefreshRequest \/ CooldownEnds \/ Hibernate \/ UNCHANGED vars
                 \/ \E s \in Sockets : RefreshLapses(s)
                 \/ \E c \in Commands : LeaseExpires(c)
          PROVE  agent' = agent
      BY <3>3 DEF RefreshRequest, CooldownEnds, Hibernate, RefreshLapses, LeaseExpires, vars
    <3> QED
      BY <3>1, <3>2, <3>3 DEF Next
  <2> QED
    BY <2>1, <2>2, <2>3, <2>4, <2>5, <2>6 DEF AgentGoesOn
<1> QED
  BY <1>1, <1>2, <1>3, <1>4 DEF SocketsFit

\* A refresh is asked for on one socket, when none is waited for; no other step
\* has a socket wait for one.
LEMMA OneAskedStep ==
    ASSUME TypeOK, FramesFit, SocketsFit, OneAsked, [Next]_vars
    PROVE  OneAsked'
<1> DEFINE Asked(a) == a.phase = "open" /\ a.pending = "yes"
           Fewer == \A s \in Sockets : Asked(socket'[s]) => Asked(socket[s])
<1>a. \A s \in Sockets : socket[s] \in Attachments
  BY DEF TypeOK
<1>f. \A w \in Handlers : run[w] \in Frames
  BY DEF TypeOK
<1>l. ASSUME NEW attached \in [Sockets -> Attachments], NEW s \in Sockets, Asked(Looked(attached)[s])
      PROVE  Asked(attached[s])
  BY <1>l DEF Looked, Attachments
<1>o. ASSUME NEW s \in Sockets, NEW a, socket' = [socket EXCEPT ![s] = a],
             Asked(a) => Asked(socket[s])
      PROVE  Fewer
  BY <1>o DEF TypeOK
<1>1. ASSUME Fewer PROVE OneAsked'
  BY <1>1 DEF OneAsked, Listed
<1>2. ASSUME NEW t \in Sockets, AskSessions(t) PROVE OneAsked'
  <2>1. CASE socket' = Looked(socket)
    <3>1. Fewer
      BY <1>l, <2>1 DEF TypeOK
    <3> QED
      BY <1>1, <3>1
  <2>2. CASE ~Refreshing(socket)
    <3>1. \A s \in Sockets : ~Asked(socket[s])
      BY <2>2 DEF Refreshing
    <3>2. ASSUME NEW s \in Sockets, s # t PROVE ~Asked(socket'[s])
      <4>1. socket'[s] = Looked(socket)[s]
        BY <1>2, <3>2 DEF AskSessions, Looked
      <4> QED
        BY <1>l, <3>1, <4>1 DEF TypeOK
    <3> QED
      BY <3>2 DEF OneAsked, Listed
  <2> QED
    BY <1>2, <2>1, <2>2 DEF AskSessions
<1>3. ASSUME NEW w \in Handlers, Continue(w) PROVE OneAsked'
  <2> DEFINE f == run[w]
             s == f.socket
  <2>1. CASE ReadyMark(w)
    <3> DEFINE a == [socket[s] EXCEPT !.ready = TRUE,
                      !.pending = IF socket[s].pending = "late" THEN "no" ELSE socket[s].pending]
    <3>1. s \in Sockets
      BY <1>f, <2>1, FrameByOp DEF ReadyMark, ReadyFrames
    <3>2. socket' = [socket EXCEPT ![s] = a]
      BY <2>1, <3>1 DEF ReadyMark, TypeOK
    <3>3. Asked(a) => Asked(socket[s])
      BY <1>a, <3>1 DEF Attachments
    <3> HIDE DEF a, Fewer
    <3> QED
      BY <1>1, <1>o, <3>1, <3>2, <3>3
  <2>2. CASE ReadyRefresh(w)
    <3>1. s \in Sockets
      BY <1>f, <2>2, FrameByOp DEF ReadyRefresh, ReadyFrames
    <3>2. AskSessions(s) \/ socket' = socket \/ socket' = Looked(socket)
      BY <2>2 DEF ReadyRefresh
    <3>3. socket' = socket \/ socket' = Looked(socket) => Fewer
      BY <1>l DEF TypeOK
    <3> QED
      BY <1>1, <1>2, <3>1, <3>2, <3>3
  <2>3. CASE ReportAnswer(w)
    <3> DEFINE a == [socket[s] EXCEPT !.pending = "no"]
               consumed == [socket EXCEPT ![s] = a]
    <3>1. s \in Sockets
      BY <1>f, <2>3, FrameByOp DEF ReportAnswer, ReportFrames
    <3>2. a \in Attachments /\ ~Asked(a)
      BY <1>a, <3>1 DEF Attachments
    <3>3. consumed \in [Sockets -> Attachments]
          /\ \A t \in Sockets : Asked(consumed[t]) => Asked(socket[t])
      BY <3>1, <3>2 DEF TypeOK
    <3>4. socket' \in {socket, consumed, Looked(consumed)}
      BY <2>3 DEF ReportAnswer
    <3> HIDE DEF consumed
    <3>5. Fewer
      BY <1>l, <3>3, <3>4
    <3> QED
      BY <1>1, <3>5
  <2>4. CASE EventAnswer(w)
    <3> DEFINE a == [socket[s] EXCEPT !.active = @ \ {f.id}]
               cleared == [socket EXCEPT ![s] = a]
    <3>1. s \in Sockets
      BY <1>f, <2>4, FrameByOp DEF EventAnswer, EventFrames
    <3>2. a \in Attachments /\ (Asked(a) => Asked(socket[s]))
      BY <1>a, <3>1 DEF Attachments
    <3>3. cleared \in [Sockets -> Attachments]
          /\ \A t \in Sockets : Asked(cleared[t]) => Asked(socket[t])
      BY <3>1, <3>2 DEF TypeOK
    <3>4. socket' \in {socket, Looked(cleared)}
      BY <2>4 DEF EventAnswer
    <3> HIDE DEF cleared
    <3>5. Fewer
      BY <1>l, <3>3, <3>4
    <3> QED
      BY <1>1, <3>5
  <2>5. CASE Send(w)
    <3> DEFINE a == socket[s]
    <3>1. s \in Sockets
      BY <1>f, <2>5, FrameByOp DEF Send, FramesFit, DispatchFrames, OrNone
    <3>2. \/ socket' = [socket EXCEPT ![s] = [a EXCEPT !.active = a.active \cup {f.id}]]
          \/ socket' = [socket EXCEPT ![s] =
               [a EXCEPT !.active = a.active \ {f.id}, !.ready = FALSE, !.pending = "no"]]
      BY <2>5, <3>1 DEF Send, TypeOK
    <3>3. \A S : Asked([a EXCEPT !.active = S]) => Asked(a)
      BY <1>a, <3>1 DEF Attachments
    <3>4. \A S : ~Asked([a EXCEPT !.active = S, !.ready = FALSE, !.pending = "no"])
      BY <1>a, <3>1 DEF Attachments
    <3> HIDE DEF Fewer, Asked
    <3> QED
      BY <1>1, <1>o, <3>1, <3>2, <3>3, <3>4
  <2>6. CASE socket' = socket \/ socket' = Looked(socket)
    <3>1. Fewer
      BY <1>l, <2>6 DEF TypeOK
    <3> QED
      BY <1>1, <3>1
  <2> QED
    BY <1>3, <2>1, <2>2, <2>3, <2>4, <2>5, <2>6
       DEF Continue, ReadyUpdate, ReadyDispatch, EventRecord, Pick, PickListed, Lease, Release,
           AfterRelease, DispatchDegrade, GoneSelect, GoneFail, GoneDegrade, GoneOffline
<1>4. ASSUME NEW w \in Handlers,
             \/ \E s \in Sockets : Receive(w, s)
             \/ \E c \in Commands : Request(w, c)
             \/ DispatchRequest(w) \/ ResumeRequest(w) \/ Die(w)
      PROVE  Fewer
  <2>1. CASE socket' = socket \/ socket' = Looked(socket)
    BY <1>l, <2>1 DEF TypeOK
  <2>2. ASSUME NEW s \in Sockets, GoneBegin(w, s) PROVE Fewer
    <3> DEFINE a == [socket[s] EXCEPT !.phase = "gone", !.active = {}]
    <3>1. socket' = [socket EXCEPT ![s] = a]
      BY <2>2 DEF GoneBegin
    <3>2. ~Asked(a)
      BY <1>a DEF Attachments
    <3> HIDE DEF a, Fewer
    <3> QED
      BY <1>o, <3>1, <3>2
  <2> QED
    BY <1>4, <2>1, <2>2 DEF Receive, ReadyBegin, ReportBegin, EventBegin, Request,
                            DispatchRequest, ResumeRequest, Die
<1>5. ASSUME AgentGoesOn \/ Leave PROVE Fewer
  BY <1>5 DEF AgentGoesOn, Leave, SendReady, HearReady, HearRefresh, TakeDispatch, HearStarted,
              Finish, HearFinished
<1>6. ASSUME Connect PROVE Fewer
  <2>1. PICK s \in Sockets : socket[s].phase = "new" /\ socket' = [socket EXCEPT ![s].phase = "open"]
    BY <1>6 DEF Connect
  <2> DEFINE a == [socket[s] EXCEPT !.phase = "open"]
  <2>2. ~Asked(a)
    BY <1>a, <2>1 DEF Attachments, SocketsFit
  <2> HIDE DEF a, Fewer
  <2> QED
    BY <1>o, <2>1, <2>2 DEF a
<1>7. ASSUME NEW s \in Sockets, RefreshLapses(s) PROVE Fewer
  <2> DEFINE a == [socket[s] EXCEPT !.pending = "late"]
  <2>1. socket' = [socket EXCEPT ![s] = a]
    BY <1>7 DEF RefreshLapses
  <2>2. ~Asked(a)
    BY <1>a DEF Attachments
  <2> HIDE DEF a, Fewer
  <2> QED
    BY <1>o, <2>1, <2>2
<1>8. ASSUME \/ CooldownEnds \/ Hibernate \/ UNCHANGED vars
             \/ \E c \in Commands : LeaseExpires(c)
      PROVE  Fewer
  BY <1>8 DEF CooldownEnds, Hibernate, LeaseExpires, vars
<1>9. ASSUME RefreshRequest PROVE OneAsked'
  <2>1. Newest(Ready) \in Sockets
    BY <1>9, NewestExists DEF RefreshRequest, Ready, Listed
  <2> QED
    BY <1>2, <1>9, <2>1 DEF RefreshRequest
<1> HIDE DEF Fewer
<1> QED
  BY <1>1, <1>3, <1>4, <1>5, <1>6, <1>7, <1>8, <1>9 DEF Next

LEMMA OneAskedCounts == ASSUME OneAsked PROVE OneRefreshPending
<1> DEFINE S == {s \in Listed : socket[s].pending = "yes"}
<1>1. CASE S = {}
  BY <1>1, FS_EmptySet DEF OneRefreshPending
<1>2. CASE S # {}
  <2>1. PICK s \in S : TRUE
    BY <1>2
  <2>2. S = {s}
    BY <2>1 DEF OneAsked
  <2>3. Cardinality({s}) = 1
    BY FS_Singleton
  <2>4. Cardinality(S) <= 1
    <3> HIDE DEF S
    <3>1. Cardinality(S) = 1
      BY <2>2, <2>3
    <3> QED
      BY <3>1
  <2> QED
    BY <2>4 DEF OneRefreshPending
<1> QED
  BY <1>1, <1>2

-----------------------------------------------------------------------------
(* What a step does to the messages and frames about a command.            *)

\* The messages of a kind that wait to be handled, the frames that record one
\* and its answers are as they were, or fewer: what a step has not to do with.
InboxKeeps(kind) ==
    \A s \in Sockets : \E k \in {0, 1} : \A i \in DOMAIN inbox'[s] :
        inbox'[s][i].kind = kind => i + k \in DOMAIN inbox[s] /\ inbox[s][i + k] = inbox'[s][i]
EventsKeep(kind) ==
    \A w \in Handlers : run'[w].op = "event" /\ run'[w].kind = kind => run'[w] = run[w]
MailKeeps(kind) ==
    \A s \in Sockets : \A m \in mail'[s] : m.kind = kind => m \in mail[s]
Keeps(kind) == InboxKeeps(kind) /\ EventsKeep(kind) /\ MailKeeps(kind)

\* No other dispatch is about to be sent.
SendsKeep ==
    \A w \in Handlers :
        run'[w].op = "dispatch" /\ run'[w].at = "send" => run'[w] = run[w]

\* The state of a command that has started does not change, and no other starts.
RowsKeep ==
    \A c \in Commands : /\ command[c].state \in Started => command'[c].state = command[c].state
                        /\ command'[c].state \in Started => command'[c].state = command[c].state

AgentKeeps ==
    /\ agent'.socket = agent.socket /\ agent'.doing = agent.doing /\ agent'.id = agent.id
    /\ begun' = begun

Kinds == {"started", "finished"}

LEMMA InboxIs ==
    ASSUME TypeOK, NEW s \in Sockets
    PROVE  /\ inbox[s] \in Seq(Messages) /\ DOMAIN inbox[s] = 1 .. Len(inbox[s])
           /\ Len(inbox[s]) \in Nat
BY DEF TypeOK

LEMMA SameInbox ==
    ASSUME TypeOK, NEW s \in Sockets, inbox'[s] = inbox[s], NEW kind
    PROVE  \E k \in {0, 1} : \A i \in DOMAIN inbox'[s] :
             inbox'[s][i].kind = kind => i + k \in DOMAIN inbox[s] /\ inbox[s][i + k] = inbox'[s][i]
<1>1. \A i \in DOMAIN inbox'[s] : i + 0 = i
  BY InboxIs
<1>2. \A i \in DOMAIN inbox'[s] : i + 0 \in DOMAIN inbox[s] /\ inbox[s][i + 0] = inbox'[s][i]
  BY <1>1
<1> QED
  BY <1>2

LEMMA TakesKeeps ==
    ASSUME TypeOK, NEW w \in Handlers, NEW s \in Sockets, NEW kind, NEW taken,
           Takes(w, s, taken)
    PROVE  InboxKeeps(kind)
<1> SUFFICES ASSUME NEW t \in Sockets
             PROVE  \E k \in {0, 1} : \A i \in DOMAIN inbox'[t] : inbox'[t][i].kind = kind =>
                       i + k \in DOMAIN inbox[t] /\ inbox[t][i + k] = inbox'[t][i]
  BY DEF InboxKeeps
<1>1. CASE t = s
  <2>1. inbox[s] \in Seq(Messages) /\ inbox[s] # <<>> /\ inbox'[s] = Tail(inbox[s])
    BY DEF TypeOK, Takes
  <2>2. \A i \in DOMAIN inbox'[s] : i + 1 \in DOMAIN inbox[s] /\ inbox[s][i + 1] = inbox'[s][i]
    BY <2>1
  <2> QED
    BY <1>1, <2>2
<1>2. CASE t # s
  <2>1. inbox'[t] = inbox[t]
    BY <1>2 DEF Takes, TypeOK
  <2> QED
    BY <2>1, SameInbox
<1> QED
  BY <1>1, <1>2

LEMMA SaysKeeps ==
    ASSUME TypeOK, agent.socket # None, NEW m, Says(m), NEW kind, m.kind # kind
    PROVE  InboxKeeps(kind)
<1> SUFFICES ASSUME NEW t \in Sockets
             PROVE  \E k \in {0, 1} : \A i \in DOMAIN inbox'[t] : inbox'[t][i].kind = kind =>
                       i + k \in DOMAIN inbox[t] /\ inbox[t][i + k] = inbox'[t][i]
  BY DEF InboxKeeps
<1>1. CASE t = agent.socket
  <2>1. inbox[t] \in Seq(Messages) /\ inbox'[t] = Append(inbox[t], m)
    BY <1>1 DEF TypeOK, Says
  <2>2. ASSUME NEW i \in DOMAIN inbox'[t], inbox'[t][i].kind = kind
        PROVE  i + 0 \in DOMAIN inbox[t] /\ inbox[t][i + 0] = inbox'[t][i]
    <3>1. i \in 1 .. Len(inbox[t]) + 1
      BY <2>1
    <3>2. i # Len(inbox[t]) + 1
      BY <2>1, <2>2
    <3> QED
      BY <2>1, <3>1, <3>2
  <2> QED
    BY <2>2
<1>2. CASE t # agent.socket
  <2>1. inbox'[t] = inbox[t]
    BY <1>2 DEF Says, TypeOK
  <2> QED
    BY <2>1, SameInbox
<1> QED
  BY <1>1, <1>2

LEMMA UnchangedKeeps == ASSUME TypeOK, inbox' = inbox, NEW kind PROVE InboxKeeps(kind)
BY SameInbox DEF InboxKeeps

LEMMA FrameKeeps ==
    ASSUME TypeOK, NEW w \in Handlers, NEW g, run' = [run EXCEPT ![w] = g]
    PROVE  /\ \A kind : ~(g.op = "event" /\ g.kind = kind) => EventsKeep(kind)
           /\ ~(g.op = "dispatch" /\ g.at = "send") => SendsKeep
BY DEF EventsKeep, SendsKeep, TypeOK

LEMMA MailedAdds ==
    ASSUME TypeOK, NEW s, NEW m, mail' = Mailed(s, m) \/ mail' = mail, NEW t \in Sockets
    PROVE  mail'[t] \subseteq mail[t] \cup {m}
<1>1. CASE mail' = mail
  BY <1>1
<1>2. CASE mail' = [mail EXCEPT ![s] = mail[s] \cup {m}]
  BY <1>2 DEF TypeOK
<1> QED
  BY <1>1, <1>2 DEF Mailed

\* A message that is not about a command.
LEMMA MailedKeeps ==
    ASSUME TypeOK, NEW s, NEW m, mail' = Mailed(s, m) \/ mail' = mail, NEW kind, m.kind # kind
    PROVE  MailKeeps(kind)
BY DEF MailKeeps, Mailed, TypeOK

\* The steps that concern no command, or only its lease.
QuietTurn(w) ==
    \/ ReadyUpdate(w) \/ ReadyMark(w) \/ ReadyRefresh(w) \/ ReadyDispatch(w) \/ ReportAnswer(w)
    \/ Pick(w) \/ PickListed(w) \/ Release(w) \/ AfterRelease(w) \/ DispatchDegrade(w)
    \/ GoneSelect(w) \/ GoneDegrade(w) \/ GoneOffline(w)
QuietBegin(w) ==
    \/ \E s \in Sockets : ReadyBegin(w, s) \/ ReportBegin(w, s) \/ GoneBegin(w, s)
    \/ \E c \in Commands : Request(w, c)
    \/ DispatchRequest(w) \/ ResumeRequest(w) \/ Die(w)
QuietOther ==
    \/ RefreshRequest \/ CooldownEnds \/ Hibernate \/ UNCHANGED vars
    \/ \E s \in Sockets : RefreshLapses(s)
    \/ \E c \in Commands : LeaseExpires(c)
QuietAgent == SendReady \/ HearReady \/ HearRefresh

AllKept == /\ \A kind \in Kinds : Keeps(kind)
           /\ SendsKeep /\ RowsKeep /\ AgentKeeps /\ work' = work

LEMMA QuietTurnKeeps ==
    ASSUME TypeOK, FramesFit, NEW w \in Handlers, QuietTurn(w)
    PROVE  AllKept
<1> DEFINE f == run[w]
<1>t. /\ f.op = "ready" => f \in ReadyFrames
      /\ f.op = "report" => f \in ReportFrames
      /\ f.op = "dispatch" => f \in DispatchFrames
      /\ f.op = "gone" => f \in GoneFrames
  BY FrameByOp DEF TypeOK
<1>1. work' = work /\ AgentKeeps /\ inbox' = inbox
  BY DEF QuietTurn, AgentKeeps, ReadyUpdate, ReadyMark, ReadyRefresh, ReadyDispatch, ReportAnswer,
         Pick, PickListed, Release, AfterRelease, DispatchDegrade, GoneSelect, GoneDegrade,
         GoneOffline
<1>2. RowsKeep
  <2>1. CASE Release(w)
    <3>1. f.id \in Commands
      BY <1>t, <2>1 DEF Release, FramesFit, DispatchFrames, OrNone
    <3> QED
      BY <2>1, <3>1 DEF Release, Releases, RowsKeep, Started, TypeOK, CommandRows
  <2>2. CASE command' = command
    BY <2>2 DEF RowsKeep
  <2> QED
    BY <2>1, <2>2
       DEF QuietTurn, ReadyUpdate, ReadyMark, ReadyRefresh, ReadyDispatch, ReportAnswer,
           Pick, PickListed, AfterRelease, DispatchDegrade, GoneSelect, GoneDegrade, GoneOffline
<1>3. ASSUME NEW kind \in Kinds PROVE MailKeeps(kind)
  <2>1. \/ mail' = mail
        \/ mail' = Mailed(f.socket, [kind |-> "ready"])
        \/ mail' = Mailed(f.socket, [kind |-> "refresh"])
    <3>1. CASE ReadyMark(w)
      BY <3>1 DEF ReadyMark
    <3>2. CASE ReadyRefresh(w)
      BY <3>2 DEF ReadyRefresh, AskSessions
    <3> QED
      BY <3>1, <3>2
         DEF QuietTurn, ReadyUpdate, ReadyDispatch, ReportAnswer, Pick, PickListed, Release,
             AfterRelease, DispatchDegrade, GoneSelect, GoneDegrade, GoneOffline
  <2>2. CASE mail' = mail
    BY <2>2 DEF MailKeeps
  <2>3. kind # "ready" /\ kind # "refresh"
    BY DEF Kinds
  <2>4. [kind |-> "ready"].kind # kind /\ [kind |-> "refresh"].kind # kind
    BY <2>3
  <2>5. CASE mail' = Mailed(f.socket, [kind |-> "ready"])
    BY <2>4, <2>5, MailedKeeps
  <2>6. CASE mail' = Mailed(f.socket, [kind |-> "refresh"])
    BY <2>4, <2>6, MailedKeeps
  <2> QED
    BY <2>1, <2>2, <2>5, <2>6
<1>4. SendsKeep /\ \A kind : EventsKeep(kind)
  <2> DEFINE Goal == SendsKeep /\ \A kind : EventsKeep(kind)
  <2>g. ASSUME NEW g, run' = [run EXCEPT ![w] = g], g.op # "event",
               ~(g.op = "dispatch" /\ g.at = "send")
        PROVE  Goal
    BY <2>g, FrameKeeps
  <2> SUFFICES Goal
    OBVIOUS
  <2> HIDE DEF Goal
  <2>e. ASSUME End(w) PROVE Goal
    <3>1. Idle.op = "idle"
      BY DEF Idle
    <3> QED
      BY <2>e, <2>g, <3>1 DEF End
  <2>d. ASSUME NEW s, NEW a, run' = [run EXCEPT ![w] = DispatchOn(s, a)] PROVE Goal
    <3>1. DispatchOn(s, a).op # "event"
          /\ ~(DispatchOn(s, a).op = "dispatch" /\ DispatchOn(s, a).at = "send")
      BY DEF DispatchOn, Dispatch, Idle
    <3> QED
      BY <2>d, <2>g, <3>1
  <2>a. ASSUME NEW at, Goto(w, at), f.op \in {"ready", "gone"} \/ (f.op = "dispatch" /\ at # "send")
        PROVE  Goal
    <3>1. [f EXCEPT !.at = at].op = f.op /\ [f EXCEPT !.at = at].at = at
      BY <1>t, <2>a DEF ReadyFrames, GoneFrames, DispatchFrames
    <3> QED
      BY <2>a, <2>g, <3>1 DEF Goto
  <2>1. CASE ReadyUpdate(w)
    <3> DEFINE g == [[f EXCEPT !.at = "mark"] EXCEPT !.news = f.news \/ status # "online"]
    <3>1. run' = [run EXCEPT ![w] = g]
      BY <2>1 DEF ReadyUpdate, TypeOK
    <3>2. g.op = "ready"
      BY <1>t, <2>1 DEF ReadyUpdate, ReadyFrames
    <3> HIDE DEF g
    <3> QED
      BY <2>g, <3>1, <3>2
  <2>2. CASE ReadyMark(w)
    BY <2>2, <2>a, <2>e DEF ReadyMark
  <2>3. CASE ReadyRefresh(w)
    BY <2>3, <2>a, <2>e DEF ReadyRefresh, Blocked
  <2>4. CASE ReadyDispatch(w) \/ ReportAnswer(w)
    BY <2>4, <2>d, <2>e DEF ReadyDispatch, ReportAnswer, Blocked
  <2>5. CASE Pick(w)
    <3>1. \/ run' = [run EXCEPT ![w] = Idle]
          \/ run' = [run EXCEPT ![w] = Dispatch("lease", Newest(Ready), None)]
      BY <2>5 DEF Pick, Blocked, End
    <3>2. Dispatch("lease", Newest(Ready), None).op = "dispatch"
          /\ Dispatch("lease", Newest(Ready), None).at = "lease"
      BY DEF Dispatch
    <3> QED
      BY <2>e, <2>g, <3>1, <3>2 DEF End
  <2>6. CASE PickListed(w)
    BY <2>6, <2>d, <2>e DEF PickListed, Blocked, End
  <2>7. CASE Release(w) \/ AfterRelease(w) \/ DispatchDegrade(w)
    BY <2>7, <2>a DEF Release, AfterRelease, DispatchDegrade
  <2>8. CASE GoneSelect(w)
    <3> DEFINE g == [[f EXCEPT !.at = "fail"] EXCEPT !.rest = {c \in ScopeOf(f) : Active(c)}]
    <3>1. run' = [run EXCEPT ![w] = g]
      BY <2>8 DEF GoneSelect, TypeOK
    <3>2. g.op = "gone"
      BY <1>t, <2>8 DEF GoneSelect, GoneFrames
    <3> HIDE DEF g
    <3> QED
      BY <2>g, <3>1, <3>2
  <2>9. CASE GoneDegrade(w) \/ GoneOffline(w)
    BY <2>9, <2>e DEF GoneDegrade, GoneOffline
  <2> QED
    BY <2>1, <2>2, <2>3, <2>4, <2>5, <2>6, <2>7, <2>8, <2>9 DEF QuietTurn
<1> QED
  BY <1>1, <1>2, <1>3, <1>4, UnchangedKeeps DEF AllKept, Keeps

LEMMA QuietBeginKeeps ==
    ASSUME TypeOK, NEW w \in Handlers, QuietBegin(w)
    PROVE  AllKept
<1>1. work' = work /\ mail' = mail /\ AgentKeeps
  BY DEF QuietBegin, AgentKeeps, ReadyBegin, ReportBegin, GoneBegin, Request, DispatchRequest,
         ResumeRequest, Die
<1>2. RowsKeep
  <2>1. ASSUME NEW c \in Commands, Request(w, c) PROVE RowsKeep
    BY <2>1 DEF Request, RowsKeep, Started, TypeOK, CommandRows
  <2>2. CASE command' = command
    BY <2>2 DEF RowsKeep
  <2> QED
    BY <2>1, <2>2 DEF QuietBegin, ReadyBegin, ReportBegin, GoneBegin, DispatchRequest,
                      ResumeRequest, Die
<1>3. \A kind : InboxKeeps(kind)
  <2>1. ASSUME NEW s \in Sockets, ReadyBegin(w, s) \/ ReportBegin(w, s), NEW kind
        PROVE  InboxKeeps(kind)
    BY <2>1, TakesKeeps DEF ReadyBegin, ReportBegin
  <2>2. ASSUME NEW s \in Sockets, GoneBegin(w, s), NEW kind PROVE InboxKeeps(kind)
    <3> SUFFICES ASSUME NEW t \in Sockets
                 PROVE  \E k \in {0, 1} : \A i \in DOMAIN inbox'[t] : inbox'[t][i].kind = kind =>
                           i + k \in DOMAIN inbox[t] /\ inbox[t][i + k] = inbox'[t][i]
      BY DEF InboxKeeps
    <3>1. CASE t = s
      <4>1. inbox'[t] = << >>
        BY <2>2, <3>1 DEF GoneBegin, TypeOK
      <4>2. \A i \in DOMAIN inbox'[t] : FALSE
        BY <4>1
      <4> QED
        BY <4>2
    <3>2. CASE t # s
      <4>1. inbox'[t] = inbox[t]
        BY <2>2, <3>2 DEF GoneBegin, TypeOK
      <4> QED
        BY <4>1, SameInbox
    <3> QED
      BY <3>1, <3>2
  <2>3. CASE inbox' = inbox
    BY <2>3, UnchangedKeeps
  <2> QED
    BY <2>1, <2>2, <2>3 DEF QuietBegin, Request, DispatchRequest, ResumeRequest, Die
<1>4. SendsKeep /\ \A kind : EventsKeep(kind)
  <2> DEFINE Goal == SendsKeep /\ \A kind : EventsKeep(kind)
  <2>g. ASSUME NEW g, run' = [run EXCEPT ![w] = g], g.op # "event",
               ~(g.op = "dispatch" /\ g.at = "send")
        PROVE  Goal
    BY <2>g, FrameKeeps
  <2> SUFFICES Goal
    OBVIOUS
  <2> HIDE DEF Goal
  <2>e. ASSUME run' = [run EXCEPT ![w] = Idle] PROVE Goal
    <3>1. Idle.op = "idle"
      BY DEF Idle
    <3> QED
      BY <2>e, <2>g, <3>1
  <2>1. ASSUME NEW s \in Sockets, ReadyBegin(w, s) PROVE Goal
    <3> DEFINE g == [op |-> "ready", at |-> "update", socket |-> s, news |-> ~socket[s].ready]
    <3>1. run' = [run EXCEPT ![w] = g] /\ g.op = "ready"
      BY <2>1 DEF ReadyBegin
    <3> HIDE DEF g
    <3> QED
      BY <2>g, <3>1
  <2>2. ASSUME NEW s \in Sockets, ReportBegin(w, s) PROVE Goal
    <3> DEFINE g == [op |-> "report", at |-> "answer", socket |-> s]
    <3>1. run' = [run EXCEPT ![w] = g] /\ g.op = "report"
      BY <2>2 DEF ReportBegin
    <3> HIDE DEF g
    <3> QED
      BY <2>g, <3>1
  <2>3. ASSUME NEW s \in Sockets, GoneBegin(w, s) PROVE Goal
    <3> DEFINE g == [op |-> "gone", at |-> "select", socket |-> s, peer |-> Listed \ {s} # {},
                     readyPeer |-> Ready \ {s} # {}, rest |-> socket[s].active]
    <3>1. run' = [run EXCEPT ![w] = Idle] \/ run' = [run EXCEPT ![w] = g]
      BY <2>3 DEF GoneBegin
    <3>2. g.op = "gone"
      OBVIOUS
    <3> HIDE DEF g
    <3> QED
      BY <2>e, <2>g, <3>1, <3>2
  <2>4. CASE ResumeRequest(w)
    <3> DEFINE g == [Dispatch("pickListed", None, None) EXCEPT !.seen = Listed]
    <3>1. run' = [run EXCEPT ![w] = g]
      BY <2>4 DEF ResumeRequest
    <3>2. g.op = "dispatch" /\ g.at = "pickListed"
      BY DEF Dispatch
    <3> HIDE DEF g
    <3> QED
      BY <2>g, <3>1, <3>2
  <2>5. CASE DispatchRequest(w) \/ \E c \in Commands : Request(w, c)
    <3>1. run' = [run EXCEPT ![w] = Dispatch("pick", None, None)]
      BY <2>5 DEF DispatchRequest, Request
    <3>2. Dispatch("pick", None, None).op = "dispatch" /\ Dispatch("pick", None, None).at = "pick"
      BY DEF Dispatch
    <3> QED
      BY <2>g, <3>1, <3>2
  <2>6. CASE Die(w)
    BY <2>6, <2>e DEF Die, End
  <2> QED
    BY <2>1, <2>2, <2>3, <2>4, <2>5, <2>6 DEF QuietBegin
<1> QED
  BY <1>1, <1>2, <1>3, <1>4 DEF AllKept, Keeps, MailKeeps

LEMMA QuietOtherKeeps ==
    ASSUME TypeOK, QuietOther
    PROVE  AllKept
<1>1. work' = work /\ inbox' = inbox /\ run' = run /\ AgentKeeps
  BY DEF QuietOther, AgentKeeps, RefreshRequest, CooldownEnds, Hibernate, RefreshLapses,
         LeaseExpires, vars
<1>2. RowsKeep
  <2>1. ASSUME NEW c \in Commands, LeaseExpires(c) PROVE RowsKeep
    BY <2>1 DEF LeaseExpires, RowsKeep, Started, TypeOK, CommandRows
  <2>2. CASE command' = command
    BY <2>2 DEF RowsKeep
  <2> QED
    BY <2>1, <2>2 DEF QuietOther, RefreshRequest, CooldownEnds, Hibernate, RefreshLapses, vars
<1>3. ASSUME NEW kind \in Kinds PROVE MailKeeps(kind)
  <2>1. CASE mail' = mail
    BY <2>1 DEF MailKeeps
  <2>2. CASE RefreshRequest
    <3>1. mail' = mail \/ mail' = Mailed(Newest(Ready), [kind |-> "refresh"])
      BY <2>2 DEF RefreshRequest, AskSessions
    <3>2. [kind |-> "refresh"].kind # kind
      BY DEF Kinds
    <3> QED
      BY <3>1, <3>2, MailedKeeps
  <2> QED
    BY <2>1, <2>2 DEF QuietOther, CooldownEnds, Hibernate, RefreshLapses, LeaseExpires, vars
<1> QED
  BY <1>1, <1>2, <1>3, UnchangedKeeps DEF AllKept, Keeps, EventsKeep, SendsKeep

LEMMA QuietAgentKeeps ==
    ASSUME TypeOK, QuietAgent
    PROVE  AllKept
<1>1. work' = work /\ run' = run /\ command' = command
  BY DEF QuietAgent, SendReady, HearReady, HearRefresh
<1>2. AgentKeeps
  BY DEF QuietAgent, AgentKeeps, SendReady, HearReady, HearRefresh, TypeOK, Agents
<1>3. \A kind : MailKeeps(kind)
  BY DEF QuietAgent, SendReady, HearReady, HearRefresh, Hears, MailKeeps, TypeOK
<1>4. ASSUME NEW kind \in Kinds PROVE InboxKeeps(kind)
  <2>1. [kind |-> "ready"].kind # kind /\ [kind |-> "report"].kind # kind
    BY DEF Kinds
  <2>2. CASE SendReady
    BY <2>1, <2>2, SaysKeeps DEF SendReady
  <2>3. CASE HearReady
    BY <2>3, UnchangedKeeps DEF HearReady
  <2>4. CASE HearRefresh
    BY <2>1, <2>4, SaysKeeps DEF HearRefresh, Hears
  <2> QED
    BY <2>2, <2>3, <2>4 DEF QuietAgent
<1> QED
  BY <1>1, <1>2, <1>3, <1>4 DEF AllKept, Keeps, EventsKeep, SendsKeep, RowsKeep

\* Every other step is one of these.
LEMMA QuietKeeps ==
    ASSUME TypeOK, FramesFit, [Next]_vars
    PROVE  \/ AllKept
           \/ \E w \in Handlers :
                 \/ \E s \in Sockets, kind \in Kinds : EventBegin(w, s, kind)
                 \/ EventRecord(w) \/ EventAnswer(w) \/ Lease(w) \/ Send(w) \/ GoneFail(w)
           \/ TakeDispatch \/ HearStarted \/ Finish \/ HearFinished \/ Connect \/ Leave
<1>1. CASE QuietOther \/ QuietAgent
  BY <1>1, QuietOtherKeeps, QuietAgentKeeps
<1>2. ASSUME NEW w \in Handlers, QuietBegin(w) \/ QuietTurn(w) PROVE AllKept
  BY <1>2, QuietBeginKeeps, QuietTurnKeeps
<1>3. ASSUME NEW w \in Handlers, NEW s \in Sockets, Receive(w, s)
      PROVE  QuietBegin(w) \/ \E kind \in Kinds : EventBegin(w, s, kind)
  BY <1>3 DEF Receive, QuietBegin, Kinds
<1>4. ASSUME NEW w \in Handlers, Continue(w)
      PROVE  QuietTurn(w) \/ EventRecord(w) \/ EventAnswer(w) \/ Lease(w) \/ Send(w) \/ GoneFail(w)
  BY <1>4 DEF Continue, QuietTurn
<1>5. ASSUME NEW w \in Handlers,
             \/ \E c \in Commands : Request(w, c)
             \/ DispatchRequest(w) \/ ResumeRequest(w) \/ Die(w)
      PROVE  QuietBegin(w)
  BY <1>5 DEF QuietBegin
<1> QED
  BY <1>1, <1>2, <1>3, <1>4, <1>5 DEF Next, AgentGoesOn, QuietOther, QuietAgent

LEMMA OtherKeeps ==
    ASSUME TypeOK, FramesFit, SocketsFit, NEW kind \in Kinds,
           \/ \E w \in Handlers :
                 \/ \E s \in Sockets, k \in Kinds \ {kind} : EventBegin(w, s, k)
                 \/ (EventRecord(w) \/ EventAnswer(w)) /\ run[w].kind # kind
                 \/ Lease(w) \/ Send(w) \/ GoneFail(w)
           \/ TakeDispatch /\ kind # "started"
           \/ Finish /\ kind # "finished"
           \/ HearStarted \/ HearFinished \/ Connect \/ Leave
    PROVE  Keeps(kind)
<1>f. \A w \in Handlers : run[w] \in Frames
  BY DEF TypeOK
<1>1. ASSUME NEW w \in Handlers, NEW s \in Sockets, NEW k \in Kinds \ {kind}, EventBegin(w, s, k)
      PROVE  Keeps(kind)
  <2> DEFINE g == [op |-> "event", at |-> "record", socket |-> s, id |-> Head(inbox[s]).id,
                   kind |-> k, accepted |-> FALSE]
  <2>1. run' = [run EXCEPT ![w] = g] /\ g.kind # kind
    BY <1>1 DEF EventBegin
  <2> HIDE DEF g
  <2>2. EventsKeep(kind)
    BY <2>1, FrameKeeps
  <2>3. InboxKeeps(kind)
    BY <1>1, TakesKeeps DEF EventBegin
  <2> QED
    BY <1>1, <2>2, <2>3 DEF EventBegin, Keeps, MailKeeps
<1>2. ASSUME NEW w \in Handlers, EventRecord(w), run[w].kind # kind PROVE Keeps(kind)
  <2> DEFINE g == [[run[w] EXCEPT !.at = "answer"] EXCEPT !.accepted = Accepts(run[w].id)]
  <2>1. run' = [run EXCEPT ![w] = g]
    BY <1>2 DEF EventRecord, TypeOK
  <2>2. g.kind # kind
    BY <1>f, <1>2, FrameByOp DEF EventRecord, EventFrames
  <2> HIDE DEF g
  <2>3. EventsKeep(kind)
    BY <2>1, <2>2, FrameKeeps
  <2> QED
    BY <1>2, <2>3, UnchangedKeeps DEF EventRecord, Keeps, MailKeeps
<1>3. ASSUME NEW w \in Handlers, EventAnswer(w), run[w].kind # kind PROVE Keeps(kind)
  <2> DEFINE f == run[w]
             m == [kind |-> f.kind, id |-> f.id, accepted |-> f.accepted]
  <2>1. mail' = mail \/ mail' = Mailed(f.socket, m)
    BY <1>3 DEF EventAnswer
  <2>2. m.kind # kind
    BY <1>3
  <2>3. MailKeeps(kind)
    <3> HIDE DEF m
    <3> QED
      BY <2>1, <2>2, MailedKeeps
  <2>4. \/ run' = [run EXCEPT ![w] = Idle]
        \/ \E a : run' = [run EXCEPT ![w] = DispatchOn(f.socket, a)]
    BY <1>3 DEF EventAnswer, End
  <2>5. Idle.op # "event" /\ \A a : DispatchOn(f.socket, a).op # "event"
    BY DEF Idle, DispatchOn, Dispatch
  <2>6. EventsKeep(kind)
    BY <2>4, <2>5, FrameKeeps
  <2>7. inbox' = inbox
    BY <1>3 DEF EventAnswer
  <2> QED
    BY <2>3, <2>6, <2>7, UnchangedKeeps DEF Keeps
<1>4. ASSUME NEW w \in Handlers, Lease(w) \/ Send(w) \/ GoneFail(w) PROVE Keeps(kind)
  <2> DEFINE f == run[w]
  <2>1. mail' = mail /\ inbox' = inbox
    BY <1>4 DEF Lease, Send, GoneFail
  <2>2. ASSUME NEW g, run' = [run EXCEPT ![w] = g], g.op # "event" PROVE EventsKeep(kind)
    BY <2>2, FrameKeeps
  <2>3. ASSUME End(w) PROVE EventsKeep(kind)
    <3>1. Idle.op # "event"
      BY DEF Idle
    <3> QED
      BY <2>2, <2>3, <3>1 DEF End
  <2>4. ASSUME NEW at, Goto(w, at), f.op \in {"dispatch", "gone"} PROVE EventsKeep(kind)
    <3>1. [f EXCEPT !.at = at].op # "event"
      BY <1>f, <2>4, FrameByOp DEF DispatchFrames, GoneFrames
    <3> QED
      BY <2>2, <2>4, <3>1 DEF Goto
  <2>5. CASE Lease(w)
    <3>1. \A c \in Commands : [[f EXCEPT !.at = "send"] EXCEPT !.id = c].op # "event"
      BY <1>f, <2>5, FrameByOp DEF Lease, DispatchFrames
    <3>2. \/ End(w)
          \/ \E c \in Commands : run' = [run EXCEPT ![w] = [[f EXCEPT !.at = "send"] EXCEPT !.id = c]]
      BY <2>5 DEF Lease, Blocked, TypeOK
    <3>3. EventsKeep(kind)
      BY <2>2, <2>3, <3>1, <3>2
    <3> QED
      BY <2>1, <3>3, UnchangedKeeps DEF Keeps, MailKeeps
  <2>6. CASE Send(w)
    <3>1. EventsKeep(kind)
      BY <2>3, <2>4, <2>6 DEF Send
    <3> QED
      BY <2>1, <3>1, UnchangedKeeps DEF Keeps, MailKeeps
  <2>7. CASE GoneFail(w)
    <3>1. ASSUME NEW c, run' = [run EXCEPT ![w].rest = @ \ {c}] PROVE EventsKeep(kind)
      <4>1. run' = [run EXCEPT ![w] = [f EXCEPT !.rest = f.rest \ {c}]]
        BY <3>1
      <4>2. [f EXCEPT !.rest = f.rest \ {c}].op # "event"
        BY <1>f, <2>7, FrameByOp DEF GoneFail, GoneFrames
      <4> QED
        BY <2>2, <4>1, <4>2
    <3>2. EventsKeep(kind)
      BY <2>3, <2>4, <2>7, <3>1 DEF GoneFail
    <3> QED
      BY <2>1, <3>2, UnchangedKeeps DEF Keeps, MailKeeps
  <2> QED
    BY <1>4, <2>5, <2>6, <2>7
<1>5. CASE TakeDispatch /\ kind # "started"
  <2> DEFINE m == [kind |-> "started", id |-> Head(work[agent.socket])]
  <2>1. Says(m) /\ m.kind # kind /\ agent.socket # None
    BY <1>5 DEF TakeDispatch
  <2> HIDE DEF m
  <2>2. InboxKeeps(kind)
    BY <2>1, SaysKeeps
  <2> QED
    BY <1>5, <2>2 DEF TakeDispatch, Keeps, EventsKeep, MailKeeps
<1>6. CASE Finish /\ kind # "finished"
  <2> DEFINE m == [kind |-> "finished", id |-> agent.id]
  <2>1. Says(m) /\ m.kind # kind /\ agent.socket # None
    BY <1>6 DEF Finish, SocketsFit
  <2> HIDE DEF m
  <2>2. InboxKeeps(kind)
    BY <2>1, SaysKeeps
  <2> QED
    BY <1>6, <2>2 DEF Finish, Keeps, EventsKeep, MailKeeps
<1>7. CASE HearStarted \/ HearFinished
  <2>1. run' = run /\ inbox' = inbox
    BY <1>7 DEF HearStarted, HearFinished
  <2>2. MailKeeps(kind)
    <3>1. \E m : Hears(m)
      BY <1>7 DEF HearStarted, HearFinished
    <3>2. \E S : mail' = [mail EXCEPT ![agent.socket] = mail[agent.socket] \ S]
      BY <3>1 DEF Hears
    <3> QED
      BY <3>2 DEF MailKeeps, TypeOK
  <2> QED
    BY <2>1, <2>2, UnchangedKeeps DEF Keeps, EventsKeep
<1>8. CASE Leave
  <2>1. run' = run /\ inbox' = inbox
    BY <1>8 DEF Leave
  <2>2. MailKeeps(kind)
    BY <1>8 DEF Leave, MailKeeps, TypeOK
  <2> QED
    BY <2>1, <2>2, UnchangedKeeps DEF Keeps, EventsKeep
<1>9. CASE Connect
  <2>1. run' = run /\ mail' = mail
    BY <1>9 DEF Connect
  <2>2. PICK s \in Sockets : inbox' = [inbox EXCEPT ![s] = <<[kind |-> "ready"]>>]
    BY <1>9 DEF Connect
  <2>3. InboxKeeps(kind)
    <3> SUFFICES ASSUME NEW t \in Sockets
                 PROVE  \E k \in {0, 1} : \A i \in DOMAIN inbox'[t] : inbox'[t][i].kind = kind =>
                           i + k \in DOMAIN inbox[t] /\ inbox[t][i + k] = inbox'[t][i]
      BY DEF InboxKeeps
    <3>1. CASE t = s
      <4>1. inbox'[t] = <<[kind |-> "ready"]>>
        BY <2>2, <3>1 DEF TypeOK
      <4>2. \A i \in DOMAIN inbox'[t] : inbox'[t][i].kind # kind
        BY <4>1 DEF Kinds
      <4> QED
        BY <4>2
    <3>2. CASE t # s
      <4>1. inbox'[t] = inbox[t]
        BY <2>2, <3>2 DEF TypeOK
      <4> QED
        BY <4>1, SameInbox
    <3> QED
      BY <3>1, <3>2
  <2> QED
    BY <2>1, <2>3 DEF Keeps, EventsKeep, MailKeeps
<1> QED
  BY <1>1, <1>2, <1>3, <1>4, <1>5, <1>6, <1>7, <1>8, <1>9

\* So a kind of messages is kept, or the step is about one of them.
LEMMA KindKeeps ==
    ASSUME TypeOK, FramesFit, SocketsFit, [Next]_vars, NEW kind \in Kinds
    PROVE  \/ Keeps(kind)
           \/ \E w \in Handlers : \/ \E s \in Sockets : EventBegin(w, s, kind)
                                  \/ (EventRecord(w) \/ EventAnswer(w)) /\ run[w].kind = kind
           \/ TakeDispatch /\ kind = "started"
           \/ Finish /\ kind = "finished"
BY QuietKeeps, OtherKeeps DEF AllKept

\* What the connector does and has begun changes only by its own steps.
LEMMA AgentStep ==
    ASSUME TypeOK, FramesFit, [Next]_vars
    PROVE  AgentKeeps \/ TakeDispatch \/ HearStarted \/ Finish \/ HearFinished \/ Connect \/ Leave
<1>1. ASSUME NEW w \in Handlers,
             \/ \E s \in Sockets, kind \in Kinds : EventBegin(w, s, kind)
             \/ EventRecord(w) \/ EventAnswer(w) \/ Lease(w) \/ Send(w) \/ GoneFail(w)
      PROVE  AgentKeeps
  BY <1>1 DEF AgentKeeps, EventBegin, EventRecord, EventAnswer, Lease, Send, GoneFail
<1> QED
  BY <1>1, QuietKeeps DEF AllKept

\* A command starts and succeeds by its events only, and what has ended stays so.
LEMMA RowStep ==
    ASSUME TypeOK, FramesFit, [Next]_vars, NEW c \in Commands
    PROVE  /\ command[c].state \in Ended => command'[c].state = command[c].state
           /\ command[c].state = "running" => command'[c].state \in Started
           /\ command'[c].state = "running" /\ command[c].state # "running" =>
                /\ command[c].state = "leased"
                /\ \E w \in Handlers : EventRecord(w) /\ run[w].kind = "started" /\ run[w].id = c
           /\ command'[c].state = "succeeded" /\ command[c].state # "succeeded" =>
                \E w \in Handlers : EventRecord(w) /\ run[w].kind = "finished" /\ run[w].id = c
<1>f. \A w \in Handlers : run[w] \in Frames
  BY DEF TypeOK
<1>1. CASE RowsKeep
  BY <1>1 DEF RowsKeep, Started, Ended
<1>2. ASSUME NEW w \in Handlers, EventRecord(w)
      PROVE  \/ command'[c] = command[c]
             \/ /\ run[w].id = c /\ command[c].state \in {"leased", "running"}
                /\ run[w].kind = "started" /\ command'[c].state = "running"
             \/ /\ run[w].id = c /\ command[c].state \in {"leased", "running"}
                /\ run[w].kind = "finished" /\ command'[c].state = "succeeded"
  <2> DEFINE f == run[w]
  <2>1. f.id \in Commands /\ f.kind \in {"started", "finished"}
    BY <1>f, <1>2, FrameByOp DEF EventRecord, EventFrames
  <2>2. \/ command' = command
        \/ /\ command[f.id].state \in {"leased", "running"}
           /\ command' = [command EXCEPT ![f.id].state =
                            IF f.kind = "started" THEN "running" ELSE "succeeded"]
    BY <1>2 DEF EventRecord, Accepts, Active
  <2>3. command[c] \in CommandRows
    BY DEF TypeOK
  <2> QED
    BY <2>1, <2>2, <2>3 DEF TypeOK, CommandRows
<1>3. ASSUME NEW w \in Handlers, GoneFail(w)
      PROVE  \/ command'[c] = command[c]
             \/ command[c].state \in {"leased", "running"} /\ command'[c].state = "failed"
  BY <1>3 DEF GoneFail, Active, TypeOK
<1>4. ASSUME NEW w \in Handlers, Lease(w)
      PROVE  \/ command'[c] = command[c]
             \/ command[c].state \in {"pending", "leased"} /\ command'[c].state = "leased"
  BY <1>4 DEF Lease, Leasable, TypeOK
<1>5. CASE command' = command
  BY <1>5 DEF Started, Ended
<1>6. CASE \E w \in Handlers : EventRecord(w)
  BY <1>2, <1>6 DEF Started, Ended
<1>7. CASE \E w \in Handlers : GoneFail(w) \/ Lease(w)
  BY <1>3, <1>4, <1>7 DEF Started, Ended
<1>8. \/ RowsKeep \/ command' = command
      \/ \E w \in Handlers : EventRecord(w) \/ GoneFail(w) \/ Lease(w)
  <2>1. ASSUME NEW w \in Handlers,
               (\E s \in Sockets, kind \in Kinds : EventBegin(w, s, kind)) \/ EventAnswer(w) \/ Send(w)
        PROVE  command' = command
    BY <2>1 DEF EventBegin, EventAnswer, Send
  <2>2. ASSUME TakeDispatch \/ HearStarted \/ Finish \/ HearFinished \/ Connect \/ Leave
        PROVE  command' = command
    BY <2>2 DEF TakeDispatch, HearStarted, Finish, HearFinished, Connect, Leave
  <2> QED
    BY <2>1, <2>2, QuietKeeps DEF AllKept
<1> QED
  BY <1>1, <1>5, <1>6, <1>7, <1>8

LEMMA StartedStays ==
    ASSUME TypeOK, FramesFit, [Next]_vars, NEW c \in Commands, command[c].state \in Started
    PROVE  command'[c].state \in Started
BY RowStep DEF Started, Ended

-----------------------------------------------------------------------------
(* There is one start at most on the socket in use.                        *)

\* What is left of the starts of a socket, or moves on, is still one at most.
LEMMA FewerStarts ==
    ASSUME TypeOK, TypeOK', OneStart, agent'.socket = agent.socket, agent.socket # None,
           NEW k \in {0, 1},
           \A i \in Sent' : i + k \in Sent
                            /\ inbox[agent.socket][i + k] = inbox'[agent.socket][i],
           \A w \in Taken' : w \in Taken /\ run'[w].id = run[w].id,
           \A m \in Heard' : m \in Heard,
           \/ agent'.doing = agent.doing /\ agent'.id = agent.id
           \/ agent.doing # "starting"
    PROVE  OneStart'
<1>1. Sent' \subseteq Nat
  <2>1. agent'.socket \in Sockets
    BY DEF TypeOK, Agents, OrNone
  <2>2. DOMAIN inbox'[agent'.socket] \subseteq Nat
    BY <2>1 DEF TypeOK
  <2> QED
    BY <2>2 DEF Sent
<1>2. \A i \in Sent' : agent'.doing = "starting" /\ inbox'[agent'.socket][i].id = agent'.id
  BY DEF OneStart
<1>3. \A w \in Taken' : agent'.doing = "starting" /\ run'[w].id = agent'.id
  BY DEF OneStart
<1>4. \A m \in Heard' : agent'.doing = "starting" /\ m.id = agent'.id
  BY DEF OneStart
<1>5. \A i, j \in Sent' : i = j
  <2> TAKE i, j \in Sent'
  <2>1. i + k = j + k
    BY DEF OneStart
  <2> QED
    BY <1>1, <2>1
<1>6. \A v, w \in Taken' : v = w
  BY DEF OneStart
<1>7. \A m, n \in Heard' : m = n
  BY DEF OneStart
<1>8. /\ Sent' = {} \/ Taken' = {}
      /\ Sent' = {} \/ Heard' = {}
      /\ Taken' = {} \/ Heard' = {}
  BY DEF OneStart
<1> QED
  BY <1>2, <1>3, <1>4, <1>5, <1>6, <1>7, <1>8 DEF OneStart

LEMMA OneStartKept ==
    ASSUME TypeOK, TypeOK', OneStart, Keeps("started"), agent'.socket = agent.socket,
           \/ agent'.doing = agent.doing /\ agent'.id = agent.id
           \/ agent.doing # "starting"
    PROVE  OneStart'
<1>1. CASE agent.socket = None
  BY <1>1 DEF OneStart
<1>2. CASE agent.socket # None
  <2> DEFINE S == agent.socket
  <2>1. S \in Sockets
    BY <1>2 DEF TypeOK, Agents, OrNone
  <2>2. PICK k \in {0, 1} : \A i \in DOMAIN inbox'[S] : inbox'[S][i].kind = "started" =>
          i + k \in DOMAIN inbox[S] /\ inbox[S][i + k] = inbox'[S][i]
    BY <2>1 DEF Keeps, InboxKeeps
  <2>3. \A i \in Sent' : i + k \in Sent /\ inbox[S][i + k] = inbox'[S][i]
    BY <2>2 DEF Sent
  <2>4. \A w \in Taken' : w \in Taken /\ run'[w].id = run[w].id
    BY DEF Keeps, EventsKeep, Taken, IsEvent
  <2>5. \A m \in Heard' : m \in Heard
    BY <2>1 DEF Keeps, MailKeeps, Heard
  <2> QED
    BY <1>2, <2>3, <2>4, <2>5, FewerStarts
<1> QED
  BY <1>1, <1>2

LEMMA OneStartEventBegin ==
    ASSUME TypeOK, TypeOK', OneStart, agent.socket # None,
           NEW w \in Handlers, NEW s \in Sockets, EventBegin(w, s, "started")
    PROVE  OneStart'
<1> DEFINE g == [op |-> "event", at |-> "record", socket |-> s, id |-> Head(inbox[s]).id,
                 kind |-> "started", accepted |-> FALSE]
           S == agent.socket
<1>1. /\ inbox[s] \in Seq(Messages) /\ inbox[s] # <<>> /\ Head(inbox[s]).kind = "started"
      /\ inbox' = [inbox EXCEPT ![s] = Tail(inbox[s])]
  BY DEF EventBegin, Takes, TypeOK
<1>2. /\ run' = [run EXCEPT ![w] = g] /\ agent' = agent /\ mail' = mail
      /\ run[w].op # "event"
  BY DEF EventBegin, Takes, Free
<1>3. g.op = "event" /\ g.kind = "started" /\ g.socket = s /\ g.id = Head(inbox[s]).id
  OBVIOUS
<1>s. S \in Sockets
  BY DEF TypeOK, Agents, OrNone
<1> HIDE DEF g
<1>4. Heard' = Heard
  BY <1>2 DEF Heard
<1>5. CASE s # S
  <2>1. Sent' = Sent /\ inbox'[S] = inbox[S]
    BY <1>1, <1>2, <1>5 DEF Sent, TypeOK
  <2>2. Taken' = Taken
    BY <1>2, <1>3, <1>5 DEF Taken, IsEvent, TypeOK
  <2>3. \A v \in Taken : run'[v].id = run[v].id
    BY <1>2 DEF Taken, IsEvent, TypeOK
  <2>4. \A i \in Sent' : i + 0 = i
    <3>1. DOMAIN inbox[S] \subseteq Nat
      BY <1>s DEF TypeOK
    <3> QED
      BY <2>1, <3>1 DEF Sent
  <2> QED
    BY <1>2, <1>4, <2>1, <2>2, <2>3, <2>4, FewerStarts
<1>6. CASE s = S
  <2>1. 1 \in Sent /\ inbox[S][1] = Head(inbox[s])
    BY <1>1, <1>6 DEF Sent
  <2>2. Taken = {} /\ Heard = {} /\ agent.doing = "starting" /\ Head(inbox[s]).id = agent.id
    BY <2>1 DEF OneStart
  <2>3. Sent' = {}
    <3>1. ASSUME NEW i \in Sent' PROVE FALSE
      <4>1. i \in DOMAIN Tail(inbox[S]) /\ Tail(inbox[S])[i].kind = "started"
        BY <1>1, <1>2, <1>6, <3>1 DEF Sent, TypeOK
      <4>2. i + 1 \in Sent /\ i \in Nat /\ i > 0
        BY <1>1, <1>6, <4>1 DEF Sent
      <4>3. i + 1 = 1
        BY <2>1, <4>2 DEF OneStart
      <4> QED
        BY <4>2, <4>3
    <3> QED
      BY <3>1
  <2>4. Taken' = {w}
    BY <1>2, <1>3, <1>6, <2>2 DEF Taken, IsEvent, TypeOK
  <2>5. run'[w].id = agent.id
    BY <1>2, <1>3, <2>2 DEF TypeOK
  <2> QED
    BY <1>2, <1>4, <2>2, <2>3, <2>4, <2>5 DEF OneStart
<1> QED
  BY <1>5, <1>6

LEMMA OneStartEventTurn ==
    ASSUME TypeOK, TypeOK', OneStart, agent.socket # None, NEW w \in Handlers,
           EventRecord(w) \/ EventAnswer(w), run[w].kind = "started"
    PROVE  OneStart'
<1> DEFINE f == run[w]
           S == agent.socket
<1>f. f \in EventFrames
  BY FrameByOp DEF TypeOK, EventRecord, EventAnswer
<1>s. S \in Sockets
  BY DEF TypeOK, Agents, OrNone
<1>1. inbox' = inbox /\ agent' = agent
  BY DEF EventRecord, EventAnswer
<1>2. \A i \in Sent' : i + 0 \in Sent /\ inbox[S][i + 0] = inbox'[S][i]
  <2>1. DOMAIN inbox[S] \subseteq Nat
    BY <1>s DEF TypeOK
  <2>2. \A i \in Sent : i + 0 = i
    BY <2>1 DEF Sent
  <2> QED
    BY <1>1, <2>2 DEF Sent
<1>3. CASE EventRecord(w)
  <2> DEFINE g == [[f EXCEPT !.at = "answer"] EXCEPT !.accepted = Accepts(f.id)]
  <2>1. run' = [run EXCEPT ![w] = g] /\ mail' = mail
    BY <1>3 DEF EventRecord, TypeOK
  <2>2. g.op = f.op /\ g.kind = f.kind /\ g.socket = f.socket /\ g.id = f.id
    BY <1>f DEF EventFrames
  <2> HIDE DEF g
  <2>3. \A v \in Taken' : v \in Taken /\ run'[v].id = run[v].id
    BY <1>1, <2>1, <2>2 DEF Taken, IsEvent, TypeOK
  <2>4. Heard' = Heard
    BY <1>1, <2>1 DEF Heard
  <2> QED
    BY <1>1, <1>2, <2>3, <2>4, FewerStarts
<1>4. CASE EventAnswer(w)
  <2> DEFINE m == [kind |-> f.kind, id |-> f.id, accepted |-> f.accepted]
  <2>1. run' = [run EXCEPT ![w] = Idle] /\ f.op = "event"
        /\ (mail' = mail \/ mail' = Mailed(f.socket, m))
    BY <1>4 DEF EventAnswer, End, Clears
  <2>2. m.id = f.id /\ m.kind = "started"
    OBVIOUS
  <2> HIDE DEF m
  <2>3. \A v \in Taken' : v \in Taken /\ v # w /\ run'[v].id = run[v].id
    BY <1>1, <2>1 DEF Taken, IsEvent, Idle, TypeOK
  <2>4. CASE Heard' \subseteq Heard
    BY <1>1, <1>2, <2>3, <2>4, FewerStarts
  <2>5. CASE f.socket = S /\ Heard' \subseteq Heard \cup {m}
    <3>1. w \in Taken
      BY <2>1, <2>5 DEF Taken, IsEvent
    <3>2. Sent = {} /\ Heard = {} /\ Taken = {w} /\ agent.doing = "starting" /\ f.id = agent.id
      BY <3>1 DEF OneStart
    <3>3. Taken' = {}
      BY <2>3, <3>2
    <3>4. Sent' = {}
      BY <1>2, <3>2
    <3>5. \A n \in Heard' : n = m
      BY <2>5, <3>2
    <3> QED
      BY <1>1, <2>2, <3>2, <3>3, <3>4, <3>5 DEF OneStart
  <2>6. CASE ~(Heard' \subseteq Heard)
    <3>1. mail' = Mailed(f.socket, m)
      BY <1>1, <2>1, <2>6 DEF Heard
    <3>2. f.socket = S
      BY <1>1, <1>f, <1>s, <2>6, <3>1, MailedElsewhere DEF Heard, Mailed, Left
    <3>3. Heard' \subseteq Heard \cup {m}
      BY <1>1, <1>s, <3>1, <3>2 DEF Heard, Mailed, TypeOK
    <3> QED
      BY <2>5, <3>2, <3>3
  <2> QED
    BY <2>4, <2>6
<1> QED
  BY <1>3, <1>4

LEMMA OneStartAgent ==
    ASSUME TypeOK, TypeOK', FramesFit, SocketsFit, OneStart,
           TakeDispatch \/ HearStarted \/ Connect
    PROVE  OneStart'
<1>n. None \notin Sockets
  BY AgentSocketsAssumption DEF Sockets
<1> DEFINE S == agent.socket
<1>1. CASE TakeDispatch
  <2> DEFINE c == Head(work[S])
             m == [kind |-> "started", id |-> c]
  <2>1. /\ S # None /\ S \in Sockets /\ agent.doing = "reading"
        /\ run' = run /\ mail' = mail
        /\ agent' = [agent EXCEPT !.doing = "starting", !.id = c]
        /\ inbox' = [inbox EXCEPT ![S] = Append(inbox[S], m)]
    BY <1>1 DEF TakeDispatch, Says, TypeOK, Agents, OrNone
  <2>2. agent'.socket = S /\ agent'.doing = "starting" /\ agent'.id = c
    BY <2>1 DEF TypeOK, Agents
  <2>3. Sent = {} /\ Taken = {} /\ Heard = {}
    BY <2>1 DEF OneStart
  <2>4. Taken' = {} /\ Heard' = {}
    BY <2>1, <2>2, <2>3 DEF Taken, Heard, IsEvent
  <2>5. m.id = c
    OBVIOUS
  <2> HIDE DEF m, c
  <2>6. \A i \in Sent' : i = Len(inbox[S]) + 1 /\ inbox'[S][i] = m
    <3>1. inbox[S] \in Seq(Messages) /\ inbox'[S] = Append(inbox[S], m)
      BY <2>1 DEF TypeOK
    <3>2. ASSUME NEW i \in Sent' PROVE i = Len(inbox[S]) + 1
      <4>1. i \in 1 .. Len(inbox[S]) + 1 /\ Append(inbox[S], m)[i].kind = "started"
        BY <2>2, <3>1, <3>2 DEF Sent
      <4>2. i \in 1 .. Len(inbox[S]) => i \in Sent
        BY <3>1, <4>1 DEF Sent
      <4> QED
        BY <2>3, <3>1, <4>1, <4>2
    <3> QED
      BY <3>1, <3>2
  <2> QED
    BY <2>2, <2>4, <2>5, <2>6 DEF OneStart
<1>2. CASE HearStarted
  <2>1. PICK b \in BOOLEAN : Hears([kind |-> "started", id |-> agent.id, accepted |-> b])
    BY <1>2 DEF HearStarted
  <2> DEFINE m == [kind |-> "started", id |-> agent.id, accepted |-> b]
  <2>2. m.kind = "started"
    OBVIOUS
  <2> HIDE DEF m
  <2>3. /\ S # None /\ S \in Sockets /\ m \in mail[S] /\ mail' = [mail EXCEPT ![S] = mail[S] \ {m}]
    BY <2>1 DEF Hears, m, TypeOK, Agents, OrNone
  <2>4. run' = run /\ inbox' = inbox /\ agent'.socket = S
    BY <1>2 DEF HearStarted, TypeOK, Agents
  <2>5. m \in Heard
    BY <2>2, <2>3 DEF Heard
  <2>6. Sent = {} /\ Taken = {} /\ Heard = {m}
    BY <2>3, <2>5 DEF OneStart
  <2>7. Sent' = {} /\ Taken' = {}
    BY <2>4, <2>6 DEF Sent, Taken, IsEvent
  <2>8. Heard' = {}
    BY <2>3, <2>4, <2>6 DEF Heard, TypeOK
  <2> QED
    BY <2>7, <2>8 DEF OneStart
<1>3. CASE Connect
  <2>1. PICK s \in Sockets :
          /\ socket[s].phase = "new"
          /\ inbox' = [inbox EXCEPT ![s] = <<[kind |-> "ready"]>>]
          /\ agent' = [Away EXCEPT !.socket = s]
    BY <1>3 DEF Connect
  <2>2. agent'.socket = s /\ agent.socket = None /\ run' = run /\ mail' = mail
    BY <1>3, <2>1 DEF Connect, Away
  <2>3. Taken' = {}
    BY <2>1, <2>2 DEF Taken, IsEvent, FramesFit
  <2>4. Heard' = {}
    BY <1>n, <2>2 DEF Heard, SocketsFit
  <2>5. Sent' = {}
    <3>1. inbox'[s] = <<[kind |-> "ready"]>>
      BY <2>1 DEF TypeOK
    <3>2. \A i \in DOMAIN inbox'[s] : inbox'[s][i].kind = "ready"
      BY <3>1
    <3> QED
      BY <2>2, <3>2 DEF Sent
  <2> QED
    BY <2>3, <2>4, <2>5 DEF OneStart
<1> QED
  BY <1>1, <1>2, <1>3

LEMMA OneStartStep ==
    ASSUME TypeOK, TypeOK', FramesFit, SocketsFit, OneStart, [Next]_vars
    PROVE  OneStart'
<1>1. CASE TakeDispatch \/ HearStarted \/ Connect
  BY <1>1, OneStartAgent
<1>2. CASE Leave
  BY <1>2 DEF Leave, Away, OneStart
<1>3. CASE AgentKeeps \/ Finish \/ HearFinished
  <2>1. /\ agent'.socket = agent.socket
        /\ \/ agent'.doing = agent.doing /\ agent'.id = agent.id
           \/ agent.doing # "starting"
    BY <1>3 DEF AgentKeeps, Finish, HearFinished, TypeOK, Agents
  <2>2. CASE Keeps("started")
    BY <2>1, <2>2, OneStartKept
  <2>3. CASE agent.socket = None
    BY <2>1, <2>3 DEF OneStart
  <2>4. ASSUME agent.socket # None, NEW w \in Handlers,
               \/ \E s \in Sockets : EventBegin(w, s, "started")
               \/ (EventRecord(w) \/ EventAnswer(w)) /\ run[w].kind = "started"
        PROVE  OneStart'
    BY <2>4, OneStartEventBegin, OneStartEventTurn
  <2>5. "started" \in Kinds
    BY DEF Kinds
  <2> QED
    BY <1>1, <2>2, <2>3, <2>4, <2>5, KindKeeps
<1> QED
  BY <1>1, <1>2, <1>3, AgentStep

-----------------------------------------------------------------------------
(* What was accepted has started, and what is reported ended has ended.    *)

\* The frames and the mail of a kind after the step of an event.
LEMMA EventTurn ==
    ASSUME TypeOK, NEW w \in Handlers, NEW kind \in Kinds,
           \/ \E s \in Sockets : EventBegin(w, s, kind)
           \/ (EventRecord(w) \/ EventAnswer(w)) /\ run[w].kind = kind
    PROVE  /\ \A v \in Handlers \ {w} : run'[v] = run[v]
           /\ \/ \E s \in Sockets :
                   /\ inbox[s] # << >> /\ Head(inbox[s]).kind = kind
                   /\ IsEvent(w, kind)' /\ run'[w].at = "record" /\ run'[w].socket = s
                   /\ run'[w].id = Head(inbox[s]).id
                   /\ mail' = mail /\ run[w].op = "idle"
              \/ /\ EventRecord(w) /\ IsEvent(w, kind) /\ IsEvent(w, kind)'
                 /\ run'[w].at = "answer" /\ run'[w].accepted = Accepts(run[w].id)
                 /\ run'[w].id = run[w].id /\ run'[w].socket = run[w].socket /\ mail' = mail
              \/ /\ EventAnswer(w) /\ IsEvent(w, kind) /\ run[w].at = "answer" /\ run'[w].op # "event"
                 /\ \A s \in Sockets : \A m \in mail'[s] :
                      m \in mail[s] \/ m = [kind |-> kind, id |-> run[w].id, accepted |-> run[w].accepted]
<1> DEFINE f == run[w]
<1>f. f \in Frames
  BY DEF TypeOK
<1>1. ASSUME NEW s \in Sockets, EventBegin(w, s, kind)
      PROVE  /\ \A v \in Handlers \ {w} : run'[v] = run[v]
             /\ inbox[s] # << >> /\ Head(inbox[s]).kind = kind
             /\ IsEvent(w, kind)' /\ run'[w].at = "record" /\ run'[w].socket = s
             /\ run'[w].id = Head(inbox[s]).id
             /\ mail' = mail /\ run[w].op = "idle"
  <2> DEFINE g == [op |-> "event", at |-> "record", socket |-> s, id |-> Head(inbox[s]).id,
                   kind |-> kind, accepted |-> FALSE]
  <2>1. run' = [run EXCEPT ![w] = g]
    BY <1>1 DEF EventBegin
  <2>2. /\ g.op = "event" /\ g.kind = kind /\ g.at = "record" /\ g.socket = s
        /\ g.id = Head(inbox[s]).id
    OBVIOUS
  <2> HIDE DEF g
  <2>3. run'[w] = g /\ \A v \in Handlers \ {w} : run'[v] = run[v]
    BY <2>1 DEF TypeOK
  <2> QED
    BY <1>1, <2>2, <2>3 DEF EventBegin, Takes, Free, IsEvent
<1>2. ASSUME EventRecord(w), f.kind = kind
      PROVE  /\ \A v \in Handlers \ {w} : run'[v] = run[v]
             /\ IsEvent(w, kind) /\ IsEvent(w, kind)'
             /\ run'[w].at = "answer" /\ run'[w].accepted = Accepts(run[w].id)
             /\ run'[w].id = run[w].id /\ run'[w].socket = run[w].socket /\ mail' = mail
  <2> DEFINE g == [[f EXCEPT !.at = "answer"] EXCEPT !.accepted = Accepts(f.id)]
  <2>1. run' = [run EXCEPT ![w] = g] /\ f.op = "event"
    BY <1>2 DEF EventRecord, TypeOK
  <2>2. /\ g.op = "event" /\ g.kind = kind /\ g.at = "answer" /\ g.socket = f.socket
        /\ g.id = f.id /\ g.accepted = Accepts(f.id)
    BY <1>f, <1>2, <2>1, FrameByOp DEF EventFrames
  <2> HIDE DEF g
  <2>3. run'[w] = g /\ \A v \in Handlers \ {w} : run'[v] = run[v]
    BY <2>1 DEF TypeOK
  <2> QED
    BY <1>2, <2>1, <2>2, <2>3 DEF EventRecord, IsEvent
<1>3. ASSUME EventAnswer(w), f.kind = kind
      PROVE  /\ \A v \in Handlers \ {w} : run'[v] = run[v]
             /\ IsEvent(w, kind) /\ f.at = "answer" /\ run'[w].op # "event"
             /\ \A s \in Sockets : \A m \in mail'[s] :
                  m \in mail[s] \/ m = [kind |-> kind, id |-> f.id, accepted |-> f.accepted]
  <2> DEFINE n == [kind |-> f.kind, id |-> f.id, accepted |-> f.accepted]
  <2>1. \/ run' = [run EXCEPT ![w] = Idle]
        \/ \E a : run' = [run EXCEPT ![w] = DispatchOn(f.socket, a)]
    BY <1>3 DEF EventAnswer, End
  <2>2. Idle.op # "event" /\ \A a : DispatchOn(f.socket, a).op # "event"
    BY DEF Idle, DispatchOn, Dispatch
  <2>3. mail' = mail \/ mail' = Mailed(f.socket, n)
    BY <1>3 DEF EventAnswer
  <2> HIDE DEF n
  <2>4. \A s \in Sockets : mail'[s] \subseteq mail[s] \cup {n}
    BY <2>3, MailedAdds
  <2>5. run'[w].op # "event" /\ \A v \in Handlers \ {w} : run'[v] = run[v]
    BY <2>1, <2>2 DEF TypeOK
  <2> QED
    BY <1>3, <2>4, <2>5 DEF EventAnswer, IsEvent, n
<1> QED
  BY <1>1, <1>2, <1>3

LEMMA AcceptedStep ==
    ASSUME TypeOK, TypeOK', FramesFit, SocketsFit, AcceptedHasStarted, [Next]_vars
    PROVE  AcceptedHasStarted'
<1>s. "started" \in Kinds
  BY DEF Kinds
<1>c. \A c \in Commands : command[c].state \in Started => command'[c].state \in Started
  BY StartedStays
<1>f. ASSUME NEW w \in Handlers, run[w].op = "event"
      PROVE  run[w].id \in Commands /\ run[w].accepted \in BOOLEAN
  BY <1>f, FrameByOp DEF TypeOK, EventFrames
<1>m. ASSUME NEW s \in Sockets, NEW m \in mail[s], m.kind = "started"
      PROVE  m.id \in Commands
  <2>1. m \in Mail
    BY DEF TypeOK
  <2> QED
    BY <1>m, <2>1 DEF Mail
<1> DEFINE FrameFits(v) == IsEvent(v, "started")' /\ run'[v].at = "answer" /\ run'[v].accepted
                             => command'[run'[v].id].state \in Started
           MailFits(s) == \A m \in mail'[s] : m.kind = "started" /\ m.accepted
                             => command'[m.id].state \in Started
<1>o. ASSUME NEW v \in Handlers, run'[v] = run[v] PROVE FrameFits(v)
  BY <1>c, <1>f, <1>o DEF AcceptedHasStarted, IsEvent
<1>p. ASSUME NEW s \in Sockets, NEW m \in mail'[s], m \in mail[s], m.kind = "started", m.accepted
      PROVE  command'[m.id].state \in Started
  BY <1>c, <1>m, <1>p DEF AcceptedHasStarted
<1>1. (\A v \in Handlers : FrameFits(v)) /\ \A s \in Sockets : MailFits(s)
  <2>1. CASE Keeps("started")
    <3>1. \A v \in Handlers : FrameFits(v)
      BY <1>o, <2>1 DEF Keeps, EventsKeep, IsEvent
    <3>2. \A s \in Sockets : MailFits(s)
      BY <1>p, <2>1 DEF Keeps, MailKeeps
    <3> QED
      BY <3>1, <3>2
  <2>2. CASE TakeDispatch
    <3>1. run' = run /\ mail' = mail
      BY <2>2 DEF TakeDispatch
    <3> QED
      BY <1>o, <1>p, <3>1
  <2>3. ASSUME NEW w \in Handlers,
               \/ \E s \in Sockets : EventBegin(w, s, "started")
               \/ (EventRecord(w) \/ EventAnswer(w)) /\ run[w].kind = "started"
        PROVE  (\A v \in Handlers : FrameFits(v)) /\ \A s \in Sockets : MailFits(s)
    <3>1. \A v \in Handlers \ {w} : FrameFits(v)
      BY <1>o, <1>s, <2>3, EventTurn
    <3>2. CASE IsEvent(w, "started")' /\ run'[w].at = "record" /\ mail' = mail
      <4>1. FrameFits(w)
        BY <3>2
      <4> QED
        BY <1>p, <3>1, <3>2, <4>1
    <3>3. CASE /\ EventRecord(w) /\ IsEvent(w, "started") /\ mail' = mail
               /\ run'[w].accepted = Accepts(run[w].id) /\ run'[w].id = run[w].id
      <4>1. FrameFits(w)
        <5>1. ASSUME Accepts(run[w].id) PROVE command'[run[w].id].state = "running"
          <6>1. run[w].id \in Commands
            BY <1>f, <3>3 DEF IsEvent
          <6>2. command' = [command EXCEPT ![run[w].id].state = "running"]
            BY <3>3, <5>1 DEF EventRecord, IsEvent
          <6> QED
            BY <6>1, <6>2 DEF TypeOK, CommandRows
        <5> QED
          BY <3>3, <5>1 DEF Started
      <4> QED
        BY <1>p, <3>1, <3>3, <4>1
    <3>4. CASE /\ EventAnswer(w) /\ IsEvent(w, "started") /\ run[w].at = "answer"
               /\ run'[w].op # "event"
               /\ \A s \in Sockets : \A m \in mail'[s] :
                    m \in mail[s]
                    \/ m = [kind |-> "started", id |-> run[w].id, accepted |-> run[w].accepted]
      <4>1. FrameFits(w)
        BY <3>4 DEF IsEvent
      <4>2. run[w].accepted => command'[run[w].id].state \in Started
        BY <1>c, <1>f, <3>4 DEF AcceptedHasStarted, IsEvent
      <4>3. \A s \in Sockets : MailFits(s)
        BY <1>p, <3>4, <4>2
      <4> QED
        BY <3>1, <4>1, <4>3
    <3> QED
      BY <1>s, <2>3, <3>2, <3>3, <3>4, EventTurn
  <2> QED
    BY <1>s, <2>1, <2>2, <2>3, KindKeeps
<1>2. ASSUME NEW c \in Commands, begun'[c] > 0 PROVE command'[c].state \in Started
  <2>1. CASE HearStarted
    <3>1. PICK b \in BOOLEAN :
            /\ Hears([kind |-> "started", id |-> agent.id, accepted |-> b])
            /\ b = TRUE => begun' = [begun EXCEPT ![agent.id] = @ + 1]
            /\ b = FALSE => begun' = begun
      BY <2>1 DEF HearStarted, Begins
    <3>2. CASE begun'[c] = begun[c]
      BY <1>2, <1>c, <3>2 DEF AcceptedHasStarted
    <3>3. CASE begun'[c] # begun[c]
      <4>1. b = TRUE /\ c = agent.id
        BY <3>1, <3>3 DEF TypeOK
      <4> DEFINE m == [kind |-> "started", id |-> c, accepted |-> TRUE]
      <4>2. m \in mail[agent.socket] /\ agent.socket \in Sockets
        BY <3>1, <4>1 DEF Hears, TypeOK, Agents, OrNone
      <4>3. m.kind = "started" /\ m.accepted /\ m.id = c
        OBVIOUS
      <4> HIDE DEF m
      <4> QED
        BY <1>c, <4>2, <4>3 DEF AcceptedHasStarted
    <3> QED
      BY <3>2, <3>3
  <2>2. CASE begun' = begun
    BY <1>2, <1>c, <2>2 DEF AcceptedHasStarted
  <2> QED
    BY <2>1, <2>2, AgentStep
       DEF AgentKeeps, TakeDispatch, Finish, HearFinished, Connect, Leave
<1> QED
  BY <1>1, <1>2 DEF AcceptedHasStarted

LEMMA HearStartedIs ==
    ASSUME TypeOK, SocketsFit, HearStarted
    PROVE  /\ agent.socket \in Sockets /\ agent.id \in Commands /\ agent.doing = "starting"
           /\ agent'.socket = agent.socket
           /\ \/ /\ Accepted(agent.id) /\ agent'.doing = "executing" /\ agent'.id = agent.id
                 /\ begun' = [begun EXCEPT ![agent.id] = begun[agent.id] + 1]
              \/ agent'.doing = "reading" /\ begun' = begun
<1>t. agent \in Agents
  BY DEF TypeOK
<1>1. PICK b \in BOOLEAN :
        /\ Hears([kind |-> "started", id |-> agent.id, accepted |-> b])
        /\ IF b THEN /\ agent' = [agent EXCEPT !.doing = "executing"]
                     /\ begun' = [begun EXCEPT ![agent.id] = @ + 1]
                ELSE /\ agent' = [agent EXCEPT !.doing = "reading", !.id = None]
                     /\ begun' = begun
  BY DEF HearStarted, Begins
<1>2. agent.socket \in Sockets /\ agent.id \in Commands /\ agent.doing = "starting"
  BY <1>t, <1>1 DEF HearStarted, Hears, SocketsFit, Agents, OrNone
<1>3. agent'.socket = agent.socket
  BY <1>t, <1>1 DEF Agents
<1>4. CASE b
  <2> DEFINE m == [kind |-> "started", id |-> agent.id, accepted |-> TRUE]
  <2>1. m \in mail[agent.socket]
    BY <1>1, <1>4 DEF Hears
  <2>2. m.kind = "started" /\ m.id = agent.id /\ m.accepted
    OBVIOUS
  <2> HIDE DEF m
  <2>3. Accepted(agent.id)
    BY <2>1, <2>2 DEF Accepted, Heard
  <2> QED
    BY <1>t, <1>1, <1>2, <1>3, <1>4, <2>3 DEF Agents
<1>5. CASE ~b
  BY <1>t, <1>1, <1>2, <1>3, <1>5 DEF Agents
<1> QED
  BY <1>4, <1>5

\* What has begun begins no more.
LEMMA BegunIsNotStarted ==
    ASSUME TypeOK, SocketsFit, BeginsOnce, HearStarted, begun' # begun
    PROVE  begun[agent.id] = 0
<1>1. Accepted(agent.id) /\ agent.id \in Commands /\ agent.socket # None /\ agent.doing = "starting"
  BY HearStartedIs, AgentSocketsAssumption DEF Sockets
<1>2. ~(begun[agent.id] > 0)
  BY <1>1 DEF BeginsOnce
<1> QED
  BY <1>1, <1>2 DEF TypeOK

\* Reported, after the step.
ReportedNext(c) == begun'[c] > 0 /\ ~(agent'.doing = "executing" /\ agent'.id = c)

LEMMA ReportedStays ==
    ASSUME TypeOK, FramesFit, SocketsFit, BeginsOnce, [Next]_vars,
           NEW c \in Commands, Reported(c)
    PROVE  ReportedNext(c)
<1>t. agent \in Agents /\ begun[c] \in Nat
  BY DEF TypeOK
<1>1. CASE AgentKeeps
  BY <1>1 DEF AgentKeeps, Reported, ReportedNext, Executing
<1>2. CASE TakeDispatch \/ Finish \/ HearFinished \/ Connect \/ Leave
  <2>1. agent'.doing # "executing"
    <3>1. CASE TakeDispatch \/ Finish
      BY <1>t, <3>1 DEF TakeDispatch, Finish, Agents
    <3>2. CASE HearFinished
      BY <1>t, <3>2 DEF HearFinished, Agents
    <3>3. CASE Connect \/ Leave
      BY <3>3 DEF Connect, Leave, Away
    <3> QED
      BY <1>2, <3>1, <3>2, <3>3
  <2>2. begun' = begun
    BY <1>2 DEF TakeDispatch, Finish, HearFinished, Connect, Leave
  <2> QED
    BY <2>1, <2>2 DEF Reported, ReportedNext
<1>3. CASE HearStarted
  <2>1. CASE begun' = begun /\ agent'.doing = "reading"
    BY <2>1 DEF Reported, ReportedNext, Executing
  <2>2. CASE begun' = [begun EXCEPT ![agent.id] = begun[agent.id] + 1] /\ agent'.id = agent.id
    <3>1. agent.id \in Commands
      BY <1>3, HearStartedIs
    <3>2. begun' # begun
      BY <2>2, <3>1 DEF TypeOK
    <3>3. c # agent.id
      BY <1>3, <3>2, BegunIsNotStarted DEF Reported
    <3> QED
      BY <2>2, <3>1, <3>3 DEF Reported, ReportedNext, TypeOK
  <2> QED
    BY <1>3, <2>1, <2>2, HearStartedIs
<1> QED
  BY <1>1, <1>2, <1>3, AgentStep

LEMMA EndsStep ==
    ASSUME TypeOK, TypeOK', FramesFit, SocketsFit, AcceptedHasStarted, BeginsOnce,
           EndsAreReported, [Next]_vars
    PROVE  EndsAreReported'
<1>k. "finished" \in Kinds
  BY DEF Kinds
<1>r. \A c \in Commands : Reported(c) => ReportedNext(c)
  BY ReportedStays
<1>e. \A c \in Commands : command[c].state \in Ended => command'[c].state \in Ended
  BY RowStep
<1>i. ASSUME NEW s \in Sockets, NEW i \in DOMAIN inbox[s], inbox[s][i].kind = "finished"
      PROVE  inbox[s][i].id \in Commands /\ Reported(inbox[s][i].id)
  <2>1. inbox[s][i] \in Messages
    BY DEF TypeOK
  <2> QED
    BY <1>i, <2>1 DEF EndsAreReported, Messages
<1>f. ASSUME NEW w \in Handlers, IsEvent(w, "finished")
      PROVE  run[w].id \in Commands /\ Reported(run[w].id)
  BY <1>f, FrameByOp DEF TypeOK, EventFrames, IsEvent, EndsAreReported
<1>m. ASSUME NEW s \in Sockets, NEW m \in mail[s], m.kind = "finished"
      PROVE  m.id \in Commands /\ command'[m.id].state \in Ended
  <2>1. m \in Mail
    BY DEF TypeOK
  <2>2. m.id \in Commands
    BY <1>m, <2>1 DEF Mail
  <2> QED
    BY <1>e, <1>m, <2>2 DEF EndsAreReported
<1>1. ASSUME NEW s \in Sockets, NEW i \in DOMAIN inbox'[s], inbox'[s][i].kind = "finished"
      PROVE  ReportedNext(inbox'[s][i].id)
  <2>1. CASE InboxKeeps("finished")
    <3>1. PICK k \in {0, 1} : i + k \in DOMAIN inbox[s] /\ inbox[s][i + k] = inbox'[s][i]
      BY <1>1, <2>1 DEF InboxKeeps
    <3> QED
      BY <1>1, <1>i, <1>r, <3>1
  <2>2. CASE Finish
    <3> DEFINE S == agent.socket
               m == [kind |-> "finished", id |-> agent.id]
    <3>1. S \in Sockets /\ agent.id \in Commands /\ inbox' = [inbox EXCEPT ![S] = Append(inbox[S], m)]
      BY <2>2 DEF Finish, Says, SocketsFit, TypeOK, Agents, OrNone
    <3>2. m.id = agent.id
      OBVIOUS
    <3> HIDE DEF m
    <3>3. inbox[s] \in Seq(Messages)
      BY DEF TypeOK
    <3>4. \/ i \in DOMAIN inbox[s] /\ inbox'[s][i] = inbox[s][i]
          \/ inbox'[s][i] = m
      <4>1. CASE s # S
        BY <3>1, <4>1 DEF TypeOK
      <4>2. CASE s = S
        <5>1. inbox'[s] = Append(inbox[s], m)
          BY <3>1, <4>2 DEF TypeOK
        <5>2. i \in 1 .. Len(inbox[s]) + 1
          BY <3>3, <5>1
        <5> QED
          BY <3>3, <5>1, <5>2
      <4> QED
        BY <4>1, <4>2
    <3>5. ReportedNext(agent.id)
      <4>1. begun[agent.id] = 1
        BY <2>2, <3>1 DEF Finish, BeginsOnce, Busy
      <4>2. begun' = begun /\ agent'.doing = "ending" /\ agent'.id = agent.id
        BY <2>2 DEF Finish, TypeOK, Agents
      <4> QED
        BY <4>1, <4>2 DEF ReportedNext
    <3>6. CASE inbox'[s][i] = m
      BY <3>2, <3>5, <3>6
    <3> QED
      BY <1>1, <1>i, <1>r, <3>4, <3>6
  <2>3. ASSUME NEW w \in Handlers, NEW t \in Sockets, EventBegin(w, t, "finished")
        PROVE  InboxKeeps("finished")
    BY <2>3, TakesKeeps DEF EventBegin
  <2>4. ASSUME NEW w \in Handlers, EventRecord(w) \/ EventAnswer(w)
        PROVE  InboxKeeps("finished")
    BY <2>4, UnchangedKeeps DEF EventRecord, EventAnswer
  <2> QED
    BY <1>k, <2>1, <2>2, <2>3, <2>4, KindKeeps DEF Keeps
<1> DEFINE FrameFits(v) == IsEvent(v, "finished")' =>
                             /\ ReportedNext(run'[v].id)
                             /\ run'[v].at = "answer" => command'[run'[v].id].state \in Ended
           MailFits(s) == \A m \in mail'[s] : m.kind = "finished" => command'[m.id].state \in Ended
<1>o. ASSUME NEW v \in Handlers, run'[v] = run[v] PROVE FrameFits(v)
  BY <1>e, <1>f, <1>o, <1>r DEF EndsAreReported, IsEvent
<1>2. (\A v \in Handlers : FrameFits(v)) /\ \A s \in Sockets : MailFits(s)
  <2>1. CASE Keeps("finished")
    <3>1. \A v \in Handlers : FrameFits(v)
      BY <1>o, <2>1 DEF Keeps, EventsKeep, IsEvent
    <3>2. \A s \in Sockets : MailFits(s)
      BY <1>m, <2>1 DEF Keeps, MailKeeps
    <3> QED
      BY <3>1, <3>2
  <2>2. CASE Finish
    <3>1. run' = run /\ mail' = mail
      BY <2>2 DEF Finish
    <3> QED
      BY <1>o, <1>m, <3>1
  <2>3. ASSUME NEW w \in Handlers,
               \/ \E s \in Sockets : EventBegin(w, s, "finished")
               \/ (EventRecord(w) \/ EventAnswer(w)) /\ run[w].kind = "finished"
        PROVE  (\A v \in Handlers : FrameFits(v)) /\ \A s \in Sockets : MailFits(s)
    <3>1. \A v \in Handlers \ {w} : FrameFits(v)
      BY <1>k, <1>o, <2>3, EventTurn
    <3>2. ASSUME NEW s \in Sockets, inbox[s] # << >>, Head(inbox[s]).kind = "finished",
                 run'[w].at = "record", run'[w].id = Head(inbox[s]).id, mail' = mail
          PROVE  FrameFits(w) /\ \A t \in Sockets : MailFits(t)
      <4>1. inbox[s] \in Seq(Messages)
        BY DEF TypeOK
      <4>2. 1 \in DOMAIN inbox[s] /\ inbox[s][1] = Head(inbox[s])
        BY <3>2, <4>1
      <4>3. ReportedNext(Head(inbox[s]).id) /\ Head(inbox[s]).id \in Commands
        BY <1>i, <1>r, <3>2, <4>2
      <4>4. FrameFits(w)
        BY <3>2, <4>3
      <4> QED
        BY <1>m, <3>2, <4>4
    <3>3. CASE /\ EventRecord(w) /\ IsEvent(w, "finished") /\ mail' = mail
               /\ run'[w].id = run[w].id
      <4> DEFINE c == run[w].id
      <4>1. c \in Commands /\ Reported(c) /\ ReportedNext(c)
        BY <1>f, <1>r, <3>3
      <4>2. command[c].state \in Started
        BY <4>1 DEF Reported, AcceptedHasStarted
      <4>3. command'[c].state \in Ended
        <5>1. CASE Active(c)
          <6>1. command' = [command EXCEPT ![c].state = "succeeded"]
            BY <3>3, <5>1 DEF EventRecord, Accepts, IsEvent
          <6> QED
            BY <4>1, <6>1 DEF TypeOK, CommandRows, Ended
        <5>2. CASE ~Active(c)
          BY <1>e, <4>1, <4>2, <5>2 DEF Active, Started, Ended
        <5> QED
          BY <5>1, <5>2
      <4>4. FrameFits(w)
        BY <3>3, <4>1, <4>3
      <4> QED
        BY <1>m, <3>1, <3>3, <4>4
    <3>4. CASE /\ EventAnswer(w) /\ IsEvent(w, "finished") /\ run[w].at = "answer"
               /\ run'[w].op # "event"
               /\ \A s \in Sockets : \A m \in mail'[s] :
                    m \in mail[s]
                    \/ m = [kind |-> "finished", id |-> run[w].id, accepted |-> run[w].accepted]
      <4>1. FrameFits(w)
        BY <3>4 DEF IsEvent
      <4>2. command'[run[w].id].state \in Ended
        BY <1>e, <1>f, <3>4 DEF EndsAreReported
      <4>3. \A s \in Sockets : MailFits(s)
        BY <1>m, <3>4, <4>2
      <4> QED
        BY <3>1, <4>1, <4>3
    <3> QED
      BY <1>k, <2>3, <3>1, <3>2, <3>3, <3>4, EventTurn
  <2> QED
    BY <1>k, <2>1, <2>2, <2>3, KindKeeps
<1>3. ASSUME NEW c \in Commands, command'[c].state = "succeeded"
      PROVE  ReportedNext(c)
  <2>1. CASE command[c].state = "succeeded"
    BY <1>r, <2>1 DEF EndsAreReported
  <2>2. CASE command[c].state # "succeeded"
    <3>1. PICK w \in Handlers : EventRecord(w) /\ run[w].kind = "finished" /\ run[w].id = c
      BY <1>3, <2>2, RowStep
    <3>2. IsEvent(w, "finished")
      BY <3>1 DEF EventRecord, IsEvent
    <3> QED
      BY <1>f, <1>r, <3>1, <3>2
  <2> QED
    BY <2>1, <2>2
<1> QED
  BY <1>1, <1>2, <1>3 DEF EndsAreReported, Reported, ReportedNext, Executing

-----------------------------------------------------------------------------
(* A command begins once.                                                  *)

LEMMA LeaseIs ==
    ASSUME TypeOK, NEW w \in Handlers, Lease(w)
    PROVE  /\ work' = work /\ agent' = agent /\ socket' = socket
           /\ \A v \in Handlers \ {w} : run'[v] = run[v]
           /\ \/ run'[w].op = "idle"
              \/ \E c \in Commands :
                    /\ Leasable(c) /\ command'[c].state = "leased"
                    /\ run'[w].op = "dispatch" /\ run'[w].at = "send"
                    /\ run'[w].socket = run[w].socket /\ run'[w].id = c
<1> DEFINE f == run[w]
<1>1. f \in DispatchFrames /\ f.op = "dispatch"
  BY FrameByOp DEF Lease, TypeOK
<1>2. work' = work /\ agent' = agent /\ socket' = socket
  BY DEF Lease
<1>3. CASE End(w)
  BY <1>2, <1>3 DEF End, Idle, TypeOK
<1>4. ASSUME NEW c \in Commands, Leasable(c),
             command' = [command EXCEPT ![c] = [state |-> "leased", expired |-> FALSE]],
             run' = [run EXCEPT ![w] = [[f EXCEPT !.at = "send"] EXCEPT !.id = c]]
      PROVE  /\ \A v \in Handlers \ {w} : run'[v] = run[v]
             /\ command'[c].state = "leased"
             /\ run'[w].op = "dispatch" /\ run'[w].at = "send"
             /\ run'[w].socket = run[w].socket /\ run'[w].id = c
  <2> DEFINE g == [[f EXCEPT !.at = "send"] EXCEPT !.id = c]
  <2>1. g.op = "dispatch" /\ g.at = "send" /\ g.socket = f.socket /\ g.id = c
    BY <1>1 DEF DispatchFrames
  <2>2. run'[w] = g /\ \A v \in Handlers \ {w} : run'[v] = run[v]
    BY <1>4 DEF TypeOK
  <2>3. command'[c].state = "leased"
    BY <1>4 DEF TypeOK
  <2> HIDE DEF g
  <2> QED
    BY <2>1, <2>2, <2>3
<1>5. \/ End(w)
      \/ \E c \in Commands :
           /\ Leasable(c)
           /\ command' = [command EXCEPT ![c] = [state |-> "leased", expired |-> FALSE]]
           /\ run' = [run EXCEPT ![w] = [[f EXCEPT !.at = "send"] EXCEPT !.id = c]]
  BY DEF Lease, Blocked, TypeOK
<1> QED
  BY <1>2, <1>3, <1>4, <1>5

LEMMA SendIs ==
    ASSUME TypeOK, FramesFit, NEW w \in Handlers, Send(w)
    PROVE  /\ SendsKeep /\ run[w].op = "dispatch" /\ run[w].at = "send"
           /\ run[w].socket \in Sockets /\ run[w].id \in Commands
           /\ agent' = agent /\ begun' = begun
           /\ \A v \in Handlers : run'[v] = run[v] \/ run'[v].op = "idle"
                                  \/ (run'[v].op = "dispatch" /\ run'[v].at = "release")
           /\ work' = work \/ /\ ~Left(run[w].socket) /\ Delivers(run[w].socket)
                              /\ work' = [work EXCEPT ![run[w].socket] =
                                            Append(work[run[w].socket], run[w].id)]
                              /\ socket' = [socket EXCEPT ![run[w].socket].active = @ \cup {run[w].id}]
<1> DEFINE f == run[w]
<1>1. f \in DispatchFrames /\ f.op = "dispatch" /\ f.at = "send"
  BY FrameByOp DEF Send, TypeOK
<1>2. f.socket \in Sockets /\ f.id \in Commands
  BY <1>1 DEF FramesFit, DispatchFrames, OrNone
<1>3. [f EXCEPT !.at = "release"].op = "dispatch" /\ [f EXCEPT !.at = "release"].at = "release"
  BY <1>1 DEF DispatchFrames
<1>4. run' = [run EXCEPT ![w] = Idle] \/ run' = [run EXCEPT ![w] = [f EXCEPT !.at = "release"]]
  BY DEF Send, End, Goto
<1>5. Idle.op = "idle"
  BY DEF Idle
<1>6. \A v \in Handlers : run'[v] = run[v] \/ run'[v].op = "idle"
                           \/ (run'[v].op = "dispatch" /\ run'[v].at = "release")
  BY <1>3, <1>4, <1>5 DEF TypeOK
<1>7. \A v \in Handlers \ {w} : run'[v] = run[v]
  BY <1>4 DEF TypeOK
<1>8. SendsKeep
  BY <1>6 DEF SendsKeep
<1>9. work' = work \/ /\ ~Left(f.socket) /\ Delivers(f.socket)
                      /\ work' = [work EXCEPT ![f.socket] = Append(work[f.socket], f.id)]
                      /\ socket' = [socket EXCEPT ![f.socket].active = @ \cup {f.id}]
  BY <1>2 DEF Send, TypeOK
<1> QED
  BY <1>1, <1>2, <1>6, <1>8, <1>9 DEF Send

\* Dispatches are leased, sent and taken.
LEMMA SendsStep ==
    ASSUME TypeOK, FramesFit, [Next]_vars
    PROVE  /\ SendsKeep \/ \E w \in Handlers : Lease(w)
           /\ work' = work \/ TakeDispatch \/ Leave \/ \E w \in Handlers : Send(w)
<1>f. \A w \in Handlers : run[w] \in Frames
  BY DEF TypeOK
<1>1. ASSUME NEW w \in Handlers, NEW s \in Sockets, NEW kind \in Kinds, EventBegin(w, s, kind)
      PROVE  SendsKeep /\ work' = work
  <2> DEFINE g == [op |-> "event", at |-> "record", socket |-> s, id |-> Head(inbox[s]).id,
                   kind |-> kind, accepted |-> FALSE]
  <2>1. run' = [run EXCEPT ![w] = g] /\ g.op = "event" /\ work' = work
    BY <1>1 DEF EventBegin
  <2> HIDE DEF g
  <2> QED
    BY <2>1, FrameKeeps
<1>2. ASSUME NEW w \in Handlers, EventRecord(w) PROVE SendsKeep /\ work' = work
  <2> DEFINE g == [[run[w] EXCEPT !.at = "answer"] EXCEPT !.accepted = Accepts(run[w].id)]
  <2>1. run' = [run EXCEPT ![w] = g] /\ work' = work
    BY <1>2 DEF EventRecord, TypeOK
  <2>2. g.op = "event"
    BY <1>f, <1>2, FrameByOp DEF EventRecord, EventFrames
  <2> HIDE DEF g
  <2> QED
    BY <2>1, <2>2, FrameKeeps
<1>3. ASSUME NEW w \in Handlers, EventAnswer(w) PROVE SendsKeep /\ work' = work
  <2> DEFINE s == run[w].socket
  <2>1. \/ run' = [run EXCEPT ![w] = Idle]
        \/ \E a : run' = [run EXCEPT ![w] = DispatchOn(s, a)]
    BY <1>3 DEF EventAnswer, End
  <2>2. ASSUME NEW g, run' = [run EXCEPT ![w] = g], ~(g.op = "dispatch" /\ g.at = "send")
        PROVE  SendsKeep
    BY <2>2, FrameKeeps
  <2>3. ~(Idle.op = "dispatch" /\ Idle.at = "send")
    BY DEF Idle
  <2>4. \A a : ~(DispatchOn(s, a).op = "dispatch" /\ DispatchOn(s, a).at = "send")
    BY DEF Idle, DispatchOn, Dispatch
  <2> QED
    BY <1>3, <2>1, <2>2, <2>3, <2>4 DEF EventAnswer
<1>4. ASSUME NEW w \in Handlers, GoneFail(w) PROVE SendsKeep /\ work' = work
  <2> DEFINE f == run[w]
  <2>1. f \in GoneFrames
    BY <1>f, <1>4, FrameByOp DEF GoneFail
  <2>2. ASSUME NEW g, run' = [run EXCEPT ![w] = g], g.op # "dispatch"
        PROVE  SendsKeep
    BY <2>2, FrameKeeps
  <2>3. Idle.op # "dispatch" /\ (\A at : [f EXCEPT !.at = at].op # "dispatch")
        /\ \A r : [f EXCEPT !.rest = r].op # "dispatch"
    BY <2>1 DEF Idle, GoneFrames
  <2>4. ASSUME End(w) \/ \E at : Goto(w, at) PROVE SendsKeep
    BY <2>2, <2>3, <2>4 DEF End, Goto
  <2>5. ASSUME NEW c, run' = [run EXCEPT ![w].rest = @ \ {c}] PROVE SendsKeep
    <3> DEFINE g == [f EXCEPT !.rest = f.rest \ {c}]
    <3>1. run' = [run EXCEPT ![w] = g] /\ g.op # "dispatch"
      BY <2>3, <2>5
    <3> HIDE DEF g
    <3> QED
      BY <2>2, <3>1
  <2>6. work' = work
    BY <1>4 DEF GoneFail
  <2> QED
    BY <1>4, <2>4, <2>5, <2>6 DEF GoneFail
<1>5. ASSUME TakeDispatch \/ HearStarted \/ Finish \/ HearFinished \/ Connect \/ Leave
      PROVE  SendsKeep /\ (work' = work \/ TakeDispatch \/ Leave)
  BY <1>5 DEF TakeDispatch, HearStarted, Finish, HearFinished, Connect, Leave, SendsKeep
<1>6. ASSUME NEW w \in Handlers, Lease(w) PROVE work' = work
  BY <1>6 DEF Lease
<1>7. ASSUME NEW w \in Handlers, Send(w) PROVE SendsKeep
  BY <1>7, SendIs
<1> QED
  BY <1>1, <1>2, <1>3, <1>4, <1>5, <1>6, <1>7, QuietKeeps DEF AllKept

\* A command is dispatched on the socket in use because it was, or by a lease.
LEMMA DispatchedStep ==
    ASSUME TypeOK, FramesFit, SocketsFit, [Next]_vars, ~Connect, ~Leave,
           agent.socket # None, NEW c \in Commands, Dispatched(c)'
    PROVE  Dispatched(c) \/ command'[c].state = "leased"
<1> DEFINE S == agent.socket
<1>s. S \in Sockets /\ agent'.socket = S
  BY MailStep DEF TypeOK, Agents, OrNone
<1>w. work[S] \in Seq(Commands)
  BY <1>s DEF TypeOK
<1>1. ASSUME NEW i \in DOMAIN work'[S], work'[S][i] = c PROVE Dispatched(c)
  <2>1. CASE work' = work
    BY <1>1, <2>1 DEF Dispatched
  <2>2. CASE TakeDispatch
    <3>1. work'[S] = Tail(work[S]) /\ work[S] # << >>
      BY <1>s, <2>2 DEF TakeDispatch, TypeOK
    <3>2. i + 1 \in DOMAIN work[S] /\ work[S][i + 1] = c
      BY <1>1, <1>w, <3>1
    <3> QED
      BY <3>2 DEF Dispatched
  <2>3. ASSUME NEW w \in Handlers, Send(w), work' # work PROVE Dispatched(c)
    <3> DEFINE f == run[w]
    <3>1. /\ f.socket \in Sockets /\ f.op = "dispatch" /\ f.at = "send"
          /\ work' = [work EXCEPT ![f.socket] = Append(work[f.socket], f.id)]
          /\ ~Left(f.socket)
      BY <2>3, SendIs
    <3>2. f.socket = S /\ work'[S] = Append(work[S], f.id)
      BY <3>1 DEF Left, TypeOK
    <3>3. CASE i \in DOMAIN work[S]
      <4>1. work[S][i] = c
        BY <1>1, <1>w, <3>2, <3>3
      <4> QED
        BY <3>3, <4>1 DEF Dispatched
    <3>4. CASE i \notin DOMAIN work[S]
      <4>1. f.id = c
        BY <1>1, <1>w, <3>2, <3>4
      <4> QED
        BY <3>1, <3>2, <4>1 DEF Dispatched
    <3> QED
      BY <3>3, <3>4
  <2> QED
    BY <2>1, <2>2, <2>3, SendsStep
<1>2. ASSUME NEW w \in Handlers, run'[w].op = "dispatch", run'[w].at = "send",
             run'[w].socket = S, run'[w].id = c
      PROVE  Dispatched(c) \/ command'[c].state = "leased"
  <2>1. CASE run'[w] = run[w]
    BY <1>2, <2>1 DEF Dispatched
  <2>2. ASSUME NEW v \in Handlers, Lease(v) PROVE Dispatched(c) \/ command'[c].state = "leased"
    <3>1. CASE v # w
      BY <2>1, <2>2, <3>1, LeaseIs
    <3>2. CASE v = w
      BY <1>2, <2>2, <3>2, LeaseIs
    <3> QED
      BY <3>1, <3>2
  <2> QED
    BY <1>2, <2>1, <2>2, SendsStep DEF SendsKeep
<1> QED
  BY <1>s, <1>1, <1>2 DEF Dispatched

\* A start is accepted because it was, or because the command is active.
LEMMA AcceptedComes ==
    ASSUME TypeOK, FramesFit, SocketsFit, [Next]_vars, ~TakeDispatch,
           agent.socket # None, agent'.socket = agent.socket, NEW c \in Commands, Accepted(c)'
    PROVE  Accepted(c) \/ Active(c)
<1> DEFINE S == agent.socket
<1>s. S \in Sockets /\ "started" \in Kinds
  BY DEF TypeOK, Agents, OrNone, Kinds
<1>1. CASE Keeps("started")
  <2>1. \A w \in Taken' : w \in Taken /\ run'[w] = run[w]
    BY <1>1 DEF Keeps, EventsKeep, Taken, IsEvent
  <2>2. \A m \in Heard' : m \in Heard
    BY <1>1, <1>s DEF Keeps, MailKeeps, Heard
  <2> QED
    BY <2>1, <2>2 DEF Accepted
<1>2. ASSUME NEW w \in Handlers,
             \/ \E s \in Sockets : EventBegin(w, s, "started")
             \/ (EventRecord(w) \/ EventAnswer(w)) /\ run[w].kind = "started"
      PROVE  Accepted(c) \/ Active(c)
  <2>1. \A v \in Taken' \ {w} : v \in Taken /\ run'[v] = run[v]
    BY <1>s, <1>2, EventTurn DEF Taken, IsEvent
  <2>2. CASE run'[w].at = "record" /\ mail' = mail
    <3>1. Heard' = Heard
      BY <2>2 DEF Heard
    <3> QED
      BY <2>1, <2>2, <3>1 DEF Accepted
  <2>3. CASE /\ mail' = mail /\ run'[w].accepted = Accepts(run[w].id) /\ run'[w].id = run[w].id
    <3>1. Heard' = Heard
      BY <2>3 DEF Heard
    <3> QED
      BY <2>1, <2>3, <3>1 DEF Accepted, Accepts
  <2>4. CASE /\ EventAnswer(w) /\ IsEvent(w, "started") /\ run[w].at = "answer"
             /\ run'[w].op # "event"
             /\ \A s \in Sockets : \A m \in mail'[s] :
                  m \in mail[s]
                  \/ m = [kind |-> "started", id |-> run[w].id, accepted |-> run[w].accepted]
    <3> DEFINE n == [kind |-> "started", id |-> run[w].id, accepted |-> run[w].accepted]
    <3>1. w \notin Taken'
      BY <2>4 DEF Taken, IsEvent
    <3>2. \A m \in Heard' : m \in Heard \/ m = n
      BY <1>s, <2>4 DEF Heard
    <3>3. CASE Heard' \subseteq Heard
      BY <2>1, <3>1, <3>3 DEF Accepted
    <3>4. CASE ~(Heard' \subseteq Heard)
      <4>1. n \in mail'[S] /\ n \notin mail[S]
        BY <1>s, <3>2, <3>4, <2>4 DEF Heard
      <4>2. run[w].socket = S
        <5>1. run[w].socket \in Sockets
          BY <2>4, FrameByOp DEF TypeOK, EventFrames, IsEvent
        <5> QED
          BY <1>s, <2>4, <4>1, <5>1, MailedElsewhere DEF EventAnswer, Mailed, Left
      <4>3. w \in Taken
        BY <2>4, <4>2 DEF Taken
      <4>4. n.accepted = run[w].accepted /\ n.id = run[w].id
        OBVIOUS
      <4> HIDE DEF n
      <4> QED
        BY <2>1, <2>4, <3>1, <3>2, <4>3, <4>4 DEF Accepted
    <3> QED
      BY <3>3, <3>4
  <2> QED
    BY <1>s, <1>2, <2>2, <2>3, <2>4, EventTurn
<1>3. "started" # "finished"
  OBVIOUS
<1> QED
  BY <1>s, <1>1, <1>2, <1>3, KindKeeps

LEMMA BegunGrows ==
    ASSUME TypeOK, FramesFit, SocketsFit, [Next]_vars, NEW c \in Commands
    PROVE  begun'[c] >= begun[c] /\ (begun'[c] # begun[c] => HearStarted /\ agent.id = c)
<1>1. CASE begun' = begun
  BY <1>1 DEF TypeOK
<1>2. CASE HearStarted
  <2>1. CASE begun' = [begun EXCEPT ![agent.id] = begun[agent.id] + 1]
    BY <1>2, <2>1 DEF TypeOK
  <2> QED
    BY <1>1, <1>2, <2>1, HearStartedIs
<1>3. ASSUME TakeDispatch \/ Finish \/ HearFinished \/ Connect \/ Leave PROVE begun' = begun
  BY <1>3 DEF TakeDispatch, Finish, HearFinished, Connect, Leave
<1> QED
  BY <1>1, <1>2, <1>3, AgentStep DEF AgentKeeps

LEMMA BeginsOnceStep ==
    ASSUME TypeOK, TypeOK', FramesFit, SocketsFit, OneStart, AcceptedHasStarted, EndsAreReported,
           BeginsOnce, [Next]_vars
    PROVE  BeginsOnce'
<1>t. agent \in Agents /\ agent' \in Agents
  BY DEF TypeOK
<1>s. \A c \in Commands : begun[c] \in Nat /\ begun'[c] \in Nat
                          /\ (begun[c] > 0 => command[c].state \in Started)
  BY DEF TypeOK, AcceptedHasStarted
<1>1. ASSUME NEW c \in Commands
      PROVE  begun'[c] <= 1 /\ (Busy(c)' => begun'[c] = 1)
  <2>1. CASE begun'[c] # begun[c]
    <3>1. HearStarted /\ agent.id = c /\ begun' # begun
      BY <2>1, BegunGrows
    <3>2. begun[c] = 0 /\ begun'[c] = begun[c] + 1
      BY <2>1, <3>1, BegunIsNotStarted, HearStartedIs DEF TypeOK
    <3> QED
      BY <3>2
  <2>2. CASE begun'[c] = begun[c]
    <3>1. ASSUME Busy(c)' PROVE begun[c] = 1
      <4>1. CASE AgentKeeps
        BY <3>1, <4>1 DEF AgentKeeps, Busy, BeginsOnce
      <4>2. CASE Finish
        <5>1. Busy(c)
          BY <1>t, <3>1, <4>2 DEF Finish, Busy, Agents
        <5> QED
          BY <5>1 DEF BeginsOnce
      <4>3. CASE HearStarted
        <5>1. begun' = [begun EXCEPT ![agent.id] = begun[agent.id] + 1] /\ agent'.id = agent.id
          BY <3>1, <4>3, HearStartedIs DEF Busy
        <5>2. FALSE
          BY <2>2, <3>1, <5>1, <1>s DEF Busy, TypeOK
        <5> QED
          BY <5>2
      <4>4. CASE TakeDispatch \/ HearFinished
        BY <1>t, <3>1, <4>4 DEF TakeDispatch, HearFinished, Busy, Agents
      <4>5. CASE Connect \/ Leave
        BY <3>1, <4>5 DEF Connect, Leave, Away, Busy
      <4> QED
        BY <4>1, <4>2, <4>3, <4>4, <4>5, AgentStep
    <3> QED
      BY <2>2, <3>1 DEF BeginsOnce
  <2> QED
    BY <2>1, <2>2
<1>2. CASE Leave
  BY <1>1, <1>2 DEF Leave, Away, BeginsOnce
<1>3. CASE Connect
  <2>1. PICK s \in Sockets :
          socket[s].phase = "new" /\ agent' = [Away EXCEPT !.socket = s]
    BY <1>3 DEF Connect
  <2>2. agent'.socket = s /\ agent'.doing = "reading" /\ agent.socket # s
    BY <1>3, <2>1, AgentSocketsAssumption DEF Connect, Away, Sockets
  <2>3. run' = run /\ work' = work /\ work[s] = << >>
    BY <1>3, <2>2 DEF Connect, SocketsFit
  <2>4. ASSUME NEW c \in Commands PROVE ~Dispatched(c)'
    <3>1. \A i \in DOMAIN work'[s] : FALSE
      BY <2>3
    <3>2. \A w \in Handlers : ~(run'[w].op = "dispatch" /\ run'[w].at = "send" /\ run'[w].socket = s)
      BY <2>1, <2>3 DEF FramesFit
    <3> QED
      BY <2>2, <3>1, <3>2 DEF Dispatched
  <2> QED
    BY <1>1, <2>2, <2>4 DEF BeginsOnce
<1>4. CASE ~Leave /\ ~Connect
  <2>1. agent'.socket = agent.socket
    BY <1>4, MailStep
  <2>2. ASSUME agent.socket # None, NEW c \in Commands, begun'[c] > 0,
               command'[c].state = "running", ~Busy(c)', Dispatched(c)'
        PROVE  FALSE
    <3>1. begun[c] > 0
      <4>1. CASE begun'[c] # begun[c]
        <5>1. HearStarted /\ agent.id = c /\ begun' # begun
          BY <4>1, BegunGrows
        <5> QED
          BY <2>2, <5>1, HearStartedIs DEF Busy
      <4> QED
        BY <2>2, <4>1
    <3>2. command[c].state = "running"
      BY <1>s, <2>2, <3>1, RowStep DEF Started
    <3>3. Dispatched(c)
      BY <1>4, <2>2, DispatchedStep
    <3>4. Busy(c)
      BY <2>2, <3>1, <3>2, <3>3 DEF BeginsOnce
    <3>5. HearFinished
      <4>1. CASE AgentKeeps
        BY <2>2, <3>4, <4>1 DEF AgentKeeps, Busy
      <4>2. CASE Finish
        BY <1>t, <2>2, <3>4, <4>2 DEF Finish, Busy, Agents
      <4>3. CASE TakeDispatch \/ HearStarted
        BY <3>4, <4>3 DEF TakeDispatch, HearStarted, Busy
      <4> QED
        BY <1>4, <4>1, <4>2, <4>3, AgentStep
    <3>6. PICK b \in BOOLEAN : Hears([kind |-> "finished", id |-> agent.id, accepted |-> b])
      BY <3>5 DEF HearFinished
    <3> DEFINE m == [kind |-> "finished", id |-> agent.id, accepted |-> b]
    <3>7. m \in mail[agent.socket] /\ agent.socket \in Sockets
      BY <1>t, <3>6 DEF Hears, Agents, OrNone
    <3>8. m.kind = "finished" /\ m.id = c
      BY <3>4 DEF Busy
    <3> HIDE DEF m
    <3>9. command[c].state \in Ended
      BY <3>7, <3>8 DEF EndsAreReported
    <3> QED
      BY <3>2, <3>9 DEF Ended
  <2>3. ASSUME agent.socket # None, NEW c \in Commands, begun'[c] > 0,
               agent'.doing = "starting", agent'.id = c
        PROVE  command'[c].state # "running" /\ ~Accepted(c)'
    <3>1. begun[c] > 0
      <4>1. CASE begun'[c] # begun[c]
        <5>1. HearStarted /\ agent'.doing \in {"executing", "reading"}
          BY <4>1, BegunGrows, HearStartedIs
        <5> QED
          BY <2>3, <5>1
      <4> QED
        BY <2>3, <4>1
    <3>2. command[c].state # "running" /\ ~Accepted(c)'
      <4>1. CASE AgentKeeps
        <5>1. command[c].state # "running" /\ ~Accepted(c)
          BY <2>3, <3>1, <4>1 DEF AgentKeeps, BeginsOnce
        <5>2. ~Active(c)
          BY <1>s, <3>1, <5>1 DEF Active, Started
        <5>3. ~TakeDispatch
          BY <1>t, <2>3, <4>1 DEF TakeDispatch, AgentKeeps, Agents
        <5> QED
          BY <2>1, <2>3, <5>1, <5>2, <5>3, AcceptedComes
      <4>2. CASE TakeDispatch
        <5> DEFINE S == agent.socket
        <5>1. S \in Sockets /\ work[S] # << >> /\ c = Head(work[S]) /\ agent.doing = "reading"
          BY <1>t, <2>3, <4>2 DEF TakeDispatch, Agents, OrNone
        <5>2. work[S] \in Seq(Commands)
          BY <5>1 DEF TypeOK
        <5>3. 1 \in DOMAIN work[S] /\ work[S][1] = c
          BY <5>1, <5>2
        <5>4. Dispatched(c) /\ ~Busy(c)
          BY <5>1, <5>3 DEF Dispatched, Busy
        <5>5. command[c].state # "running"
          BY <2>3, <3>1, <5>4 DEF BeginsOnce
        <5>6. Taken = {} /\ Heard = {}
          BY <2>3, <5>1 DEF OneStart
        <5>7. Taken' = {} /\ Heard' = {}
          BY <2>1, <4>2, <5>6 DEF TakeDispatch, Taken, Heard, IsEvent
        <5> QED
          BY <5>5, <5>7 DEF Accepted
      <4>3. CASE HearStarted
        BY <2>3, <4>3, HearStartedIs
      <4>4. CASE Finish \/ HearFinished
        BY <1>t, <2>3, <4>4 DEF Finish, HearFinished, Agents
      <4> QED
        BY <1>4, <4>1, <4>2, <4>3, <4>4, AgentStep
    <3>3. command[c].state \in Ended
      BY <1>s, <3>1, <3>2 DEF Started, Ended
    <3>4. command'[c].state # "running"
      BY <3>3, RowStep DEF Ended
    <3> QED
      BY <3>2, <3>4
  <2> QED
    BY <1>1, <2>1, <2>2, <2>3 DEF BeginsOnce
<1> QED
  BY <1>2, <1>3, <1>4

-----------------------------------------------------------------------------
(* The socket in use knows what is dispatched and executed on it.          *)

\* A dispatch begins on a ready socket.
LEMMA LeaseFrames ==
    ASSUME TypeOK, FramesFit, SocketsFit, [Next]_vars, NEW v \in Handlers,
           run'[v].op = "dispatch", run'[v].at = "lease", run'[v] # run[v]
    PROVE  socket'[run'[v].socket].ready
<1>f. \A w \in Handlers : run[w] \in Frames
  BY DEF TypeOK
<1> DEFINE Leasing(g) == g.op = "dispatch" /\ g.at = "lease"
<1>g. ASSUME NEW w \in Handlers, NEW g, run' = [run EXCEPT ![w] = g]
      PROVE  w = v /\ run'[v] = g /\ Leasing(g)
  BY <1>g DEF TypeOK
<1>i. ~Leasing(Idle)
  BY DEF Idle
<1>d. ASSUME NEW w \in Handlers, NEW s \in Sockets, NEW a \in [Sockets -> Attachments],
             run' = [run EXCEPT ![w] = DispatchOn(s, a)], socket' = Looked(a)
      PROVE  socket'[run'[v].socket].ready
  <2>1. run'[v] = DispatchOn(s, a) /\ Leasing(DispatchOn(s, a))
    BY <1>d, <1>g
  <2>2. run'[v].socket = s /\ a[s].ready
    BY <1>i, <2>1 DEF DispatchOn, Dispatch
  <2>3. a[s] \in Attachments
    OBVIOUS
  <2> QED
    BY <1>d, <2>2, <2>3 DEF Looked, Attachments
<1>n. ASSUME NEW w \in Handlers, NEW g, run' = [run EXCEPT ![w] = g], ~Leasing(g)
      PROVE  FALSE
  BY <1>g, <1>n
<1> HIDE DEF Leasing
<1>e. ASSUME NEW w \in Handlers, End(w) PROVE FALSE
  BY <1>e, <1>i, <1>n DEF End
<1>a. ASSUME NEW w \in Handlers, NEW at, Goto(w, at), at # "lease",
             run[w].op \in {"ready", "dispatch", "gone"}
      PROVE  FALSE
  <2>1. ~Leasing([run[w] EXCEPT !.at = at])
    BY <1>a, <1>f, FrameByOp DEF Leasing, ReadyFrames, DispatchFrames, GoneFrames
  <2> QED
    BY <1>a, <1>n, <2>1 DEF Goto
<1>1. ASSUME NEW w \in Handlers, Continue(w) PROVE socket'[run'[v].socket].ready
  <2> DEFINE f == run[w]
  <2>1. CASE ReadyUpdate(w)
    <3> DEFINE g == [[f EXCEPT !.at = "mark"] EXCEPT !.news = f.news \/ status # "online"]
    <3>1. run' = [run EXCEPT ![w] = g]
      BY <2>1 DEF ReadyUpdate, TypeOK
    <3>2. g.op = "ready"
      BY <1>f, <2>1, FrameByOp DEF ReadyUpdate, ReadyFrames
    <3> HIDE DEF g
    <3> QED
      BY <1>n, <3>1, <3>2 DEF Leasing
  <2>2. CASE ReadyMark(w)
    BY <1>a, <1>e, <2>2 DEF ReadyMark
  <2>3. CASE ReadyRefresh(w)
    BY <1>a, <1>e, <2>3 DEF ReadyRefresh, Blocked
  <2>4. CASE ReadyDispatch(w)
    <3>1. f.socket \in Sockets
      BY <1>f, <2>4, FrameByOp DEF ReadyDispatch, ReadyFrames
    <3> QED
      BY <1>d, <2>4, <3>1 DEF ReadyDispatch, TypeOK
  <2>5. CASE ReportAnswer(w)
    <3> DEFINE consumed == [socket EXCEPT ![f.socket].pending = "no"]
    <3>1. f.socket \in Sockets
      BY <1>f, <2>5, FrameByOp DEF ReportAnswer, ReportFrames
    <3>2. consumed \in [Sockets -> Attachments]
      BY <3>1, AttachmentType DEF TypeOK
    <3>3. \/ End(w)
          \/ socket' = Looked(consumed) /\ run' = [run EXCEPT ![w] = DispatchOn(f.socket, consumed)]
      BY <2>5 DEF ReportAnswer, Blocked
    <3> HIDE DEF consumed
    <3> QED
      BY <1>d, <1>e, <3>1, <3>2, <3>3
  <2>6. CASE EventRecord(w)
    <3> DEFINE g == [[f EXCEPT !.at = "answer"] EXCEPT !.accepted = Accepts(f.id)]
    <3>1. run' = [run EXCEPT ![w] = g]
      BY <2>6 DEF EventRecord, TypeOK
    <3>2. g.op = "event"
      BY <1>f, <2>6, FrameByOp DEF EventRecord, EventFrames
    <3> HIDE DEF g
    <3> QED
      BY <1>n, <3>1, <3>2 DEF Leasing
  <2>7. CASE EventAnswer(w)
    <3> DEFINE cleared == [socket EXCEPT ![f.socket].active = @ \ {f.id}]
    <3>1. f.socket \in Sockets
      BY <1>f, <2>7, FrameByOp DEF EventAnswer, EventFrames
    <3>2. cleared \in [Sockets -> Attachments]
      <4>1. [socket[f.socket] EXCEPT !.active = socket[f.socket].active \ {f.id}] \in Attachments
        <5>1. socket[f.socket] \in Attachments
          BY <3>1 DEF TypeOK
        <5>2. socket[f.socket].active \ {f.id} \in SUBSET Commands
          BY <5>1, AttachmentType
        <5> QED
          BY <5>1, <5>2, AttachmentType
      <4> QED
        BY <4>1 DEF TypeOK
    <3>3. \/ End(w)
          \/ socket' = Looked(cleared) /\ run' = [run EXCEPT ![w] = DispatchOn(f.socket, cleared)]
      BY <2>7 DEF EventAnswer
    <3> HIDE DEF cleared
    <3> QED
      BY <1>d, <1>e, <3>1, <3>2, <3>3
  <2>8. CASE Pick(w)
    <3> DEFINE g == Dispatch("lease", Newest(Ready), None)
    <3>1. End(w) \/ (Ready # {} /\ socket' = Looked(socket) /\ run' = [run EXCEPT ![w] = g])
      BY <2>8 DEF Pick, Blocked, End
    <3>2. ASSUME Ready # {}, socket' = Looked(socket), run' = [run EXCEPT ![w] = g]
          PROVE  socket'[run'[v].socket].ready
      <4>1. Newest(Ready) \in Ready
        BY <3>2, NewestExists DEF Ready, Listed
      <4>2. run'[v] = g
        BY <1>g, <3>2
      <4>3. run'[v].socket = Newest(Ready)
        BY <4>2 DEF Dispatch
      <4> QED
        BY <3>2, <4>1, <4>3 DEF Ready, Listed, Looked, TypeOK, Attachments
    <3> QED
      BY <1>e, <3>1, <3>2
  <2>9. CASE PickListed(w)
    <3> DEFINE S == {s \in f.seen : socket[s].ready /\ socket[s].pending # "yes"}
    <3>1. S \in SUBSET Sockets
      BY <1>f, <2>9, FrameByOp DEF PickListed, DispatchFrames
    <3>2. S # {} => Newest(S) \in Sockets
      BY <3>1, NewestExists
    <3>3. \/ run' = [run EXCEPT ![w] = Idle]
          \/ (S # {} /\ socket' = Looked(socket) /\ run' = [run EXCEPT ![w] = DispatchOn(Newest(S), socket)])
      BY <2>9 DEF PickListed, Blocked, End
    <3> HIDE DEF S
    <3> QED
      BY <1>d, <1>i, <1>n, <3>2, <3>3 DEF TypeOK
  <2>10. CASE Lease(w)
    <3>1. \A u \in Handlers \ {w} : run'[u] = run[u]
      BY <2>10, LeaseIs
    <3>2. run'[w].op = "idle" \/ run'[w].at = "send"
      BY <2>10, LeaseIs
    <3> QED
      BY <3>1, <3>2
  <2>11. CASE Send(w)
    BY <2>11, SendIs
  <2>12. CASE Release(w) \/ AfterRelease(w) \/ DispatchDegrade(w)
    BY <1>a, <2>12 DEF Release, AfterRelease, DispatchDegrade
  <2>13. CASE GoneSelect(w) \/ GoneFail(w)
    <3>1. f \in GoneFrames
      BY <1>f, <2>13, FrameByOp DEF GoneSelect, GoneFail
    <3>2. CASE GoneSelect(w)
      <4> DEFINE g == [[f EXCEPT !.at = "fail"] EXCEPT !.rest = {c \in ScopeOf(f) : Active(c)}]
      <4>1. run' = [run EXCEPT ![w] = g]
        BY <3>2 DEF GoneSelect, TypeOK
      <4>2. g.op = "gone"
        BY <3>1 DEF GoneFrames
      <4> HIDE DEF g
      <4> QED
        BY <1>n, <4>1, <4>2 DEF Leasing
    <3>3. ASSUME NEW c, run' = [run EXCEPT ![w].rest = @ \ {c}] PROVE FALSE
      <4> DEFINE g == [f EXCEPT !.rest = f.rest \ {c}]
      <4>1. run' = [run EXCEPT ![w] = g]
        BY <3>3
      <4>2. g.op = "gone"
        BY <3>1 DEF GoneFrames
      <4> HIDE DEF g
      <4> QED
        BY <1>n, <4>1, <4>2 DEF Leasing
    <3>4. CASE GoneFail(w)
      BY <1>a, <1>e, <3>3, <3>4 DEF GoneFail
    <3> QED
      BY <2>13, <3>2, <3>4
  <2>14. CASE GoneDegrade(w) \/ GoneOffline(w)
    BY <1>e, <2>14 DEF GoneDegrade, GoneOffline
  <2> QED
    BY <1>1, <2>1, <2>2, <2>3, <2>4, <2>5, <2>6, <2>7, <2>8, <2>9, <2>10, <2>11, <2>12, <2>13,
       <2>14 DEF Continue
<1>2. ASSUME NEW w \in Handlers,
             \/ \E s \in Sockets : Receive(w, s)
             \/ \E c \in Commands : Request(w, c)
             \/ DispatchRequest(w) \/ ResumeRequest(w) \/ Die(w)
      PROVE  FALSE
  <2>1. ASSUME NEW s \in Sockets, Receive(w, s) PROVE FALSE
    <3>1. \E g : run' = [run EXCEPT ![w] = g]
                  /\ (g = Idle \/ g.op \in {"ready", "report", "event", "gone"})
      BY <2>1 DEF Receive, ReadyBegin, ReportBegin, EventBegin, GoneBegin
    <3> QED
      BY <1>i, <1>n, <3>1 DEF Leasing
  <2>2. CASE DispatchRequest(w) \/ \E c \in Commands : Request(w, c)
    <3>1. run' = [run EXCEPT ![w] = Dispatch("pick", None, None)]
      BY <2>2 DEF DispatchRequest, Request
    <3>2. ~Leasing(Dispatch("pick", None, None))
      BY DEF Dispatch, Leasing
    <3> QED
      BY <1>n, <3>1, <3>2
  <2>3. CASE ResumeRequest(w)
    <3> DEFINE g == [Dispatch("pickListed", None, None) EXCEPT !.seen = Listed]
    <3>1. run' = [run EXCEPT ![w] = g]
      BY <2>3 DEF ResumeRequest
    <3>2. g.at = "pickListed"
      BY DEF Dispatch
    <3> HIDE DEF g
    <3> QED
      BY <1>n, <3>1, <3>2 DEF Leasing
  <2>4. CASE Die(w)
    BY <1>e, <2>4 DEF Die
  <2> QED
    BY <1>2, <2>1, <2>2, <2>3, <2>4
<1>3. ASSUME AgentGoesOn \/ Connect \/ Leave PROVE run' = run
  BY <1>3 DEF AgentGoesOn, Connect, Leave, SendReady, HearReady, HearRefresh, TakeDispatch,
              HearStarted, Finish, HearFinished
<1>4. ASSUME \/ RefreshRequest \/ CooldownEnds \/ Hibernate \/ UNCHANGED vars
             \/ \E s \in Sockets : RefreshLapses(s)
             \/ \E c \in Commands : LeaseExpires(c)
      PROVE  run' = run
  BY <1>4 DEF RefreshRequest, CooldownEnds, Hibernate, RefreshLapses, LeaseExpires, vars
<1> QED
  BY <1>1, <1>2, <1>3, <1>4 DEF Next

LEMMA SocketKnowsStep ==
    ASSUME TypeOK, TypeOK', FramesFit, SocketsFit, SocketsFit', EndsAreReported, BeginsOnce,
           SocketKnows, [Next]_vars
    PROVE  SocketKnows'
<1>t. agent \in Agents /\ agent' \in Agents
  BY DEF TypeOK
<1>1. CASE Leave
  BY <1>1 DEF Leave, Away, SocketKnows
<1>2. CASE Connect
  <2>1. PICK s \in Sockets :
          socket[s].phase = "new" /\ agent' = [Away EXCEPT !.socket = s]
    BY <1>2 DEF Connect
  <2>2. agent'.socket = s /\ agent'.doing = "reading" /\ agent.socket # s
    BY <1>2, <2>1, AgentSocketsAssumption DEF Connect, Away, Sockets
  <2>3. run' = run /\ work' = work /\ work[s] = << >>
    BY <1>2, <2>2 DEF Connect, SocketsFit
  <2>4. \A w \in Handlers :
          ~(run'[w].op = "dispatch" /\ run'[w].at \in {"lease", "send"} /\ run'[w].socket = s)
    BY <2>1, <2>3 DEF FramesFit
  <2>5. \A i \in DOMAIN work'[s] : FALSE
    BY <2>3
  <2>6. \A c \in Commands : ~Known(c)' /\ ~Executing'
    BY <2>2, <2>5 DEF Known, Executing
  <2> QED
    BY <2>2, <2>3, <2>4, <2>6 DEF SocketKnows
<1>3. ASSUME ~Leave, ~Connect, agent'.socket # None, socket'[agent'.socket].phase = "open"
      PROVE  SocketKnows'
  <2> DEFINE S == agent.socket
  <2>1. agent'.socket = S /\ S \in Sockets
    BY <1>3, <1>t, MailStep DEF Agents, OrNone
  <2>2. socket[S].phase = "open"
    BY <1>3, <2>1, SocketStep
  <2>3. S # None
    BY <1>3, <2>1
  <2>4. socket[S].ready => socket'[S].ready
    BY <2>1, <2>2, SocketStep
  <2>5. ASSUME NEW w \in Handlers, run[w].op = "dispatch", run[w].at \in {"lease", "send"},
               run[w].socket = S
        PROVE  socket[S].ready
    BY <2>2, <2>3, <2>5 DEF SocketKnows
  <2>6. work[S] # << >> \/ agent.doing # "reading" => socket[S].ready
    BY <2>2, <2>3 DEF SocketKnows
  <2>7. ASSUME NEW w \in Handlers, run'[w].op = "dispatch", run'[w].at \in {"lease", "send"},
               run'[w].socket = S
        PROVE  socket'[S].ready
    <3>1. CASE run'[w] = run[w]
      BY <2>4, <2>5, <2>7, <3>1
    <3>2. CASE run'[w].at = "lease" /\ run'[w] # run[w]
      BY <2>7, <3>2, LeaseFrames
    <3>3. CASE run'[w].at = "send" /\ run'[w] # run[w]
      <4>1. PICK v \in Handlers : Lease(v)
        BY <2>7, <3>3, SendsStep DEF SendsKeep
      <4>2. v = w /\ run[w].socket = S
        BY <2>7, <3>3, <4>1, LeaseIs
      <4>3. run[w].op = "dispatch" /\ run[w].at = "lease"
        BY <4>1, <4>2 DEF Lease
      <4> QED
        BY <2>4, <2>5, <4>2, <4>3
    <3> QED
      BY <2>7, <3>1, <3>2, <3>3
  <2>8. ASSUME work'[S] # << >> PROVE socket'[S].ready
    <3>1. CASE work' = work
      BY <2>4, <2>6, <2>8, <3>1
    <3>2. CASE TakeDispatch
      BY <2>4, <2>6, <3>2 DEF TakeDispatch
    <3>3. ASSUME NEW w \in Handlers, Send(w), work' # work PROVE socket'[S].ready
      <4>1. run[w].op = "dispatch" /\ run[w].at = "send" /\ run[w].socket = S
        BY <3>3, SendIs DEF Left
      <4> QED
        BY <2>4, <2>5, <4>1
    <3> QED
      BY <1>3, <3>1, <3>2, <3>3, SendsStep
  <2>9. ASSUME agent'.doing # "reading" PROVE socket'[S].ready
    <3>1. CASE AgentKeeps
      BY <2>4, <2>6, <2>9, <3>1 DEF AgentKeeps
    <3>2. CASE TakeDispatch
      BY <2>4, <2>6, <3>2 DEF TakeDispatch
    <3>3. CASE HearStarted \/ Finish \/ HearFinished
      BY <2>4, <2>6, <3>3 DEF HearStarted, Finish, HearFinished
    <3> QED
      BY <1>3, <3>1, <3>2, <3>3, AgentStep
  <2>10. ASSUME NEW c \in Commands, (begun[c] = 0 /\ Known(c)) \/ (Executing /\ agent.id = c)
         PROVE  c \in socket[S].active
    BY <2>2, <2>3, <2>10 DEF SocketKnows
  <2>11. ASSUME NEW c \in Commands, c \in socket[S].active,
                (begun'[c] = 0) \/ (Executing' /\ agent'.id = c)
         PROVE  c \in socket'[S].active
    <3>1. SUFFICES ASSUME NEW w \in Handlers, IsEvent(w, "finished"), run[w].id = c
                   PROVE  FALSE
      BY <2>1, <2>2, <2>11, SocketStep
    <3>2. Reported(c)
      BY <3>1 DEF EndsAreReported
    <3>3. ReportedNext(c)
      BY <3>2, ReportedStays
    <3> QED
      BY <2>11, <3>3 DEF ReportedNext, Executing
  <2>12. ASSUME NEW c \in Commands, begun'[c] = 0, Known(c)'
         PROVE  c \in socket'[S].active
    <3>1. begun[c] = 0
      BY <2>12, BegunGrows DEF TypeOK
    <3>2. CASE Known(c)
      BY <2>10, <2>11, <2>12, <3>1, <3>2
    <3>3. CASE TakeDispatch
      <4>1. work[S] \in Seq(Commands) /\ work[S] # << >>
        BY <2>1, <3>3 DEF TakeDispatch, TypeOK
      <4>2. work'[S] = Tail(work[S]) /\ agent'.id = Head(work[S])
        BY <1>t, <2>1, <3>3 DEF TakeDispatch, TypeOK, Agents
      <4>3. \E i \in DOMAIN work[S] : work[S][i] = c
        <5>1. CASE agent'.id = c
          <6>1. 1 \in DOMAIN work[S] /\ work[S][1] = c
            BY <4>1, <4>2, <5>1
          <6> QED
            BY <6>1
        <5>2. ASSUME NEW i \in DOMAIN work'[S], work'[S][i] = c
              PROVE  \E j \in DOMAIN work[S] : work[S][j] = c
          <6>1. i + 1 \in DOMAIN work[S] /\ work[S][i + 1] = c
            BY <4>1, <4>2, <5>2
          <6> QED
            BY <6>1
        <5> QED
          BY <2>1, <2>12, <5>1, <5>2 DEF Known
      <4> QED
        BY <3>2, <4>3 DEF Known
    <3>4. ASSUME agent'.doing = "starting", agent'.id = c, ~TakeDispatch PROVE Known(c)
      <4>1. CASE AgentKeeps
        BY <3>4, <4>1 DEF AgentKeeps, Known
      <4>2. CASE HearStarted
        BY <3>4, <4>2, HearStartedIs
      <4>3. CASE Finish \/ HearFinished
        BY <1>t, <3>4, <4>3 DEF Finish, HearFinished, Agents
      <4> QED
        BY <1>3, <3>4, <4>1, <4>2, <4>3, AgentStep
    <3>5. ASSUME NEW i \in DOMAIN work'[S], work'[S][i] = c, ~TakeDispatch
          PROVE  Known(c) \/ c \in socket'[S].active
      <4>1. CASE work' = work
        BY <3>5, <4>1 DEF Known
      <4>2. ASSUME NEW w \in Handlers, Send(w), work' # work
            PROVE  Known(c) \/ c \in socket'[S].active
        <5> DEFINE f == run[w]
        <5>1. /\ f.socket = S
              /\ work' = [work EXCEPT ![S] = Append(work[S], f.id)]
              /\ socket' = [socket EXCEPT ![S].active = @ \cup {f.id}]
          BY <4>2, SendIs DEF Left
        <5>2. work[S] \in Seq(Commands) /\ work'[S] = Append(work[S], f.id)
          BY <2>1, <5>1 DEF TypeOK
        <5>3. CASE i \in DOMAIN work[S]
          <6>1. work[S][i] = c
            BY <3>5, <5>2, <5>3
          <6> QED
            BY <5>3, <6>1 DEF Known
        <5>4. CASE i \notin DOMAIN work[S]
          <6>1. f.id = c
            BY <3>5, <5>2, <5>4
          <6> QED
            BY <2>1, <5>1, <6>1 DEF TypeOK, Attachments
        <5> QED
          BY <5>3, <5>4
      <4> QED
        BY <1>3, <3>5, <4>1, <4>2, SendsStep
    <3> QED
      BY <2>1, <2>12, <3>2, <3>3, <3>4, <3>5 DEF Known
  <2>13. ASSUME NEW c \in Commands, Executing', agent'.id = c
         PROVE  c \in socket'[S].active
    <3>1. CASE AgentKeeps
      BY <2>10, <2>11, <2>13, <3>1 DEF AgentKeeps, Executing
    <3>2. CASE HearStarted
      <4>1. agent.doing = "starting" /\ agent.id = c /\ begun' # begun
        BY <2>13, <3>2, HearStartedIs DEF Executing, TypeOK
      <4>2. begun[c] = 0 /\ Known(c)
        BY <3>2, <4>1, BegunIsNotStarted DEF Known
      <4> QED
        BY <2>10, <2>11, <2>13, <4>2
    <3>3. CASE TakeDispatch \/ Finish \/ HearFinished
      BY <1>t, <2>13, <3>3 DEF TakeDispatch, Finish, HearFinished, Executing, Agents
    <3> QED
      BY <1>3, <3>1, <3>2, <3>3, AgentStep
  <2> QED
    BY <2>1, <2>7, <2>8, <2>9, <2>12, <2>13 DEF SocketKnows
<1> QED
  BY <1>1, <1>2, <1>3 DEF SocketKnows

-----------------------------------------------------------------------------
(* The theorems.                                                           *)

LEMMA InvInit == Init => IInv
<1> SUFFICES ASSUME Init PROVE IInv
  OBVIOUS
<1>1. \A w \in Handlers : run[w].op = "idle"
  BY DEF Init, Idle
<1>2. \A s \in Sockets : /\ socket[s].phase = "new" /\ ~socket[s].ready /\ socket[s].pending = "no"
                         /\ inbox[s] = <<>> /\ mail[s] = {} /\ work[s] = <<>>
  BY DEF Init, Unattached
<1>3. agent.socket = None /\ agent.doing = "reading"
  BY DEF Init, Away
<1>4. \A c \in Commands : begun[c] = 0 /\ command[c].state = "absent"
  BY DEF Init
<1>5. FramesFit /\ SocketsFit
  BY <1>1, <1>2, <1>3 DEF FramesFit, SocketsFit
<1>6. OneAsked
  BY <1>2 DEF OneAsked, Listed
<1>7. OneStart /\ SocketKnows
  BY <1>3 DEF OneStart, SocketKnows
<1>8. AcceptedHasStarted
  BY <1>1, <1>2, <1>4 DEF AcceptedHasStarted, IsEvent
<1>9. EndsAreReported
  <2>1. \A s \in Sockets : DOMAIN inbox[s] = {}
    BY <1>2
  <2> QED
    BY <1>1, <1>2, <1>4, <2>1 DEF EndsAreReported, IsEvent
<1>10. BeginsOnce
  BY <1>3, <1>4 DEF BeginsOnce, Busy
<1> QED
  BY <1>5, <1>6, <1>7, <1>8, <1>9, <1>10, TypeInit DEF IInv

LEMMA InvStep == IInv /\ [Next]_vars => IInv'
<1> SUFFICES ASSUME IInv, [Next]_vars PROVE IInv'
  OBVIOUS
<1>1. /\ TypeOK /\ FramesFit /\ SocketsFit /\ OneAsked /\ OneStart /\ AcceptedHasStarted
      /\ EndsAreReported /\ BeginsOnce /\ SocketKnows
  BY DEF IInv
<1>2. TypeOK'
  BY <1>1, TypeStep
<1>3. FramesFit'
  BY <1>1, FramesFitStep
<1>4. SocketsFit'
  BY <1>1, SocketsFitStep
<1>5. OneAsked'
  BY <1>1, OneAskedStep
<1>6. OneStart'
  BY <1>1, <1>2, OneStartStep
<1>7. AcceptedHasStarted'
  BY <1>1, <1>2, AcceptedStep
<1>8. EndsAreReported'
  BY <1>1, <1>2, EndsStep
<1>9. BeginsOnce'
  BY <1>1, <1>2, BeginsOnceStep
<1>10. SocketKnows'
  BY <1>1, <1>2, <1>4, SocketKnowsStep
<1> QED
  BY <1>2, <1>3, <1>4, <1>5, <1>6, <1>7, <1>8, <1>9, <1>10 DEF IInv

LEMMA InvIsSound == ASSUME IInv PROVE ExecutionIsSound
<1>1. TypeOK /\ SocketsFit /\ AcceptedHasStarted /\ EndsAreReported /\ BeginsOnce /\ SocketKnows
  BY DEF IInv
<1>2. ExecutesAtMostOnce
  BY <1>1 DEF ExecutesAtMostOnce, BeginsOnce
<1>3. ASSUME Executing PROVE agent.id \in Commands /\ agent.socket # None
  BY <1>1, <1>3 DEF Executing, SocketsFit, TypeOK, Agents, OrNone
<1>4. ExecutingIsRunning
  <2> SUFFICES ASSUME Executing PROVE command[agent.id].state \in {"running", "failed"}
    BY DEF ExecutingIsRunning
  <2>1. Busy(agent.id) /\ agent.id \in Commands
    BY <1>3 DEF Busy, Executing
  <2>2. begun[agent.id] = 1
    BY <1>1, <2>1 DEF BeginsOnce
  <2>3. command[agent.id].state \in Started
    BY <1>1, <2>1, <2>2 DEF AcceptedHasStarted
  <2>4. command[agent.id].state # "succeeded"
    BY <1>1, <2>1 DEF EndsAreReported, Reported
  <2> QED
    BY <2>3, <2>4 DEF Started
<1>5. ExecutingSocketIsKnown
  <2> SUFFICES ASSUME Executing, agent.socket \in Listed
               PROVE  agent.socket \in Ready /\ agent.id \in socket[agent.socket].active
    BY DEF ExecutingSocketIsKnown
  <2>1. agent.id \in Commands /\ agent.socket # None /\ socket[agent.socket].phase = "open"
    BY <1>3 DEF Listed
  <2> QED
    BY <1>1, <2>1 DEF SocketKnows, Executing, Ready
<1> QED
  BY <1>2, <1>4, <1>5 DEF ExecutionIsSound

\* The inductive invariant holds in every state.
THEOREM IInvHolds == Spec => []IInv
BY InvInit, InvStep, PTL DEF Spec

\* Every attachment, row, message and frame is one the code can write: a
\* handler sends a command only after it has leased one (sendPendingCommands).
THEOREM TypesAreCorrect == Spec => []TypeOK
<1>1. IInv => TypeOK
  BY DEF IInv
<1> QED
  BY <1>1, IInvHolds, PTL

\* However many sockets a connector has open, its host sessions are asked for
\* on one of them at a time: the cooldown is forgotten when the Durable Object
\* hibernates or a socket closes, the attachments are not
\* (dispatchHostSessionsRefreshToSocket).
THEOREM OneRefreshAtATime == Spec => []OneRefreshPending
<1>1. IInv => OneRefreshPending
  BY OneAskedCounts DEF IInv
<1> QED
  BY <1>1, IInvHolds, PTL

\* A command that is dispatched several times, on one socket or on several,
\* because its lease ran out or a send failed, is executed once; what is being
\* executed runs, or was failed behind the connector's back, and is on the list
\* of the socket it came on (execute_dispatch, recordAgentEvent).
THEOREM ExecutionSound == Spec => []ExecutionIsSound
<1>1. IInv => ExecutionIsSound
  BY InvIsSound
<1> QED
  BY <1>1, IInvHolds, PTL

-----------------------------------------------------------------------------
(* No running command is overlooked, as long as no lease runs out and no   *)
(* handler is lost.                                                        *)

\* A handler that has leased a command and neither sent nor released it yet;
\* one that is going to fail it; a socket that has it on its list; and
\* whether it was ever handed to the connector, as far as something of it is
\* left.
Leases(f, c) == f.op = "dispatch" /\ f.at \in {"send", "release"} /\ f.id = c
Fails(f, c) ==
    /\ f.op = "gone"
    /\ (f.at = "select" /\ c \in ScopeOf(f)) \/ (f.at = "fail" /\ c \in f.rest)
OnList(c) == \E s \in Listed : c \in socket[s].active
Handed(c) ==
    \/ \E s \in Sockets : \E i \in DOMAIN work[s] : work[s][i] = c
    \/ agent.doing # "reading" /\ agent.id = c
    \/ \E s \in Sockets : \E i \in DOMAIN inbox[s] :
          inbox[s][i].kind \in Kinds /\ inbox[s][i].id = c
    \/ \E w \in Handlers : run[w].op = "event" /\ run[w].id = c

\* A command is leased by one handler at a time, which hands it over at most
\* once: what is not yet sent was never seen by the connector.  An active
\* command is in the hands of such a handler, on the list of an open socket,
\* or about to be failed by the close of one.
Minded(c) == OnList(c) \/ \E w \in Handlers : Leases(run[w], c) \/ Fails(run[w], c)
MindedFor(c) ==
    /\ ~command[c].expired
    /\ command[c].state \in {"absent", "pending"} => ~Handed(c)
    /\ \A w \in Handlers : Leases(run[w], c) =>
          command[c].state \in {"leased", "failed"} /\ ~Handed(c)
    /\ \A v, w \in Handlers : Leases(run[v], c) /\ Leases(run[w], c) => v = w
    /\ Active(c) => Minded(c)
MindedInv == \A c \in Commands : MindedFor(c)

\* Frames that neither lease a command nor are going to fail one, attachments
\* with the lists they had, and a step of a handler that keeps to these.
Plain(f) ==
    /\ f.op = "dispatch" => f.at \notin {"send", "release"}
    /\ f.op = "gone" => f.at \notin {"select", "fail"}
SameLists(a) ==
    /\ a \in [Sockets -> Attachments]
    /\ \A s \in Sockets : a[s].phase = socket[s].phase /\ a[s].active = socket[s].active
ListsKeep == \A s \in Listed : s \in Listed' /\ socket[s].active \subseteq socket'[s].active
Only(w) == \A v \in Handlers \ {w} : run'[v] = run[v]
Quietly(w) == Only(w) /\ Plain(run[w]) /\ Plain(run'[w]) /\ ListsKeep

LEMMA SameListsKeep ==
    ASSUME TypeOK
    PROVE  /\ SameLists(socket)
           /\ SameLists(socket') => ListsKeep
           /\ socket' = socket => ListsKeep
BY DEF SameLists, ListsKeep, Listed, TypeOK

LEMMA LookedLists ==
    ASSUME NEW a, SameLists(a)
    PROVE  SameLists(Looked(a))
<1>1. a \in [Sockets -> Attachments] /\ Looked(a) \in [Sockets -> Attachments]
  BY LookedType DEF SameLists
<1>2. ASSUME NEW s \in Sockets
      PROVE  Looked(a)[s].phase = a[s].phase /\ Looked(a)[s].active = a[s].active
  <2>1. a[s] \in Attachments /\ Looked(a)[s] \in {a[s], [a[s] EXCEPT !.pending = "no"]}
    BY <1>1 DEF Looked
  <2> QED
    BY <2>1 DEF Attachments
<1> QED
  BY <1>1, <1>2 DEF SameLists

LEMMA WrittenLists ==
    ASSUME NEW a, SameLists(a), NEW s \in Sockets, NEW p \in {"no", "yes", "late"}, NEW r \in BOOLEAN
    PROVE  /\ SameLists([a EXCEPT ![s].pending = p])
           /\ SameLists([a EXCEPT ![s].ready = r, ![s].pending = p])
<1> DEFINE b == [a[s] EXCEPT !.pending = p]
           d == [a[s] EXCEPT !.ready = r, !.pending = p]
<1>1. a \in [Sockets -> Attachments] /\ a[s] \in Attachments
  BY DEF SameLists
<1>2. b \in Attachments /\ d \in Attachments
  BY <1>1, AttachmentType
<1>3. b.phase = a[s].phase /\ b.active = a[s].active /\ d.phase = a[s].phase /\ d.active = a[s].active
  BY <1>1 DEF Attachments
<1>4. /\ [a EXCEPT ![s].pending = p] = [a EXCEPT ![s] = b]
      /\ [a EXCEPT ![s].ready = r, ![s].pending = p] = [a EXCEPT ![s] = d]
  BY <1>1
<1> HIDE DEF b, d
<1>5. SameLists([a EXCEPT ![s] = b]) /\ SameLists([a EXCEPT ![s] = d])
  BY <1>1, <1>2, <1>3 DEF SameLists
<1> QED
  BY <1>4, <1>5

LEMMA AskLists ==
    ASSUME TypeOK, NEW s \in Sockets, AskSessions(s)
    PROVE  ListsKeep
<1>1. SameLists(socket) /\ SameLists(Looked(socket))
  BY SameListsKeep, LookedLists
<1>2. CASE Refreshing(socket) \/ cooling
  BY <1>1, <1>2, SameListsKeep DEF AskSessions
<1>3. CASE ~(Refreshing(socket) \/ cooling)
  <2> DEFINE a == Looked(socket)
             p == IF socket[s].ready THEN "yes" ELSE a[s].pending
  <2>1. a[s] \in Attachments
    BY <1>1 DEF SameLists
  <2>2. p \in {"no", "yes", "late"}
    BY <2>1, AttachmentType
  <2>3. socket' = [a EXCEPT ![s].pending = p]
    BY <1>3 DEF AskSessions
  <2>4. SameLists(a)
    BY <1>1
  <2> HIDE DEF a, p
  <2>5. SameLists([a EXCEPT ![s].pending = p])
    BY <2>2, <2>4, WrittenLists
  <2> QED
    BY <2>3, <2>5, SameListsKeep
<1> QED
  BY <1>2, <1>3

LEMMA QuietlyMoves ==
    ASSUME TypeOK, NEW w \in Handlers, NEW g, run' = [run EXCEPT ![w] = g],
           Plain(run[w]), Plain(g), ListsKeep
    PROVE  Quietly(w)
BY DEF Quietly, Only, TypeOK

PlainTurn(w) ==
    \/ ReadyUpdate(w) \/ ReadyMark(w) \/ ReadyRefresh(w) \/ ReadyDispatch(w) \/ ReportAnswer(w)
    \/ Pick(w) \/ PickListed(w) \/ AfterRelease(w) \/ DispatchDegrade(w)
    \/ GoneDegrade(w) \/ GoneOffline(w)
PlainBegin(w) ==
    \/ \E s \in Sockets : ReadyBegin(w, s) \/ ReportBegin(w, s)
                          \/ \E kind \in Kinds : EventBegin(w, s, kind)
    \/ DispatchRequest(w) \/ ResumeRequest(w)
    \/ \E c \in Commands : Request(w, c)

LEMMA PlainFrames ==
    /\ Plain(Idle)
    /\ \A s, a : Plain(DispatchOn(s, a))
    /\ \A at, s, c : at \notin {"send", "release"} => Plain(Dispatch(at, s, c))
    /\ \A f, c : Plain(f) => ~Leases(f, c) /\ ~Fails(f, c)
BY DEF Plain, Idle, DispatchOn, Dispatch, Leases, Fails

LEMMA PlainTurnMoves ==
    ASSUME TypeOK, FramesFit, NEW w \in Handlers, PlainTurn(w)
    PROVE  Quietly(w) /\ command' = command
<1> DEFINE f == run[w]
<1>t. /\ f.op = "ready" => f \in ReadyFrames
      /\ f.op = "report" => f \in ReportFrames
      /\ f.op = "dispatch" => f \in DispatchFrames
      /\ f.op = "gone" => f \in GoneFrames
  BY FrameByOp DEF TypeOK
<1>c. command' = command
  BY DEF PlainTurn, ReadyUpdate, ReadyMark, ReadyRefresh, ReadyDispatch, ReportAnswer, Pick,
         PickListed, AfterRelease, DispatchDegrade, GoneDegrade, GoneOffline
<1> SUFFICES Quietly(w)
  BY <1>c
<1>p. Plain(f)
  BY DEF PlainTurn, ReadyUpdate, ReadyMark, ReadyRefresh, ReadyDispatch, ReportAnswer, Pick,
         PickListed, AfterRelease, DispatchDegrade, GoneDegrade, GoneOffline, Plain
<1>l. ListsKeep
  <2>s. SameLists(socket) /\ \A a : SameLists(a) => SameLists(Looked(a))
    BY SameListsKeep, LookedLists
  <2>1. CASE ReadyMark(w)
    <3> DEFINE s == f.socket
               p == IF socket[s].pending = "late" THEN "no" ELSE socket[s].pending
    <3>1. s \in Sockets
      BY <1>t, <2>1 DEF ReadyMark, ReadyFrames
    <3>2. socket[s] \in Attachments
      BY <3>1 DEF TypeOK
    <3>3. p \in {"no", "yes", "late"}
      BY <3>2, AttachmentType
    <3>4. socket' = [socket EXCEPT ![s].ready = TRUE, ![s].pending = p]
      BY <2>1, <3>1 DEF ReadyMark, TypeOK
    <3> HIDE DEF s, p
    <3> QED
      BY <2>s, <3>1, <3>3, <3>4, WrittenLists, SameListsKeep
  <2>2. CASE ReadyRefresh(w)
    <3>1. f.socket \in Sockets
      BY <1>t, <2>2 DEF ReadyRefresh, ReadyFrames
    <3>2. AskSessions(f.socket) \/ socket' = Looked(socket) \/ socket' = socket
      BY <2>2 DEF ReadyRefresh
    <3> QED
      BY <2>s, <3>1, <3>2, AskLists, SameListsKeep
  <2>3. CASE ReportAnswer(w)
    <3> DEFINE a == [socket EXCEPT ![f.socket].pending = "no"]
    <3>1. f.socket \in Sockets
      BY <1>t, <2>3 DEF ReportAnswer, ReportFrames
    <3>2. socket' = socket \/ socket' = a \/ socket' = Looked(a)
      BY <2>3 DEF ReportAnswer
    <3>3. SameLists(a)
      BY <2>s, <3>1, WrittenLists
    <3> HIDE DEF a
    <3> QED
      BY <2>s, <3>2, <3>3, SameListsKeep
  <2>4. CASE socket' = socket \/ socket' = Looked(socket)
    BY <2>s, <2>4, SameListsKeep
  <2> QED
    BY <2>1, <2>2, <2>3, <2>4
       DEF PlainTurn, ReadyUpdate, ReadyDispatch, Pick, PickListed, AfterRelease, DispatchDegrade,
           GoneDegrade, GoneOffline
<1>g. ASSUME NEW g, run' = [run EXCEPT ![w] = g], Plain(g) PROVE Quietly(w)
  BY <1>g, <1>l, <1>p, QuietlyMoves
<1>e. ASSUME End(w) PROVE Quietly(w)
  BY <1>e, <1>g, PlainFrames DEF End
<1>d. ASSUME NEW s, NEW a, run' = [run EXCEPT ![w] = DispatchOn(s, a)] PROVE Quietly(w)
  BY <1>d, <1>g, PlainFrames
<1>a. ASSUME NEW at, Goto(w, at), f.op = "ready" \/ (f.op = "dispatch" /\ at \notin {"send", "release"})
      PROVE  Quietly(w)
  <2>1. [f EXCEPT !.at = at].op = f.op /\ [f EXCEPT !.at = at].at = at
    BY <1>t, <1>a DEF ReadyFrames, DispatchFrames
  <2>2. Plain([f EXCEPT !.at = at])
    BY <1>a, <2>1 DEF Plain
  <2> QED
    BY <1>a, <1>g, <2>2 DEF Goto
<1>1. CASE ReadyUpdate(w)
  <2> DEFINE g == [[f EXCEPT !.at = "mark"] EXCEPT !.news = f.news \/ status # "online"]
  <2>1. run' = [run EXCEPT ![w] = g]
    BY <1>1 DEF ReadyUpdate, TypeOK
  <2>2. g.op = "ready"
    BY <1>t, <1>1 DEF ReadyUpdate, ReadyFrames
  <2> HIDE DEF g
  <2>3. Plain(g)
    BY <2>2 DEF Plain
  <2> QED
    BY <1>g, <2>1, <2>3
<1>2. CASE ReadyMark(w)
  BY <1>2, <1>a, <1>e DEF ReadyMark
<1>3. CASE ReadyRefresh(w)
  BY <1>3, <1>a, <1>e DEF ReadyRefresh, Blocked
<1>4. CASE ReadyDispatch(w)
  BY <1>4, <1>d DEF ReadyDispatch
<1>5. CASE ReportAnswer(w)
  BY <1>5, <1>d, <1>e DEF ReportAnswer, Blocked
<1>6. CASE Pick(w)
  <2>1. \/ run' = [run EXCEPT ![w] = Idle]
        \/ run' = [run EXCEPT ![w] = Dispatch("lease", Newest(Ready), None)]
    BY <1>6 DEF Pick, Blocked, End
  <2>2. Plain(Dispatch("lease", Newest(Ready), None)) /\ Plain(Idle)
    BY PlainFrames
  <2> QED
    BY <1>g, <2>1, <2>2
<1>7. CASE PickListed(w)
  BY <1>7, <1>d, <1>e DEF PickListed, Blocked, End
<1>8. CASE AfterRelease(w) \/ DispatchDegrade(w)
  BY <1>8, <1>a DEF AfterRelease, DispatchDegrade
<1>9. CASE GoneDegrade(w) \/ GoneOffline(w)
  BY <1>9, <1>e DEF GoneDegrade, GoneOffline
<1> QED
  BY <1>1, <1>2, <1>3, <1>4, <1>5, <1>6, <1>7, <1>8, <1>9 DEF PlainTurn

LEMMA PlainBeginMoves ==
    ASSUME TypeOK, NEW w \in Handlers, PlainBegin(w)
    PROVE  Quietly(w) /\ (command' = command \/ \E c \in Commands : Request(w, c))
<1>c. command' = command \/ \E c \in Commands : Request(w, c)
  BY DEF PlainBegin, ReadyBegin, ReportBegin, EventBegin, DispatchRequest, ResumeRequest
<1> SUFFICES Quietly(w)
  BY <1>c
<1>p. Plain(run[w])
  BY DEF PlainBegin, ReadyBegin, ReportBegin, EventBegin, DispatchRequest, ResumeRequest, Request,
         Takes, Free, Plain
<1>l. ListsKeep
  <2>1. socket' = socket \/ socket' = Looked(socket)
    BY DEF PlainBegin, ReadyBegin, ReportBegin, EventBegin, DispatchRequest, ResumeRequest, Request
  <2> QED
    BY <2>1, SameListsKeep, LookedLists
<1>g. ASSUME NEW g, run' = [run EXCEPT ![w] = g], Plain(g) PROVE Quietly(w)
  BY <1>g, <1>l, <1>p, QuietlyMoves
<1>o. ASSUME NEW g, g.op \notin {"dispatch", "gone"} PROVE Plain(g)
  BY <1>o DEF Plain
<1>1. ASSUME NEW s \in Sockets, ReadyBegin(w, s) PROVE Quietly(w)
  <2> DEFINE g == [op |-> "ready", at |-> "update", socket |-> s, news |-> ~socket[s].ready]
  <2>1. run' = [run EXCEPT ![w] = g] /\ g.op = "ready"
    BY <1>1 DEF ReadyBegin
  <2> HIDE DEF g
  <2> QED
    BY <1>g, <1>o, <2>1
<1>2. ASSUME NEW s \in Sockets, ReportBegin(w, s) PROVE Quietly(w)
  <2> DEFINE g == [op |-> "report", at |-> "answer", socket |-> s]
  <2>1. run' = [run EXCEPT ![w] = g] /\ g.op = "report"
    BY <1>2 DEF ReportBegin
  <2> HIDE DEF g
  <2> QED
    BY <1>g, <1>o, <2>1
<1>3. ASSUME NEW s \in Sockets, NEW kind \in Kinds, EventBegin(w, s, kind) PROVE Quietly(w)
  <2> DEFINE g == [op |-> "event", at |-> "record", socket |-> s, id |-> Head(inbox[s]).id,
                   kind |-> kind, accepted |-> FALSE]
  <2>1. run' = [run EXCEPT ![w] = g] /\ g.op = "event"
    BY <1>3 DEF EventBegin
  <2> HIDE DEF g
  <2> QED
    BY <1>g, <1>o, <2>1
<1>4. CASE ResumeRequest(w)
  <2> DEFINE g == [Dispatch("pickListed", None, None) EXCEPT !.seen = Listed]
  <2>1. run' = [run EXCEPT ![w] = g]
    BY <1>4 DEF ResumeRequest
  <2>2. g.op = "dispatch" /\ g.at = "pickListed"
    BY DEF Dispatch
  <2> HIDE DEF g
  <2>3. Plain(g)
    BY <2>2 DEF Plain
  <2> QED
    BY <1>g, <2>1, <2>3
<1>5. CASE DispatchRequest(w) \/ \E c \in Commands : Request(w, c)
  <2>1. run' = [run EXCEPT ![w] = Dispatch("pick", None, None)]
    BY <1>5 DEF DispatchRequest, Request
  <2>2. Plain(Dispatch("pick", None, None))
    BY PlainFrames
  <2> QED
    BY <1>g, <2>1, <2>2
<1> QED
  BY <1>1, <1>2, <1>3, <1>4, <1>5 DEF PlainBegin

\* The steps that no handler makes.
LEMMA OthersKeepLists ==
    ASSUME TypeOK, ~MayExpire,
           \/ AgentGoesOn \/ Connect \/ Leave \/ QuietOther
    PROVE  run' = run /\ command' = command /\ ListsKeep
<1>1. CASE AgentGoesOn \/ Leave \/ CooldownEnds \/ Hibernate \/ UNCHANGED vars
  BY <1>1, SameListsKeep
     DEF AgentGoesOn, SendReady, HearReady, HearRefresh, TakeDispatch, HearStarted, Finish,
         HearFinished, Leave, CooldownEnds, Hibernate, vars
<1>2. CASE Connect
  <2>1. PICK s \in Sockets : /\ socket[s].phase = "new"
                             /\ socket' = [socket EXCEPT ![s].phase = "open"]
    BY <1>2 DEF Connect
  <2>2. \A t \in Sockets \ {s} : socket'[t] = socket[t]
    BY <2>1 DEF TypeOK
  <2>3. s \notin Listed
    BY <2>1 DEF Listed
  <2>4. ListsKeep
    BY <2>2, <2>3 DEF ListsKeep, Listed
  <2> QED
    BY <1>2, <2>4 DEF Connect
<1>3. CASE RefreshRequest
  <2>1. Ready \subseteq Sockets /\ Ready # {} /\ AskSessions(Newest(Ready))
    BY <1>3 DEF RefreshRequest, Ready, Listed
  <2>2. Newest(Ready) \in Sockets
    BY <2>1, NewestExists
  <2> QED
    BY <1>3, <2>1, <2>2, AskLists DEF RefreshRequest
<1>4. ASSUME NEW s \in Sockets, RefreshLapses(s)
      PROVE  run' = run /\ command' = command /\ ListsKeep
  <2>1. socket' = [socket EXCEPT ![s].pending = "late"]
    BY <1>4 DEF RefreshLapses
  <2> QED
    BY <1>4, <2>1, SameListsKeep, WrittenLists DEF RefreshLapses
<1> QED
  BY <1>1, <1>2, <1>3, <1>4 DEF QuietOther, LeaseExpires

\* The steps that record an event, answer it, and close a socket.
LEMMA RecordMoves ==
    ASSUME TypeOK, FramesFit, NEW w \in Handlers, EventRecord(w)
    PROVE  /\ Quietly(w) /\ run[w].op = "event" /\ run[w].id \in Commands
           /\ \/ command' = command
              \/ /\ Active(run[w].id)
                 /\ \E st \in {"running", "succeeded"} :
                       command' = [command EXCEPT ![run[w].id].state = st]
<1> DEFINE f == run[w]
           g == [[f EXCEPT !.at = "answer"] EXCEPT !.accepted = Accepts(f.id)]
<1>1. f \in EventFrames /\ f.op = "event" /\ f.id \in Commands
  BY FrameByOp DEF EventRecord, TypeOK, EventFrames
<1>2. run' = [run EXCEPT ![w] = g]
  BY DEF EventRecord, TypeOK
<1>3. g.op = "event"
  BY <1>1 DEF EventFrames
<1>4. ListsKeep
  BY SameListsKeep DEF EventRecord
<1>5. Plain(f)
  BY <1>1 DEF Plain
<1>6. \/ command' = command
      \/ /\ Active(f.id)
         /\ \E st \in {"running", "succeeded"} : command' = [command EXCEPT ![f.id].state = st]
  BY DEF EventRecord, Accepts
<1> HIDE DEF g
<1>7. Plain(g)
  BY <1>3 DEF Plain
<1>8. Quietly(w)
  BY <1>2, <1>4, <1>5, <1>7, QuietlyMoves
<1> QED
  BY <1>1, <1>6, <1>8

LEMMA AnswerMoves ==
    ASSUME TypeOK, FramesFit, NEW w \in Handlers, EventAnswer(w)
    PROVE  /\ command' = command /\ Only(w) /\ Plain(run[w]) /\ Plain(run'[w])
           /\ \/ ListsKeep
              \/ /\ IsEvent(w, "finished") /\ run[w].at = "answer"
                 /\ \A s \in Listed : /\ s \in Listed'
                                      /\ socket[s].active \ {run[w].id} \subseteq socket'[s].active
<1> DEFINE f == run[w]
           a == [socket EXCEPT ![f.socket].active = @ \ {f.id}]
<1>1. f \in EventFrames /\ f.op = "event" /\ f.at = "answer" /\ f.socket \in Sockets
  BY FrameByOp DEF EventAnswer, TypeOK, EventFrames
<1>2. Plain(f)
  BY <1>1 DEF Plain
<1>3. run' = [run EXCEPT ![w] = Idle] \/ run' = [run EXCEPT ![w] = DispatchOn(f.socket, a)]
  BY DEF EventAnswer, End
<1>4. Only(w) /\ Plain(run'[w])
  <2> HIDE DEF a
  <2> QED
    BY <1>3, PlainFrames DEF Only, TypeOK
<1>5. socket' = socket \/ (Clears(f) /\ socket' = Looked(a))
  BY DEF EventAnswer
<1>6. CASE socket' = Looked(a)
  <2>1. a \in [Sockets -> Attachments]
    <3>1. socket[f.socket] \in Attachments
      BY <1>1 DEF TypeOK
    <3>2. [socket[f.socket] EXCEPT !.active = @ \ {f.id}] \in Attachments
      BY <3>1, AttachmentType
    <3> QED
      BY <3>2 DEF TypeOK
  <2>2. ASSUME NEW s \in Listed
        PROVE  s \in Listed' /\ socket[s].active \ {f.id} \subseteq socket'[s].active
    <3>1. socket[s] \in Attachments /\ a[s] \in Attachments
      BY <2>1 DEF Listed, TypeOK
    <3>2. a[s].phase = socket[s].phase /\ socket[s].active \ {f.id} \subseteq a[s].active
      BY <3>1 DEF Listed, TypeOK, Attachments
    <3>3. Looked(a)[s] \in {a[s], [a[s] EXCEPT !.pending = "no"]}
      BY DEF Looked, Listed
    <3> HIDE DEF a
    <3>4. Looked(a)[s].phase = a[s].phase /\ Looked(a)[s].active = a[s].active
      BY <3>1, <3>3 DEF Attachments
    <3> QED
      BY <1>6, <3>2, <3>4 DEF Listed
  <2> QED
    BY <1>1, <1>2, <1>4, <1>5, <1>6, <2>2, SameListsKeep DEF IsEvent, Clears, EventAnswer
<1>7. CASE socket' = socket
  BY <1>2, <1>4, <1>7, SameListsKeep DEF EventAnswer
<1> QED
  BY <1>5, <1>6, <1>7

LEMMA GoneBeginMoves ==
    ASSUME TypeOK, NEW w \in Handlers, NEW s \in Sockets, GoneBegin(w, s)
    PROVE  /\ command' = command /\ Only(w) /\ Plain(run[w])
           /\ \A c : ~Leases(run'[w], c)
           /\ \A t \in Listed \ {s} : t \in Listed' /\ socket'[t] = socket[t]
           /\ \A c \in socket[s].active : Fails(run'[w], c)
<1> DEFINE ready == Ready \ {s} # {}
           g == [op |-> "gone", at |-> "select", socket |-> s, peer |-> Listed \ {s} # {},
                 readyPeer |-> ready, rest |-> socket[s].active]
<1>1. command' = command /\ Plain(run[w])
  BY DEF GoneBegin, Free, Plain
<1>2. run' = [run EXCEPT ![w] = IF ready /\ socket[s].active = {} THEN Idle ELSE g]
  BY DEF GoneBegin
<1>3. \A t \in Listed \ {s} : t \in Listed' /\ socket'[t] = socket[t]
  BY DEF GoneBegin, Listed, TypeOK
<1>4. g.op = "gone" /\ g.at = "select" /\ g.rest = socket[s].active
  OBVIOUS
<1>5. socket[s].active \subseteq Commands
  BY DEF TypeOK, Attachments
<1> HIDE DEF g
<1>6. \A c : ~Leases(g, c) /\ ~Leases(Idle, c)
  BY <1>4 DEF Leases, Idle
<1>7. \A c \in socket[s].active : Fails(g, c)
  BY <1>4, <1>5 DEF Fails, ScopeOf
<1>8. Only(w) /\ run'[w] = IF ready /\ socket[s].active = {} THEN Idle ELSE g
  BY <1>2 DEF Only, TypeOK
<1>9. \A c : ~Leases(run'[w], c)
  BY <1>6, <1>8
<1>10. \A c \in socket[s].active : Fails(run'[w], c)
  BY <1>7, <1>8
<1> QED
  BY <1>1, <1>3, <1>8, <1>9, <1>10

LEMMA GoneTurnMoves ==
    ASSUME TypeOK, NEW w \in Handlers, GoneSelect(w) \/ GoneFail(w)
    PROVE  /\ Only(w) /\ ListsKeep
           /\ \A c : ~Leases(run[w], c) /\ ~Leases(run'[w], c)
           /\ \A c \in Commands : Fails(run[w], c) =>
                Fails(run'[w], c) \/ ~Active(c) \/ ~Active(c)'
           /\ \/ command' = command
              \/ \E c \in Commands :
                   Active(c) /\ command' = [command EXCEPT ![c] = [state |-> "failed", expired |-> FALSE]]
<1> DEFINE f == run[w]
<1>1. f \in GoneFrames /\ f.op = "gone"
  BY FrameByOp DEF GoneSelect, GoneFail, TypeOK
<1>2. ListsKeep
  BY SameListsKeep DEF GoneSelect, GoneFail
<1>3. \A c : ~Leases(f, c)
  BY <1>1 DEF Leases
<1>i. \A c : ~Leases(Idle, c)
  BY DEF Leases, Idle
<1>4. CASE GoneSelect(w)
  <2> DEFINE g == [[f EXCEPT !.at = "fail"] EXCEPT !.rest = {c \in ScopeOf(f) : Active(c)}]
  <2>1. run' = [run EXCEPT ![w] = g] /\ f.at = "select" /\ command' = command
    BY <1>4 DEF GoneSelect, TypeOK
  <2>2. g.op = "gone" /\ g.at = "fail" /\ g.rest = {c \in ScopeOf(f) : Active(c)}
    BY <1>1 DEF GoneFrames
  <2> HIDE DEF g
  <2>3. \A c : ~Leases(g, c)
    BY <2>2 DEF Leases
  <2>4. \A c : Fails(f, c) => Fails(g, c) \/ ~Active(c)
    BY <2>1, <2>2 DEF Fails
  <2>5. run'[w] = g /\ Only(w)
    BY <2>1 DEF Only, TypeOK
  <2> QED
    BY <1>2, <1>3, <2>1, <2>3, <2>4, <2>5
<1>5. ASSUME NEW d \in f.rest, f.at = "fail",
             command' = IF Active(d)
                THEN [command EXCEPT ![d] = [state |-> "failed", expired |-> FALSE]] ELSE command,
             run' = [run EXCEPT ![w].rest = @ \ {d}]
      PROVE  /\ Only(w) /\ \A c : ~Leases(run'[w], c)
             /\ \A c \in Commands : Fails(f, c) => Fails(run'[w], c) \/ ~Active(c) \/ ~Active(c)'
             /\ \/ command' = command
                \/ \E c \in Commands : Active(c) /\
                     command' = [command EXCEPT ![c] = [state |-> "failed", expired |-> FALSE]]
  <2> DEFINE g == [f EXCEPT !.rest = f.rest \ {d}]
  <2>1. run' = [run EXCEPT ![w] = g]
    BY <1>5
  <2>2. g.op = "gone" /\ g.at = "fail" /\ g.rest = f.rest \ {d}
    BY <1>1, <1>5 DEF GoneFrames
  <2>d. d \in Commands
    BY <1>1 DEF GoneFrames
  <2> HIDE DEF g
  <2>3. \A c : ~Leases(g, c)
    BY <2>2 DEF Leases
  <2>4. \A c : c # d /\ Fails(f, c) => Fails(g, c)
    BY <1>5, <2>2 DEF Fails
  <2>5. ~Active(d) \/ ~Active(d)'
    BY <1>5, <2>d DEF Active, TypeOK
  <2>6. run'[w] = g /\ Only(w)
    BY <2>1 DEF Only, TypeOK
  <2> QED
    BY <1>5, <2>d, <2>3, <2>4, <2>5, <2>6
<1>6. CASE GoneFail(w) /\ f.rest = {}
  <2>1. f.at = "fail" /\ command' = command
    BY <1>6 DEF GoneFail
  <2>2. \A c : ~Fails(f, c)
    BY <1>6, <2>1 DEF Fails
  <2>3. PICK to \in {"none", "degrade", "offline"} : IF to = "none" THEN End(w) ELSE Goto(w, to)
    BY <1>6 DEF GoneFail
  <2>4. \A at : [f EXCEPT !.at = at].op = "gone"
    BY <1>1 DEF GoneFrames
  <2>5. \A at, c : ~Leases([f EXCEPT !.at = at], c)
    BY <2>4 DEF Leases
  <2>6. Only(w) /\ (run'[w] = Idle \/ \E at \in {"degrade", "offline"} : run'[w] = [f EXCEPT !.at = at])
    BY <2>3 DEF End, Goto, Only, TypeOK
  <2>7. \A c : ~Leases(run'[w], c)
    BY <1>i, <2>5, <2>6
  <2> QED
    BY <1>2, <1>3, <2>1, <2>2, <2>6, <2>7
<1>7. CASE GoneFail(w) /\ f.rest # {}
  <2>1. PICK d \in f.rest :
          /\ command' = IF Active(d)
                THEN [command EXCEPT ![d] = [state |-> "failed", expired |-> FALSE]] ELSE command
          /\ run' = [run EXCEPT ![w].rest = @ \ {d}]
    BY <1>7 DEF GoneFail
  <2>2. f.at = "fail"
    BY <1>7 DEF GoneFail
  <2> QED
    BY <1>2, <1>3, <1>5, <2>1, <2>2
<1> QED
  BY <1>4, <1>6, <1>7

\* The steps that lease a command, send it and give it back.
LEMMA LeaseMoves ==
    ASSUME TypeOK, NEW w \in Handlers, Lease(w)
    PROVE  /\ Only(w) /\ ListsKeep /\ Plain(run[w])
           /\ \A c : ~Fails(run'[w], c)
           /\ \A c \in Commands : Leases(run'[w], c) =>
                /\ Leasable(c)
                /\ command' = [command EXCEPT ![c] = [state |-> "leased", expired |-> FALSE]]
           /\ \/ command' = command
              \/ \E c \in Commands : Leases(run'[w], c)
<1> DEFINE f == run[w]
<1>1. f \in DispatchFrames /\ f.op = "dispatch" /\ f.at = "lease"
  BY FrameByOp DEF Lease, TypeOK
<1>2. ListsKeep /\ Plain(f)
  BY <1>1, SameListsKeep DEF Lease, Plain
<1>3. ASSUME End(w), command' = command
      PROVE  /\ Only(w) /\ \A c : ~Fails(run'[w], c) /\ ~Leases(run'[w], c)
             /\ command' = command
  <2>1. run'[w] = Idle /\ Only(w)
    BY <1>3 DEF End, Only, TypeOK
  <2> QED
    BY <1>3, <2>1, PlainFrames
<1>4. ASSUME NEW c \in Commands, Leasable(c),
             command' = [command EXCEPT ![c] = [state |-> "leased", expired |-> FALSE]],
             run' = [run EXCEPT ![w].at = "send", ![w].id = c]
      PROVE  /\ Only(w) /\ Leases(run'[w], c)
             /\ \A d : ~Fails(run'[w], d) /\ (Leases(run'[w], d) => d = c)
  <2> DEFINE g == [[f EXCEPT !.at = "send"] EXCEPT !.id = c]
  <2>1. run' = [run EXCEPT ![w] = g]
    BY <1>4 DEF TypeOK
  <2>2. g.op = "dispatch" /\ g.at = "send" /\ g.id = c
    BY <1>1 DEF DispatchFrames
  <2> HIDE DEF g
  <2>3. run'[w] = g /\ Only(w)
    BY <2>1 DEF Only, TypeOK
  <2> QED
    BY <2>2, <2>3 DEF Leases, Fails
<1>5. CASE End(w) /\ command' = command
  BY <1>2, <1>3, <1>5
<1>6. CASE \E c \in Commands :
              /\ Leasable(c)
              /\ command' = [command EXCEPT ![c] = [state |-> "leased", expired |-> FALSE]]
              /\ run' = [run EXCEPT ![w].at = "send", ![w].id = c]
  BY <1>2, <1>4, <1>6
<1> QED
  BY <1>5, <1>6 DEF Lease, Blocked

LEMMA SendMoves ==
    ASSUME TypeOK, FramesFit, NEW w \in Handlers, Send(w)
    PROVE  /\ command' = command /\ Only(w)
           /\ \A c : ~Fails(run[w], c) /\ ~Fails(run'[w], c)
           /\ run[w].id \in Commands /\ \A c : Leases(run[w], c) <=> c = run[w].id
           /\ \/ /\ ListsKeep /\ \A c : ~Leases(run'[w], c)
                 /\ \A c : c = run[w].id => OnList(c)'
              \/ /\ \A c : Leases(run'[w], c) <=> c = run[w].id
                 /\ work' = work
                 /\ \A s \in Listed : /\ s \in Listed'
                                      /\ socket[s].active \ {run[w].id} \subseteq socket'[s].active
<1> DEFINE f == run[w]
           s == f.socket
           c == f.id
<1>1. f \in DispatchFrames /\ f.op = "dispatch" /\ f.at = "send"
  BY FrameByOp DEF Send, TypeOK
<1>2. s \in Sockets /\ c \in Commands
  BY <1>1 DEF FramesFit, DispatchFrames, OrNone
<1>3. \A d : ~Fails(f, d) /\ (Leases(f, d) <=> d = c)
  BY <1>1 DEF Fails, Leases
<1>a. socket[s] \in Attachments
  BY <1>2 DEF TypeOK
<1>4. CASE /\ Delivers(s) /\ socket' = [socket EXCEPT ![s].active = @ \cup {c}] /\ End(w)
  <2> DEFINE b == [socket[s] EXCEPT !.active = @ \cup {c}]
  <2>1. socket' = [socket EXCEPT ![s] = b] /\ b.phase = "open" /\ b.active = socket[s].active \cup {c}
    BY <1>4, <1>2, <1>a DEF Delivers, Attachments
  <2> HIDE DEF b
  <2>2. \A t \in Sockets : socket'[t] = IF t = s THEN b ELSE socket[t]
    BY <1>2, <2>1 DEF TypeOK
  <2>3. ListsKeep
    BY <2>1, <2>2 DEF ListsKeep, Listed
  <2>4. \A d : d = c => OnList(d)'
    <3>1. c \in socket'[s].active /\ s \in Sockets /\ socket'[s].phase = "open"
      BY <1>2, <2>1, <2>2
    <3> QED
      BY <3>1 DEF OnList, Listed
  <2>5. run'[w] = Idle /\ Only(w)
    BY <1>4 DEF End, Only, TypeOK
  <2>6. \A d : ~Fails(run'[w], d) /\ ~Leases(run'[w], d)
    BY <2>5, PlainFrames
  <2> QED
    BY <1>2, <1>3, <2>3, <2>4, <2>5, <2>6 DEF Send
<1>5. CASE /\ socket' = [socket EXCEPT ![s].active = @ \ {c}, ![s].ready = FALSE, ![s].pending = "no"]
           /\ Goto(w, "release") /\ work' = work
  <2> DEFINE b == [socket[s] EXCEPT !.active = @ \ {c}, !.ready = FALSE, !.pending = "no"]
             g == [f EXCEPT !.at = "release"]
  <2>1. socket' = [socket EXCEPT ![s] = b]
    BY <1>5, <1>2 DEF TypeOK
  <2>2. b.phase = socket[s].phase /\ b.active = socket[s].active \ {c}
    BY <1>a DEF Attachments
  <2>3. g.op = "dispatch" /\ g.at = "release" /\ g.id = c /\ run' = [run EXCEPT ![w] = g]
    BY <1>1, <1>5 DEF DispatchFrames, Goto
  <2> HIDE DEF b, g
  <2>4. \A t \in Sockets : socket'[t] = IF t = s THEN b ELSE socket[t]
    BY <1>2, <2>1 DEF TypeOK
  <2>5. \A t \in Listed : t \in Listed' /\ socket[t].active \ {c} \subseteq socket'[t].active
    BY <2>2, <2>4 DEF Listed
  <2>6. run'[w] = g /\ Only(w)
    BY <2>3 DEF Only, TypeOK
  <2>7. \A d : ~Fails(g, d) /\ (Leases(g, d) <=> d = c)
    BY <2>3 DEF Fails, Leases
  <2> QED
    BY <1>2, <1>3, <1>5, <2>5, <2>6, <2>7 DEF Send
<1> QED
  BY <1>4, <1>5 DEF Send

LEMMA ReleaseMoves ==
    ASSUME TypeOK, FramesFit, NEW w \in Handlers, Release(w)
    PROVE  /\ Only(w) /\ ListsKeep /\ Plain(run'[w])
           /\ \A c : ~Fails(run[w], c)
           /\ run[w].id \in Commands /\ \A c : Leases(run[w], c) <=> c = run[w].id
           /\ command' = IF command[run[w].id].state = "leased"
                THEN [command EXCEPT ![run[w].id] = [state |-> "pending", expired |-> FALSE]]
                ELSE command
<1> DEFINE f == run[w]
           g == [f EXCEPT !.at = "after"]
<1>1. f \in DispatchFrames /\ f.op = "dispatch" /\ f.at = "release"
  BY FrameByOp DEF Release, TypeOK
<1>2. f.id \in Commands
  BY <1>1 DEF FramesFit, DispatchFrames, OrNone
<1>3. \A c : ~Fails(f, c) /\ (Leases(f, c) <=> c = f.id)
  BY <1>1 DEF Fails, Leases
<1>4. g.op = "dispatch" /\ g.at = "after" /\ run' = [run EXCEPT ![w] = g]
  BY <1>1 DEF DispatchFrames, Release, Goto
<1> HIDE DEF g
<1>5. Plain(g)
  BY <1>4 DEF Plain
<1>6. run'[w] = g /\ Only(w)
  BY <1>4 DEF Only, TypeOK
<1>7. ListsKeep
  BY SameListsKeep DEF Release
<1> QED
  BY <1>2, <1>3, <1>5, <1>6, <1>7 DEF Release, Releases

LEMMA RequestMoves ==
    ASSUME TypeOK, NEW w \in Handlers, NEW c \in Commands, Request(w, c)
    PROVE  command[c].state = "absent" /\ command' = [command EXCEPT ![c].state = "pending"]
BY DEF Request

\* What is handed over was handed over before, or has just been sent.
Sends(c) == \E w \in Handlers : Send(w) /\ run[w].id = c /\ work' # work

LEMMA HandedWork ==
    ASSUME TypeOK, FramesFit, SocketsFit, [Next]_vars, NEW c \in Commands,
           NEW s \in Sockets, NEW i \in DOMAIN work'[s], work'[s][i] = c
    PROVE  Handed(c) \/ Sends(c)
<1>w. work[s] \in Seq(Commands)
  BY DEF TypeOK
<1>1. CASE work'[s] = work[s]
  BY <1>1 DEF Handed
<1>2. CASE TakeDispatch
  <2>1. work'[s] = work[s] \/ (work'[s] = Tail(work[s]) /\ work[s] # <<>>)
    BY <1>2 DEF TakeDispatch, TypeOK
  <2>2. ASSUME work'[s] = Tail(work[s]), work[s] # <<>> PROVE Handed(c)
    <3>1. i + 1 \in DOMAIN work[s] /\ work[s][i + 1] = c
      BY <1>w, <2>2
    <3> QED
      BY <3>1 DEF Handed
  <2> QED
    BY <1>1, <2>1, <2>2
<1>3. CASE Leave
  <2>1. work'[s] = work[s] \/ work'[s] = <<>>
    BY <1>3 DEF Leave, TypeOK
  <2>2. work'[s] # <<>>
    OBVIOUS
  <2> QED
    BY <1>1, <2>1, <2>2
<1>4. ASSUME NEW w \in Handlers, Send(w), work'[s] # work[s] PROVE Handed(c) \/ Sends(c)
  <2> DEFINE d == run[w].id
  <2>s. s = run[w].socket
    BY <1>4, SendIs DEF TypeOK
  <2>1. work'[s] = Append(work[s], d) /\ d \in Commands
    BY <1>4, <2>s, SendIs DEF TypeOK
  <2>2. CASE i \in DOMAIN work[s]
    <3>1. work[s][i] = c
      BY <1>w, <2>1, <2>2
    <3> QED
      BY <2>2, <3>1 DEF Handed
  <2>3. CASE i \notin DOMAIN work[s]
    <3>1. c = d
      BY <1>w, <2>1, <2>3
    <3>2. work' # work
      BY <1>4
    <3> QED
      BY <1>4, <3>1, <3>2 DEF Sends
  <2> QED
    BY <2>2, <2>3
<1> QED
  BY <1>1, <1>2, <1>3, <1>4, SendsStep

LEMMA HandedAgent ==
    ASSUME TypeOK, FramesFit, SocketsFit, [Next]_vars, NEW c \in Commands,
           agent'.doing # "reading", agent'.id = c
    PROVE  Handed(c)
<1>1. CASE AgentKeeps
  BY <1>1 DEF AgentKeeps, Handed
<1>2. CASE TakeDispatch
  <2> DEFINE s == agent.socket
  <2>1. s \in Sockets /\ work[s] # <<>> /\ agent' = [agent EXCEPT !.doing = "starting", !.id = Head(work[s])]
    BY <1>2 DEF TakeDispatch, TypeOK, Agents, OrNone
  <2>2. work[s] \in Seq(Commands)
    BY <2>1 DEF TypeOK
  <2>3. 1 \in DOMAIN work[s] /\ work[s][1] = Head(work[s])
    BY <2>1, <2>2
  <2>4. Head(work[s]) = c
    BY <2>1 DEF TypeOK, Agents
  <2> QED
    BY <2>1, <2>3, <2>4 DEF Handed
<1>3. CASE HearStarted
  <2>1. agent.doing = "starting" /\ (agent'.id = agent.id \/ agent'.doing = "reading")
    BY <1>3 DEF HearStarted, TypeOK, Agents
  <2> QED
    BY <2>1 DEF Handed
<1>4. CASE Finish
  <2>1. agent.doing = "executing" /\ agent'.id = agent.id
    BY <1>4 DEF Finish, TypeOK, Agents
  <2> QED
    BY <2>1 DEF Handed
<1>5. CASE HearFinished
  BY <1>5 DEF HearFinished, TypeOK, Agents
<1>6. CASE Connect \/ Leave
  BY <1>6 DEF Connect, Leave, Away
<1> QED
  BY <1>1, <1>2, <1>3, <1>4, <1>5, <1>6, AgentStep

LEMMA HandedInbox ==
    ASSUME TypeOK, FramesFit, SocketsFit, [Next]_vars, NEW c \in Commands,
           NEW s \in Sockets, NEW i \in DOMAIN inbox'[s],
           inbox'[s][i].kind \in Kinds, inbox'[s][i].id = c
    PROVE  Handed(c)
<1> DEFINE kind == inbox'[s][i].kind
<1>k. ASSUME NEW kd \in Kinds, kd = inbox'[s][i].kind, InboxKeeps(kd) PROVE Handed(c)
  <2>1. PICK k \in {0, 1} : i + k \in DOMAIN inbox[s] /\ inbox[s][i + k] = inbox'[s][i]
    BY <1>k DEF InboxKeeps
  <2> QED
    BY <1>k, <2>1 DEF Handed
<1>s. ASSUME NEW m, agent.socket # None, Says(m), m.id = c => Handed(c) PROVE Handed(c)
  <2>1. inbox[s] \in Seq(Messages) /\ agent.socket \in Sockets
    BY <1>s DEF TypeOK, Agents, OrNone
  <2>2. CASE i \in DOMAIN inbox[s] /\ inbox'[s][i] = inbox[s][i]
    BY <2>2 DEF Handed
  <2>3. CASE ~(i \in DOMAIN inbox[s] /\ inbox'[s][i] = inbox[s][i])
    <3>1. inbox'[s] = Append(inbox[s], m)
      BY <1>s, <2>1, <2>3 DEF Says, TypeOK
    <3>2. inbox'[s][i] = m
      BY <2>1, <2>3, <3>1
    <3> QED
      BY <1>s, <3>2
  <2> QED
    BY <2>2, <2>3
<1>1. CASE TakeDispatch
  <2> DEFINE a == agent.socket
             d == Head(work[a])
  <2>1. a \in Sockets /\ work[a] # <<>> /\ Says([kind |-> "started", id |-> d])
    BY <1>1 DEF TakeDispatch, TypeOK, Agents, OrNone
  <2>2. work[a] \in Seq(Commands)
    BY <2>1 DEF TypeOK
  <2>3. 1 \in DOMAIN work[a] /\ work[a][1] = d
    BY <2>1, <2>2
  <2>4. d = c => Handed(c)
    BY <2>1, <2>3 DEF Handed
  <2> HIDE DEF d
  <2>5. [kind |-> "started", id |-> d].id = c => Handed(c)
    BY <2>4
  <2> QED
    BY <1>1, <1>s, <2>1, <2>5 DEF TakeDispatch
<1>2. CASE Finish
  <2>1. Says([kind |-> "finished", id |-> agent.id]) /\ agent.doing = "executing"
    BY <1>2 DEF Finish
  <2>2. [kind |-> "finished", id |-> agent.id].id = c => Handed(c)
    BY <2>1 DEF Handed
  <2>3. agent.socket # None
    BY <2>1 DEF SocketsFit
  <2> QED
    BY <1>s, <2>1, <2>2, <2>3
<1>3. ASSUME NEW kd \in Kinds, kd = inbox'[s][i].kind, NEW w \in Handlers, NEW t \in Sockets,
             NEW taken, EventBegin(w, t, taken)
      PROVE  Handed(c)
  BY <1>3, <1>k, TakesKeeps DEF EventBegin
<1>4. ASSUME NEW kd \in Kinds, kd = inbox'[s][i].kind, inbox' = inbox PROVE Handed(c)
  BY <1>4, <1>k, UnchangedKeeps
<1>5. ASSUME NEW kd \in Kinds, kd = inbox'[s][i].kind, ~TakeDispatch, ~Finish PROVE Handed(c)
  <2>1. CASE Keeps(kd)
    BY <1>5, <1>k, <2>1 DEF Keeps
  <2>2. CASE \E w \in Handlers : \/ \E t \in Sockets : EventBegin(w, t, kd)
                                 \/ EventRecord(w) \/ EventAnswer(w)
    BY <1>3, <1>4, <1>5, <2>2 DEF EventRecord, EventAnswer
  <2> QED
    BY <1>5, <2>1, <2>2, KindKeeps
<1> QED
  BY <1>1, <1>2, <1>5

LEMMA HandedFrames ==
    ASSUME TypeOK, FramesFit, SocketsFit, [Next]_vars, NEW c \in Commands,
           NEW v \in Handlers, run'[v].op = "event", run'[v].id = c, run'[v].kind \in Kinds
    PROVE  Handed(c)
<1>1. CASE run'[v] = run[v]
  BY <1>1 DEF Handed
<1>2. ASSUME NEW w \in Handlers, NEW s \in Sockets, NEW kind \in Kinds, EventBegin(w, s, kind)
      PROVE  Handed(c)
  <2> DEFINE g == [op |-> "event", at |-> "record", socket |-> s, id |-> Head(inbox[s]).id,
                   kind |-> kind, accepted |-> FALSE]
  <2>1. run' = [run EXCEPT ![w] = g] /\ inbox[s] # <<>> /\ Head(inbox[s]).kind = kind
    BY <1>2 DEF EventBegin, Takes
  <2>2. g.id = Head(inbox[s]).id
    OBVIOUS
  <2> HIDE DEF g
  <2>3. CASE v = w
    <3>1. Head(inbox[s]).id = c
      BY <2>1, <2>2, <2>3 DEF TypeOK
    <3>2. inbox[s] \in Seq(Messages)
      BY DEF TypeOK
    <3>3. 1 \in DOMAIN inbox[s] /\ inbox[s][1] = Head(inbox[s])
      BY <2>1, <3>2
    <3> QED
      BY <2>1, <3>1, <3>3 DEF Handed
  <2>4. CASE v # w
    BY <1>1, <2>1, <2>4 DEF TypeOK
  <2> QED
    BY <2>3, <2>4
<1>3. ASSUME NEW w \in Handlers, EventRecord(w) PROVE Handed(c)
  <2> DEFINE g == [[run[w] EXCEPT !.at = "answer"] EXCEPT !.accepted = Accepts(run[w].id)]
  <2>1. run[w] \in EventFrames /\ run[w].op = "event"
    BY <1>3, FrameByOp DEF EventRecord, TypeOK
  <2>2. run' = [run EXCEPT ![w] = g]
    BY <1>3 DEF EventRecord, TypeOK
  <2>3. g.id = run[w].id
    BY <2>1 DEF EventFrames
  <2> HIDE DEF g
  <2>4. CASE v = w
    BY <2>1, <2>2, <2>3, <2>4 DEF Handed, TypeOK
  <2>5. CASE v # w
    BY <1>1, <2>2, <2>5 DEF TypeOK
  <2> QED
    BY <2>4, <2>5
<1>4. ASSUME NEW w \in Handlers, EventAnswer(w) PROVE Handed(c)
  <2>1. Only(w) /\ Plain(run'[w]) /\ run'[w].op # "event"
    <3> DEFINE a == [socket EXCEPT ![run[w].socket].active = @ \ {run[w].id}]
    <3>1. run' = [run EXCEPT ![w] = Idle] \/ run' = [run EXCEPT ![w] = DispatchOn(run[w].socket, a)]
      BY <1>4 DEF EventAnswer, End
    <3>2. Idle.op # "event" /\ DispatchOn(run[w].socket, a).op # "event"
      BY DEF Idle, DispatchOn, Dispatch
    <3> HIDE DEF a
    <3> QED
      BY <1>4, <3>1, <3>2, AnswerMoves DEF TypeOK
  <2> QED
    BY <1>1, <2>1 DEF Only
<1>5. CASE TakeDispatch \/ Finish
  BY <1>1, <1>5 DEF TakeDispatch, Finish
<1>6. ASSUME NEW kd \in Kinds, kd = run'[v].kind PROVE Handed(c)
  <2>1. CASE Keeps(kd)
    BY <1>1, <1>6, <2>1 DEF Keeps, EventsKeep
  <2> QED
    BY <1>2, <1>3, <1>4, <1>5, <2>1, KindKeeps
<1> QED
  BY <1>6

LEMMA HandedStep ==
    ASSUME TypeOK, TypeOK', FramesFit, SocketsFit, [Next]_vars, NEW c \in Commands, Handed(c)'
    PROVE  Handed(c) \/ Sends(c)
<1>1. ASSUME NEW v \in Handlers, run'[v].op = "event" PROVE run'[v].kind \in Kinds
  <2>1. run'[v] \in EventFrames
    BY <1>1, FrameByOp DEF TypeOK
  <2> QED
    BY <2>1 DEF EventFrames, Kinds
<1> QED
  BY <1>1, HandedWork, HandedAgent, HandedInbox, HandedFrames DEF Handed

\* What the send of a command leaves: the command is leased or was failed, and
\* nobody holds its lease.
LEMMA SendsIs ==
    ASSUME TypeOK, FramesFit, NEW c \in Commands, MindedFor(c), Sends(c)
    PROVE  /\ command' = command /\ command[c].state \in {"leased", "failed"}
           /\ \A v \in Handlers : ~Leases(run'[v], c)
<1>1. PICK w \in Handlers : Send(w) /\ run[w].id = c /\ work' # work
  BY DEF Sends
<1>2. Leases(run[w], c) /\ command' = command /\ Only(w) /\ ~Leases(run'[w], c)
  BY <1>1, SendMoves
<1>3. command[c].state \in {"leased", "failed"} /\ \A v \in Handlers : Leases(run[v], c) => v = w
  BY <1>2 DEF MindedFor
<1> QED
  BY <1>2, <1>3 DEF Only

\* A step after which nobody has leased the command who had not before.
LEMMA MindedKept ==
    ASSUME TypeOK, TypeOK', FramesFit, SocketsFit, [Next]_vars, NEW c \in Commands, MindedFor(c),
           ~command'[c].expired,
           command'[c].state \in {"absent", "pending"} =>
              \/ command[c].state \in {"absent", "pending"}
              \/ \E w \in Handlers : Leases(run[w], c),
           \A v \in Handlers : Leases(run'[v], c) =>
              Leases(run[v], c) /\ command'[c].state \in {"leased", "failed"},
           Active(c)' => Minded(c)'
    PROVE  MindedFor(c)'
<1>1. Handed(c)' => Handed(c) \/ Sends(c)
  BY HandedStep
<1>2. Sends(c) => /\ command' = command /\ command[c].state \in {"leased", "failed"}
                  /\ \A v \in Handlers : ~Leases(run'[v], c)
  BY SendsIs
<1>3. command'[c].state \in {"absent", "pending"} => ~Handed(c)'
  BY <1>1, <1>2 DEF MindedFor
<1>4. \A w \in Handlers : Leases(run'[w], c) => command'[c].state \in {"leased", "failed"} /\ ~Handed(c)'
  BY <1>1, <1>2 DEF MindedFor
<1>5. \A v, w \in Handlers : Leases(run'[v], c) /\ Leases(run'[w], c) => v = w
  BY DEF MindedFor
<1> QED
  BY <1>3, <1>4, <1>5 DEF MindedFor

LEMMA QuietlyMinds ==
    ASSUME NEW c \in Commands, ListsKeep,
           \/ run' = run
           \/ \E w \in Handlers : Only(w) /\ \/ Plain(run[w])
                                             \/ ~Leases(run[w], c) /\ ~Fails(run[w], c)
    PROVE  Minded(c) => Minded(c)'
<1>1. OnList(c) => OnList(c)'
  BY DEF OnList, ListsKeep
<1>2. ASSUME NEW v \in Handlers, Leases(run[v], c) \/ Fails(run[v], c) PROVE run'[v] = run[v]
  BY <1>2, PlainFrames DEF Only
<1> QED
  BY <1>1, <1>2 DEF Minded

\* The step of a handler that neither leases the command nor fails it.
LEMMA MindedQuietly ==
    ASSUME TypeOK, TypeOK', FramesFit, SocketsFit, [Next]_vars, NEW c \in Commands, MindedFor(c),
           \/ run' = run /\ ListsKeep
           \/ \E w \in Handlers : Quietly(w),
           \/ command'[c] = command[c]
           \/ /\ Active(c) \/ ~Active(c)'
              /\ ~command'[c].expired
              /\ command'[c].state \in {"absent", "pending"} => command[c].state \in {"absent", "pending"}
              /\ \A w \in Handlers : ~Leases(run[w], c)
    PROVE  MindedFor(c)'
<1>1. Minded(c) => Minded(c)'
  BY QuietlyMinds DEF Quietly
<1>2. \A v \in Handlers : Leases(run'[v], c) => Leases(run[v], c)
  BY PlainFrames DEF Quietly, Only
<1>3. Active(c)' => Active(c)
  BY DEF Active
<1>4. /\ ~command'[c].expired
      /\ command'[c].state \in {"absent", "pending"} => command[c].state \in {"absent", "pending"}
      /\ \A v \in Handlers : Leases(run[v], c) => command'[c].state \in {"leased", "failed"}
  BY DEF MindedFor
<1>5. Active(c)' => Minded(c)'
  BY <1>1, <1>3 DEF MindedFor
<1> QED
  BY <1>2, <1>4, <1>5, MindedKept

LEMMA MindedAnswer ==
    ASSUME IInv, IInv', [Next]_vars, NEW c \in Commands, MindedFor(c),
           NEW w \in Handlers, EventAnswer(w)
    PROVE  MindedFor(c)'
<1>i. TypeOK /\ TypeOK' /\ FramesFit /\ SocketsFit /\ EndsAreReported
  BY DEF IInv
<1>1. command' = command /\ Only(w) /\ Plain(run[w]) /\ Plain(run'[w])
  BY <1>i, AnswerMoves
<1>2. CASE ListsKeep
  BY <1>i, <1>1, <1>2, MindedQuietly DEF Quietly
<1>3. CASE /\ IsEvent(w, "finished") /\ run[w].at = "answer"
           /\ \A s \in Listed : /\ s \in Listed'
                                /\ socket[s].active \ {run[w].id} \subseteq socket'[s].active
  <2>1. Active(c) => c # run[w].id
    BY <1>i, <1>3 DEF EndsAreReported, Ended, Active
  <2>2. Active(c) /\ OnList(c) => OnList(c)'
    BY <1>3, <2>1 DEF OnList
  <2>3. ASSUME NEW v \in Handlers, Leases(run[v], c) \/ Fails(run[v], c) PROVE run'[v] = run[v]
    BY <1>1, <2>3, PlainFrames DEF Only
  <2>4. Active(c)' => Minded(c)'
    BY <1>1, <2>2, <2>3 DEF Minded, MindedFor, Active
  <2>5. \A v \in Handlers : Leases(run'[v], c) => Leases(run[v], c)
    BY <1>1, PlainFrames DEF Only
  <2> QED
    BY <1>i, <1>1, <2>4, <2>5, MindedKept DEF MindedFor
<1> QED
  BY <1>i, <1>2, <1>3, AnswerMoves

LEMMA MindedRecord ==
    ASSUME IInv, IInv', [Next]_vars, NEW c \in Commands, MindedFor(c),
           NEW w \in Handlers, EventRecord(w)
    PROVE  MindedFor(c)'
<1>i. TypeOK /\ TypeOK' /\ FramesFit /\ SocketsFit
  BY DEF IInv
<1> DEFINE d == run[w].id
<1>1. Quietly(w) /\ run[w].op = "event" /\ d \in Commands
  BY <1>i, RecordMoves
<1>2. CASE command'[c] = command[c]
  BY <1>i, <1>1, <1>2, MindedQuietly
<1>3. CASE command'[c] # command[c]
  <2>1. PICK st \in {"running", "succeeded"} :
          Active(d) /\ command' = [command EXCEPT ![d].state = st]
    BY <1>i, <1>3, RecordMoves
  <2>2. c = d
    BY <1>i, <1>1, <1>3, <2>1 DEF TypeOK
  <2>3. command[c] \in CommandRows /\ command'[c] = [command[c] EXCEPT !.state = st]
    BY <1>i, <2>1, <2>2 DEF TypeOK
  <2>4. command'[c].state = st /\ command'[c].expired = command[c].expired
    BY <2>3 DEF CommandRows
  <2>5. Handed(c)
    BY <1>1, <2>2 DEF Handed
  <2>6. \A v \in Handlers : ~Leases(run[v], c)
    BY <2>5 DEF MindedFor
  <2>7. Active(c) /\ ~command'[c].expired
    BY <2>1, <2>2, <2>4 DEF MindedFor
  <2> QED
    BY <1>i, <1>1, <2>1, <2>4, <2>6, <2>7, MindedQuietly
<1> QED
  BY <1>2, <1>3

LEMMA MindedRequest ==
    ASSUME IInv, IInv', [Next]_vars, NEW c \in Commands, MindedFor(c),
           NEW w \in Handlers, Quietly(w), NEW d \in Commands, Request(w, d)
    PROVE  MindedFor(c)'
<1>i. TypeOK /\ TypeOK' /\ FramesFit /\ SocketsFit
  BY DEF IInv
<1>1. command[d].state = "absent" /\ command' = [command EXCEPT ![d].state = "pending"]
  BY <1>i, RequestMoves
<1>2. CASE c # d
  <2>1. command'[c] = command[c]
    BY <1>i, <1>1, <1>2 DEF TypeOK
  <2> QED
    BY <1>i, <2>1, MindedQuietly
<1>3. CASE c = d
  <2>1. command[c] \in CommandRows /\ command'[c] = [command[c] EXCEPT !.state = "pending"]
    BY <1>i, <1>1, <1>3 DEF TypeOK
  <2>2. command'[c].state = "pending" /\ command'[c].expired = command[c].expired
    BY <2>1 DEF CommandRows
  <2>3. ~Active(c)'
    BY <2>2 DEF Active
  <2>4. \A v \in Handlers : ~Leases(run[v], c)
    BY <1>1, <1>3 DEF MindedFor
  <2>5. ~command'[c].expired
    BY <2>2 DEF MindedFor
  <2>6. command[c].state \in {"absent", "pending"}
    BY <1>1, <1>3
  <2> QED
    BY <1>i, <2>3, <2>4, <2>5, <2>6, MindedQuietly
<1> QED
  BY <1>2, <1>3

\* A socket that closes hands the commands on its list to the handler.
LEMMA MindedGoneBegin ==
    ASSUME IInv, IInv', [Next]_vars, NEW c \in Commands, MindedFor(c),
           NEW w \in Handlers, NEW s \in Sockets, GoneBegin(w, s)
    PROVE  MindedFor(c)'
<1>i. TypeOK /\ TypeOK' /\ FramesFit /\ SocketsFit
  BY DEF IInv
<1>1. /\ command' = command /\ Only(w) /\ Plain(run[w])
      /\ \A d : ~Leases(run'[w], d)
      /\ \A t \in Listed \ {s} : t \in Listed' /\ socket'[t] = socket[t]
      /\ \A d \in socket[s].active : Fails(run'[w], d)
  BY <1>i, GoneBeginMoves
<1>2. ASSUME NEW v \in Handlers, Leases(run[v], c) \/ Fails(run[v], c) PROVE run'[v] = run[v]
  BY <1>1, <1>2, PlainFrames DEF Only
<1>3. OnList(c) => OnList(c)' \/ Fails(run'[w], c)
  BY <1>1 DEF OnList
<1>4. Active(c)' => Minded(c)'
  BY <1>1, <1>2, <1>3 DEF Minded, MindedFor, Active
<1>5. \A v \in Handlers : Leases(run'[v], c) => Leases(run[v], c)
  BY <1>1 DEF Only
<1> QED
  BY <1>i, <1>1, <1>4, <1>5, MindedKept DEF MindedFor

LEMMA MindedGoneTurn ==
    ASSUME IInv, IInv', [Next]_vars, NEW c \in Commands, MindedFor(c),
           NEW w \in Handlers, GoneSelect(w) \/ GoneFail(w)
    PROVE  MindedFor(c)'
<1>i. TypeOK /\ TypeOK' /\ FramesFit /\ SocketsFit
  BY DEF IInv
<1>1. /\ Only(w) /\ ListsKeep
      /\ \A d : ~Leases(run[w], d) /\ ~Leases(run'[w], d)
      /\ Fails(run[w], c) => Fails(run'[w], c) \/ ~Active(c) \/ ~Active(c)'
  BY <1>i, GoneTurnMoves
<1>2. \/ command'[c] = command[c]
      \/ Active(c) /\ command'[c].state = "failed" /\ ~command'[c].expired
  <2>1. CASE command' = command
    BY <2>1
  <2>2. ASSUME NEW d \in Commands, Active(d),
               command' = [command EXCEPT ![d] = [state |-> "failed", expired |-> FALSE]]
        PROVE  \/ command'[c] = command[c]
               \/ Active(c) /\ command'[c].state = "failed" /\ ~command'[c].expired
    BY <1>i, <2>2 DEF TypeOK
  <2> QED
    BY <1>i, <2>1, <2>2, GoneTurnMoves
<1>3. OnList(c) => OnList(c)'
  BY <1>1 DEF OnList, ListsKeep
<1>4. Active(c)' => Active(c)
  BY <1>2 DEF Active
<1>5. ASSUME NEW v \in Handlers, Leases(run[v], c) PROVE run'[v] = run[v]
  BY <1>1, <1>5 DEF Only
<1>6. ASSUME NEW v \in Handlers, Fails(run[v], c), Active(c), Active(c)' PROVE Fails(run'[v], c)
  BY <1>1, <1>6 DEF Only
<1>7. Active(c)' => Minded(c)'
  BY <1>3, <1>4, <1>5, <1>6 DEF Minded, MindedFor
<1>8. \A v \in Handlers : Leases(run'[v], c) => Leases(run[v], c)
  BY <1>1 DEF Only
<1>9. ~command'[c].expired /\ (command'[c].state \in {"absent", "pending"} => command'[c] = command[c])
  BY <1>2 DEF MindedFor
<1>10. \A v \in Handlers : Leases(run'[v], c) => command'[c].state \in {"leased", "failed"}
  BY <1>2, <1>8 DEF MindedFor
<1> QED
  BY <1>i, <1>7, <1>8, <1>9, <1>10, MindedKept

\* A command that is leased was pending, and nothing of it is on its way.
LEMMA MindedLease ==
    ASSUME IInv, IInv', [Next]_vars, NEW c \in Commands, MindedFor(c),
           NEW w \in Handlers, Lease(w)
    PROVE  MindedFor(c)'
<1>i. TypeOK /\ TypeOK' /\ FramesFit /\ SocketsFit
  BY DEF IInv
<1>1. /\ Only(w) /\ ListsKeep /\ Plain(run[w])
      /\ Leases(run'[w], c) =>
           /\ Leasable(c)
           /\ command' = [command EXCEPT ![c] = [state |-> "leased", expired |-> FALSE]]
  BY <1>i, LeaseMoves
<1>2. CASE Leases(run'[w], c)
  <2>1. command'[c].state = "leased" /\ ~command'[c].expired
    BY <1>i, <1>1, <1>2 DEF TypeOK
  <2>2. command[c].state = "pending"
    BY <1>1, <1>2 DEF Leasable, MindedFor
  <2>3. ~Handed(c) /\ \A v \in Handlers : ~Leases(run[v], c)
    BY <2>2 DEF MindedFor
  <2>4. ~Handed(c)'
    BY <1>i, <2>2, <2>3, HandedStep, SendsIs
  <2>5. \A v \in Handlers : Leases(run'[v], c) => v = w
    BY <1>1, <2>3 DEF Only
  <2>6. Minded(c)'
    BY <1>2 DEF Minded
  <2> QED
    BY <2>1, <2>4, <2>5, <2>6 DEF MindedFor
<1>3. CASE ~Leases(run'[w], c)
  <2>1. command'[c] = command[c]
    <3>1. CASE command' = command
      BY <3>1
    <3>2. ASSUME NEW d \in Commands, Leases(run'[w], d) PROVE command'[c] = command[c]
      <4>1. command' = [command EXCEPT ![d] = [state |-> "leased", expired |-> FALSE]] /\ c # d
        BY <1>i, <1>3, <3>2, LeaseMoves
      <4> QED
        BY <1>i, <4>1 DEF TypeOK
    <3> QED
      BY <1>i, <3>1, <3>2, LeaseMoves
  <2>2. Minded(c) => Minded(c)'
    BY <1>1, QuietlyMinds
  <2>3. \A v \in Handlers : Leases(run'[v], c) => Leases(run[v], c)
    BY <1>1, <1>3 DEF Only
  <2>4. Active(c)' => Minded(c)'
    BY <2>1, <2>2 DEF Active, MindedFor
  <2> QED
    BY <1>i, <2>1, <2>3, <2>4, MindedKept DEF MindedFor
<1> QED
  BY <1>2, <1>3

LEMMA MindedSend ==
    ASSUME IInv, IInv', [Next]_vars, NEW c \in Commands, MindedFor(c),
           NEW w \in Handlers, Send(w)
    PROVE  MindedFor(c)'
<1>i. TypeOK /\ TypeOK' /\ FramesFit /\ SocketsFit
  BY DEF IInv
<1>1. /\ command' = command /\ Only(w)
      /\ ~Fails(run[w], c) /\ (Leases(run[w], c) <=> c = run[w].id)
      /\ \/ /\ ListsKeep /\ ~Leases(run'[w], c) /\ (c = run[w].id => OnList(c)')
         \/ /\ Leases(run'[w], c) <=> c = run[w].id
            /\ \A s \in Listed : /\ s \in Listed'
                                 /\ socket[s].active \ {run[w].id} \subseteq socket'[s].active
  BY <1>i, SendMoves
<1>2. \A v \in Handlers : Leases(run'[v], c) => Leases(run[v], c)
  BY <1>1 DEF Only
<1>3. Minded(c) => Minded(c)'
  <2>1. CASE c = run[w].id
    BY <1>1, <2>1 DEF Minded
  <2>2. CASE c # run[w].id
    <3>1. OnList(c) => OnList(c)'
      BY <1>1, <2>2 DEF OnList, ListsKeep
    <3>2. ASSUME NEW v \in Handlers, Leases(run[v], c) \/ Fails(run[v], c) PROVE run'[v] = run[v]
      BY <1>1, <2>2, <3>2 DEF Only
    <3> QED
      BY <3>1, <3>2 DEF Minded
  <2> QED
    BY <2>1, <2>2
<1>4. Active(c)' => Minded(c)'
  BY <1>1, <1>3 DEF Active, MindedFor
<1> QED
  BY <1>i, <1>1, <1>2, <1>4, MindedKept DEF MindedFor

LEMMA MindedRelease ==
    ASSUME IInv, IInv', [Next]_vars, NEW c \in Commands, MindedFor(c),
           NEW w \in Handlers, Release(w)
    PROVE  MindedFor(c)'
<1>i. TypeOK /\ TypeOK' /\ FramesFit /\ SocketsFit
  BY DEF IInv
<1>1. /\ Only(w) /\ ListsKeep /\ Plain(run'[w])
      /\ ~Fails(run[w], c) /\ (Leases(run[w], c) <=> c = run[w].id)
      /\ command' = IF command[run[w].id].state = "leased"
           THEN [command EXCEPT ![run[w].id] = [state |-> "pending", expired |-> FALSE]]
           ELSE command
  BY <1>i, ReleaseMoves
<1>2. \A v \in Handlers : Leases(run'[v], c) => v # w /\ Leases(run[v], c)
  BY <1>1, PlainFrames DEF Only
<1>3. CASE c = run[w].id
  <2>1. Leases(run[w], c) /\ command[c].state \in {"leased", "failed"}
    BY <1>1, <1>3 DEF MindedFor
  <2>2. \A v \in Handlers : ~Leases(run'[v], c)
    BY <1>2, <2>1 DEF MindedFor
  <2>3. command'[c].state \in {"pending", "failed"} /\ ~command'[c].expired
    <3>1. CASE command[c].state = "leased"
      BY <1>i, <1>1, <1>3, <3>1 DEF TypeOK
    <3>2. CASE command[c].state = "failed"
      BY <1>1, <1>3, <3>2 DEF MindedFor
    <3> QED
      BY <2>1, <3>1, <3>2
  <2>4. ~Active(c)'
    BY <2>3 DEF Active
  <2> QED
    BY <1>i, <2>1, <2>2, <2>3, <2>4, MindedKept
<1>4. CASE c # run[w].id
  <2>1. command'[c] = command[c]
    BY <1>i, <1>1, <1>4 DEF TypeOK
  <2>2. Minded(c) => Minded(c)'
    BY <1>1, <1>4, QuietlyMinds
  <2>3. Active(c)' => Minded(c)'
    BY <2>1, <2>2 DEF Active, MindedFor
  <2> QED
    BY <1>i, <1>2, <2>1, <2>3, MindedKept DEF MindedFor
<1> QED
  BY <1>3, <1>4

LEMMA MindedStep ==
    ASSUME IInv, IInv', ~MayExpire, ~MayDie, MindedInv, [Next]_vars
    PROVE  MindedInv'
<1> SUFFICES ASSUME NEW c \in Commands PROVE MindedFor(c)'
  BY DEF MindedInv
<1>i. TypeOK /\ TypeOK' /\ FramesFit /\ SocketsFit /\ MindedFor(c)
  BY DEF IInv, MindedInv
<1>1. CASE AgentGoesOn \/ Connect \/ Leave \/ QuietOther
  BY <1>i, <1>1, OthersKeepLists, MindedQuietly
<1>2. ASSUME NEW w \in Handlers, PlainTurn(w) PROVE MindedFor(c)'
  BY <1>i, <1>2, PlainTurnMoves, MindedQuietly
<1>3. ASSUME NEW w \in Handlers, PlainBegin(w) PROVE MindedFor(c)'
  <2>1. Quietly(w) /\ (command' = command \/ \E d \in Commands : Request(w, d))
    BY <1>i, <1>3, PlainBeginMoves
  <2> QED
    BY <1>i, <2>1, MindedQuietly, MindedRequest
<1>4. ASSUME NEW w \in Handlers, \E s \in Sockets : GoneBegin(w, s) PROVE MindedFor(c)'
  BY <1>i, <1>4, MindedGoneBegin
<1>5. ASSUME NEW w \in Handlers,
             \/ EventRecord(w) \/ EventAnswer(w) \/ Lease(w) \/ Send(w) \/ Release(w)
             \/ GoneSelect(w) \/ GoneFail(w)
      PROVE  MindedFor(c)'
  BY <1>i, <1>5, MindedRecord, MindedAnswer, MindedLease, MindedSend, MindedRelease, MindedGoneTurn
<1>6. ASSUME NEW w \in Handlers,
             \/ \E s \in Sockets : Receive(w, s)
             \/ \E d \in Commands : Request(w, d)
             \/ DispatchRequest(w) \/ ResumeRequest(w)
      PROVE  PlainBegin(w) \/ \E s \in Sockets : GoneBegin(w, s)
  BY <1>6 DEF Receive, PlainBegin, Kinds
<1>7. ASSUME NEW w \in Handlers, Continue(w)
      PROVE  \/ PlainTurn(w) \/ EventRecord(w) \/ EventAnswer(w) \/ Lease(w) \/ Send(w) \/ Release(w)
             \/ GoneSelect(w) \/ GoneFail(w)
  BY <1>7 DEF Continue, PlainTurn
<1>8. ASSUME NEW w \in Handlers, Die(w) PROVE FALSE
  BY <1>8 DEF Die
<1>9. CASE \E w \in Handlers :
          \/ \E s \in Sockets : Receive(w, s)
          \/ \E d \in Commands : Request(w, d)
          \/ DispatchRequest(w) \/ ResumeRequest(w) \/ Continue(w) \/ Die(w)
  BY <1>2, <1>3, <1>4, <1>5, <1>6, <1>7, <1>8, <1>9
<1> QED
  BY <1>1, <1>9 DEF Next, QuietOther

LEMMA MindedStart == Init => MindedInv
<1> SUFFICES ASSUME Init, NEW c \in Commands PROVE MindedFor(c)
  BY DEF MindedInv
<1>1. command[c].state = "absent" /\ ~command[c].expired
  BY DEF Init
<1>2. \A w \in Handlers : run[w].op = "idle"
  BY DEF Init, Idle
<1>3. ~Handed(c)
  BY <1>2 DEF Init, Away, Handed
<1>4. \A w \in Handlers : ~Leases(run[w], c)
  BY <1>2 DEF Leases
<1> QED
  BY <1>1, <1>3, <1>4 DEF MindedFor, Active

\* As long as no lease runs out and no handler is lost, the close of a socket
\* overlooks none of its commands: when nothing is under way, what still runs
\* is on the list of a socket that is open, whatever the order in which
\* dispatches, ends and closes came (handleSocketGone, recordSocketCommand).
THEOREM RunningStaysListed == ~MayExpire /\ ~MayDie /\ Spec => []RunningIsListed
<1> SUFFICES ASSUME ~MayExpire, ~MayDie PROVE Spec => []RunningIsListed
  OBVIOUS
<1>1. IInv /\ IInv' /\ MindedInv /\ [Next]_vars => MindedInv'
  BY MindedStep
<1>2. MindedInv => RunningIsListed
  <2> SUFFICES ASSUME MindedInv, Settled, NEW c \in Commands, command[c].state = "running"
               PROVE  \E s \in Listed : c \in socket[s].active
    BY DEF RunningIsListed
  <2>1. Minded(c)
    BY DEF MindedInv, MindedFor, Active
  <2>2. \A w \in Handlers : ~Leases(run[w], c) /\ ~Fails(run[w], c)
    BY DEF Settled, Free, Leases, Fails
  <2> QED
    BY <2>1, <2>2 DEF Minded, OnList
<1> QED
  BY <1>1, <1>2, MindedStart, IInvHolds, PTL DEF Spec

-----------------------------------------------------------------------------
(* The composition that the runs check: what CommandTableProofs proves of  *)
(* the ends of commands, of each of its tables.                            *)

\* A step is one of the part that the behaviour is about.
LEMMA TableSteps ==
    ASSUME [MCNext]_all
    PROVE  /\ subject' = subject
           /\ subject = "backlog" => [Backlog!Next]_(Backlog!vars)
           /\ subject = "logged" => [Logged!Next]_(Logged!vars)
           /\ subject \notin {"backlog", "logged"} => [Fallback!Next]_(Fallback!vars)
<1>1. subject' = subject
  BY DEF MCNext, OnSockets, InTable, About, all
<1>2. UNCHANGED table =>
        UNCHANGED Backlog!vars /\ UNCHANGED Logged!vars /\ UNCHANGED Fallback!vars
  BY DEF table, Backlog!vars, Logged!vars, Fallback!vars
<1>3. /\ subject = "backlog" => Backlog!Next \/ UNCHANGED table
      /\ subject = "logged" => Logged!Next \/ UNCHANGED table
      /\ subject \notin {"backlog", "logged"} => Fallback!Next \/ UNCHANGED table
  BY DEF MCNext, OnSockets, InTable, About, all
<1> QED
  BY <1>1, <1>2, <1>3

OfFallback == INSTANCE CommandTableProofs
  WITH command <- rows, run <- frame, Connectors <- {c1, c2}, SessionIds <- {},
       HostSessions <- {}, Lanes <- {l1}, OwnLane <- <<>>, Heirs <- {}, NumCommands <- 1,
       Modes <- {"cli_fallback", "placeholder"},
       EventKinds <- {"started", "finished", "failed", "requested", "resolved", "output"},
       CapSets <- {{}, {"codex_exec"}}, MayDie <- TRUE

\* Fallback: the instance there and here is the same.
LEMMA FallbackIsTable ==
    /\ Fallback!Init <=> OfFallback!Init
    /\ [Fallback!Next]_(Fallback!vars) <=> [OfFallback!Next]_(OfFallback!vars)
    /\ OfFallback!CommandTableAssumption
    /\ Fallback!EndsAreTrue <=> OfFallback!EndsAreTrue
<1>1. Fallback!Init <=> OfFallback!Init
  BY DEF
     Fallback!Commands, Fallback!Absent, Fallback!Unknown, Fallback!Idle, Fallback!Init,
     OfFallback!Commands, OfFallback!Absent, OfFallback!Unknown, OfFallback!Idle,
     OfFallback!Init
<1>2. \A w : Fallback!Begin(w) <=> OfFallback!Begin(w)
  BY DEF
     Fallback!Commands, Fallback!OrNone, Fallback!Conn, Fallback!Sid, Fallback!Active,
     Fallback!Codex, Fallback!Current, Fallback!Joined, Fallback!Present, Fallback!Online,
     Fallback!CanRunAppServer, Fallback!Executable, Fallback!Attached, Fallback!NewestAmong,
     Fallback!Free, Fallback!MayChoose, Fallback!CanExecute, Fallback!ChosenTargets,
     Fallback!Created, Fallback!Creating, Fallback!CreateCheck, Fallback!Leasable,
     Fallback!LeaseGuard, Fallback!LeaseSelect, Fallback!CommandStateFor,
     Fallback!NeedsTarget, Fallback!Sweep, Fallback!EventSelect, Fallback!PickOf,
     Fallback!Picks, Fallback!DisconnectSelect, Fallback!ServedBy, Fallback!Waiting,
     Fallback!StaleTarget, Fallback!InScopeOf, Fallback!CleanupSelect, Fallback!LostFrom,
     Fallback!Detach, Fallback!ReportSession, Fallback!LosesPresence, Fallback!DemoteSession,
     Fallback!Retire, Fallback!Begin, Fallback!IsFiniteSet, Fallback!Cardinality,
     OfFallback!Commands, OfFallback!OrNone, OfFallback!Conn, OfFallback!Sid,
     OfFallback!Active, OfFallback!Codex, OfFallback!Current, OfFallback!Joined,
     OfFallback!Present, OfFallback!Online, OfFallback!CanRunAppServer,
     OfFallback!Executable, OfFallback!Attached, OfFallback!NewestAmong, OfFallback!Free,
     OfFallback!MayChoose, OfFallback!CanExecute, OfFallback!ChosenTargets,
     OfFallback!Created, OfFallback!Creating, OfFallback!CreateCheck, OfFallback!Leasable,
     OfFallback!LeaseGuard, OfFallback!LeaseSelect, OfFallback!CommandStateFor,
     OfFallback!NeedsTarget, OfFallback!Sweep, OfFallback!EventSelect, OfFallback!PickOf,
     OfFallback!Picks, OfFallback!DisconnectSelect, OfFallback!ServedBy, OfFallback!Waiting,
     OfFallback!StaleTarget, OfFallback!InScopeOf, OfFallback!CleanupSelect,
     OfFallback!LostFrom, OfFallback!Detach, OfFallback!ReportSession,
     OfFallback!LosesPresence, OfFallback!DemoteSession, OfFallback!Retire, OfFallback!Begin,
     OfFallback!IsFiniteSet, OfFallback!Cardinality
<1>3. \A w : Fallback!Continue(w) <=> OfFallback!Continue(w)
  BY DEF
     Fallback!Commands, Fallback!OrNone, Fallback!Unknown, Fallback!Idle, Fallback!Conn,
     Fallback!Sid, Fallback!Active, Fallback!Codex, Fallback!Current, Fallback!Joined,
     Fallback!Present, Fallback!Online, Fallback!CanRunAppServer, Fallback!Executable,
     Fallback!Alternatives, Fallback!Attached, Fallback!NewestAmong, Fallback!End,
     Fallback!Goto, Fallback!Created, Fallback!CreateInsert, Fallback!Leasable,
     Fallback!LeaseGuard, Fallback!LeaseUpdate, Fallback!CommandStateFor,
     Fallback!TaskStateFor, Fallback!Final, Fallback!NeedsTarget, Fallback!EventNeedsTarget,
     Fallback!Sweep, Fallback!Accepts, Fallback!EventUpdate, Fallback!EventTask,
     Fallback!EventAppend, Fallback!EventReject, Fallback!PickOf, Fallback!Picks,
     Fallback!ServedBy, Fallback!Waiting, Fallback!StaleTarget, Fallback!CleanupRelease,
     Fallback!BoundTo, Fallback!LostRelease, Fallback!Stranded, Fallback!LostSelect,
     Fallback!FailGuard, Fallback!Candidates, Fallback!AfterFail, Fallback!SweepFail,
     Fallback!SweepTask, Fallback!SweepAppend, Fallback!SweepEnd, Fallback!RowsOf,
     Fallback!MigrateSelect, Fallback!MigrateRow, Fallback!Retargetable, Fallback!Retarget,
     Fallback!RetargetAttached, Fallback!RetargetExplicit, Fallback!MigrateDelete,
     Fallback!MigrateEnd, Fallback!Continue, OfFallback!Commands, OfFallback!OrNone,
     OfFallback!Unknown, OfFallback!Idle, OfFallback!Conn, OfFallback!Sid, OfFallback!Active,
     OfFallback!Codex, OfFallback!Current, OfFallback!Joined, OfFallback!Present,
     OfFallback!Online, OfFallback!CanRunAppServer, OfFallback!Executable,
     OfFallback!Alternatives, OfFallback!Attached, OfFallback!NewestAmong, OfFallback!End,
     OfFallback!Goto, OfFallback!Created, OfFallback!CreateInsert, OfFallback!Leasable,
     OfFallback!LeaseGuard, OfFallback!LeaseUpdate, OfFallback!CommandStateFor,
     OfFallback!TaskStateFor, OfFallback!Final, OfFallback!NeedsTarget,
     OfFallback!EventNeedsTarget, OfFallback!Sweep, OfFallback!Accepts,
     OfFallback!EventUpdate, OfFallback!EventTask, OfFallback!EventAppend,
     OfFallback!EventReject, OfFallback!PickOf, OfFallback!Picks, OfFallback!ServedBy,
     OfFallback!Waiting, OfFallback!StaleTarget, OfFallback!CleanupRelease,
     OfFallback!BoundTo, OfFallback!LostRelease, OfFallback!Stranded, OfFallback!LostSelect,
     OfFallback!FailGuard, OfFallback!Candidates, OfFallback!AfterFail, OfFallback!SweepFail,
     OfFallback!SweepTask, OfFallback!SweepAppend, OfFallback!SweepEnd, OfFallback!RowsOf,
     OfFallback!MigrateSelect, OfFallback!MigrateRow, OfFallback!Retargetable,
     OfFallback!Retarget, OfFallback!RetargetAttached, OfFallback!RetargetExplicit,
     OfFallback!MigrateDelete, OfFallback!MigrateEnd, OfFallback!Continue
<1>4. Fallback!AtOnce <=> OfFallback!AtOnce
  BY DEF
     Fallback!Commands, Fallback!Attached, Fallback!NewestAmong, Fallback!ReleaseLeased,
     Fallback!LeaseExpires, Fallback!Attach, Fallback!ReportSession, Fallback!LosesPresence,
     Fallback!UpsertSession, Fallback!ConnectorReady, Fallback!ConnectorUnavailable,
     Fallback!AtOnce, OfFallback!Commands, OfFallback!Attached, OfFallback!NewestAmong,
     OfFallback!ReleaseLeased, OfFallback!LeaseExpires, OfFallback!Attach,
     OfFallback!ReportSession, OfFallback!LosesPresence, OfFallback!UpsertSession,
     OfFallback!ConnectorReady, OfFallback!ConnectorUnavailable, OfFallback!AtOnce
<1>5. Fallback!Next <=> OfFallback!Next
  BY <1>2, <1>3, <1>4 DEF Fallback!Next, OfFallback!Next, Fallback!Die, OfFallback!Die, Fallback!Free, OfFallback!Free, Fallback!End, OfFallback!End,
     Fallback!Idle, OfFallback!Idle
<1>6. Fallback!vars = OfFallback!vars /\ Fallback!vars' = OfFallback!vars'
  BY DEF Fallback!vars, OfFallback!vars
<1>7. OfFallback!CommandTableAssumption
  BY MCWorkerAssumption DEF Fallback!CommandTableAssumption, OfFallback!CommandTableAssumption
<1>8. Fallback!EndsAreTrue <=> OfFallback!EndsAreTrue
  BY DEF
     Fallback!Commands, Fallback!AtMostOneFinalEvent, Fallback!FinalEventIsTrue,
     Fallback!TaskOutcomeHasCause, Fallback!EndsAreTrue, OfFallback!Commands,
     OfFallback!AtMostOneFinalEvent, OfFallback!FinalEventIsTrue,
     OfFallback!TaskOutcomeHasCause, OfFallback!EndsAreTrue
<1> QED
  BY <1>1, <1>5, <1>6, <1>7, <1>8

OfBacklog == INSTANCE CommandTableProofs
  WITH command <- rows, run <- frame, Connectors <- {k1}, SessionIds <- {},
       HostSessions <- {}, Lanes <- {l1}, OwnLane <- <<>>,
       Heirs <- {}, NumCommands <- 2, Modes <- {"cli_fallback"},
       EventKinds <- {"started", "finished"}, CapSets <- {{"codex_exec"}},
       MayDie <- FALSE

\* Backlog: the instance there and here is the same.
LEMMA BacklogIsTable ==
    /\ Backlog!Init <=> OfBacklog!Init
    /\ [Backlog!Next]_(Backlog!vars) <=> [OfBacklog!Next]_(OfBacklog!vars)
    /\ OfBacklog!CommandTableAssumption
    /\ Backlog!EndsAreTrue <=> OfBacklog!EndsAreTrue
<1>1. Backlog!Init <=> OfBacklog!Init
  BY DEF
     Backlog!Commands, Backlog!Absent, Backlog!Unknown, Backlog!Idle, Backlog!Init,
     OfBacklog!Commands, OfBacklog!Absent, OfBacklog!Unknown, OfBacklog!Idle, OfBacklog!Init
<1>2. \A w : Backlog!Begin(w) <=> OfBacklog!Begin(w)
  BY DEF
     Backlog!Commands, Backlog!OrNone, Backlog!Conn, Backlog!Sid, Backlog!Active,
     Backlog!Codex, Backlog!Current, Backlog!Joined, Backlog!Present, Backlog!Online,
     Backlog!CanRunAppServer, Backlog!Executable, Backlog!Attached, Backlog!NewestAmong,
     Backlog!Free, Backlog!MayChoose, Backlog!CanExecute, Backlog!ChosenTargets,
     Backlog!Created, Backlog!Creating, Backlog!CreateCheck, Backlog!Leasable,
     Backlog!LeaseGuard, Backlog!LeaseSelect, Backlog!CommandStateFor, Backlog!NeedsTarget,
     Backlog!Sweep, Backlog!EventSelect, Backlog!PickOf, Backlog!Picks,
     Backlog!DisconnectSelect, Backlog!ServedBy, Backlog!Waiting, Backlog!StaleTarget,
     Backlog!InScopeOf, Backlog!CleanupSelect, Backlog!LostFrom, Backlog!Detach,
     Backlog!ReportSession, Backlog!LosesPresence, Backlog!DemoteSession, Backlog!Retire,
     Backlog!Begin, Backlog!IsFiniteSet, Backlog!Cardinality, OfBacklog!Commands,
     OfBacklog!OrNone, OfBacklog!Conn, OfBacklog!Sid, OfBacklog!Active, OfBacklog!Codex,
     OfBacklog!Current, OfBacklog!Joined, OfBacklog!Present, OfBacklog!Online,
     OfBacklog!CanRunAppServer, OfBacklog!Executable, OfBacklog!Attached,
     OfBacklog!NewestAmong, OfBacklog!Free, OfBacklog!MayChoose, OfBacklog!CanExecute,
     OfBacklog!ChosenTargets, OfBacklog!Created, OfBacklog!Creating, OfBacklog!CreateCheck,
     OfBacklog!Leasable, OfBacklog!LeaseGuard, OfBacklog!LeaseSelect,
     OfBacklog!CommandStateFor, OfBacklog!NeedsTarget, OfBacklog!Sweep,
     OfBacklog!EventSelect, OfBacklog!PickOf, OfBacklog!Picks, OfBacklog!DisconnectSelect,
     OfBacklog!ServedBy, OfBacklog!Waiting, OfBacklog!StaleTarget, OfBacklog!InScopeOf,
     OfBacklog!CleanupSelect, OfBacklog!LostFrom, OfBacklog!Detach, OfBacklog!ReportSession,
     OfBacklog!LosesPresence, OfBacklog!DemoteSession, OfBacklog!Retire, OfBacklog!Begin,
     OfBacklog!IsFiniteSet, OfBacklog!Cardinality
<1>3. \A w : Backlog!Continue(w) <=> OfBacklog!Continue(w)
  BY DEF
     Backlog!Commands, Backlog!OrNone, Backlog!Unknown, Backlog!Idle, Backlog!Conn,
     Backlog!Sid, Backlog!Active, Backlog!Codex, Backlog!Current, Backlog!Joined,
     Backlog!Present, Backlog!Online, Backlog!CanRunAppServer, Backlog!Executable,
     Backlog!Alternatives, Backlog!Attached, Backlog!NewestAmong, Backlog!End, Backlog!Goto,
     Backlog!Created, Backlog!CreateInsert, Backlog!Leasable, Backlog!LeaseGuard,
     Backlog!LeaseUpdate, Backlog!CommandStateFor, Backlog!TaskStateFor, Backlog!Final,
     Backlog!NeedsTarget, Backlog!EventNeedsTarget, Backlog!Sweep, Backlog!Accepts,
     Backlog!EventUpdate, Backlog!EventTask, Backlog!EventAppend, Backlog!EventReject,
     Backlog!PickOf, Backlog!Picks, Backlog!ServedBy, Backlog!Waiting, Backlog!StaleTarget,
     Backlog!CleanupRelease, Backlog!BoundTo, Backlog!LostRelease, Backlog!Stranded,
     Backlog!LostSelect, Backlog!FailGuard, Backlog!Candidates, Backlog!AfterFail,
     Backlog!SweepFail, Backlog!SweepTask, Backlog!SweepAppend, Backlog!SweepEnd,
     Backlog!RowsOf, Backlog!MigrateSelect, Backlog!MigrateRow, Backlog!Retargetable,
     Backlog!Retarget, Backlog!RetargetAttached, Backlog!RetargetExplicit,
     Backlog!MigrateDelete, Backlog!MigrateEnd, Backlog!Continue, OfBacklog!Commands,
     OfBacklog!OrNone, OfBacklog!Unknown, OfBacklog!Idle, OfBacklog!Conn, OfBacklog!Sid,
     OfBacklog!Active, OfBacklog!Codex, OfBacklog!Current, OfBacklog!Joined,
     OfBacklog!Present, OfBacklog!Online, OfBacklog!CanRunAppServer, OfBacklog!Executable,
     OfBacklog!Alternatives, OfBacklog!Attached, OfBacklog!NewestAmong, OfBacklog!End,
     OfBacklog!Goto, OfBacklog!Created, OfBacklog!CreateInsert, OfBacklog!Leasable,
     OfBacklog!LeaseGuard, OfBacklog!LeaseUpdate, OfBacklog!CommandStateFor,
     OfBacklog!TaskStateFor, OfBacklog!Final, OfBacklog!NeedsTarget,
     OfBacklog!EventNeedsTarget, OfBacklog!Sweep, OfBacklog!Accepts, OfBacklog!EventUpdate,
     OfBacklog!EventTask, OfBacklog!EventAppend, OfBacklog!EventReject, OfBacklog!PickOf,
     OfBacklog!Picks, OfBacklog!ServedBy, OfBacklog!Waiting, OfBacklog!StaleTarget,
     OfBacklog!CleanupRelease, OfBacklog!BoundTo, OfBacklog!LostRelease, OfBacklog!Stranded,
     OfBacklog!LostSelect, OfBacklog!FailGuard, OfBacklog!Candidates, OfBacklog!AfterFail,
     OfBacklog!SweepFail, OfBacklog!SweepTask, OfBacklog!SweepAppend, OfBacklog!SweepEnd,
     OfBacklog!RowsOf, OfBacklog!MigrateSelect, OfBacklog!MigrateRow, OfBacklog!Retargetable,
     OfBacklog!Retarget, OfBacklog!RetargetAttached, OfBacklog!RetargetExplicit,
     OfBacklog!MigrateDelete, OfBacklog!MigrateEnd, OfBacklog!Continue
<1>4. Backlog!AtOnce <=> OfBacklog!AtOnce
  BY DEF
     Backlog!Commands, Backlog!Attached, Backlog!NewestAmong, Backlog!ReleaseLeased,
     Backlog!LeaseExpires, Backlog!Attach, Backlog!ReportSession, Backlog!LosesPresence,
     Backlog!UpsertSession, Backlog!ConnectorReady, Backlog!ConnectorUnavailable,
     Backlog!AtOnce, OfBacklog!Commands, OfBacklog!Attached, OfBacklog!NewestAmong,
     OfBacklog!ReleaseLeased, OfBacklog!LeaseExpires, OfBacklog!Attach,
     OfBacklog!ReportSession, OfBacklog!LosesPresence, OfBacklog!UpsertSession,
     OfBacklog!ConnectorReady, OfBacklog!ConnectorUnavailable, OfBacklog!AtOnce
<1>5. Backlog!Next <=> OfBacklog!Next
  BY <1>2, <1>3, <1>4 DEF Backlog!Next, OfBacklog!Next, Backlog!Die, OfBacklog!Die, Backlog!Free, OfBacklog!Free, Backlog!End, OfBacklog!End,
     Backlog!Idle, OfBacklog!Idle
<1>6. Backlog!vars = OfBacklog!vars /\ Backlog!vars' = OfBacklog!vars'
  BY DEF Backlog!vars, OfBacklog!vars
<1>7. OfBacklog!CommandTableAssumption
  BY MCWorkerAssumption DEF Backlog!CommandTableAssumption, OfBacklog!CommandTableAssumption
<1>8. Backlog!EndsAreTrue <=> OfBacklog!EndsAreTrue
  BY DEF
     Backlog!Commands, Backlog!AtMostOneFinalEvent, Backlog!FinalEventIsTrue,
     Backlog!TaskOutcomeHasCause, Backlog!EndsAreTrue, OfBacklog!Commands,
     OfBacklog!AtMostOneFinalEvent, OfBacklog!FinalEventIsTrue,
     OfBacklog!TaskOutcomeHasCause, OfBacklog!EndsAreTrue
<1> QED
  BY <1>1, <1>5, <1>6, <1>7, <1>8

OfLogged == INSTANCE CommandTableProofs
  WITH command <- rows, run <- frame, Connectors <- {k1}, SessionIds <- {s1},
       HostSessions <- {<<k1, s1>>}, Lanes <- {l1}, OwnLane <- [h \in {<<k1, s1>>} |-> l1],
       Heirs <- {}, NumCommands <- 1, Modes <- {"app_server", "cli_fallback"},
       EventKinds <- {"started", "finished"},
       CapSets <- {{"codex_exec", "codex_app_server_exec"}}, MayDie <- FALSE

\* Logged: the instance there and here is the same.
LEMMA LoggedIsTable ==
    /\ Logged!Init <=> OfLogged!Init
    /\ [Logged!Next]_(Logged!vars) <=> [OfLogged!Next]_(OfLogged!vars)
    /\ OfLogged!CommandTableAssumption
    /\ Logged!EndsAreTrue <=> OfLogged!EndsAreTrue
<1>1. Logged!Init <=> OfLogged!Init
  BY DEF
     Logged!Commands, Logged!Absent, Logged!Unknown, Logged!Idle, Logged!Init,
     OfLogged!Commands, OfLogged!Absent, OfLogged!Unknown, OfLogged!Idle, OfLogged!Init
<1>2. \A w : Logged!Begin(w) <=> OfLogged!Begin(w)
  BY DEF
     Logged!Commands, Logged!OrNone, Logged!Conn, Logged!Sid, Logged!Active, Logged!Codex,
     Logged!Current, Logged!Joined, Logged!Present, Logged!Online, Logged!CanRunAppServer,
     Logged!Executable, Logged!Attached, Logged!NewestAmong, Logged!Free, Logged!MayChoose,
     Logged!CanExecute, Logged!ChosenTargets, Logged!Created, Logged!Creating,
     Logged!CreateCheck, Logged!Leasable, Logged!LeaseGuard, Logged!LeaseSelect,
     Logged!CommandStateFor, Logged!NeedsTarget, Logged!Sweep, Logged!EventSelect,
     Logged!PickOf, Logged!Picks, Logged!DisconnectSelect, Logged!ServedBy, Logged!Waiting,
     Logged!StaleTarget, Logged!InScopeOf, Logged!CleanupSelect, Logged!LostFrom,
     Logged!Detach, Logged!ReportSession, Logged!LosesPresence, Logged!DemoteSession,
     Logged!Retire, Logged!Begin, Logged!IsFiniteSet, Logged!Cardinality, OfLogged!Commands,
     OfLogged!OrNone, OfLogged!Conn, OfLogged!Sid, OfLogged!Active, OfLogged!Codex,
     OfLogged!Current, OfLogged!Joined, OfLogged!Present, OfLogged!Online,
     OfLogged!CanRunAppServer, OfLogged!Executable, OfLogged!Attached, OfLogged!NewestAmong,
     OfLogged!Free, OfLogged!MayChoose, OfLogged!CanExecute, OfLogged!ChosenTargets,
     OfLogged!Created, OfLogged!Creating, OfLogged!CreateCheck, OfLogged!Leasable,
     OfLogged!LeaseGuard, OfLogged!LeaseSelect, OfLogged!CommandStateFor,
     OfLogged!NeedsTarget, OfLogged!Sweep, OfLogged!EventSelect, OfLogged!PickOf,
     OfLogged!Picks, OfLogged!DisconnectSelect, OfLogged!ServedBy, OfLogged!Waiting,
     OfLogged!StaleTarget, OfLogged!InScopeOf, OfLogged!CleanupSelect, OfLogged!LostFrom,
     OfLogged!Detach, OfLogged!ReportSession, OfLogged!LosesPresence, OfLogged!DemoteSession,
     OfLogged!Retire, OfLogged!Begin, OfLogged!IsFiniteSet, OfLogged!Cardinality
<1>3. \A w : Logged!Continue(w) <=> OfLogged!Continue(w)
  BY DEF
     Logged!Commands, Logged!OrNone, Logged!Unknown, Logged!Idle, Logged!Conn, Logged!Sid,
     Logged!Active, Logged!Codex, Logged!Current, Logged!Joined, Logged!Present,
     Logged!Online, Logged!CanRunAppServer, Logged!Executable, Logged!Alternatives,
     Logged!Attached, Logged!NewestAmong, Logged!End, Logged!Goto, Logged!Created,
     Logged!CreateInsert, Logged!Leasable, Logged!LeaseGuard, Logged!LeaseUpdate,
     Logged!CommandStateFor, Logged!TaskStateFor, Logged!Final, Logged!NeedsTarget,
     Logged!EventNeedsTarget, Logged!Sweep, Logged!Accepts, Logged!EventUpdate,
     Logged!EventTask, Logged!EventAppend, Logged!EventReject, Logged!PickOf, Logged!Picks,
     Logged!ServedBy, Logged!Waiting, Logged!StaleTarget, Logged!CleanupRelease,
     Logged!BoundTo, Logged!LostRelease, Logged!Stranded, Logged!LostSelect,
     Logged!FailGuard, Logged!Candidates, Logged!AfterFail, Logged!SweepFail,
     Logged!SweepTask, Logged!SweepAppend, Logged!SweepEnd, Logged!RowsOf,
     Logged!MigrateSelect, Logged!MigrateRow, Logged!Retargetable, Logged!Retarget,
     Logged!RetargetAttached, Logged!RetargetExplicit, Logged!MigrateDelete,
     Logged!MigrateEnd, Logged!Continue, OfLogged!Commands, OfLogged!OrNone,
     OfLogged!Unknown, OfLogged!Idle, OfLogged!Conn, OfLogged!Sid, OfLogged!Active,
     OfLogged!Codex, OfLogged!Current, OfLogged!Joined, OfLogged!Present, OfLogged!Online,
     OfLogged!CanRunAppServer, OfLogged!Executable, OfLogged!Alternatives, OfLogged!Attached,
     OfLogged!NewestAmong, OfLogged!End, OfLogged!Goto, OfLogged!Created,
     OfLogged!CreateInsert, OfLogged!Leasable, OfLogged!LeaseGuard, OfLogged!LeaseUpdate,
     OfLogged!CommandStateFor, OfLogged!TaskStateFor, OfLogged!Final, OfLogged!NeedsTarget,
     OfLogged!EventNeedsTarget, OfLogged!Sweep, OfLogged!Accepts, OfLogged!EventUpdate,
     OfLogged!EventTask, OfLogged!EventAppend, OfLogged!EventReject, OfLogged!PickOf,
     OfLogged!Picks, OfLogged!ServedBy, OfLogged!Waiting, OfLogged!StaleTarget,
     OfLogged!CleanupRelease, OfLogged!BoundTo, OfLogged!LostRelease, OfLogged!Stranded,
     OfLogged!LostSelect, OfLogged!FailGuard, OfLogged!Candidates, OfLogged!AfterFail,
     OfLogged!SweepFail, OfLogged!SweepTask, OfLogged!SweepAppend, OfLogged!SweepEnd,
     OfLogged!RowsOf, OfLogged!MigrateSelect, OfLogged!MigrateRow, OfLogged!Retargetable,
     OfLogged!Retarget, OfLogged!RetargetAttached, OfLogged!RetargetExplicit,
     OfLogged!MigrateDelete, OfLogged!MigrateEnd, OfLogged!Continue
<1>4. Logged!AtOnce <=> OfLogged!AtOnce
  BY DEF
     Logged!Commands, Logged!Attached, Logged!NewestAmong, Logged!ReleaseLeased,
     Logged!LeaseExpires, Logged!Attach, Logged!ReportSession, Logged!LosesPresence,
     Logged!UpsertSession, Logged!ConnectorReady, Logged!ConnectorUnavailable, Logged!AtOnce,
     OfLogged!Commands, OfLogged!Attached, OfLogged!NewestAmong, OfLogged!ReleaseLeased,
     OfLogged!LeaseExpires, OfLogged!Attach, OfLogged!ReportSession, OfLogged!LosesPresence,
     OfLogged!UpsertSession, OfLogged!ConnectorReady, OfLogged!ConnectorUnavailable,
     OfLogged!AtOnce
<1>5. Logged!Next <=> OfLogged!Next
  BY <1>2, <1>3, <1>4 DEF Logged!Next, OfLogged!Next, Logged!Die, OfLogged!Die, Logged!Free, OfLogged!Free, Logged!End, OfLogged!End,
     Logged!Idle, OfLogged!Idle
<1>6. Logged!vars = OfLogged!vars /\ Logged!vars' = OfLogged!vars'
  BY DEF Logged!vars, OfLogged!vars
<1>7. OfLogged!CommandTableAssumption
  BY MCWorkerAssumption DEF Logged!CommandTableAssumption, OfLogged!CommandTableAssumption
<1>8. Logged!EndsAreTrue <=> OfLogged!EndsAreTrue
  BY DEF
     Logged!Commands, Logged!AtMostOneFinalEvent, Logged!FinalEventIsTrue,
     Logged!TaskOutcomeHasCause, Logged!EndsAreTrue, OfLogged!Commands,
     OfLogged!AtMostOneFinalEvent, OfLogged!FinalEventIsTrue, OfLogged!TaskOutcomeHasCause,
     OfLogged!EndsAreTrue
<1> QED
  BY <1>1, <1>5, <1>6, <1>7, <1>8

\* What the rows obey that a behaviour is about.
TableInv ==
    /\ subject = "backlog" => OfBacklog!EndsInv
    /\ subject = "logged" => OfLogged!EndsInv
    /\ subject \notin {"backlog", "logged"} => OfFallback!EndsInv

LEMMA TableStarts == MCInit => TableInv
<1> SUFFICES ASSUME MCInit PROVE TableInv
  OBVIOUS
<1>1. /\ subject = "backlog" => Backlog!Init
      /\ subject = "logged" => Logged!Init
      /\ subject \notin {"backlog", "logged"} => Fallback!Init
  BY DEF MCInit
<1>2. /\ OfBacklog!Init => OfBacklog!EndsInv
      /\ OfLogged!Init => OfLogged!EndsInv
      /\ OfFallback!Init => OfFallback!EndsInv
  BY BacklogIsTable, LoggedIsTable, FallbackIsTable, OfBacklog!EndsInit, OfLogged!EndsInit,
     OfFallback!EndsInit
<1> QED
  BY <1>1, <1>2, BacklogIsTable, LoggedIsTable, FallbackIsTable DEF TableInv

LEMMA TableKeeps == TableInv /\ [MCNext]_all => TableInv'
<1> SUFFICES ASSUME TableInv, [MCNext]_all PROVE TableInv'
  OBVIOUS
<1>1. OfBacklog!EndsInv /\ [OfBacklog!Next]_(OfBacklog!vars) => OfBacklog!EndsInv'
  BY BacklogIsTable, OfBacklog!EndsStep
<1>2. OfLogged!EndsInv /\ [OfLogged!Next]_(OfLogged!vars) => OfLogged!EndsInv'
  BY LoggedIsTable, OfLogged!EndsStep
<1>3. OfFallback!EndsInv /\ [OfFallback!Next]_(OfFallback!vars) => OfFallback!EndsInv'
  BY FallbackIsTable, OfFallback!EndsStep
<1> QED
  BY <1>1, <1>2, <1>3, TableSteps, BacklogIsTable, LoggedIsTable, FallbackIsTable DEF TableInv

\* In every part, the ends that are told are true.
LEMMA EndsOfTable == TableInv => EndsAreTrue
<1> SUFFICES ASSUME TableInv PROVE EndsAreTrue
  OBVIOUS
<1>1. CASE subject = "backlog"
  BY <1>1, BacklogIsTable DEF TableInv, EndsAreTrue, OfBacklog!EndsInv, OfBacklog!EndsAreTrue
<1>2. CASE subject = "logged"
  <2>1. Logged!EndsAreTrue
    BY <1>2, LoggedIsTable DEF TableInv, OfLogged!EndsInv, OfLogged!EndsAreTrue
  <2>2. Fallback!EndsAreTrue
    BY <2>1 DEF Logged!EndsAreTrue, Logged!AtMostOneFinalEvent, Logged!FinalEventIsTrue,
       Logged!TaskOutcomeHasCause, Logged!Commands, Fallback!EndsAreTrue,
       Fallback!AtMostOneFinalEvent, Fallback!FinalEventIsTrue, Fallback!TaskOutcomeHasCause,
       Fallback!Commands
  <2> QED
    BY <1>2, <2>2 DEF EndsAreTrue
<1>3. CASE subject \notin {"backlog", "logged"}
  BY <1>3, FallbackIsTable DEF TableInv, EndsAreTrue, OfFallback!EndsInv, OfFallback!EndsAreTrue
<1> QED
  BY <1>1, <1>2, <1>3

\* The ends of commands that threads and tasks are told are true, in each of
\* the tables that the run checks: of connectors without host sessions, of two
\* commands in a lane, and of a command whose end is logged.
THEOREM EndsAreToldTruly == MCSpec => []EndsAreTrue
BY TableStarts, TableKeeps, EndsOfTable, PTL DEF MCSpec
=============================================================================
