------------------------- MODULE CommandTableProofs -------------------------
(***************************************************************************)
(* Proofs about CommandTable, for any connectors, sessions, lanes,         *)
(* handlers and number of commands: its rows, the lease protocol it        *)
(* implements, where commands start, and how they end.                     *)
(***************************************************************************)
EXTENDS CommandTable, TLAPS

-----------------------------------------------------------------------------
(* Types.                                                                  *)

\* The sub-selects return a host session or nothing.
LEMMA CurrentType ==
    ASSUME TypeOK, NEW l
    PROVE  Current(l) \in OrNone(HostSessions)
BY DEF TypeOK, Current, OrNone

LEMMA AlternativesType ==
    ASSUME TypeOK, NEW l, NEW h, NEW a \in Alternatives(l, h)
    PROVE  a \in OrNone(HostSessions)
BY DEF Alternatives, OrNone

LEMMA NewestAmongType ==
    ASSUME NEW rows, NEW l, NEW n \in NewestAmong(rows, l)
    PROVE  n \in OrNone(HostSessions)
BY DEF NewestAmong, Attached, OrNone

LEMMA HostSessionParts ==
    ASSUME NEW h \in HostSessions
    PROVE  Conn(h) \in Connectors /\ Sid(h) \in SessionIds
BY CommandTableAssumption DEF Conn, Sid

\* A frame can be told by its operation.
LEMMA FrameByOp ==
    ASSUME NEW f \in Frames
    PROVE  /\ f.op = "create" => f \in CreateFrames
           /\ f.op = "lease" => f \in LeaseFrames
           /\ f.op = "event" => f \in EventFrames
           /\ f.op \in {"disconnect", "cleanup", "lost", "refuse"} => f \in SweepFrames
           /\ f.op = "migrate" => f \in MigrateFrames
BY DEF Frames, Idle, CreateFrames, LeaseFrames, EventFrames, SweepFrames, MigrateFrames

\* A fresh sweep is a frame.
LEMMA SweepType ==
    ASSUME NEW op \in {"disconnect", "cleanup", "lost", "refuse"}, NEW k \in Connectors
    PROVE  Sweep(op, k) \in SweepFrames
BY DEF Sweep, SweepFrames, OrNone

LEMMA LostFromType ==
    ASSUME NEW h \in HostSessions, NEW l \in Lanes
    PROVE  LostFrom(h, l) \in SweepFrames
<1>1. Conn(h) \in Connectors
  BY HostSessionParts
<1> QED
  BY <1>1 DEF LostFrom, Sweep, SweepFrames, OrNone

\* Setting a field of a host session row.
LEMMA HostRowType ==
    ASSUME TypeOK, NEW h \in HostSessions, NEW l \in OrNone(Lanes), NEW b \in BOOLEAN
    PROVE  /\ [host[h] EXCEPT !.lane = l] \in HostRows
           /\ [[host[h] EXCEPT !.known = TRUE] EXCEPT !.present = b] \in HostRows
BY DEF TypeOK, HostRows

LEMMA PicksType ==
    ASSUME TypeOK, NEW S \in SUBSET Commands
    PROVE  Picks(S) \subseteq PickedCommands
BY DEF TypeOK, Picks, PickOf, PickedCommands, CommandRows

LEMMA ReportType ==
    ASSUME TypeOK, NEW h \in HostSessions, NEW b \in BOOLEAN, ReportSession(h, b)
    PROVE  host' \in [HostSessions -> HostRows] /\ newest' \in [Lanes -> OrNone(HostSessions)]
<1>1. host' \in [HostSessions -> HostRows]
  BY HostRowType DEF ReportSession, TypeOK, OrNone
<1>2. newest' \in [Lanes -> OrNone(HostSessions)]
  BY NewestAmongType DEF ReportSession, TypeOK
<1> QED
  BY <1>1, <1>2

LEMMA TypeInit == Init => TypeOK
BY DEF Init, TypeOK, CommandRows, Absent, HostRows, Unknown, ConnectorRows, TaskStates,
       States, Sources, Frames, Idle, OrNone

LEMMA TypeBegin ==
    ASSUME TypeOK, NEW w \in Handlers, Begin(w)
    PROVE  TypeOK'
<1>1. ASSUME NEW mode \in Modes, NEW lane \in OrNone(Lanes), NEW k \in OrNone(Connectors),
             CreateCheck(w, mode, lane, k)
      PROVE  TypeOK'
  BY <1>1, CurrentType, HostSessionParts, CommandTableAssumption
  DEF CreateCheck, TypeOK, Frames, CreateFrames, CommandRows, OrNone, States, Sources, Present,
      ChosenTargets
<1>2. ASSUME NEW k \in Connectors, LeaseSelect(w, k)
      PROVE  TypeOK'
  BY <1>2, CurrentType
  DEF LeaseSelect, TypeOK, Frames, LeaseFrames, OrNone, Joined, Present, HostRows
<1>3. ASSUME NEW k \in Connectors, CleanupSelect(w, k)
      PROVE  TypeOK'
  BY <1>3, SweepType, PicksType
  DEF CleanupSelect, TypeOK, Frames, SweepFrames
<1>4. ASSUME NEW k \in Connectors, NEW c \in Commands, NEW kind \in EventKinds,
             NEW s \in OrNone(SessionIds), EventSelect(w, k, c, kind, s)
      PROVE  TypeOK'
  BY <1>4 DEF EventSelect, TypeOK, Frames, EventFrames, CommandRows
<1>5. ASSUME NEW k \in Connectors, NEW ids \in SUBSET Commands, DisconnectSelect(w, k, ids)
      PROVE  TypeOK'
  BY <1>5, SweepType, PicksType
  DEF DisconnectSelect, TypeOK, Frames, SweepFrames
<1>6. ASSUME NEW h \in HostSessions, Detach(w, h)
      PROVE  TypeOK'
  <2>1. host[h].lane \in Lanes
    BY <1>6 DEF Detach, TypeOK, HostRows, OrNone
  <2>2. host' \in [HostSessions -> HostRows]
    <3>1. [host[h] EXCEPT !.lane = None] \in HostRows
      BY HostRowType DEF OrNone
    <3> QED
      BY <1>6, <3>1 DEF Detach, TypeOK
  <2>3. newest' \in [Lanes -> OrNone(HostSessions)]
    <3>1. PICK n \in NewestAmong(host', host[h].lane) :
                 newest' = [newest EXCEPT ![host[h].lane] = n]
      BY <1>6 DEF Detach
    <3>2. n \in OrNone(HostSessions)
      BY <3>1, NewestAmongType
    <3> QED
      BY <3>1, <3>2 DEF TypeOK
  <2>4. run' \in [Handlers -> Frames]
    BY <1>6, <2>1, LostFromType DEF Detach, TypeOK, Frames
  <2> QED
    BY <1>6, <2>2, <2>3, <2>4 DEF Detach, TypeOK
<1>7. ASSUME NEW h \in HostSessions, DemoteSession(w, h)
      PROVE  TypeOK'
  <2>1. host[h].lane \in Lanes
    BY <1>7 DEF DemoteSession, LosesPresence, TypeOK, HostRows, OrNone
  <2>2. host' \in [HostSessions -> HostRows] /\ newest' \in [Lanes -> OrNone(HostSessions)]
    BY <1>7, ReportType DEF DemoteSession
  <2>3. run' \in [Handlers -> Frames]
    BY <1>7, <2>1, LostFromType DEF DemoteSession, TypeOK, Frames
  <2> QED
    BY <1>7, <2>2, <2>3 DEF DemoteSession, ReportSession, TypeOK
<1>8. ASSUME NEW p \in Heirs, Retire(w, p[1], p[2])
      PROVE  TypeOK'
  <2>1. p[1] \in Connectors /\ p[2] \in Connectors
    BY CommandTableAssumption
  <2>2. \A S \in SUBSET Commands :
          [Sweep("disconnect", p[1]) EXCEPT !.heir = p[2], !.rest = Picks(S)] \in SweepFrames
    BY <2>1, PicksType DEF Sweep, SweepFrames, OrNone
  <2>3. run' \in [Handlers -> Frames]
    BY <1>8, <2>2 DEF Retire, TypeOK, Frames
  <2> QED
    BY <1>8, <2>3 DEF Retire, TypeOK
<1> QED
  BY <1>1, <1>2, <1>3, <1>4, <1>5, <1>6, <1>7, <1>8 DEF Begin

\* The fields of a row that the statements write.
LEMMA RowType ==
    ASSUME NEW r \in CommandRows, NEW s \in States, NEW k \in OrNone(Connectors),
           NEW o \in OrNone(Connectors), NEW src \in Sources, NEW d \in OrNone(SessionIds)
    PROVE  /\ [r EXCEPT !.state = s] \in CommandRows
           /\ [r EXCEPT !.target = k] \in CommandRows
           /\ [r EXCEPT !.state = s, !.owner = o, !.expired = FALSE] \in CommandRows
           /\ [r EXCEPT !.state = s, !.owner = o, !.expired = FALSE, !.target = k,
                        !.source = src, !.session = d] \in CommandRows
BY DEF CommandRows

\* The fields of a sweep or a migration that its statements write.
LEMMA SweepStepType ==
    ASSUME NEW f \in SweepFrames, NEW S \in SUBSET PickedCommands,
           NEW p \in OrNone(PickedCommands),
           NEW a \in {"release", "select", "next", "fail", "task", "append"}
    PROVE  /\ [f EXCEPT !.at = a] \in SweepFrames
           /\ [f EXCEPT !.rest = S] \in SweepFrames
           /\ [[f EXCEPT !.at = a] EXCEPT !.rest = S] \in SweepFrames
           /\ [[f EXCEPT !.at = a] EXCEPT !.pick = p] \in SweepFrames
           /\ [[[f EXCEPT !.rest = S] EXCEPT !.at = a] EXCEPT !.pick = p] \in SweepFrames
           /\ [[[f EXCEPT !.rest = S] EXCEPT !.pick = p] EXCEPT !.at = a] \in SweepFrames
BY DEF SweepFrames

LEMMA MigrateStepType ==
    ASSUME NEW f \in MigrateFrames, NEW S \in SUBSET PickedHosts, NEW p \in OrNone(PickedHosts),
           NEW a \in {"select", "next", "attached", "explicit", "retire"}
    PROVE  /\ [f EXCEPT !.at = a] \in MigrateFrames
           /\ [[f EXCEPT !.at = a] EXCEPT !.rest = S] \in MigrateFrames
           /\ [[f EXCEPT !.at = a] EXCEPT !.pick = p] \in MigrateFrames
           /\ [[[f EXCEPT !.rest = S] EXCEPT !.pick = p] EXCEPT !.at = a] \in MigrateFrames
BY DEF MigrateFrames

\* The next statement of any handler keeps the types.
LEMMA TypeContinue ==
    ASSUME TypeOK, FramesAreSound, NEW w \in Handlers, Continue(w)
    PROVE  TypeOK'
<1> DEFINE f == run[w]
<1>f. /\ f.op = "create" => f \in CreateFrames
      /\ f.op = "lease" => f \in LeaseFrames
      /\ f.op = "event" => f \in EventFrames
      /\ f.op \in {"disconnect", "cleanup", "lost", "refuse"} => f \in SweepFrames
      /\ f.op = "migrate" => f \in MigrateFrames
  BY FrameByOp DEF TypeOK
<1>i. Idle \in Frames /\ SweepFrames \subseteq Frames /\ MigrateFrames \subseteq Frames
      /\ EventFrames \subseteq Frames
  BY DEF Frames
<1>1. CASE CreateInsert(w)
  BY <1>1, <1>f, <1>i DEF CreateInsert, CreateFrames, End, TypeOK
<1>2. CASE LeaseUpdate(w)
  <2>1. f \in LeaseFrames
    BY <1>2, <1>f DEF LeaseUpdate
  <2>2. f.present => Sid(f.host) \in OrNone(SessionIds)
    BY <2>1, HostSessionParts DEF LeaseFrames, OrNone, FramesAreSound, FrameIsSound, LeaseIsSound
  <2>3. f.id \in Commands /\ f.by \in Connectors /\ command[f.id] \in CommandRows
    BY <2>1 DEF LeaseFrames, TypeOK
  <2>4. \A t \in OrNone(Connectors), src \in Sources, d \in OrNone(SessionIds) :
          [command[f.id] EXCEPT !.state = "leased", !.owner = f.by, !.expired = FALSE,
             !.target = t, !.source = src, !.session = d] \in CommandRows
    BY <2>3 DEF CommandRows, States, OrNone
  <2>5. command' \in [Commands -> CommandRows]
    <3> DEFINE r == command[f.id]
               bind == r.source = "auto" /\ f.present
               row == [r EXCEPT !.state = "leased", !.owner = f.by, !.expired = FALSE,
                         !.target = IF bind THEN f.by ELSE @,
                         !.source = IF bind THEN "attached" ELSE @,
                         !.session = IF Codex(r) /\ f.present THEN Sid(f.host) ELSE None]
    <3>1. r.target \in OrNone(Connectors) /\ r.source \in Sources
      BY <2>3 DEF CommandRows
    <3>2. /\ (IF bind THEN f.by ELSE r.target) \in OrNone(Connectors)
          /\ (IF bind THEN "attached" ELSE r.source) \in Sources
          /\ (IF Codex(r) /\ f.present THEN Sid(f.host) ELSE None) \in OrNone(SessionIds)
      BY <2>2, <2>3, <3>1 DEF OrNone, Sources
    <3>3. row \in CommandRows
      BY <2>4, <3>2
    <3>4. command' = [command EXCEPT ![f.id] = row] \/ command' = command
      BY <1>2 DEF LeaseUpdate
    <3> HIDE DEF row
    <3> QED
      BY <3>3, <3>4 DEF TypeOK
  <2> QED
    BY <1>2, <1>i, <2>5 DEF LeaseUpdate, End, TypeOK
<1>3. CASE EventUpdate(w)
  <2>1. f \in EventFrames /\ f.kind \in {"started", "finished", "failed"}
    BY <1>3, <1>f DEF EventUpdate, FramesAreSound, FrameIsSound, EventMoves
  <2>2. command' \in [Commands -> CommandRows]
    <3>1. f.id \in Commands /\ command[f.id] \in CommandRows
      BY <2>1 DEF EventFrames, TypeOK
    <3>2. CommandStateFor(f.kind) \in States
      BY <2>1 DEF CommandStateFor, States
    <3>3. [command[f.id] EXCEPT !.state = CommandStateFor(f.kind)] \in CommandRows
      BY <3>1, <3>2 DEF CommandRows
    <3>4. command' = [command EXCEPT ![f.id].state = CommandStateFor(f.kind)] \/ command' = command
      BY <1>3 DEF EventUpdate
    <3> QED
      BY <3>1, <3>3, <3>4 DEF TypeOK
  <2>3. run' \in [Handlers -> Frames]
    <3>1. \A a \in {"task", "reject"} : [f EXCEPT !.at = a] \in Frames
      BY <2>1, <1>i DEF EventFrames
    <3> QED
      BY <1>3, <1>i, <3>1 DEF EventUpdate, Goto, End, TypeOK
  <2> QED
    BY <1>3, <2>2, <2>3 DEF EventUpdate, TypeOK
<1>4. CASE EventTask(w)
  <2>1. f \in EventFrames
    BY <1>4, <1>f DEF EventTask
  <2>2. [f EXCEPT !.at = "append"] \in Frames
    BY <2>1, <1>i DEF EventFrames
  <2>3. task' \in [Lanes -> TaskStates]
    BY <1>4 DEF EventTask, TypeOK, TaskStateFor, TaskStates
  <2> QED
    BY <1>4, <2>2, <2>3 DEF EventTask, Goto, TypeOK
<1>5. CASE EventAppend(w)
  <2>1. finals' = [finals EXCEPT ![f.id] = @ + 1] \/ finals' = finals
    BY <1>5 DEF EventAppend
  <2>2. finals' \in [Commands -> Nat]
    BY <2>1 DEF TypeOK
  <2> QED
    BY <1>5, <1>i, <2>2 DEF EventAppend, End, TypeOK
<1>6. CASE EventReject(w)
  <2>1. f \in EventFrames
    BY <1>6, <1>f DEF EventReject
  <2>2. command' \in [Commands -> CommandRows]
    <3> DEFINE h == Current(command[f.id].lane)
    <3>1. Executable(h) => Sid(h) \in SessionIds
      BY CurrentType, HostSessionParts DEF Executable, Present, OrNone
    <3> QED
      <4>1. f.id \in Commands /\ command[f.id] \in CommandRows
        BY <2>1 DEF EventFrames, TypeOK
      <4> DEFINE r == command[f.id]
                 clear == f.source = "attached"
                 row == [r EXCEPT !.state = "pending", !.owner = None, !.expired = FALSE,
                           !.target = IF clear THEN None ELSE @,
                           !.source = IF clear THEN "auto" ELSE @,
                           !.session = Sid(h)]
                 released == /\ f.session # None
                             /\ r.owner = f.by /\ r.state = "leased" /\ r.session = f.session
                             /\ Executable(h)
                             /\ Conn(h) # f.by \/ Sid(h) # f.session
                             /\ clear \/ r.target = None \/ Conn(h) = r.target
      <4>2. Executable(h) => row \in CommandRows
        <5>1. CASE clear
          BY <3>1, <4>1, <5>1 DEF CommandRows, OrNone, States, Sources
        <5>2. CASE ~clear
          BY <3>1, <4>1, <5>2 DEF CommandRows, OrNone, States
        <5> QED
          BY <5>1, <5>2
      <4>3. IF released THEN command' = [command EXCEPT ![f.id] = row] ELSE command' = command
        BY <1>6 DEF EventReject
      <4> HIDE DEF row
      <4> QED
        BY <4>1, <4>2, <4>3 DEF TypeOK
  <2>3. run' \in [Handlers -> Frames]
    <3>1. \A p \in PickedCommands :
            [Sweep("refuse", f.by) EXCEPT !.at = "fail", !.pick = p] \in SweepFrames
      BY <2>1 DEF EventFrames, Sweep, SweepFrames, OrNone
    <3>2. [id |-> f.id, source |-> f.source, session |-> f.session] \in PickedCommands
      BY <2>1 DEF EventFrames, PickedCommands
    <3> QED
      BY <1>6, <1>i, <3>1, <3>2 DEF EventReject, End, TypeOK
  <2> QED
    BY <1>6, <2>2, <2>3 DEF EventReject, TypeOK
<1>7. CASE CleanupRelease(w)
  <2>1. f \in SweepFrames
    BY <1>7, <1>f DEF CleanupRelease
  <2>2. PICK p \in f.rest :
           LET h == Current(command[p.id].lane)
               free == [command EXCEPT ![p.id] = [@ EXCEPT
                         !.state = "pending", !.owner = None, !.expired = FALSE,
                         !.target = None, !.source = "auto", !.session = Sid(h)]]
           IN  \/ /\ Executable(h) /\ command' = free
                  /\ run' = [run EXCEPT ![w].rest = @ \ {p}]
               \/ /\ command' = command
                  /\ run' = [run EXCEPT ![w].rest = @ \ {p}, ![w].at = "fail", ![w].pick = p]
    BY <1>7 DEF CleanupRelease
  <2>3. p \in PickedCommands /\ f.rest \ {p} \in SUBSET PickedCommands
    BY <2>1 DEF SweepFrames
  <2>4. command' \in [Commands -> CommandRows]
    <3> DEFINE h == Current(command[p.id].lane)
    <3>1. Executable(h) => Sid(h) \in SessionIds
      BY CurrentType, HostSessionParts DEF Executable, Present, OrNone
    <3> QED
      <4>1. p.id \in Commands /\ command[p.id] \in CommandRows
        BY <2>3 DEF PickedCommands, TypeOK
      <4> DEFINE row == [command[p.id] EXCEPT !.state = "pending", !.owner = None,
                           !.expired = FALSE, !.target = None, !.source = "auto",
                           !.session = Sid(h)]
      <4>2. Executable(h) => row \in CommandRows
        BY <3>1, <4>1 DEF CommandRows, OrNone, States, Sources
      <4>3. (Executable(h) /\ command' = [command EXCEPT ![p.id] = row]) \/ command' = command
        BY <2>2
      <4> HIDE DEF row
      <4> QED
        BY <4>1, <4>2, <4>3 DEF TypeOK
  <2>5. run' \in [Handlers -> Frames]
    <3>1. /\ [f EXCEPT !.rest = @ \ {p}] \in SweepFrames
          /\ [[[f EXCEPT !.rest = @ \ {p}] EXCEPT !.at = "fail"] EXCEPT !.pick = p] \in SweepFrames
      BY <2>1, <2>3 DEF SweepFrames, OrNone
    <3> QED
      BY <2>2, <1>i, <3>1 DEF TypeOK
  <2> QED
    BY <1>7, <2>4, <2>5 DEF CleanupRelease, TypeOK
<1>8. CASE LostRelease(w)
  <2>1. f \in SweepFrames
    BY <1>8, <1>f DEF LostRelease
  <2>2. run' \in [Handlers -> Frames]
    <3>1. [f EXCEPT !.at = "select"] \in SweepFrames
      BY <2>1 DEF SweepFrames
    <3> QED
      BY <1>8, <1>i, <3>1 DEF LostRelease, Goto, TypeOK
  <2>3. command' \in [Commands -> CommandRows]
    <3>1. PICK a \in Alternatives(f.lane, f.host), S \in SUBSET Commands :
            /\ S # {} => Executable(a)
            /\ command' = [c \in Commands |->
                 IF c \in S
                 THEN [command[c] EXCEPT
                        !.state = "pending", !.owner = None, !.expired = FALSE,
                        !.target = IF command[c].source = "attached" THEN None ELSE @,
                        !.source = IF @ = "attached" THEN "auto" ELSE @,
                        !.session = Sid(a)]
                 ELSE command[c]]
      <4>1. PICK a \in Alternatives(f.lane, f.host) :
              LET moves(r) == /\ BoundTo(f.host, f.lane, r)
                              /\ Executable(a)
                              /\ \/ r.source = "attached" \/ r.target = None
                                 \/ r.target = Conn(a)
              IN command' = [c \in Commands |->
                   IF moves(command[c])
                   THEN [command[c] EXCEPT
                          !.state = "pending", !.owner = None, !.expired = FALSE,
                          !.target = IF command[c].source = "attached" THEN None ELSE @,
                          !.source = IF @ = "attached" THEN "auto" ELSE @,
                          !.session = Sid(a)]
                   ELSE command[c]]
        BY <1>8 DEF LostRelease
      <4> DEFINE S == {c \in Commands : /\ BoundTo(f.host, f.lane, command[c])
                                        /\ Executable(a)
                                        /\ \/ command[c].source = "attached"
                                           \/ command[c].target = None
                                           \/ command[c].target = Conn(a)}
      <4> HIDE DEF f
      <4> WITNESS a \in Alternatives(f.lane, f.host), S \in SUBSET Commands
      <4> QED
        BY <4>1
    <3>2. Executable(a) => Sid(a) \in SessionIds
      BY AlternativesType, HostSessionParts DEF Executable, Present, OrNone
    <3> QED
      <4> SUFFICES ASSUME NEW c \in Commands
                   PROVE  command'[c] \in CommandRows
        BY <3>1 DEF TypeOK
      <4> DEFINE r == command[c]
                 row == [r EXCEPT !.state = "pending", !.owner = None, !.expired = FALSE,
                           !.target = IF r.source = "attached" THEN None ELSE @,
                           !.source = IF @ = "attached" THEN "auto" ELSE @,
                           !.session = Sid(a)]
      <4>1. r \in CommandRows
        BY DEF TypeOK
      <4>2. Executable(a) => row \in CommandRows
        BY <3>2, <4>1 DEF CommandRows, OrNone, States, Sources
      <4>3. (Executable(a) /\ command'[c] = row) \/ command'[c] = r
        BY <3>1
      <4> HIDE DEF row
      <4> QED
        BY <4>1, <4>2, <4>3
  <2> QED
    BY <1>8, <2>2, <2>3 DEF LostRelease, TypeOK
<1>9. CASE LostSelect(w)
  <2>1. f \in SweepFrames
    BY <1>9, <1>f DEF LostSelect
  <2>2. PICK S \in SUBSET Commands : run' = [run EXCEPT ![w].at = "next", ![w].rest = Picks(S)]
    BY <1>9 DEF LostSelect
  <2>3. run' \in [Handlers -> Frames]
    BY <1>i, <2>1, <2>2, PicksType, SweepStepType DEF TypeOK, OrNone
  <2> QED
    BY <1>9, <2>3 DEF LostSelect, TypeOK
<1>10. CASE SweepFail(w)
  <2>1. f \in SweepFrames
    BY <1>10, <1>f DEF SweepFail
  <2>2. PICK p \in Candidates(f),
           a \in IF f.op = "lost" THEN Alternatives(f.lane, f.host) ELSE {None} :
           LET failed == FailGuard(f, p, command[p.id], a)
           IN  /\ command' = IF failed
                    THEN [command EXCEPT ![p.id] =
                            [@ EXCEPT !.state = "failed", !.owner = None, !.expired = FALSE]]
                    ELSE command
               /\ run' = [run EXCEPT ![w] = AfterFail(f, p, failed)]
    BY <1>10 DEF SweepFail
  <2>3. p \in OrNone(PickedCommands)
    BY <2>1 DEF Candidates, SweepFrames, OrNone
  <2>4. command' \in [Commands -> CommandRows]
    <3> DEFINE row == [command[p.id] EXCEPT !.state = "failed", !.owner = None, !.expired = FALSE]
    <3>1. p.id \in Commands => row \in CommandRows
      <4>1. \A r \in CommandRows :
              [r EXCEPT !.state = "failed", !.owner = None, !.expired = FALSE] \in CommandRows
        BY DEF CommandRows, OrNone, States
      <4> QED
        BY <4>1 DEF TypeOK
    <3>2. command' = [command EXCEPT ![p.id] = row] \/ command' = command
      BY <2>2
    <3> HIDE DEF row
    <3> QED
      BY <3>1, <3>2 DEF TypeOK
  <2>5. run' \in [Handlers -> Frames]
    <3>1. \A failed : AfterFail(f, p, failed) \in SweepFrames
      <4>1. ASSUME NEW q \in OrNone(PickedCommands), NEW a1 \in {"task", "next"}
            PROVE  [f EXCEPT !.rest = f.rest \ {p}, !.pick = q, !.at = a1] \in SweepFrames
        BY <2>1 DEF SweepFrames
      <4>2. None \in OrNone(PickedCommands)
        BY DEF OrNone
      <4> QED
        BY <2>3, <4>1, <4>2 DEF AfterFail
    <3>2. run' = [run EXCEPT ![w] = AfterFail(f, p, FailGuard(f, p, command[p.id], a))]
      BY <2>2
    <3> QED
      BY <1>i, <3>1, <3>2 DEF TypeOK
  <2> QED
    BY <1>10, <2>4, <2>5 DEF SweepFail, TypeOK
<1>11. CASE SweepTask(w)
  <2>1. f \in SweepFrames
    BY <1>11, <1>f DEF SweepTask
  <2>2. [f EXCEPT !.at = "append"] \in Frames
    BY <2>1, <1>i DEF SweepFrames
  <2>3. task' \in [Lanes -> TaskStates]
    BY <1>11 DEF SweepTask, TypeOK, TaskStates
  <2> QED
    BY <1>11, <2>2, <2>3 DEF SweepTask, Goto, TypeOK
<1>12. CASE SweepAppend(w)
  <2>1. f \in SweepFrames
    BY <1>12, <1>f DEF SweepAppend
  <2>2. [[f EXCEPT !.at = "next"] EXCEPT !.pick = None] \in Frames
    BY <2>1, <1>i DEF SweepFrames, OrNone
  <2>3. finals' \in [Commands -> Nat]
    <3>1. (\E c : finals' = [finals EXCEPT ![c] = @ + 1]) \/ finals' = finals
      BY <1>12 DEF SweepAppend
    <3> QED
      BY <3>1 DEF TypeOK
  <2> QED
    BY <1>12, <2>2, <2>3 DEF SweepAppend, TypeOK
<1>13. CASE SweepEnd(w)
  <2>1. f \in SweepFrames
    BY <1>13, <1>f DEF SweepEnd
  <2>2. f.heir # None => [op |-> "migrate", at |-> "select", from |-> f.by, to |-> f.heir,
                          rest |-> {}, pick |-> None] \in MigrateFrames
    BY <2>1 DEF SweepFrames, MigrateFrames, OrNone
  <2>3. run' \in [Handlers -> Frames]
    BY <1>13, <1>i, <2>2 DEF SweepEnd, End, TypeOK
  <2>4. connector' \in [Connectors -> ConnectorRows]
    <3>1. \A k \in Connectors : [connector[k] EXCEPT !.online = FALSE] \in ConnectorRows
      BY DEF TypeOK, ConnectorRows
    <3>2. connector' = [connector EXCEPT ![f.by].online = FALSE] \/ connector' = connector
      BY <1>13 DEF SweepEnd
    <3> QED
      BY <3>1, <3>2 DEF TypeOK
  <2> QED
    BY <1>13, <2>3, <2>4 DEF SweepEnd, TypeOK
<1>14. CASE MigrateSelect(w)
  <2>1. f \in MigrateFrames
    BY <1>14, <1>f DEF MigrateSelect
  <2>2. {[session |-> Sid(h), present |-> host[h].present, lane |-> host[h].lane] :
           h \in RowsOf(f.from)} \in SUBSET PickedHosts
    BY HostSessionParts DEF RowsOf, PickedHosts, TypeOK, HostRows
  <2>3. run' \in [Handlers -> Frames]
    BY <1>14, <1>i, <2>1, <2>2, MigrateStepType DEF MigrateSelect, TypeOK, OrNone
  <2> QED
    BY <1>14, <2>3 DEF MigrateSelect, TypeOK
<1>15. CASE MigrateRow(w)
  <2>1. f \in MigrateFrames
    BY <1>15, <1>f DEF MigrateRow
  <2>2. PICK p \in f.rest :
         LET h == <<f.to, p.session>>
             lane == IF host[h].lane # None THEN host[h].lane ELSE p.lane
         IN  /\ host' = [host EXCEPT ![h] =
                  [known |-> TRUE, present |-> @.present \/ p.present, lane |-> lane]]
             /\ IF lane = None THEN UNCHANGED newest
                ELSE \E n \in NewestAmong(host', lane) : newest' = [newest EXCEPT ![lane] = n]
             /\ run' = [run EXCEPT ![w].rest = @ \ {p}, ![w].pick = p,
                          ![w].at = IF p.lane = None THEN "explicit" ELSE "attached"]
    BY <1>15 DEF MigrateRow
  <2>3. p \in PickedHosts /\ p \in OrNone(PickedHosts) /\ f.rest \ {p} \in SUBSET PickedHosts
    BY <2>1 DEF MigrateFrames, OrNone
  <2>4. host' \in [HostSessions -> HostRows]
    BY <2>2, <2>3 DEF TypeOK, HostRows, PickedHosts, OrNone
  <2>5. newest' \in [Lanes -> OrNone(HostSessions)]
    <3> DEFINE h == <<f.to, p.session>>
               lane == IF host[h].lane # None THEN host[h].lane ELSE p.lane
    <3>1. CASE lane = None
      BY <3>1, <2>2 DEF TypeOK
    <3>2. CASE lane # None
      <4>1. PICK n \in NewestAmong(host', lane) : newest' = [newest EXCEPT ![lane] = n]
        BY <3>2, <2>2
      <4>2. n \in OrNone(HostSessions)
        BY <4>1, NewestAmongType
      <4> QED
        BY <4>1, <4>2 DEF TypeOK
    <3> QED
      BY <3>1, <3>2
  <2>6. run' \in [Handlers -> Frames]
    <3>1. \A a \in {"attached", "explicit"} :
            [[[f EXCEPT !.rest = @ \ {p}] EXCEPT !.pick = p] EXCEPT !.at = a] \in MigrateFrames
      BY <2>1, <2>3 DEF MigrateFrames
    <3> QED
      BY <2>2, <1>i, <3>1 DEF TypeOK
  <2> QED
    BY <1>15, <2>4, <2>5, <2>6 DEF MigrateRow, TypeOK
<1>16. CASE RetargetAttached(w)
  <2>1. f \in MigrateFrames
    BY <1>16, <1>f DEF RetargetAttached
  <2>2. [f EXCEPT !.at = "explicit"] \in Frames
    BY <2>1, <1>i DEF MigrateFrames
  <2>3. command' \in [Commands -> CommandRows]
    <3>1. f.to \in Connectors
      BY <2>1 DEF MigrateFrames
    <3>2. \A r \in CommandRows : [r EXCEPT !.target = f.to] \in CommandRows
      BY <3>1 DEF CommandRows, OrNone
    <3> QED
      BY <1>16, <3>2 DEF RetargetAttached, Retarget, TypeOK
  <2> QED
    BY <1>16, <2>2, <2>3 DEF RetargetAttached, Goto, TypeOK
<1>17. CASE RetargetExplicit(w)
  <2>1. f \in MigrateFrames
    BY <1>17, <1>f DEF RetargetExplicit
  <2>2. [[f EXCEPT !.at = "next"] EXCEPT !.pick = None] \in Frames
    BY <2>1, <1>i DEF MigrateFrames, OrNone
  <2>3. command' \in [Commands -> CommandRows]
    <3>1. f.to \in Connectors
      BY <2>1 DEF MigrateFrames
    <3>2. \A r \in CommandRows : [r EXCEPT !.target = f.to] \in CommandRows
      BY <3>1 DEF CommandRows, OrNone
    <3>3. \A c \in Commands : command[c] \in CommandRows
      BY DEF TypeOK
    <3>4. /\ command' = [c \in Commands |-> command'[c]]
          /\ \A c \in Commands : \/ command'[c] = command[c]
                                 \/ command'[c] = [command[c] EXCEPT !.target = f.to]
      BY <1>17 DEF RetargetExplicit, Retarget
    <3> QED
      BY <3>2, <3>3, <3>4
  <2> QED
    BY <1>17, <2>2, <2>3 DEF RetargetExplicit, TypeOK
<1>18. CASE MigrateDelete(w)
  <2>1. f \in MigrateFrames
    BY <1>18, <1>f DEF MigrateDelete
  <2>2. [f EXCEPT !.at = "retire"] \in Frames
    BY <2>1, <1>i DEF MigrateFrames
  <2>3. host' \in [HostSessions -> HostRows]
    BY <1>18 DEF MigrateDelete, TypeOK, HostRows, Unknown, OrNone
  <2> QED
    BY <1>18, <2>2, <2>3 DEF MigrateDelete, Goto, TypeOK
<1>19. CASE MigrateEnd(w)
  BY <1>19, <1>i DEF MigrateEnd, End, TypeOK, ConnectorRows
<1> QED
  BY <1>1, <1>2, <1>3, <1>4, <1>5, <1>6, <1>7, <1>8, <1>9, <1>10, <1>11, <1>12, <1>13, <1>14,
     <1>15, <1>16, <1>17, <1>18, <1>19 DEF Continue

LEMMA TypeAtOnce ==
    ASSUME TypeOK, AtOnce
    PROVE  TypeOK'
<1>1. ASSUME NEW k \in Connectors, NEW c \in Commands, ReleaseLeased(k, c)
      PROVE  TypeOK'
  <2>1. [command[c] EXCEPT !.state = "pending", !.owner = None, !.expired = FALSE] \in CommandRows
    <3>1. command[c] \in CommandRows
      BY DEF TypeOK
    <3> QED
      BY <3>1 DEF CommandRows, OrNone, States
  <2> QED
    BY <1>1, <2>1 DEF ReleaseLeased, TypeOK
<1>2. ASSUME NEW c \in Commands, LeaseExpires(c)
      PROVE  TypeOK'
  BY <1>2 DEF LeaseExpires, TypeOK, CommandRows
<1>3. ASSUME NEW h \in HostSessions, Attach(h)
      PROVE  TypeOK'
  <2>1. OwnLane[h] \in Lanes
    BY CommandTableAssumption
  <2>2. [host[h] EXCEPT !.lane = OwnLane[h]] \in HostRows
    BY <2>1, HostRowType DEF OrNone
  <2>3. host' \in [HostSessions -> HostRows]
    BY <1>3, <2>2 DEF Attach, TypeOK
  <2>4. newest' \in [Lanes -> OrNone(HostSessions)]
    BY <1>3 DEF Attach, TypeOK, OrNone
  <2> QED
    BY <1>3, <2>3, <2>4 DEF Attach, TypeOK
<1>4. ASSUME NEW h \in HostSessions, NEW b \in BOOLEAN, UpsertSession(h, b)
      PROVE  TypeOK'
  <2>1. host' \in [HostSessions -> HostRows] /\ newest' \in [Lanes -> OrNone(HostSessions)]
    BY <1>4, ReportType DEF UpsertSession
  <2> QED
    BY <1>4, <2>1 DEF UpsertSession, ReportSession, TypeOK
<1>5. ASSUME NEW k \in Connectors, ConnectorUnavailable(k)
      PROVE  TypeOK'
  BY <1>5 DEF ConnectorUnavailable, TypeOK, ConnectorRows
<1>6. ASSUME NEW k \in Connectors, NEW caps \in CapSets, ConnectorReady(k, caps)
      PROVE  TypeOK'
  BY <1>6 DEF ConnectorReady, TypeOK, ConnectorRows
<1> QED
  BY <1>1, <1>2, <1>3, <1>4, <1>5, <1>6 DEF AtOnce

-----------------------------------------------------------------------------
(* One row at a time.                                                      *)

\* What OwnerIsTarget, PendingIsUnowned and AppServerKeepsSession say of a row.
RowIsSound(r) ==
    /\ Active(r) => r.owner # None /\ r.target \in {None, r.owner}
    /\ r.state \in {"absent", "pending"} => r.owner = None /\ ~r.expired
    /\ r.mode = "app_server" => r.session # None

\* What a step may make of the row r: a sound row q, that an ended command
\* keeps, that a running one only ends, and in which no target of an automatic
\* command appears from nowhere.
RowStep(r, q) ==
    /\ RowIsSound(q)
    /\ r.state # "absent" =>
         /\ q.state # "absent" /\ q.mode = r.mode
         /\ q.source = "auto" => q.target = None \/ (r.source = "auto" /\ q.target = r.target)
    /\ r.state \in {"succeeded", "failed"} => q = r
    /\ r.state = "running" => q = r \/ q.state \in {"succeeded", "failed"}

\* The inductive invariant.
IInv ==
    /\ TypeOK
    /\ FramesAreSound
    /\ OwnerIsTarget /\ PendingIsUnowned /\ AppServerKeepsSession

LEMMA RowsAreSound == IInv <=> TypeOK /\ FramesAreSound /\ \A c \in Commands : RowIsSound(command[c])
BY DEF IInv, OwnerIsTarget, PendingIsUnowned, AppServerKeepsSession, RowIsSound

\* A sound row may stay as it is.
LEMMA RowStutters == ASSUME NEW r, RowIsSound(r) PROVE RowStep(r, r)
BY DEF RowStep, RowIsSound

\* Two writes that every release and every failure are: a row goes back to
\* pending, with the target dropped when the source becomes automatic, and an
\* active or waiting row fails.
LEMMA RowReleased ==
    ASSUME NEW r \in CommandRows, RowIsSound(r), r.state \in {"pending", "leased"},
           NEW q \in CommandRows, q.state = "pending", q.owner = None, ~q.expired, q.mode = r.mode,
           q.source = "auto" => q.target = None \/ (r.source = "auto" /\ q.target = r.target),
           r.session # None => q.session # None
    PROVE  RowStep(r, q)
BY DEF RowStep, RowIsSound, Active

LEMMA RowFailed ==
    ASSUME NEW r \in CommandRows, RowIsSound(r), r.state \in {"pending", "leased", "running"}
    PROVE  RowStep(r, [r EXCEPT !.state = "failed", !.owner = None, !.expired = FALSE])
BY DEF RowStep, RowIsSound, Active, CommandRows

LEMMA RowsContinue ==
    ASSUME IInv, NEW w \in Handlers, Continue(w), NEW c \in Commands
    PROVE  RowStep(command[c], command'[c])
<1> DEFINE f == run[w]
           r == command[c]
<1>t. TypeOK /\ FramesAreSound /\ (\A d \in Commands : RowIsSound(command[d]))
  BY RowsAreSound
<1>r. r \in CommandRows /\ RowIsSound(r) /\ RowStep(r, r)
  BY <1>t, RowStutters DEF TypeOK
<1>f. /\ f.op = "create" => f \in CreateFrames
      /\ f.op = "lease" => f \in LeaseFrames
      /\ f.op = "event" => f \in EventFrames
      /\ f.op \in {"disconnect", "cleanup", "lost", "refuse"} => f \in SweepFrames
      /\ f.op = "migrate" => f \in MigrateFrames
  BY <1>t, FrameByOp DEF TypeOK
<1>a. Alternatives(f.lane, f.host) \subseteq OrNone(HostSessions)
  BY <1>t, AlternativesType
<1>s. \A h : h \in OrNone(HostSessions) /\ Executable(h) => Sid(h) \in SessionIds /\ Sid(h) # None
  BY HostSessionParts, CommandTableAssumption DEF Executable, Present, OrNone
<1>1. CASE CreateInsert(w)
  <2>1. command'[c] = r \/ (r.state = "absent" /\ command'[c] = f.row)
    BY <1>1, <1>t DEF CreateInsert, Created, TypeOK
  <2>2. RowIsSound(f.row)
    BY <1>1, <1>t DEF CreateInsert, FramesAreSound, FrameIsSound, CreateIsFresh, RowIsSound, Active
  <2> QED
    BY <2>1, <2>2, <1>r DEF RowStep
<1>2. CASE LeaseUpdate(w)
  <2> DEFINE bind == r.source = "auto" /\ f.present
             q == [r EXCEPT !.state = "leased", !.owner = f.by, !.expired = FALSE,
                      !.target = IF bind THEN f.by ELSE @,
                      !.source = IF bind THEN "attached" ELSE @,
                      !.session = IF Codex(r) /\ f.present THEN Sid(f.host) ELSE None]
  <2>1. f \in LeaseFrames /\ LeaseIsSound(command, f) /\ f.op = "lease"
    BY <1>2, <1>f, <1>t DEF LeaseUpdate, FramesAreSound, FrameIsSound
  <2>2. command'[c] = r \/ (f.id = c /\ LeaseGuard(f.by, r, f.host) /\ command'[c] = q)
    BY <1>2, <1>t DEF LeaseUpdate, TypeOK
  <2>3. ASSUME f.id = c, LeaseGuard(f.by, r, f.host)
        PROVE  RowStep(r, q)
    <3>1. f.by \in Connectors /\ f.by # None
      BY <2>1, CommandTableAssumption DEF LeaseFrames
    <3>2. r.state \in {"pending", "leased"}
      BY <2>3 DEF LeaseGuard, Leasable
    <3>3. (IF bind THEN f.by ELSE r.target) \in {None, f.by}
      BY <2>1, <2>3 DEF LeaseGuard, LeaseIsSound
    <3>4. f.present => Sid(f.host) # None
      BY <2>1, HostSessionParts, CommandTableAssumption DEF LeaseIsSound, LeaseFrames, OrNone
    <3>5. r.mode = "app_server" => f.present /\ Codex(r)
      BY <2>1, <2>3 DEF LeaseIsSound, Codex
    <3>6. /\ q.state = "leased" /\ q.owner = f.by /\ q.mode = r.mode
          /\ q.target \in {None, f.by}
          /\ q.source = "auto" => r.source = "auto" /\ q.target = r.target
          /\ r.mode = "app_server" => q.session # None
      BY <1>r, <3>3, <3>4, <3>5 DEF CommandRows
    <3> HIDE DEF q
    <3> QED
      BY <3>1, <3>2, <3>6 DEF RowStep, RowIsSound, Active
  <2> QED
    BY <1>r, <2>2, <2>3
<1>3. CASE EventUpdate(w)
  <2>1. f.kind \in {"started", "finished", "failed"}
    BY <1>3, <1>t DEF EventUpdate, FramesAreSound, FrameIsSound, EventMoves
  <2> DEFINE q == [r EXCEPT !.state = CommandStateFor(f.kind)]
  <2>2. command'[c] = r \/ (Active(r) /\ command'[c] = q)
    BY <1>3, <1>t DEF EventUpdate, Accepts, TypeOK
  <2>3. ASSUME Active(r) PROVE RowStep(r, q)
    <3>1. /\ CommandStateFor(f.kind) \in {"running", "succeeded", "failed"}
          /\ q.state = CommandStateFor(f.kind) /\ q.mode = r.mode /\ q.source = r.source
          /\ q.target = r.target /\ q.owner = r.owner /\ q.session = r.session
      BY <1>r, <2>1 DEF CommandStateFor, CommandRows
    <3>2. r.state = "running" /\ q.state = "running" => q = r
      BY <1>r DEF CommandRows
    <3> HIDE DEF q
    <3> QED
      BY <1>r, <2>3, <3>1, <3>2 DEF RowStep, RowIsSound, Active
  <2> QED
    BY <1>r, <2>2, <2>3
<1>4. CASE EventReject(w)
  <2> DEFINE h == Current(command[f.id].lane)
             clear == f.source = "attached"
             q == [r EXCEPT !.state = "pending", !.owner = None, !.expired = FALSE,
                      !.target = IF clear THEN None ELSE @,
                      !.source = IF clear THEN "auto" ELSE @, !.session = Sid(h)]
  <2>1. command'[c] = r \/ (r.state = "leased" /\ Executable(h) /\ command'[c] = q)
    <3>1. \/ command' = command
          \/ /\ command[f.id].state = "leased" /\ Executable(h)
             /\ command' = [command EXCEPT ![f.id] = [command[f.id] EXCEPT
                  !.state = "pending", !.owner = None, !.expired = FALSE,
                  !.target = IF clear THEN None ELSE @,
                  !.source = IF clear THEN "auto" ELSE @, !.session = Sid(h)]]
      BY <1>4 DEF EventReject
    <3>2. command \in [Commands -> CommandRows]
      BY <1>t DEF TypeOK
    <3>3. CASE f.id = c
      BY <3>1, <3>2, <3>3
    <3>4. CASE f.id # c
      BY <3>1, <3>2, <3>4
    <3> QED
      BY <3>3, <3>4
  <2>2. ASSUME r.state = "leased", Executable(h) PROVE RowStep(r, q)
    <3>1. Sid(h) \in SessionIds /\ Sid(h) # None
      BY <1>t, <1>s, <2>2, CurrentType
    <3>2. /\ q.state = "pending" /\ q.owner = None /\ ~q.expired /\ q.mode = r.mode
          /\ q.source = "auto" => q.target = None \/ (r.source = "auto" /\ q.target = r.target)
          /\ q.session = Sid(h)
      BY <1>r DEF CommandRows
    <3>3. q \in CommandRows
      <4>1. CASE clear
        BY <1>r, <3>1, <4>1 DEF CommandRows, OrNone, States, Sources
      <4>2. CASE ~clear
        BY <1>r, <3>1, <4>2 DEF CommandRows, OrNone, States
      <4> QED
        BY <4>1, <4>2
    <3> HIDE DEF q
    <3> QED
      BY <1>r, <2>2, <3>1, <3>2, <3>3, RowReleased
  <2> QED
    BY <1>r, <2>1, <2>2
<1>5. CASE CleanupRelease(w)
  <2> DEFINE h == Current(r.lane)
             q == [r EXCEPT !.state = "pending", !.owner = None, !.expired = FALSE,
                      !.target = None, !.source = "auto", !.session = Sid(h)]
  <2>1. command'[c] = r \/ (r.state \in {"pending", "leased"} /\ Executable(h) /\ command'[c] = q)
    <3>1. PICK p \in f.rest :
             \/ command' = command
             \/ /\ Waiting(f.by, command[p.id]) /\ Executable(Current(command[p.id].lane))
                /\ command' = [command EXCEPT ![p.id] = [@ EXCEPT
                     !.state = "pending", !.owner = None, !.expired = FALSE,
                     !.target = None, !.source = "auto",
                     !.session = Sid(Current(command[p.id].lane))]]
      BY <1>5 DEF CleanupRelease
    <3>2. command \in [Commands -> CommandRows]
      BY <1>t DEF TypeOK
    <3>3. CASE p.id = c
      BY <3>1, <3>2, <3>3 DEF Waiting
    <3>4. CASE p.id # c
      BY <3>1, <3>2, <3>4
    <3> QED
      BY <3>3, <3>4
  <2>2. ASSUME r.state \in {"pending", "leased"}, Executable(h) PROVE RowStep(r, q)
    <3>1. Sid(h) \in SessionIds /\ Sid(h) # None
      BY <1>t, <1>s, <2>2, CurrentType
    <3>2. /\ q.state = "pending" /\ q.owner = None /\ ~q.expired /\ q.mode = r.mode
          /\ q.target = None /\ q.session = Sid(h) /\ q \in CommandRows
      BY <1>r, <3>1 DEF CommandRows, OrNone, States, Sources
    <3> HIDE DEF q
    <3> QED
      BY <1>r, <2>2, <3>1, <3>2, RowReleased
  <2> QED
    BY <1>r, <2>1, <2>2
<1>6. CASE LostRelease(w)
  <2>1. PICK a \in OrNone(HostSessions) :
           \/ command'[c] = r
           \/ /\ BoundTo(f.host, f.lane, r) /\ Executable(a)
              /\ command'[c] = [r EXCEPT
                   !.state = "pending", !.owner = None, !.expired = FALSE,
                   !.target = IF r.source = "attached" THEN None ELSE @,
                   !.source = IF @ = "attached" THEN "auto" ELSE @,
                   !.session = Sid(a)]
    BY <1>6, <1>a DEF LostRelease
  <2> DEFINE q == [r EXCEPT
                   !.state = "pending", !.owner = None, !.expired = FALSE,
                   !.target = IF r.source = "attached" THEN None ELSE @,
                   !.source = IF @ = "attached" THEN "auto" ELSE @,
                   !.session = Sid(a)]
  <2>2. ASSUME BoundTo(f.host, f.lane, r), Executable(a) PROVE RowStep(r, q)
    <3>1. Sid(a) \in SessionIds /\ Sid(a) # None /\ r.state \in {"pending", "leased"}
      BY <1>s, <2>2 DEF BoundTo
    <3>2. /\ q.state = "pending" /\ q.owner = None /\ ~q.expired /\ q.mode = r.mode
          /\ q.source = "auto" => q.target = None \/ (r.source = "auto" /\ q.target = r.target)
          /\ q.session = Sid(a)
      BY <1>r DEF CommandRows
    <3>3. q \in CommandRows
      <4>1. CASE r.source = "attached"
        BY <1>r, <3>1, <4>1 DEF CommandRows, OrNone, States, Sources
      <4>2. CASE ~(r.source = "attached")
        BY <1>r, <3>1, <4>2 DEF CommandRows, OrNone, States
      <4> QED
        BY <4>1, <4>2
    <3> HIDE DEF q
    <3> QED
      BY <1>r, <3>1, <3>2, <3>3, RowReleased
  <2> QED
    BY <1>r, <2>1, <2>2
<1>7. CASE SweepFail(w)
  <2> DEFINE q == [r EXCEPT !.state = "failed", !.owner = None, !.expired = FALSE]
  <2>1. PICK p \in Candidates(f),
           a \in IF f.op = "lost" THEN Alternatives(f.lane, f.host) ELSE {None} :
           command' = IF FailGuard(f, p, command[p.id], a)
             THEN [command EXCEPT ![p.id] =
                     [@ EXCEPT !.state = "failed", !.owner = None, !.expired = FALSE]]
             ELSE command
    BY <1>7 DEF SweepFail
  <2>2. command'[c] = r \/ (FailGuard(f, p, r, a) /\ command'[c] = q)
    BY <1>t, <2>1 DEF TypeOK
  <2>3. FailGuard(f, p, r, a) => r.state \in {"pending", "leased", "running"}
    BY DEF FailGuard, Active, StaleTarget, Waiting, Stranded, BoundTo
  <2> QED
    BY <1>r, <2>2, <2>3, RowFailed
<1>8. CASE RetargetAttached(w) \/ RetargetExplicit(w)
  <2> DEFINE q == [r EXCEPT !.target = f.to]
  <2>1. \/ command'[c] = r
        \/ r.state = "pending" /\ r.source \in {"attached", "explicit"} /\ command'[c] = q
    BY <1>8 DEF RetargetAttached, RetargetExplicit, Retarget, Retargetable
  <2>2. ASSUME r.state = "pending", r.source \in {"attached", "explicit"} PROVE RowStep(r, q)
    <3>1. /\ q.state = "pending" /\ q.owner = r.owner /\ q.expired = r.expired
          /\ q.mode = r.mode /\ q.source = r.source /\ q.session = r.session
      BY <1>r, <2>2 DEF CommandRows
    <3> HIDE DEF q
    <3> QED
      BY <1>r, <2>2, <3>1 DEF RowStep, RowIsSound, Active
  <2> QED
    BY <1>r, <2>1, <2>2
<1>9. CASE \/ EventTask(w) \/ EventAppend(w) \/ LostSelect(w) \/ SweepTask(w) \/ SweepAppend(w)
           \/ SweepEnd(w) \/ MigrateSelect(w) \/ MigrateRow(w) \/ MigrateDelete(w) \/ MigrateEnd(w)
  BY <1>9, <1>r DEF EventTask, EventAppend, LostSelect, SweepTask, SweepAppend, SweepEnd,
     MigrateSelect, MigrateRow, MigrateDelete, MigrateEnd
<1> QED
  BY <1>1, <1>2, <1>3, <1>4, <1>5, <1>6, <1>7, <1>8, <1>9 DEF Continue

\* Only LeaseExpires and ReleaseLeased write rows outside of handlers.
LEMMA RowsAtOnce ==
    ASSUME IInv, AtOnce, NEW c \in Commands
    PROVE  RowStep(command[c], command'[c])
<1> DEFINE r == command[c]
<1>t. TypeOK /\ (\A d \in Commands : RowIsSound(command[d]))
  BY RowsAreSound
<1>r. r \in CommandRows /\ RowIsSound(r) /\ RowStep(r, r)
  BY <1>t, RowStutters DEF TypeOK
<1>1. ASSUME NEW k \in Connectors, NEW d \in Commands, ReleaseLeased(k, d)
      PROVE  RowStep(r, command'[c])
  <2> DEFINE q == [r EXCEPT !.state = "pending", !.owner = None, !.expired = FALSE]
  <2>1. command'[c] = r \/ (r.state = "leased" /\ command'[c] = q)
    BY <1>1, <1>t DEF ReleaseLeased, TypeOK
  <2>2. /\ q.state = "pending" /\ q.owner = None /\ ~q.expired /\ q.mode = r.mode
        /\ q.source = r.source /\ q.target = r.target /\ q.session = r.session
        /\ q \in CommandRows
    BY <1>r DEF CommandRows, OrNone, States
  <2> HIDE DEF q
  <2> QED
    BY <1>r, <2>1, <2>2, RowReleased
<1>2. ASSUME NEW d \in Commands, LeaseExpires(d)
      PROVE  RowStep(r, command'[c])
  <2> DEFINE q == [r EXCEPT !.expired = TRUE]
  <2>1. command'[c] = r \/ (r.state = "leased" /\ command'[c] = q)
    BY <1>2, <1>t DEF LeaseExpires, TypeOK
  <2>2. /\ q.state = r.state /\ q.owner = r.owner /\ q.mode = r.mode
        /\ q.source = r.source /\ q.target = r.target /\ q.session = r.session
    BY <1>r DEF CommandRows
  <2> HIDE DEF q
  <2> QED
    BY <1>r, <2>1, <2>2 DEF RowStep, RowIsSound, Active
<1>3. command' = command => RowStep(r, command'[c])
  BY <1>r
<1> QED
  BY <1>1, <1>2, <1>3 DEF AtOnce, Attach, UpsertSession, ReportSession, ConnectorUnavailable,
     ConnectorReady

-----------------------------------------------------------------------------
(* The frames.                                                             *)

\* What a frame knows of the rows is not spoilt by the rows other steps make.
LEMMA FrameSurvives ==
    ASSUME TypeOK, NEW f \in Frames, FrameIsSound(command, f),
           NEW rows, \A c \in Commands : RowStep(command[c], rows[c])
    PROVE  FrameIsSound(rows, f)
<1>1. f.op = "lease" => f.id \in Commands
  BY FrameByOp DEF LeaseFrames
<1> QED
  BY <1>1 DEF FrameIsSound, CreateIsFresh, LeaseIsSound, EventMoves, RowStep

\* No statement after the first opens a create or lease frame, or sends an
\* event back to its UPDATE.
NotAtUpdate(f) == ~(f.op = "event" /\ f.at = "update")

LEMMA FramesContinue ==
    ASSUME IInv, NEW w \in Handlers, Continue(w)
    PROVE  \E g : run' = [run EXCEPT ![w] = g] /\ g.op \notin {"create", "lease"} /\ NotAtUpdate(g)
<1> DEFINE f == run[w]
<1>t. TypeOK /\ FramesAreSound
  BY DEF IInv
<1>f. /\ f.op = "event" => f \in EventFrames
      /\ f.op \in {"disconnect", "cleanup", "lost", "refuse"} => f \in SweepFrames
      /\ f.op = "migrate" => f \in MigrateFrames
  BY <1>t, FrameByOp DEF TypeOK
<1>i. Idle.op \notin {"create", "lease"} /\ NotAtUpdate(Idle)
  BY DEF Idle, NotAtUpdate
<1>1. ASSUME End(w) PROVE \E g : run' = [run EXCEPT ![w] = g] /\ g.op \notin {"create", "lease"} /\ NotAtUpdate(g)
  BY <1>1, <1>i DEF End
<1>2. ASSUME NEW g, run' = [run EXCEPT ![w] = g], g.op \notin {"create", "lease"}, NotAtUpdate(g)
      PROVE  \E e : run' = [run EXCEPT ![w] = e] /\ e.op \notin {"create", "lease"} /\ NotAtUpdate(e)
  BY <1>2
<1>3. CASE CreateInsert(w) \/ LeaseUpdate(w) \/ EventAppend(w) \/ MigrateEnd(w)
  BY <1>1, <1>3 DEF CreateInsert, LeaseUpdate, EventAppend, MigrateEnd
<1>4. CASE EventUpdate(w) \/ EventTask(w)
  <2>1. f \in EventFrames
    BY <1>4, <1>f DEF EventUpdate, EventTask
  <2>2. \A a \in {"task", "reject", "append"} :
           [f EXCEPT !.at = a].op \notin {"create", "lease"} /\ NotAtUpdate([f EXCEPT !.at = a])
    BY <2>1 DEF EventFrames, NotAtUpdate
  <2> QED
    BY <1>1, <1>4, <2>2 DEF EventUpdate, EventTask, Goto
<1>5. CASE EventReject(w)
  <2> DEFINE g == [Sweep("refuse", f.by) EXCEPT !.at = "fail",
                     !.pick = [id |-> f.id, source |-> f.source, session |-> f.session]]
  <2>1. g.op = "refuse" /\ NotAtUpdate(g)
    BY DEF Sweep, NotAtUpdate
  <2>2. End(w) \/ run' = [run EXCEPT ![w] = g]
    BY <1>5 DEF EventReject
  <2> QED
    BY <1>1, <2>1, <2>2
<1>6. CASE \/ CleanupRelease(w) \/ LostRelease(w) \/ LostSelect(w)
           \/ SweepFail(w) \/ SweepTask(w) \/ SweepAppend(w)
  <2>1. f \in SweepFrames
    BY <1>6, <1>f DEF CleanupRelease, LostRelease, LostSelect, SweepFail, SweepTask, SweepAppend
  <2>2. \E a, S, p : \/ run' = [run EXCEPT ![w].at = a]
                     \/ run' = [run EXCEPT ![w].rest = S]
                     \/ run' = [run EXCEPT ![w].at = a, ![w].rest = S]
                     \/ run' = [run EXCEPT ![w].at = a, ![w].pick = p]
                     \/ run' = [run EXCEPT ![w].rest = S, ![w].at = a, ![w].pick = p]
                     \/ run' = [run EXCEPT ![w] = AfterFail(f, p, a)]
    <3>1. CASE CleanupRelease(w)
      <4>1. PICK q : \/ run' = [run EXCEPT ![w].rest = @ \ {q}]
                     \/ run' = [run EXCEPT ![w].rest = @ \ {q}, ![w].at = "fail", ![w].pick = q]
        BY <3>1 DEF CleanupRelease
      <4>2. CASE run' = [run EXCEPT ![w].rest = @ \ {q}]
        BY <4>2
      <4>3. CASE run' = [run EXCEPT ![w].rest = @ \ {q}, ![w].at = "fail", ![w].pick = q]
        BY <4>3
      <4> QED
        BY <4>1, <4>2, <4>3
    <3>2. CASE LostRelease(w)
      BY <3>2 DEF LostRelease, Goto
    <3>3. CASE LostSelect(w)
      <4>1. PICK S : run' = [run EXCEPT ![w].at = "next", ![w].rest = S]
        BY <3>3 DEF LostSelect
      <4> QED
        BY <4>1
    <3>4. CASE SweepFail(w)
      <4>1. PICK q, a : LET failed == FailGuard(f, q, command[q.id], a)
                        IN  run' = [run EXCEPT ![w] = AfterFail(f, q, failed)]
        BY <3>4 DEF SweepFail
      <4> QED
        BY <4>1
    <3>5. CASE SweepTask(w)
      BY <3>5 DEF SweepTask, Goto
    <3>6. CASE SweepAppend(w)
      BY <3>6 DEF SweepAppend
    <3> QED
      BY <1>6, <3>1, <3>2, <3>3, <3>4, <3>5, <3>6
  <2>3. run'[w].op = f.op /\ run' = [run EXCEPT ![w] = run'[w]]
    <3>1. \A p, a : AfterFail(f, p, a).op = f.op
      BY <2>1 DEF AfterFail, SweepFrames
    <3> QED
      BY <1>t, <2>1, <2>2, <3>1 DEF TypeOK, SweepFrames
  <2> QED
    BY <1>2, <2>1, <2>3 DEF SweepFrames, NotAtUpdate
<1>7. CASE SweepEnd(w)
  <2> DEFINE g == [op |-> "migrate", at |-> "select", from |-> run[w].by,
                   to |-> run[w].heir, rest |-> {}, pick |-> None]
  <2>1. g.op = "migrate" /\ NotAtUpdate(g)
    BY DEF NotAtUpdate
  <2>2. End(w) \/ run' = [run EXCEPT ![w] = g]
    BY <1>7 DEF SweepEnd
  <2> QED
    BY <1>1, <2>1, <2>2
<1>8. CASE \/ MigrateSelect(w) \/ MigrateRow(w) \/ RetargetAttached(w) \/ RetargetExplicit(w)
           \/ MigrateDelete(w)
  <2>1. f \in MigrateFrames
    BY <1>8, <1>f DEF MigrateSelect, MigrateRow, RetargetAttached, RetargetExplicit, MigrateDelete
  <2>2. \E a, S, p : \/ run' = [run EXCEPT ![w].at = a]
                     \/ run' = [run EXCEPT ![w].at = a, ![w].rest = S]
                     \/ run' = [run EXCEPT ![w].at = a, ![w].pick = p]
                     \/ run' = [run EXCEPT ![w].rest = S, ![w].pick = p, ![w].at = a]
    <3>1. CASE MigrateSelect(w)
      BY <3>1 DEF MigrateSelect
    <3>2. CASE MigrateRow(w)
      <4>1. PICK p : run' = [run EXCEPT ![w].rest = @ \ {p}, ![w].pick = p,
                               ![w].at = IF p.lane = None THEN "explicit" ELSE "attached"]
        BY <3>2 DEF MigrateRow
      <4> QED
        BY <4>1
    <3>3. CASE RetargetAttached(w)
      BY <3>3 DEF RetargetAttached, Goto
    <3>4. CASE RetargetExplicit(w)
      BY <3>4 DEF RetargetExplicit
    <3>5. CASE MigrateDelete(w)
      BY <3>5 DEF MigrateDelete, Goto
    <3> QED
      BY <1>8, <3>1, <3>2, <3>3, <3>4, <3>5
  <2>3. run'[w].op = f.op /\ run' = [run EXCEPT ![w] = run'[w]]
    BY <1>t, <2>1, <2>2 DEF TypeOK, MigrateFrames
  <2> QED
    BY <1>2, <2>1, <2>3 DEF MigrateFrames, NotAtUpdate
<1> QED
  BY <1>3, <1>4, <1>5, <1>6, <1>7, <1>8 DEF Continue

\* A handler that starts puts a sound frame in its place.
LEMMA FramesBegin ==
    ASSUME IInv, NEW w \in Handlers, Begin(w)
    PROVE  /\ command' = command
           /\ \E g : run' = [run EXCEPT ![w] = g] /\ FrameIsSound(command, g)
<1>t. TypeOK /\ FramesAreSound /\ (\A d \in Commands : RowIsSound(command[d]))
  BY RowsAreSound
<1>p. ASSUME NEW g, run' = [run EXCEPT ![w] = g], FrameIsSound(command, g)
      PROVE  \E e : run' = [run EXCEPT ![w] = e] /\ FrameIsSound(command, e)
  BY <1>p
<1>1. ASSUME NEW mode \in Modes, NEW lane \in OrNone(Lanes), NEW k \in OrNone(Connectors),
             CreateCheck(w, mode, lane, k)
      PROVE  command' = command /\ \E g : run' = [run EXCEPT ![w] = g] /\ FrameIsSound(command, g)
  <2> DEFINE attached == IF mode = "cli_fallback" THEN None ELSE Current(lane)
             frame(t, s) == [op |-> "create", host |-> attached, present |-> Present(attached),
                    row |-> [state |-> "pending", mode |-> mode, lane |-> lane,
                             target |-> t, source |-> s,
                             owner |-> None, expired |-> FALSE,
                             session |-> IF mode = "app_server" THEN Sid(attached) ELSE None]]
  <2>1. PICK t : run' = [run EXCEPT ![w] = frame(t, IF k # None THEN "explicit"
                                        ELSE IF attached # None THEN "attached" ELSE "auto")]
    BY <1>1 DEF CreateCheck
  <2>2. mode = "app_server" => Sid(attached) # None
    <3>1. attached \in OrNone(HostSessions)
      BY <1>t, CurrentType DEF OrNone
    <3>2. mode = "app_server" => attached # None
      BY <1>1 DEF CreateCheck, Present
    <3> QED
      BY <3>1, <3>2, HostSessionParts, CommandTableAssumption DEF OrNone
  <2>3. \A s : FrameIsSound(command, frame(t, s))
    BY <2>2 DEF FrameIsSound, CreateIsFresh, LeaseIsSound, EventMoves
  <2> QED
    BY <1>1, <1>p, <2>1, <2>3 DEF CreateCheck
<1>2. ASSUME NEW k \in Connectors, LeaseSelect(w, k)
      PROVE  command' = command /\ \E g : run' = [run EXCEPT ![w] = g] /\ FrameIsSound(command, g)
  <2>1. PICK c \in Commands :
          /\ LeaseGuard(k, command[c], Joined(command[c]))
          /\ run' = [run EXCEPT ![w] = [op |-> "lease", by |-> k, id |-> c,
                       host |-> Joined(command[c]), present |-> Present(Joined(command[c]))]]
    BY <1>2 DEF LeaseSelect
  <2>2. LeaseIsSound(command, [op |-> "lease", by |-> k, id |-> c,
                      host |-> Joined(command[c]), present |-> Present(Joined(command[c]))])
    BY <1>t, <2>1 DEF LeaseIsSound, LeaseGuard, Leasable, Present, RowIsSound, Codex
  <2> QED
    BY <1>2, <1>p, <2>1, <2>2 DEF LeaseSelect, FrameIsSound, CreateIsFresh, EventMoves
<1>3. ASSUME NEW k \in Connectors, NEW c \in Commands, NEW kind \in EventKinds,
             NEW s \in OrNone(SessionIds), EventSelect(w, k, c, kind, s)
      PROVE  command' = command /\ \E g : run' = [run EXCEPT ![w] = g] /\ FrameIsSound(command, g)
  <2> DEFINE r == command[c]
             g(a) == [op |-> "event", by |-> k, id |-> c, kind |-> kind, claimed |-> s,
                      source |-> r.source, session |-> r.session, at |-> a]
  <2>1. run' = [run EXCEPT ![w] =
                  g(IF NeedsTarget(kind, r.mode, r.session, s) /\ s = None THEN "reject"
                    ELSE IF CommandStateFor(kind) = "none" THEN "task" ELSE "update")]
    BY <1>3 DEF EventSelect
  <2>2. \A a : (a = "update" => CommandStateFor(kind) # "none") => FrameIsSound(command, g(a))
    BY DEF FrameIsSound, CreateIsFresh, LeaseIsSound, EventMoves, CommandStateFor
  <2> HIDE DEF g
  <2> QED
    BY <1>3, <1>p, <2>1, <2>2 DEF EventSelect
<1>4. ASSUME NEW g, run' = [run EXCEPT ![w] = g], g.op \in {"disconnect", "cleanup", "lost"}
      PROVE  \E e : run' = [run EXCEPT ![w] = e] /\ FrameIsSound(command, e)
  BY <1>4, <1>p DEF FrameIsSound, CreateIsFresh, LeaseIsSound, EventMoves
<1>5. ASSUME NEW k \in Connectors, CleanupSelect(w, k)
      PROVE  command' = command /\ \E g : run' = [run EXCEPT ![w] = g] /\ FrameIsSound(command, g)
  <2>1. PICK S : run' = [run EXCEPT ![w] = [Sweep("cleanup", k) EXCEPT !.rest = S]]
    BY <1>5 DEF CleanupSelect
  <2>2. [Sweep("cleanup", k) EXCEPT !.rest = S].op = "cleanup"
    BY DEF Sweep
  <2> QED
    BY <1>5, <1>4, <2>1, <2>2 DEF CleanupSelect
<1>6. ASSUME NEW k \in Connectors, NEW ids \in SUBSET Commands, DisconnectSelect(w, k, ids)
      PROVE  command' = command /\ \E g : run' = [run EXCEPT ![w] = g] /\ FrameIsSound(command, g)
  <2>1. PICK S : run' = [run EXCEPT ![w] = [Sweep("disconnect", k) EXCEPT !.rest = S]]
    BY <1>6 DEF DisconnectSelect
  <2>2. [Sweep("disconnect", k) EXCEPT !.rest = S].op = "disconnect"
    BY DEF Sweep
  <2> QED
    BY <1>6, <1>4, <2>1, <2>2 DEF DisconnectSelect
<1>7. ASSUME NEW h \in HostSessions, Detach(w, h) \/ DemoteSession(w, h)
      PROVE  command' = command /\ \E g : run' = [run EXCEPT ![w] = g] /\ FrameIsSound(command, g)
  <2>1. run' = [run EXCEPT ![w] = LostFrom(h, host[h].lane)]
    BY <1>7 DEF Detach, DemoteSession
  <2>2. LostFrom(h, host[h].lane).op = "lost"
    BY DEF LostFrom, Sweep
  <2> QED
    BY <1>7, <1>4, <2>1, <2>2 DEF Detach, DemoteSession, ReportSession
<1>8. ASSUME NEW p \in Heirs, Retire(w, p[1], p[2])
      PROVE  command' = command /\ \E g : run' = [run EXCEPT ![w] = g] /\ FrameIsSound(command, g)
  <2>1. PICK S : run' = [run EXCEPT ![w] = [Sweep("disconnect", p[1]) EXCEPT !.heir = p[2], !.rest = S]]
    BY <1>8 DEF Retire
  <2>2. [Sweep("disconnect", p[1]) EXCEPT !.heir = p[2], !.rest = S].op = "disconnect"
    BY DEF Sweep
  <2> QED
    BY <1>8, <1>4, <2>1, <2>2 DEF Retire
<1> QED
  BY <1>1, <1>2, <1>3, <1>5, <1>6, <1>7, <1>8 DEF Begin

-----------------------------------------------------------------------------
(* The invariant and what follows from it.                                 *)

LEMMA StepKeeps ==
    ASSUME IInv, [Next]_vars
    PROVE  IInv' /\ \A c \in Commands : RowStep(command[c], command'[c])
<1>t. /\ TypeOK
      /\ \A w \in Handlers : run[w] \in Frames /\ FrameIsSound(command, run[w])
      /\ \A c \in Commands : RowIsSound(command[c])
  BY RowsAreSound DEF FramesAreSound, TypeOK
<1>s. command' = command => \A c \in Commands : RowStep(command[c], command'[c])
  BY <1>t, RowStutters
\* It is enough that the types hold, that rows step, and that a changed frame
\* is sound.
<1>a. ASSUME TypeOK', \A c \in Commands : RowStep(command[c], command'[c]),
             \A v \in Handlers : run'[v] = run[v] \/ FrameIsSound(command', run'[v])
      PROVE  IInv'
  <2>1. \A v \in Handlers : FrameIsSound(command', run'[v])
    BY <1>t, <1>a, FrameSurvives
  <2>2. \A c \in Commands : RowIsSound(command'[c])
    BY <1>a DEF RowStep
  <2>3. OwnerIsTarget' /\ PendingIsUnowned' /\ AppServerKeepsSession'
    BY <2>2 DEF OwnerIsTarget, PendingIsUnowned, AppServerKeepsSession, RowIsSound, Active
  <2> QED
    BY <1>a, <2>1, <2>3 DEF IInv, FramesAreSound
<1>1. CASE AtOnce
  <2>1. run' = run
    BY <1>1 DEF AtOnce, ReleaseLeased, LeaseExpires, Attach, UpsertSession, ConnectorUnavailable,
       ConnectorReady
  <2> QED
    BY <1>1, <1>t, <1>a, <2>1, TypeAtOnce, RowsAtOnce
<1>2. ASSUME NEW w \in Handlers, Begin(w)
      PROVE  IInv' /\ \A c \in Commands : RowStep(command[c], command'[c])
  <2>1. PICK g : run' = [run EXCEPT ![w] = g] /\ FrameIsSound(command, g)
    BY <1>2, FramesBegin
  <2>2. command' = command
    BY <1>2, FramesBegin
  <2>3. \A v \in Handlers : run'[v] = run[v] \/ FrameIsSound(command', run'[v])
    BY <1>t, <2>1, <2>2 DEF TypeOK
  <2> QED
    BY <1>2, <1>t, <1>s, <1>a, <2>2, <2>3, TypeBegin
<1>3. ASSUME NEW w \in Handlers, Continue(w)
      PROVE  IInv' /\ \A c \in Commands : RowStep(command[c], command'[c])
  <2>1. PICK g : /\ run' = [run EXCEPT ![w] = g]
                 /\ g.op \notin {"create", "lease"} /\ NotAtUpdate(g)
    BY <1>3, FramesContinue
  <2>2. \A v \in Handlers : run'[v] = run[v] \/ FrameIsSound(command', run'[v])
    BY <1>t, <2>1 DEF TypeOK, FrameIsSound, CreateIsFresh, LeaseIsSound, EventMoves, NotAtUpdate
  <2> QED
    BY <1>3, <1>t, <1>a, <2>2, TypeContinue, RowsContinue DEF FramesAreSound
<1>4. ASSUME NEW w \in Handlers, Die(w)
      PROVE  IInv' /\ \A c \in Commands : RowStep(command[c], command'[c])
  <2>1. Idle \in Frames /\ FrameIsSound(command, Idle)
    BY DEF Idle, Frames, FrameIsSound, CreateIsFresh, LeaseIsSound, EventMoves
  <2>2. TypeOK'
    BY <1>4, <1>t, <2>1 DEF Die, End, TypeOK
  <2>3. \A v \in Handlers : run'[v] = run[v] \/ FrameIsSound(command', run'[v])
    BY <1>4, <1>t, <2>1 DEF Die, End, TypeOK
  <2>4. command' = command
    BY <1>4 DEF Die
  <2> QED
    BY <1>s, <1>a, <2>2, <2>3, <2>4
<1>5. CASE UNCHANGED vars
  <2>1. command' = command /\ run' = run
    BY <1>5 DEF vars
  <2>2. TypeOK'
    BY <1>5, <1>t DEF vars, TypeOK
  <2> QED
    BY <1>s, <1>a, <2>1, <2>2
<1> QED
  BY <1>1, <1>2, <1>3, <1>4, <1>5 DEF Next

LEMMA InitIsSound == Init => IInv
<1> SUFFICES ASSUME Init PROVE IInv
  OBVIOUS
<1>1. TypeOK
  BY TypeInit
<1>2. FramesAreSound
  BY DEF Init, Idle, FramesAreSound, FrameIsSound, CreateIsFresh, LeaseIsSound, EventMoves
<1>3. OwnerIsTarget /\ PendingIsUnowned /\ AppServerKeepsSession
  BY DEF Init, Absent, OwnerIsTarget, PendingIsUnowned, AppServerKeepsSession, Active
<1> QED
  BY <1>1, <1>2, <1>3 DEF IInv

\* The inductive invariant holds in every behaviour of the command table.
THEOREM Invariant == Spec => []IInv
<1>1. IInv /\ [Next]_vars => IInv'
  BY StepKeeps
<1> QED
  BY <1>1, InitIsSound, PTL DEF Spec

\* Every column, and what every handler keeps of the rows it read, stays in
\* its domain: for instance no retarget or release writes a lane's session
\* that does not exist.
THEOREM TypeCorrect == Spec => []TypeOK
<1>1. IInv => TypeOK
  BY DEF IInv
<1> QED
  BY <1>1, Invariant, PTL

\* A command that is leased or running is owned, and targeted at its owner or
\* at nobody, whatever stale lease, event, release or migration is in flight.
THEOREM OwnersAreTargets == Spec => []OwnerIsTarget
<1>1. IInv => OwnerIsTarget
  BY DEF IInv
<1> QED
  BY <1>1, Invariant, PTL

\* Every release of a lease (failed dispatch, refused start, cleanup, detach)
\* clears its owner.
THEOREM WaitingCommandsAreUnowned == Spec => []PendingIsUnowned
<1>1. IInv => PendingIsUnowned
  BY DEF IInv
<1> QED
  BY <1>1, Invariant, PTL

\* An app-server command is never left without the session it must run in, so
\* it cannot be leased as a plain CLI command.
THEOREM AppServerCommandsKeepSessions == Spec => []AppServerKeepsSession
<1>1. IInv => AppServerKeepsSession
  BY DEF IInv
<1> QED
  BY <1>1, Invariant, PTL

\* A handler in flight never relies on a frame that other handlers made wrong.
THEOREM HandlersStaySound == Spec => []FramesAreSound
<1>1. IInv => FramesAreSound
  BY DEF IInv
<1> QED
  BY <1>1, Invariant, PTL

\* A command that has succeeded or failed is never written again.
THEOREM EndsAreFinal == Spec => EndIsFinal
<1>1. IInv /\ [Next]_vars =>
        [\A c \in Commands :
           command[c].state \in {"succeeded", "failed"} => command'[c] = command[c]]_vars
  BY StepKeeps DEF RowStep
<1> QED
  BY <1>1, Invariant, PTL DEF Spec, EndIsFinal

\* A running command is not released, leased again or retargeted: it only ends.
THEOREM RunningCommandsStay == Spec => RunningIsNotMoved
<1>1. IInv /\ [Next]_vars =>
        [\A c \in Commands :
          command[c].state = "running" =>
              \/ command'[c] = command[c]
              \/ command'[c].state \in {"succeeded", "failed"}]_vars
  BY StepKeeps DEF RowStep
<1> QED
  BY <1>1, Invariant, PTL DEF Spec, RunningIsNotMoved

-----------------------------------------------------------------------------
(* Where an app-server command starts.                                     *)

\* The start of an app-server command that reaches its UPDATE was accepted for
\* a lease that names a session, so the UPDATE checks the session.
StartIsBound(rows, f) ==
    f.op = "event" /\ f.at = "update" =>
        /\ rows[f.id].state # "absent"
        /\ f.kind = "started" /\ rows[f.id].mode = "app_server" => f.session # None

StartsAreBound == \A w \in Handlers : StartIsBound(command, run[w])

LEMMA BoundSurvives ==
    ASSUME TypeOK, NEW f \in Frames, StartIsBound(command, f),
           NEW rows, \A c \in Commands : RowStep(command[c], rows[c])
    PROVE  StartIsBound(rows, f)
<1>1. f.op = "event" => f.id \in Commands
  BY FrameByOp DEF EventFrames
<1> QED
  BY <1>1 DEF StartIsBound, RowStep

\* A handler begins at the UPDATE of an event only when EventSelect has seen
\* the row active, and an app-server row has a session.
LEMMA BoundBegin ==
    ASSUME IInv, NEW w \in Handlers, Begin(w)
    PROVE  \E g : run' = [run EXCEPT ![w] = g] /\ StartIsBound(command, g)
<1>p. ASSUME NEW g, run' = [run EXCEPT ![w] = g], StartIsBound(command, g)
      PROVE  \E e : run' = [run EXCEPT ![w] = e] /\ StartIsBound(command, e)
  BY <1>p
<1>q. ASSUME NEW g, run' = [run EXCEPT ![w] = g], g.op # "event"
      PROVE  \E e : run' = [run EXCEPT ![w] = e] /\ StartIsBound(command, e)
  BY <1>p, <1>q DEF StartIsBound
<1>s. ASSUME NEW op \in {"disconnect", "cleanup", "lost"}, NEW k, NEW S,
             run' = [run EXCEPT ![w] = [Sweep(op, k) EXCEPT !.rest = S]]
      PROVE  \E e : run' = [run EXCEPT ![w] = e] /\ StartIsBound(command, e)
  <2>1. [Sweep(op, k) EXCEPT !.rest = S].op # "event"
    BY DEF Sweep
  <2> QED
    BY <1>q, <1>s, <2>1
<1>1. ASSUME NEW mode \in Modes, NEW lane \in OrNone(Lanes), NEW k \in OrNone(Connectors),
             CreateCheck(w, mode, lane, k)
      PROVE  \E e : run' = [run EXCEPT ![w] = e] /\ StartIsBound(command, e)
  <2>1. PICK h, p, r : run' = [run EXCEPT ![w] = [op |-> "create", host |-> h, present |-> p, row |-> r]]
    BY <1>1 DEF CreateCheck
  <2>2. [op |-> "create", host |-> h, present |-> p, row |-> r].op # "event"
    OBVIOUS
  <2> QED
    BY <1>q, <2>1, <2>2
<1>2. ASSUME NEW k \in Connectors, LeaseSelect(w, k)
      PROVE  \E e : run' = [run EXCEPT ![w] = e] /\ StartIsBound(command, e)
  <2>1. PICK c, h, p : run' = [run EXCEPT ![w] = [op |-> "lease", by |-> k, id |-> c,
                                 host |-> h, present |-> p]]
    BY <1>2 DEF LeaseSelect
  <2>2. [op |-> "lease", by |-> k, id |-> c, host |-> h, present |-> p].op # "event"
    OBVIOUS
  <2> QED
    BY <1>q, <2>1, <2>2
<1>3. ASSUME NEW k \in Connectors, CleanupSelect(w, k)
      PROVE  \E e : run' = [run EXCEPT ![w] = e] /\ StartIsBound(command, e)
  BY <1>s, <1>3 DEF CleanupSelect
<1>4. ASSUME NEW k \in Connectors, NEW ids \in SUBSET Commands, DisconnectSelect(w, k, ids)
      PROVE  \E e : run' = [run EXCEPT ![w] = e] /\ StartIsBound(command, e)
  BY <1>s, <1>4 DEF DisconnectSelect
<1>5. ASSUME NEW k \in Connectors, NEW c \in Commands, NEW kind \in EventKinds,
             NEW s \in OrNone(SessionIds), EventSelect(w, k, c, kind, s)
      PROVE  \E e : run' = [run EXCEPT ![w] = e] /\ StartIsBound(command, e)
  <2> DEFINE r == command[c]
             g == [op |-> "event", by |-> k, id |-> c, kind |-> kind, claimed |-> s,
                   source |-> r.source, session |-> r.session,
                   at |-> IF NeedsTarget(kind, r.mode, r.session, s) /\ s = None THEN "reject"
                          ELSE IF CommandStateFor(kind) = "none" THEN "task" ELSE "update"]
  <2>1. run' = [run EXCEPT ![w] = g]
    BY <1>5 DEF EventSelect
  <2>2. g.id = c /\ g.session = r.session
    OBVIOUS
  <2>3. r.state # "absent" /\ (r.mode = "app_server" => r.session # None)
    BY <1>5 DEF EventSelect, Active, IInv, AppServerKeepsSession
  <2> HIDE DEF g
  <2>4. StartIsBound(command, g)
    BY <2>2, <2>3 DEF StartIsBound
  <2> QED
    BY <1>p, <2>1, <2>4
<1>6. ASSUME NEW h \in HostSessions, Detach(w, h) \/ DemoteSession(w, h)
      PROVE  \E e : run' = [run EXCEPT ![w] = e] /\ StartIsBound(command, e)
  <2>1. run' = [run EXCEPT ![w] = LostFrom(h, host[h].lane)]
    BY <1>6 DEF Detach, DemoteSession
  <2>2. LostFrom(h, host[h].lane).op # "event"
    BY DEF LostFrom, Sweep
  <2> QED
    BY <1>q, <2>1, <2>2
<1>7. ASSUME NEW p \in Heirs, Retire(w, p[1], p[2])
      PROVE  \E e : run' = [run EXCEPT ![w] = e] /\ StartIsBound(command, e)
  <2>1. PICK S : run' = [run EXCEPT ![w] = [Sweep("disconnect", p[1]) EXCEPT !.heir = p[2], !.rest = S]]
    BY <1>7 DEF Retire
  <2>2. [Sweep("disconnect", p[1]) EXCEPT !.heir = p[2], !.rest = S].op # "event"
    BY DEF Sweep
  <2> QED
    BY <1>q, <2>1, <2>2
<1> QED
  BY <1>1, <1>2, <1>3, <1>4, <1>5, <1>6, <1>7 DEF Begin

LEMMA BoundStep ==
    ASSUME IInv, StartsAreBound, [Next]_vars
    PROVE  StartsAreBound'
<1>t. /\ TypeOK /\ \A w \in Handlers : run[w] \in Frames /\ StartIsBound(command, run[w])
      /\ \A c \in Commands : RowStep(command[c], command'[c])
  BY StepKeeps DEF IInv, TypeOK, StartsAreBound
\* It is enough that a changed frame is bound, by the rows before the step.
<1>a. ASSUME \A v \in Handlers : /\ run'[v] \in Frames
                                 /\ run'[v] = run[v] \/ StartIsBound(command, run'[v])
      PROVE  StartsAreBound'
  <2>1. \A v \in Handlers : StartIsBound(command', run'[v])
    BY <1>a, <1>t, BoundSurvives
  <2> QED
    BY <2>1 DEF StartsAreBound
<1>y. \A v \in Handlers : run'[v] \in Frames
  BY StepKeeps DEF IInv, TypeOK
<1>w. ASSUME NEW w \in Handlers, NEW g, run' = [run EXCEPT ![w] = g], StartIsBound(command, g)
      PROVE  StartsAreBound'
  BY <1>w, <1>a, <1>t, <1>y DEF TypeOK
<1>1. CASE AtOnce \/ UNCHANGED vars
  <2>1. run' = run
    BY <1>1 DEF AtOnce, ReleaseLeased, LeaseExpires, Attach, UpsertSession, ConnectorUnavailable,
       ConnectorReady, vars
  <2> QED
    BY <1>a, <1>y, <2>1
<1>2. ASSUME NEW w \in Handlers, Begin(w)
      PROVE  StartsAreBound'
  BY <1>2, <1>w, BoundBegin
<1>3. ASSUME NEW w \in Handlers, Continue(w)
      PROVE  StartsAreBound'
  BY <1>3, <1>w, FramesContinue DEF StartIsBound, NotAtUpdate
<1>4. ASSUME NEW w \in Handlers, Die(w)
      PROVE  StartsAreBound'
  <2>1. StartIsBound(command, Idle)
    BY DEF Idle, StartIsBound
  <2> QED
    BY <1>4, <1>w, <2>1 DEF Die, End
<1> QED
  BY <1>1, <1>2, <1>3, <1>4 DEF Next

\* No statement but the UPDATE of an event starts a leased command.
LEMMA OnlyEventsStart ==
    ASSUME IInv, NEW w \in Handlers, Continue(w), NEW c \in Commands,
           command[c].state = "leased", command'[c].state = "running"
    PROVE  EventUpdate(w)
<1> DEFINE f == run[w]
           r == command[c]
<1>t. TypeOK /\ r \in CommandRows
  BY DEF IInv, TypeOK
<1>0. command'[c] # r /\ command' # command
  OBVIOUS
<1>1. CASE CreateInsert(w)
  <2>1. command'[c] = r \/ r.state = "absent"
    BY <1>1, <1>t DEF CreateInsert, Created, TypeOK
  <2> QED
    BY <1>0, <2>1
<1>2. CASE LeaseUpdate(w)
  <2>1. PICK t, src, d : command' = [command EXCEPT ![f.id] = [command[f.id] EXCEPT
           !.state = "leased", !.owner = f.by, !.expired = FALSE,
           !.target = t, !.source = src, !.session = d]]
    BY <1>2, <1>0 DEF LeaseUpdate
  <2>2. CASE f.id = c
    BY <1>t, <2>1, <2>2 DEF TypeOK, CommandRows
  <2>3. CASE f.id # c
    BY <1>t, <1>0, <2>1, <2>3 DEF TypeOK
  <2> QED
    BY <2>2, <2>3
<1>4. CASE EventReject(w)
  <2> DEFINE d == command[f.id]
             h == Current(d.lane)
             clear == f.source = "attached"
             q == [d EXCEPT !.state = "pending", !.owner = None, !.expired = FALSE,
                      !.target = IF clear THEN None ELSE @,
                      !.source = IF clear THEN "auto" ELSE @, !.session = Sid(h)]
  <2>1. command' = [command EXCEPT ![f.id] = q]
    BY <1>4, <1>0 DEF EventReject
  <2>2. f.id = c => q.state = "pending"
    BY <1>t DEF CommandRows
  <2> HIDE DEF q
  <2>3. CASE f.id = c
    BY <1>t, <2>1, <2>2, <2>3 DEF TypeOK
  <2>4. CASE f.id # c
    BY <1>t, <1>0, <2>1, <2>4 DEF TypeOK
  <2> QED
    BY <2>3, <2>4
<1>5. CASE CleanupRelease(w)
  <2>1. PICK p, d : command' = [command EXCEPT ![p.id] = [command[p.id] EXCEPT
           !.state = "pending", !.owner = None, !.expired = FALSE,
           !.target = None, !.source = "auto", !.session = d]]
    <3>1. PICK p \in f.rest : command' = [command EXCEPT ![p.id] = [@ EXCEPT
             !.state = "pending", !.owner = None, !.expired = FALSE,
             !.target = None, !.source = "auto", !.session = Sid(Current(command[p.id].lane))]]
      BY <1>5, <1>0 DEF CleanupRelease
    <3> QED
      BY <3>1
  <2>2. CASE p.id = c
    BY <1>t, <2>1, <2>2 DEF TypeOK, CommandRows
  <2>3. CASE p.id # c
    BY <1>t, <1>0, <2>1, <2>3 DEF TypeOK
  <2> QED
    BY <2>2, <2>3
<1>6. CASE LostRelease(w)
  <2>1. PICK a : \/ command'[c] = r
                 \/ command'[c] = [r EXCEPT
                      !.state = "pending", !.owner = None, !.expired = FALSE,
                      !.target = IF r.source = "attached" THEN None ELSE @,
                      !.source = IF @ = "attached" THEN "auto" ELSE @,
                      !.session = Sid(a)]
    BY <1>6 DEF LostRelease
  <2> QED
    BY <1>t, <1>0, <2>1 DEF CommandRows
<1>7. CASE SweepFail(w)
  <2>1. PICK p : command' = [command EXCEPT ![p.id] =
                     [command[p.id] EXCEPT !.state = "failed", !.owner = None, !.expired = FALSE]]
    <3>1. PICK p, a : command' = IF FailGuard(f, p, command[p.id], a)
             THEN [command EXCEPT ![p.id] =
                     [@ EXCEPT !.state = "failed", !.owner = None, !.expired = FALSE]]
             ELSE command
      BY <1>7 DEF SweepFail
    <3> QED
      BY <1>0, <3>1
  <2>2. CASE p.id = c
    BY <1>t, <2>1, <2>2 DEF TypeOK, CommandRows
  <2>3. CASE p.id # c
    BY <1>t, <1>0, <2>1, <2>3 DEF TypeOK
  <2> QED
    BY <2>2, <2>3
<1>8. CASE RetargetAttached(w) \/ RetargetExplicit(w)
  <2>1. command'[c] = r \/ r.state = "pending"
    BY <1>8 DEF RetargetAttached, RetargetExplicit, Retarget, Retargetable
  <2> QED
    BY <1>0, <2>1
<1>9. CASE \/ EventTask(w) \/ EventAppend(w) \/ LostSelect(w) \/ SweepTask(w) \/ SweepAppend(w)
           \/ SweepEnd(w) \/ MigrateSelect(w) \/ MigrateRow(w) \/ MigrateDelete(w) \/ MigrateEnd(w)
  BY <1>9, <1>0 DEF EventTask, EventAppend, LostSelect, SweepTask, SweepAppend, SweepEnd,
     MigrateSelect, MigrateRow, MigrateDelete, MigrateEnd
<1> QED
  BY <1>1, <1>2, <1>4, <1>5, <1>6, <1>7, <1>8, <1>9 DEF Continue

\* No step outside the handlers starts a command.
LEMMA NothingElseStarts ==
    ASSUME IInv, [Next]_vars, NEW c \in Commands,
           command[c].state = "leased", command'[c].state = "running"
    PROVE  \E w \in Handlers : EventUpdate(w)
<1>t. TypeOK /\ command[c] \in CommandRows /\ command' # command
  BY DEF IInv, TypeOK
<1>1. ASSUME NEW k \in Connectors, NEW d \in Commands, ReleaseLeased(k, d)
      PROVE  FALSE
  BY <1>1, <1>t DEF ReleaseLeased, TypeOK, CommandRows
<1>2. ASSUME NEW d \in Commands, LeaseExpires(d)
      PROVE  FALSE
  BY <1>2, <1>t DEF LeaseExpires, TypeOK, CommandRows
<1>3. ~AtOnce
  BY <1>1, <1>2, <1>t DEF AtOnce, Attach, UpsertSession, ReportSession, ConnectorUnavailable,
     ConnectorReady
<1>4. \A w \in Handlers : ~Begin(w) /\ ~Die(w)
  BY <1>t, FramesBegin DEF Die
<1>5. PICK w \in Handlers : Continue(w)
  BY <1>t, <1>3, <1>4 DEF Next, vars
<1> QED
  BY <1>5, OnlyEventsStart

\* What the WHERE clause of the UPDATE says of a start.
LEMMA StartIsChecked ==
    ASSUME IInv, StartsAreBound, NEW w \in Handlers, EventUpdate(w), NEW c \in Commands,
           command[c].state = "leased", command'[c].state = "running",
           command[c].mode = "app_server"
    PROVE  LET h == Current(command[c].lane)
           IN  h = <<command[c].owner, command[c].session>> /\ Present(h)
<1> DEFINE f == run[w]
           r == command[c]
<1>t. TypeOK /\ r \in CommandRows /\ StartIsBound(command, f) /\ f \in EventFrames
  BY FrameByOp DEF IInv, TypeOK, EventUpdate, StartsAreBound
<1>1. /\ Accepts(f, command[f.id])
      /\ command' = [command EXCEPT ![f.id].state = CommandStateFor(f.kind)]
  BY DEF EventUpdate
<1>2. f.id = c /\ CommandStateFor(f.kind) = "running"
  BY <1>1, <1>t DEF TypeOK, CommandRows
<1>3. f.kind = "started"
  BY <1>2, <1>t DEF CommandStateFor, EventFrames, EventUpdate, IInv, FramesAreSound, FrameIsSound,
     EventMoves
<1>4. EventNeedsTarget(f)
  BY <1>2, <1>3, <1>t DEF EventNeedsTarget, NeedsTarget, StartIsBound, EventUpdate
<1> QED
  BY <1>1, <1>2, <1>4 DEF Accepts

\* An app-server command starts only in the session its lane is attached to,
\* present, on the connector that runs it: recordAgentEvent accepts no start
\* whose SELECT and UPDATE saw different sessions.
THEOREM AppServerStartsAreAttached == Spec => StartsWhereAttached
<1>1. Init => IInv /\ StartsAreBound
  BY InitIsSound DEF Init, Idle, StartsAreBound, StartIsBound
<1>2. IInv /\ StartsAreBound /\ [Next]_vars => (IInv /\ StartsAreBound)'
  BY StepKeeps, BoundStep
<1>3. IInv /\ StartsAreBound /\ [Next]_vars =>
        [\A c \in Commands :
          (command[c].state = "leased" /\ command'[c].state = "running"
              /\ command[c].mode = "app_server") =>
              LET h == Current(command[c].lane)
              IN  h = <<command[c].owner, command[c].session>> /\ Present(h)]_vars
  BY NothingElseStarts, StartIsChecked
<1> QED
  BY <1>1, <1>2, <1>3, PTL DEF Spec, StartsWhereAttached

-----------------------------------------------------------------------------
(* CommandTable implements CommandLease.                                   *)

\* What the abstract actions make of one row.
LeaseStep(r, q) ==
    \/ q.state = r.state /\ q.owner = r.owner
    \/ r.state = "absent" /\ q.state = "pending" /\ q.owner = r.owner
    \/ r.state \in {"pending", "leased"} /\ q.state = "leased" /\ q.owner \in Connectors
    \/ r.state = "leased" /\ q.state = "pending" /\ q.owner = None
    \/ r.state = "leased" /\ q.state = "running" /\ q.owner = r.owner
    \/ r.state \in {"leased", "running"} /\ q.state \in {"succeeded", "failed"} /\ q.owner = r.owner
    \/ r.state \in {"pending", "leased", "running"} /\ q.state = "failed" /\ q.owner = None

\* A step that writes one row so is a step of the lease protocol.
LEMMA OneRow ==
    ASSUME TypeOK, TypeOK', NEW c \in Commands, LeaseStep(command[c], command'[c]),
           \A d \in Commands \ {c} : command'[d] = command[d]
    PROVE  [Lease!Next]_(Lease!lvars)
<1> DEFINE st == [d \in Commands |-> command[d].state]
           ow == [d \in Commands |-> command[d].owner]
           r == command[c]
           q == command'[c]
<1>1. st' = [st EXCEPT ![c] = q.state] /\ ow' = [ow EXCEPT ![c] = q.owner]
  OBVIOUS
<1>2. st[c] = r.state /\ ow[c] = r.owner
  OBVIOUS
<1>3. CASE q.state = r.state /\ q.owner = r.owner
  <2>1. st' = st /\ ow' = ow
    BY <1>3
  <2> QED
    BY <2>1 DEF Lease!lvars
<1>4. CASE r.state = "absent" /\ q.state = "pending" /\ q.owner = r.owner
  <2>1. ow' = ow
    BY <1>4
  <2>2. Lease!Create(c)
    BY <1>1, <1>2, <1>4, <2>1 DEF Lease!Create
  <2> QED
    BY <2>2 DEF Lease!Next
<1>5. CASE r.state \in {"pending", "leased"} /\ q.state = "leased" /\ q.owner \in Connectors
  <2>1. PICK k \in Connectors : k = q.owner
    BY <1>5
  <2>2. Lease!Lease(c, k)
    BY <1>1, <1>2, <1>5, <2>1 DEF Lease!Lease
  <2> QED
    BY <2>2 DEF Lease!Next
<1>6. CASE r.state = "leased" /\ q.state = "pending" /\ q.owner = None
  <2>1. Lease!Release({c})
    BY <1>6 DEF Lease!Release
  <2> QED
    BY <2>1 DEF Lease!Next
<1>7. CASE r.state = "leased" /\ q.state = "running" /\ q.owner = r.owner
  <2>1. ow' = ow
    BY <1>7
  <2>2. Lease!Start(c)
    BY <1>1, <1>2, <1>7, <2>1 DEF Lease!Start
  <2> QED
    BY <2>2 DEF Lease!Next
<1>8. CASE r.state \in {"leased", "running"} /\ q.state \in {"succeeded", "failed"} /\ q.owner = r.owner
  <2>1. ow' = ow
    BY <1>8
  <2>2. Lease!Finish(c)
    BY <1>1, <1>2, <1>8, <2>1 DEF Lease!Finish
  <2> QED
    BY <2>2 DEF Lease!Next
<1>9. CASE r.state \in {"pending", "leased", "running"} /\ q.state = "failed" /\ q.owner = None
  <2>1. Lease!Abandon(c)
    BY <1>1, <1>2, <1>9 DEF Lease!Abandon
  <2> QED
    BY <2>1 DEF Lease!Next
<1> QED
  BY <1>3, <1>4, <1>5, <1>6, <1>7, <1>8, <1>9 DEF LeaseStep

LEMMA NoRow ==
    ASSUME command' = command
    PROVE  [Lease!Next]_(Lease!lvars)
BY DEF Lease!lvars

LEMMA ContinueImplements ==
    ASSUME IInv, IInv', NEW w \in Handlers, Continue(w)
    PROVE  [Lease!Next]_(Lease!lvars)
<1> DEFINE f == run[w]
<1>t. TypeOK /\ TypeOK' /\ FramesAreSound /\ PendingIsUnowned /\ PendingIsUnowned'
  BY DEF IInv
<1>f. /\ f.op = "lease" => f \in LeaseFrames
      /\ f.op = "event" => f \in EventFrames
      /\ f.op \in {"disconnect", "cleanup", "lost", "refuse"} => f \in SweepFrames
  BY <1>t, FrameByOp DEF TypeOK
<1>r. \A c \in Commands : command[c] \in CommandRows
  BY <1>t DEF TypeOK
\* Enough: one row is written, and so.
<1>o. ASSUME NEW c \in Commands, NEW q, command' = [command EXCEPT ![c] = q],
             LeaseStep(command[c], q)
      PROVE  [Lease!Next]_(Lease!lvars)
  BY <1>o, <1>t, OneRow DEF TypeOK
<1>1. CASE CreateInsert(w)
  <2>1. command' = command \/ \E c \in Commands :
           command[c].state = "absent" /\ command' = [command EXCEPT ![c] = f.row]
    BY <1>1 DEF CreateInsert, Created
  <2>2. f.row.state = "pending" /\ f.row.owner = None
    BY <1>1, <1>t DEF CreateInsert, FramesAreSound, FrameIsSound, CreateIsFresh
  <2>3. \A c \in Commands : command[c].state = "absent" => command[c].owner = None
    BY <1>t DEF PendingIsUnowned
  <2> QED
    BY <1>o, <2>1, <2>2, <2>3, NoRow DEF LeaseStep
<1>2. CASE LeaseUpdate(w)
  <2> DEFINE r == command[f.id]
             bind == r.source = "auto" /\ f.present
             q == [r EXCEPT !.state = "leased", !.owner = f.by, !.expired = FALSE,
                      !.target = IF bind THEN f.by ELSE @,
                      !.source = IF bind THEN "attached" ELSE @,
                      !.session = IF Codex(r) /\ f.present THEN Sid(f.host) ELSE None]
  <2>1. f.id \in Commands /\ f.by \in Connectors
    BY <1>2, <1>f DEF LeaseUpdate, LeaseFrames
  <2>2. command' = command \/ (LeaseGuard(f.by, r, f.host) /\ command' = [command EXCEPT ![f.id] = q])
    BY <1>2 DEF LeaseUpdate
  <2>3. LeaseGuard(f.by, r, f.host) => LeaseStep(r, q)
    BY <1>r, <2>1 DEF LeaseGuard, Leasable, LeaseStep, CommandRows
  <2> HIDE DEF q
  <2> QED
    BY <1>o, <2>1, <2>2, <2>3, NoRow
<1>3. CASE EventUpdate(w)
  <2> DEFINE r == command[f.id]
             q == [r EXCEPT !.state = CommandStateFor(f.kind)]
  <2>1. f.id \in Commands /\ f.kind \in {"started", "finished", "failed"}
    BY <1>3, <1>f, <1>t DEF EventUpdate, EventFrames, FramesAreSound, FrameIsSound, EventMoves
  <2>2. command' = command \/ (Active(r) /\ command' = [command EXCEPT ![f.id] = q])
    BY <1>3 DEF EventUpdate, Accepts
  <2>3. Active(r) => LeaseStep(r, q)
    BY <1>r, <2>1 DEF Active, CommandStateFor, LeaseStep, CommandRows
  <2> HIDE DEF q
  <2> QED
    BY <1>o, <2>1, <2>2, <2>3, NoRow
<1>4. CASE EventReject(w)
  <2> DEFINE r == command[f.id]
             h == Current(r.lane)
             clear == f.source = "attached"
             q == [r EXCEPT !.state = "pending", !.owner = None, !.expired = FALSE,
                      !.target = IF clear THEN None ELSE @,
                      !.source = IF clear THEN "auto" ELSE @, !.session = Sid(h)]
  <2>1. f.id \in Commands
    BY <1>4, <1>f DEF EventReject, EventFrames
  <2>2. command' = command \/ (r.state = "leased" /\ command' = [command EXCEPT ![f.id] = q])
    BY <1>4 DEF EventReject
  <2>3. r.state = "leased" => LeaseStep(r, q)
    BY <1>r, <2>1 DEF LeaseStep, CommandRows
  <2> HIDE DEF q
  <2> QED
    BY <1>o, <2>1, <2>2, <2>3, NoRow
<1>5. CASE CleanupRelease(w)
  <2>1. PICK p \in f.rest :
          LET h == Current(command[p.id].lane)
          IN  \/ command' = command
              \/ /\ command[p.id].state \in {"pending", "leased"}
                 /\ command' = [command EXCEPT ![p.id] = [@ EXCEPT
                       !.state = "pending", !.owner = None, !.expired = FALSE,
                       !.target = None, !.source = "auto", !.session = Sid(h)]]
    BY <1>5 DEF CleanupRelease, Waiting
  <2> DEFINE r == command[p.id]
             h == Current(r.lane)
             q == [r EXCEPT !.state = "pending", !.owner = None, !.expired = FALSE,
                      !.target = None, !.source = "auto", !.session = Sid(h)]
  <2>2. p.id \in Commands
    BY <1>5, <1>f DEF CleanupRelease, SweepFrames, PickedCommands
  <2>3. r.state = "pending" => r.owner = None
    BY <1>t, <2>2 DEF PendingIsUnowned
  <2>4. r.state \in {"pending", "leased"} => LeaseStep(r, q)
    BY <1>r, <2>2, <2>3 DEF LeaseStep, CommandRows
  <2>5. command' = command \/ (r.state \in {"pending", "leased"} /\ command' = [command EXCEPT ![p.id] = q])
    BY <2>1
  <2> HIDE DEF q
  <2> QED
    BY <1>o, <2>2, <2>4, <2>5, NoRow
<1>6. CASE LostRelease(w)
  <2>1. \A c \in Commands :
          \/ command'[c] = command[c]
          \/ command[c].state \in {"pending", "leased"}
             /\ command'[c].state = "pending" /\ command'[c].owner = None
    <3> SUFFICES ASSUME NEW c \in Commands
                 PROVE  \/ command'[c] = command[c]
                        \/ command[c].state \in {"pending", "leased"}
                           /\ command'[c].state = "pending" /\ command'[c].owner = None
      OBVIOUS
    <3>1. PICK a : \/ command'[c] = command[c]
                   \/ /\ BoundTo(f.host, f.lane, command[c])
                      /\ command'[c] = [command[c] EXCEPT
                           !.state = "pending", !.owner = None, !.expired = FALSE,
                           !.target = IF command[c].source = "attached" THEN None ELSE @,
                           !.source = IF @ = "attached" THEN "auto" ELSE @,
                           !.session = Sid(a)]
      BY <1>6 DEF LostRelease
    <3> QED
      BY <1>r, <3>1 DEF BoundTo, CommandRows
  <2> DEFINE S == {c \in Commands : command[c].state = "leased" /\ command'[c].state = "pending"}
             st == [c \in Commands |-> command[c].state]
             ow == [c \in Commands |-> command[c].owner]
  <2>2. \A c \in Commands :
          /\ c \in S => command'[c].state = "pending" /\ command'[c].owner = None
          /\ c \notin S => command'[c].state = command[c].state /\ command'[c].owner = command[c].owner
    BY <1>t, <2>1 DEF PendingIsUnowned
  <2>3. /\ st' = [c \in Commands |-> IF c \in S THEN "pending" ELSE st[c]]
        /\ ow' = [c \in Commands |-> IF c \in S THEN None ELSE ow[c]]
    BY <2>2
  <2>4. PICK released \in SUBSET Commands : released = S
    OBVIOUS
  <2>5. Lease!Release(released)
    BY <2>3, <2>4 DEF Lease!Release
  <2> QED
    BY <2>5 DEF Lease!Next
<1>7. CASE SweepFail(w)
  <2>1. PICK p, a : command' = IF FailGuard(f, p, command[p.id], a)
             THEN [command EXCEPT ![p.id] =
                     [@ EXCEPT !.state = "failed", !.owner = None, !.expired = FALSE]]
             ELSE command
    BY <1>7 DEF SweepFail
  <2> DEFINE r == command[p.id]
             q == [r EXCEPT !.state = "failed", !.owner = None, !.expired = FALSE]
  <2>2. FailGuard(f, p, r, a) => r.state \in {"pending", "leased", "running"}
    BY DEF FailGuard, Active, StaleTarget, Waiting, Stranded, BoundTo
  <2>3. p.id \in Commands /\ r.state \in {"pending", "leased", "running"} => LeaseStep(r, q)
    BY <1>r DEF LeaseStep, CommandRows
  <2>4. command' = command \/ (FailGuard(f, p, r, a) /\ command' = [command EXCEPT ![p.id] = q])
    BY <2>1
  <2> HIDE DEF q
  <2>5. p.id \notin Commands => command' = command
    BY <1>t, <2>4 DEF TypeOK
  <2> QED
    BY <1>o, <2>2, <2>3, <2>4, <2>5, NoRow
<1>8. CASE RetargetAttached(w) \/ RetargetExplicit(w)
  <2>1. \A c \in Commands : command'[c].state = command[c].state /\ command'[c].owner = command[c].owner
    BY <1>8, <1>r DEF RetargetAttached, RetargetExplicit, Retarget, Retargetable, CommandRows
  <2> QED
    BY <2>1 DEF Lease!lvars
<1>9. CASE \/ EventTask(w) \/ EventAppend(w) \/ LostSelect(w) \/ SweepTask(w) \/ SweepAppend(w)
           \/ SweepEnd(w) \/ MigrateSelect(w) \/ MigrateRow(w) \/ MigrateDelete(w) \/ MigrateEnd(w)
  BY <1>9, NoRow DEF EventTask, EventAppend, LostSelect, SweepTask, SweepAppend, SweepEnd,
     MigrateSelect, MigrateRow, MigrateDelete, MigrateEnd
<1> QED
  BY <1>1, <1>2, <1>3, <1>4, <1>5, <1>6, <1>7, <1>8, <1>9 DEF Continue

LEMMA AtOnceImplements ==
    ASSUME IInv, IInv', AtOnce
    PROVE  [Lease!Next]_(Lease!lvars)
<1>t. TypeOK /\ TypeOK' /\ \A c \in Commands : command[c] \in CommandRows
  BY DEF IInv, TypeOK
<1>o. ASSUME NEW c \in Commands, NEW q, command' = [command EXCEPT ![c] = q],
             LeaseStep(command[c], q)
      PROVE  [Lease!Next]_(Lease!lvars)
  BY <1>o, <1>t, OneRow DEF TypeOK
<1>1. ASSUME NEW k \in Connectors, NEW c \in Commands, ReleaseLeased(k, c)
      PROVE  [Lease!Next]_(Lease!lvars)
  <2> DEFINE q == [command[c] EXCEPT !.state = "pending", !.owner = None, !.expired = FALSE]
  <2>1. command[c].state = "leased" /\ command' = [command EXCEPT ![c] = q]
    BY <1>1 DEF ReleaseLeased
  <2>2. LeaseStep(command[c], q)
    BY <1>t, <2>1 DEF LeaseStep, CommandRows
  <2> HIDE DEF q
  <2> QED
    BY <1>o, <2>1, <2>2
<1>2. ASSUME NEW c \in Commands, LeaseExpires(c)
      PROVE  [Lease!Next]_(Lease!lvars)
  <2> DEFINE q == [command[c] EXCEPT !.expired = TRUE]
  <2>1. command' = [command EXCEPT ![c] = q]
    BY <1>2 DEF LeaseExpires
  <2>2. LeaseStep(command[c], q)
    BY <1>t DEF LeaseStep, CommandRows
  <2> HIDE DEF q
  <2> QED
    BY <1>o, <2>1, <2>2
<1> QED
  BY <1>1, <1>2, NoRow DEF AtOnce, Attach, UpsertSession, ReportSession, ConnectorUnavailable,
     ConnectorReady

\* The D1 statements, in any interleaving of the handlers and with any of them
\* lost, implement the lease protocol: one owner at a time, a start only under
\* a lease, no way back from running, no write after the end.
THEOREM ImplementsLease == Spec => LeaseProtocol
<1>1. Init => Lease!Init
  BY DEF Init, Absent, Lease!Init
<1>2. IInv /\ IInv' /\ [Next]_vars => [Lease!Next]_(Lease!lvars)
  <2> SUFFICES ASSUME IInv, IInv', [Next]_vars
               PROVE  [Lease!Next]_(Lease!lvars)
    OBVIOUS
  <2>1. ASSUME NEW w \in Handlers, Begin(w) \/ Die(w)
        PROVE  [Lease!Next]_(Lease!lvars)
    BY <2>1, FramesBegin, NoRow DEF Die
  <2>2. CASE UNCHANGED vars
    BY <2>2, NoRow DEF vars
  <2> QED
    BY <2>1, <2>2, AtOnceImplements, ContinueImplements DEF Next
<1> QED
  BY <1>1, <1>2, Invariant, PTL DEF Spec, LeaseProtocol, Lease!Spec

-----------------------------------------------------------------------------
(* The ends of commands: the log closes a command once, only when it has   *)
(* ended, and the outcome of a task is the outcome of one of its commands. *)
(*                                                                         *)
(* Between the UPDATE that ends a command and the append that logs the end *)
(* a handler closes the command.  The UPDATE changes a row that has not    *)
(* ended, an ended row is never written again, so one handler at most      *)
(* closes a command, what it will write on the task is the state of the    *)
(* row, and the end is not logged yet.                                     *)

Ended == {"succeeded", "failed"}
SweepOps == {"disconnect", "cleanup", "lost", "refuse"}

\* A handler that has ended a command and has not logged that yet; the command
\* it is about; and how it ended it.
Closing(f) ==
    /\ (f.op = "event" /\ Final(f.kind)) \/ f.op \in SweepOps
    /\ f.at \in {"task", "append"}
Subject(f) == IF f.op = "event" THEN f.id ELSE f.pick.id
Outcome(f) == IF f.op = "event" THEN CommandStateFor(f.kind) ELSE "failed"

\* A sweep that tries a row or closes it has picked one.
Picked(f) ==
    f.op \in SweepOps /\ f.at \in {"fail", "task", "append"} => f.pick \in PickedCommands

ClosingIsTrue ==
    \A w \in Handlers :
        Closing(run[w]) =>
            /\ command[Subject(run[w])].state = Outcome(run[w])
            /\ finals[Subject(run[w])] = 0

OneCloses ==
    \A v, w \in Handlers :
        Closing(run[v]) /\ Closing(run[w]) /\ Subject(run[v]) = Subject(run[w]) => v = w

EndsInv ==
    /\ IInv
    /\ \A w \in Handlers : Picked(run[w])
    /\ ClosingIsTrue /\ OneCloses
    /\ AtMostOneFinalEvent /\ FinalEventIsTrue /\ TaskOutcomeHasCause

-----------------------------------------------------------------------------
(* Frames.                                                                 *)

\* Everything a frame of each kind is needed for here.
LEMMA FrameParts ==
    ASSUME TypeOK, NEW w \in Handlers
    PROVE  /\ run[w] \in Frames
           /\ run[w].op = "event" => run[w] \in EventFrames /\ run[w].id \in Commands
           /\ run[w].op \in SweepOps => run[w] \in SweepFrames /\ run[w].rest \subseteq PickedCommands
           /\ run[w].op = "migrate" => run[w] \in MigrateFrames
<1>1. run[w] \in Frames
  BY DEF TypeOK
<1> QED
  BY <1>1, FrameByOp DEF SweepOps, EventFrames, SweepFrames

LEMMA ClosingParts ==
    ASSUME TypeOK, NEW w \in Handlers, Picked(run[w]), Closing(run[w])
    PROVE  Subject(run[w]) \in Commands /\ Outcome(run[w]) \in Ended
<1>1. CASE run[w].op = "event"
  BY <1>1, FrameParts DEF Closing, Subject, Outcome, Final, CommandStateFor, Ended, SweepOps
<1>2. CASE run[w].op # "event"
  <2>1. run[w].pick \in PickedCommands
    BY <1>2 DEF Closing, Picked
  <2> QED
    BY <1>2, <2>1 DEF Subject, Outcome, PickedCommands, Ended
<1> QED
  BY <1>1, <1>2

\* What the next statement of a handler does to the ends: it closes no other
\* command than before, or it has just ended one, or it logs the end.
Same(f, g) == Closing(g) => Closing(f) /\ Subject(g) = Subject(f) /\ Outcome(g) = Outcome(f)

EndsOne(g) ==
    LET c == Subject(g)
    IN  /\ c \in Commands /\ Outcome(g) \in Ended
        /\ command[c].state \notin Ended /\ command'[c].state = Outcome(g)

Logs(f) ==
    \/ finals' = finals
    \/ Closing(f) /\ finals' = [finals EXCEPT ![Subject(f)] = @ + 1]

Moves(w, g) ==
    /\ run' = [run EXCEPT ![w] = g] /\ Picked(g)
    /\ \/ Same(run[w], g) /\ finals' = finals
       \/ EndsOne(g) /\ finals' = finals
       \/ ~Closing(g) /\ Logs(run[w])

\* A frame that closes nothing.
LEMMA MovesQuietly ==
    ASSUME NEW w, NEW g, run' = [run EXCEPT ![w] = g], finals' = finals,
           \/ g.op \notin SweepOps \cup {"event"}
           \/ g.op \in SweepOps /\ g.at \in {"release", "select", "next"}
           \/ g.op \in SweepOps /\ g.at = "fail" /\ g.pick \in PickedCommands
           \/ g.op = "event" /\ g.at \in {"update", "reject"}
           \/ g.op = "event" /\ ~Final(g.kind)
    PROVE  Moves(w, g)
<1>1. ~Closing(g) /\ Picked(g)
  BY DEF Closing, Picked, SweepOps
<1> QED
  BY <1>1 DEF Moves, Same

LEMMA MovesByEnd ==
    ASSUME NEW w, End(w), finals' = finals
    PROVE  Moves(w, Idle)
<1>1. Idle.op \notin SweepOps \cup {"event"}
  BY DEF Idle, SweepOps
<1> QED
  BY <1>1, MovesQuietly DEF End

\* The first statement of a handler closes nothing.
LEMMA BeginMoves ==
    ASSUME TypeOK, NEW w \in Handlers, Begin(w)
    PROVE  \E g : Moves(w, g)
<1>q. ASSUME NEW g, Moves(w, g) PROVE \E h : Moves(w, h)
  BY <1>q
<1>s. ASSUME NEW op \in SweepOps, NEW k PROVE Sweep(op, k).op = op /\ Sweep(op, k).at = "next"
  BY DEF Sweep
<1>1. ASSUME NEW mode \in Modes, NEW lane \in OrNone(Lanes), NEW k \in OrNone(Connectors),
             CreateCheck(w, mode, lane, k)
      PROVE  \E g : Moves(w, g)
  <2>1. PICK h, p, r : run' = [run EXCEPT ![w] = [op |-> "create", host |-> h, present |-> p, row |-> r]]
    BY <1>1 DEF CreateCheck
  <2> DEFINE g == [op |-> "create", host |-> h, present |-> p, row |-> r]
  <2>2. g.op \notin SweepOps \cup {"event"}
    BY DEF SweepOps
  <2>3. finals' = finals
    BY <1>1 DEF CreateCheck
  <2> HIDE DEF g
  <2> QED
    BY <2>1, <2>2, <2>3, MovesQuietly DEF g
<1>2. ASSUME NEW k \in Connectors, LeaseSelect(w, k)
      PROVE  \E g : Moves(w, g)
  <2>1. PICK c : run' = [run EXCEPT ![w] = [op |-> "lease", by |-> k, id |-> c,
                           host |-> Joined(command[c]), present |-> Present(Joined(command[c]))]]
    BY <1>2 DEF LeaseSelect
  <2> DEFINE g == [op |-> "lease", by |-> k, id |-> c, host |-> Joined(command[c]),
                   present |-> Present(Joined(command[c]))]
  <2>2. g.op \notin SweepOps \cup {"event"}
    BY DEF SweepOps
  <2>3. finals' = finals
    BY <1>2 DEF LeaseSelect
  <2> HIDE DEF g
  <2> QED
    BY <2>1, <2>2, <2>3, MovesQuietly DEF g
<1>3. ASSUME NEW op \in SweepOps, NEW k, NEW S, finals' = finals,
             run' = [run EXCEPT ![w] = [Sweep(op, k) EXCEPT !.rest = S]]
      PROVE  \E g : Moves(w, g)
  <2> DEFINE g == [Sweep(op, k) EXCEPT !.rest = S]
  <2>1. g.op \in SweepOps /\ g.at = "next"
    BY DEF Sweep
  <2> HIDE DEF g
  <2> QED
    BY <1>3, <2>1, MovesQuietly DEF g
<1>4. ASSUME NEW k \in Connectors, CleanupSelect(w, k)
      PROVE  \E g : Moves(w, g)
  BY <1>3, <1>4 DEF CleanupSelect, SweepOps
<1>5. ASSUME NEW k \in Connectors, NEW ids \in SUBSET Commands, DisconnectSelect(w, k, ids)
      PROVE  \E g : Moves(w, g)
  BY <1>3, <1>5 DEF DisconnectSelect, SweepOps
<1>6. ASSUME NEW k \in Connectors, NEW c \in Commands, NEW kind \in EventKinds,
             NEW s \in OrNone(SessionIds), EventSelect(w, k, c, kind, s)
      PROVE  \E g : Moves(w, g)
  <2> DEFINE r == command[c]
             g == [op |-> "event", by |-> k, id |-> c, kind |-> kind, claimed |-> s,
                   source |-> r.source, session |-> r.session,
                   at |-> IF NeedsTarget(kind, r.mode, r.session, s) /\ s = None THEN "reject"
                          ELSE IF CommandStateFor(kind) = "none" THEN "task" ELSE "update"]
  <2>1. run' = [run EXCEPT ![w] = g] /\ finals' = finals
    BY <1>6 DEF EventSelect
  <2>2. CommandStateFor(kind) = "none" => ~Final(kind)
    BY DEF CommandStateFor, Final
  <2>3. g.op = "event" /\ (g.at \in {"update", "reject"} \/ ~Final(g.kind))
    BY <2>2
  <2> HIDE DEF g
  <2> QED
    BY <2>1, <2>3, MovesQuietly
<1>7. ASSUME NEW h \in HostSessions, NEW l, finals' = finals, run' = [run EXCEPT ![w] = LostFrom(h, l)]
      PROVE  \E g : Moves(w, g)
  <2>1. LostFrom(h, l).op \in SweepOps /\ LostFrom(h, l).at = "release"
    BY DEF LostFrom, Sweep, SweepOps
  <2> QED
    BY <1>7, <2>1, MovesQuietly
<1>8. ASSUME NEW h \in HostSessions, Detach(w, h) \/ DemoteSession(w, h)
      PROVE  \E g : Moves(w, g)
  BY <1>7, <1>8 DEF Detach, DemoteSession, ReportSession
<1>9. ASSUME NEW p \in Heirs, Retire(w, p[1], p[2])
      PROVE  \E g : Moves(w, g)
  <2> DEFINE S == Picks({c \in Commands : Active(command[c]) /\ command[c].owner = p[1]})
             g == [Sweep("disconnect", p[1]) EXCEPT !.heir = p[2], !.rest = S]
  <2>1. run' = [run EXCEPT ![w] = g] /\ finals' = finals
    BY <1>9 DEF Retire
  <2>2. g.op \in SweepOps /\ g.at = "next"
    BY DEF Sweep, SweepOps
  <2> HIDE DEF g
  <2> QED
    BY <2>1, <2>2, MovesQuietly
<1> QED
  BY <1>1, <1>2, <1>4, <1>5, <1>6, <1>8, <1>9 DEF Begin

\* An accepted event and a row that a sweep fails are ends of a row that has
\* not ended before.
LEMMA EventUpdateMoves ==
    ASSUME TypeOK, NEW w \in Handlers, EventUpdate(w)
    PROVE  \E g : Moves(w, g)
<1> DEFINE f == run[w]
<1>f. f \in EventFrames /\ f.id \in Commands /\ f.at = "update"
  BY FrameParts DEF EventUpdate
<1>1. CASE Accepts(f, command[f.id])
  <2> DEFINE g == [f EXCEPT !.at = "task"]
  <2>1. /\ run' = [run EXCEPT ![w] = g] /\ finals' = finals
        /\ command' = [command EXCEPT ![f.id].state = CommandStateFor(f.kind)]
    BY <1>1 DEF EventUpdate, Goto
  <2>2. g.op = "event" /\ g.at = "task" /\ g.kind = f.kind /\ g.id = f.id
    BY <1>f DEF EventFrames
  <2>3. command'[f.id].state = CommandStateFor(f.kind)
    BY <1>f, <2>1 DEF TypeOK, CommandRows
  <2>4. command[f.id].state \notin Ended
    BY <1>1 DEF Accepts, Active, Ended
  <2> HIDE DEF g
  <2>5. CASE ~Final(f.kind)
    BY <2>1, <2>2, <2>5, MovesQuietly
  <2>6. CASE Final(f.kind)
    <3>1. Subject(g) = f.id /\ Outcome(g) = CommandStateFor(f.kind) /\ Outcome(g) \in Ended
      BY <2>2, <2>6 DEF Subject, Outcome, Final, CommandStateFor, Ended
    <3>2. EndsOne(g)
      BY <1>f, <2>3, <2>4, <3>1 DEF EndsOne
    <3>3. Picked(g)
      BY <2>2 DEF Picked, SweepOps
    <3> QED
      BY <2>1, <3>2, <3>3 DEF Moves
  <2> QED
    BY <2>5, <2>6
<1>2. CASE ~Accepts(f, command[f.id])
  <2>1. finals' = finals /\ (End(w) \/ run' = [run EXCEPT ![w] = [f EXCEPT !.at = "reject"]])
    BY <1>2 DEF EventUpdate, Goto
  <2>2. [f EXCEPT !.at = "reject"].op = "event" /\ [f EXCEPT !.at = "reject"].at = "reject"
    BY <1>f DEF EventFrames
  <2>3. CASE End(w)
    BY <2>1, <2>3, MovesByEnd
  <2>4. CASE run' = [run EXCEPT ![w] = [f EXCEPT !.at = "reject"]]
    BY <2>1, <2>2, <2>4, MovesQuietly
  <2> QED
    BY <2>1, <2>3, <2>4
<1> QED
  BY <1>1, <1>2

LEMMA SweepFailMoves ==
    ASSUME TypeOK, NEW w \in Handlers, Picked(run[w]), SweepFail(w)
    PROVE  \E g : Moves(w, g)
<1> DEFINE f == run[w]
<1>f. f \in SweepFrames /\ f.op \in SweepOps /\ f.rest \subseteq PickedCommands
  BY FrameParts DEF SweepFail, SweepOps
<1>1. PICK p \in Candidates(f),
           a \in IF f.op = "lost" THEN Alternatives(f.lane, f.host) ELSE {None} :
         LET failed == FailGuard(f, p, command[p.id], a)
         IN  /\ command' = IF failed
                  THEN [command EXCEPT ![p.id] =
                          [@ EXCEPT !.state = "failed", !.owner = None, !.expired = FALSE]]
                  ELSE command
             /\ run' = [run EXCEPT ![w] = AfterFail(f, p, failed)]
  BY DEF SweepFail
<1>2. p \in PickedCommands /\ p.id \in Commands
  BY <1>f DEF Candidates, Picked, PickedCommands
<1>3. finals' = finals
  BY DEF SweepFail
<1>4. CASE FailGuard(f, p, command[p.id], a)
  <2> DEFINE g == AfterFail(f, p, TRUE)
  <2>1. /\ run' = [run EXCEPT ![w] = g]
        /\ command' = [command EXCEPT ![p.id] =
                          [@ EXCEPT !.state = "failed", !.owner = None, !.expired = FALSE]]
    BY <1>1, <1>4
  <2>2. g.op = f.op /\ g.at = "task" /\ g.pick = p
    BY <1>f DEF AfterFail, SweepFrames
  <2>3. command'[p.id].state = "failed"
    BY <1>2, <2>1 DEF TypeOK, CommandRows
  <2>4. command[p.id].state \notin Ended
    BY <1>4 DEF FailGuard, Active, StaleTarget, Waiting, Stranded, BoundTo, Ended
  <2> HIDE DEF g
  <2>5. Subject(g) = p.id /\ Outcome(g) = "failed" /\ Outcome(g) \in Ended
    BY <1>f, <2>2 DEF Subject, Outcome, SweepOps, Ended
  <2>6. EndsOne(g) /\ Picked(g)
    BY <1>2, <2>2, <2>3, <2>4, <2>5 DEF EndsOne, Picked
  <2> QED
    BY <1>3, <2>1, <2>6 DEF Moves
<1>5. CASE ~FailGuard(f, p, command[p.id], a)
  <2> DEFINE g == AfterFail(f, p, FailGuard(f, p, command[p.id], a))
  <2>1. run' = [run EXCEPT ![w] = g]
    BY <1>1
  <2>2. g.op = f.op /\ g.at = "next"
    BY <1>f, <1>5 DEF AfterFail, SweepFrames
  <2> HIDE DEF g
  <2> QED
    BY <1>3, <1>f, <2>1, <2>2, MovesQuietly
<1> QED
  BY <1>4, <1>5

\* The other statements of events.
LEMMA EventMovesOn ==
    ASSUME TypeOK, NEW w \in Handlers, EventTask(w) \/ EventAppend(w) \/ EventReject(w)
    PROVE  \E g : Moves(w, g)
<1> DEFINE f == run[w]
<1>f. f \in EventFrames /\ f.id \in Commands /\ f.op = "event"
  BY FrameParts DEF EventTask, EventAppend, EventReject
<1>1. CASE EventTask(w)
  <2> DEFINE g == [f EXCEPT !.at = "append"]
  <2>1. run' = [run EXCEPT ![w] = g] /\ finals' = finals /\ f.at = "task"
    BY <1>1 DEF EventTask, Goto
  <2>2. g.op = "event" /\ g.at = "append" /\ g.kind = f.kind /\ g.id = f.id
    BY <1>f DEF EventFrames
  <2> HIDE DEF g
  <2>3. Same(f, g) /\ Picked(g)
    BY <1>f, <2>1, <2>2 DEF Same, Closing, Subject, Outcome, Picked, SweepOps
  <2> QED
    BY <2>1, <2>3 DEF Moves
<1>2. CASE EventAppend(w)
  <2>1. run' = [run EXCEPT ![w] = Idle] /\ f.at = "append"
    BY <1>2 DEF EventAppend, End
  <2>2. ~Closing(Idle) /\ Picked(Idle)
    BY DEF Idle, Closing, Picked, SweepOps
  <2>3. finals' = finals \/ (Final(f.kind) /\ finals' = [finals EXCEPT ![f.id] = @ + 1])
    <3>1. finals' = IF Final(f.kind) /\ command[f.id].lane \in Lanes
                    THEN [finals EXCEPT ![f.id] = @ + 1] ELSE finals
      BY <1>2 DEF EventAppend
    <3> QED
      BY <3>1
  <2>4. Logs(f)
    BY <1>f, <2>1, <2>3 DEF Logs, Closing, Subject
  <2> QED
    BY <2>1, <2>2, <2>4 DEF Moves
<1>3. CASE EventReject(w)
  <2> DEFINE p == [id |-> f.id, source |-> f.source, session |-> f.session]
             g == [Sweep("refuse", f.by) EXCEPT !.at = "fail", !.pick = p]
  <2>1. finals' = finals /\ (End(w) \/ run' = [run EXCEPT ![w] = g])
    BY <1>3 DEF EventReject
  <2>2. p \in PickedCommands
    BY <1>f DEF EventFrames, PickedCommands
  <2>3. g.op = "refuse" /\ g.at = "fail" /\ g.pick = p
    BY DEF Sweep
  <2> HIDE DEF g, p
  <2>4. CASE End(w)
    BY <2>1, <2>4, MovesByEnd
  <2>5. CASE run' = [run EXCEPT ![w] = g]
    BY <2>1, <2>2, <2>3, <2>5, MovesQuietly DEF SweepOps
  <2> QED
    BY <2>1, <2>4, <2>5
<1> QED
  BY <1>1, <1>2, <1>3

\* The other statements of sweeps.
LEMMA SweepMovesOn ==
    ASSUME TypeOK, NEW w \in Handlers, Picked(run[w]),
           \/ CleanupRelease(w) \/ LostRelease(w) \/ LostSelect(w)
           \/ SweepTask(w) \/ SweepAppend(w) \/ SweepEnd(w)
    PROVE  \E g : Moves(w, g)
<1> DEFINE f == run[w]
<1>f. f \in SweepFrames /\ f.op \in SweepOps /\ f.rest \subseteq PickedCommands
  BY FrameParts DEF CleanupRelease, LostRelease, LostSelect, SweepTask, SweepAppend, SweepEnd, SweepOps
<1>1. CASE CleanupRelease(w)
  <2>1. PICK p \in f.rest :
           \/ run' = [run EXCEPT ![w].rest = @ \ {p}]
           \/ run' = [run EXCEPT ![w].rest = @ \ {p}, ![w].at = "fail", ![w].pick = p]
    BY <1>1 DEF CleanupRelease
  <2>2. finals' = finals /\ f.at = "next"
    BY <1>1 DEF CleanupRelease
  <2> DEFINE g == [f EXCEPT !.rest = f.rest \ {p}]
             h == [[[f EXCEPT !.rest = f.rest \ {p}] EXCEPT !.at = "fail"] EXCEPT !.pick = p]
  <2>3. run' = [run EXCEPT ![w] = g] \/ run' = [run EXCEPT ![w] = h]
    BY <2>1 DEF TypeOK
  <2>4. /\ g.op \in SweepOps /\ g.at = "next"
        /\ h.op \in SweepOps /\ h.at = "fail" /\ h.pick \in PickedCommands
    BY <1>f, <2>2 DEF SweepFrames
  <2> HIDE DEF g, h
  <2> QED
    BY <2>2, <2>3, <2>4, MovesQuietly
<1>2. CASE LostRelease(w)
  <2> DEFINE g == [f EXCEPT !.at = "select"]
  <2>1. run' = [run EXCEPT ![w] = g] /\ finals' = finals
    BY <1>2 DEF LostRelease, Goto
  <2>2. g.op \in SweepOps /\ g.at = "select"
    BY <1>f DEF SweepFrames
  <2> HIDE DEF g
  <2> QED
    BY <2>1, <2>2, MovesQuietly
<1>3. CASE LostSelect(w)
  <2>1. PICK S : run' = [run EXCEPT ![w].at = "next", ![w].rest = S]
    BY <1>3 DEF LostSelect
  <2> DEFINE g == [[f EXCEPT !.at = "next"] EXCEPT !.rest = S]
  <2>2. run' = [run EXCEPT ![w] = g] /\ finals' = finals
    BY <1>3, <2>1 DEF TypeOK, LostSelect
  <2>3. g.op \in SweepOps /\ g.at = "next"
    BY <1>f DEF SweepFrames
  <2> HIDE DEF g
  <2> QED
    BY <2>2, <2>3, MovesQuietly
<1>4. CASE SweepTask(w)
  <2> DEFINE g == [f EXCEPT !.at = "append"]
  <2>1. run' = [run EXCEPT ![w] = g] /\ finals' = finals /\ f.at = "task"
    BY <1>4 DEF SweepTask, Goto
  <2>2. g.op = f.op /\ g.at = "append" /\ g.pick = f.pick
    BY <1>f DEF SweepFrames
  <2> HIDE DEF g
  <2>3. Same(f, g) /\ Picked(g)
    BY <1>f, <2>1, <2>2 DEF Same, Closing, Subject, Outcome, Picked, SweepOps
  <2> QED
    BY <2>1, <2>3 DEF Moves
<1>5. CASE SweepAppend(w)
  <2> DEFINE g == [[f EXCEPT !.at = "next"] EXCEPT !.pick = None]
  <2>1. run' = [run EXCEPT ![w] = g] /\ f.at = "append"
    BY <1>5 DEF SweepAppend, TypeOK
  <2>2. finals' = finals \/ finals' = [finals EXCEPT ![f.pick.id] = @ + 1]
    BY <1>5 DEF SweepAppend
  <2>3. g.op = f.op /\ g.at = "next"
    BY <1>f DEF SweepFrames
  <2> HIDE DEF g
  <2>4. ~Closing(g) /\ Picked(g)
    BY <2>3 DEF Closing, Picked
  <2>5. Logs(f)
    BY <1>f, <2>1, <2>2 DEF Logs, Closing, Subject, SweepOps
  <2> QED
    BY <2>1, <2>4, <2>5 DEF Moves
<1>6. CASE SweepEnd(w)
  <2> DEFINE g == [op |-> "migrate", at |-> "select", from |-> run[w].by,
                   to |-> run[w].heir, rest |-> {}, pick |-> None]
  <2>1. finals' = finals /\ (End(w) \/ run' = [run EXCEPT ![w] = g])
    BY <1>6 DEF SweepEnd
  <2>2. g.op \notin SweepOps \cup {"event"}
    BY DEF SweepOps
  <2> HIDE DEF g
  <2>3. CASE End(w)
    BY <2>1, <2>3, MovesByEnd
  <2>4. CASE run' = [run EXCEPT ![w] = g]
    BY <2>1, <2>2, <2>4, MovesQuietly
  <2> QED
    BY <2>1, <2>3, <2>4
<1> QED
  BY <1>1, <1>2, <1>3, <1>4, <1>5, <1>6

LEMMA MigrateMovesOn ==
    ASSUME TypeOK, NEW w \in Handlers,
           \/ MigrateSelect(w) \/ MigrateRow(w) \/ RetargetAttached(w) \/ RetargetExplicit(w)
           \/ MigrateDelete(w)
    PROVE  \E g : Moves(w, g)
<1> DEFINE f == run[w]
<1>f. f \in MigrateFrames /\ f.op = "migrate"
  BY FrameParts DEF MigrateSelect, MigrateRow, RetargetAttached, RetargetExplicit, MigrateDelete
<1>n. finals' = finals
  BY DEF MigrateSelect, MigrateRow, RetargetAttached, RetargetExplicit, MigrateDelete
<1>q. ASSUME NEW g, run' = [run EXCEPT ![w] = g], g.op = "migrate" PROVE \E h : Moves(w, h)
  <2>1. g.op \notin SweepOps \cup {"event"}
    BY <1>q DEF SweepOps
  <2> QED
    BY <1>n, <1>q, <2>1, MovesQuietly
<1>1. ASSUME NEW a, NEW S, NEW p PROVE [[[f EXCEPT !.rest = S] EXCEPT !.pick = p] EXCEPT !.at = a].op = "migrate"
  BY <1>f DEF MigrateFrames
<1>2. ASSUME NEW a, run' = [run EXCEPT ![w].at = a] PROVE \E h : Moves(w, h)
  <2>1. [f EXCEPT !.at = a].op = "migrate" /\ run' = [run EXCEPT ![w] = [f EXCEPT !.at = a]]
    BY <1>f, <1>2 DEF MigrateFrames
  <2> QED
    BY <1>q, <2>1
<1>3. CASE MigrateSelect(w)
  <2>1. PICK S : run' = [run EXCEPT ![w].at = "next", ![w].rest = S]
    BY <1>3 DEF MigrateSelect
  <2>2. run' = [run EXCEPT ![w] = [[f EXCEPT !.at = "next"] EXCEPT !.rest = S]]
    BY <2>1 DEF TypeOK
  <2>3. [[f EXCEPT !.at = "next"] EXCEPT !.rest = S].op = "migrate"
    BY <1>f DEF MigrateFrames
  <2> QED
    BY <1>q, <2>2, <2>3
<1>4. CASE MigrateRow(w)
  <2>1. PICK p \in f.rest, a \in {"explicit", "attached"} :
             run' = [run EXCEPT ![w].rest = @ \ {p}, ![w].pick = p, ![w].at = a]
    <3>1. PICK p \in f.rest :
             run' = [run EXCEPT ![w].rest = @ \ {p}, ![w].pick = p,
                          ![w].at = IF p.lane = None THEN "explicit" ELSE "attached"]
      BY <1>4 DEF MigrateRow
    <3> QED
      BY <3>1
  <2>2. run' = [run EXCEPT ![w] = [[[f EXCEPT !.rest = f.rest \ {p}] EXCEPT !.pick = p] EXCEPT !.at = a]]
    BY <2>1 DEF TypeOK
  <2> QED
    BY <1>1, <1>q, <2>2
<1>5. CASE RetargetAttached(w) \/ MigrateDelete(w)
  BY <1>2, <1>5 DEF RetargetAttached, MigrateDelete, Goto
<1>6. CASE RetargetExplicit(w)
  <2>1. run' = [run EXCEPT ![w] = [[f EXCEPT !.at = "next"] EXCEPT !.pick = None]]
    BY <1>6 DEF RetargetExplicit, TypeOK
  <2>2. [[f EXCEPT !.at = "next"] EXCEPT !.pick = None].op = "migrate"
    BY <1>f DEF MigrateFrames
  <2> QED
    BY <1>q, <2>1, <2>2
<1> QED
  BY <1>3, <1>4, <1>5, <1>6

LEMMA HandlerMoves ==
    ASSUME TypeOK, NEW w \in Handlers, Picked(run[w]), Begin(w) \/ Continue(w) \/ Die(w)
    PROVE  \E g : Moves(w, g)
<1>1. CASE Begin(w)
  BY <1>1, BeginMoves
<1>2. CASE CreateInsert(w) \/ LeaseUpdate(w) \/ MigrateEnd(w) \/ Die(w)
  <2>1. End(w) /\ finals' = finals
    BY <1>2 DEF CreateInsert, LeaseUpdate, MigrateEnd, Die
  <2> QED
    BY <2>1, MovesByEnd
<1> QED
  BY <1>1, <1>2, EventUpdateMoves, SweepFailMoves, EventMovesOn, SweepMovesOn, MigrateMovesOn
  DEF Continue

-----------------------------------------------------------------------------
(* The ends stay true.                                                     *)

EndsKept == ClosingIsTrue /\ OneCloses /\ AtMostOneFinalEvent /\ FinalEventIsTrue

LEMMA MovesKeep ==
    ASSUME TypeOK, EndsKept, \A v \in Handlers : Picked(run[v]),
           \A c \in Commands : command[c].state \in Ended => command'[c] = command[c],
           NEW w \in Handlers, NEW g, Moves(w, g)
    PROVE  EndsKept' /\ \A v \in Handlers : Picked(run'[v])
<1> DEFINE f == run[w]
<1>e. ClosingIsTrue /\ OneCloses /\ AtMostOneFinalEvent /\ FinalEventIsTrue
  BY DEF EndsKept
<1>n. finals \in [Commands -> Nat]
  BY DEF TypeOK
<1>1. run'[w] = g /\ (\A v \in Handlers : v # w => run'[v] = run[v]) /\ Picked(g)
  BY DEF Moves, TypeOK
<1>2. \A v \in Handlers : Picked(run'[v])
  BY <1>1
<1>3. \A v \in Handlers : Closing(run[v]) => /\ Subject(run[v]) \in Commands
                                             /\ Outcome(run[v]) \in Ended
                                             /\ command[Subject(run[v])].state = Outcome(run[v])
                                             /\ command'[Subject(run[v])].state = Outcome(run[v])
                                             /\ finals[Subject(run[v])] = 0
  BY <1>e, ClosingParts DEF ClosingIsTrue
\* No other handler closes the command, nor is its end logged again.
<1>4. CASE finals' = finals /\ \A v \in Handlers : Same(run[v], run'[v])
  <2>1. ClosingIsTrue'
    <3> SUFFICES ASSUME NEW v \in Handlers, Closing(run'[v])
                 PROVE  command'[Subject(run'[v])].state = Outcome(run'[v]) /\ finals'[Subject(run'[v])] = 0
      BY DEF ClosingIsTrue
    <3>1. Closing(run[v]) /\ Subject(run'[v]) = Subject(run[v]) /\ Outcome(run'[v]) = Outcome(run[v])
      BY <1>4 DEF Same
    <3> QED
      BY <1>3, <1>4, <3>1
  <2>2. OneCloses'
    <3> SUFFICES ASSUME NEW u \in Handlers, NEW v \in Handlers, Closing(run'[u]), Closing(run'[v]),
                        Subject(run'[u]) = Subject(run'[v])
                 PROVE  u = v
      BY DEF OneCloses
    <3>1. /\ Closing(run[u]) /\ Subject(run'[u]) = Subject(run[u])
          /\ Closing(run[v]) /\ Subject(run'[v]) = Subject(run[v])
      BY <1>4 DEF Same
    <3> QED
      BY <1>e, <3>1 DEF OneCloses
  <2>3. AtMostOneFinalEvent' /\ FinalEventIsTrue'
    BY <1>e, <1>4 DEF AtMostOneFinalEvent, FinalEventIsTrue, Ended
  <2> QED
    BY <1>2, <2>1, <2>2, <2>3 DEF EndsKept
<1>5. CASE finals' = finals /\ EndsOne(g)
  <2> DEFINE c == Subject(g)
  <2>1. c \in Commands /\ command[c].state \notin Ended /\ command'[c].state = Outcome(g)
    BY <1>5 DEF EndsOne
  <2>2. finals[c] = 0
    BY <1>e, <1>n, <2>1 DEF FinalEventIsTrue, Ended
  <2>3. \A v \in Handlers : Closing(run[v]) => Subject(run[v]) # c
    BY <1>3, <2>1
  <2> HIDE DEF c
  <2>4. ClosingIsTrue'
    <3> SUFFICES ASSUME NEW v \in Handlers, Closing(run'[v])
                 PROVE  command'[Subject(run'[v])].state = Outcome(run'[v]) /\ finals'[Subject(run'[v])] = 0
      BY DEF ClosingIsTrue
    <3>1. CASE v = w
      BY <1>1, <1>5, <2>1, <2>2, <3>1 DEF c
    <3>2. CASE v # w
      BY <1>1, <1>3, <1>5, <3>2
    <3> QED
      BY <3>1, <3>2
  <2>5. OneCloses'
    <3> SUFFICES ASSUME NEW u \in Handlers, NEW v \in Handlers, Closing(run'[u]), Closing(run'[v]),
                        Subject(run'[u]) = Subject(run'[v])
                 PROVE  u = v
      BY DEF OneCloses
    <3>1. CASE u = w /\ v # w
      BY <1>1, <2>3, <3>1 DEF c
    <3>2. CASE v = w /\ u # w
      BY <1>1, <2>3, <3>2 DEF c
    <3>3. CASE u # w /\ v # w
      BY <1>1, <1>e, <3>3 DEF OneCloses
    <3> QED
      BY <3>1, <3>2, <3>3
  <2>6. AtMostOneFinalEvent' /\ FinalEventIsTrue'
    BY <1>e, <1>5 DEF AtMostOneFinalEvent, FinalEventIsTrue, Ended
  <2> QED
    BY <1>2, <2>4, <2>5, <2>6 DEF EndsKept
<1>6. CASE ~Closing(g) /\ Closing(f) /\ finals' = [finals EXCEPT ![Subject(f)] = @ + 1]
  <2> DEFINE c == Subject(f)
  <2>1. c \in Commands /\ finals[c] = 0 /\ command'[c].state \in Ended
    BY <1>3, <1>6
  <2>2. finals'[c] = 1 /\ \A d \in Commands : d # c => finals'[d] = finals[d]
    BY <1>6, <1>n, <2>1
  <2>3. \A v \in Handlers : Closing(run'[v]) => v # w /\ run'[v] = run[v] /\ Subject(run[v]) # c
    BY <1>1, <1>6, <1>e DEF OneCloses
  <2> HIDE DEF c
  <2>4. ClosingIsTrue'
    BY <1>3, <2>2, <2>3 DEF ClosingIsTrue
  <2>5. OneCloses'
    BY <1>e, <2>3 DEF OneCloses
  <2>6. AtMostOneFinalEvent'
    BY <1>e, <2>2 DEF AtMostOneFinalEvent
  <2>7. FinalEventIsTrue'
    BY <1>e, <2>1, <2>2 DEF FinalEventIsTrue, Ended
  <2> QED
    BY <1>2, <2>4, <2>5, <2>6, <2>7 DEF EndsKept
<1>7. ASSUME Same(f, g) \/ ~Closing(g) PROVE \A v \in Handlers : Same(run[v], run'[v])
  BY <1>1, <1>7 DEF Same
<1> QED
  BY <1>4, <1>5, <1>6, <1>7 DEF Moves, Logs

\* The task is given an outcome only by a handler that closes a command with
\* that outcome, and the row of that command stays.
LEMMA TaskOutcomeStep ==
    ASSUME TypeOK, TaskOutcomeHasCause, ClosingIsTrue, \A v \in Handlers : Picked(run[v]),
           \A c \in Commands : command[c].state \in Ended => command'[c] = command[c],
           [Next]_vars
    PROVE  TaskOutcomeHasCause'
<1> DEFINE Has(l, state) == \E c \in Commands : command[c].lane = l /\ command[c].state = state
           HasNext(l, state) == \E c \in Commands : command'[c].lane = l /\ command'[c].state = state
<1>1. \A l \in Lanes : (task[l] = "done" => Has(l, "succeeded")) /\ (task[l] = "failed" => Has(l, "failed"))
  BY DEF TaskOutcomeHasCause
<1>2. \A l \in Lanes : /\ Has(l, "succeeded") => HasNext(l, "succeeded")
                       /\ Has(l, "failed") => HasNext(l, "failed")
  BY DEF Ended
<1>g. ASSUME \A l \in Lanes : /\ task'[l] = "done" => HasNext(l, "succeeded")
                              /\ task'[l] = "failed" => HasNext(l, "failed")
      PROVE  TaskOutcomeHasCause'
  BY <1>g DEF TaskOutcomeHasCause
<1>3. CASE task' = task
  BY <1>1, <1>2, <1>3, <1>g
<1>4. ASSUME NEW w \in Handlers, NEW l \in Lanes, NEW state \in TaskStates,
             task' = [task EXCEPT ![l] = state],
             state \in {"done", "failed"} =>
                 /\ Closing(run[w]) /\ command[Subject(run[w])].lane = l
                 /\ Outcome(run[w]) = IF state = "done" THEN "succeeded" ELSE "failed"
      PROVE  TaskOutcomeHasCause'
  <2>1. \A m \in Lanes : m # l => task'[m] = task[m]
    BY <1>4 DEF TypeOK
  <2>2. task'[l] = state
    BY <1>4 DEF TypeOK
  <2>3. ASSUME state \in {"done", "failed"}
        PROVE  HasNext(l, IF state = "done" THEN "succeeded" ELSE "failed")
    <3>1. /\ Subject(run[w]) \in Commands /\ command[Subject(run[w])].lane = l
          /\ command[Subject(run[w])].state = IF state = "done" THEN "succeeded" ELSE "failed"
      BY <1>4, <2>3, ClosingParts DEF ClosingIsTrue
    <3>2. command'[Subject(run[w])] = command[Subject(run[w])]
      BY <3>1 DEF Ended
    <3> QED
      BY <3>1, <3>2
  <2> QED
    BY <1>1, <1>2, <1>g, <2>1, <2>2, <2>3
<1>5. ASSUME NEW w \in Handlers, EventTask(w) PROVE TaskOutcomeHasCause'
  <2> DEFINE f == run[w]
             l == command[f.id].lane
             state == TaskStateFor(f.kind)
  <2>1. task' = IF l \in Lanes /\ state # "none" THEN [task EXCEPT ![l] = state] ELSE task
    BY <1>5 DEF EventTask
  <2>2. state \in TaskStates \cup {"none"}
    BY DEF TaskStateFor, TaskStates
  <2>3. state \in {"done", "failed"} =>
           /\ Closing(f) /\ Subject(f) = f.id
           /\ Outcome(f) = IF state = "done" THEN "succeeded" ELSE "failed"
    BY <1>5 DEF EventTask, TaskStateFor, Closing, Final, Subject, Outcome, CommandStateFor
  <2>4. CASE l \in Lanes /\ state # "none"
    <3>1. task' = [task EXCEPT ![l] = state] /\ state \in TaskStates
      BY <2>1, <2>2, <2>4
    <3> HIDE DEF state
    <3> QED
      BY <1>4, <2>3, <2>4, <3>1
  <2> QED
    BY <1>3, <2>1, <2>4
<1>6. ASSUME NEW w \in Handlers, SweepTask(w) PROVE TaskOutcomeHasCause'
  <2> DEFINE f == run[w]
             l == command[f.pick.id].lane
  <2>1. task' = IF l \in Lanes THEN [task EXCEPT ![l] = "failed"] ELSE task
    BY <1>6 DEF SweepTask
  <2>2. Closing(f) /\ Subject(f) = f.pick.id /\ Outcome(f) = "failed"
    BY <1>6 DEF SweepTask, Closing, Subject, Outcome, SweepOps
  <2>3. CASE l \in Lanes
    BY <1>4, <2>1, <2>2, <2>3 DEF TaskStates
  <2> QED
    BY <1>3, <2>1, <2>3
<1>7. ASSUME NEW w \in Handlers, Begin(w) \/ Die(w) PROVE task' = task
  <2>1. \A mode, lane, k : CreateCheck(w, mode, lane, k) => task' = task
    BY DEF CreateCheck
  <2>2. \A k, c, kind, s : EventSelect(w, k, c, kind, s) => task' = task
    BY DEF EventSelect
  <2>3. \A k, ids : LeaseSelect(w, k) \/ CleanupSelect(w, k) \/ DisconnectSelect(w, k, ids) => task' = task
    BY DEF LeaseSelect, CleanupSelect, DisconnectSelect
  <2>4. \A h : Detach(w, h) \/ DemoteSession(w, h) => task' = task
    BY DEF Detach, DemoteSession, ReportSession
  <2>5. \A g, h : Retire(w, g, h) => task' = task
    BY DEF Retire
  <2>6. Die(w) => task' = task
    BY DEF Die
  <2> QED
    BY <1>7, <2>1, <2>2, <2>3, <2>4, <2>5, <2>6 DEF Begin
<1>8. AtOnce => task' = task
  BY DEF AtOnce, ReleaseLeased, LeaseExpires, Attach, UpsertSession, ReportSession,
     ConnectorUnavailable, ConnectorReady
<1>9. ASSUME NEW w \in Handlers, Continue(w), ~EventTask(w), ~SweepTask(w) PROVE task' = task
  BY <1>9 DEF Continue, CreateInsert, LeaseUpdate, EventUpdate, EventAppend, EventReject,
     CleanupRelease, LostRelease, LostSelect, SweepFail, SweepAppend, SweepEnd, MigrateSelect,
     MigrateRow, RetargetAttached, RetargetExplicit, MigrateDelete, MigrateEnd
<1>10. UNCHANGED vars => task' = task
  BY DEF vars
<1> QED
  BY <1>3, <1>5, <1>6, <1>7, <1>8, <1>9, <1>10 DEF Next

LEMMA EndsStep == EndsInv /\ [Next]_vars => EndsInv'
<1> SUFFICES ASSUME EndsInv, [Next]_vars PROVE EndsInv'
  OBVIOUS
<1>1. /\ IInv /\ TypeOK /\ EndsKept /\ ClosingIsTrue /\ TaskOutcomeHasCause
      /\ \A w \in Handlers : Picked(run[w])
  BY DEF EndsInv, EndsKept, IInv
<1>2. IInv' /\ \A c \in Commands : command[c].state \in Ended => command'[c] = command[c]
  BY <1>1, StepKeeps DEF RowStep, Ended
<1>3. TaskOutcomeHasCause'
  BY <1>1, <1>2, TaskOutcomeStep
<1>4. EndsKept' /\ \A w \in Handlers : Picked(run'[w])
  <2>1. CASE AtOnce \/ UNCHANGED vars
    <3>1. run' = run /\ finals' = finals
      BY <2>1 DEF AtOnce, ReleaseLeased, LeaseExpires, Attach, UpsertSession, ReportSession,
         ConnectorUnavailable, ConnectorReady, vars
    <3>2. \A w \in Handlers : Closing(run[w]) => command'[Subject(run[w])].state = Outcome(run[w])
      BY <1>1, <1>2, ClosingParts DEF ClosingIsTrue
    <3>3. ClosingIsTrue' /\ OneCloses'
      BY <1>1, <3>1, <3>2 DEF EndsKept, ClosingIsTrue, OneCloses
    <3>4. AtMostOneFinalEvent' /\ FinalEventIsTrue'
      BY <1>1, <1>2, <3>1 DEF EndsKept, AtMostOneFinalEvent, FinalEventIsTrue, Ended
    <3> QED
      BY <1>1, <3>1, <3>3, <3>4 DEF EndsKept
  <2>2. ASSUME NEW w \in Handlers, Begin(w) \/ Continue(w) \/ Die(w)
        PROVE  EndsKept' /\ \A v \in Handlers : Picked(run'[v])
    <3>1. PICK g : Moves(w, g)
      BY <1>1, <2>2, HandlerMoves
    <3> QED
      BY <1>1, <1>2, <3>1, MovesKeep
  <2> QED
    BY <2>1, <2>2 DEF Next
<1> QED
  BY <1>2, <1>3, <1>4 DEF EndsInv, EndsKept

LEMMA EndsInit == Init => EndsInv
<1> SUFFICES ASSUME Init PROVE EndsInv
  OBVIOUS
<1>1. \A w \in Handlers : ~Closing(run[w]) /\ Picked(run[w])
  BY DEF Init, Idle, Closing, Picked, SweepOps
<1>2. \A c \in Commands : finals[c] = 0
  BY DEF Init
<1>3. TaskOutcomeHasCause
  BY DEF Init, TaskOutcomeHasCause
<1> QED
  BY <1>1, <1>2, <1>3, InitIsSound
  DEF EndsInv, ClosingIsTrue, OneCloses, AtMostOneFinalEvent, FinalEventIsTrue

-----------------------------------------------------------------------------
(* The theorems.                                                           *)

\* The inductive invariant holds in every behaviour of the command table.
THEOREM EndsInvariant == Spec => []EndsInv
BY EndsInit, EndsStep, PTL DEF Spec

\* Whichever handlers finish and fail a command at the same time (its events,
\* a disconnect, a cleanup, a lost session, a refused start), its thread is
\* told one end at most, and only after the row has ended; and a task is shown
\* as done or failed only for a command of its lane that has succeeded or
\* failed.
THEOREM EndsAreToldTrue == Spec => []EndsAreTrue
<1>1. EndsInv => EndsAreTrue
  BY DEF EndsInv, EndsAreTrue
<1> QED
  BY <1>1, EndsInvariant, PTL

=============================================================================
