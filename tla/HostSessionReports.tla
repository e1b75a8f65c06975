------------------------- MODULE HostSessionReports -------------------------
(***************************************************************************)
(* The inventory of a host's Codex sessions: what the connector reads of   *)
(* local files and of the app-server's list                                *)
(* (crates/agent/src/session_inventory.rs), the reports it sends           *)
(* (crates/agent/src/connector.rs), and the rows the Worker keeps, which   *)
(* say whether a session is there in the app-server                        *)
(* (apps/worker/src/db.ts).  The Worker awaits the database between the    *)
(* statements of a report, while another report or a request is handled.   *)
(***************************************************************************)
EXTENDS Integers, Sequences, FiniteSets, SequencesExt, FiniteSetsExt

CONSTANTS Sessions,    \* session ids: natural numbers, for their order
          Threads, ThreadSession, \* threads of the app-server, the session of each
          MaxSessions, \* max_sessions
          MetaScan, RolloutScan, \* lines and files looked at
          PageCap,     \* threads the app-server puts on a page at most
          WorkerCut,   \* sessions of a report the Worker takes
          Handlers,    \* reports handled at once
          Ops,         \* what the connector is asked for
          MaxWrites, MaxReports \* bounds

ReportAssumption ==
  /\ Sessions \subseteq Nat /\ IsFiniteSet(Sessions) /\ IsFiniteSet(Threads)
  /\ ThreadSession \in [Threads -> Sessions]
  /\ {MaxSessions, MetaScan, RolloutScan, PageCap, WorkerCut} \subseteq Nat \ {0}
  /\ Ops \subseteq {"refresh", "archive", "create"} /\ {MaxWrites, MaxReports} \subseteq Nat

VARIABLES
  index,    \* session_index.jsonl: session and time
  history,  \* history.jsonl: session, time and whether the text has words
  rollouts, \* session, day, the time its first lines tell, and of the file
  active,   \* time of the last update of each active thread, 0 of the others
  writes,   \* the time
  op, local,\* what the connector is doing, what it has read of the files
  wire,     \* reports on their way
  asked,    \* reports made
  handler,  \* what each handler of the Worker is doing
  present,  \* app_server_present of each row, "none" without a row
  created,  \* sessions created for the browser whose rows are to be written
  own       \* those whose rows were written, while their thread is there

files == <<index, history, rollouts>>
connector == <<op, local, wire, asked>>
vars == <<files, active, writes, connector, handler, present, created, own>>

AppSessions(threads) == {ThreadSession[t] : t \in threads}
Open == {t \in Threads : active[t] > 0}

Report == [scope : {"full", "incremental"}, ok : {"true", "false", "null"},
           sessions : Seq([session : Sessions, present : BOOLEAN]),
           absent : SUBSET Sessions]
NoReport == [scope |-> "incremental", ok |-> "null", sessions |-> <<>>, absent |-> {}]
Quiet == [step |-> "idle", report |-> NoReport, todo |-> <<>>, previous |-> "none"]

TypeOK ==
  /\ index \in Seq(Sessions \X Nat) /\ history \in Seq(Sessions \X Nat \X BOOLEAN)
  /\ rollouts \in Seq([session : Sessions, day : Nat, head : Nat, mtime : Nat])
  /\ active \in [Threads -> 0..MaxWrites] /\ writes \in 0..MaxWrites
  /\ op \in {"idle", "read", "list"} \X {"full", "incremental"}
  /\ local \in [Sessions -> Nat]
  /\ wire \in Seq(Report) /\ asked \in 0..MaxReports
  /\ handler \in [Handlers -> [step : {"idle", "read", "write", "clear"}, report : Report,
       todo : Seq([session : Sessions, present : BOOLEAN]), previous : {"none", "no", "yes"}]]
  /\ present \in [Sessions -> {"none", "no", "yes"}] 
  /\ created \subseteq Sessions /\ own \subseteq Sessions

Init ==
  /\ index = <<>> /\ history = <<>> /\ rollouts = <<>>
  /\ active = [t \in Threads |-> 0] /\ writes = 0
  /\ op = <<"idle", "full">> /\ local = [s \in Sessions |-> 0]
  /\ wire = <<>> /\ asked = 0
  /\ handler = [h \in Handlers |-> Quiet]
  /\ present = [s \in Sessions |-> "none"] /\ created = {} /\ own = {}
-----------------------------------------------------------------------------
(* Codex on the host, and other clients of the app-server.                  *)

Written == writes < MaxWrites /\ writes' = writes + 1
Elsewhere == UNCHANGED <<connector, handler, present, created>> /\ own' = own \cap AppSessions(Open')

WriteIndex(s) ==
  /\ Written /\ index' = Append(index, <<s, writes'>>)
  /\ UNCHANGED <<history, rollouts, active>> /\ Elsewhere

WriteHistory(s, words) ==
  /\ Written /\ history' = Append(history, <<s, writes', words>>)
  /\ UNCHANGED <<index, rollouts, active>> /\ Elsewhere

NewRollout(s, sameDay) ==
  LET last == IF rollouts = <<>> THEN 0 ELSE rollouts[Len(rollouts)].day IN
  /\ Written
  /\ rollouts' = Append(rollouts, [session |-> s, day |-> IF sameDay THEN last ELSE last + 1,
                                   head |-> writes', mtime |-> writes'])
  /\ UNCHANGED <<index, history, active>> /\ Elsewhere

(* Beyond the lines read for the metadata.                                  *)
UseRollout(f) ==
  /\ Written /\ rollouts' = [rollouts EXCEPT ![f].mtime = writes']
  /\ UNCHANGED <<index, history, active>> /\ Elsewhere

Use(t) ==
  /\ Written /\ active' = [active EXCEPT ![t] = writes']
  /\ UNCHANGED files /\ Elsewhere

Close(t) ==
  /\ Written /\ t \in Open /\ active' = [active EXCEPT ![t] = 0]
  /\ UNCHANGED files /\ Elsewhere
-----------------------------------------------------------------------------
(* The local files.                                                         *)

Recent(lines, n) == SubSeq(lines, Max({1, Len(lines) - n + 1}), Len(lines))

IndexTimes(s) ==
  LET lines == Recent(index, MetaScan) IN
  {lines[i][2] : i \in {j \in DOMAIN lines : lines[j][1] = s}}

(* The first line read with words in it makes the session.                  *)
HistoryTimes(s) ==
  LET lines == Recent(history, MetaScan)
      mine == {i \in DOMAIN lines : lines[i][1] = s}
      titled == {i \in mine : lines[i][3]}
  IN {lines[i][2] : i \in {j \in mine : \E k \in titled : k <= j}}

InNewestDays ==
  {f \in DOMAIN rollouts :
     Cardinality({g \in DOMAIN rollouts : rollouts[g].day > rollouts[f].day}) < RolloutScan}
Scanned ==
  {f \in InNewestDays :
     Cardinality({g \in InNewestDays : rollouts[g].mtime > rollouts[f].mtime}) < RolloutScan}

RolloutTimes(s) == {rollouts[f].head : f \in {g \in Scanned : rollouts[g].session = s}}

LocalTimes(s) == IndexTimes(s) \cup HistoryTimes(s) \cup RolloutTimes(s)

Latest(s) == Max({0} \cup LocalTimes(s))
-----------------------------------------------------------------------------
(* A report.  It is full when the app-server's list ended on the one page   *)
(* asked for and no session had to be left out.                             *)

Listings ==
  {q \in SetToSeqs(Open) : \A i, j \in DOMAIN q : active[q[i]] > active[q[j]] => i < j}

Page(listed) == SubSeq(listed, 1, Min({MaxSessions + 1, PageCap, Len(listed)}))
HasNext(listed) == Len(listed) > Len(Page(listed))

\* Mutant.
TruncatedByCount(listed) == Len(Page(listed)) > MaxSessions

Truncated(listed) == Len(Page(listed)) > MaxSessions \/ HasNext(listed)

AppTime(page, s) == Max({0} \cup {active[t] : t \in {u \in ToSet(page) : ThreadSession[u] = s}})

(* The drafts, given what a page shows of the app-server's sessions, sorted *)
(* by time and id; and their report, cut, given whether the list succeeded. *)
Drafts(page, app) ==
  LET time(s) == Max({local[s]} \cup IF s \in app THEN {AppTime(page, s)} ELSE {})
      before(a, b) == time(a) > time(b) \/ (time(a) = time(b) /\ a < b)
  IN {q \in SetToSeqs({s \in Sessions : local[s] > 0} \cup app) :
        \A i, j \in DOMAIN q : before(q[i], q[j]) => i < j}

ReportOf(sorted, app, ok, truncated) ==
  LET cut == SubSeq(sorted, 1, Min({MaxSessions, Len(sorted)})) IN
  [scope |-> IF truncated \/ Len(sorted) > MaxSessions THEN "incremental" ELSE "full",
   ok |-> ok,
   sessions |-> [i \in DOMAIN cut |-> [session |-> cut[i], present |-> cut[i] \in app]],
   absent |-> Sessions \ AppSessions(Open)]

Send(report) ==
  /\ wire' = Append(wire, IF op[2] = "full" THEN report
                          ELSE [report EXCEPT !.scope = "incremental"])
  /\ op' = <<"idle", "full">> /\ UNCHANGED <<local, asked>>
  /\ UNCHANGED <<files, active, writes, handler, present, created, own>>

Ask(scope) ==
  /\ op[1] = "idle" /\ asked < MaxReports /\ asked' = asked + 1
  /\ op' = <<"read", scope>> /\ UNCHANGED <<local, wire, files, handler, present>>

Refresh == "refresh" \in Ops /\ Ask("full") /\ UNCHANGED <<active, writes, created, own>>

(* After a thread was archived the report goes as it is, after one was      *)
(* created it goes as incremental.                                          *)
Archive(t) ==
  /\ "archive" \in Ops /\ Ask("full") /\ t \in Open
  /\ active' = [active EXCEPT ![t] = 0] /\ own' = own \cap AppSessions(Open')
  /\ UNCHANGED <<writes, created>>

Create(t) ==
  /\ "create" \in Ops /\ Written /\ Ask("incremental") /\ active[t] = 0
  /\ active' = [active EXCEPT ![t] = writes'] /\ created' = created \cup {ThreadSession[t]}
  /\ UNCHANGED own

ReadFiles ==
  /\ op[1] = "read" /\ op' = <<"list", op[2]>>
  /\ local' = [s \in Sessions |-> Latest(s)]
  /\ UNCHANGED <<wire, asked, files, active, writes, handler, present, created, own>>

(* A file that cannot be read: no session at all, and no success.           *)
ReadFails ==
  /\ op[1] = "read"
  /\ \E ok \in {"false", "null"} : Send([NoReport EXCEPT !.ok = ok])

ListThreads ==
  /\ op[1] = "list"
  /\ \E listed \in Listings :
       LET app == AppSessions(ToSet(Page(listed))) IN
       \E sorted \in Drafts(Page(listed), app) :
         Send(ReportOf(sorted, app, "true", Truncated(listed)))

(* A failed list leaves the scope to the local sessions.                    *)
Unlisted(ok) ==
  op[1] = "list" /\ \E sorted \in Drafts(<<>>, {}) : Send(ReportOf(sorted, {}, ok, FALSE))
ListFails == Unlisted("false")
NoAppServer == Unlisted("null")
-----------------------------------------------------------------------------
(* The Worker.                                                              *)

Recording == UNCHANGED <<files, active, writes, op, local, asked>>
CanUseAbsence(r) == r.scope = "full" /\ r.ok = "true"
CanClearMissing(r) == CanUseAbsence(r) /\ Len(r.sessions) <= WorkerCut

Record(h) ==
  /\ handler[h].step = "idle" /\ wire # <<>> /\ wire' = Tail(wire)
  /\ LET r == Head(wire) IN
     handler' = [handler EXCEPT ![h] =
       [step |-> "read", report |-> r, previous |-> "none",
        todo |-> SubSeq(r.sessions, 1, Min({WorkerCut, Len(r.sessions)}))]]
  /\ Recording /\ UNCHANGED <<present, created, own>>

(* The dogfood guard refuses it.                                            *)
Blocked ==
  /\ wire # <<>> /\ wire' = Tail(wire)
  /\ Recording /\ UNCHANGED <<handler, present, created, own>>

FindHostSession(h) ==
  /\ handler[h].step = "read" /\ handler[h].todo # <<>>
  /\ handler' = [handler EXCEPT ![h].step = "write",
                                ![h].previous = present[Head(handler[h].todo).session]]
  /\ Recording /\ UNCHANGED <<wire, present, created, own>>

\* Mutant.
ReportedPresence(r, row, previous) == IF row.present THEN "yes" ELSE "no"

AppServerPresent(r, row, previous) ==
  IF row.present \/ (~CanUseAbsence(r) /\ previous = "yes") THEN "yes" ELSE "no"

Upsert(h) ==
  /\ handler[h].step = "write"
  /\ LET row == Head(handler[h].todo) IN
     present' = [present EXCEPT ![row.session] =
       AppServerPresent(handler[h].report, row, handler[h].previous)]
  /\ handler' = [handler EXCEPT ![h].step = "read", ![h].todo = Tail(@)]
  /\ Recording /\ UNCHANGED <<wire, created, own>>

MissingSessions(r) ==
  IF CanClearMissing(r) THEN Sessions \ {r.sessions[i].session : i \in DOMAIN r.sessions}
  ELSE {}

FindMissing(h) ==
  /\ handler[h].step = "read" /\ handler[h].todo = <<>>
  /\ \E q \in SetToSeqs({s \in MissingSessions(handler[h].report) : present[s] = "yes"}) :
       handler' = [handler EXCEPT ![h].step = "clear",
         ![h].todo = [i \in DOMAIN q |-> [session |-> q[i], present |-> FALSE]]]
  /\ Recording /\ UNCHANGED <<wire, present, created, own>>

ClearMissing(h) ==
  /\ handler[h].step = "clear" /\ handler[h].todo # <<>>
  /\ present' = [present EXCEPT ![Head(handler[h].todo).session] = "no"]
  /\ handler' = [handler EXCEPT ![h].todo = Tail(@)]
  /\ Recording /\ UNCHANGED <<wire, created, own>>

Recorded(h) == handler[h].step = "clear" /\ handler[h].todo = <<>>

RecordEnds(h) ==
  /\ Recorded(h) /\ handler' = [handler EXCEPT ![h] = Quiet]
  /\ Recording /\ UNCHANGED <<wire, present, created, own>>

(* The request that created the session reports it alone, and present.      *)
PersistCreated(s) ==
  /\ s \in created /\ created' = created \ {s}
  /\ present' = [present EXCEPT ![s] = "yes"]
  /\ own' = own \cup ({s} \cap AppSessions(Open))
  /\ Recording /\ UNCHANGED <<wire, handler>>

Host ==
  \/ \E s \in Sessions :
       \/ WriteIndex(s)
       \/ \E b \in BOOLEAN : WriteHistory(s, b) \/ NewRollout(s, b)
  \/ \E f \in DOMAIN rollouts : UseRollout(f)
  \/ \E t \in Threads : Use(t) \/ Close(t)

Next ==
  \/ Host
  \/ Refresh \/ \E t \in Threads : Archive(t) \/ Create(t)
  \/ ReadFiles \/ ReadFails \/ ListThreads \/ ListFails \/ NoAppServer
  \/ \E h \in Handlers :
       \/ Record(h) \/ FindHostSession(h) \/ Upsert(h)
       \/ FindMissing(h) \/ ClearMissing(h) \/ RecordEnds(h)
  \/ Blocked \/ \E s \in Sessions : PersistCreated(s)

Spec == Init /\ [][Next]_vars
-----------------------------------------------------------------------------
(* A report that calls itself full, with a successful list, shows as        *)
(* present every session the app-server has, with pages of any size and     *)
(* sessions of any number of threads, so that its silence may be believed.  *)
FullIsWhole ==
  \A i \in DOMAIN wire : CanUseAbsence(wire[i]) =>
    \A s \in Sessions \ wire[i].absent :
      \E j \in DOMAIN wire[i].sessions : wire[i].sessions[j] = [session |-> s, present |-> TRUE]

KeepsPresence ==
  \A s \in Sessions : present[s] = "yes" /\ present'[s] # "yes" =>
    \E h \in Handlers :
      /\ handler'[h] # handler[h] /\ CanUseAbsence(handler[h].report)
      /\ s \in handler[h].report.absent

(* "Transient app-server list failures or truncated reports do not clear    *)
(* known app-server presence": a row loses it only in the recording of a    *)
(* full report with a successful list, whose app-server had no such         *)
(* session.                                                                 *)
PresenceIsKept == [][KeepsPresence]_vars

(* When a full report that was not too long has been recorded, exactly the  *)
(* sessions the app-server had are marked present, whatever reports came    *)
(* before.                                                                  *)
FullReportSettles ==
  \A h \in Handlers :
    Recorded(h) /\ CanClearMissing(handler[h].report) =>
      \A s \in Sessions : present[s] = "yes" <=> s \notin handler[h].report.absent

(* "Cannot clear the exact session already returned to and persisted by the *)
(* Browser API": a session created for the browser is present in its row as *)
(* long as its thread is there.                                             *)
CreatedStaysPresent == \A s \in own : present[s] = "yes"
=============================================================================
