------------------------------ MODULE MCReports ------------------------------
(***************************************************************************)
(* What a connector does on a host's sessions, for TLC: reports recorded   *)
(* one after the other (Alone) or two at a time, also after threads were   *)
(* archived or created (Pages), and the operations on an app-server's      *)
(* threads: archive and unarchive by session (Sync) or by official rows    *)
(* (Exact), attach, command and create (Attach); and how the answers that  *)
(* operators give to one request of a turn are claimed and recorded        *)
(* (InteractionClaims).  They do not meet: a behaviour is about one of     *)
(* them, named by subject, and the others stay in their initial states.    *)
(***************************************************************************)
EXTENDS InteractionClaims, TLC

CONSTANTS r1, r2, r3, t1, t2, t3, root, kid, kid2, other

VARIABLES
  subject,
  index, history, rollouts, open, writes, op, local, reported, asked,  \* the reports
  handling, present, created, own,
  list, archived, rollout, touches, moved, kind, pc, cursor, pages,  \* the threads
  shown, found, scans, todo, chosen, outcome

Alone == INSTANCE HostSessionReports
  WITH active <- open, wire <- reported, handler <- handling, Sessions <- {1, 2}, Threads <- {t1, t2, t3},
       ThreadSession <- [t \in {t1, t2, t3} |-> IF t = t3 THEN 2 ELSE 1],
       MaxSessions <- 1, MetaScan <- 2, RolloutScan <- 1, PageCap <- 1, WorkerCut <- 1,
       Handlers <- {1}, Ops <- {"refresh"}, MaxWrites <- 3, MaxReports <- 2
Pages == INSTANCE HostSessionReports
  WITH active <- open, wire <- reported, handler <- handling, Sessions <- {1, 2}, Threads <- {t1, t2},
       ThreadSession <- [t \in {t1, t2} |-> IF t = t1 THEN 1 ELSE 2],
       MaxSessions <- 2, MetaScan <- 2, RolloutScan <- 1, PageCap <- 1, WorkerCut <- 1,
       Handlers <- {1, 2}, Ops <- {"refresh", "archive", "create"}, MaxWrites <- 2,
       MaxReports <- 2

\* A session of two threads, and two or one of a thread of its own; official
\* rows, which name no session, beside one of an old session.
Tree == [t \in {root, kid, kid2, other} |-> IF t = kid THEN root ELSE t]
Small == [t \in {root, kid, other} |-> Tree[t]]
Rows == [t \in {root, kid, other} |-> IF t = kid THEN root ELSE None]

Sync == INSTANCE AppServerThreads
  WITH op <- kind, seen <- shown, Threads <- {root, kid, kid2, other}, SessionId <- Tree, Wanted <- root,
       Ops <- {"archive", "unarchive"}, PageSize <- 1, MaxPages <- 2, MaxTouches <- 0
Exact == INSTANCE AppServerThreads
  WITH op <- kind, seen <- shown, Threads <- {root, kid, other}, SessionId <- Rows, Wanted <- root,
       Ops <- {"archive", "unarchive"}, PageSize <- 1, MaxPages <- 1, MaxTouches <- 0
Attach == INSTANCE AppServerThreads
  WITH op <- kind, seen <- shown, Threads <- {root, kid, other}, SessionId <- Small, Wanted <- root,
       Ops <- {"ensure", "command", "create"}, PageSize <- 1, MaxPages <- 2, MaxTouches <- 2

\* The bounds of the instances are what their modules assume of them.
ASSUME MCReportAssumption == Alone!ReportAssumption /\ Pages!ReportAssumption
ASSUME MCThreadAssumption ==
  Sync!ThreadAssumption /\ Exact!ThreadAssumption /\ Attach!ThreadAssumption

reports == <<index, history, rollouts, open, writes, op, local, reported, asked,
             handling, present, created, own>>
threads == <<list, archived, rollout, touches, moved, kind, pc, cursor, pages,
             shown, found, scans, todo, chosen, outcome>>
all == <<subject, vars, reports, threads>>

About(s) == subject = s /\ UNCHANGED subject

\* The threads of those that are not the subject are none.
NoThreads ==
  /\ list = <<>> /\ archived = {} /\ rollout = None /\ touches = 0 /\ moved = FALSE
  /\ kind = "archive" /\ pc = "scan" /\ cursor = 0 /\ pages = 0 /\ shown = {} /\ found = <<>>
  /\ scans = <<>> /\ todo = <<>> /\ chosen = None /\ outcome = "none"

MCInit ==
  /\ subject \in {"answers", "alone", "pages", "sync", "exact", "attach"}
  /\ Init
  /\ IF subject = "pages" THEN Pages!Init ELSE Alone!Init
  /\ CASE subject = "sync" -> Sync!Init [] subject = "exact" -> Exact!Init
       [] subject = "attach" -> Attach!Init [] OTHER -> NoThreads

MCNext ==
  \/ About("answers") /\ Next /\ UNCHANGED <<reports, threads>>
  \/ About("alone") /\ Alone!Next /\ UNCHANGED <<vars, threads>>
  \/ About("pages") /\ Pages!Next /\ UNCHANGED <<vars, threads>>
  \/ About("sync") /\ Sync!Next /\ UNCHANGED <<vars, reports>>
  \/ About("exact") /\ Exact!Next /\ UNCHANGED <<vars, reports>>
  \/ About("attach") /\ Attach!Next /\ UNCHANGED <<vars, reports>>

MCSpec == MCInit /\ [][MCNext]_all
-----------------------------------------------------------------------------
Symmetry == Permutations(Requests)

(* All states have their types.                                             *)
TypesAreCorrect ==
  /\ TypeOK
  /\ IF subject = "pages" THEN Pages!TypeOK ELSE Alone!TypeOK
  /\ CASE subject = "sync" -> Sync!TypeOK [] subject = "exact" -> Exact!TypeOK
       [] subject = "attach" -> Attach!TypeOK [] OTHER -> NoThreads

(* A report that calls itself full, with a successful list, shows as        *)
(* present every session the app-server has, with pages of any size and     *)
(* sessions of any number of threads, so that its silence may be believed;  *)
(* and when one that was not too long has been recorded, exactly the        *)
(* sessions the app-server had are marked present, whatever came before.    *)
FullMeansWhole == Alone!FullIsWhole /\ (subject = "alone" => Alone!FullReportSettles)

(* "Transient app-server list failures or truncated reports do not clear    *)
(* known app-server presence": a row loses it only in the recording of a    *)
(* full report with a successful list, whose app-server had no such session *)
(* (reports recorded one after the other).  And no operation archives or    *)
(* unarchives a thread of another session.                                  *)
NothingElseChanges ==
  [][/\ subject = "alone" => Alone!KeepsPresence
     /\ subject = "sync" => Sync!MeansOnly
     /\ subject = "attach" => Attach!MeansOnly]_all

(* A sync that reports success has left no thread of the session behind,    *)
(* also when an earlier one failed between two threads and however many     *)
(* pages there are, as long as the list was not reordered meanwhile, and    *)
(* "not in the app-server" is said only when it is so.                      *)
SyncIsTrue ==
  /\ subject = "sync" => Sync!SyncedIsWhole /\ Sync!MissingIsTrue
  /\ subject = "exact" => Exact!SyncedIsWhole /\ Exact!MissingIsTrue

(* What is attached is an active thread of the session asked for, however   *)
(* old the rollout that named it, and a command runs on a thread of its     *)
(* session; the scan that finds it ends even if other clients reorder the   *)
(* list all the time.                                                       *)
ThreadFits ==
  subject = "attach" => Attach!AttachedFits /\ Attach!CommandFits /\ Attach!ScanIsBounded
=============================================================================
