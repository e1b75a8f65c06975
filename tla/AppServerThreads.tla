-------------------------- MODULE AppServerThreads --------------------------
(***************************************************************************)
(* The operations the connector does on an app-server's threads            *)
(* (crates/agent/src/session_inventory.rs): archive and unarchive all of a *)
(* session, attach to a session, find the thread of a command, create a    *)
(* thread.  All but the last read the list of the threads by pages, which  *)
(* is sorted by update time and moves while other clients work.            *)
(***************************************************************************)
EXTENDS Integers, Sequences, FiniteSets, SequencesExt, FiniteSetsExt

CONSTANTS Threads,     \* thread ids
          SessionId,   \* the sessionId of each in the list, or None
          Wanted,      \* the id an operation is for: of a thread or a session
          Ops,         \* operations asked for
          PageSize,    \* APP_SERVER_ARCHIVE_SYNC_LIST_PAGE_SIZE
          MaxPages,    \* APP_SERVER_ARCHIVE_SYNC_MAX_PAGES_PER_STATE
          MaxTouches,  \* bound on what other clients do
          None         \* no session id, no thread

ThreadAssumption ==
  /\ DOMAIN SessionId = Threads /\ None \notin Threads /\ Wanted # None
  /\ IsFiniteSet(Threads)
  /\ Ops \subseteq {"archive", "unarchive", "ensure", "command", "create"}
  /\ PageSize \in Nat \ {0} /\ MaxPages \in Nat \ {0} /\ MaxTouches \in Nat

VARIABLES
  list,     \* the app-server's threads, the last updated first
  archived, \* those archived
  rollout,  \* the thread of the local rollout found for the session
  touches,  \* what other clients did so far
  moved,    \* whether they did anything during this operation
  op, pc,
  cursor,   \* threads of the list the pages so far have passed
  pages,    \* pages read by this scan
  seen,     \* seen_threads
  found,    \* session_thread_ids
  scans,    \* results of the scans that have ended
  todo,     \* threads still to be archived or unarchived
  chosen,   \* the thread to resume, then the thread resumed
  outcome

server == <<list, archived, rollout, touches, moved>>
scan == <<cursor, pages, seen, found>>
vars == <<server, op, pc, scan, scans, todo, chosen, outcome>>

SessionOf(t) == IF SessionId[t] # None THEN SessionId[t] ELSE t
Scan == [kind : {"complete", "exhausted"}, ids : Seq(Threads), exact : BOOLEAN]

TypeOK ==
  /\ list \in Seq(Threads) /\ IsInjective(list) /\ archived \subseteq ToSet(list)
  /\ rollout \in Threads \cup {None} /\ touches \in 0..MaxTouches /\ moved \in BOOLEAN
  /\ op \in Ops
  /\ pc \in {"scan", "resolve", "rollout", "update", "resume", "start", "done"}
  /\ cursor \in Nat /\ pages \in Nat
  /\ seen \subseteq Threads /\ found \in Seq(Threads) /\ IsInjective(found)
  /\ scans \in Seq(Scan) /\ Len(scans) <= 2 /\ todo \in Seq(Threads)
  /\ chosen \in Threads \cup {None}
  /\ outcome \in {"none", "true", "false", "error"}

FirstStep(o) == IF o = "create" THEN "start" ELSE "scan"

Init ==
  /\ list \in UNION {SetToSeqs(s) : s \in SUBSET Threads}
  /\ archived \in SUBSET ToSet(list)
  /\ rollout \in Threads \cup {None}
  /\ touches = 0 /\ moved = FALSE /\ op \in Ops /\ pc = FirstStep(op)
  /\ cursor = 0 /\ pages = 0 /\ seen = {} /\ found = <<>> /\ scans = <<>>
  /\ todo = <<>> /\ chosen = None /\ outcome = "none"

(* A connection of its own, and a protocol initialisation, for each.        *)
Begin(o) ==
  /\ pc = "done" /\ op' = o /\ pc' = FirstStep(o) /\ moved' = FALSE
  /\ cursor' = 0 /\ pages' = 0 /\ seen' = {} /\ found' = <<>> /\ scans' = <<>>
  /\ todo' = <<>> /\ chosen' = None /\ outcome' = "none"
  /\ UNCHANGED <<list, archived, rollout, touches>>

End(says) ==
  /\ pc' = "done" /\ outcome' = says
  /\ UNCHANGED <<op, scan, scans, todo>>
-----------------------------------------------------------------------------
(* The scans.  Archive sync looks among the threads not in the wanted state *)
(* first and then among the others, attaching among the active ones first,  *)
(* a command only among those.                                              *)

\* The elements of s that are in S, in their order.
Only(s, S) ==
  LET kept[i \in 0..Len(s)] ==
        IF i = 0 THEN <<>>
        ELSE IF s[i] \in S THEN Append(kept[i - 1], s[i]) ELSE kept[i - 1]
  IN kept[Len(s)]

Side == (op = "unarchive") # (Len(scans) = 1)
Listed == Only(list, {t \in Threads : (t \in archived) = Side})
Page == SubSeq(Listed, cursor + 1, Min({cursor + PageSize, Len(Listed)}))
HasNext == cursor + PageSize < Len(Listed)

(* A row with this id that does not belong to a session of this id.         *)
Exact == {t \in ToSet(Page) : t = Wanted /\ SessionId[t] # Wanted}
Matched == Only(Page, {t \in Threads : SessionId[t] = Wanted})
AllFound == found \o Only(Matched, Threads \ ToSet(found))

(* The list has ended, or a page shows nothing new.  In a list that moved    *)
(* meanwhile a cursor stands anywhere; a cursor seen before ends the scan.  *)
LastPage == ~HasNext \/ ToSet(Page) \subseteq seen

(* A command may read on until its own deadline.                            *)
BudgetSpent == op # "command" /\ pages + 1 = MaxPages

\* Mutant.
ScanEndsOpen(kind, ids) ==
  /\ scans' = Append(scans, [kind |-> kind, ids |-> ids, exact |-> Exact # {}])
  /\ pc' = "resolve" /\ cursor' = 0 /\ pages' = 0 /\ seen' = {} /\ found' = <<None>>

ScanEnds(kind, ids) ==
  /\ scans' = Append(scans, [kind |-> kind, ids |-> ids, exact |-> Exact # {}])
  /\ pc' = "resolve" /\ cursor' = 0 /\ pages' = 0 /\ seen' = {} /\ found' = <<>>

ReadOn ==
  /\ cursor' \in IF moved THEN 0..(Len(Listed) - 1) ELSE {cursor + PageSize}
  /\ pages' = pages + 1
  /\ seen' = seen \cup ToSet(Page) /\ found' = AllFound
  /\ UNCHANGED <<pc, scans>>

ReadPage ==
  /\ pc = "scan"
  /\ \/ Exact # {} /\ ScanEnds("complete", <<Wanted>>)
     \/ /\ Exact = {}
        /\ \/ op = "command" /\ Matched # <<>> /\ ScanEnds("complete", <<Head(Matched)>>)
           \/ /\ op = "command" => Matched = <<>>
              /\ \/ (LastPage \/ moved) /\ ScanEnds("complete", AllFound)
                 \/ ~LastPage /\ BudgetSpent /\ ScanEnds("exhausted", AllFound)
                 \/ ~LastPage /\ ~BudgetSpent /\ ReadOn
  /\ UNCHANGED <<server, op, todo, chosen, outcome>>
-----------------------------------------------------------------------------
(* What the scans say.                                                      *)

Source == scans[1]
Target == scans[2]
Exhausted == Source.kind = "exhausted"
Found(s) == s.ids # <<>>

Goto(step) == pc' = step /\ UNCHANGED <<op, scan, scans, outcome>>

(* After the scan of the threads that are not in the wanted state.          *)
ResolveSource ==
  /\ pc = "resolve" /\ op \in {"archive", "unarchive"} /\ Len(scans) = 1
  /\ \/ /\ Found(Source) /\ ~Exhausted
        /\ Goto("update") /\ todo' = Source.ids
     \/ Found(Source) /\ Exhausted /\ End("error")
     \/ ~Found(Source) /\ Goto("scan") /\ UNCHANGED todo
  /\ UNCHANGED <<server, chosen>>

\* Mutant.
ResolveTargetEarly ==
  /\ pc = "resolve" /\ op \in {"archive", "unarchive"} /\ Len(scans) = 2
  /\ \/ Found(Target) /\ End("true")
     \/ ~Found(Target) /\ Goto("rollout") /\ UNCHANGED todo
  /\ UNCHANGED <<server, chosen>>

(* After the scan of those that are.                                        *)
ResolveTarget ==
  /\ pc = "resolve" /\ op \in {"archive", "unarchive"} /\ Len(scans) = 2
  /\ \/ Found(Target) /\ ~Exhausted /\ End("true")
     \/ Found(Target) /\ Exhausted /\ Target.exact /\ End("true")
     \/ Found(Target) /\ Exhausted /\ ~Target.exact /\ End("error")
     \/ ~Found(Target) /\ (Exhausted \/ Target.kind = "exhausted") /\ End("error")
     \/ /\ ~Found(Target) /\ ~Exhausted /\ Target.kind = "complete"
        /\ Goto("rollout") /\ UNCHANGED todo
  /\ UNCHANGED <<server, chosen>>

\* Mutant.
ResolveActive ==
  /\ pc = "resolve" /\ op \in {"ensure", "command"}
  /\ LET last == scans[Len(scans)] IN
       \/ /\ Found(last) /\ chosen' = Head(last.ids)
          /\ Goto("resume") /\ UNCHANGED todo
       \/ /\ ~Found(last) /\ UNCHANGED <<todo, chosen>>
          /\ \/ op = "ensure" /\ Len(scans) = 1 /\ Goto("scan")
             \/ (op = "command" \/ Len(scans) = 2) /\ Goto("rollout")
  /\ UNCHANGED server

(* Attaching, and the thread of a command: the first match will do.         *)
ResolveFirst ==
  /\ pc = "resolve" /\ op \in {"ensure", "command"}
  /\ LET last == scans[Len(scans)] IN
       \/ /\ Found(last) /\ chosen' = Head(last.ids)
          /\ \/ Len(scans) = 1 /\ Goto("resume") /\ UNCHANGED todo
             \/ Len(scans) = 2 /\ Goto("update") /\ todo' = <<Head(last.ids)>>
       \/ /\ ~Found(last) /\ UNCHANGED <<todo, chosen>>
          /\ \/ op = "ensure" /\ Len(scans) = 1 /\ Goto("scan")
             \/ (op = "command" \/ Len(scans) = 2) /\ Goto("rollout")
  /\ UNCHANGED server

(* thread/resume by the path of a rollout; archiving moves rollouts out of  *)
(* the directory that is searched.  The app-server loads the thread.        *)
FoundRollout == rollout # None /\ rollout \notin archived

Loaded(t) == list' = IF t \in ToSet(list) THEN list ELSE <<t>> \o list

NoRollout ==
  /\ pc = "rollout" /\ ~FoundRollout
  /\ End(IF op \in {"archive", "unarchive"} THEN "false" ELSE "error")
  /\ UNCHANGED <<server, chosen>>

ResumeRollout ==
  /\ pc = "rollout" /\ FoundRollout /\ Loaded(rollout)
  /\ \/ SessionOf(rollout) # Wanted /\ End("error") /\ UNCHANGED chosen
     \/ /\ SessionOf(rollout) = Wanted /\ chosen' = rollout
        /\ \/ op \in {"ensure", "command"} /\ End("true")
           \/ op \in {"archive", "unarchive"} /\ Goto("update") /\ todo' = <<rollout>>
  /\ UNCHANGED <<archived, rollout, touches, moved>>

(* thread/archive or thread/unarchive, one request for each thread.         *)
Changed(t) == archived' = IF op = "archive" THEN archived \cup {t} ELSE archived \ {t}

Update ==
  /\ pc = "update" /\ todo # <<>>
  /\ Changed(Head(todo)) /\ todo' = Tail(todo)
  /\ UNCHANGED <<list, rollout, touches, moved, op, pc, scan, scans, chosen, outcome>>

UpdateDone ==
  /\ pc = "update" /\ todo = <<>>
  /\ \/ op # "ensure" /\ End("true")
     \/ op = "ensure" /\ Goto("resume") /\ UNCHANGED todo
  /\ UNCHANGED <<server, chosen>>

(* Only attaching looks at the session of a thread it resumes by its id.    *)
Resume ==
  /\ pc = "resume"
  /\ End(IF op = "ensure" /\ SessionOf(chosen) # Wanted THEN "error" ELSE "true")
  /\ UNCHANGED <<server, chosen>>

(* thread/start; setting the name is tried once, whatever comes of it.      *)
Create ==
  /\ pc = "start"
  /\ \E t \in Threads \ ToSet(list) : chosen' = t /\ list' = <<t>> \o list
  /\ End("true")
  /\ UNCHANGED <<archived, rollout, touches, moved>>

(* The deadline, an error response, or the end of the connection: a request *)
(* that changes something may have done it before.                          *)
Fail ==
  /\ pc # "done" /\ End("error") /\ UNCHANGED <<chosen, rollout, touches, moved>>
  /\ \/ UNCHANGED <<list, archived>>
     \/ pc = "update" /\ todo # <<>> /\ Changed(Head(todo)) /\ UNCHANGED list
     \/ pc = "rollout" /\ FoundRollout /\ Loaded(rollout) /\ UNCHANGED archived
     \/ /\ pc = "start" /\ UNCHANGED archived
        /\ \E t \in Threads \ ToSet(list) : list' = <<t>> \o list

(* Another client uses a thread: it becomes the first of the list.          *)
Touch(t) ==
  /\ touches < MaxTouches /\ touches' = touches + 1 /\ moved' = TRUE
  /\ t \in ToSet(list) /\ list' = <<t>> \o Only(list, Threads \ {t})
  /\ UNCHANGED <<archived, rollout, op, pc, scan, scans, todo, chosen, outcome>>

Operation ==
  \/ ReadPage \/ ResolveSource \/ ResolveTarget \/ ResolveFirst
  \/ NoRollout \/ ResumeRollout \/ Update \/ UpdateDone \/ Resume \/ Create

Next ==
  \/ Operation \/ Fail
  \/ \E o \in Ops : Begin(o)
  \/ \E t \in Threads : Touch(t)

Spec == Init /\ [][Next]_vars
-----------------------------------------------------------------------------
(* What an archive sync is about: the thread of this id, or all threads of  *)
(* the session.                                                             *)
Meant ==
  LET exact == {t \in ToSet(list) : t = Wanted /\ SessionId[t] # Wanted} IN
    IF exact # {} THEN exact ELSE {t \in ToSet(list) : SessionId[t] = Wanted}

(* A sync that reports success has left no thread of the session behind,    *)
(* also when an earlier one failed between two threads and however many     *)
(* pages there are, as long as the list was not reordered meanwhile (the    *)
(* test archive_sync_errors_before_partial_session_tree_update_after_       *)
(* page_budget).                                                            *)
SyncedIsWhole ==
  outcome = "true" /\ ~moved /\ op \in {"archive", "unarchive"} =>
    \A t \in Meant : (t \in archived) = (op = "archive")

(* "Not in the app-server" is said only when it is so, never for want of    *)
(* pages.                                                                   *)
MissingIsTrue == outcome = "false" /\ ~moved => Meant = {}

(* What is attached is an active thread of the session asked for, also if   *)
(* it was archived, and however old the rollout that named it.              *)
AttachedFits ==
  outcome = "true" /\ op = "ensure" => SessionOf(chosen) = Wanted /\ chosen \notin archived

(* A command runs on a thread of its session, or on the thread of its id.   *)
CommandFits ==
  outcome = "true" /\ op = "command" => Wanted \in {chosen, SessionOf(chosen)}

MeansOnly ==
  \A t \in Threads : (t \in archived) # (t \in archived') => Wanted \in {t, SessionOf(t)}

(* No operation archives or unarchives a thread of another session.         *)
OnlyMeant == [][MeansOnly]_vars

(* A scan without a page budget ends even if other clients reorder the list *)
(* all the time: every page but the last shows a thread not seen before.    *)
ScanIsBounded == pages <= Cardinality(Threads)
=============================================================================
