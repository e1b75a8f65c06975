------------------------ MODULE HostSessionBackfill ------------------------
(***************************************************************************)
(* The history of a host session, imported into its thread when the        *)
(* session is attached: what the connector reads of the files Codex writes *)
(* (crates/agent/src/session_inventory.rs) and what the Worker stores of   *)
(* it (apps/worker/src/db.ts).  Codex writes on while they are read; an    *)
(* import may fail half way; a session may be detached and attached again. *)
(***************************************************************************)
EXTENDS Integers, Sequences, FiniteSets, SequencesExt, FiniteSetsExt

CONSTANTS Sessions, Wanted,  \* the sessions, the one that is attached
          Dated,      \* whether the rollouts lie in directories by day
          FileScan,   \* rollout files looked at
          LineScan,   \* rollout_backfill_line_scan_limit
          HistoryScan,\* metadata_scan_limit
          Limit,      \* events asked for
          MaxWrites,  \* bound on what Codex and its user do
          MaxAttaches \* bound on the attachments

BackfillAssumption ==
  /\ Wanted \in Sessions /\ Dated \in BOOLEAN
  /\ FileScan \in Nat \ {0} /\ LineScan \in Nat \ {0} /\ HistoryScan \in Nat \ {0}
  /\ Limit \in Nat \ {0} /\ MaxWrites \in Nat /\ MaxAttaches \in Nat

VARIABLES
  files,    \* rollouts, in the order they were made
  history,  \* history.jsonl: the prompts of all sessions
  writes,   \* number of the last record, the time of the last write
  pc, path, \* where the attachment stands, the rollout found for it
  events,   \* the records to import, the oldest first
  truncated,
  there,    \* what the file read held for the session (for the properties)
  thread,   \* events of the thread: the source, the rollout and the record
  told,     \* what the browser was told of the last import
  attaches

disk == <<files, history, writes>>
vars == <<disk, pc, path, events, truncated, there, thread, told, attaches>>

Kinds == {"item", "other"}   \* a message or a call; what is not imported
Line == [n : Nat, kind : Kinds, whole : BOOLEAN]
Event == [source : {"rollout", "history"}, file : Nat, n : Nat]

TypeOK ==
  /\ files \in Seq([session : Sessions, day : Nat, mtime : Nat,
                    away : BOOLEAN, lines : Seq(Line)])
  /\ history \in Seq([n : Nat, session : Sessions]) /\ writes \in 0..MaxWrites
  /\ pc \in {"off", "find", "read", "import", "on"}
  /\ path \in 0..Len(files)
  /\ events \in Seq(Event) /\ there \subseteq Event /\ thread \in Seq(Event)
  /\ truncated \in BOOLEAN
  /\ told \in {"none", "complete", "truncated", "error"}
  /\ attaches \in 0..MaxAttaches

Init ==
  /\ files = <<>> /\ history = <<>> /\ writes = 0
  /\ pc = "off" /\ path = 0 /\ events = <<>> /\ truncated = FALSE /\ there = {}
  /\ thread = <<>> /\ told = "none" /\ attaches = 0
-----------------------------------------------------------------------------
(* Codex and its user.  A line is written before the next one; the last may *)
(* be there in part.  A session's rollout is one file.                      *)

Written == writes < MaxWrites /\ writes' = writes + 1
Idle == UNCHANGED <<pc, path, events, truncated, there, thread, told, attaches>>

NewRollout(s, sameDay) ==
  LET last == IF files = <<>> THEN 0 ELSE files[Len(files)].day IN
  /\ Written /\ \A f \in DOMAIN files : files[f].session # s
  /\ files' = Append(files,
       [session |-> s, day |-> IF sameDay THEN last ELSE last + 1,
        mtime |-> writes', away |-> FALSE,
        lines |-> <<[n |-> writes', kind |-> "other", whole |-> TRUE]>>])
  /\ UNCHANGED history /\ Idle

NewLine(f, kind, whole) ==
  /\ Written /\ Last(files[f].lines).whole /\ ~files[f].away
  /\ files' = [files EXCEPT ![f].mtime = writes',
       ![f].lines = Append(@, [n |-> writes', kind |-> kind, whole |-> whole])]

(* A prompt stands in the history as well.                                  *)
Prompt(f, whole) ==
  /\ NewLine(f, "item", whole)
  /\ history' = Append(history, [n |-> writes', session |-> files[f].session])
  /\ Idle

Record(f, kind, whole) == NewLine(f, kind, whole) /\ UNCHANGED history /\ Idle

FinishLine(f) ==
  /\ ~Last(files[f].lines).whole
  /\ files' = [files EXCEPT ![f].lines[Len(files[f].lines)].whole = TRUE]
  /\ UNCHANGED <<history, writes>> /\ Idle

(* Archiving a thread takes its rollout elsewhere, unarchiving brings it    *)
(* back.                                                                    *)
Move(f) ==
  /\ Written /\ files' = [files EXCEPT ![f].away = ~@]
  /\ UNCHANGED history /\ Idle
-----------------------------------------------------------------------------
(* The connector.                                                           *)

There == {f \in DOMAIN files : ~files[f].away}

(* The directories of the newest days, until they hold files enough.        *)
InNewestDays ==
  {f \in There : Cardinality({g \in There : files[g].day > files[f].day}) < FileScan}

(* Without such directories, whatever the walk meets first.                 *)
Listings ==
  IF Dated THEN {InNewestDays}
  ELSE {s \in SUBSET There : Cardinality(s) = Min({FileScan, Cardinality(There)})}

(* Of those, the files modified last.                                       *)
RolloutPaths(listed) ==
  {f \in listed : Cardinality({g \in listed : files[g].mtime > files[f].mtime}) < FileScan}

HasSessionId(f) == files[f].session = Wanted /\ Head(files[f].lines).whole

Attach ==
  /\ pc = "off" /\ attaches < MaxAttaches /\ attaches' = attaches + 1
  /\ pc' = "find" /\ path' = 0 /\ events' = <<>> /\ truncated' = FALSE /\ there' = {}
  /\ told' = "none" /\ UNCHANGED <<disk, thread>>

(* The first that names the session among those modified last, if any.      *)
FindRolloutPath ==
  /\ pc = "find" /\ pc' = "read"
  /\ \E listed \in Listings :
       LET matches == {f \in RolloutPaths(listed) : HasSessionId(f)} IN
       IF matches = {} THEN path' = 0
       ELSE path' = CHOOSE f \in matches : \A g \in matches : files[g].mtime <= files[f].mtime
  /\ UNCHANGED <<disk, events, truncated, there, thread, told, attaches>>

Recent(lines, n) == SubSeq(lines, Max({1, Len(lines) - n + 1}), Len(lines))

\* The elements of s that are in S, in their order.
Only(s, S) ==
  LET kept[i \in 0..Len(s)] ==
        IF i = 0 THEN <<>>
        ELSE IF s[i] \in S THEN Append(kept[i - 1], s[i]) ELSE kept[i - 1]
  IN kept[Len(s)]

(* What cannot be parsed, an unfinished line among it, is passed over.      *)
BackfillLines(lines) == {l \in ToSet(lines) : l.whole /\ l.kind = "item"}

EventsOf(f, lines) ==
  LET mine == Only(lines, BackfillLines(lines))
  IN [i \in DOMAIN mine |-> [source |-> "rollout", file |-> f, n |-> mine[i].n]]

\* Mutant.
CutByEvents(f, all) == Len(all) > Limit

IsTruncated(f, all) ==
  Len(all) > Limit \/ Len(Recent(files[f].lines, LineScan)) = LineScan
LatestEvents(all) == Recent(all, Limit)

ReadRollout ==
  /\ pc = "read" /\ path # 0 /\ path \in There
  /\ LET all == EventsOf(path, Recent(files[path].lines, LineScan)) IN
     /\ events' = LatestEvents(all) /\ truncated' = IsTruncated(path, all)
     /\ there' = ToSet(EventsOf(path, files[path].lines))
  /\ pc' = "import" /\ UNCHANGED <<disk, path, thread, told, attaches>>

ReadFails ==
  /\ pc = "read" /\ path # 0 /\ path \notin There
  /\ pc' = "on" /\ told' = "error"
  /\ UNCHANGED <<disk, path, events, truncated, there, thread, attaches>>

PromptsOf(lines) ==
  LET mine == Only(lines, {p \in ToSet(lines) : p.session = Wanted})
  IN [i \in DOMAIN mine |-> [source |-> "history", file |-> 0, n |-> mine[i].n]]

(* Truncated says nothing of the lines before the last HistoryScan.         *)
ReadHistory ==
  /\ pc = "read" /\ path = 0
  /\ LET all == PromptsOf(Recent(history, HistoryScan)) IN
     /\ events' = LatestEvents(all) /\ truncated' = (Len(all) > Limit)
     /\ there' = ToSet(PromptsOf(history))
  /\ pc' = "import" /\ UNCHANGED <<disk, path, thread, told, attaches>>
-----------------------------------------------------------------------------
(* The Worker.  Detaching and attaching again finds the same thread, and an *)
(* event with the id of a stored one is passed over.                        *)

ImportEvent ==
  /\ pc = "import" /\ events # <<>> /\ events' = Tail(events)
  /\ thread' = IF Contains(thread, Head(events)) THEN thread ELSE Append(thread, Head(events))
  /\ UNCHANGED <<disk, pc, path, truncated, there, told, attaches>>

ImportEnds ==
  /\ pc = "import" /\ events = <<>>
  /\ pc' = "on" /\ told' = IF truncated THEN "truncated" ELSE "complete"
  /\ UNCHANGED <<disk, path, events, truncated, there, thread, attaches>>

(* No answer in time, or a statement that throws: what is stored stays.     *)
ImportFails ==
  /\ pc = "import" /\ pc' = "on" /\ told' = "error"
  /\ UNCHANGED <<disk, path, events, truncated, there, thread, attaches>>

(* While it is attached, attaching again asks for no history.               *)
Detach ==
  /\ pc = "on" /\ pc' = "off"
  /\ UNCHANGED <<disk, path, events, truncated, there, thread, told, attaches>>

Codex ==
  \/ \E s \in Sessions, sameDay \in BOOLEAN : NewRollout(s, sameDay)
  \/ \E f \in DOMAIN files :
       \/ \E whole \in BOOLEAN : Prompt(f, whole) \/ \E k \in Kinds : Record(f, k, whole)
       \/ FinishLine(f)
       \/ Move(f)

Next ==
  \/ Codex
  \/ Attach \/ FindRolloutPath \/ ReadRollout \/ ReadFails \/ ReadHistory
  \/ ImportEvent \/ ImportEnds \/ ImportFails \/ Detach

Spec == Init /\ [][Next]_vars
-----------------------------------------------------------------------------
(* An import the browser is told was not truncated, and which found the     *)
(* session's rollout, leaves in the thread every message and call the file  *)
(* held when it was read: nothing is left out silently, whatever earlier    *)
(* imports cut off or failed to store.                                      *)
NoSilentGap ==
  pc = "on" /\ told = "complete" /\ path # 0 => there \subseteq ToSet(thread)

(* The records of a rollout stand in the thread in the order they stand in  *)
(* the file, however often the session was detached, used on the host and   *)
(* attached again, with imports that failed in between.                     *)
InOrder ==
  \A i, j \in DOMAIN thread :
    i < j /\ thread[i].file # 0 /\ thread[i].file = thread[j].file
      => thread[i].n < thread[j].n

(* An import begins with no hole in front: what a truncated import leaves   *)
(* out of the file is older than all that it brings.                        *)
OldestAreLeftOut ==
  pc = "import" /\ path # 0 =>
    \A e \in there \ (ToSet(events) \cup ToSet(thread)), k \in DOMAIN events : e.n < events[k].n

(* "Repeated attach/backfill attempts do not duplicate history": no record  *)
(* of the session is in its thread twice.  A prompt imported from the       *)
(* history, when no rollout was found, has another id than the same prompt  *)
(* in the rollout.                                                          *)
HistoryIsNotDuplicated ==
  \A i, j \in DOMAIN thread : thread[i].n = thread[j].n => i = j
=============================================================================
