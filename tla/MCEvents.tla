------------------------------ MODULE MCEvents ------------------------------
(***************************************************************************)
(* The events of a thread, for TLC: appended and imported at the same time *)
(* (ThreadEvents), and imported from rollouts in directories by day        *)
(* (ByDay) or in one (Walked).  A behaviour is about one of them, named by *)
(* subject, and the others stay in their initial states.                   *)
(***************************************************************************)
EXTENDS ThreadEvents, TLC

CONSTANTS h1, h2, h3, e1, e2, s1, s2

VARIABLES subject, files, history, writes, pc, path, records, truncated, there, thread, told,
          attaches

ByDay == INSTANCE HostSessionBackfill
  WITH events <- records, Sessions <- {s1, s2}, Wanted <- s1, Dated <- TRUE, FileScan <- 1,
       LineScan <- 3, HistoryScan <- 2, Limit <- 2, MaxWrites <- 5, MaxAttaches <- 2
Walked == INSTANCE HostSessionBackfill
  WITH events <- records, Sessions <- {s1, s2}, Wanted <- s1, Dated <- FALSE, FileScan <- 1,
       LineScan <- 2, HistoryScan <- 2, Limit <- 2, MaxWrites <- 4, MaxAttaches <- 2

\* The bounds of the instances are what their modules assume of them.
ASSUME MCImportAssumption == ByDay!BackfillAssumption /\ Walked!BackfillAssumption

import == <<files, history, writes, pc, path, records, truncated, there, thread, told, attaches>>
all == <<subject, vars, import>>

About(s) == subject = s /\ UNCHANGED subject

MCInit == subject \in {"thread", "by day", "walked"} /\ Init /\ ByDay!Init

MCNext ==
  \/ About("thread") /\ Next /\ UNCHANGED import
  \/ About("by day") /\ ByDay!Next /\ UNCHANGED vars
  \/ About("walked") /\ Walked!Next /\ UNCHANGED vars

MCSpec == MCInit /\ [][MCNext]_all
-----------------------------------------------------------------------------
Symmetry == Permutations(Handlers) \cup Permutations(History)

(* All states have their types.                                             *)
TypesAreCorrect ==
  TypeOK /\ IF subject = "walked" THEN Walked!TypeOK ELSE ByDay!TypeOK

(* However often a session is detached, used on the host and attached       *)
(* again, with imports that fail in between: the records of its rollout     *)
(* stand in the thread in the order of the file; an import the browser is   *)
(* told was not truncated leaves every message and call the file held, also *)
(* those an earlier import cut off or failed to store; and what a truncated *)
(* one leaves out is older than all that it brings.                         *)
HistoryIsTold ==
  /\ ByDay!InOrder /\ ByDay!NoSilentGap
  /\ subject = "by day" => ByDay!OldestAreLeftOut
=============================================================================
