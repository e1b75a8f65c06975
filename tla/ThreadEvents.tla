---------------------------- MODULE ThreadEvents ----------------------------
(***************************************************************************)
(* The events of one thread in apps/worker/src/db.ts: an append takes a    *)
(* sequence number in one statement and inserts the event in the next, and *)
(* gives the number back when the insert fails; a backfill of the history  *)
(* of a host session takes numbers from the same counter and inserts with  *)
(* OR IGNORE.  The usage windows are counted afterwards.  Numbers of       *)
(* different threads never meet.  One D1 statement is one step.            *)
(***************************************************************************)
EXTENDS Naturals, FiniteSets

CONSTANTS
    Handlers,  \* handlers that may be in flight at the same time
    History,   \* the events a host session can report, each with a stable id
    MaxSeq,    \* bound on the numbers in use
    MayFail,   \* whether a statement may fail, and a handler be lost
    None

ASSUME ThreadEventsAssumption ==
    MaxSeq \in Nat /\ MayFail \in BOOLEAN /\ None \notin History /\ IsFiniteSet(History)

VARIABLES
    lastSeq,  \* threads.last_seq
    events,   \* the events of the thread
    counted,  \* events_received of a usage window that all of them fall in
    run       \* the frame of every handler

vars == <<lastSeq, events, counted, run>>

-----------------------------------------------------------------------------

OrNone(S) == S \cup {None}

\* An appended event has an id of its own; that of history names the event.
EventRows == [seq : Nat, history : OrNone(History)]
Numbers == {e.seq : e \in events}
Imported == {e.history : e \in events}

Idle == [op |-> "idle"]
AppendFrames == [op : {"append"}, at : {"insert", "rollback", "count"}, seq : Nat]
BackfillFrames ==
    [op : {"backfill"}, at : {"look", "take", "insert", "count"}, seq : Nat,
     event : OrNone(History), asked : SUBSET History, rest : SUBSET History,
     done : Nat, failed : BOOLEAN]
Frames == {Idle} \cup AppendFrames \cup BackfillFrames

TypeOK ==
    /\ lastSeq \in Nat
    /\ events \in SUBSET EventRows
    /\ counted \in Nat
    /\ run \in [Handlers -> Frames]

Init ==
    /\ lastSeq = 0
    /\ events = {}
    /\ counted = 0
    /\ run = [w \in Handlers |-> Idle]

Free(w) == run[w].op = "idle"
End(w) == run' = [run EXCEPT ![w] = Idle]
At(w, op, at) == run[w].op = op /\ run[w].at = at
Goto(w, at) == run' = [run EXCEPT ![w].at = at]

\* UPDATE threads SET last_seq = last_seq + 1 ... RETURNING last_seq
Take == lastSeq < MaxSeq /\ lastSeq' = lastSeq + 1

-----------------------------------------------------------------------------
(* appendEvent                                                             *)

AppendTake(w) ==
    /\ Free(w)
    /\ Take
    /\ run' = [run EXCEPT ![w] = [op |-> "append", at |-> "insert", seq |-> lastSeq + 1]]
    /\ UNCHANGED <<events, counted>>

\* UNIQUE(thread_id, seq) makes the INSERT of a number in use fail.
AppendInsert(w) ==
    /\ At(w, "append", "insert")
    /\ \/ /\ run[w].seq \notin Numbers
          /\ events' = events \cup {[seq |-> run[w].seq, history |-> None]}
          /\ Goto(w, "count")
       \/ /\ run[w].seq \in Numbers \/ MayFail
          /\ Goto(w, "rollback") /\ UNCHANGED events
    /\ UNCHANGED <<lastSeq, counted>>

\* Mutant: the number is given back although others were taken since.
GivesBackAlways(seq) == lastSeq > 0

\* rollbackAppendEventSequenceBestEffort gives the last number back.
GivesBack(seq) == lastSeq = seq

\* Mutant: the roll back is retried although the first try took effect.
RollbackRetried(w) ==
    /\ At(w, "append", "rollback")
    /\ lastSeq' = IF GivesBack(run[w].seq) THEN lastSeq - 2 ELSE lastSeq
    /\ End(w)
    /\ UNCHANGED <<events, counted>>

Rollback(w) ==
    /\ At(w, "append", "rollback")
    /\ \/ lastSeq' = IF GivesBack(run[w].seq) THEN lastSeq - 1 ELSE lastSeq
       \/ MayFail /\ UNCHANGED lastSeq
    /\ End(w)
    /\ UNCHANGED <<events, counted>>

AppendCount(w) ==
    /\ At(w, "append", "count")
    /\ counted' = counted + 1 \/ (MayFail /\ UNCHANGED counted)
    /\ End(w)
    /\ UNCHANGED <<lastSeq, events>>

-----------------------------------------------------------------------------
(* recordHostSessionBackfillEvents                                         *)

BackfillBegin(w, asked) ==
    /\ Free(w)
    /\ run' = [run EXCEPT ![w] =
         [op |-> "backfill", at |-> "look", seq |-> 0, event |-> None, asked |-> asked,
          rest |-> asked, done |-> 0, failed |-> FALSE]]
    /\ UNCHANGED <<lastSeq, events, counted>>

\* The events one after the other; those that exist are left alone.
BackfillLook(w) ==
    /\ At(w, "backfill", "look")
    /\ \/ \E e \in run[w].rest :
             \/ e \in Imported /\ run' = [run EXCEPT ![w].rest = @ \ {e}]
             \/ e \notin Imported /\ run' = [run EXCEPT ![w].at = "take", ![w].event = e]
       \/ run[w].rest = {} /\ Goto(w, "count")
    /\ UNCHANGED <<lastSeq, events, counted>>

BackfillTake(w) ==
    /\ At(w, "backfill", "take")
    /\ Take
    /\ run' = [run EXCEPT ![w].at = "insert", ![w].seq = lastSeq + 1]
    /\ UNCHANGED <<events, counted>>

\* OR IGNORE: nothing happens when the id or the number exists.
BackfillInsert(w) ==
    /\ At(w, "backfill", "insert")
    /\ LET f == run[w]
           next == [f EXCEPT !.at = "look", !.rest = @ \ {f.event}]
       IN  IF f.event \in Imported \/ f.seq \in Numbers
           THEN run' = [run EXCEPT ![w] = next] /\ UNCHANGED events
           ELSE /\ events' = events \cup {[seq |-> f.seq, history |-> f.event]}
                /\ run' = [run EXCEPT ![w] = [next EXCEPT !.done = @ + 1]]
    /\ UNCHANGED <<lastSeq, counted>>

\* A statement of the loop throws: what was imported so far is counted.
BackfillFails(w) ==
    /\ MayFail
    /\ At(w, "backfill", "look") \/ At(w, "backfill", "take") \/ At(w, "backfill", "insert")
    /\ run' = [run EXCEPT ![w].at = "count", ![w].failed = TRUE]
    /\ UNCHANGED <<lastSeq, events, counted>>

\* Mutant: every event of the report is counted, imported or not.
CountOfReport(f) == Cardinality(f.asked)

CountOf(f) == f.done

BackfillCount(w) ==
    /\ At(w, "backfill", "count")
    /\ counted' = counted + CountOf(run[w]) \/ (MayFail /\ UNCHANGED counted)
    /\ End(w)
    /\ UNCHANGED <<lastSeq, events>>

-----------------------------------------------------------------------------

Die(w) ==
    /\ MayFail /\ ~Free(w)
    /\ End(w)
    /\ UNCHANGED <<lastSeq, events, counted>>

Append(w) == AppendTake(w) \/ AppendInsert(w) \/ Rollback(w) \/ AppendCount(w)

Backfill(w) ==
    \/ \E asked \in SUBSET History : BackfillBegin(w, asked)
    \/ BackfillLook(w) \/ BackfillTake(w) \/ BackfillInsert(w)
    \/ BackfillFails(w) \/ BackfillCount(w)

Next == \E w \in Handlers : Append(w) \/ Backfill(w) \/ Die(w)

Spec == Init /\ [][Next]_vars

-----------------------------------------------------------------------------
(* What must hold.                                                         *)

Holds(f) ==
    \/ f.op = "append" /\ f.at \in {"insert", "rollback"}
    \/ f.op = "backfill" /\ f.at = "insert"

\* A number that was taken is taken by one handler only, is not in use and
\* will not be taken again: no roll back of another append, not even of the
\* last number, leads the counter back behind it.  Otherwise every append
\* after that fails on UNIQUE(thread_id, seq), gives its number back and
\* leaves the counter where it was.
NumbersAreFresh ==
    /\ \A n \in Numbers : n <= lastSeq
    /\ \A w \in Handlers :
          Holds(run[w]) =>
             /\ 0 < run[w].seq /\ run[w].seq <= lastSeq
             /\ run[w].seq \notin Numbers
             /\ \A v \in Handlers \ {w} : Holds(run[v]) => run[v].seq # run[w].seq

\* A backfill that ends without an error has left every event it was given in
\* the thread: what OR IGNORE drops is a duplicate, never an event whose
\* number somebody else has used.
ImportIsComplete ==
    \A w \in Handlers :
        (At(w, "backfill", "count") /\ ~run[w].failed) => run[w].asked \subseteq Imported

\* The usage window never counts more events than were stored, and the budget
\* guards that read it never close early.
UsageNeverOvercounts == counted <= Cardinality(events)
=============================================================================
