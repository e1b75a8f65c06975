------------------------- MODULE ThreadEventsProofs -------------------------
(***************************************************************************)
(* The sequence numbers of ThreadEvents are fresh for every value of its   *)
(* constants, and a backfill that ends without an error is complete.  And  *)
(* what HostSessionProofs proves of the history that is imported, of the   *)
(* instances that the run checks.                                          *)
(***************************************************************************)
EXTENDS MCEvents, TLAPS, FiniteSetTheorems

\* What the loop of a backfill has been through is in the thread.
ImportsSoFar ==
    \A w \in Handlers :
        (run[w].op = "backfill" /\ ~run[w].failed) =>
            /\ run[w].asked \subseteq Imported \cup run[w].rest
            /\ run[w].at = "count" => run[w].rest = {}

IInv == TypeOK /\ NumbersAreFresh /\ ImportsSoFar

LEMMA Typing ==
    ASSUME TypeOK, NEW w \in Handlers
    PROVE  /\ run[w] \in Frames
           /\ run[w].op = "append" => run[w] \in AppendFrames
           /\ run[w].op = "backfill" => run[w] \in BackfillFrames
BY DEF TypeOK, Frames, Idle, AppendFrames, BackfillFrames

\* A look skips an event that exists, goes for the number of one that does not,
\* or finds none left.
Skipped(f, e) == [f EXCEPT !.rest = @ \ {e}]
Sought(f, e) == [f EXCEPT !.at = "take", !.event = e]
Looked(f) == [f EXCEPT !.at = "count"]

LEMMA LookStep ==
    ASSUME NEW w \in Handlers, BackfillLook(w)
    PROVE  \/ \E e \in run[w].rest :
                \/ e \in Imported /\ run' = [run EXCEPT ![w] = Skipped(run[w], e)]
                \/ run' = [run EXCEPT ![w] = Sought(run[w], e)]
           \/ run[w].rest = {} /\ run' = [run EXCEPT ![w] = Looked(run[w])]
<1>1. ASSUME NEW e \in run[w].rest, e \in Imported, run' = [run EXCEPT ![w].rest = @ \ {e}]
      PROVE  run' = [run EXCEPT ![w] = Skipped(run[w], e)]
  BY <1>1 DEF Skipped
<1>2. ASSUME NEW e \in run[w].rest, run' = [run EXCEPT ![w].at = "take", ![w].event = e]
      PROVE  run' = [run EXCEPT ![w] = Sought(run[w], e)]
  BY <1>2 DEF Sought
<1>3. ASSUME Goto(w, "count")
      PROVE  run' = [run EXCEPT ![w] = Looked(run[w])]
  BY <1>3 DEF Goto, Looked
<1> QED
  BY <1>1, <1>2, <1>3 DEF BackfillLook

LEMMA InitIInv == Init => IInv
BY DEF Init, IInv, TypeOK, NumbersAreFresh, ImportsSoFar, Numbers, Holds, Idle, Frames, EventRows

-----------------------------------------------------------------------------

LEMMA TypeStep ==
    ASSUME TypeOK, NumbersAreFresh, NEW w \in Handlers, Append(w) \/ Backfill(w) \/ Die(w)
    PROVE  TypeOK'
<1>i. Idle \in Frames /\ AppendFrames \subseteq Frames /\ BackfillFrames \subseteq Frames
  BY DEF Frames
<1>a. CASE Append(w)
  <2>1. CASE AppendTake(w)
    <3>1. [op |-> "append", at |-> "insert", seq |-> lastSeq + 1] \in Frames
      BY <1>i DEF AppendFrames, TypeOK
    <3> QED
      BY <2>1, <3>1 DEF AppendTake, Take, TypeOK
  <2>2. CASE AppendInsert(w)
    <3>1. run[w] \in AppendFrames
      BY <2>2, Typing DEF AppendInsert, At
    <3>2. \A at \in {"rollback", "count"} : [run[w] EXCEPT !.at = at] \in Frames
      BY <3>1, <1>i DEF AppendFrames
    <3>3. [seq |-> run[w].seq, history |-> None] \in EventRows
      BY <3>1 DEF AppendFrames, EventRows, OrNone
    <3> QED
      BY <2>2, <3>2, <3>3 DEF AppendInsert, Goto, TypeOK
  <2>3. CASE Rollback(w)
    <3>1. lastSeq' \in Nat
      BY <2>3 DEF Rollback, GivesBack, At, Holds, NumbersAreFresh, TypeOK
    <3> QED
      BY <2>3, <3>1, <1>i DEF Rollback, End, TypeOK
  <2>4. CASE AppendCount(w)
    BY <2>4, <1>i DEF AppendCount, End, TypeOK
  <2> QED
    BY <1>a, <2>1, <2>2, <2>3, <2>4 DEF Append
<1>b. CASE Backfill(w)
  <2>1. ASSUME NEW asked \in SUBSET History, BackfillBegin(w, asked) PROVE TypeOK'
    <3> DEFINE f == [op |-> "backfill", at |-> "look", seq |-> 0, event |-> None, asked |-> asked,
                     rest |-> asked, done |-> 0, failed |-> FALSE]
    <3>1. f \in Frames
      BY <1>i DEF BackfillFrames, OrNone
    <3> HIDE DEF f
    <3>2. run' = [run EXCEPT ![w] = f]
      BY <2>1 DEF BackfillBegin, f
    <3> QED
      BY <2>1, <3>1, <3>2 DEF BackfillBegin, TypeOK
  <2>2. CASE BackfillLook(w)
    <3>1. run[w] \in BackfillFrames
      BY <2>2, Typing DEF BackfillLook, At
    <3>2. Looked(run[w]) \in Frames
      BY <3>1, <1>i DEF BackfillFrames, Looked
    <3>3. \A e \in run[w].rest : Skipped(run[w], e) \in Frames
      BY <3>1, <1>i DEF BackfillFrames, Skipped
    <3>4. \A e \in run[w].rest : Sought(run[w], e) \in Frames
      BY <3>1, <1>i DEF BackfillFrames, OrNone, Sought
    <3>5. run' \in [Handlers -> Frames]
      BY <2>2, <3>2, <3>3, <3>4, LookStep DEF TypeOK
    <3> QED
      BY <2>2, <3>5 DEF BackfillLook, TypeOK
  <2>3. CASE BackfillTake(w)
    <3>1. run[w] \in BackfillFrames
      BY <2>3, Typing DEF BackfillTake, At
    <3>2. lastSeq + 1 \in Nat
      BY DEF TypeOK
    <3> DEFINE g == [run[w] EXCEPT !.at = "insert", !.seq = lastSeq + 1]
    <3>3. g \in Frames
      BY <3>1, <3>2, <1>i DEF BackfillFrames
    <3>4. run' = [run EXCEPT ![w] = g]
      BY <2>3 DEF BackfillTake
    <3> HIDE DEF g
    <3> QED
      BY <2>3, <3>2, <3>3, <3>4 DEF BackfillTake, Take, TypeOK
  <2>4. CASE BackfillInsert(w)
    <3> DEFINE f == run[w]
               next == [f EXCEPT !.at = "look", !.rest = @ \ {f.event}]
    <3>1. f \in BackfillFrames
      BY <2>4, Typing DEF BackfillInsert, At
    <3>2. next \in BackfillFrames
      BY <3>1 DEF BackfillFrames
    <3> DEFINE more == [next EXCEPT !.done = @ + 1]
    <3>3. more \in BackfillFrames
      <4> HIDE DEF next
      <4> QED
        BY <3>2 DEF BackfillFrames
    <3>4. [seq |-> f.seq, history |-> f.event] \in EventRows
      BY <3>1 DEF BackfillFrames, EventRows
    <3>5. run' = [run EXCEPT ![w] = next] \/ run' = [run EXCEPT ![w] = more]
      BY <2>4 DEF BackfillInsert
    <3> HIDE DEF next, more
    <3>6. run' \in [Handlers -> Frames]
      BY <3>2, <3>3, <3>5, <1>i DEF TypeOK
    <3>7. events' \in SUBSET EventRows
      BY <2>4, <3>4 DEF BackfillInsert, TypeOK
    <3> QED
      BY <2>4, <3>6, <3>7 DEF BackfillInsert, TypeOK
  <2>5. CASE BackfillFails(w)
    <3>1. run[w] \in BackfillFrames
      BY <2>5, Typing DEF BackfillFails, At
    <3>2. [run[w] EXCEPT !.at = "count", !.failed = TRUE] \in Frames
      BY <3>1, <1>i DEF BackfillFrames
    <3> QED
      BY <2>5, <3>2 DEF BackfillFails, TypeOK
  <2>6. CASE BackfillCount(w)
    <3>1. run[w].done \in Nat
      BY <2>6, Typing DEF BackfillCount, At, BackfillFrames
    <3> QED
      BY <2>6, <3>1, <1>i DEF BackfillCount, CountOf, End, TypeOK
  <2> QED
    BY <1>b, <2>1, <2>2, <2>3, <2>4, <2>5, <2>6 DEF Backfill
<1>c. CASE Die(w)
  BY <1>c, <1>i DEF Die, End, TypeOK
<1> QED
  BY <1>a, <1>b, <1>c

-----------------------------------------------------------------------------
(* The four things a step may do with numbers.                             *)

\* A handler takes the next number, lets go of its own or keeps it, uses it
\* for an event, or gives the last one back.
Takes(g) == Holds(g) /\ g.seq = lastSeq + 1 /\ lastSeq' = lastSeq + 1 /\ events' = events
Keeps(f, g) == /\ ~Holds(g) \/ (Holds(f) /\ g.seq = f.seq)
               /\ lastSeq' = lastSeq /\ events' = events
Uses(f, g) == /\ Holds(f) /\ ~Holds(g) /\ lastSeq' = lastSeq
              /\ \E e \in EventRows : e.seq = f.seq /\ events' = events \cup {e}
Returns(f, g) == /\ Holds(f) /\ ~Holds(g) /\ f.seq = lastSeq
                 /\ lastSeq' = lastSeq - 1 /\ events' = events

LEMMA NumberStep ==
    ASSUME TypeOK, NEW w \in Handlers, Append(w) \/ Backfill(w) \/ Die(w)
    PROVE  \E g : /\ run' = [run EXCEPT ![w] = g]
                  /\ Takes(g) \/ Keeps(run[w], g) \/ Uses(run[w], g) \/ Returns(run[w], g)
<1>i. ~Holds(Idle)
  BY DEF Holds, Idle
<1>a. CASE Append(w)
  <2>1. CASE AppendTake(w)
    <3> DEFINE g == [op |-> "append", at |-> "insert", seq |-> lastSeq + 1]
    <3>1. Holds(g) /\ g.seq = lastSeq + 1
      BY DEF Holds
    <3>2. run' = [run EXCEPT ![w] = g] /\ lastSeq' = lastSeq + 1 /\ events' = events
      BY <2>1 DEF AppendTake, Take
    <3> HIDE DEF g
    <3> QED
      BY <3>1, <3>2 DEF Takes
  <2>2. CASE AppendInsert(w)
    <3>1. run[w] \in AppendFrames /\ Holds(run[w])
      BY <2>2, Typing DEF AppendInsert, At, Holds
    <3>2. [seq |-> run[w].seq, history |-> None] \in EventRows
      BY <3>1 DEF AppendFrames, EventRows, OrNone
    <3>3. CASE run' = [run EXCEPT ![w].at = "count"] /\ run[w].seq \notin Numbers
               /\ events' = events \cup {[seq |-> run[w].seq, history |-> None]}
      <4> DEFINE g == [run[w] EXCEPT !.at = "count"]
      <4>1. ~Holds(g)
        BY <3>1 DEF AppendFrames, Holds
      <4>2. Uses(run[w], g)
        BY <2>2, <3>1, <3>2, <3>3, <4>1 DEF Uses, AppendInsert
      <4> QED
        BY <3>3, <4>2
    <3>4. CASE run' = [run EXCEPT ![w].at = "rollback"] /\ events' = events
      <4> DEFINE g == [run[w] EXCEPT !.at = "rollback"]
      <4>1. g.seq = run[w].seq
        BY <3>1 DEF AppendFrames
      <4>2. Keeps(run[w], g)
        BY <2>2, <3>1, <3>4, <4>1 DEF Keeps, AppendInsert
      <4> QED
        BY <3>4, <4>2
    <3> QED
      BY <2>2, <3>3, <3>4 DEF AppendInsert, Goto
  <2>3. CASE Rollback(w)
    <3>1. Holds(run[w])
      BY <2>3 DEF Rollback, At, Holds
    <3>2. Keeps(run[w], Idle) \/ Returns(run[w], Idle)
      BY <2>3, <3>1, <1>i DEF Rollback, GivesBack, Keeps, Returns
    <3> QED
      BY <2>3, <3>2 DEF Rollback, End
  <2>4. CASE AppendCount(w)
    BY <2>4, <1>i DEF AppendCount, End, Keeps
  <2> QED
    BY <1>a, <2>1, <2>2, <2>3, <2>4 DEF Append
<1>b. CASE Backfill(w)
  <2>1. ASSUME NEW asked \in SUBSET History, BackfillBegin(w, asked)
        PROVE  \E g : run' = [run EXCEPT ![w] = g] /\ Keeps(run[w], g)
    <3> DEFINE g == [op |-> "backfill", at |-> "look", seq |-> 0, event |-> None, asked |-> asked,
                     rest |-> asked, done |-> 0, failed |-> FALSE]
    <3>1. ~Holds(g)
      BY DEF Holds
    <3>2. run' = [run EXCEPT ![w] = g] /\ lastSeq' = lastSeq /\ events' = events
      BY <2>1 DEF BackfillBegin
    <3> HIDE DEF g
    <3> QED
      BY <3>1, <3>2 DEF Keeps
  <2>2. CASE BackfillLook(w)
    <3>1. run[w] \in BackfillFrames /\ run[w].at = "look"
      BY <2>2, Typing DEF BackfillLook, At
    <3>2. ~Holds(Looked(run[w]))
      BY <3>1 DEF BackfillFrames, Holds, Looked
    <3>3. \A e : ~Holds(Skipped(run[w], e)) /\ ~Holds(Sought(run[w], e))
      BY <3>1 DEF BackfillFrames, Holds, Skipped, Sought
    <3>4. lastSeq' = lastSeq /\ events' = events
      BY <2>2 DEF BackfillLook
    <3>5. \E g : run' = [run EXCEPT ![w] = g] /\ ~Holds(g)
      BY <2>2, <3>2, <3>3, LookStep
    <3> QED
      BY <3>4, <3>5 DEF Keeps
  <2>3. CASE BackfillTake(w)
    <3> DEFINE g == [run[w] EXCEPT !.at = "insert", !.seq = lastSeq + 1]
    <3>1. run[w] \in BackfillFrames
      BY <2>3, Typing DEF BackfillTake, At
    <3>2. Holds(g) /\ g.seq = lastSeq + 1
      BY <3>1 DEF BackfillFrames, Holds
    <3>3. run' = [run EXCEPT ![w] = g] /\ lastSeq' = lastSeq + 1 /\ events' = events
      BY <2>3 DEF BackfillTake, Take
    <3> HIDE DEF g
    <3> QED
      BY <3>2, <3>3 DEF Takes
  <2>4. CASE BackfillInsert(w)
    <3> DEFINE f == run[w]
               next == [f EXCEPT !.at = "look", !.rest = @ \ {f.event}]
               more == [next EXCEPT !.done = @ + 1]
    <3>1. f \in BackfillFrames /\ Holds(f)
      BY <2>4, Typing DEF BackfillInsert, At, Holds
    <3>2. ~Holds(next) /\ ~Holds(more)
      BY <3>1 DEF BackfillFrames, Holds
    <3>3. [seq |-> f.seq, history |-> f.event] \in EventRows
      BY <3>1 DEF BackfillFrames, EventRows
    <3>4. \/ run' = [run EXCEPT ![w] = next] /\ events' = events
          \/ /\ run' = [run EXCEPT ![w] = more]
             /\ events' = events \cup {[seq |-> f.seq, history |-> f.event]}
      BY <2>4 DEF BackfillInsert
    <3>5. lastSeq' = lastSeq
      BY <2>4 DEF BackfillInsert
    <3> HIDE DEF next, more
    <3> QED
      BY <3>1, <3>2, <3>3, <3>4, <3>5 DEF Keeps, Uses
  <2>5. CASE BackfillFails(w)
    <3> DEFINE g == [run[w] EXCEPT !.at = "count", !.failed = TRUE]
    <3>1. run[w] \in BackfillFrames
      BY <2>5, Typing DEF BackfillFails, At
    <3>2. ~Holds(g)
      BY <3>1 DEF BackfillFrames, Holds
    <3>3. run' = [run EXCEPT ![w] = g] /\ lastSeq' = lastSeq /\ events' = events
      BY <2>5 DEF BackfillFails
    <3> HIDE DEF g
    <3> QED
      BY <3>2, <3>3 DEF Keeps
  <2>6. CASE BackfillCount(w)
    BY <2>6, <1>i DEF BackfillCount, End, Keeps
  <2> QED
    BY <1>b, <2>1, <2>2, <2>3, <2>4, <2>5, <2>6 DEF Backfill
<1>c. CASE Die(w)
  BY <1>c, <1>i DEF Die, End, Keeps
<1> QED
  BY <1>a, <1>b, <1>c

LEMMA FreshStep ==
    ASSUME TypeOK, TypeOK', NumbersAreFresh,
           NEW w \in Handlers, Append(w) \/ Backfill(w) \/ Die(w)
    PROVE  NumbersAreFresh'
<1>1. PICK g : /\ run' = [run EXCEPT ![w] = g]
               /\ Takes(g) \/ Keeps(run[w], g) \/ Uses(run[w], g) \/ Returns(run[w], g)
  BY NumberStep
<1>2. run'[w] = g /\ \A v \in Handlers \ {w} : run'[v] = run[v]
  BY <1>1 DEF TypeOK
<1>3. Numbers \subseteq Nat /\ lastSeq \in Nat
  BY DEF TypeOK, Numbers, EventRows
<1>4. \A v \in Handlers : Holds(run[v]) => run[v].seq \in Nat
  BY Typing DEF Holds, AppendFrames, BackfillFrames
<1>5. CASE Takes(g)
  <2>1. Numbers' = Numbers
    BY <1>5 DEF Takes, Numbers
  <2> QED
    BY <1>2, <1>3, <1>4, <1>5, <2>1 DEF Takes, NumbersAreFresh
<1>6. CASE Keeps(run[w], g)
  <2>1. Numbers' = Numbers
    BY <1>6 DEF Keeps, Numbers
  <2> QED
    BY <1>2, <1>3, <1>4, <1>6, <2>1 DEF Keeps, NumbersAreFresh
<1>7. CASE Uses(run[w], g)
  <2>1. Numbers' = Numbers \cup {run[w].seq}
    BY <1>7 DEF Uses, Numbers
  <2> QED
    BY <1>2, <1>3, <1>4, <1>7, <2>1 DEF Uses, NumbersAreFresh
<1>8. CASE Returns(run[w], g)
  <2>1. Numbers' = Numbers
    BY <1>8 DEF Returns, Numbers
  <2> QED
    BY <1>2, <1>3, <1>4, <1>8, <2>1 DEF Returns, NumbersAreFresh
<1> QED
  BY <1>1, <1>5, <1>6, <1>7, <1>8

-----------------------------------------------------------------------------
(* The loop of a backfill.                                                 *)

FrameImports(f) ==
    (f.op = "backfill" /\ ~f.failed) =>
        /\ f.asked \subseteq Imported \cup f.rest
        /\ f.at = "count" => f.rest = {}

LEMMA ImportStep ==
    ASSUME IInv, NEW w \in Handlers, Append(w) \/ Backfill(w) \/ Die(w)
    PROVE  ImportsSoFar'
<1>t. TypeOK /\ NumbersAreFresh
  BY DEF IInv
<1>m. Imported \subseteq Imported'
  <2>1. events \subseteq events'
    BY DEF Append, AppendTake, AppendInsert, Rollback, AppendCount, Backfill, BackfillBegin,
           BackfillLook, BackfillTake, BackfillInsert, BackfillFails, BackfillCount, Die
  <2> QED
    BY <2>1 DEF Imported
<1>f. FrameImports(run[w])
  BY DEF IInv, ImportsSoFar, FrameImports
<1>1. ASSUME NEW g, run' = [run EXCEPT ![w] = g],
             (g.op = "backfill" /\ ~g.failed) =>
                 /\ g.asked \subseteq Imported' \cup g.rest
                 /\ g.at = "count" => g.rest = {}
      PROVE  ImportsSoFar'
  <2>1. run'[w] = g /\ \A v \in Handlers \ {w} : run'[v] = run[v]
    BY <1>1, <1>t DEF TypeOK
  <2> QED
    BY <1>1, <1>m, <2>1 DEF IInv, ImportsSoFar
<1>i. Idle.op = "idle"
  BY DEF Idle
<1>a. CASE Append(w)
  <2>1. CASE AppendTake(w)
    <3> DEFINE g == [op |-> "append", at |-> "insert", seq |-> lastSeq + 1]
    <3>1. run' = [run EXCEPT ![w] = g] /\ g.op # "backfill"
      BY <2>1 DEF AppendTake
    <3> QED
      BY <1>1, <3>1
  <2>2. CASE AppendInsert(w)
    <3>1. run[w] \in AppendFrames
      BY <2>2, Typing, <1>t DEF AppendInsert, At
    <3>2. \A at : [run[w] EXCEPT !.at = at].op # "backfill"
      BY <3>1 DEF AppendFrames
    <3>3. PICK at : run' = [run EXCEPT ![w] = [run[w] EXCEPT !.at = at]]
      BY <2>2 DEF AppendInsert, Goto
    <3> QED
      BY <1>1, <3>2, <3>3
  <2>3. CASE Rollback(w) \/ AppendCount(w)
    BY <1>1, <1>i, <2>3 DEF Rollback, AppendCount, End
  <2> QED
    BY <1>a, <2>1, <2>2, <2>3 DEF Append
<1>b. CASE Backfill(w)
  <2>1. ASSUME NEW asked \in SUBSET History, BackfillBegin(w, asked) PROVE ImportsSoFar'
    <3> DEFINE g == [op |-> "backfill", at |-> "look", seq |-> 0, event |-> None, asked |-> asked,
                     rest |-> asked, done |-> 0, failed |-> FALSE]
    <3>1. g.rest = g.asked /\ g.at # "count"
      OBVIOUS
    <3>2. run' = [run EXCEPT ![w] = g]
      BY <2>1 DEF BackfillBegin
    <3> HIDE DEF g
    <3> QED
      BY <1>1, <3>1, <3>2
  <2>2. CASE BackfillLook(w)
    <3>1. run[w] \in BackfillFrames /\ run[w].at = "look"
      BY <2>2, Typing, <1>t DEF BackfillLook, At
    <3>2. ASSUME run[w].rest = {}, run' = [run EXCEPT ![w] = Looked(run[w])]
          PROVE  ImportsSoFar'
      <4> DEFINE g == Looked(run[w])
      <4>1. g.asked = run[w].asked /\ g.rest = run[w].rest /\ g.failed = run[w].failed
            /\ g.op = run[w].op
        BY <3>1 DEF BackfillFrames, Looked
      <4>2. run' = [run EXCEPT ![w] = g]
        BY <3>2
      <4> HIDE DEF g
      <4> QED
        BY <1>1, <1>f, <1>m, <3>2, <4>1, <4>2 DEF FrameImports
    <3>3. ASSUME NEW e \in run[w].rest, e \in Imported,
                 run' = [run EXCEPT ![w] = Skipped(run[w], e)]
          PROVE  ImportsSoFar'
      <4> DEFINE g == Skipped(run[w], e)
      <4>1. g.asked = run[w].asked /\ g.rest = run[w].rest \ {e} /\ g.failed = run[w].failed
            /\ g.op = run[w].op /\ g.at # "count"
        BY <3>1 DEF BackfillFrames, Skipped
      <4>2. run' = [run EXCEPT ![w] = g]
        BY <3>3
      <4> HIDE DEF g
      <4> QED
        BY <1>1, <1>f, <1>m, <3>3, <4>1, <4>2 DEF FrameImports
    <3>4. ASSUME NEW e \in run[w].rest, run' = [run EXCEPT ![w] = Sought(run[w], e)]
          PROVE  ImportsSoFar'
      <4> DEFINE g == Sought(run[w], e)
      <4>1. g.asked = run[w].asked /\ g.rest = run[w].rest /\ g.failed = run[w].failed
            /\ g.op = run[w].op /\ g.at # "count"
        BY <3>1 DEF BackfillFrames, Sought
      <4>2. run' = [run EXCEPT ![w] = g]
        BY <3>4
      <4> HIDE DEF g
      <4> QED
        BY <1>1, <1>f, <1>m, <3>4, <4>1, <4>2 DEF FrameImports
    <3> QED
      BY <2>2, <3>2, <3>3, <3>4, LookStep
  <2>3. CASE BackfillTake(w)
    <3> DEFINE g == [run[w] EXCEPT !.at = "insert", !.seq = lastSeq + 1]
    <3>1. run[w] \in BackfillFrames
      BY <2>3, Typing, <1>t DEF BackfillTake, At
    <3>2. g.asked = run[w].asked /\ g.rest = run[w].rest /\ g.failed = run[w].failed
          /\ g.op = run[w].op /\ g.at # "count"
      BY <3>1 DEF BackfillFrames
    <3>3. run' = [run EXCEPT ![w] = g]
      BY <2>3 DEF BackfillTake
    <3> HIDE DEF g
    <3> QED
      BY <1>1, <1>f, <1>m, <3>2, <3>3 DEF FrameImports
  <2>4. CASE BackfillInsert(w)
    <3> DEFINE f == run[w]
               next == [f EXCEPT !.at = "look", !.rest = @ \ {f.event}]
               more == [next EXCEPT !.done = @ + 1]
    <3>1. f \in BackfillFrames /\ Holds(f)
      BY <2>4, Typing, <1>t DEF BackfillInsert, At, Holds
    <3>2. f.seq \notin Numbers
      BY <3>1, <1>t DEF NumbersAreFresh
    <3>3. f.event \in Imported'
      <4>1. CASE f.event \in Imported
        BY <4>1, <1>m
      <4>2. CASE f.event \notin Imported
        <5> DEFINE e == [seq |-> f.seq, history |-> f.event]
        <5>1. e \in events'
          BY <2>4, <3>2, <4>2 DEF BackfillInsert
        <5>2. e.history = f.event
          OBVIOUS
        <5> HIDE DEF e
        <5> QED
          BY <5>1, <5>2 DEF Imported
      <4> QED
        BY <4>1, <4>2
    <3>4. /\ next.asked = f.asked /\ next.rest = f.rest \ {f.event} /\ next.failed = f.failed
          /\ next.op = f.op /\ next.at # "count"
      BY <3>1 DEF BackfillFrames
    <3>5. /\ more.asked = f.asked /\ more.rest = f.rest \ {f.event} /\ more.failed = f.failed
          /\ more.op = f.op /\ more.at # "count"
      BY <3>1 DEF BackfillFrames
    <3>6. run' = [run EXCEPT ![w] = next] \/ run' = [run EXCEPT ![w] = more]
      BY <2>4 DEF BackfillInsert
    <3> HIDE DEF next, more
    <3>7. (f.op = "backfill" /\ ~f.failed) => f.asked \subseteq Imported' \cup (f.rest \ {f.event})
      BY <1>f, <1>m, <3>3 DEF FrameImports
    <3>8. CASE run' = [run EXCEPT ![w] = next]
      BY <1>1, <3>4, <3>7, <3>8
    <3>9. CASE run' = [run EXCEPT ![w] = more]
      BY <1>1, <3>5, <3>7, <3>9
    <3> QED
      BY <3>6, <3>8, <3>9
  <2>5. CASE BackfillFails(w)
    <3> DEFINE g == [run[w] EXCEPT !.at = "count", !.failed = TRUE]
    <3>1. run[w] \in BackfillFrames
      BY <2>5, Typing, <1>t DEF BackfillFails, At
    <3>2. g.failed = TRUE
      BY <3>1 DEF BackfillFrames
    <3>3. run' = [run EXCEPT ![w] = g]
      BY <2>5 DEF BackfillFails
    <3> HIDE DEF g
    <3> QED
      BY <1>1, <3>2, <3>3
  <2>6. CASE BackfillCount(w)
    BY <1>1, <1>i, <2>6 DEF BackfillCount, End
  <2> QED
    BY <1>b, <2>1, <2>2, <2>3, <2>4, <2>5, <2>6 DEF Backfill
<1>c. CASE Die(w)
  BY <1>1, <1>i, <1>c DEF Die, End
<1> QED
  BY <1>a, <1>b, <1>c

-----------------------------------------------------------------------------

LEMMA Inductive == IInv /\ [Next]_vars => IInv'
<1> SUFFICES ASSUME IInv, [Next]_vars PROVE IInv'
  OBVIOUS
<1>1. ASSUME NEW w \in Handlers, Append(w) \/ Backfill(w) \/ Die(w)
      PROVE  IInv'
  <2>1. TypeOK'
    BY <1>1, TypeStep DEF IInv
  <2>2. NumbersAreFresh'
    BY <1>1, <2>1, FreshStep DEF IInv
  <2>3. ImportsSoFar'
    BY <1>1, ImportStep
  <2> QED
    BY <2>1, <2>2, <2>3 DEF IInv
<1>2. CASE UNCHANGED vars
  BY <1>2 DEF vars, IInv, TypeOK, NumbersAreFresh, ImportsSoFar, Numbers, Imported, Holds
<1> QED
  BY <1>1, <1>2 DEF Next

\* Types, fresh numbers and complete imports together are kept by every
\* statement of appendEvent and of the backfill.
THEOREM Invariant == Spec => []IInv
BY InitIInv, Inductive, PTL DEF Spec

\* A sequence number handed out by last_seq + 1 is never met again, although
\* appends give numbers back.
THEOREM NumbersStayFresh == Spec => []NumbersAreFresh
<1>1. IInv => NumbersAreFresh
  BY DEF IInv
<1> QED
  BY <1>1, Invariant, PTL

\* OR IGNORE drops only events that are in the thread already.
THEOREM ImportsComplete == Spec => []ImportIsComplete
<1>1. IInv => ImportIsComplete
  BY DEF IInv, ImportsSoFar, ImportIsComplete, At
<1> QED
  BY <1>1, Invariant, PTL

-----------------------------------------------------------------------------
(* The usage window.                                                       *)

\* The events a handler has stored and not yet counted.
Owed(f) ==
    CASE f.op = "append" -> IF f.at = "count" THEN 1 ELSE 0
      [] f.op = "backfill" -> f.done
      [] OTHER -> 0

\* Every unit of the window stands for an event of its own, and so does every
\* unit that a handler is about to add.
Accounts(C, own) ==
    /\ C \in SUBSET events /\ Cardinality(C) = counted
    /\ own \in [Handlers -> SUBSET events]
    /\ \A w \in Handlers : Cardinality(own[w]) = Owed(run[w]) /\ own[w] \cap C = {}
    /\ \A v, w \in Handlers : v # w => own[v] \cap own[w] = {}

Accounted == \E C, own : Accounts(C, own)

UsageInv == IInv /\ IsFiniteSet(events) /\ Accounted

\* A handler goes on, or is lost, without storing or counting.
LEMMA AccountsStay ==
    ASSUME TypeOK, Accounted, NEW w \in Handlers, NEW g, run' = [run EXCEPT ![w] = g],
           events' = events, counted' = counted, Owed(g) \in {0, Owed(run[w])}
    PROVE  Accounted'
<1>1. PICK C, own : Accounts(C, own)
  BY DEF Accounted
<1> DEFINE new == [own EXCEPT ![w] = IF Owed(g) = 0 THEN {} ELSE own[w]]
<1>2. \A v \in Handlers : run'[v] = IF v = w THEN g ELSE run[v]
  BY DEF TypeOK
<1>3. new \in [Handlers -> SUBSET events] /\ \A v \in Handlers : new[v] \subseteq own[v]
  BY <1>1 DEF Accounts
<1>4. \A v \in Handlers : v # w => new[v] = own[v]
  BY <1>1 DEF Accounts
<1>5. Cardinality(new[w]) = Owed(g)
  <2>1. new[w] = IF Owed(g) = 0 THEN {} ELSE own[w]
    BY <1>1 DEF Accounts
  <2> HIDE DEF new
  <2> QED
    BY <1>1, <2>1, FS_EmptySet DEF Accounts
<1> HIDE DEF new
<1>6. \A v \in Handlers : Cardinality(new[v]) = Owed(run'[v]) /\ new[v] \cap C = {}
  BY <1>1, <1>2, <1>3, <1>4, <1>5 DEF Accounts
<1>7. \A u, v \in Handlers : u # v => new[u] \cap new[v] = {}
  <2> SUFFICES ASSUME NEW u \in Handlers, NEW v \in Handlers, u # v PROVE new[u] \cap new[v] = {}
    OBVIOUS
  <2>1. own[u] \cap own[v] = {}
    BY <1>1 DEF Accounts
  <2> QED
    BY <1>3, <2>1
<1>8. C \in SUBSET events' /\ Cardinality(C) = counted' /\ new \in [Handlers -> SUBSET events']
  BY <1>1, <1>3 DEF Accounts
<1> QED
  BY <1>6, <1>7, <1>8 DEF Accounted, Accounts

\* A handler stores an event: one more that it will count.
LEMMA AccountsGrow ==
    ASSUME TypeOK, Accounted, IsFiniteSet(events), NEW w \in Handlers, NEW g,
           run' = [run EXCEPT ![w] = g], NEW e, e \notin events, events' = events \cup {e},
           counted' = counted, Owed(g) = Owed(run[w]) + 1
    PROVE  Accounted' /\ IsFiniteSet(events')
<1>1. PICK C, own : Accounts(C, own)
  BY DEF Accounted
<1> DEFINE new == [own EXCEPT ![w] = own[w] \cup {e}]
<1>2. \A v \in Handlers : run'[v] = IF v = w THEN g ELSE run[v]
  BY DEF TypeOK
<1>3. new \in [Handlers -> SUBSET events'] /\ C \in SUBSET events' /\ e \notin C
  BY <1>1 DEF Accounts
<1>4. new[w] = own[w] \cup {e} /\ \A v \in Handlers : v # w => new[v] = own[v]
  BY <1>1 DEF Accounts
<1> HIDE DEF new
<1>5. \A v \in Handlers : own[v] \subseteq events /\ IsFiniteSet(own[v])
  BY <1>1, FS_Subset DEF Accounts
<1>6. Cardinality(new[w]) = Owed(g)
  <2>1. e \notin own[w] /\ Cardinality(own[w]) = Owed(run[w])
    BY <1>1, <1>5 DEF Accounts
  <2> QED
    BY <1>4, <1>5, <2>1, FS_AddElement
<1>7. \A v \in Handlers : Cardinality(new[v]) = Owed(run'[v]) /\ new[v] \cap C = {}
  <2> TAKE v \in Handlers
  <2>1. Cardinality(own[v]) = Owed(run[v]) /\ own[v] \cap C = {}
    BY <1>1 DEF Accounts
  <2>2. CASE v = w
    BY <1>2, <1>3, <1>4, <1>6, <2>1, <2>2
  <2>3. CASE v # w
    BY <1>2, <1>4, <2>1, <2>3
  <2> QED
    BY <2>2, <2>3
<1>8. \A u, v \in Handlers : u # v => new[u] \cap new[v] = {}
  <2> SUFFICES ASSUME NEW u \in Handlers, NEW v \in Handlers, u # v PROVE new[u] \cap new[v] = {}
    OBVIOUS
  <2>1. own[u] \cap own[v] = {} /\ e \notin own[u] /\ e \notin own[v]
    BY <1>1, <1>5 DEF Accounts
  <2> QED
    BY <1>4, <2>1
<1>9. Cardinality(C) = counted'
  BY <1>1 DEF Accounts
<1> QED
  BY <1>3, <1>7, <1>8, <1>9, FS_AddElement DEF Accounted, Accounts

\* A handler counts what it has stored, and ends.
LEMMA AccountsSettle ==
    ASSUME TypeOK, Accounted, IsFiniteSet(events), NEW w \in Handlers, NEW g,
           run' = [run EXCEPT ![w] = g], events' = events,
           counted' = counted + Owed(run[w]), Owed(g) = 0
    PROVE  Accounted'
<1>1. PICK C, own : Accounts(C, own)
  BY DEF Accounted
<1> DEFINE new == [own EXCEPT ![w] = {}]
           D == C \cup own[w]
<1>2. \A v \in Handlers : run'[v] = IF v = w THEN g ELSE run[v]
  BY DEF TypeOK
<1>3. new \in [Handlers -> SUBSET events'] /\ D \in SUBSET events'
  BY <1>1 DEF Accounts
<1>4. new[w] = {} /\ \A v \in Handlers : v # w => new[v] = own[v]
  BY <1>1 DEF Accounts
<1>5. Cardinality(D) = counted'
  <2>1. IsFiniteSet(C) /\ IsFiniteSet(own[w]) /\ C \cap own[w] = {}
    BY <1>1, FS_Subset DEF Accounts
  <2>2. Cardinality(D) = Cardinality(C) + Cardinality(own[w]) - Cardinality(C \cap own[w])
    BY <2>1, FS_Union
  <2>3. Cardinality(C \cap own[w]) = 0
    BY <2>1, FS_EmptySet
  <2>4. Cardinality(C) \in Nat /\ Cardinality(own[w]) \in Nat
    BY <2>1, FS_CardinalityType
  <2> QED
    BY <1>1, <2>2, <2>3, <2>4 DEF Accounts
<1>6. \A v \in Handlers : Cardinality(new[v]) = Owed(run'[v])
  <2>1. Cardinality(new[w]) = 0
    BY <1>4, FS_EmptySet
  <2> QED
    BY <1>1, <1>2, <1>4, <2>1 DEF Accounts
<1> HIDE DEF new
<1>7. \A v \in Handlers : new[v] \cap D = {}
  <2> SUFFICES ASSUME NEW v \in Handlers PROVE new[v] \cap D = {}
    OBVIOUS
  <2>1. v # w => own[v] \cap C = {} /\ own[v] \cap own[w] = {}
    BY <1>1 DEF Accounts
  <2> QED
    BY <1>4, <2>1
<1>8. \A u, v \in Handlers : u # v => new[u] \cap new[v] = {}
  BY <1>1, <1>4 DEF Accounts
<1> HIDE DEF D
<1> QED
  BY <1>3, <1>5, <1>6, <1>7, <1>8 DEF Accounted, Accounts

LEMMA UsageStep ==
    ASSUME IInv, IsFiniteSet(events), Accounted, NEW w \in Handlers,
           Append(w) \/ Backfill(w) \/ Die(w)
    PROVE  IsFiniteSet(events') /\ Accounted'
<1> DEFINE f == run[w]
<1>t. TypeOK
  BY DEF IInv
<1>f. /\ f.op = "append" => f \in AppendFrames
      /\ f.op = "backfill" => f \in BackfillFrames
  BY <1>t, Typing
<1>i. Owed(Idle) = 0
  BY DEF Idle, Owed
<1>q. ASSUME NEW g, run' = [run EXCEPT ![w] = g], events' = events, counted' = counted,
             Owed(g) \in {0, Owed(f)}
      PROVE  IsFiniteSet(events') /\ Accounted'
  BY <1>q, <1>t, AccountsStay
<1>1. CASE AppendTake(w)
  <2> DEFINE g == [op |-> "append", at |-> "insert", seq |-> lastSeq + 1]
  <2>1. Owed(g) = 0 /\ run' = [run EXCEPT ![w] = g] /\ events' = events /\ counted' = counted
    BY <1>1 DEF AppendTake, Owed
  <2> HIDE DEF g
  <2> QED
    BY <1>q, <2>1
<1>2. CASE AppendInsert(w)
  <2>1. f \in AppendFrames /\ f.op = "append" /\ f.at = "insert" /\ counted' = counted
    BY <1>2, <1>f DEF AppendInsert, At
  <2>2. Owed(f) = 0
    BY <2>1 DEF Owed
  <2>3. CASE events' = events /\ run' = [run EXCEPT ![w] = [f EXCEPT !.at = "rollback"]]
    <3>1. Owed([f EXCEPT !.at = "rollback"]) = 0
      BY <2>1 DEF Owed, AppendFrames
    <3> QED
      BY <1>q, <2>1, <2>3, <3>1
  <2>4. CASE /\ f.seq \notin Numbers /\ events' = events \cup {[seq |-> f.seq, history |-> None]}
             /\ run' = [run EXCEPT ![w] = [f EXCEPT !.at = "count"]]
    <3> DEFINE e == [seq |-> f.seq, history |-> None]
               g == [f EXCEPT !.at = "count"]
    <3>1. e \notin events
      BY <2>4 DEF Numbers
    <3>2. Owed(g) = Owed(f) + 1
      BY <2>1, <2>2 DEF Owed, AppendFrames
    <3> HIDE DEF e, g
    <3> QED
      BY <1>t, <2>1, <2>4, <3>1, <3>2, AccountsGrow DEF e, g
  <2> QED
    BY <1>2, <2>3, <2>4 DEF AppendInsert, Goto
<1>3. CASE Rollback(w) \/ Die(w)
  <2>1. run' = [run EXCEPT ![w] = Idle] /\ events' = events /\ counted' = counted
    BY <1>3 DEF Rollback, Die, End
  <2> QED
    BY <1>i, <1>q, <2>1
<1>4. CASE AppendCount(w) \/ BackfillCount(w)
  <2>1. run' = [run EXCEPT ![w] = Idle] /\ events' = events
    BY <1>4 DEF AppendCount, BackfillCount, End
  <2>2. counted' = counted \/ counted' = counted + Owed(f)
    BY <1>4 DEF AppendCount, BackfillCount, At, Owed, CountOf
  <2>3. CASE counted' = counted
    BY <1>i, <1>q, <2>1, <2>3
  <2>4. CASE counted' = counted + Owed(f)
    BY <1>i, <1>t, <2>1, <2>4, AccountsSettle
  <2> QED
    BY <2>2, <2>3, <2>4
<1>5. ASSUME NEW asked \in SUBSET History, BackfillBegin(w, asked)
      PROVE  IsFiniteSet(events') /\ Accounted'
  <2> DEFINE g == [op |-> "backfill", at |-> "look", seq |-> 0, event |-> None, asked |-> asked,
                   rest |-> asked, done |-> 0, failed |-> FALSE]
  <2>1. Owed(g) = 0 /\ run' = [run EXCEPT ![w] = g] /\ events' = events /\ counted' = counted
    BY <1>5 DEF BackfillBegin, Owed
  <2> HIDE DEF g
  <2> QED
    BY <1>q, <2>1
<1>6. CASE BackfillLook(w)
  <2>1. f \in BackfillFrames /\ events' = events /\ counted' = counted
    BY <1>6, <1>f DEF BackfillLook, At
  <2>2. /\ Owed(Looked(f)) = Owed(f)
        /\ \A e : Owed(Skipped(f, e)) = Owed(f) /\ Owed(Sought(f, e)) = Owed(f)
    BY <2>1 DEF Owed, Looked, Skipped, Sought, BackfillFrames
  <2>3. CASE run' = [run EXCEPT ![w] = Looked(f)]
    BY <1>q, <2>1, <2>2, <2>3
  <2>4. ASSUME NEW e, \/ run' = [run EXCEPT ![w] = Skipped(f, e)]
                      \/ run' = [run EXCEPT ![w] = Sought(f, e)]
        PROVE  IsFiniteSet(events') /\ Accounted'
    BY <1>q, <2>1, <2>2, <2>4
  <2> QED
    BY <1>6, <2>3, <2>4, LookStep
<1>7. CASE BackfillTake(w)
  <2> DEFINE g == [f EXCEPT !.at = "insert", !.seq = lastSeq + 1]
  <2>1. run' = [run EXCEPT ![w] = g] /\ events' = events /\ counted' = counted
    BY <1>7 DEF BackfillTake
  <2>2. Owed(g) = Owed(f)
    BY <1>7, <1>f DEF BackfillTake, At, Owed, BackfillFrames
  <2> HIDE DEF g
  <2> QED
    BY <1>q, <2>1, <2>2
<1>8. CASE BackfillInsert(w)
  <2> DEFINE next == [f EXCEPT !.at = "look", !.rest = @ \ {f.event}]
             more == [next EXCEPT !.done = @ + 1]
             e == [seq |-> f.seq, history |-> f.event]
  <2>1. f \in BackfillFrames /\ f.op = "backfill" /\ counted' = counted
    BY <1>8, <1>f DEF BackfillInsert, At
  <2>2. next \in BackfillFrames /\ next.op = "backfill" /\ next.done = f.done
    BY <2>1 DEF BackfillFrames
  <2>3. \/ run' = [run EXCEPT ![w] = next] /\ events' = events
        \/ f.seq \notin Numbers /\ events' = events \cup {e} /\ run' = [run EXCEPT ![w] = more]
    BY <1>8 DEF BackfillInsert
  <2> HIDE DEF next
  <2>4. Owed(next) = Owed(f)
    BY <2>1, <2>2 DEF Owed
  <2>5. Owed(more) = Owed(f) + 1
    BY <2>1, <2>2 DEF Owed, BackfillFrames
  <2>6. f.seq \notin Numbers => e \notin events
    BY DEF Numbers
  <2> HIDE DEF more, e
  <2>7. CASE run' = [run EXCEPT ![w] = next] /\ events' = events
    BY <1>q, <2>1, <2>4, <2>7
  <2>8. CASE f.seq \notin Numbers /\ events' = events \cup {e} /\ run' = [run EXCEPT ![w] = more]
    BY <1>t, <2>1, <2>5, <2>6, <2>8, AccountsGrow
  <2> QED
    BY <2>3, <2>7, <2>8
<1>9. CASE BackfillFails(w)
  <2> DEFINE g == [f EXCEPT !.at = "count", !.failed = TRUE]
  <2>1. run' = [run EXCEPT ![w] = g] /\ events' = events /\ counted' = counted
    BY <1>9 DEF BackfillFails
  <2>2. Owed(g) = Owed(f)
    BY <1>9, <1>f DEF BackfillFails, At, Owed, BackfillFrames
  <2> HIDE DEF g
  <2> QED
    BY <1>q, <2>1, <2>2
<1> QED
  BY <1>1, <1>2, <1>3, <1>4, <1>5, <1>6, <1>7, <1>8, <1>9 DEF Append, Backfill

LEMMA UsageInit == Init => UsageInv
<1> SUFFICES ASSUME Init PROVE UsageInv
  OBVIOUS
<1> DEFINE own == [w \in Handlers |-> {}]
<1>1. events = {} /\ counted = 0 /\ \A w \in Handlers : Owed(run[w]) = 0
  BY DEF Init, Idle, Owed
<1>2. Accounts({}, own)
  BY <1>1, FS_EmptySet DEF Accounts
<1> HIDE DEF own
<1>3. Accounted
  BY <1>2 DEF Accounted
<1> QED
  BY <1>1, <1>3, InitIInv, FS_EmptySet DEF UsageInv

LEMMA UsageInductive == UsageInv /\ [Next]_vars => UsageInv'
<1> SUFFICES ASSUME UsageInv, [Next]_vars PROVE UsageInv'
  OBVIOUS
<1>1. IInv'
  BY Inductive DEF UsageInv
<1>2. CASE UNCHANGED vars
  <2>1. IsFiniteSet(events') /\ Accounted'
    BY <1>2 DEF vars, UsageInv, Accounted, Accounts
  <2> QED
    BY <1>1, <2>1 DEF UsageInv
<1>3. ASSUME NEW w \in Handlers, Append(w) \/ Backfill(w) \/ Die(w) PROVE UsageInv'
  BY <1>1, <1>3, UsageStep DEF UsageInv
<1> QED
  BY <1>2, <1>3 DEF Next

\* The usage window never counts an event that is not stored, nor one twice,
\* although an append and a backfill count after they have inserted and may be
\* lost in between: it can only lag behind the thread.
THEOREM UsageNeverRunsAhead == Spec => []UsageNeverOvercounts
<1>1. UsageInv => UsageNeverOvercounts
  <2> SUFFICES ASSUME UsageInv PROVE UsageNeverOvercounts
    OBVIOUS
  <2>1. PICK C, own : Accounts(C, own)
    BY DEF UsageInv, Accounted
  <2> QED
    BY <2>1, FS_Subset DEF UsageInv, Accounts, UsageNeverOvercounts
<1> QED
  BY <1>1, UsageInit, UsageInductive, PTL DEF Spec


-----------------------------------------------------------------------------
(* The imports in the composition that the run checks: what is proved in    *)
(* HostSessionProofs of the history that is imported, of the instances of   *)
(* MCEvents.                                                                *)

OfDay == INSTANCE HostSessionProofs
  WITH events <- records, clipped <- truncated, Sessions <- {s1, s2}, Wanted <- s1,
       Dated <- TRUE, FileScan <- 1,
       LineScan <- 3, HistoryScan <- 2, Limit <- 2, MaxWrites <- 5, MaxAttaches <- 2,
       Threads <- {}, SessionId <- <<>>, Ops <- {}, PageSize <- 1, MaxPages <- 1, MaxTouches <- 0,
       AppThreads <- {}, ThreadSession <- <<>>, MaxSessions <- 1, MetaScan <- 1, RolloutScan <- 1,
       PageCap <- 1, WorkerCut <- 1, Asks <- {}, MaxReports <- 0,
       list <- <<>>, archived <- {}, rollout <- None, touches <- 0, moved <- FALSE, op <- "archive",
       cursor <- 0, pages <- 0, seen <- {}, found <- <<>>, scans <- <<>>, todo <- <<>>,
       chosen <- None, outcome <- "none", index <- <<>>, rollouts <- {}, active <- <<>>,
       doing <- "refresh", local <- <<>>, wire <- <<>>, asked <- FALSE, handler <- <<>>,
       present <- {}, created <- {}, own <- FALSE
OfWalk == INSTANCE HostSessionProofs
  WITH events <- records, clipped <- truncated, Sessions <- {s1, s2}, Wanted <- s1,
       Dated <- FALSE, FileScan <- 1,
       LineScan <- 2, HistoryScan <- 2, Limit <- 2, MaxWrites <- 4, MaxAttaches <- 2,
       Threads <- {}, SessionId <- <<>>, Ops <- {}, PageSize <- 1, MaxPages <- 1, MaxTouches <- 0,
       AppThreads <- {}, ThreadSession <- <<>>, MaxSessions <- 1, MetaScan <- 1, RolloutScan <- 1,
       PageCap <- 1, WorkerCut <- 1, Asks <- {}, MaxReports <- 0,
       list <- <<>>, archived <- {}, rollout <- None, touches <- 0, moved <- FALSE, op <- "archive",
       cursor <- 0, pages <- 0, seen <- {}, found <- <<>>, scans <- <<>>, todo <- <<>>,
       chosen <- None, outcome <- "none", index <- <<>>, rollouts <- {}, active <- <<>>,
       doing <- "refresh", local <- <<>>, wire <- <<>>, asked <- FALSE, handler <- <<>>,
       present <- {}, created <- {}, own <- FALSE

\* ByDay: the instance there and here is the same.
LEMMA ByDayIsImport ==
    /\ ByDay!Init <=> OfDay!Import!Init
    /\ [ByDay!Next]_(ByDay!vars) <=> [OfDay!Import!Next]_(OfDay!Import!vars)
    /\ OfDay!Import!BackfillAssumption
    /\ ByDay!TypeOK <=> OfDay!Import!TypeOK
    /\ ByDay!InOrder <=> OfDay!Import!InOrder
    /\ ByDay!NoSilentGap <=> OfDay!Import!NoSilentGap
    /\ ByDay!OldestAreLeftOut <=> OfDay!Import!OldestAreLeftOut
<1>1. ByDay!Init <=> OfDay!Import!Init
  BY DEF
     ByDay!Init, OfDay!Import!Init
<1>2. \A s, sameDay : ByDay!NewRollout(s, sameDay) <=> OfDay!Import!NewRollout(s, sameDay)
  BY DEF
     ByDay!Written, ByDay!Idle, ByDay!NewRollout, OfDay!Import!Written, OfDay!Import!Idle,
     OfDay!Import!NewRollout
<1>3. \A f, whole : ByDay!Prompt(f, whole) <=> OfDay!Import!Prompt(f, whole)
  BY DEF
     ByDay!Written, ByDay!Idle, ByDay!NewLine, ByDay!Prompt, ByDay!Last,
     OfDay!Import!Written, OfDay!Import!Idle, OfDay!Import!NewLine, OfDay!Import!Prompt,
     OfDay!Import!Last
<1>4. \A f, k, whole : ByDay!Record(f, k, whole) <=> OfDay!Import!Record(f, k, whole)
  BY DEF
     ByDay!Written, ByDay!Idle, ByDay!NewLine, ByDay!Record, ByDay!Last,
     OfDay!Import!Written, OfDay!Import!Idle, OfDay!Import!NewLine, OfDay!Import!Record,
     OfDay!Import!Last
<1>5. \A f : ByDay!FinishLine(f) <=> OfDay!Import!FinishLine(f)
  BY DEF
     ByDay!Idle, ByDay!FinishLine, ByDay!Last, OfDay!Import!Idle, OfDay!Import!FinishLine,
     OfDay!Import!Last
<1>6. \A f : ByDay!Move(f) <=> OfDay!Import!Move(f)
  BY DEF
     ByDay!Written, ByDay!Idle, ByDay!Move, OfDay!Import!Written, OfDay!Import!Idle,
     OfDay!Import!Move
<1>7. ByDay!Attach <=> OfDay!Import!Attach
  BY DEF
     ByDay!disk, ByDay!Attach, OfDay!Import!disk, OfDay!Import!Attach
<1>8. ByDay!FindRolloutPath <=> OfDay!Import!FindRolloutPath
  BY DEF
     ByDay!disk, ByDay!There, ByDay!InNewestDays, ByDay!Listings, ByDay!RolloutPaths,
     ByDay!HasSessionId, ByDay!FindRolloutPath, ByDay!Min, ByDay!IsFiniteSet,
     ByDay!Cardinality, OfDay!Import!disk, OfDay!Import!There, OfDay!Import!InNewestDays,
     OfDay!Import!Listings, OfDay!Import!RolloutPaths, OfDay!Import!HasSessionId,
     OfDay!Import!FindRolloutPath, OfDay!Import!Min, OfDay!Import!IsFiniteSet,
     OfDay!Import!Cardinality
<1>9. ByDay!ReadRollout <=> OfDay!Import!ReadRollout
  BY DEF
     ByDay!disk, ByDay!There, ByDay!Recent, ByDay!Only, ByDay!BackfillLines, ByDay!EventsOf,
     ByDay!IsTruncated, ByDay!LatestEvents, ByDay!ReadRollout, ByDay!ToSet, ByDay!Max,
     OfDay!Import!disk, OfDay!Import!There, OfDay!Import!Recent, OfDay!Import!Only,
     OfDay!Import!BackfillLines, OfDay!Import!EventsOf, OfDay!Import!IsTruncated,
     OfDay!Import!LatestEvents, OfDay!Import!ReadRollout, OfDay!Import!ToSet,
     OfDay!Import!Max
<1>10. ByDay!ReadFails <=> OfDay!Import!ReadFails
  BY DEF
     ByDay!disk, ByDay!There, ByDay!ReadFails, OfDay!Import!disk, OfDay!Import!There,
     OfDay!Import!ReadFails
<1>11. ByDay!ReadHistory <=> OfDay!Import!ReadHistory
  BY DEF
     ByDay!disk, ByDay!Recent, ByDay!Only, ByDay!LatestEvents, ByDay!PromptsOf,
     ByDay!ReadHistory, ByDay!ToSet, ByDay!Max, OfDay!Import!disk, OfDay!Import!Recent,
     OfDay!Import!Only, OfDay!Import!LatestEvents, OfDay!Import!PromptsOf,
     OfDay!Import!ReadHistory, OfDay!Import!ToSet, OfDay!Import!Max
<1>12. ByDay!ImportEvent <=> OfDay!Import!ImportEvent
  BY DEF
     ByDay!disk, ByDay!ImportEvent, ByDay!Contains, OfDay!Import!disk,
     OfDay!Import!ImportEvent, OfDay!Import!Contains
<1>13. ByDay!ImportEnds <=> OfDay!Import!ImportEnds
  BY DEF
     ByDay!disk, ByDay!ImportEnds, OfDay!Import!disk, OfDay!Import!ImportEnds
<1>14. ByDay!ImportFails <=> OfDay!Import!ImportFails
  BY DEF
     ByDay!disk, ByDay!ImportFails, OfDay!Import!disk, OfDay!Import!ImportFails
<1>15. ByDay!Detach <=> OfDay!Import!Detach
  BY DEF
     ByDay!disk, ByDay!Detach, OfDay!Import!disk, OfDay!Import!Detach
<1>16. ByDay!Next <=> OfDay!Import!Next
  BY <1>2, <1>3, <1>4, <1>5, <1>6, <1>7, <1>8, <1>9, <1>10, <1>11, <1>12, <1>13, <1>14, <1>15
     DEF ByDay!Next, OfDay!Import!Next, ByDay!Codex, OfDay!Import!Codex, ByDay!Kinds,
     OfDay!Import!Kinds
<1>17. ByDay!vars = OfDay!Import!vars /\ ByDay!vars' = OfDay!Import!vars'
  BY DEF ByDay!vars, OfDay!Import!vars, ByDay!disk, OfDay!Import!disk
<1>18. OfDay!Import!BackfillAssumption
  BY MCImportAssumption DEF ByDay!BackfillAssumption, OfDay!Import!BackfillAssumption
<1>19. ByDay!TypeOK <=> OfDay!Import!TypeOK
  BY DEF ByDay!TypeOK, OfDay!Import!TypeOK, ByDay!Line, OfDay!Import!Line, ByDay!Kinds,
     OfDay!Import!Kinds, ByDay!Event, OfDay!Import!Event
<1>20. /\ ByDay!InOrder <=> OfDay!Import!InOrder
       /\ ByDay!NoSilentGap <=> OfDay!Import!NoSilentGap
       /\ ByDay!OldestAreLeftOut <=> OfDay!Import!OldestAreLeftOut
  BY DEF ByDay!InOrder, OfDay!Import!InOrder, ByDay!NoSilentGap, OfDay!Import!NoSilentGap,
     ByDay!OldestAreLeftOut, OfDay!Import!OldestAreLeftOut, ByDay!ToSet, OfDay!Import!ToSet
<1> QED
  BY <1>1, <1>16, <1>17, <1>18, <1>19, <1>20

\* Walked: the instance there and here is the same.
LEMMA WalkedIsImport ==
    /\ Walked!Init <=> OfWalk!Import!Init
    /\ [Walked!Next]_(Walked!vars) <=> [OfWalk!Import!Next]_(OfWalk!Import!vars)
    /\ OfWalk!Import!BackfillAssumption
    /\ Walked!TypeOK <=> OfWalk!Import!TypeOK
    /\ Walked!InOrder <=> OfWalk!Import!InOrder
    /\ Walked!NoSilentGap <=> OfWalk!Import!NoSilentGap
    /\ Walked!OldestAreLeftOut <=> OfWalk!Import!OldestAreLeftOut
<1>1. Walked!Init <=> OfWalk!Import!Init
  BY DEF
     Walked!Init, OfWalk!Import!Init
<1>2. \A s, sameDay : Walked!NewRollout(s, sameDay) <=> OfWalk!Import!NewRollout(s, sameDay)
  BY DEF
     Walked!Written, Walked!Idle, Walked!NewRollout, OfWalk!Import!Written,
     OfWalk!Import!Idle, OfWalk!Import!NewRollout
<1>3. \A f, whole : Walked!Prompt(f, whole) <=> OfWalk!Import!Prompt(f, whole)
  BY DEF
     Walked!Written, Walked!Idle, Walked!NewLine, Walked!Prompt, Walked!Last,
     OfWalk!Import!Written, OfWalk!Import!Idle, OfWalk!Import!NewLine, OfWalk!Import!Prompt,
     OfWalk!Import!Last
<1>4. \A f, k, whole : Walked!Record(f, k, whole) <=> OfWalk!Import!Record(f, k, whole)
  BY DEF
     Walked!Written, Walked!Idle, Walked!NewLine, Walked!Record, Walked!Last,
     OfWalk!Import!Written, OfWalk!Import!Idle, OfWalk!Import!NewLine, OfWalk!Import!Record,
     OfWalk!Import!Last
<1>5. \A f : Walked!FinishLine(f) <=> OfWalk!Import!FinishLine(f)
  BY DEF
     Walked!Idle, Walked!FinishLine, Walked!Last, OfWalk!Import!Idle,
     OfWalk!Import!FinishLine, OfWalk!Import!Last
<1>6. \A f : Walked!Move(f) <=> OfWalk!Import!Move(f)
  BY DEF
     Walked!Written, Walked!Idle, Walked!Move, OfWalk!Import!Written, OfWalk!Import!Idle,
     OfWalk!Import!Move
<1>7. Walked!Attach <=> OfWalk!Import!Attach
  BY DEF
     Walked!disk, Walked!Attach, OfWalk!Import!disk, OfWalk!Import!Attach
<1>8. Walked!FindRolloutPath <=> OfWalk!Import!FindRolloutPath
  BY DEF
     Walked!disk, Walked!There, Walked!InNewestDays, Walked!Listings, Walked!RolloutPaths,
     Walked!HasSessionId, Walked!FindRolloutPath, Walked!Min, Walked!IsFiniteSet,
     Walked!Cardinality, OfWalk!Import!disk, OfWalk!Import!There, OfWalk!Import!InNewestDays,
     OfWalk!Import!Listings, OfWalk!Import!RolloutPaths, OfWalk!Import!HasSessionId,
     OfWalk!Import!FindRolloutPath, OfWalk!Import!Min, OfWalk!Import!IsFiniteSet,
     OfWalk!Import!Cardinality
<1>9. Walked!ReadRollout <=> OfWalk!Import!ReadRollout
  BY DEF
     Walked!disk, Walked!There, Walked!Recent, Walked!Only, Walked!BackfillLines,
     Walked!EventsOf, Walked!IsTruncated, Walked!LatestEvents, Walked!ReadRollout,
     Walked!ToSet, Walked!Max, OfWalk!Import!disk, OfWalk!Import!There, OfWalk!Import!Recent,
     OfWalk!Import!Only, OfWalk!Import!BackfillLines, OfWalk!Import!EventsOf,
     OfWalk!Import!IsTruncated, OfWalk!Import!LatestEvents, OfWalk!Import!ReadRollout,
     OfWalk!Import!ToSet, OfWalk!Import!Max
<1>10. Walked!ReadFails <=> OfWalk!Import!ReadFails
  BY DEF
     Walked!disk, Walked!There, Walked!ReadFails, OfWalk!Import!disk, OfWalk!Import!There,
     OfWalk!Import!ReadFails
<1>11. Walked!ReadHistory <=> OfWalk!Import!ReadHistory
  BY DEF
     Walked!disk, Walked!Recent, Walked!Only, Walked!LatestEvents, Walked!PromptsOf,
     Walked!ReadHistory, Walked!ToSet, Walked!Max, OfWalk!Import!disk, OfWalk!Import!Recent,
     OfWalk!Import!Only, OfWalk!Import!LatestEvents, OfWalk!Import!PromptsOf,
     OfWalk!Import!ReadHistory, OfWalk!Import!ToSet, OfWalk!Import!Max
<1>12. Walked!ImportEvent <=> OfWalk!Import!ImportEvent
  BY DEF
     Walked!disk, Walked!ImportEvent, Walked!Contains, OfWalk!Import!disk,
     OfWalk!Import!ImportEvent, OfWalk!Import!Contains
<1>13. Walked!ImportEnds <=> OfWalk!Import!ImportEnds
  BY DEF
     Walked!disk, Walked!ImportEnds, OfWalk!Import!disk, OfWalk!Import!ImportEnds
<1>14. Walked!ImportFails <=> OfWalk!Import!ImportFails
  BY DEF
     Walked!disk, Walked!ImportFails, OfWalk!Import!disk, OfWalk!Import!ImportFails
<1>15. Walked!Detach <=> OfWalk!Import!Detach
  BY DEF
     Walked!disk, Walked!Detach, OfWalk!Import!disk, OfWalk!Import!Detach
<1>16. Walked!Next <=> OfWalk!Import!Next
  BY <1>2, <1>3, <1>4, <1>5, <1>6, <1>7, <1>8, <1>9, <1>10, <1>11, <1>12, <1>13, <1>14, <1>15
     DEF Walked!Next, OfWalk!Import!Next, Walked!Codex, OfWalk!Import!Codex, Walked!Kinds,
     OfWalk!Import!Kinds
<1>17. Walked!vars = OfWalk!Import!vars /\ Walked!vars' = OfWalk!Import!vars'
  BY DEF Walked!vars, OfWalk!Import!vars, Walked!disk, OfWalk!Import!disk
<1>18. OfWalk!Import!BackfillAssumption
  BY MCImportAssumption DEF Walked!BackfillAssumption, OfWalk!Import!BackfillAssumption
<1>19. Walked!TypeOK <=> OfWalk!Import!TypeOK
  BY DEF Walked!TypeOK, OfWalk!Import!TypeOK, Walked!Line, OfWalk!Import!Line, Walked!Kinds,
     OfWalk!Import!Kinds, Walked!Event, OfWalk!Import!Event
<1>20. /\ Walked!InOrder <=> OfWalk!Import!InOrder
       /\ Walked!NoSilentGap <=> OfWalk!Import!NoSilentGap
       /\ Walked!OldestAreLeftOut <=> OfWalk!Import!OldestAreLeftOut
  BY DEF Walked!InOrder, OfWalk!Import!InOrder, Walked!NoSilentGap, OfWalk!Import!NoSilentGap,
     Walked!OldestAreLeftOut, OfWalk!Import!OldestAreLeftOut, Walked!ToSet, OfWalk!Import!ToSet
<1> QED
  BY <1>1, <1>16, <1>17, <1>18, <1>19, <1>20

\* What is the same whatever the limits are.
LEMMA LimitsAside ==
    /\ Walked!Init <=> ByDay!Init
    /\ Walked!InOrder <=> ByDay!InOrder
    /\ Walked!NoSilentGap <=> ByDay!NoSilentGap
<1>1. Walked!Init <=> ByDay!Init
  BY DEF Walked!Init, ByDay!Init
<1>2. /\ Walked!InOrder <=> ByDay!InOrder
      /\ Walked!NoSilentGap <=> ByDay!NoSilentGap
  BY DEF Walked!InOrder, ByDay!InOrder, Walked!NoSilentGap, ByDay!NoSilentGap, Walked!ToSet,
     ByDay!ToSet
<1> QED
  BY <1>1, <1>2

CompositionInv ==
  /\ subject \in {"thread", "by day", "walked"}
  /\ IInv
  /\ subject = "walked" => OfWalk!HistoryInv
  /\ subject # "walked" => OfDay!HistoryInv

LEMMA CompositionStarts == MCInit => CompositionInv
<1> SUFFICES ASSUME MCInit PROVE CompositionInv
  OBVIOUS
<1>1. subject \in {"thread", "by day", "walked"} /\ Init /\ ByDay!Init
  BY DEF MCInit
<1>2. OfWalk!HistoryInv
  BY <1>1, LimitsAside, WalkedIsImport, OfWalk!BackfillStarts
<1>3. OfDay!HistoryInv
  BY <1>1, ByDayIsImport, OfDay!BackfillStarts
<1> QED
  BY <1>1, <1>2, <1>3, InitIInv DEF CompositionInv

LEMMA CompositionSteps ==
    ASSUME [MCNext]_all
    PROVE  /\ subject' = subject
           /\ [Next]_vars
           /\ subject = "walked" => [Walked!Next]_(Walked!vars)
           /\ subject # "walked" => [ByDay!Next]_(ByDay!vars)
<1>1. subject' = subject
  BY DEF MCNext, About, all
<1>2. [Next]_vars
  BY DEF MCNext, About, all
<1>3. UNCHANGED import => UNCHANGED Walked!vars /\ UNCHANGED ByDay!vars
  BY DEF import, Walked!vars, Walked!disk, ByDay!vars, ByDay!disk
<1>4. /\ subject = "walked" => Walked!Next \/ UNCHANGED import
      /\ subject # "walked" => ByDay!Next \/ UNCHANGED import
  BY DEF MCNext, About, all
<1> QED
  BY <1>1, <1>2, <1>3, <1>4

LEMMA CompositionKeeps == CompositionInv /\ [MCNext]_all => CompositionInv'
<1> SUFFICES ASSUME CompositionInv, [MCNext]_all PROVE CompositionInv'
  OBVIOUS
<1>1. IInv'
  BY CompositionSteps, Inductive DEF CompositionInv
<1>2. subject = "walked" => OfWalk!HistoryInv'
  BY CompositionSteps, WalkedIsImport, OfWalk!BackfillKeeps DEF CompositionInv
<1>3. subject # "walked" => OfDay!HistoryInv'
  BY CompositionSteps, ByDayIsImport, OfDay!BackfillKeeps DEF CompositionInv
<1>4. subject' = subject
  BY CompositionSteps
<1> QED
  BY <1>1, <1>2, <1>3, <1>4 DEF CompositionInv

LEMMA CompositionHolds == MCSpec => []CompositionInv
BY CompositionStarts, CompositionKeeps, PTL DEF MCSpec

(* The rows and handlers of appends and backfills, the files Codex writes   *)
(* and what is read, brought and stored of them have their types.           *)
THEOREM AllHaveTheirTypes == MCSpec => []TypesAreCorrect
<1>1. CompositionInv => TypesAreCorrect
  <2> SUFFICES ASSUME CompositionInv PROVE TypesAreCorrect
    OBVIOUS
  <2>1. TypeOK
    BY DEF CompositionInv, IInv
  <2>2. subject = "walked" => Walked!TypeOK
    BY WalkedIsImport DEF CompositionInv, OfWalk!HistoryInv
  <2>3. subject # "walked" => ByDay!TypeOK
    BY ByDayIsImport DEF CompositionInv, OfDay!HistoryInv
  <2> QED
    BY <2>1, <2>2, <2>3 DEF TypesAreCorrect
<1> QED
  BY <1>1, CompositionHolds, PTL

(* Repeated imports keep the order of a rollout's records, what the browser *)
(* is told was not truncated left nothing out, and what a truncated import  *)
(* leaves out is older than all that it brings (read_rollout_backfill of    *)
(* the connector and recordHostSessionBackfillEvents of the Worker).        *)
THEOREM HistoryIsToldTruly == MCSpec => []HistoryIsTold
<1>1. CompositionInv => HistoryIsTold
  <2> SUFFICES ASSUME CompositionInv PROVE HistoryIsTold
    OBVIOUS
  <2>1. CASE subject = "walked"
    <3>1. Walked!InOrder /\ Walked!NoSilentGap
      BY <2>1, WalkedIsImport DEF CompositionInv, OfWalk!HistoryInv
    <3> QED
      BY <2>1, <3>1, LimitsAside DEF HistoryIsTold
  <2>2. CASE subject # "walked"
    BY <2>2, ByDayIsImport DEF CompositionInv, OfDay!HistoryInv, HistoryIsTold
  <2> QED
    BY <2>1, <2>2
<1> QED
  BY <1>1, CompositionHolds, PTL
=============================================================================
