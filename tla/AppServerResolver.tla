-------------------------- MODULE AppServerResolver --------------------------
(***************************************************************************)
(* The DNS resolver the connector's threads share                          *)
(* (crates/agent/src/session_inventory.rs): one active worker thread with  *)
(* a bounded queue; a lookup that times out retires the worker and starts  *)
(* another, up to a limit of retired threads.  A system lookup cannot be   *)
(* cancelled, so a retired worker lives until its lookups end.             *)
(***************************************************************************)
EXTENDS Integers, Sequences, FiniteSets

CONSTANTS Callers,      \* threads that resolve a name
          Capacity,     \* APP_SERVER_RESOLVER_QUEUE_CAPACITY
          MaxRetired,   \* APP_SERVER_MAX_RETIRED_RESOLVER_WORKERS
          MaxGeneration, \* bound on the workers ever started
          Panics,       \* the workers a lookup may kill
          None          \* no request, or one its caller has given up

ASSUME ResolverAssumption ==
  /\ Capacity \in Nat \ {0} /\ MaxRetired \in Nat /\ MaxGeneration \in Nat
  /\ Panics \subseteq Nat
  /\ None \notin Callers

VARIABLES active,      \* generation of the active worker
          retired,     \* generations of the retired workers not reaped yet
          started,     \* next_generation
          ended,       \* generations whose thread has ended
          queue,       \* requests sent to each worker
          work,        \* what each worker looks up: a sequence of at most one
          pc, gen      \* each caller: its step, the worker it holds a sender of

vars == <<active, retired, started, ended, queue, work, pc, gen>>
workers == <<active, retired, started>>

Generations == 0..MaxGeneration
Request == Callers \cup {None}
SeqRange(s) == {s[i] : i \in 1..Len(s)}

TypeOK ==
  /\ active \in Generations /\ started \in 1..(MaxGeneration + 1)
  /\ retired \subseteq 0..(started - 1) /\ active \in (0..(started - 1)) \ retired
  /\ ended \subseteq 0..(started - 1)
  /\ queue \in [Generations -> Seq(Request)]
  /\ \A g \in Generations : Len(queue[g]) <= Capacity
  /\ work \in [Generations -> Seq(Request)]
  /\ \A g \in Generations : Len(work[g]) <= 1
  /\ pc \in [Callers -> {"idle", "send", "wait", "recover"}]
  /\ gen \in [Callers -> Generations]

Init ==
  /\ active = 0 /\ retired = {} /\ started = 1 /\ ended = {}
  /\ queue = [g \in Generations |-> <<>>]
  /\ work = [g \in Generations |-> <<>>]
  /\ pc = [c \in Callers |-> "idle"]
  /\ gen = [c \in Callers |-> 0]
-----------------------------------------------------------------------------
(* The shared state, under its lock. *)

Reaped == retired \ ended

(* active_sender: the caller keeps its clone of the sender until it returns. *)
ActiveSender(c) ==
  /\ pc[c] = "idle"
  /\ pc' = [pc EXCEPT ![c] = "send"]
  /\ gen' = [gen EXCEPT ![c] = active]
  /\ retired' = Reaped
  /\ UNCHANGED <<active, started, ended, queue, work>>

(* A worker that somebody else has replaced already is left alone. *)
Current(c) == gen[c] = active

\* Mutant: the limit is checked before the threads that ended are counted out.
RoomForAnother == Cardinality(retired) <= MaxRetired

RoomToRetire == Cardinality(Reaped) < MaxRetired

(* replace_timed_out_worker, and the return of resolve with an error. *)
Recover(c) ==
  /\ pc[c] = "recover"
  /\ pc' = [pc EXCEPT ![c] = "idle"]
  /\ \/ /\ Current(c) /\ RoomToRetire /\ started <= MaxGeneration
        /\ active' = started /\ started' = started + 1
        /\ retired' = Reaped \cup {active}
     \/ /\ ~(Current(c) /\ RoomToRetire)
        /\ retired' = Reaped /\ UNCHANGED <<active, started>>
  /\ UNCHANGED <<ended, queue, work, gen>>

(* A thread cannot be started: the error is returned, nothing is replaced. *)
RecoverFails(c) ==
  /\ pc[c] = "recover" /\ Current(c)
  /\ pc' = [pc EXCEPT ![c] = "idle"]
  /\ retired' = Reaped
  /\ UNCHANGED <<active, started, ended, queue, work, gen>>
-----------------------------------------------------------------------------
(* resolve *)

\* Mutant: the queue is not bounded.
AlwaysRoom(c) == TRUE

HasRoom(c) == Len(queue[gen[c]]) < Capacity

(* try_send never waits: a full queue is an error, a dead worker a reason  *)
(* to start another.                                                       *)
Send(c) ==
  /\ pc[c] = "send"
  /\ \/ /\ gen[c] \notin ended /\ HasRoom(c)
        /\ queue' = [queue EXCEPT ![gen[c]] = Append(@, c)]
        /\ pc' = [pc EXCEPT ![c] = "wait"]
     \/ /\ gen[c] \notin ended /\ ~HasRoom(c)
        /\ pc' = [pc EXCEPT ![c] = "idle"] /\ UNCHANGED queue
     \/ /\ gen[c] \in ended
        /\ pc' = [pc EXCEPT ![c] = "recover"] /\ UNCHANGED queue
  /\ UNCHANGED <<workers, ended, work, gen>>

Forget(c, s) == [i \in 1..Len(s) |-> IF s[i] = c THEN None ELSE s[i]]

(* recv_timeout gives up: the request stays where it is, unanswered.       *)
TimeOut(c) ==
  /\ pc[c] = "wait"
  /\ pc' = [pc EXCEPT ![c] = "recover"]
  /\ queue' = [queue EXCEPT ![gen[c]] = Forget(c, @)]
  /\ work' = [work EXCEPT ![gen[c]] = Forget(c, @)]
  /\ UNCHANGED <<workers, ended, gen>>

(* The worker's thread has died and taken the answer channel with it.      *)
Disconnected(c) ==
  /\ pc[c] = "wait" /\ gen[c] \in ended
  /\ pc' = [pc EXCEPT ![c] = "recover"]
  /\ UNCHANGED <<workers, ended, queue, work, gen>>
-----------------------------------------------------------------------------
(* The worker thread of spawn_worker. *)

\* Mutant: the sender of a retired worker is kept with its handle.
SenderKept(g) == TRUE

SenderHeld(g) == g = active \/ \E c \in Callers : gen[c] = g /\ pc[c] # "idle"

Take(g) ==
  /\ g \in 0..(started - 1) \ ended
  /\ work[g] = <<>> /\ queue[g] # <<>>
  /\ work' = [work EXCEPT ![g] = <<Head(queue[g])>>]
  /\ queue' = [queue EXCEPT ![g] = Tail(@)]
  /\ UNCHANGED <<workers, ended, pc, gen>>

(* The lookup returns: its caller, if it still waits, gets the answer.     *)
Answer(g) ==
  /\ work[g] # <<>>
  /\ work' = [work EXCEPT ![g] = <<>>]
  /\ pc' = [c \in Callers |-> IF c = Head(work[g]) THEN "idle" ELSE pc[c]]
  /\ UNCHANGED <<workers, ended, queue, gen>>

\* Mutant: a worker that is let go of does not drain its queue.
EndUndrained(g) ==
  /\ g \in 0..(started - 1) \ ended
  /\ work[g] = <<>> /\ g # active
  /\ ended' = ended \cup {g}
  /\ queue' = [queue EXCEPT ![g] = <<>>]
  /\ UNCHANGED <<workers, work, pc, gen>>

(* recv fails once no sender is left and the queue is drained.             *)
End(g) ==
  /\ g \in 0..(started - 1) \ ended
  /\ work[g] = <<>> /\ queue[g] = <<>> /\ ~SenderHeld(g)
  /\ ended' = ended \cup {g}
  /\ UNCHANGED <<workers, queue, work, pc, gen>>

Panic(g) ==
  /\ g \in Panics /\ work[g] # <<>>
  /\ ended' = ended \cup {g}
  /\ queue' = [queue EXCEPT ![g] = <<>>]
  /\ work' = [work EXCEPT ![g] = <<>>]
  /\ UNCHANGED <<workers, pc, gen>>
-----------------------------------------------------------------------------
Caller(c) == Send(c) \/ TimeOut(c) \/ Disconnected(c) \/ Recover(c) \/ RecoverFails(c)
Worker(g) == Take(g) \/ Answer(g) \/ End(g)

Next ==
  \/ \E c \in Callers : ActiveSender(c) \/ Caller(c)
  \/ \E g \in Generations : Worker(g) \/ Panic(g)

Spec == Init /\ [][Next]_vars

(* A caller waits no longer than its timeout, and every lookup ends some   *)
(* day.                                                                    *)
FairSpec ==
  /\ Spec
  /\ \A c \in Callers : WF_vars(Caller(c))
  /\ \A g \in Generations : WF_vars(Worker(g))
-----------------------------------------------------------------------------
(* However many lookups hang, the process holds no more threads than the   *)
(* active worker and the limit of retired ones                             *)
(* (APP_SERVER_MAX_RETIRED_RESOLVER_WORKERS).                              *)
Live == 0..(started - 1) \ ended
ThreadsAreBounded ==
  /\ Live \subseteq retired \cup {active}
  /\ Cardinality(retired) <= MaxRetired

(* A caller that waits will hear: its request is queued at or worked on by *)
(* a live worker, or the worker has died and the channel says so.  A       *)
(* retired worker serves the requests sent to it before it ends.           *)
WaitIsHeard ==
  \A c \in Callers :
    pc[c] = "wait" =>
      \/ gen[c] \in Panics \cap ended
      \/ c \in SeqRange(queue[gen[c]]) \cup SeqRange(work[gen[c]])

(* A worker is retired only by a caller that it has itself failed: a late  *)
(* timeout of one generation does not retire the next (the comparison of   *)
(* generations in replace_timed_out_worker).                               *)
OnlyItsCallersRetire ==
  [][active' # active => \E c \in Callers : pc[c] = "recover" /\ gen[c] = active]_vars

(* The thread of a retired worker ends once its lookups do, because every  *)
(* sender of it is dropped.                                                *)
RetiredEnds == \A g \in Generations : g \in retired ~> g \in ended
=============================================================================
