----------------------- MODULE AppServerResolverProofs -----------------------
(***************************************************************************)
(* However many callers and hung lookups there are, the resolver holds no  *)
(* more threads than its limit, loses no request, and is not replaced on   *)
(* account of a worker it has replaced already.  A socket that a connect   *)
(* returns stays open, the manager reports the app-server as it is, and    *)
(* its preflight leaves nothing behind, whatever their constants are; and  *)
(* so do the instances that the run checks together.                       *)
(***************************************************************************)
EXTENDS MCAppServer, FiniteSetTheorems, TLAPS

\* Only a worker that was started has callers and requests.
OnlyStarted ==
  /\ \A c \in Callers : gen[c] < started
  /\ \A g \in Generations : g >= started => queue[g] = <<>> /\ work[g] = <<>>

\* A thread is active, retired or at its end, so that a count of the retired
\* bounds the threads there are.
IInv == TypeOK /\ OnlyStarted /\ ThreadsAreBounded /\ WaitIsHeard

LEMMA ForgetType ==
    ASSUME NEW c \in Callers, NEW s \in Seq(Request)
    PROVE  Forget(c, s) \in Seq(Request) /\ Len(Forget(c, s)) = Len(s)
BY DEF Forget, Request

\* The requests of the others stay where they are.
LEMMA ForgetKeeps ==
    ASSUME NEW c \in Callers, NEW d \in Callers \ {c}, NEW s \in Seq(Request), d \in SeqRange(s)
    PROVE  d \in SeqRange(Forget(c, s))
BY DEF Forget, Request, SeqRange

LEMMA AppendRange ==
    ASSUME NEW s \in Seq(Request), NEW e \in Request
    PROVE  SeqRange(Append(s, e)) = SeqRange(s) \cup {e}
BY DEF SeqRange

LEMMA HeadOrTail ==
    ASSUME NEW s \in Seq(Request), s # <<>>, NEW e \in SeqRange(s)
    PROVE  e = Head(s) \/ e \in SeqRange(Tail(s))
<1>1. PICK i \in 1..Len(s) : e = s[i]
  BY DEF SeqRange
<1>2. CASE i = 1
  BY <1>1, <1>2
<1>3. CASE i # 1
  <2>1. i - 1 \in 1..Len(Tail(s)) /\ Tail(s)[i - 1] = e
    BY <1>1, <1>3
  <2> QED
    BY <2>1 DEF SeqRange
<1> QED
  BY <1>2, <1>3

LEMMA RetiredIsFinite ==
    ASSUME TypeOK
    PROVE  /\ IsFiniteSet(retired) /\ Cardinality(retired) \in Nat
           /\ IsFiniteSet(Reaped) /\ Cardinality(Reaped) \in Nat
           /\ Cardinality(Reaped) <= Cardinality(retired)
<1>1. IsFiniteSet(0..(started - 1))
  BY FS_Interval, ResolverAssumption DEF TypeOK
<1>2. IsFiniteSet(retired)
  BY <1>1, FS_Subset DEF TypeOK
<1>3. Reaped \subseteq retired
  BY DEF Reaped
<1> QED
  BY <1>2, <1>3, FS_Subset, FS_CardinalityType

LEMMA InitIInv == Init => IInv
<1> SUFFICES ASSUME Init PROVE IInv
  OBVIOUS
<1>1. TypeOK
  BY ResolverAssumption DEF Init, TypeOK, Generations, Request
<1>2. ThreadsAreBounded
  BY FS_EmptySet, ResolverAssumption DEF Init, ThreadsAreBounded, Live
<1>3. WaitIsHeard
  BY DEF Init, WaitIsHeard
<1>4. OnlyStarted
  BY ResolverAssumption DEF Init, OnlyStarted, Generations
<1> QED
  BY <1>1, <1>2, <1>3, <1>4 DEF IInv
-----------------------------------------------------------------------------
LEMMA TypeStep == TypeOK /\ OnlyStarted /\ [Next]_vars => TypeOK' /\ OnlyStarted'
<1> SUFFICES ASSUME TypeOK, OnlyStarted, [Next]_vars PROVE TypeOK' /\ OnlyStarted'
  OBVIOUS
<1>a. /\ MaxGeneration \in Nat /\ Capacity \in Nat /\ started \in Nat /\ started <= MaxGeneration + 1
      /\ active \in Nat /\ active < started /\ active \notin retired
  BY ResolverAssumption DEF TypeOK, Generations, TypeOK, OnlyStarted, Generations, workers
<1>1. CASE UNCHANGED vars
  BY <1>1 DEF vars, TypeOK, OnlyStarted, Generations, workers
<1>2. ASSUME NEW c \in Callers, ActiveSender(c) PROVE TypeOK' /\ OnlyStarted'
  BY <1>2 DEF ActiveSender, Reaped, TypeOK, OnlyStarted, Generations, workers
<1>3. ASSUME NEW c \in Callers, Send(c) PROVE TypeOK' /\ OnlyStarted'
  <2>1. CASE UNCHANGED queue
    BY <1>3, <2>1 DEF Send, TypeOK, OnlyStarted, Generations, workers
  <2>2. CASE HasRoom(c) /\ queue' = [queue EXCEPT ![gen[c]] = Append(@, c)]
    <3>1. gen[c] \in Generations /\ queue[gen[c]] \in Seq(Request) /\ c \in Request
      BY DEF Request, TypeOK, OnlyStarted, Generations, workers
    <3>2. /\ Append(queue[gen[c]], c) \in Seq(Request)
          /\ Len(Append(queue[gen[c]], c)) <= Capacity
      BY <1>a, <2>2, <3>1 DEF HasRoom
    <3>3. queue' \in [Generations -> Seq(Request)] /\ \A g \in Generations : Len(queue'[g]) <= Capacity
      BY <2>2, <3>1, <3>2 DEF TypeOK, OnlyStarted, Generations, workers
    <3>4. \A g \in Generations : g # gen[c] => queue'[g] = queue[g]
      BY <2>2 DEF TypeOK, OnlyStarted, Generations, workers
    <3>5. pc' \in [Callers -> {"idle", "send", "wait", "recover"}]
      BY <1>3 DEF Send, TypeOK
    <3>6. UNCHANGED <<active, retired, started, ended, work, gen>>
      BY <1>3 DEF Send, workers
    <3>7. TypeOK'
      BY <3>3, <3>5, <3>6 DEF TypeOK, Generations
    <3>8. OnlyStarted'
      <4>1. \A g \in Generations : g >= started => queue'[g] = queue[g]
        BY <1>a, <3>4 DEF OnlyStarted, TypeOK, Generations
      <4> QED
        BY <3>6, <4>1 DEF OnlyStarted
    <3> QED
      BY <3>7, <3>8
  <2> QED
    BY <1>3, <2>1, <2>2 DEF Send, TypeOK, OnlyStarted, Generations, workers
<1>4. ASSUME NEW c \in Callers, TimeOut(c) PROVE TypeOK' /\ OnlyStarted'
  <2>1. gen[c] \in Generations
    BY DEF TypeOK
  <2>2. /\ Forget(c, queue[gen[c]]) \in Seq(Request)
        /\ Len(Forget(c, queue[gen[c]])) <= Capacity
        /\ Forget(c, work[gen[c]]) \in Seq(Request)
        /\ Len(Forget(c, work[gen[c]])) <= 1
    BY <2>1, ForgetType DEF TypeOK, OnlyStarted, Generations, workers
  <2> QED
    BY <1>4, <2>1, <2>2 DEF TimeOut, TypeOK, OnlyStarted, Generations, workers
<1>5. ASSUME NEW c \in Callers, Disconnected(c) PROVE TypeOK' /\ OnlyStarted'
  BY <1>5 DEF Disconnected, TypeOK, OnlyStarted, Generations, workers
<1>6. ASSUME NEW c \in Callers, Recover(c) PROVE TypeOK' /\ OnlyStarted'
  <2>1. Reaped \subseteq retired
    BY DEF Reaped, TypeOK, OnlyStarted, Generations, workers
  <2>2. CASE started <= MaxGeneration /\ active' = started /\ started' = started + 1
             /\ retired' = Reaped \cup {active}
    <3>1. retired' \subseteq 0..(started' - 1) /\ active' \in (0..(started' - 1)) \ retired'
      BY <1>a, <2>1, <2>2 DEF TypeOK
    <3>2. ended' \subseteq 0..(started' - 1)
      BY <1>a, <1>6, <2>2 DEF Recover, TypeOK, OnlyStarted, Generations, workers
    <3>3. pc' \in [Callers -> {"idle", "send", "wait", "recover"}] /\ UNCHANGED <<queue, work, gen>>
      BY <1>6 DEF Recover, TypeOK
    <3>4. active' \in Generations /\ started' \in 1..(MaxGeneration + 1)
      BY <1>a, <2>2 DEF Generations
    <3>5. TypeOK'
      BY <3>1, <3>2, <3>3, <3>4 DEF TypeOK, Generations
    <3>6. OnlyStarted'
      <4>1. ASSUME NEW d \in Callers PROVE gen[d] < started + 1
        <5>1. gen[d] \in Nat /\ gen[d] < started
          BY DEF OnlyStarted, TypeOK, Generations
        <5> QED
          BY <1>a, <5>1
      <4>2. ASSUME NEW g \in Generations, g >= started + 1 PROVE g >= started
        BY <1>a, <4>2 DEF Generations
      <4> QED
        BY <2>2, <3>3, <4>1, <4>2 DEF OnlyStarted
    <3> QED
      BY <3>5, <3>6 DEF TypeOK, OnlyStarted, Generations, workers
  <2>3. CASE retired' = Reaped /\ UNCHANGED <<active, started>>
    BY <1>6, <2>1, <2>3 DEF Recover, TypeOK, OnlyStarted, Generations, workers
  <2> QED
    BY <1>6, <2>2, <2>3 DEF Recover, TypeOK, OnlyStarted, Generations, workers
<1>7. ASSUME NEW c \in Callers, RecoverFails(c) PROVE TypeOK' /\ OnlyStarted'
  BY <1>7 DEF RecoverFails, Reaped, TypeOK, OnlyStarted, Generations, workers
<1>8. ASSUME NEW g \in Generations, Take(g) PROVE TypeOK' /\ OnlyStarted'
  <2>1. /\ Head(queue[g]) \in Request /\ Tail(queue[g]) \in Seq(Request)
        /\ Len(Tail(queue[g])) <= Capacity
        /\ <<Head(queue[g])>> \in Seq(Request) /\ Len(<<Head(queue[g])>>) = 1
    <3>1. queue[g] \in Seq(Request) /\ queue[g] # <<>> /\ Len(queue[g]) <= Capacity
      BY <1>8 DEF Take, TypeOK
    <3>2. Head(queue[g]) \in Request /\ Tail(queue[g]) \in Seq(Request)
      BY <3>1
    <3>3. Len(Tail(queue[g])) <= Capacity
      BY <1>a, <3>1
    <3>4. <<Head(queue[g])>> \in Seq(Request) /\ Len(<<Head(queue[g])>>) = 1
      BY <3>2
    <3> QED
      BY <3>2, <3>3, <3>4
  <2>2. g < started
    BY <1>8 DEF Take, TypeOK, OnlyStarted, Generations, workers
  <2>3. queue' \in [Generations -> Seq(Request)] /\ \A h \in Generations : Len(queue'[h]) <= Capacity
    BY <1>8, <2>1 DEF Take, TypeOK, OnlyStarted, Generations, workers
  <2>4. work' \in [Generations -> Seq(Request)] /\ \A h \in Generations : Len(work'[h]) <= 1
    BY <1>8, <2>1 DEF Take, TypeOK, OnlyStarted, Generations, workers
  <2>5. OnlyStarted'
    BY <1>8, <2>2 DEF Take, TypeOK, OnlyStarted, Generations, workers
  <2> QED
    BY <1>8, <2>3, <2>4, <2>5 DEF Take, TypeOK, OnlyStarted, Generations, workers
<1>9. ASSUME NEW g \in Generations, Answer(g) PROVE TypeOK' /\ OnlyStarted'
  BY <1>9 DEF Answer, TypeOK, OnlyStarted, Generations, workers
<1>10. ASSUME NEW g \in Generations, End(g) PROVE TypeOK' /\ OnlyStarted'
  BY <1>10 DEF End, TypeOK, OnlyStarted, Generations, workers
<1>11. ASSUME NEW g \in Generations, Panic(g) PROVE TypeOK' /\ OnlyStarted'
  <2>1. g \in 0..(started - 1)
    BY <1>11 DEF Panic, TypeOK, OnlyStarted, Generations, workers
  <2>2. ended' \subseteq 0..(started - 1)
    BY <1>11, <2>1 DEF Panic, TypeOK, OnlyStarted, Generations, workers
  <2>e. <<>> \in Seq(Request) /\ Len(<<>>) <= Capacity
    BY <1>a
  <2>3. queue' \in [Generations -> Seq(Request)] /\ \A h \in Generations : Len(queue'[h]) <= Capacity
    BY <1>11, <2>e DEF Panic, TypeOK
  <2>4. work' \in [Generations -> Seq(Request)] /\ \A h \in Generations : Len(work'[h]) <= 1
    BY <1>11 DEF Panic, TypeOK, OnlyStarted, Generations, workers
  <2> QED
    BY <1>11, <2>2, <2>3, <2>4 DEF Panic, TypeOK, OnlyStarted, Generations, workers
<1> QED
  BY <1>1, <1>2, <1>3, <1>4, <1>5, <1>6, <1>7, <1>8, <1>9, <1>10, <1>11
  DEF Next, Caller, Worker

LEMMA BoundStep == TypeOK /\ OnlyStarted /\ ThreadsAreBounded /\ [Next]_vars => ThreadsAreBounded'
<1> SUFFICES ASSUME TypeOK, OnlyStarted, ThreadsAreBounded, [Next]_vars PROVE ThreadsAreBounded'
  OBVIOUS
<1> USE ResolverAssumption DEF workers
<1>i. /\ IsFiniteSet(retired) /\ Cardinality(retired) \in Nat
      /\ IsFiniteSet(Reaped) /\ Cardinality(Reaped) \in Nat
      /\ Cardinality(Reaped) <= Cardinality(retired)
  BY RetiredIsFinite
\* Reaping keeps every thread that lives.
<1>r. ASSUME retired' = Reaped, UNCHANGED <<active, started, ended>> PROVE ThreadsAreBounded'
  BY <1>i, <1>r DEF ThreadsAreBounded, Live, Reaped
<1>u. ASSUME UNCHANGED <<active, retired, started>>, ended \subseteq ended'
      PROVE  ThreadsAreBounded'
  BY <1>u DEF ThreadsAreBounded, Live
<1>1. CASE UNCHANGED vars
  BY <1>1, <1>u DEF vars
<1>2. ASSUME NEW c \in Callers, ActiveSender(c) PROVE ThreadsAreBounded'
  BY <1>2, <1>r DEF ActiveSender
<1>3. ASSUME NEW c \in Callers, Send(c) \/ TimeOut(c) \/ Disconnected(c) PROVE ThreadsAreBounded'
  BY <1>3, <1>u DEF Send, TimeOut, Disconnected
<1>4. ASSUME NEW c \in Callers, Recover(c) PROVE ThreadsAreBounded'
  <2>1. CASE Current(c) /\ RoomToRetire /\ active' = started /\ started' = started + 1
             /\ retired' = Reaped \cup {active}
    <3>1. Cardinality(Reaped \cup {active}) <= MaxRetired
      <4>1. \/ Cardinality(Reaped \cup {active}) = Cardinality(Reaped)
            \/ Cardinality(Reaped \cup {active}) = Cardinality(Reaped) + 1
        BY <1>i, FS_AddElement
      <4>2. Cardinality(Reaped) < MaxRetired /\ MaxRetired \in Nat
        BY <2>1, ResolverAssumption DEF RoomToRetire
      <4> QED
        BY <1>i, <4>1, <4>2
    <3>2. Live' \subseteq Live \cup {started}
      <4>1. started \in Nat /\ ended' = ended
        BY <1>4 DEF Recover, TypeOK
      <4>2. 0..(started' - 1) = (0..(started - 1)) \cup {started}
        BY <2>1, <4>1
      <4> QED
        BY <4>1, <4>2 DEF Live
    <3>3. Live \subseteq Reaped \cup {active}
      BY DEF ThreadsAreBounded, Live, Reaped
    <3> QED
      BY <2>1, <3>1, <3>2, <3>3 DEF ThreadsAreBounded
  <2>2. CASE retired' = Reaped /\ UNCHANGED <<active, started>>
    BY <1>4, <1>r, <2>2 DEF Recover
  <2> QED
    BY <1>4, <2>1, <2>2 DEF Recover
<1>5. ASSUME NEW c \in Callers, RecoverFails(c) PROVE ThreadsAreBounded'
  BY <1>5, <1>r DEF RecoverFails
<1>6. ASSUME NEW g \in Generations, Worker(g) \/ Panic(g) PROVE ThreadsAreBounded'
  BY <1>6, <1>u DEF Worker, Take, Answer, End, Panic
<1> QED
  BY <1>1, <1>2, <1>3, <1>4, <1>5, <1>6 DEF Next, Caller

LEMMA HeardStep == TypeOK /\ OnlyStarted /\ WaitIsHeard /\ [Next]_vars => WaitIsHeard'
<1> SUFFICES ASSUME TypeOK, OnlyStarted, WaitIsHeard, [Next]_vars,
                    NEW c \in Callers, pc'[c] = "wait"
             PROVE  \/ gen'[c] \in Panics \cap ended'
                    \/ c \in SeqRange(queue'[gen'[c]]) \cup SeqRange(work'[gen'[c]])
  BY DEF WaitIsHeard
<1> DEFINE Heard == \/ gen'[c] \in Panics \cap ended'
                    \/ c \in SeqRange(queue'[gen'[c]]) \cup SeqRange(work'[gen'[c]])
<1> USE DEF workers
<1>h. pc[c] = "wait" => \/ gen[c] \in Panics \cap ended
                        \/ c \in SeqRange(queue[gen[c]]) \cup SeqRange(work[gen[c]])
  BY DEF WaitIsHeard
<1>t. gen[c] \in Generations /\ queue[gen[c]] \in Seq(Request) /\ work[gen[c]] \in Seq(Request)
  BY DEF TypeOK
<1>u. ASSUME pc[c] = "wait", gen'[c] = gen[c], ended \subseteq ended', UNCHANGED <<queue, work>>
      PROVE  Heard
  BY <1>h, <1>u
<1>1. CASE UNCHANGED vars
  BY <1>1, <1>u DEF vars
<1>2. ASSUME NEW d \in Callers, ActiveSender(d) PROVE Heard
  <2>1. d # c /\ pc[c] = "wait" /\ gen'[c] = gen[c]
    BY <1>2 DEF ActiveSender, TypeOK
  <2> QED
    BY <1>2, <1>u, <2>1 DEF ActiveSender
<1>3. ASSUME NEW d \in Callers, Send(d) PROVE Heard
  <2>1. CASE d = c
    <3>1. queue' = [queue EXCEPT ![gen[c]] = Append(@, c)] /\ gen' = gen
      BY <1>3, <2>1 DEF Send, TypeOK
    <3>2. c \in SeqRange(Append(queue[gen[c]], c))
      <4>1. c \in Request
        BY DEF Request
      <4> QED
        BY <1>t, <4>1, AppendRange
    <3> QED
      BY <1>t, <3>1, <3>2 DEF TypeOK
  <2>2. CASE d # c /\ UNCHANGED queue
    BY <1>3, <1>u, <2>2 DEF Send, TypeOK
  <2>3. CASE d # c /\ queue' = [queue EXCEPT ![gen[d]] = Append(@, d)]
    <3>1. pc[c] = "wait" /\ gen' = gen /\ work' = work /\ ended' = ended
      BY <1>3, <2>3 DEF Send, TypeOK
    <3>2. SeqRange(queue[gen[c]]) \subseteq SeqRange(queue'[gen[c]])
      <4>1. queue[gen[d]] \in Seq(Request) /\ d \in Request
        BY DEF TypeOK, Request
      <4>2. SeqRange(queue[gen[d]]) \subseteq SeqRange(Append(queue[gen[d]], d))
        BY <4>1, AppendRange
      <4> QED
        BY <1>t, <2>3, <4>2 DEF TypeOK
    <3> QED
      BY <1>h, <3>1, <3>2
  <2> QED
    BY <1>3, <2>1, <2>2, <2>3 DEF Send
<1>4. ASSUME NEW d \in Callers, TimeOut(d) PROVE Heard
  <2>1. d # c /\ pc[c] = "wait" /\ gen' = gen /\ ended' = ended
    BY <1>4 DEF TimeOut, TypeOK
  <2>2. \A s \in Seq(Request) : c \in SeqRange(s) => c \in SeqRange(Forget(d, s))
    BY <2>1, ForgetKeeps
  <2>3. queue'[gen[c]] = queue[gen[c]] \/ queue'[gen[c]] = Forget(d, queue[gen[c]])
    BY <1>4, <1>t DEF TimeOut, TypeOK
  <2>4. work'[gen[c]] = work[gen[c]] \/ work'[gen[c]] = Forget(d, work[gen[c]])
    BY <1>4, <1>t DEF TimeOut, TypeOK
  <2> QED
    BY <1>h, <1>t, <2>1, <2>2, <2>3, <2>4
<1>5. ASSUME NEW d \in Callers, Disconnected(d) \/ Recover(d) \/ RecoverFails(d) PROVE Heard
  <2>1. pc[c] = "wait"
    BY <1>5 DEF Disconnected, Recover, RecoverFails, TypeOK
  <2> QED
    BY <1>5, <1>u, <2>1 DEF Disconnected, Recover, RecoverFails
<1>6. ASSUME NEW g \in Generations, Take(g) PROVE Heard
  <2>1. pc[c] = "wait" /\ gen' = gen /\ ended' = ended
    BY <1>6 DEF Take
  <2>2. CASE g = gen[c]
    <3>1. queue'[g] = Tail(queue[g]) /\ work'[g] = <<Head(queue[g])>> /\ work[g] = <<>> /\ queue[g] # <<>>
      BY <1>6 DEF Take, TypeOK
    <3>2. c \in SeqRange(queue[g]) => c \in SeqRange(queue'[g]) \cup SeqRange(work'[g])
      <4>1. SeqRange(<<Head(queue[g])>>) = {Head(queue[g])}
        BY DEF SeqRange
      <4> QED
        BY <1>t, <2>2, <3>1, <4>1, HeadOrTail
    <3>3. SeqRange(work[g]) = {}
      BY <3>1 DEF SeqRange
    <3> QED
      BY <1>h, <2>1, <2>2, <3>2, <3>3
  <2>3. CASE g # gen[c]
    <3>1. queue'[gen[c]] = queue[gen[c]] /\ work'[gen[c]] = work[gen[c]]
      BY <1>6, <1>t, <2>3 DEF Take, TypeOK
    <3> QED
      BY <1>h, <2>1, <3>1
  <2> QED
    BY <2>2, <2>3
<1>7. ASSUME NEW g \in Generations, Answer(g) PROVE Heard
  <2>1. pc[c] = "wait" /\ c # Head(work[g]) /\ gen' = gen /\ ended' = ended /\ queue' = queue
    BY <1>7 DEF Answer
  <2>2. CASE g = gen[c]
    <3>1. work[g] \in Seq(Request) /\ Len(work[g]) <= 1 /\ work[g] # <<>>
      BY <1>7 DEF Answer, TypeOK
    <3>2. c \notin SeqRange(work[g])
      BY <2>1, <3>1 DEF SeqRange
    <3> QED
      BY <1>h, <2>1, <2>2, <3>2
  <2>3. CASE g # gen[c]
    <3>1. work'[gen[c]] = work[gen[c]]
      BY <1>7, <1>t, <2>3 DEF Answer, TypeOK
    <3> QED
      BY <1>h, <2>1, <3>1
  <2> QED
    BY <2>2, <2>3
<1>8. ASSUME NEW g \in Generations, End(g) PROVE Heard
  BY <1>8, <1>u DEF End
<1>9. ASSUME NEW g \in Generations, Panic(g) PROVE Heard
  <2>1. pc[c] = "wait" /\ gen' = gen /\ ended' = ended \cup {g} /\ g \in Panics
    BY <1>9 DEF Panic
  <2>2. CASE g = gen[c]
    BY <2>1, <2>2
  <2>3. CASE g # gen[c]
    <3>1. queue'[gen[c]] = queue[gen[c]] /\ work'[gen[c]] = work[gen[c]]
      BY <1>9, <1>t, <2>3 DEF Panic, TypeOK
    <3> QED
      BY <1>h, <2>1, <3>1
  <2> QED
    BY <2>2, <2>3
<1> QED
  BY <1>1, <1>2, <1>3, <1>4, <1>5, <1>6, <1>7, <1>8, <1>9 DEF Next, Caller, Worker

LEMMA Inductive == IInv /\ [Next]_vars => IInv'
BY TypeStep, BoundStep, HeardStep DEF IInv
-----------------------------------------------------------------------------
\* The inductive invariant, for any number of callers and workers, any length of
\* the queues and any limit.
THEOREM Invariant == Spec => []IInv
<1> QED
  BY InitIInv, Inductive, PTL DEF Spec

\* The limit on retired workers bounds the threads, although lookups that hang
\* cannot be ended (replace_timed_out_worker).
THEOREM ThreadsStayBounded == Spec => []ThreadsAreBounded
<1>1. IInv => ThreadsAreBounded
  BY DEF IInv
<1> QED
  BY <1>1, Invariant, PTL

\* No caller waits for an answer that nobody is going to give or refuse.
THEOREM NoRequestIsLost == Spec => []WaitIsHeard
<1>1. IInv => WaitIsHeard
  BY DEF IInv
<1> QED
  BY <1>1, Invariant, PTL

\* A worker is replaced only on account of a request it was given itself.
THEOREM LateTimeoutsReplaceNothing == Spec => OnlyItsCallersRetire
<1>1. [Next]_vars => [active' # active => \E c \in Callers : pc[c] = "recover" /\ gen[c] = active]_vars
  BY DEF Next, Caller, Worker, ActiveSender, Send, TimeOut, Disconnected, Recover, RecoverFails,
         Current, Take, Answer, End, Panic, workers, vars
<1> QED
  BY <1>1, PTL DEF Spec, OnlyItsCallersRetire

(* A component whose constants are the fields of k.                         *)
App(k) == INSTANCE AppServerManager
  WITH pc <- step, Interval <- k.interval, Drain <- k.drain, Backoff <- k.backoff,
       MaxMarker <- k.markers, Faults <- k.faults
Dial(k) == INSTANCE AppServerConnect
  WITH Addresses <- k.addresses, Timeout <- k.timeout, Unix <- k.unix, Tls <- k.tls,
       Delays <- k.delays
Check(k) == INSTANCE AppServerPreflight
  WITH pc <- stage, result <- verdict, Members <- k.members, SpawnAttempts <- k.attempts,
       Faults <- k.faults

-----------------------------------------------------------------------------
(* The manager: what the connector reports of the app-server between two   *)
(* calls is what it advertises, it never runs two processes, it forgets no *)
(* upgrade, and it takes no process from under a turn before the drain     *)
(* timeout.  A call is a sequence of steps between which the process,      *)
(* other listeners and the time go on.  The invariant says what each step  *)
(* may rely on of those before it: a restart is taken from `pending` only  *)
(* where it will be carried out or put back, and from the moment a turn    *)
(* was found drained until the call returns the drain timeout stays        *)
(* passed.                                                                 *)

(* The inductive invariant.                                                *)

\* Between calls, and until the next one has looked at the schedule, the
\* reports are those of the last call, and a restart that is pending shows.
ReportsStand ==
    /\ step \in {"idle", "schedule"} =>
         /\ url <=> state = "healthy"
         /\ state # "restarting"
         /\ state = "draining" => pending # None
         /\ pending # None => state \in {"draining", "degraded"}
    /\ step = "idle" /\ state = "draining" => turn

\* Which restart the steps of a call are about.
RestartIsKnown ==
    /\ (step = "inspect" /\ call.next = "advance") \/ step = "advance" => pending # None
    /\ step = "block" /\ call.deferred => child = None
    /\ \/ step \in {"stop", "reblock", "ensure", "probe", "restop", "spawn", "wait"}
       \/ step = "inspect" /\ call.next = "ensure"
       => pending = None

\* The steps that may find no process.
ProcessIsGone == step \in {"reblock", "spawn"} => child = None

\* A process older than the last upgrade noticed is replaced for that upgrade,
\* which is pending unless the call is about to stop the process.
UpgradeStays ==
    child # None /\ child.marker < seen =>
        pending = "upgrade" \/ (step = "stop" /\ call.restart = "upgrade")

\* From the decision to restart on, a turn that runs has had its time.
Restarting ==
    \/ step \in {"block", "stop", "reblock", "ensure", "probe", "restop", "spawn", "wait"}
    \/ step = "inspect" /\ call.next = "ensure"
TurnIsDrained == Restarting /\ turn => drain = 0

ManagerInv(k) ==
    /\ App(k)!TypeOK /\ App(k)!AppServerManagerAssumption
    /\ seen <= marker
    /\ ReportsStand /\ RestartIsKnown /\ ProcessIsGone
    /\ UpgradeStays /\ TurnIsDrained
    /\ App(k)!NoOrphan

-----------------------------------------------------------------------------
(* What the types say.                                                     *)

LEMMA Constants ==
    ASSUME NEW k, App(k)!AppServerManagerAssumption
    PROVE  /\ k.interval \in Nat /\ k.drain \in Nat /\ k.backoff \in Nat
           /\ None \notin Nat /\ "scheduled" # None /\ "upgrade" # None
           /\ \A p \in App(k)!Processes : p # None
BY DEF App!AppServerManagerAssumption, App!Reasons

LEMMA CallFields ==
    ASSUME NEW k, NEW c \in App(k)!Calls, NEW b \in BOOLEAN, NEW d \in BOOLEAN,
           NEW r \in App(k)!Reasons \cup {None}, NEW n \in {"advance", "ensure"}
    PROVE  /\ [c EXCEPT !.next = n] \in App(k)!Calls
           /\ [c EXCEPT !.restart = r] \in App(k)!Calls
           /\ [c EXCEPT !.forced = b, !.deferred = d] \in App(k)!Calls
           /\ [c EXCEPT !.forced = b, !.deferred = d].deferred = d
           /\ App(k)!NoCall \in App(k)!Calls /\ [App(k)!NoCall EXCEPT !.next = n] \in App(k)!Calls
BY DEF App!Calls, App!NoCall, App!Reasons

LEMMA ClockTypes ==
    ASSUME NEW k, App(k)!TypeOK, App(k)!AppServerManagerAssumption
    PROVE  /\ App(k)!Minus(drain) \in Nat /\ App(k)!Minus(backoff) \in Nat
           /\ App(k)!Minus(schedule) \in Nat \cup {None}
           /\ App(k)!Armed \in Nat \cup {None} /\ App(k)!NextSchedule \in Nat \cup {None}
<1>1. \A t \in Nat : App(k)!Minus(t) \in Nat
  BY DEF App!Minus
<1>2. App(k)!Minus(None) = None
  BY Constants DEF App!Minus
<1>3. App(k)!Armed \in Nat \cup {None}
  BY Constants DEF App!Armed
<1>4. App(k)!NextSchedule \in Nat \cup {None}
  BY Constants DEF App!NextSchedule, App!Due, App!TypeOK
<1> QED
  BY <1>1, <1>2, <1>3, <1>4 DEF App!TypeOK

LEMMA RequestTypes ==
    ASSUME NEW k, App(k)!TypeOK, NEW p \in App(k)!Reasons \cup {None}, NEW r \in App(k)!Reasons
    PROVE  App(k)!AfterRequest(p, r) \in App(k)!Reasons
BY DEF App!AfterRequest, App!Reasons

\* What may happen to the process: it stays, is gone, or moves.
LEMMA ProcessTypes ==
    ASSUME NEW k, App(k)!TypeOK, NEW s \in {"starting", "up", "sick", "exited"}
    PROVE  /\ child # None => [child EXCEPT !.status = s] \in App(k)!Processes
                              /\ [child EXCEPT !.status = s].marker = child.marker
           /\ [status |-> s, marker |-> marker] \in App(k)!Processes
BY DEF App!TypeOK, App!Processes

-----------------------------------------------------------------------------
(* The connector, the time, and the rest of the machine.                   *)

LEMMA ConnectorKeeps ==
    ASSUME NEW k, ManagerInv(k), App(k)!Call \/ App(k)!BeginTurn \/ App(k)!FinishTurn
    PROVE  ManagerInv(k)'
<1> USE DEF ManagerInv
<1>1. App(k)!TypeOK'
  BY DEF App!Call, App!BeginTurn, App!FinishTurn, App!TypeOK,
     App!Steps, App!process, App!clock, App!environment, App!report
<1>2. ReportsStand' /\ UpgradeStays' /\ App(k)!NoOrphan' /\ seen' <= marker'
  BY DEF App!Call, App!BeginTurn, App!FinishTurn, ReportsStand, UpgradeStays,
     App!NoOrphan, App!process, App!clock,
     App!environment, App!report
<1>3. RestartIsKnown' /\ ProcessIsGone' /\ TurnIsDrained'
  BY DEF App!Call, App!BeginTurn, App!FinishTurn, RestartIsKnown,
     ProcessIsGone, TurnIsDrained, Restarting,
     App!process, App!clock, App!environment, App!report
<1> QED
  BY <1>1, <1>2, <1>3

LEMMA TickKeeps ==
    ASSUME NEW k, ManagerInv(k), App(k)!Tick
    PROVE  ManagerInv(k)'
<1> USE DEF ManagerInv
<1>1. App(k)!TypeOK'
  BY ClockTypes DEF App!Tick, App!TypeOK, App!process, App!environment,
     App!report
<1>2. drain = 0 => drain' = 0
  BY DEF App!Tick, App!Minus
<1>3. ReportsStand' /\ UpgradeStays' /\ App(k)!NoOrphan' /\ seen' <= marker'
  BY DEF App!Tick, ReportsStand, UpgradeStays, App!NoOrphan, App!process,
     App!environment, App!report
<1>4. RestartIsKnown' /\ ProcessIsGone' /\ TurnIsDrained'
  BY <1>2 DEF App!Tick, RestartIsKnown, ProcessIsGone, TurnIsDrained, Restarting,
     App!process,
     App!environment, App!report
<1> QED
  BY <1>1, <1>3, <1>4

LEMMA ChildMovesKeeps ==
    ASSUME NEW k, ManagerInv(k), App(k)!ChildMoves
    PROVE  ManagerInv(k)'
<1> USE DEF ManagerInv
<1>1. PICK s \in {"up", "sick", "exited"} : child' = [child EXCEPT !.status = s]
  BY DEF App!ChildMoves
<1>2. child # None /\ child' \in App(k)!Processes /\ child' # None /\ child'.marker = child.marker
  BY <1>1, ProcessTypes, Constants DEF App!ChildMoves, App!Alive
<1>3. App(k)!TypeOK'
  BY <1>2 DEF App!ChildMoves, App!TypeOK, App!clock, App!environment,
     App!report
<1>4. ReportsStand' /\ UpgradeStays' /\ App(k)!NoOrphan' /\ seen' <= marker'
  BY <1>2 DEF App!ChildMoves, ReportsStand, UpgradeStays, App!NoOrphan,
     App!clock, App!environment, App!report
<1>5. RestartIsKnown' /\ ProcessIsGone' /\ TurnIsDrained'
  BY <1>2 DEF App!ChildMoves, RestartIsKnown, ProcessIsGone, TurnIsDrained, Restarting,
     App!clock,
     App!environment, App!report
<1> QED
  BY <1>3, <1>4, <1>5

LEMMA OutsideKeeps ==
    ASSUME NEW k, ManagerInv(k), App(k)!ForeignMoves \/ App(k)!WriteMarker \/ App(k)!Shutdown
    PROVE  ManagerInv(k)'
<1> USE DEF ManagerInv
<1>1. App(k)!TypeOK'
  <2>1. CASE App(k)!ForeignMoves
    BY <2>1 DEF App!ForeignMoves, App!TypeOK, App!process, App!clock,
       App!report
  <2>2. CASE App(k)!WriteMarker
    BY <2>2 DEF App!WriteMarker, App!TypeOK, App!process, App!clock,
       App!report
  <2>3. CASE App(k)!Shutdown
    BY <2>3 DEF App!Shutdown, App!TypeOK, App!process, App!clock,
       App!report
  <2> QED
    BY <2>1, <2>2, <2>3
<1>2. ReportsStand' /\ UpgradeStays' /\ App(k)!NoOrphan'
  BY DEF App!ForeignMoves, App!WriteMarker, App!Shutdown, ReportsStand,
     UpgradeStays, App!NoOrphan, App!process, App!clock,
     App!report
<1>3. seen' <= marker'
  BY DEF App!ForeignMoves, App!WriteMarker, App!Shutdown, App!TypeOK
<1>4. RestartIsKnown' /\ ProcessIsGone' /\ TurnIsDrained'
  BY DEF App!ForeignMoves, App!WriteMarker, App!Shutdown, RestartIsKnown,
     ProcessIsGone, TurnIsDrained,
     Restarting, App!process, App!clock, App!report
<1> QED
  BY <1>1, <1>2, <1>3, <1>4

-----------------------------------------------------------------------------
(* The steps of a call.                                                    *)

LEMMA ScheduleKeeps ==
    ASSUME NEW k, ManagerInv(k), App(k)!Schedule
    PROVE  ManagerInv(k)'
<1> USE DEF ManagerInv
<1> DEFINE periodic == IF App(k)!Due /\ k.interval > 0
                       THEN App(k)!AfterRequest(pending, "scheduled") ELSE pending
           upgraded == IF marker > seen THEN App(k)!AfterRequest(periodic, "upgrade") ELSE periodic
<1>1. periodic \in App(k)!Reasons \cup {None} /\ upgraded \in App(k)!Reasons \cup {None}
  BY RequestTypes DEF App!TypeOK, App!Reasons
<1>2. /\ pending # None => upgraded # None
      /\ pending = "upgrade" => upgraded = "upgrade"
      /\ marker > seen => upgraded = "upgrade"
  BY <1>1, Constants DEF App!AfterRequest, App!TypeOK, App!Reasons
<1>3. pending' = upgraded /\ drain' = App(k)!Requested(upgraded)
  BY DEF App!Schedule
<1> HIDE DEF periodic, upgraded
<1>4. IF upgraded # pending
      THEN App(k)!SetState(IF turn THEN "draining" ELSE "restarting", FALSE)
      ELSE UNCHANGED <<state, detail>>
  BY DEF App!Schedule, upgraded, periodic
<1>5. IF upgraded = None /\ turn
      THEN step' = "idle" /\ UNCHANGED call
      ELSE /\ step' = "inspect"
           /\ call' = [call EXCEPT !.next = IF upgraded = None THEN "ensure" ELSE "advance"]
  BY DEF App!Schedule, upgraded, periodic
<1>6. /\ step = "schedule" /\ schedule' = App(k)!NextSchedule
      /\ seen' = IF marker > seen THEN marker ELSE seen
      /\ UNCHANGED <<child, orphaned, url, turn, backoff, foreign, marker, shutdown>>
  BY DEF App!Schedule, App!process, App!environment
<1>7. App(k)!TypeOK'
  <2>1. drain' \in Nat /\ schedule' \in Nat \cup {None}
    BY <1>3, <1>6, ClockTypes, Constants DEF App!Requested, App!TypeOK
  <2>2. call' \in App(k)!Calls /\ step' \in App(k)!Steps
    <3>1. call \in App(k)!Calls
      BY DEF App!TypeOK
    <3>2. CASE upgraded = None /\ turn
      <4>1. step' = "idle" /\ call' = call
        BY <1>5, <3>2
      <4> QED
        BY <3>1, <4>1 DEF App!Steps
    <3>3. CASE ~(upgraded = None /\ turn)
      <4>1. call' \in App(k)!Calls
        <5>1. call' = [call EXCEPT !.next = IF upgraded = None THEN "ensure" ELSE "advance"]
          BY <1>5, <3>3
        <5>2. (IF upgraded = None THEN "ensure" ELSE "advance") \in {"ensure", "advance"}
          OBVIOUS
        <5> QED
          BY <3>1, <5>1, <5>2, CallFields
      <4>2. step' = "inspect"
        BY <1>5, <3>3
      <4> QED
        BY <4>1, <4>2 DEF App!Steps
    <3> QED
      BY <3>2, <3>3
  <2>3. state' \in App(k)!States /\ detail' \in BOOLEAN
    BY <1>4 DEF App!SetState, App!States, App!TypeOK
  <2> QED
    BY <1>1, <1>3, <1>6, <2>1, <2>2, <2>3 DEF App!TypeOK
<1>8. ReportsStand'
  <2>1. step' \in {"idle", "inspect"}
    BY <1>5
  <2>2. step' = "idle" => upgraded = None /\ pending = None /\ turn
    BY <1>2, <1>5
  <2> QED
    BY <1>3, <1>4, <1>6, <2>1, <2>2 DEF ReportsStand
<1>9. seen' <= marker' /\ App(k)!NoOrphan'
  BY <1>6 DEF App!TypeOK, App!NoOrphan
<1>10. UpgradeStays'
  BY <1>2, <1>3, <1>6 DEF UpgradeStays
<1>11. RestartIsKnown' /\ ProcessIsGone' /\ TurnIsDrained'
  <2>1. CASE upgraded = None /\ turn
    BY <1>5, <2>1 DEF RestartIsKnown, ProcessIsGone, TurnIsDrained, Restarting
  <2>2. CASE ~(upgraded = None /\ turn)
    <3>1. step' = "inspect" /\ call'.next = IF upgraded = None THEN "ensure" ELSE "advance"
      BY <1>5, <2>2 DEF App!TypeOK, App!Calls
    <3> QED
      BY <1>3, <1>6, <2>2, <3>1 DEF RestartIsKnown, ProcessIsGone, TurnIsDrained, Restarting
  <2> QED
    BY <2>1, <2>2
<1> QED
  BY <1>7, <1>8, <1>9, <1>10, <1>11

LEMMA InspectKeeps ==
    ASSUME NEW k, ManagerInv(k), App(k)!Inspect
    PROVE  ManagerInv(k)'
<1> USE DEF ManagerInv
<1>1. /\ step = "inspect" /\ step' = call.next /\ step' \in {"advance", "ensure"}
      /\ UNCHANGED <<call, url, turn, pending, drain, schedule, seen, foreign, marker, shutdown>>
  BY DEF App!Inspect, App!environment, App!TypeOK, App!Calls
<1>2. orphaned' = orphaned /\ (child' = child \/ child' = None)
  BY DEF App!Inspect, App!Stopped, App!StopFails, App!process
<1>3. state' \in App(k)!States /\ detail' \in BOOLEAN /\ backoff' \in Nat
  BY Constants DEF App!Inspect, App!SetState, App!States, App!TypeOK
<1>4. App(k)!TypeOK'
  BY <1>1, <1>2, <1>3 DEF App!TypeOK, App!Steps
<1>5. ReportsStand' /\ seen' <= marker' /\ App(k)!NoOrphan'
  BY <1>1, <1>2 DEF ReportsStand, App!NoOrphan
<1>6. UpgradeStays'
  BY <1>1, <1>2 DEF UpgradeStays
<1>7. RestartIsKnown' /\ ProcessIsGone' /\ TurnIsDrained'
  BY <1>1 DEF RestartIsKnown, ProcessIsGone, TurnIsDrained, Restarting
<1> QED
  BY <1>4, <1>5, <1>6, <1>7

LEMMA AdvanceKeeps ==
    ASSUME NEW k, ManagerInv(k), App(k)!Advance
    PROVE  ManagerInv(k)'
<1> USE DEF ManagerInv
<1> DEFINE deferred == pending = "scheduled" /\ child = None /\ backoff > 0
<1>1. /\ step = "advance" /\ pending # None
      /\ UNCHANGED <<child, orphaned, turn, pending, drain, backoff, seen, foreign, marker,
                     shutdown>>
  BY DEF App!Advance, App!process, App!environment, RestartIsKnown
<1>2. CASE turn /\ (deferred \/ ~App(k)!Forced)
  <2>1. /\ App(k)!SetState("draining", FALSE) /\ App(k)!Return(FALSE)
        /\ schedule' = IF deferred THEN backoff ELSE schedule
    BY <1>2 DEF App!Advance, App!OfferedInDrain
  <2>2. step' = "idle" /\ call' = App(k)!NoCall /\ url' = FALSE /\ state' = "draining" /\ detail' = FALSE
    BY <2>1 DEF App!Return, App!SetState
  <2>3. App(k)!TypeOK'
    BY <1>1, <2>1, <2>2, CallFields DEF App!TypeOK, App!Steps, App!States
  <2>4. ReportsStand' /\ seen' <= marker' /\ App(k)!NoOrphan'
    BY <1>1, <1>2, <2>2 DEF ReportsStand, App!NoOrphan
  <2>5. UpgradeStays'
    BY <1>1, <2>2 DEF UpgradeStays
  <2>6. RestartIsKnown' /\ ProcessIsGone' /\ TurnIsDrained'
    BY <2>2 DEF RestartIsKnown, ProcessIsGone, TurnIsDrained, Restarting
  <2> QED
    BY <2>3, <2>4, <2>5, <2>6
<1>3. CASE ~(turn /\ (deferred \/ ~App(k)!Forced))
  <2>1. /\ step' = "block" /\ call' = [call EXCEPT !.forced = App(k)!Forced, !.deferred = deferred]
        /\ UNCHANGED <<state, detail, url, schedule>>
    BY <1>3 DEF App!Advance, App!report
  <2>2. call' \in App(k)!Calls /\ call'.deferred = deferred
    <3>1. App(k)!Forced \in BOOLEAN /\ deferred \in BOOLEAN
      BY DEF App!Forced, App!TypeOK
    <3> HIDE DEF deferred
    <3> QED
      BY <2>1, <3>1, CallFields DEF App!TypeOK
  <2>3. App(k)!TypeOK'
    BY <1>1, <2>1, <2>2 DEF App!TypeOK, App!Steps
  <2>4. ReportsStand' /\ seen' <= marker' /\ App(k)!NoOrphan'
    BY <1>1, <2>1 DEF ReportsStand, App!NoOrphan
  <2>5. UpgradeStays'
    BY <1>1, <2>1 DEF UpgradeStays
  <2>6. RestartIsKnown' /\ ProcessIsGone' /\ TurnIsDrained'
    BY <1>1, <1>3, <2>1, <2>2 DEF RestartIsKnown, ProcessIsGone, TurnIsDrained, App!Forced
  <2> QED
    BY <2>3, <2>4, <2>5, <2>6
<1> QED
  BY <1>2, <1>3

\* What the end of ensure_ready does to everything but the process.
LEMMA ReadyEnds ==
    ASSUME NEW k, ManagerInv(k), NEW ok \in BOOLEAN, NEW s \in {"healthy", "degraded", "stopped"},
           ok <=> s = "healthy", App(k)!Ready(ok, s)
    PROVE  /\ step' = "idle" /\ call' = App(k)!NoCall /\ url' = ok
           /\ schedule' \in Nat \cup {None}
           /\ state' \in {"healthy", "degraded", "stopped"} /\ detail' \in BOOLEAN
           /\ url' <=> state' = "healthy"
<1>1. step' = "idle" /\ call' = App(k)!NoCall /\ url' = ok
  BY DEF App!Ready, App!Return
<1>2. schedule' \in Nat \cup {None}
  BY ClockTypes DEF ManagerInv, App!Ready, App!TypeOK
<1>3. CASE call.forced
  BY <1>1, <1>2, <1>3 DEF App!Ready, App!SetState
<1>4. CASE ~call.forced
  BY <1>1, <1>2, <1>4 DEF App!Ready, App!SetState
<1> QED
  BY <1>3, <1>4

\* A step that returns, and leaves the restarts as they are.
LEMMA ReturnKeeps ==
    ASSUME NEW k, ManagerInv(k), step \in {"ensure", "probe", "restop", "spawn", "wait"},
           step' = "idle", call' = App(k)!NoCall, url' \in BOOLEAN,
           state' \in {"healthy", "degraded", "stopped"}, detail' \in BOOLEAN,
           url' <=> state' = "healthy",
           schedule' \in Nat \cup {None}, backoff' \in Nat,
           child' = child \/ child' = None,
           UNCHANGED <<orphaned, turn, pending, drain, seen, foreign, marker, shutdown>>
    PROVE  ManagerInv(k)'
<1> USE DEF ManagerInv
<1>1. App(k)!TypeOK'
  <2>1. App(k)!NoCall \in App(k)!Calls
    BY DEF App!NoCall, App!Calls
  <2>2. step' \in App(k)!Steps /\ call' \in App(k)!Calls /\ state' \in App(k)!States
    BY <2>1 DEF App!Steps, App!States
  <2>3. child' \in App(k)!Processes \cup {None} /\ pending' \in App(k)!Reasons \cup {None}
    BY DEF App!TypeOK
  <2> QED
    BY <2>2, <2>3 DEF App!TypeOK
<1>2. ReportsStand' /\ seen' <= marker' /\ App(k)!NoOrphan'
  BY DEF ReportsStand, RestartIsKnown, App!NoOrphan
<1>3. UpgradeStays'
  BY DEF UpgradeStays
<1>4. RestartIsKnown' /\ ProcessIsGone' /\ TurnIsDrained'
  BY DEF RestartIsKnown, ProcessIsGone, TurnIsDrained, Restarting
<1> QED
  BY <1>1, <1>2, <1>3, <1>4

\* A step on to the next one of ensure_ready.
LEMMA GoesOnKeeps ==
    ASSUME NEW k, ManagerInv(k), step \in {"ensure", "probe", "restop", "spawn"},
           step' \in {"probe", "restop", "spawn", "wait"},
           step' = "spawn" => child' = None,
           state' \in App(k)!States, detail' \in BOOLEAN,
           child' \in App(k)!Processes \cup {None},
           child' = child \/ child' = None \/ child'.marker = marker,
           UNCHANGED <<call, url, orphaned, turn, pending, drain, schedule, backoff, seen, foreign,
                       marker, shutdown>>
    PROVE  ManagerInv(k)'
<1> USE DEF ManagerInv
<1>1. App(k)!TypeOK'
  BY DEF App!TypeOK, App!Steps
<1>2. ReportsStand' /\ seen' <= marker' /\ App(k)!NoOrphan'
  BY DEF ReportsStand, App!NoOrphan
<1>3. UpgradeStays'
  BY DEF UpgradeStays, App!TypeOK
<1>4. RestartIsKnown' /\ ProcessIsGone' /\ TurnIsDrained'
  BY DEF RestartIsKnown, ProcessIsGone, TurnIsDrained, Restarting
<1> QED
  BY <1>1, <1>2, <1>3, <1>4

LEMMA EnsureKeeps ==
    ASSUME NEW k, ManagerInv(k), App(k)!Ensure
    PROVE  ManagerInv(k)'
<1>1. /\ step = "ensure"
      /\ UNCHANGED <<child, orphaned, turn, pending, drain, backoff, seen, foreign, marker,
                     shutdown>>
  BY DEF App!Ensure, App!process, App!environment
<1>t. App(k)!TypeOK
  BY DEF ManagerInv
<1>2. CASE App(k)!Answers /\ App(k)!Ready(TRUE, "healthy")
  <2>1. /\ step' = "idle" /\ call' = App(k)!NoCall /\ url' \in BOOLEAN
        /\ schedule' \in Nat \cup {None}
        /\ state' \in {"healthy", "degraded", "stopped"} /\ detail' \in BOOLEAN
        /\ url' <=> state' = "healthy"
    BY <1>2, ReadyEnds
  <2> QED
    BY <1>1, <1>t, <2>1, ReturnKeeps DEF App!TypeOK
<1>3. CASE ~App(k)!Answers /\ step' = "probe" /\ UNCHANGED <<call, App(k)!report, schedule>>
  BY <1>1, <1>3, <1>t, GoesOnKeeps DEF App!report, App!TypeOK
<1> QED
  BY <1>2, <1>3 DEF App!Ensure

LEMMA ProbeKeeps ==
    ASSUME NEW k, ManagerInv(k), App(k)!Probe
    PROVE  ManagerInv(k)'
<1>1. /\ step = "probe"
      /\ UNCHANGED <<child, orphaned, turn, pending, drain, backoff, seen, foreign, marker,
                     shutdown>>
  BY DEF App!Probe, App!process, App!environment
<1>t. App(k)!TypeOK
  BY DEF ManagerInv
<1>2. ASSUME NEW s \in {"degraded", "stopped"}, App(k)!Ready(FALSE, s)
      PROVE  ManagerInv(k)'
  <2>1. /\ step' = "idle" /\ call' = App(k)!NoCall /\ url' \in BOOLEAN
        /\ schedule' \in Nat \cup {None}
        /\ state' \in {"healthy", "degraded", "stopped"} /\ detail' \in BOOLEAN
        /\ url' <=> state' = "healthy"
    BY <1>2, ReadyEnds
  <2> QED
    BY <1>1, <1>t, <2>1, ReturnKeeps DEF App!TypeOK
<1>3. CASE /\ state = "degraded" /\ detail /\ ~call.forced
           /\ App(k)!Return(FALSE) /\ UNCHANGED <<state, detail, schedule>>
  BY <1>1, <1>3, <1>t, ReturnKeeps DEF App!Return, App!TypeOK
<1>4. CASE /\ IF child # None
              THEN step' = "restop" /\ App(k)!SetState("restarting", FALSE)
              ELSE step' = "spawn" /\ UNCHANGED <<state, detail>>
           /\ UNCHANGED <<call, url, schedule>>
  BY <1>1, <1>4, <1>t, GoesOnKeeps DEF App!SetState, App!TypeOK, App!States
<1> QED
  BY <1>2, <1>3, <1>4 DEF App!Probe

LEMMA RestopKeeps ==
    ASSUME NEW k, ManagerInv(k), App(k)!Restop
    PROVE  ManagerInv(k)'
<1>1. /\ step = "restop"
      /\ UNCHANGED <<turn, pending, drain, seen, foreign, marker, shutdown>>
  BY DEF App!Restop, App!environment
<1>t. App(k)!TypeOK /\ k.backoff \in Nat
  BY Constants DEF ManagerInv
<1>2. CASE App(k)!Stopped /\ step' = "spawn" /\ UNCHANGED <<call, App(k)!report, schedule, backoff>>
  BY <1>1, <1>2, <1>t, GoesOnKeeps DEF App!Stopped, App!report, App!TypeOK
<1>3. CASE App(k)!StopFails /\ App(k)!Fails("degraded")
  <2>1. /\ step' = "idle" /\ call' = App(k)!NoCall /\ url' \in BOOLEAN
        /\ schedule' \in Nat \cup {None}
        /\ state' \in {"healthy", "degraded", "stopped"} /\ detail' \in BOOLEAN
        /\ url' <=> state' = "healthy"
    BY <1>3, ReadyEnds DEF App!Fails
  <2> QED
    BY <1>1, <1>3, <1>t, <2>1, ReturnKeeps DEF App!StopFails, App!Fails,
       App!process, App!TypeOK
<1> QED
  BY <1>2, <1>3 DEF App!Restop

LEMMA SpawnKeeps ==
    ASSUME NEW k, ManagerInv(k), App(k)!Spawn
    PROVE  ManagerInv(k)'
<1>1. /\ step = "spawn" /\ child = None
      /\ UNCHANGED <<turn, pending, drain, seen, foreign, marker, shutdown>>
  BY DEF App!Spawn, App!environment, ManagerInv, ProcessIsGone
<1>t. App(k)!TypeOK /\ k.backoff \in Nat
  BY Constants DEF ManagerInv
<1>2. CASE /\ child' = [status |-> "starting", marker |-> marker]
           /\ orphaned' = (orphaned \/ App(k)!Alive)
           /\ step' = "wait"
           /\ UNCHANGED <<call, App(k)!report, schedule, backoff>>
  <2>1. child' \in App(k)!Processes /\ child'.marker = marker
    BY <1>2, <1>t, ProcessTypes
  <2>2. orphaned' = orphaned
    BY <1>1, <1>2, <1>t DEF App!Alive, App!TypeOK
  <2> QED
    BY <1>1, <1>2, <1>t, <2>1, <2>2, GoesOnKeeps DEF App!report, App!TypeOK
<1>3. CASE App(k)!Fails("degraded") /\ UNCHANGED App(k)!process
  <2>1. /\ step' = "idle" /\ call' = App(k)!NoCall /\ url' \in BOOLEAN
        /\ schedule' \in Nat \cup {None}
        /\ state' \in {"healthy", "degraded", "stopped"} /\ detail' \in BOOLEAN
        /\ url' <=> state' = "healthy"
    BY <1>3, ReadyEnds DEF App!Fails
  <2> QED
    BY <1>1, <1>3, <1>t, <2>1, ReturnKeeps DEF App!Fails, App!process, App!TypeOK
<1> QED
  BY <1>2, <1>3 DEF App!Spawn

LEMMA WaitKeeps ==
    ASSUME NEW k, ManagerInv(k), App(k)!Wait
    PROVE  ManagerInv(k)'
<1>1. /\ step = "wait"
      /\ UNCHANGED <<turn, pending, drain, seen, foreign, marker, shutdown>>
  BY DEF App!Wait, App!environment
<1>t. App(k)!TypeOK /\ k.backoff \in Nat
  BY Constants DEF ManagerInv
<1>2. ASSUME NEW ok \in BOOLEAN, NEW s \in {"healthy", "degraded"}, ok <=> s = "healthy",
             App(k)!Ready(ok, s), backoff' \in Nat, orphaned' = orphaned, child' = child \/ child' = None
      PROVE  ManagerInv(k)'
  <2>1. /\ step' = "idle" /\ call' = App(k)!NoCall /\ url' \in BOOLEAN
        /\ schedule' \in Nat \cup {None}
        /\ state' \in {"healthy", "degraded", "stopped"} /\ detail' \in BOOLEAN
        /\ url' <=> state' = "healthy"
    BY <1>2, ReadyEnds
  <2> QED
    BY <1>1, <1>2, <2>1, ReturnKeeps
<1>3. CASE App(k)!Ready(TRUE, "healthy") /\ UNCHANGED <<App(k)!process, backoff>>
  BY <1>2, <1>3, <1>t DEF App!process, App!TypeOK
<1>4. CASE App(k)!StopFails /\ App(k)!Ready(TRUE, "healthy") /\ backoff' = k.backoff
  BY <1>2, <1>4, <1>t DEF App!StopFails, App!process
<1>5. CASE (App(k)!Stopped \/ App(k)!StopFails) /\ App(k)!Fails("degraded")
  BY <1>2, <1>5, <1>t DEF App!Fails, App!Stopped, App!StopFails, App!process
<1> QED
  BY <1>3, <1>4, <1>5 DEF App!Wait

LEMMA BlockKeeps ==
    ASSUME NEW k, ManagerInv(k), App(k)!Block
    PROVE  ManagerInv(k)'
<1> USE DEF ManagerInv
<1>1. /\ step = "block"
      /\ UNCHANGED <<child, orphaned, turn, drain, seen, foreign, marker, shutdown>>
  BY DEF App!Block, App!process, App!environment
<1>2. CASE /\ App(k)!Blocked
           /\ App(k)!SetState("degraded", FALSE) /\ App(k)!Return(FALSE)
           /\ UNCHANGED <<pending, schedule, backoff>>
  <2>1. /\ step' = "idle" /\ call' = App(k)!NoCall /\ url' = FALSE /\ state' = "degraded" /\ detail' = FALSE
    BY <1>2 DEF App!Return, App!SetState
  <2>2. App(k)!TypeOK'
    BY <1>1, <1>2, <2>1, CallFields DEF App!TypeOK, App!Steps, App!States
  <2>3. ReportsStand' /\ seen' <= marker' /\ App(k)!NoOrphan' /\ UpgradeStays'
    BY <1>1, <1>2, <2>1 DEF ReportsStand, App!NoOrphan, UpgradeStays
  <2>4. RestartIsKnown' /\ ProcessIsGone' /\ TurnIsDrained'
    BY <2>1 DEF RestartIsKnown, ProcessIsGone, TurnIsDrained, Restarting
  <2> QED
    BY <2>2, <2>3, <2>4
<1>3. CASE /\ call.deferred
           /\ pending' = None
           /\ schedule' = backoff
           /\ step' = "inspect" /\ call' = [App(k)!NoCall EXCEPT !.next = "ensure"]
           /\ UNCHANGED <<App(k)!report, backoff>>
  <2>1. child = None /\ call'.next = "ensure"
    BY <1>1, <1>3 DEF RestartIsKnown, App!NoCall
  <2>2. App(k)!TypeOK'
    BY <1>1, <1>3, CallFields DEF App!TypeOK, App!Steps, App!report
  <2>3. ReportsStand' /\ seen' <= marker' /\ App(k)!NoOrphan' /\ UpgradeStays'
    BY <1>1, <1>3, <2>1 DEF ReportsStand, App!NoOrphan, UpgradeStays
  <2>4. RestartIsKnown' /\ ProcessIsGone' /\ TurnIsDrained'
    BY <1>1, <1>3, <2>1 DEF RestartIsKnown, ProcessIsGone, TurnIsDrained, Restarting
  <2> QED
    BY <2>2, <2>3, <2>4
<1>4. CASE /\ pending' = None
           /\ schedule' = App(k)!Armed
           /\ backoff' = IF child # None \/ call.forced \/ pending = "upgrade" THEN 0 ELSE backoff
           /\ App(k)!SetState("restarting", call.forced)
           /\ step' = "stop" /\ call' = [call EXCEPT !.restart = pending]
           /\ UNCHANGED url
  <2>1. call' \in App(k)!Calls /\ call'.restart = pending /\ call.forced \in BOOLEAN
    BY <1>4, CallFields DEF App!TypeOK, App!Calls
  <2>2. state' = "restarting" /\ detail' = call.forced /\ backoff' \in Nat
    BY <1>4 DEF App!SetState, App!TypeOK
  <2>3. App(k)!TypeOK'
    BY <1>1, <1>4, <2>1, <2>2, ClockTypes DEF App!TypeOK, App!Steps, App!States
  <2>4. ReportsStand' /\ seen' <= marker' /\ App(k)!NoOrphan'
    BY <1>1, <1>4 DEF ReportsStand, App!NoOrphan
  <2>5. UpgradeStays'
    BY <1>1, <1>4, <2>1 DEF UpgradeStays
  <2>6. RestartIsKnown' /\ ProcessIsGone' /\ TurnIsDrained'
    BY <1>1, <1>4 DEF RestartIsKnown, ProcessIsGone, TurnIsDrained, Restarting
  <2> QED
    BY <2>3, <2>4, <2>5, <2>6
<1> QED
  BY <1>2, <1>3, <1>4 DEF App!Block

\* A restart that was taken up and could not be carried out is pending again.
LEMMA PutBackKeeps ==
    ASSUME NEW k, ManagerInv(k), step \in {"stop", "reblock"}, step = "reblock" => child = None,
           pending' = call.restart, App(k)!SetState("degraded", FALSE), App(k)!Return(FALSE),
           UNCHANGED <<App(k)!process, turn, App(k)!clock, seen, App(k)!environment>>
    PROVE  ManagerInv(k)'
<1> USE DEF ManagerInv
<1>1. step' = "idle" /\ call' = App(k)!NoCall /\ url' = FALSE /\ state' = "degraded" /\ detail' = FALSE
  BY DEF App!Return, App!SetState
<1>2. App(k)!TypeOK'
  <2>1. call \in App(k)!Calls /\ App(k)!NoCall \in App(k)!Calls
    BY CallFields DEF App!TypeOK
  <2>2. call.restart \in App(k)!Reasons \cup {None}
    BY <2>1 DEF App!Calls
  <2>3. UNCHANGED <<child, orphaned, drain, schedule, backoff, foreign, marker, shutdown>>
    BY DEF App!process, App!clock, App!environment
  <2> QED
    BY <1>1, <2>1, <2>2, <2>3 DEF App!TypeOK, App!Steps, App!States
<1>3. ReportsStand' /\ seen' <= marker' /\ App(k)!NoOrphan'
  BY <1>1 DEF ReportsStand, App!NoOrphan, App!process, App!environment
<1>4. UpgradeStays'
  BY <1>1, Constants DEF UpgradeStays, RestartIsKnown, App!process
<1>5. RestartIsKnown' /\ ProcessIsGone' /\ TurnIsDrained'
  BY <1>1 DEF RestartIsKnown, ProcessIsGone, TurnIsDrained, Restarting
<1> QED
  BY <1>2, <1>3, <1>4, <1>5

LEMMA StopKeeps ==
    ASSUME NEW k, ManagerInv(k), App(k)!Stop
    PROVE  ManagerInv(k)'
<1> USE DEF ManagerInv
<1>1. step = "stop" /\ UNCHANGED <<turn, App(k)!clock, seen, App(k)!environment>>
  BY DEF App!Stop
<1>2. CASE App(k)!Stopped /\ step' = "reblock" /\ UNCHANGED <<call, App(k)!report, pending>>
  <2>1. child' = None /\ orphaned' = orphaned
    BY <1>2 DEF App!Stopped
  <2>2. App(k)!TypeOK'
    BY <1>1, <1>2, <2>1 DEF App!TypeOK, App!Steps, App!clock,
       App!environment, App!report
  <2>3. ReportsStand' /\ seen' <= marker' /\ App(k)!NoOrphan' /\ UpgradeStays'
    BY <1>1, <1>2, <2>1 DEF ReportsStand, App!NoOrphan, UpgradeStays, App!environment
  <2>4. RestartIsKnown' /\ ProcessIsGone' /\ TurnIsDrained'
    BY <1>1, <1>2, <2>1 DEF RestartIsKnown, ProcessIsGone, TurnIsDrained, Restarting,
       App!clock
  <2> QED
    BY <2>2, <2>3, <2>4
<1>3. CASE /\ App(k)!StopFails /\ pending' = call.restart
           /\ App(k)!SetState("degraded", FALSE) /\ App(k)!Return(FALSE)
  BY <1>1, <1>3, PutBackKeeps DEF App!StopFails
<1> QED
  BY <1>2, <1>3 DEF App!Stop

LEMMA ReblockKeeps ==
    ASSUME NEW k, ManagerInv(k), App(k)!Reblock
    PROVE  ManagerInv(k)'
<1> USE DEF ManagerInv
<1>1. /\ step = "reblock" /\ child = None
      /\ UNCHANGED <<App(k)!process, turn, App(k)!clock, seen, App(k)!environment>>
  BY DEF App!Reblock, ProcessIsGone
<1>2. CASE pending' = call.restart /\ App(k)!SetState("degraded", FALSE) /\ App(k)!Return(FALSE)
  BY <1>1, <1>2, PutBackKeeps
<1>3. CASE /\ step' = "inspect" /\ call' = [call EXCEPT !.next = "ensure"]
           /\ UNCHANGED <<App(k)!report, pending>>
  <2>1. call' \in App(k)!Calls /\ call'.next = "ensure"
    BY <1>3, CallFields DEF App!TypeOK, App!Calls
  <2>2. App(k)!TypeOK'
    BY <1>1, <1>3, <2>1 DEF App!TypeOK, App!Steps, App!process,
       App!clock, App!environment, App!report
  <2>3. ReportsStand' /\ seen' <= marker' /\ App(k)!NoOrphan' /\ UpgradeStays'
    BY <1>1, <1>3 DEF ReportsStand, App!NoOrphan, UpgradeStays, App!process,
       App!environment
  <2>4. RestartIsKnown' /\ ProcessIsGone' /\ TurnIsDrained'
    BY <1>1, <1>3, <2>1 DEF RestartIsKnown, ProcessIsGone, TurnIsDrained, Restarting,
       App!clock
  <2> QED
    BY <2>2, <2>3, <2>4
<1> QED
  BY <1>2, <1>3 DEF App!Reblock

LEMMA DropKeeps ==
    ASSUME NEW k, ManagerInv(k), App(k)!Drop
    PROVE  ManagerInv(k)'
<1> USE DEF ManagerInv
<1>1. /\ step = "idle" /\ step' = "dropped"
      /\ UNCHANGED <<call, App(k)!report, turn, pending, App(k)!clock, seen, App(k)!environment>>
      /\ orphaned' = orphaned /\ (child' = child \/ child' = None)
  BY DEF App!Drop, App!Stopped, App!StopFails, App!process
<1>2. App(k)!TypeOK'
  BY <1>1 DEF App!TypeOK, App!Steps, App!clock, App!environment,
     App!report
<1>3. ReportsStand' /\ seen' <= marker' /\ App(k)!NoOrphan' /\ UpgradeStays'
  BY <1>1 DEF ReportsStand, App!NoOrphan, UpgradeStays, App!environment
<1>4. RestartIsKnown' /\ ProcessIsGone' /\ TurnIsDrained'
  BY <1>1 DEF RestartIsKnown, ProcessIsGone, TurnIsDrained, Restarting
<1> QED
  BY <1>2, <1>3, <1>4

-----------------------------------------------------------------------------
(* The invariant and what follows from it.                                 *)

LEMMA StepKeeps ==
    ASSUME NEW k
    PROVE  ManagerInv(k) /\ [App(k)!Next]_(App(k)!vars) => ManagerInv(k)'
<1> SUFFICES ASSUME ManagerInv(k), [App(k)!Next]_(App(k)!vars)
             PROVE  ManagerInv(k)'
  OBVIOUS
<1>1. CASE UNCHANGED App(k)!vars
  BY <1>1 DEF App!vars, App!process, App!clock, App!environment,
     App!report, ManagerInv, App!TypeOK, ReportsStand, RestartIsKnown,
     ProcessIsGone, UpgradeStays, TurnIsDrained, Restarting, App!NoOrphan
<1>2. CASE App(k)!Work
  BY <1>2, ScheduleKeeps, InspectKeeps, AdvanceKeeps, BlockKeeps, StopKeeps, ReblockKeeps,
     EnsureKeeps, ProbeKeeps, RestopKeeps, SpawnKeeps, WaitKeeps, DropKeeps DEF App!Work
<1>3. CASE \/ App(k)!Call \/ App(k)!BeginTurn \/ App(k)!FinishTurn \/ App(k)!Tick
           \/ App(k)!ChildMoves \/ App(k)!ForeignMoves \/ App(k)!WriteMarker
           \/ App(k)!Shutdown
  BY <1>3, ConnectorKeeps, TickKeeps, ChildMovesKeeps, OutsideKeeps
<1> QED
  BY <1>1, <1>2, <1>3 DEF App!Next

LEMMA InitIsSound ==
    ASSUME NEW k
    PROVE  App(k)!AppServerManagerAssumption /\ App(k)!Init => ManagerInv(k)
<1> SUFFICES ASSUME App(k)!AppServerManagerAssumption, App(k)!Init
             PROVE  ManagerInv(k)
  OBVIOUS
<1>1. App(k)!TypeOK
  <2>1. App(k)!NoCall \in App(k)!Calls
    BY DEF App!NoCall, App!Calls
  <2> QED
    BY <2>1 DEF App!Init, App!TypeOK, App!Steps, App!States
<1>2. ReportsStand /\ RestartIsKnown /\ ProcessIsGone /\ UpgradeStays /\ TurnIsDrained /\ App(k)!NoOrphan
  BY DEF App!Init, ReportsStand, RestartIsKnown, ProcessIsGone, UpgradeStays,
     TurnIsDrained, Restarting,
     App!NoOrphan
<1> QED
  BY <1>1, <1>2 DEF App!Init, ManagerInv

\* The inductive invariant holds in every behaviour of the manager.
THEOREM ManagerInvariant ==
    ASSUME NEW k
    PROVE  App(k)!AppServerManagerAssumption /\ App(k)!Spec => []ManagerInv(k)
BY InitIsSound, StepKeeps, PTL DEF App!Spec

\* What the invariant says of the state of the manager.
LEMMA ManagerSays == ASSUME NEW k PROVE ManagerInv(k) => App(k)!ManagerIsTrue
BY DEF ManagerInv, App!ManagerIsTrue, ReportsStand, UpgradeStays,
   App!AdvertisesWhatItReports, App!DrainingIsTrue,
       App!NoOrphan, App!UpgradeReachesChild

\* Between calls the manager's two reports agree and are true of the drain,
\* one process lives at most, and an upgrade that was noticed reaches it.
THEOREM EveryManagerStaysTrue ==
    ASSUME NEW k
    PROVE  App(k)!AppServerManagerAssumption /\ App(k)!Spec => []App(k)!ManagerIsTrue
BY ManagerSays, ManagerInvariant, PTL

\* No step of a call, whatever it was called for, ends a living process under
\* a turn while the drain timeout of a restart has not passed.
THEOREM TurnsAreDrained ==
    ASSUME NEW k
    PROVE  App(k)!AppServerManagerAssumption /\ App(k)!Spec => App(k)!DrainIsGranted
<1>1. ManagerInv(k) /\ [App(k)!Next]_(App(k)!vars)
      => [(turn /\ App(k)!Alive /\ child' = None) => drain = 0]_(App(k)!vars)
  <2> SUFFICES ASSUME ManagerInv(k), App(k)!Next, turn, App(k)!Alive, child' = None
               PROVE  drain = 0
    OBVIOUS
  <2>1. child # None /\ child.status # "exited" /\ child' # child
    BY DEF App!Alive
  <2>2. App(k)!Stop \/ App(k)!Restop \/ App(k)!Wait
    <3>1. ~App(k)!Inspect /\ ~App(k)!Drop
      BY <2>1 DEF App!Inspect, App!Drop, App!Stopped, App!StopFails,
         App!process
    <3>2. ~App(k)!Spawn
      BY <2>1 DEF App!Spawn, ManagerInv, ProcessIsGone
    <3>3. ~App(k)!ChildMoves
      <4>1. \A s : [child EXCEPT !.status = s] \in App(k)!Processes => [child EXCEPT !.status = s] # None
        BY Constants DEF ManagerInv
      <4> QED
        BY <2>1, <4>1, ProcessTypes DEF App!ChildMoves, ManagerInv
    <3>4. /\ ~(App(k)!Call \/ App(k)!BeginTurn \/ App(k)!FinishTurn) /\ ~App(k)!Tick
          /\ ~App(k)!ForeignMoves /\ ~App(k)!WriteMarker /\ ~App(k)!Shutdown
      BY <2>1 DEF App!Call, App!BeginTurn, App!FinishTurn, App!Tick,
         App!ForeignMoves, App!WriteMarker, App!Shutdown, App!process
    <3>5. /\ ~App(k)!Schedule /\ ~App(k)!Advance /\ ~App(k)!Block
          /\ ~App(k)!Reblock /\ ~App(k)!Ensure /\ ~App(k)!Probe
      BY <2>1 DEF App!Schedule, App!Advance, App!Block, App!Reblock,
         App!Ensure, App!Probe, App!process
    <3> QED
      BY <3>1, <3>2, <3>3, <3>4, <3>5 DEF App!Next, App!Work
  <2>3. Restarting
    BY <2>2 DEF App!Stop, App!Restop, App!Wait, Restarting
  <2> QED
    BY <2>3 DEF ManagerInv, TurnIsDrained
<1> QED
  BY <1>1, ManagerInvariant, PTL DEF App!Spec, App!DrainIsGranted

-----------------------------------------------------------------------------
(* The connect.                                                            *)

\* The watchdog is there from the handshakes until it is cancelled, and has
\* shut the stream only if the deadline has passed.
Guarded(k) ==
    /\ at \in {"tls", "upgrade", "cancel"} => guard \in {"armed", "fired"}
    /\ at = "check" => guard \in {"cancelled", "fired"}
    /\ at \notin {"tls", "upgrade", "cancel"} => guard # "armed"
    /\ at \in {"guard", "tls", "upgrade", "cancel", "check"} => stream = "open" \/ guard = "fired"
    /\ guard = "fired" => left = 0
    /\ at = "done" /\ result = "ok" => stream = "open" /\ guard = "cancelled"
    /\ at # "done" => result = "none"
    /\ at = "attempt" => tried < k.addresses

ConnectInv(k) == Dial(k)!TypeOK /\ Guarded(k)

\* A share of what is left is a tick at least and no more than there is.
LEMMA ShareFits ==
    ASSUME NEW k, Dial(k)!ConnectAssumption, Dial(k)!TypeOK, tried < k.addresses, left > 0
    PROVE  Dial(k)!Share \in 1 .. left
<1> DEFINE n == k.addresses - tried
<1>1. n \in Nat \ {0} /\ left \in Nat \ {0}
  BY DEF Dial!ConnectAssumption, Dial!TypeOK
<1> HIDE DEF n
<1>2. left \div n \in 0 .. left
  BY <1>1
<1> QED
  BY <1>1, <1>2 DEF Dial!Share, n

LEMMA ConnectStart ==
    ASSUME NEW k, Dial(k)!ConnectAssumption, Dial(k)!Init
    PROVE  ConnectInv(k)
BY DEF Dial!ConnectAssumption, Dial!Init, ConnectInv, Dial!TypeOK,
   Dial!Steps, Guarded

\* What the invariant says of a socket that is returned.
LEMMA ReturnedSays == ASSUME NEW k PROVE ConnectInv(k) => Dial(k)!ReturnedIsOpen
BY DEF ConnectInv, Guarded, Dial!ReturnedIsOpen

LEMMA ConnectStep ==
    ASSUME NEW k, Dial(k)!ConnectAssumption, ConnectInv(k), [Dial(k)!Next]_(Dial(k)!vars)
    PROVE  ConnectInv(k)'
<1> USE DEF Dial!TypeOK, Dial!Steps, Guarded, ConnectInv, Dial!Return, Dial!Go, Dial!DropGuard
<1>1. CASE Dial(k)!NextAddress
  BY <1>1, ShareFits DEF Dial!NextAddress, Dial!ConnectAssumption
<1>2. CASE Dial(k)!ConnectRetry \/ Dial(k)!BacklogFull \/ Dial(k)!InProgress
  BY <1>2 DEF Dial!ConnectRetry, Dial!BacklogFull, Dial!InProgress,
     Dial!Connected
<1>3. CASE Dial(k)!Attempt
  BY <1>3 DEF Dial!Attempt, Dial!Connected, Dial!ConnectAssumption
<1>4. CASE Dial(k)!StartGuard \/ Dial(k)!CancelGuard \/ Dial(k)!CheckTime
  BY <1>4 DEF Dial!StartGuard, Dial!CancelGuard, Dial!CheckTime
<1>5. CASE Dial(k)!HandshakeFails \/ Dial(k)!TlsDone \/ Dial(k)!Upgraded
  BY <1>5 DEF Dial!HandshakeFails, Dial!TlsDone, Dial!Upgraded
<1>6. CASE Dial(k)!Fire
  BY <1>6 DEF Dial!Fire
<1>7. CASE Dial(k)!Tick
  BY <1>7 DEF Dial!Tick, Dial!ConnectAssumption
<1>8. CASE UNCHANGED Dial(k)!vars
  BY <1>8 DEF Dial!vars
<1> QED
  BY <1>1, <1>2, <1>3, <1>4, <1>5, <1>6, <1>7, <1>8
     DEF Dial!Next, Dial!Own, Dial!Peer
\* A socket that is returned is open and stays open: the watchdog has not shut
\* it and is gone, whenever the deadline fell among the steps, for one address
\* or many, with TLS or without (ConnectionDeadlineGuard, connect_app_server).
THEOREM ReturnedStaysOpen ==
    ASSUME NEW k
    PROVE
    Dial(k)!ConnectAssumption => (Dial(k)!Spec => []Dial(k)!ReturnedIsOpen)
<1> SUFFICES ASSUME Dial(k)!ConnectAssumption PROVE Dial(k)!Spec => []Dial(k)!ReturnedIsOpen
  OBVIOUS
<1>1. Dial(k)!Init => ConnectInv(k)
  BY ConnectStart
<1>2. ConnectInv(k) /\ [Dial(k)!Next]_(Dial(k)!vars) => ConnectInv(k)'
  BY ConnectStep
<1>3. ConnectInv(k) => Dial(k)!ReturnedIsOpen
  BY ReturnedSays
<1> QED
  BY <1>1, <1>2, <1>3, PTL DEF Dial!Spec

\* What is left for the addresses that are not tried yet, while one is tried.
SharesKeep(k) ==
    /\ Dial(k)!SharesRemain
    /\ at = "attempt" => left >= share + (k.addresses - tried) - 1

\* An equal share of what is left leaves a tick for each of the others.
LEMMA ShareLeaves ==
    ASSUME NEW n \in Nat \ {0}, NEW l \in Nat, l >= n
    PROVE  l \div n >= 1 /\ l >= (l \div n) + n - 1
<1> DEFINE q == l \div n
<1>1. q \in Nat /\ l >= n * q /\ l < n * (q + 1)
  OBVIOUS
<1> HIDE DEF q
<1>2. q >= 1
  <2> SUFFICES ASSUME q = 0 PROVE FALSE
    BY <1>1
  <2> QED
    BY <1>1
<1>3. (n - 1) * (q - 1) >= 0
  <2>1. \A a, b \in Nat : a * b >= 0
    OBVIOUS
  <2>2. n - 1 \in Nat /\ q - 1 \in Nat
    BY <1>1, <1>2
  <2> QED
    BY <2>1, <2>2
<1>4. (n - 1) * (q - 1) = n * q - n - q + 1
  BY <1>1
<1>5. n * q \in Int
  BY <1>1
<1>6. n * q >= q + n - 1
  BY <1>1, <1>3, <1>4, <1>5
<1>7. l >= q + n - 1
  BY <1>1, <1>5, <1>6
<1> QED
  BY <1>2, <1>7 DEF q

LEMMA SharesStep ==
    ASSUME NEW k, Dial(k)!ConnectAssumption, ConnectInv(k), SharesKeep(k), ~k.delays, ~k.unix,
           [Dial(k)!Next]_(Dial(k)!vars)
    PROVE  SharesKeep(k)'
<1>n. /\ left \in Nat /\ tried \in 0 .. k.addresses /\ share \in Nat /\ k.addresses \in Nat \ {0}
      /\ at = "attempt" => tried < k.addresses
  BY DEF ConnectInv, Guarded, Dial!TypeOK, Dial!ConnectAssumption
<1> USE DEF SharesKeep, Dial!SharesRemain, Dial!Return, Dial!Go
<1>1. CASE Dial(k)!NextAddress
  <2>1. CASE at' # "attempt"
    BY <1>1, <2>1 DEF Dial!NextAddress
  <2>2. CASE at' = "attempt"
    <3> DEFINE n == k.addresses - tried
    <3>1. n \in Nat \ {0} /\ left >= n
      BY <1>n, <1>1, <2>2 DEF Dial!NextAddress
    <3>2. left \div n >= 1 /\ left >= (left \div n) + n - 1
      BY <1>n, <3>1, ShareLeaves
    <3>3. share' = left \div n
      BY <1>1, <2>2, <3>2 DEF Dial!NextAddress, Dial!Share
    <3> QED
      BY <1>1, <2>2, <3>2, <3>3 DEF Dial!NextAddress
  <2> QED
    BY <2>1, <2>2
<1>2. CASE Dial(k)!Attempt
  BY <1>n, <1>2 DEF Dial!Attempt, Dial!Connected
<1>3. CASE Dial(k)!Tick
  BY <1>n, <1>3 DEF Dial!Tick, Dial!Blocking
<1>4. CASE Dial(k)!ConnectRetry \/ Dial(k)!BacklogFull \/ Dial(k)!InProgress
  BY <1>4 DEF Dial!ConnectRetry, Dial!BacklogFull, Dial!InProgress,
     Dial!Connected
<1>5. CASE Dial(k)!StartGuard \/ Dial(k)!CancelGuard \/ Dial(k)!CheckTime
  BY <1>5 DEF Dial!StartGuard, Dial!CancelGuard, Dial!CheckTime
<1>6. CASE Dial(k)!HandshakeFails \/ Dial(k)!TlsDone \/ Dial(k)!Upgraded
  BY <1>6 DEF Dial!HandshakeFails, Dial!TlsDone, Dial!Upgraded
<1>7. CASE Dial(k)!Fire \/ UNCHANGED Dial(k)!vars
  BY <1>7 DEF Dial!Fire, Dial!vars
<1> QED
  BY <1>1, <1>2, <1>3, <1>4, <1>5, <1>6, <1>7 DEF Dial!Next, Dial!Own,
     Dial!Peer

\* When the connect starts there is a tick for each address.
LEMMA SharesStart ==
    ASSUME NEW k, Dial(k)!ConnectAssumption, k.timeout >= k.addresses, Dial(k)!Init
    PROVE  SharesKeep(k)
BY DEF Dial!Init, SharesKeep, Dial!SharesRemain, Dial!ConnectAssumption

\* An address that stays silent does not use up the time of those after it:
\* with a tick for each when the connect starts, and no delays outside of what
\* blocks, there is one left for each that remains whenever one is taken up
\* (app_server_connect_attempt_timeout).
THEOREM SharesAlwaysRemain ==
    ASSUME NEW k
    PROVE
    Dial(k)!ConnectAssumption /\ ~k.unix /\ ~k.delays /\ k.timeout >= k.addresses =>
        (Dial(k)!Spec => []Dial(k)!SharesRemain)
<1> SUFFICES ASSUME Dial(k)!ConnectAssumption, ~k.unix, ~k.delays, k.timeout >= k.addresses
             PROVE  Dial(k)!Spec => []Dial(k)!SharesRemain
  OBVIOUS
<1>1. Dial(k)!Init => ConnectInv(k) /\ SharesKeep(k)
  BY ConnectStart, SharesStart
<1>2. ConnectInv(k) /\ SharesKeep(k) /\ [Dial(k)!Next]_(Dial(k)!vars) => ConnectInv(k)' /\ SharesKeep(k)'
  BY ConnectStep, SharesStep
<1>3. SharesKeep(k) => Dial(k)!SharesRemain
  BY DEF SharesKeep
<1> QED
  BY <1>1, <1>2, <1>3, PTL DEF Dial!Spec

-----------------------------------------------------------------------------
(* The preflight.                                                          *)

Stopping == stage \in {"stop", "grace", "kill", "sweep"}
Last == stage = "done" \/ (Stopping /\ next = "done")

\* A preflight that passes, or that met no resistance, has let go of the
\* process once it cleans up; and a group that is let go of is dead, so nobody
\* binds the socket again, and what is left of the files failed to be removed.
Clean == verdict = "passed" \/ ~resisted
CleansUp ==
    /\ ~held => leader # "runs" /\ members = {}
    /\ stage \in {"probe", "dir", "spawn", "unlink", "rmdir", "drop"} \/ Last => (Clean => ~held)
    /\ stage \in {"probe", "dir", "spawn"} => ~held
    /\ stage \in {"grace", "kill", "sweep"} => held
    /\ stage \in {"probe", "dir"} => ~dir /\ ~socket
    /\ stage = "rmdir" => (Clean => unremoved \/ ~socket)
    /\ stage = "drop" \/ Last => (Clean => unremoved \/ (~socket /\ ~dir))
    /\ probe => stage = "done" /\ verdict = "failed"

PreflightInv(k) == Check(k)!TypeOK /\ CleansUp

\* The part of TypeOK about what is or is not.
Flags == {held, resisted, unremoved, probe, dir, socket} \subseteq BOOLEAN

LEMMA PreflightStart ==
    ASSUME NEW k, Check(k)!PreflightAssumption, Check(k)!Init
    PROVE  PreflightInv(k)
<1>1. Check(k)!TypeOK
  <2>1. Flags
    BY DEF Check!Init, Flags
  <2>2. ~held /\ ~socket
    BY DEF Check!Init
  <2> QED
    BY <2>1, <2>2 DEF Check!PreflightAssumption, Check!Init, Check!TypeOK, Flags
<1>2. CleansUp
  BY DEF Check!Init, CleansUp, Clean, Last, Stopping
<1> QED
  BY <1>1, <1>2 DEF PreflightInv

LEMMA PreflightStep ==
    ASSUME NEW k, Check(k)!PreflightAssumption, PreflightInv(k), [Check(k)!Next]_(Check(k)!vars)
    PROVE  PreflightInv(k)'
<1> USE DEF PreflightInv, Clean, Last, Stopping, Check!files,
            Check!group, Check!StopFor, Check!StopReturns
<1>r. ASSUME Check(k)!Release
      PROVE  /\ leader' = "reaped" /\ members' = {} /\ ~held' /\ held' \in BOOLEAN
             /\ stage' = next /\ verdict' = verdict /\ (resisted' <=> resisted) /\ resisted' \in BOOLEAN
  BY <1>r DEF Check!Release, Check!TypeOK
<1>s. ASSUME Check(k)!Resist
      PROVE  /\ k.faults /\ leader' = leader /\ members' = members /\ (held' <=> held) /\ held' \in BOOLEAN
             /\ stage' = next /\ resisted' /\ resisted' \in BOOLEAN
             /\ verdict' = IF next = "unlink" THEN "failed" ELSE verdict
  BY <1>s DEF Check!Resist, Check!TypeOK
<1>1. CASE Check(k)!ProbeParent \/ Check(k)!CreateDir
  <2>1. Check(k)!TypeOK'
    <3>1. Flags'
      BY <1>1 DEF Check!ProbeParent, Check!CreateDir, Flags, Check!TypeOK
    <3>2. (held' => leader' # "none") /\ (socket' => dir')
      BY <1>1 DEF Check!ProbeParent, Check!CreateDir, Check!TypeOK
    <3> QED
      BY <1>1, <3>1, <3>2 DEF Check!ProbeParent, Check!CreateDir, Flags, Check!TypeOK
  <2>2. CleansUp'
    BY <1>1 DEF Check!ProbeParent, Check!CreateDir, CleansUp, Check!TypeOK
  <2> QED
    BY <2>1, <2>2
<1>2. CASE Check(k)!Spawn
  <2>1. Check(k)!TypeOK'
    <3>1. Flags'
      BY <1>2 DEF Check!Spawn, Check!PreflightAssumption, Flags, Check!TypeOK
    <3>2. (held' => leader' # "none") /\ (socket' => dir')
      BY <1>2 DEF Check!Spawn, Check!PreflightAssumption, Check!TypeOK
    <3> QED
      BY <1>2, <3>1, <3>2 DEF Check!Spawn, Check!PreflightAssumption, Flags,
         Check!TypeOK
  <2>2. CleansUp'
    BY <1>2 DEF Check!Spawn, Check!PreflightAssumption, CleansUp, Check!TypeOK
  <2> QED
    BY <2>1, <2>2
<1>3. CASE Check(k)!Inspect
  <2>1. Check(k)!TypeOK'
    BY <1>3 DEF Check!Inspect, Check!TypeOK
  <2>2. CleansUp'
    BY <1>3 DEF Check!Inspect, CleansUp, Check!TypeOK
  <2> QED
    BY <2>1, <2>2
<1>4. CASE Check(k)!Ready
  <2>1. Check(k)!TypeOK'
    BY <1>4 DEF Check!Ready, Check!TypeOK
  <2>2. CleansUp'
    BY <1>4 DEF Check!Ready, CleansUp, Check!TypeOK
  <2> QED
    BY <2>1, <2>2
<1>5. CASE Check(k)!Stop
  <2>1. Check(k)!TypeOK'
    BY <1>s, <1>5 DEF Check!Stop, Check!TypeOK
  <2>2. CleansUp'
    BY <1>s, <1>5 DEF Check!Stop, CleansUp, Check!TypeOK
  <2> QED
    BY <2>1, <2>2
<1>6. CASE Check(k)!Grace
  <2>1. Check(k)!TypeOK'
    BY <1>6 DEF Check!Grace, Check!TypeOK
  <2>2. CleansUp'
    BY <1>6 DEF Check!Grace, CleansUp, Check!TypeOK
  <2> QED
    BY <2>1, <2>2
<1>7. CASE Check(k)!Kill
  <2>1. Check(k)!TypeOK'
    BY <1>r, <1>s, <1>7 DEF Check!Kill, Check!TypeOK
  <2>2. CleansUp'
    BY <1>r, <1>s, <1>7 DEF Check!Kill, CleansUp, Check!TypeOK
  <2> QED
    BY <2>1, <2>2
<1>8. CASE Check(k)!Sweep
  <2>1. Check(k)!TypeOK'
    BY <1>r, <1>s, <1>8 DEF Check!Sweep, Check!TypeOK
  <2>2. CleansUp'
    BY <1>r, <1>s, <1>8 DEF Check!Sweep, CleansUp, Check!TypeOK
  <2> QED
    BY <2>1, <2>2
<1>9. CASE Check(k)!Unlink \/ Check(k)!RemoveDir \/ Check(k)!DropManager
  <2>1. Check(k)!TypeOK'
    <3>1. Flags'
      BY <1>9 DEF Check!Unlink, Check!RemoveDir, Check!DropManager, Flags,
         Check!TypeOK
    <3>2. (held' => leader' # "none") /\ (socket' => dir')
      BY <1>9 DEF Check!Unlink, Check!RemoveDir, Check!DropManager, Check!TypeOK
    <3> QED
      BY <1>9, <3>1, <3>2 DEF Check!Unlink, Check!RemoveDir, Check!DropManager,
         Flags, Check!TypeOK
  <2>2. CleansUp'
    BY <1>9 DEF Check!Unlink, Check!RemoveDir, Check!DropManager, CleansUp,
       Check!TypeOK
  <2> QED
    BY <2>1, <2>2
<1>10. CASE Check(k)!Bind
  <2>1. Check(k)!TypeOK'
    BY <1>10 DEF Check!Bind, Check!Alive, Check!TypeOK
  <2>2. CleansUp'
    BY <1>10 DEF Check!Bind, Check!Alive, CleansUp, Check!TypeOK
  <2> QED
    BY <2>1, <2>2
<1>11. CASE Check(k)!Fork
  <2>1. Check(k)!TypeOK'
    BY <1>11 DEF Check!Fork, Check!Alive, Check!TypeOK
  <2>2. CleansUp'
    BY <1>11 DEF Check!Fork, Check!Alive, CleansUp, Check!TypeOK
  <2> QED
    BY <2>1, <2>2
<1>12. CASE Check(k)!Exit
  <2>1. Check(k)!TypeOK'
    BY <1>12 DEF Check!Exit, Check!TypeOK
  <2>2. CleansUp'
    BY <1>12 DEF Check!Exit, CleansUp, Check!TypeOK
  <2> QED
    BY <2>1, <2>2
<1>13. CASE UNCHANGED Check(k)!vars
  <2>1. Check(k)!TypeOK'
    BY <1>13 DEF Check!vars, Check!TypeOK
  <2>2. CleansUp'
    BY <1>13 DEF Check!vars, CleansUp, Check!TypeOK
  <2> QED
    BY <2>1, <2>2
<1> QED
  BY <1>1, <1>2, <1>3, <1>4, <1>5, <1>6, <1>7, <1>8, <1>9, <1>10, <1>11, <1>12, <1>13
     DEF Check!Next

\* What the invariant says of the state of the preflight.
LEMMA PreflightSays ==
    ASSUME NEW k
    PROVE  PreflightInv(k) => Check(k)!ReleasedMeansDead /\ Check(k)!NothingIsLeft
BY DEF PreflightInv, CleansUp, Clean, Last, Check!TypeOK, Check!ReleasedMeansDead,
       Check!NothingIsLeft, Check!Alive

\* A process group that the manager has let go of is dead to the last member,
\* whichever exited first.  A preflight that passes, or none of whose stops has
\* failed, leaves no process, and of its socket and its directory only what it
\* failed to remove, which the code logs (terminate_child,
\* preflight_managed_app_server, the drop of AppServerPreflightEndpoint).
THEOREM EveryPreflightCleansUp ==
    ASSUME NEW k
    PROVE
    Check(k)!PreflightAssumption =>
        (Check(k)!Spec => [](Check(k)!ReleasedMeansDead /\ Check(k)!NothingIsLeft))
<1> SUFFICES ASSUME Check(k)!PreflightAssumption
             PROVE  Check(k)!Spec => [](Check(k)!ReleasedMeansDead /\ Check(k)!NothingIsLeft)
  OBVIOUS
<1>1. Check(k)!Init => PreflightInv(k)
  BY PreflightStart
<1>2. PreflightInv(k) /\ [Check(k)!Next]_(Check(k)!vars) => PreflightInv(k)'
  BY PreflightStep
<1>3. PreflightInv(k) => Check(k)!ReleasedMeansDead /\ Check(k)!NothingIsLeft
  BY PreflightSays
<1> QED
  BY <1>1, <1>2, <1>3, PTL DEF Check!Spec

-----------------------------------------------------------------------------
(* The composition that the run checks: what is proved of the manager, the  *)
(* preflight and the connect, of the instances of MCAppServer.  The manager *)
(* and the preflight are the same in all three.                             *)

OfSilent == [addresses |-> 4, timeout |-> 11, unix |-> FALSE, tls |-> TRUE, delays |-> FALSE,
             members |-> {m1, m2}, attempts |-> 3, interval |-> 2, drain |-> 2,
             backoff |-> 1, markers |-> 2, faults |-> TRUE]
OfTcp == [addresses |-> 3, timeout |-> 7, unix |-> FALSE, tls |-> TRUE, delays |-> TRUE,
          members |-> {m1, m2}, attempts |-> 3, interval |-> 2, drain |-> 2,
          backoff |-> 1, markers |-> 2, faults |-> TRUE]
OfLocal == [addresses |-> 1, timeout |-> 12, unix |-> TRUE, tls |-> FALSE, delays |-> TRUE,
            members |-> {m1, m2}, attempts |-> 3, interval |-> 2, drain |-> 2,
            backoff |-> 1, markers |-> 2, faults |-> TRUE]

\* The bounds of the instances are what their modules assume of them.
LEMMA Bounds ==
    /\ Dial(OfSilent)!ConnectAssumption /\ Dial(OfTcp)!ConnectAssumption
    /\ Dial(OfLocal)!ConnectAssumption /\ Check(OfTcp)!PreflightAssumption
    /\ App(OfTcp)!AppServerManagerAssumption
<1>1. /\ OfTcp.interval = 2 /\ OfTcp.drain = 2 /\ OfTcp.backoff = 1
      /\ OfTcp.markers = 2 /\ OfTcp.faults = TRUE
  BY DEF OfTcp
<1>2. App(OfTcp)!AppServerManagerAssumption
  BY <1>1, ManagerBounds DEF App!AppServerManagerAssumption, App!Reasons,
     App!Processes, Manager!AppServerManagerAssumption, Manager!Reasons, Manager!Processes
<1> QED
  BY <1>2 DEF Dial!ConnectAssumption, Check!PreflightAssumption, OfSilent, OfTcp,
     OfLocal

\* An instance here and there is the same.
LEMMA SilentIsConnect ==
    /\ Silent!Init <=> Dial(OfSilent)!Init
    /\ [Silent!Next]_(Silent!vars) <=> [Dial(OfSilent)!Next]_(Dial(OfSilent)!vars)
<1>1. /\ OfSilent.addresses = 4 /\ OfSilent.timeout = 11 /\ OfSilent.unix = FALSE
      /\ OfSilent.tls = TRUE /\ OfSilent.delays = FALSE
  BY DEF OfSilent
<1> QED
  BY <1>1 DEF
     Silent!vars, Silent!Init, Silent!DropGuard, Silent!Return, Silent!Go, Silent!Share,
     Silent!NextAddress, Silent!Connected, Silent!Attempt, Silent!ConnectRetry,
     Silent!BacklogFull, Silent!InProgress, Silent!StartGuard, Silent!Fire,
     Silent!HandshakeFails, Silent!TlsDone, Silent!Upgraded, Silent!CancelGuard,
     Silent!CheckTime, Silent!Blocking, Silent!Tick, Silent!Own, Silent!Peer, Silent!Next,
     Dial!vars, Dial!Init, Dial!DropGuard, Dial!Return,
     Dial!Go, Dial!Share, Dial!NextAddress, Dial!Connected,
     Dial!Attempt, Dial!ConnectRetry, Dial!BacklogFull,
     Dial!InProgress, Dial!StartGuard, Dial!Fire,
     Dial!HandshakeFails, Dial!TlsDone, Dial!Upgraded,
     Dial!CancelGuard, Dial!CheckTime, Dial!Blocking, Dial!Tick,
     Dial!Own, Dial!Peer, Dial!Next

LEMMA TcpIsConnect ==
    /\ Tcp!Init <=> Dial(OfTcp)!Init
    /\ [Tcp!Next]_(Tcp!vars) <=> [Dial(OfTcp)!Next]_(Dial(OfTcp)!vars)
<1>1. /\ OfTcp.addresses = 3 /\ OfTcp.timeout = 7 /\ OfTcp.unix = FALSE
      /\ OfTcp.tls = TRUE /\ OfTcp.delays = TRUE
  BY DEF OfTcp
<1> QED
  BY <1>1 DEF
     Tcp!vars, Tcp!Init, Tcp!DropGuard, Tcp!Return, Tcp!Go, Tcp!Share, Tcp!NextAddress,
     Tcp!Connected, Tcp!Attempt, Tcp!ConnectRetry, Tcp!BacklogFull, Tcp!InProgress,
     Tcp!StartGuard, Tcp!Fire, Tcp!HandshakeFails, Tcp!TlsDone, Tcp!Upgraded,
     Tcp!CancelGuard, Tcp!CheckTime, Tcp!Blocking, Tcp!Tick, Tcp!Own, Tcp!Peer, Tcp!Next,
     Dial!vars, Dial!Init, Dial!DropGuard, Dial!Return,
     Dial!Go, Dial!Share, Dial!NextAddress, Dial!Connected,
     Dial!Attempt, Dial!ConnectRetry, Dial!BacklogFull,
     Dial!InProgress, Dial!StartGuard, Dial!Fire,
     Dial!HandshakeFails, Dial!TlsDone, Dial!Upgraded,
     Dial!CancelGuard, Dial!CheckTime, Dial!Blocking, Dial!Tick,
     Dial!Own, Dial!Peer, Dial!Next

LEMMA LocalIsConnect ==
    /\ Local!Init <=> Dial(OfLocal)!Init
    /\ [Local!Next]_(Local!vars) <=> [Dial(OfLocal)!Next]_(Dial(OfLocal)!vars)
<1>1. /\ OfLocal.addresses = 1 /\ OfLocal.timeout = 12 /\ OfLocal.unix = TRUE
      /\ OfLocal.tls = FALSE /\ OfLocal.delays = TRUE
  BY DEF OfLocal
<1> QED
  BY <1>1 DEF
     Local!vars, Local!Init, Local!DropGuard, Local!Return, Local!Go, Local!Share,
     Local!NextAddress, Local!Connected, Local!Attempt, Local!ConnectRetry,
     Local!BacklogFull, Local!InProgress, Local!StartGuard, Local!Fire, Local!HandshakeFails,
     Local!TlsDone, Local!Upgraded, Local!CancelGuard, Local!CheckTime, Local!Blocking,
     Local!Tick, Local!Own, Local!Peer, Local!Next, Dial!vars, Dial!Init,
     Dial!DropGuard, Dial!Return, Dial!Go, Dial!Share,
     Dial!NextAddress, Dial!Connected, Dial!Attempt,
     Dial!ConnectRetry, Dial!BacklogFull, Dial!InProgress,
     Dial!StartGuard, Dial!Fire, Dial!HandshakeFails, Dial!TlsDone,
     Dial!Upgraded, Dial!CancelGuard, Dial!CheckTime, Dial!Blocking,
     Dial!Tick, Dial!Own, Dial!Peer, Dial!Next

LEMMA ManagerIsManager ==
    /\ Manager!Init <=> App(OfTcp)!Init
    /\ [Manager!Next]_(Manager!vars) <=> [App(OfTcp)!Next]_(App(OfTcp)!vars)
<1>1. /\ OfTcp.interval = 2 /\ OfTcp.drain = 2 /\ OfTcp.backoff = 1
      /\ OfTcp.markers = 2 /\ OfTcp.faults = TRUE
  BY DEF OfTcp
<1>2. (Manager!Init <=> App(OfTcp)!Init) /\ Manager!vars = App(OfTcp)!vars
  BY <1>1 DEF
     Manager!vars, Manager!NoCall, Manager!Init, App!vars, App!NoCall, App!Init
<1>3. /\ Manager!Call <=> App(OfTcp)!Call
      /\ Manager!BeginTurn <=> App(OfTcp)!BeginTurn
      /\ Manager!FinishTurn <=> App(OfTcp)!FinishTurn
      /\ Manager!Tick <=> App(OfTcp)!Tick
      /\ Manager!ChildMoves <=> App(OfTcp)!ChildMoves
      /\ Manager!ForeignMoves <=> App(OfTcp)!ForeignMoves
      /\ Manager!WriteMarker <=> App(OfTcp)!WriteMarker
      /\ Manager!Shutdown <=> App(OfTcp)!Shutdown
  BY <1>1 DEF
     Manager!process, Manager!clock, Manager!environment, Manager!report, Manager!Alive,
     Manager!Call, Manager!BeginTurn, Manager!FinishTurn, Manager!Minus, Manager!Tick,
     Manager!ChildMoves, Manager!ForeignMoves, Manager!WriteMarker, Manager!Shutdown,
     App!process, App!clock, App!environment, App!report, App!Alive, App!Call, App!BeginTurn,
     App!FinishTurn, App!Minus, App!Tick, App!ChildMoves, App!ForeignMoves, App!WriteMarker,
     App!Shutdown
<1>4. Manager!Schedule <=> App(OfTcp)!Schedule
  BY <1>1 DEF
     Manager!process, Manager!environment, Manager!SetState, Manager!AfterRequest,
     Manager!Due, Manager!NextSchedule, Manager!Requested, Manager!Schedule, App!process,
     App!environment, App!SetState, App!AfterRequest, App!Due, App!NextSchedule,
     App!Requested, App!Schedule
<1>5. Manager!Inspect <=> App(OfTcp)!Inspect
  BY <1>1 DEF
     Manager!process, Manager!environment, Manager!Alive, Manager!SetState, Manager!Stopped,
     Manager!StopFails, Manager!Inspect, App!process, App!environment, App!Alive,
     App!SetState, App!Stopped, App!StopFails, App!Inspect
<1>6. Manager!Advance <=> App(OfTcp)!Advance
  BY <1>1 DEF
     Manager!process, Manager!environment, Manager!report, Manager!NoCall, Manager!SetState,
     Manager!Return, Manager!Forced, Manager!OfferedInDrain, Manager!Advance, App!process,
     App!environment, App!report, App!NoCall, App!SetState, App!Return, App!Forced,
     App!OfferedInDrain, App!Advance
<1>7. Manager!Block <=> App(OfTcp)!Block
  BY <1>1 DEF
     Manager!process, Manager!environment, Manager!report, Manager!NoCall, Manager!Answers,
     Manager!Armed, Manager!SetState, Manager!Return, Manager!Blocked, Manager!Block,
     App!process, App!environment, App!report, App!NoCall, App!Answers, App!Armed,
     App!SetState, App!Return, App!Blocked, App!Block
<1>8. Manager!Stop <=> App(OfTcp)!Stop
  BY <1>1 DEF
     Manager!process, Manager!clock, Manager!environment, Manager!report, Manager!NoCall,
     Manager!SetState, Manager!Return, Manager!Stopped, Manager!StopFails, Manager!Stop,
     App!process, App!clock, App!environment, App!report, App!NoCall, App!SetState,
     App!Return, App!Stopped, App!StopFails, App!Stop
<1>9. Manager!Reblock <=> App(OfTcp)!Reblock
  BY <1>1 DEF
     Manager!process, Manager!clock, Manager!environment, Manager!report, Manager!NoCall,
     Manager!Answers, Manager!SetState, Manager!Return, Manager!Blocked, Manager!Reblock,
     App!process, App!clock, App!environment, App!report, App!NoCall, App!Answers,
     App!SetState, App!Return, App!Blocked, App!Reblock
<1>10. Manager!Ensure <=> App(OfTcp)!Ensure
  BY <1>1 DEF
     Manager!process, Manager!environment, Manager!report, Manager!NoCall, Manager!Answers,
     Manager!Armed, Manager!SetState, Manager!Return, Manager!Ready, Manager!Ensure,
     App!process, App!environment, App!report, App!NoCall, App!Answers, App!Armed,
     App!SetState, App!Return, App!Ready, App!Ensure
<1>11. Manager!Probe <=> App(OfTcp)!Probe
  BY <1>1 DEF
     Manager!process, Manager!environment, Manager!NoCall, Manager!Armed, Manager!SetState,
     Manager!Return, Manager!Ready, Manager!Probe, App!process, App!environment, App!NoCall,
     App!Armed, App!SetState, App!Return, App!Ready, App!Probe
<1>12. Manager!Restop <=> App(OfTcp)!Restop
  BY <1>1 DEF
     Manager!process, Manager!environment, Manager!report, Manager!NoCall, Manager!Armed,
     Manager!SetState, Manager!Return, Manager!Stopped, Manager!StopFails, Manager!Ready,
     Manager!Fails, Manager!Restop, App!process, App!environment, App!report, App!NoCall,
     App!Armed, App!SetState, App!Return, App!Stopped, App!StopFails, App!Ready, App!Fails,
     App!Restop
<1>13. Manager!Spawn <=> App(OfTcp)!Spawn
  BY <1>1 DEF
     Manager!process, Manager!environment, Manager!report, Manager!NoCall, Manager!Alive,
     Manager!Armed, Manager!SetState, Manager!Return, Manager!Ready, Manager!Fails,
     Manager!Spawn, App!process, App!environment, App!report, App!NoCall, App!Alive,
     App!Armed, App!SetState, App!Return, App!Ready, App!Fails, App!Spawn
<1>14. Manager!Wait <=> App(OfTcp)!Wait
  BY <1>1 DEF
     Manager!process, Manager!environment, Manager!NoCall, Manager!Alive, Manager!Answers,
     Manager!Armed, Manager!SetState, Manager!Return, Manager!Stopped, Manager!StopFails,
     Manager!Ready, Manager!Fails, Manager!Wait, App!process, App!environment, App!NoCall,
     App!Alive, App!Answers, App!Armed, App!SetState, App!Return, App!Stopped, App!StopFails,
     App!Ready, App!Fails, App!Wait
<1>15. Manager!Drop <=> App(OfTcp)!Drop
  BY <1>1 DEF
     Manager!process, Manager!clock, Manager!environment, Manager!report, Manager!Stopped,
     Manager!StopFails, Manager!Drop, App!process, App!clock, App!environment, App!report,
     App!Stopped, App!StopFails, App!Drop
<1>16. Manager!Work <=> App(OfTcp)!Work
  BY <1>4, <1>5, <1>6, <1>7, <1>8, <1>9, <1>10, <1>11, <1>12, <1>13, <1>14, <1>15
     DEF Manager!Work, App!Work
<1>17. Manager!Next <=> App(OfTcp)!Next
  BY <1>3, <1>16 DEF Manager!Next, App!Next
<1> QED
  BY <1>2, <1>17 DEF Manager!vars, App!vars

LEMMA PreflightIsPreflight ==
    /\ Preflight!Init <=> Check(OfTcp)!Init
    /\ [Preflight!Next]_(Preflight!vars) <=> [Check(OfTcp)!Next]_(Check(OfTcp)!vars)
<1>1. /\ OfTcp.members = {m1, m2} /\ OfTcp.attempts = 3 /\ OfTcp.faults = TRUE
  BY DEF OfTcp
<1> QED
  BY <1>1 DEF
     Preflight!vars, Preflight!group, Preflight!files, Preflight!Init, Preflight!Alive,
     Preflight!ProbeParent, Preflight!CreateDir, Preflight!Spawn, Preflight!StopFor,
     Preflight!Inspect, Preflight!Ready, Preflight!StopReturns, Preflight!Resist,
     Preflight!Release, Preflight!Stop, Preflight!Grace, Preflight!Kill, Preflight!Sweep,
     Preflight!Unlink, Preflight!RemoveDir, Preflight!DropManager, Preflight!Bind,
     Preflight!Fork, Preflight!Exit, Preflight!Next, Check!vars, Check!group,
     Check!files, Check!Init, Check!Alive, Check!ProbeParent, Check!CreateDir,
     Check!Spawn, Check!StopFor, Check!Inspect, Check!Ready,
     Check!StopReturns, Check!Resist, Check!Release, Check!Stop, Check!Grace,
     Check!Kill, Check!Sweep, Check!Unlink, Check!RemoveDir,
     Check!DropManager, Check!Bind, Check!Fork, Check!Exit, Check!Next

\* What the composition keeps: of each part what its proof relies on.
CompositionInv ==
    /\ subject \in {"resolver", "silent", "tcp", "local", "manager", "preflight"}
    /\ IInv /\ ManagerInv(OfTcp) /\ PreflightInv(OfTcp)
    /\ subject = "tcp" => ConnectInv(OfTcp)
    /\ subject = "local" => ConnectInv(OfLocal)
    /\ subject \notin {"tcp", "local"} => ConnectInv(OfSilent) /\ SharesKeep(OfSilent)

LEMMA CompositionStarts == MCInit => CompositionInv
<1> SUFFICES ASSUME MCInit PROVE CompositionInv
  OBVIOUS
<1>1. IInv /\ ManagerInv(OfTcp) /\ PreflightInv(OfTcp)
  BY Bounds, InitIInv, ManagerIsManager, InitIsSound, PreflightIsPreflight, PreflightStart
     DEF MCInit
<1>2. ASSUME subject = "tcp" PROVE ConnectInv(OfTcp)
  BY <1>2, Bounds, TcpIsConnect, ConnectStart DEF MCInit
<1>3. ASSUME subject = "local" PROVE ConnectInv(OfLocal)
  BY <1>3, Bounds, LocalIsConnect, ConnectStart DEF MCInit
<1>4. ASSUME subject \notin {"tcp", "local"} PROVE ConnectInv(OfSilent) /\ SharesKeep(OfSilent)
  <2>1. OfSilent.timeout >= OfSilent.addresses
    BY DEF OfSilent
  <2> QED
    BY <1>4, <2>1, Bounds, SilentIsConnect, ConnectStart, SharesStart DEF MCInit
<1> QED
  BY <1>1, <1>2, <1>3, <1>4 DEF MCInit, CompositionInv

LEMMA CompositionKeeps == CompositionInv /\ [MCNext]_all => CompositionInv'
<1> SUFFICES ASSUME CompositionInv, [MCNext]_all PROVE CompositionInv'
  OBVIOUS
<1> USE DEF all, About, Resolves, Connects, Manages, Checks
<1>1. subject' = subject
  BY DEF MCNext
<1>2. IInv'
  <2>1. [Next]_vars
    BY DEF MCNext
  <2> QED
    BY <2>1, Inductive DEF CompositionInv
<1>3. ManagerInv(OfTcp)'
  <2>1. [Manager!Next]_(Manager!vars)
    BY DEF MCNext, manager, Manager!vars
  <2> QED
    BY <2>1, ManagerIsManager, StepKeeps DEF CompositionInv
<1>4. PreflightInv(OfTcp)'
  <2>1. [Preflight!Next]_(Preflight!vars)
    BY DEF MCNext, preflight, Preflight!vars
  <2> QED
    BY <2>1, Bounds, PreflightIsPreflight, PreflightStep DEF CompositionInv
<1>5. ASSUME subject = "tcp" PROVE ConnectInv(OfTcp)'
  <2>1. [Tcp!Next]_(Tcp!vars)
    BY <1>5 DEF MCNext, connect, Tcp!vars
  <2> QED
    BY <1>5, <2>1, Bounds, TcpIsConnect, ConnectStep DEF CompositionInv
<1>6. ASSUME subject = "local" PROVE ConnectInv(OfLocal)'
  <2>1. [Local!Next]_(Local!vars)
    BY <1>6 DEF MCNext, connect, Local!vars
  <2> QED
    BY <1>6, <2>1, Bounds, LocalIsConnect, ConnectStep DEF CompositionInv
<1>7. ASSUME subject \notin {"tcp", "local"} PROVE ConnectInv(OfSilent)' /\ SharesKeep(OfSilent)'
  <2>1. [Silent!Next]_(Silent!vars)
    BY <1>7 DEF MCNext, connect, Silent!vars
  <2>2. ~OfSilent.unix /\ ~OfSilent.delays
    BY DEF OfSilent
  <2> QED
    BY <1>7, <2>1, <2>2, Bounds, SilentIsConnect, ConnectStep, SharesStep DEF CompositionInv
<1> QED
  BY <1>1, <1>2, <1>3, <1>4, <1>5, <1>6, <1>7 DEF CompositionInv

LEMMA CompositionHolds == MCSpec => []CompositionInv
BY CompositionStarts, CompositionKeeps, PTL DEF MCSpec

\* Every variable of the composition keeps its type.
THEOREM AllKeepTheirTypes == MCSpec => []TypesAreCorrect
<1>1. CompositionInv => TypesAreCorrect
  <2> SUFFICES ASSUME CompositionInv PROVE TypesAreCorrect
    OBVIOUS
  <2>1. TypeOK
    BY DEF CompositionInv, IInv
  <2>2. Manager!TypeOK
    BY DEF CompositionInv, ManagerInv, Manager!Reasons, Manager!Processes, Manager!Steps,
       Manager!States, Manager!Calls, Manager!TypeOK, App!Reasons, App!Processes,
       App!Steps, App!States, App!Calls, App!TypeOK, OfSilent, OfTcp,
       OfLocal
  <2>3. Preflight!TypeOK
    BY DEF CompositionInv, PreflightInv, Preflight!TypeOK, Check!TypeOK, OfSilent, OfTcp,
       OfLocal
  <2>4. /\ subject = "tcp" => Tcp!TypeOK
        /\ subject = "local" => Local!TypeOK
        /\ subject \notin {"tcp", "local"} => Silent!TypeOK
    BY DEF CompositionInv, ConnectInv, Tcp!Steps, Tcp!TypeOK, Local!Steps, Local!TypeOK,
       Silent!Steps, Silent!TypeOK, Dial!Steps, Dial!TypeOK, OfSilent, OfTcp,
       OfLocal
  <2> QED
    BY <2>1, <2>2, <2>3, <2>4 DEF TypesAreCorrect
<1> QED
  BY <1>1, CompositionHolds, PTL

\* A socket that is returned stays open, and a silent address leaves time for
\* those after it.
THEOREM ConnectsAreSound == MCSpec => []ConnectIsSound
<1>1. CompositionInv => ConnectIsSound
  <2> SUFFICES ASSUME CompositionInv PROVE ConnectIsSound
    OBVIOUS
  <2>1. \/ Dial(OfTcp)!ReturnedIsOpen \/ Dial(OfLocal)!ReturnedIsOpen
        \/ Dial(OfSilent)!ReturnedIsOpen
    BY ReturnedSays DEF CompositionInv
  <2>2. Tcp!ReturnedIsOpen
    BY <2>1 DEF Tcp!ReturnedIsOpen, Dial!ReturnedIsOpen, OfSilent, OfTcp, OfLocal
  <2>3. subject = "silent" => Silent!SharesRemain
    BY DEF CompositionInv, SharesKeep, Dial!SharesRemain, Silent!SharesRemain, OfSilent,
       OfTcp, OfLocal
  <2> QED
    BY <2>2, <2>3 DEF ConnectIsSound
<1> QED
  BY <1>1, CompositionHolds, PTL

\* What the manager reports is true, whatever fails.
THEOREM ManagerStaysTrue == MCSpec => []ManagerIsTrue
<1>1. CompositionInv => ManagerIsTrue
  BY ManagerSays DEF CompositionInv, ManagerIsTrue, Manager!AdvertisesWhatItReports,
       Manager!DrainingIsTrue, Manager!UpgradeReachesChild, Manager!NoOrphan,
       Manager!ManagerIsTrue, App!AdvertisesWhatItReports, App!DrainingIsTrue,
       App!UpgradeReachesChild, App!NoOrphan, App!ManagerIsTrue, OfSilent,
       OfTcp, OfLocal
<1> QED
  BY <1>1, CompositionHolds, PTL

\* In the composition, a preflight that passes, or none of whose stops has failed,
\* leaves no process, and of its files only what it failed to remove.
THEOREM NothingStaysBehind == MCSpec => []NothingIsLeft
<1>1. CompositionInv => NothingIsLeft
  BY PreflightSays DEF CompositionInv, NothingIsLeft, Preflight!Alive,
     Preflight!ReleasedMeansDead,
       Preflight!NothingIsLeft, Check!Alive, Check!ReleasedMeansDead,
       Check!NothingIsLeft, OfSilent, OfTcp, OfLocal
<1> QED
  BY <1>1, CompositionHolds, PTL
=============================================================================
