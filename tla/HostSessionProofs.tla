------------------------- MODULE HostSessionProofs -------------------------
(***************************************************************************)
(* The operations on an app-server's threads, for any threads, sessions,   *)
(* pages and page budgets: a sync that reports success has left no thread  *)
(* of the session behind, and what is attached, or runs a command, is a    *)
(* thread of the session asked for.  And, after them, the reports of a     *)
(* host's sessions, from what the connector reads to the rows of the       *)
(* Worker: a report that calls itself full has all the sessions of the     *)
(* app-server, and no other takes a session's presence away.  Last, the    *)
(* history of an attached session, from the files Codex writes to the      *)
(* thread: it has no silent gap and no disorder.                           *)
(***************************************************************************)
EXTENDS AppServerThreads, TLAPS, FiniteSetTheorems, SequenceTheorems, WellFoundedInduction

-----------------------------------------------------------------------------
(* Numbers.                                                                *)

\* A set of numbers that is not empty has a least.
LEMMA LeastOf ==
    ASSUME NEW T \in SUBSET Nat, T # {}
    PROVE  \E x \in T : \A y \in T : x <= y
<1> DEFINE R == {ss \in Nat \X Nat : ss[1] < ss[2]}
<1>1. IsWellFoundedOn(R, Nat)
  BY NatLessThanWellFounded DEF OpToRel
<1> HIDE DEF R
<1>2. PICK x \in T : \A y \in T : ~(<<y, x>> \in R)
  BY <1>1, WFMin
<1>3. \A y \in T : ~(y < x)
  BY <1>2 DEF R
<1> QED
  BY <1>3

-----------------------------------------------------------------------------
(* The elements of a sequence that are in a set.                            *)

KeptOf(s, S, f, i) ==
    IF i = 0 THEN <<>> ELSE IF s[i] \in S THEN Append(f[i - 1], s[i]) ELSE f[i - 1]
Keeping(s, S, n, f) == f = [i \in 0 .. n |-> KeptOf(s, S, f, i)]

\* What keeps the elements of a sequence exists.
LEMMA SomethingKeeps ==
    ASSUME NEW s, NEW S, NEW n \in Nat
    PROVE  \E f : Keeping(s, S, n, f)
<1> DEFINE Bad == {k \in Nat : \A f : ~Keeping(s, S, k, f)}
<1> SUFFICES ASSUME Bad # {} PROVE FALSE
  OBVIOUS
<1>1. PICK m \in Bad : \A y \in Bad : m <= y
  BY LeastOf
<1>2. CASE m = 0
  <2> DEFINE f == [i \in 0 .. 0 |-> <<>>]
  <2>1. f = [i \in 0 .. 0 |-> KeptOf(s, S, f, i)]
    BY DEF KeptOf
  <2> QED
    BY <1>2, <2>1 DEF Keeping
<1>3. CASE m # 0
  <2>1. m \in Nat /\ m - 1 \in Nat /\ m - 1 \notin Bad
    BY <1>1, <1>3
  <2>2. PICK g : Keeping(s, S, m - 1, g)
    BY <2>1
  <2> DEFINE f == [i \in 0 .. m |-> IF i = m THEN KeptOf(s, S, g, m) ELSE g[i]]
  <2>3. \A i \in 0 .. m : f[i] = KeptOf(s, S, f, i)
    <3> SUFFICES ASSUME NEW i \in 0 .. m PROVE f[i] = KeptOf(s, S, f, i)
      OBVIOUS
    <3>0. i # 0 => i - 1 \in 0 .. m /\ i - 1 # m
      BY <2>1
    <3>1. i # 0 => i - 1 \in 0 .. m /\ i - 1 # m /\ f[i - 1] = g[i - 1]
      BY <3>0
    <3> HIDE DEF f
    <3>2. KeptOf(s, S, f, i) = KeptOf(s, S, g, i)
      BY <3>1 DEF KeptOf
    <3>3. i # m => i \in 0 .. m - 1 /\ g[i] = KeptOf(s, S, g, i)
      <4>1. i # m => i \in 0 .. m - 1
        BY <2>1
      <4>2. \A j \in 0 .. m - 1 : g[j] = KeptOf(s, S, g, j)
        <5>1. g = [j \in 0 .. m - 1 |-> KeptOf(s, S, g, j)]
          BY <2>2, Zenon DEF Keeping
        <5> QED
          BY <5>1, Zenon
      <4> QED
        BY <4>1, <4>2, Zenon
    <3>4. f[i] = (IF i = m THEN KeptOf(s, S, g, m) ELSE g[i])
      BY DEF f
    <3> HIDE DEF KeptOf
    <3> QED
      BY <3>2, <3>3, <3>4
  <2>4. f = [i \in 0 .. m |-> KeptOf(s, S, f, i)]
    <3> HIDE DEF KeptOf
    <3>1. f = [i \in 0 .. m |-> f[i]]
      OBVIOUS
    <3> HIDE DEF f
    <3> QED
      BY <2>3, <3>1
  <2> QED
    BY <2>4 DEF Keeping
<1> QED
  BY <1>2, <1>3

\* What Only returns: a sequence of the elements that are in the set, none twice
\* if the sequence has none twice.
LEMMA OnlyThose ==
    ASSUME NEW T, NEW s \in Seq(T), NEW S
    PROVE  /\ Only(s, S) \in Seq(T)
           /\ ToSet(Only(s, S)) = ToSet(s) \cap S
           /\ IsInjective(s) => IsInjective(Only(s, S))
<1> DEFINE n == Len(s)
           f == CHOOSE h : Keeping(s, S, n, h)
           Mine(i) == /\ f[i] \in Seq(T)
                      /\ ToSet(f[i]) = {s[j] : j \in 1 .. i} \cap S
                      /\ IsInjective(s) => IsInjective(f[i])
<1>1. n \in Nat /\ DOMAIN s = 1 .. n /\ \A j \in 1 .. n : s[j] \in T
  OBVIOUS
<1>2. Keeping(s, S, n, f)
  BY <1>1, SomethingKeeps
<1>3. Only(s, S) = f[n]
  BY DEF Only, Keeping, KeptOf
<1> HIDE DEF n, f
<1>4. \A i \in 0 .. n : f[i] = KeptOf(s, S, f, i)
  BY <1>2 DEF Keeping
<1>5. \A i \in 0 .. n : Mine(i)
  <2> DEFINE Bad == {k \in 0 .. n : ~Mine(k)}
  <2> SUFFICES ASSUME Bad # {} PROVE FALSE
    OBVIOUS
  <2>1. PICK m \in Bad : \A y \in Bad : m <= y
    <3>1. Bad \in SUBSET Nat
      OBVIOUS
    <3> HIDE DEF Bad
    <3> QED
      BY <3>1, LeastOf
  <2>2. CASE m = 0
    <3>1. f[0] = <<>>
      BY <1>1, <1>4 DEF KeptOf
    <3>2. Mine(0)
      BY <3>1 DEF ToSet, IsInjective
    <3> QED
      BY <2>1, <2>2, <3>2
  <2>3. CASE m # 0
    <3>1. /\ m \in 1 .. n /\ m - 1 \in 0 .. n /\ m - 1 \notin Bad
      <4>1. m \in 0 .. n /\ ~(m <= m - 1)
        BY <1>1, <2>1
      <4>2. m - 1 \notin Bad
        BY <2>1, <4>1
      <4> HIDE DEF Bad
      <4> QED
        BY <1>1, <2>3, <4>1, <4>2
    <3> DEFINE g == f[m - 1]
    <3>2. /\ g \in Seq(T) /\ ToSet(g) = {s[j] : j \in 1 .. m - 1} \cap S
          /\ IsInjective(s) => IsInjective(g)
      BY <3>1
    <3>3. f[m] = IF s[m] \in S THEN Append(g, s[m]) ELSE g
      BY <1>4, <3>1 DEF KeptOf
    <3> HIDE DEF g
    <3>4. {s[j] : j \in 1 .. m} = {s[j] : j \in 1 .. m - 1} \cup {s[m]}
      <4>1. \A j : j \in 1 .. m <=> j \in 1 .. m - 1 \/ j = m
        BY <3>1
      <4> QED
        BY <4>1
    <3>5. CASE s[m] \notin S
      <4>1. f[m] = g
        BY <3>3, <3>5
      <4> QED
        BY <2>1, <3>1, <3>2, <3>4, <3>5, <4>1
    <3>6. CASE s[m] \in S
      <4> DEFINE a == Append(g, s[m])
      <4>1. f[m] = a
        BY <3>3, <3>6
      <4>2. s[m] \in T
        BY <1>1, <3>1
      <4>3. /\ a \in Seq(T) /\ Len(a) = Len(g) + 1 /\ Len(g) \in Nat
            /\ \A i \in 1 .. Len(g) : a[i] = g[i]
            /\ a[Len(g) + 1] = s[m]
            /\ DOMAIN a = 1 .. Len(g) + 1 /\ DOMAIN g = 1 .. Len(g)
        BY <3>2, <4>2, AppendProperties
      <4> HIDE DEF a
      <4>4. ToSet(a) = ToSet(g) \cup {s[m]}
        BY <4>3 DEF ToSet
      <4>5. IsInjective(s) => IsInjective(a)
        <5> SUFFICES ASSUME IsInjective(s), NEW i \in DOMAIN a, NEW j \in DOMAIN a, a[i] = a[j]
                     PROVE  i = j
          BY DEF IsInjective
        <5>1. \A k \in 1 .. Len(g) : g[k] # s[m]
          <6> SUFFICES ASSUME NEW k \in 1 .. Len(g), g[k] = s[m] PROVE FALSE
            OBVIOUS
          <6>1. s[m] \in ToSet(g)
            BY <4>3 DEF ToSet
          <6>2. PICK j1 \in 1 .. m - 1 : s[j1] = s[m]
            BY <3>2, <6>1
          <6>3. j1 \in DOMAIN s /\ m \in DOMAIN s /\ j1 # m
            BY <1>1, <3>1, <6>2
          <6> QED
            BY <6>2, <6>3 DEF IsInjective
        <5>2. IsInjective(g)
          BY <3>2
        <5>3. CASE i \in 1 .. Len(g) /\ j \in 1 .. Len(g)
          BY <4>3, <5>2, <5>3 DEF IsInjective
        <5>4. i \in 1 .. Len(g) \/ i = Len(g) + 1
          BY <4>3
        <5>5. j \in 1 .. Len(g) \/ j = Len(g) + 1
          BY <4>3
        <5> QED
          BY <4>3, <5>1, <5>3, <5>4, <5>5
      <4>6. ToSet(a) = {s[j] : j \in 1 .. m} \cap S
        BY <3>2, <3>4, <3>6, <4>4
      <4>7. Mine(m)
        BY <3>2, <4>1, <4>3, <4>5, <4>6
      <4> QED
        BY <2>1, <4>7
    <3> QED
      BY <3>5, <3>6
  <2> QED
    BY <2>2, <2>3
<1>6. ToSet(s) = {s[j] : j \in 1 .. n}
  BY <1>1 DEF ToSet
<1>7. n \in 0 .. n
  BY <1>1
<1>8. Mine(n)
  BY <1>5, <1>7
<1> QED
  BY <1>3, <1>6, <1>8

\* Two sequences one after the other.
LEMMA Joined ==
    ASSUME NEW T, NEW p \in Seq(T), NEW q \in Seq(T)
    PROVE  /\ p \o q \in Seq(T)
           /\ ToSet(p \o q) = ToSet(p) \cup ToSet(q)
           /\ IsInjective(p) /\ IsInjective(q) /\ ToSet(p) \cap ToSet(q) = {} => IsInjective(p \o q)
<1> DEFINE r == p \o q
           m == Len(p)
           n == Len(q)
<1>1. /\ r \in Seq(T) /\ Len(r) = m + n /\ m \in Nat /\ n \in Nat
      /\ \A i \in 1 .. m + n : r[i] = IF i <= m THEN p[i] ELSE q[i - m]
      /\ DOMAIN p = 1 .. m /\ DOMAIN q = 1 .. n
  BY ConcatProperties
<1> HIDE DEF r, m, n
<1>2. DOMAIN r = 1 .. m + n
  BY <1>1
<1>3. \A i \in 1 .. m : i \in 1 .. m + n /\ r[i] = p[i]
  BY <1>1
<1>4. \A i \in 1 .. n : m + i \in 1 .. m + n /\ r[m + i] = q[i]
  <2> SUFFICES ASSUME NEW i \in 1 .. n PROVE m + i \in 1 .. m + n /\ r[m + i] = q[i]
    OBVIOUS
  <2>1. m + i \in 1 .. m + n /\ ~(m + i <= m) /\ (m + i) - m = i
    BY <1>1
  <2> QED
    BY <1>1, <2>1
<1>5. \A k \in 1 .. m + n : k \in 1 .. m \/ (\E i \in 1 .. n : k = m + i)
  <2> SUFFICES ASSUME NEW k \in 1 .. m + n, k \notin 1 .. m PROVE \E i \in 1 .. n : k = m + i
    OBVIOUS
  <2>1. k - m \in 1 .. n /\ k = m + (k - m)
    BY <1>1
  <2> QED
    BY <2>1
<1>6. ToSet(r) = ToSet(p) \cup ToSet(q)
  <2>1. \A x : x \in ToSet(r) <=> \E k \in 1 .. m + n : x = r[k]
    BY <1>2 DEF ToSet
  <2>2. \A x : x \in ToSet(p) <=> \E k \in 1 .. m : x = p[k]
    BY <1>1 DEF ToSet
  <2>3. \A x : x \in ToSet(q) <=> \E k \in 1 .. n : x = q[k]
    BY <1>1 DEF ToSet
  <2>4. \A x : x \in ToSet(r) => x \in ToSet(p) \/ x \in ToSet(q)
    BY <1>3, <1>4, <1>5, <2>1, <2>2, <2>3
  <2>5. \A x : x \in ToSet(p) \/ x \in ToSet(q) => x \in ToSet(r)
    BY <1>3, <1>4, <2>1, <2>2, <2>3
  <2> QED
    BY <2>4, <2>5
<1>7. ASSUME IsInjective(p), IsInjective(q), ToSet(p) \cap ToSet(q) = {}
      PROVE  IsInjective(r)
  <2> SUFFICES ASSUME NEW i \in 1 .. m + n, NEW j \in 1 .. m + n, r[i] = r[j] PROVE i = j
    BY <1>2 DEF IsInjective
  <2>1. \A a \in 1 .. m, b \in 1 .. n : r[a] # r[m + b]
    <3>1. \A a \in 1 .. m, b \in 1 .. n : p[a] \in ToSet(p) /\ q[b] \in ToSet(q)
      BY <1>1 DEF ToSet
    <3> QED
      BY <1>3, <1>4, <1>7, <3>1
  <2>2. CASE i \in 1 .. m /\ j \in 1 .. m
    BY <1>1, <1>3, <1>7, <2>2 DEF IsInjective
  <2>3. CASE i \notin 1 .. m /\ j \notin 1 .. m
    <3>1. PICK a \in 1 .. n, b \in 1 .. n : i = m + a /\ j = m + b
      BY <1>5, <2>3
    <3>2. q[a] = q[b]
      BY <1>4, <3>1
    <3>3. a = b
      BY <1>1, <1>7, <3>2 DEF IsInjective
    <3> QED
      BY <3>1, <3>3
  <2> QED
    BY <1>5, <2>1, <2>2, <2>3
<1> QED
  BY <1>1, <1>6, <1>7 DEF r

\* One element before a sequence.
LEMMA Before ==
    ASSUME NEW T, NEW t \in T, NEW s \in Seq(T)
    PROVE  /\ <<t>> \o s \in Seq(T)
           /\ ToSet(<<t>> \o s) = {t} \cup ToSet(s)
           /\ IsInjective(s) /\ t \notin ToSet(s) => IsInjective(<<t>> \o s)
<1>1. <<t>> \in Seq(T) /\ ToSet(<<t>>) = {t} /\ IsInjective(<<t>>)
  BY DEF ToSet, IsInjective
<1> DEFINE p == <<t>>
<1> HIDE DEF p
<1>2. p \in Seq(T) /\ ToSet(p) = {t} /\ IsInjective(p)
  BY <1>1 DEF p
<1>3. /\ p \o s \in Seq(T)
      /\ ToSet(p \o s) = ToSet(p) \cup ToSet(s)
      /\ IsInjective(p) /\ IsInjective(s) /\ ToSet(p) \cap ToSet(s) = {} => IsInjective(p \o s)
  BY <1>2, Joined
<1>4. t \notin ToSet(s) => ToSet(p) \cap ToSet(s) = {}
  BY <1>2
<1> QED
  BY <1>2, <1>3, <1>4 DEF p

\* The first and the rest.
LEMMA HeadAndTail ==
    ASSUME NEW T, NEW s \in Seq(T), s # <<>>
    PROVE  /\ Head(s) \in T /\ Tail(s) \in Seq(T)
           /\ ToSet(s) = {Head(s)} \cup ToSet(Tail(s))
<1> DEFINE h == Head(s)
           r == Tail(s)
<1>1. /\ h \in T /\ r \in Seq(T) /\ Len(s) \in Nat /\ Len(s) # 0
      /\ Len(r) = Len(s) - 1 /\ h = s[1]
      /\ \A i \in 1 .. Len(r) : r[i] = s[i + 1]
      /\ DOMAIN s = 1 .. Len(s) /\ DOMAIN r = 1 .. Len(r)
  BY HeadTailProperties
<1> HIDE DEF h, r
<1>2. \A x : x \in ToSet(s) => x = h \/ x \in ToSet(r)
  <2> SUFFICES ASSUME NEW i \in 1 .. Len(s), s[i] # h PROVE s[i] \in ToSet(r)
    BY <1>1 DEF ToSet
  <2>1. i - 1 \in 1 .. Len(r) /\ (i - 1) + 1 = i
    BY <1>1
  <2>2. r[i - 1] = s[i]
    BY <1>1, <2>1
  <2> QED
    BY <1>1, <2>1, <2>2 DEF ToSet
<1>3. \A x : x \in ToSet(r) => x \in ToSet(s)
  <2> SUFFICES ASSUME NEW i \in 1 .. Len(r) PROVE r[i] \in ToSet(s)
    BY <1>1 DEF ToSet
  <2>1. i + 1 \in 1 .. Len(s) /\ r[i] = s[i + 1]
    BY <1>1
  <2> QED
    BY <1>1, <2>1 DEF ToSet
<1>4. h \in ToSet(s)
  <2>1. 1 \in DOMAIN s
    BY <1>1
  <2> QED
    BY <1>1, <2>1 DEF ToSet
<1> QED
  BY <1>1, <1>2, <1>3, <1>4 DEF h, r

\* A page of a list: its next elements.

LEMMA PageOf ==
    ASSUME NEW T, NEW s \in Seq(T), NEW c \in Nat, NEW z \in Nat \ {0}
    PROVE  LET e == Min({c + z, Len(s)})
               p == SubSeq(s, c + 1, e)
           IN /\ e \in Nat /\ e = IF c + z <= Len(s) THEN c + z ELSE Len(s)
              /\ p \in Seq(T)
              /\ ToSet(p) = {s[i] : i \in c + 1 .. e}
              /\ IsInjective(s) => IsInjective(p)
<1> DEFINE e == Min({c + z, Len(s)})
           p == SubSeq(s, c + 1, e)
           n == Len(s)
<1>1. /\ n \in Nat /\ c + z \in Nat /\ DOMAIN s = 1 .. n
      /\ \A i \in 1 .. n : s[i] \in T
  OBVIOUS
<1> HIDE DEF n
<1>2. e = IF c + z <= n THEN c + z ELSE n
  <2> DEFINE two == {c + z, n}
             low == IF c + z <= n THEN c + z ELSE n
  <2>1. e = CHOOSE x \in two : \A y \in two : x <= y
    BY DEF Min, n
  <2>2. low \in two /\ \A y \in two : low <= y
    BY <1>1
  <2>3. \A x \in two : (\A y \in two : x <= y) => x = low
    BY <1>1
  <2> HIDE DEF two, low, e
  <2>4. e = low
    BY <2>1, <2>2, <2>3
  <2> QED
    BY <2>4 DEF low
<1>3. e \in Nat
  BY <1>1, <1>2
<1> HIDE DEF e
<1>4. \A i \in c + 1 .. e : i \in 1 .. n /\ s[i] \in T
  BY <1>1, <1>2
<1>5. /\ p \in Seq(T)
      /\ Len(p) = IF c + 1 <= e THEN e - (c + 1) + 1 ELSE 0
      /\ \A i \in 1 .. e - (c + 1) + 1 : p[i] = s[c + 1 + i - 1]
  BY <1>3, <1>4, SubSeqProperties
<1> HIDE DEF p
<1>6. DOMAIN p = 1 .. Len(p) /\ Len(p) = IF c + 1 <= e THEN e - c ELSE 0
  BY <1>3, <1>5
<1>7. \A i \in DOMAIN p : c + i \in c + 1 .. e /\ p[i] = s[c + i]
  <2> SUFFICES ASSUME NEW i \in DOMAIN p PROVE c + i \in c + 1 .. e /\ p[i] = s[c + i]
    OBVIOUS
  <2>1. i \in 1 .. e - (c + 1) + 1 /\ c + 1 + i - 1 = c + i /\ c + i \in c + 1 .. e
    BY <1>3, <1>6
  <2> QED
    BY <1>5, <2>1
<1>8. \A k \in c + 1 .. e : k - c \in DOMAIN p /\ c + (k - c) = k
  BY <1>3, <1>6
<1>9. ToSet(p) = {s[i] : i \in c + 1 .. e}
  <2>1. \A k \in c + 1 .. e : p[k - c] = s[k]
    BY <1>7, <1>8
  <2>2. \A x : x \in ToSet(p) => x \in {s[i] : i \in c + 1 .. e}
    BY <1>7 DEF ToSet
  <2>3. \A x : x \in {s[i] : i \in c + 1 .. e} => x \in ToSet(p)
    BY <1>8, <2>1 DEF ToSet
  <2> QED
    BY <2>2, <2>3
<1>10. IsInjective(s) => IsInjective(p)
  <2> SUFFICES ASSUME IsInjective(s), NEW i \in DOMAIN p, NEW j \in DOMAIN p, p[i] = p[j]
               PROVE  i = j
    BY DEF IsInjective
  <2>1. c + i \in DOMAIN s /\ c + j \in DOMAIN s /\ s[c + i] = s[c + j]
    BY <1>1, <1>4, <1>7
  <2>2. c + i = c + j
    BY <2>1 DEF IsInjective
  <2> QED
    BY <1>5, <1>6, <2>2
<1> QED
  BY <1>2, <1>3, <1>5, <1>9, <1>10 DEF e, p, n

\* A sequence that is not empty has elements.
LEMMA Elements ==
    ASSUME NEW T, NEW s \in Seq(T)
    PROVE  /\ ToSet(s) \subseteq T
           /\ s = <<>> <=> ToSet(s) = {}
<1>1. DOMAIN s = 1 .. Len(s) /\ Len(s) \in Nat /\ \A i \in DOMAIN s : s[i] \in T
  OBVIOUS
<1>2. s = <<>> => ToSet(s) = {}
  BY DEF ToSet
<1>3. s # <<>> => 1 \in DOMAIN s
  BY <1>1
<1>4. s # <<>> => ToSet(s) # {}
  BY <1>3 DEF ToSet
<1> QED
  BY <1>1, <1>2, <1>4 DEF ToSet

(* What a page shows.                                                      *)
Of(side) == {t \in ToSet(list) : (t \in archived) = side}
Shown(e) == {Listed[i] : i \in cursor + 1 .. e}

LEMMA Listing ==
    ASSUME ThreadAssumption, TypeOK
    PROVE  /\ Listed \in Seq(Threads) /\ IsInjective(Listed) /\ ToSet(Listed) = Of(Side)
           /\ Side \in BOOLEAN
<1> DEFINE S == {t \in Threads : (t \in archived) = Side}
<1>1. list \in Seq(Threads) /\ IsInjective(list)
  BY DEF TypeOK
<1>2. Listed = Only(list, S)
  BY DEF Listed
<1> HIDE DEF S
<1>3. Listed \in Seq(Threads) /\ ToSet(Listed) = ToSet(list) \cap S /\ IsInjective(Listed)
  BY <1>1, <1>2, OnlyThose
<1>4. ToSet(list) \cap S = Of(Side)
  <2>1. ToSet(list) \subseteq Threads
    BY <1>1, Elements
  <2> QED
    BY <2>1 DEF S, Of
<1>5. Side \in BOOLEAN
  BY DEF Side
<1> QED
  BY <1>3, <1>4, <1>5

LEMMA Paging ==
    ASSUME ThreadAssumption, TypeOK
    PROVE  /\ Page \in Seq(Threads) /\ IsInjective(Page) /\ ToSet(Page) \subseteq Of(Side)
           /\ ToSet(Page) = Shown(Min({cursor + PageSize, Len(Listed)}))
           /\ Min({cursor + PageSize, Len(Listed)})
                = IF cursor + PageSize <= Len(Listed) THEN cursor + PageSize ELSE Len(Listed)
           /\ Matched \in Seq(Threads) /\ IsInjective(Matched)
           /\ ToSet(Matched) = {t \in ToSet(Page) : SessionId[t] = Wanted}
           /\ AllFound \in Seq(Threads) /\ IsInjective(AllFound)
           /\ ToSet(AllFound) = ToSet(found) \cup ToSet(Matched)
           /\ Exact \subseteq ToSet(Page)
<1> DEFINE e == Min({cursor + PageSize, Len(Listed)})
<1>1. Listed \in Seq(Threads) /\ IsInjective(Listed) /\ ToSet(Listed) = Of(Side)
  BY Listing
<1>2. /\ cursor \in Nat /\ PageSize \in Nat \ {0}
      /\ found \in Seq(Threads) /\ IsInjective(found)
  BY DEF TypeOK, ThreadAssumption
<1>3. Page = SubSeq(Listed, cursor + 1, e)
  BY DEF Page
<1> DEFINE s == Listed
<1>4. s \in Seq(Threads) /\ IsInjective(s)
  BY <1>1
<1> HIDE DEF s
<1>5. LET ee == Min({cursor + PageSize, Len(s)})
          p == SubSeq(s, cursor + 1, ee)
      IN /\ ee \in Nat /\ ee = IF cursor + PageSize <= Len(s) THEN cursor + PageSize ELSE Len(s)
         /\ p \in Seq(Threads)
         /\ ToSet(p) = {s[i] : i \in cursor + 1 .. ee}
         /\ IsInjective(s) => IsInjective(p)
  BY <1>2, <1>4, PageOf
<1> HIDE DEF e
<1>6. /\ e = IF cursor + PageSize <= Len(Listed) THEN cursor + PageSize ELSE Len(Listed)
      /\ Page \in Seq(Threads) /\ IsInjective(Page)
      /\ ToSet(Page) = Shown(e)
  BY <1>3, <1>4, <1>5 DEF s, e, Shown
<1>7. ToSet(Page) \subseteq Of(Side)
  <2>1. Len(Listed) \in Nat /\ DOMAIN Listed = 1 .. Len(Listed)
    BY <1>1
  <2>2. \A i \in cursor + 1 .. e : i \in DOMAIN Listed
    <3> DEFINE n == Len(Listed)
    <3>1. n \in Nat /\ cursor \in Nat /\ PageSize \in Nat
            /\ e = IF cursor + PageSize <= n THEN cursor + PageSize ELSE n
      BY <1>2, <1>6, <2>1
    <3> HIDE DEF n
    <3>2. \A i \in cursor + 1 .. e : i \in 1 .. n
      BY <3>1
    <3> QED
      BY <2>1, <3>2 DEF n
  <2>3. \A x \in Shown(e) : x \in ToSet(Listed)
    BY <2>2 DEF Shown, ToSet
  <2> QED
    BY <1>1, <1>6, <2>3
<1> DEFINE S == {t \in Threads : SessionId[t] = Wanted}
           N == Threads \ ToSet(found)
<1>8. /\ Matched \in Seq(Threads) /\ IsInjective(Matched)
      /\ ToSet(Matched) = ToSet(Page) \cap S
  <2>1. Matched = Only(Page, S)
    BY DEF Matched
  <2> HIDE DEF S
  <2> QED
    BY <1>6, <2>1, OnlyThose
<1>9. ToSet(Page) \cap S = {t \in ToSet(Page) : SessionId[t] = Wanted}
  <2>1. ToSet(Page) \subseteq Threads
    BY <1>6, Elements
  <2> QED
    BY <2>1
<1> HIDE DEF S
<1> DEFINE q == Only(Matched, N)
<1>10. AllFound = found \o q
  BY DEF AllFound
<1> HIDE DEF N
<1>11. q \in Seq(Threads) /\ IsInjective(q) /\ ToSet(q) = ToSet(Matched) \cap N
  BY <1>8, OnlyThose
<1> HIDE DEF q
<1>12. /\ AllFound \in Seq(Threads)
       /\ ToSet(AllFound) = ToSet(found) \cup ToSet(q)
       /\ ToSet(found) \cap ToSet(q) = {} => IsInjective(AllFound)
  BY <1>2, <1>10, <1>11, Joined
<1>13. /\ ToSet(found) \cap ToSet(q) = {}
       /\ ToSet(found) \cup ToSet(q) = ToSet(found) \cup ToSet(Matched)
  <2>1. ToSet(Matched) \subseteq Threads
    BY <1>8, Elements
  <2> QED
    BY <1>11, <2>1 DEF N
<1>14. Exact \subseteq ToSet(Page)
  BY DEF Exact
<1> QED
  BY <1>6, <1>7, <1>8, <1>9, <1>12, <1>13, <1>14 DEF e

-----------------------------------------------------------------------------
(* Types.                                                                  *)

LEMMA TypeStart == ASSUME ThreadAssumption, Init PROVE TypeOK
<1>1. PICK S \in SUBSET Threads : list \in SetToSeqs(S)
  BY DEF Init
<1>2. list \in Seq(Threads) /\ IsInjective(list)
  <2>1. list \in [1 .. Cardinality(S) -> S] /\ IsInjective(list)
    <3> DEFINE D == 1 .. Cardinality(S)
    <3>1. list \in {f \in [D -> S] : \A i, j \in D : i # j => f[i] # f[j]}
      BY <1>1 DEF SetToSeqs
    <3> HIDE DEF D
    <3>2. list \in [D -> S] /\ DOMAIN list = D /\ \A i, j \in D : i # j => list[i] # list[j]
      BY <3>1
    <3>3. IsInjective(list)
      BY <3>2 DEF IsInjective
    <3> QED
      BY <3>2, <3>3 DEF D
  <2>2. IsFiniteSet(S)
    BY FS_Subset DEF ThreadAssumption
  <2>3. Cardinality(S) \in Nat
    BY <2>2, FS_CardinalityType
  <2>4. list \in Seq(S)
    BY <2>1, <2>3
  <2>5. list \in Seq(Threads)
    BY <2>4, SeqMonotonic
  <2> QED
    BY <2>1, <2>5
<1>3. scans = <<>> /\ todo = <<>> /\ found = <<>> /\ seen = {} /\ cursor = 0 /\ pages = 0
  BY DEF Init
<1>4. scans \in Seq(Scan) /\ Len(scans) <= 2 /\ todo \in Seq(Threads) /\ found \in Seq(Threads)
        /\ IsInjective(found)
  BY <1>3 DEF IsInjective
<1>5. /\ archived \subseteq ToSet(list) /\ rollout \in Threads \cup {None}
      /\ touches \in 0 .. MaxTouches /\ moved = FALSE
      /\ op \in Ops /\ pc \in {"start", "scan"} /\ chosen = None /\ outcome = "none"
  BY DEF Init, FirstStep, ThreadAssumption
<1> QED
  BY <1>2, <1>3, <1>4, <1>5 DEF TypeOK

LEMMA Scanned ==
    ASSUME ThreadAssumption, TypeOK, Len(scans) < 2,
           NEW kind \in {"complete", "exhausted"}, NEW ids \in Seq(Threads)
    PROVE  LET r == Append(scans, [kind |-> kind, ids |-> ids, exact |-> Exact # {}])
           IN r \in Seq(Scan) /\ Len(r) <= 2
<1> DEFINE m == [kind |-> kind, ids |-> ids, exact |-> Exact # {}]
           r == Append(scans, m)
<1>1. m \in Scan
  BY DEF Scan
<1>2. scans \in Seq(Scan)
  BY DEF TypeOK
<1> HIDE DEF m
<1>3. r \in Seq(Scan) /\ Len(r) = Len(scans) + 1
  BY <1>1, <1>2, AppendProperties
<1> QED
  BY <1>2, <1>3 DEF m

LEMMA TypePage == ASSUME ThreadAssumption, TypeOK, Len(scans) < 2, ReadPage PROVE TypeOK'
<1>1. UNCHANGED <<server, op, todo, chosen, outcome>>
  BY DEF ReadPage
<1>2. /\ AllFound \in Seq(Threads) /\ IsInjective(AllFound)
      /\ Matched \in Seq(Threads) /\ Page \in Seq(Threads) /\ Exact \subseteq ToSet(Page)
  BY Paging
<1>3. ToSet(Page) \subseteq Threads
  BY <1>2, Elements
<1>4. ASSUME NEW kind \in {"complete", "exhausted"}, NEW ids \in Seq(Threads), ScanEnds(kind, ids)
      PROVE  TypeOK'
  <2>1. /\ scans' = Append(scans, [kind |-> kind, ids |-> ids, exact |-> Exact # {}])
        /\ pc' = "resolve" /\ cursor' = 0 /\ pages' = 0 /\ seen' = {} /\ found' = <<>>
    BY <1>4 DEF ScanEnds
  <2>2. scans' \in Seq(Scan) /\ Len(scans') <= 2
    BY <2>1, Scanned
  <2>3. found' \in Seq(Threads) /\ IsInjective(found')
    BY <2>1 DEF IsInjective
  <2> QED
    BY <1>1, <2>1, <2>2, <2>3 DEF TypeOK, server
<1>5. CASE ReadOn
  <2>1. /\ cursor' \in IF moved THEN 0 .. (Len(Listed) - 1) ELSE {cursor + PageSize}
        /\ pages' = pages + 1 /\ seen' = seen \cup ToSet(Page) /\ found' = AllFound
        /\ UNCHANGED <<pc, scans>>
    BY <1>5 DEF ReadOn
  <2>2. cursor' \in Nat
    <3>1. Len(Listed) \in Nat
      BY Listing
    <3>2. cursor + PageSize \in Nat
      BY DEF TypeOK, ThreadAssumption
    <3> DEFINE n == Len(Listed)
    <3>3. cursor' \in 0 .. (n - 1) \/ cursor' = cursor + PageSize
      BY <2>1
    <3> HIDE DEF n
    <3>4. n \in Nat
      BY <3>1 DEF n
    <3> QED
      BY <3>2, <3>3, <3>4
  <2>3. found' \in Seq(Threads) /\ IsInjective(found')
    BY <1>2, <2>1
  <2> QED
    BY <1>1, <1>3, <2>1, <2>2, <2>3 DEF TypeOK, server
<1>6. Exact # {} => Wanted \in Threads
  BY <1>2, <1>3 DEF Exact
<1>7. CASE Exact # {} /\ ScanEnds("complete", <<Wanted>>)
  <2>1. <<Wanted>> \in Seq(Threads)
    BY <1>6, <1>7
  <2> QED
    BY <1>4, <1>7, <2>1
<1>8. CASE Matched # <<>> /\ ScanEnds("complete", <<Head(Matched)>>)
  <2>1. Head(Matched) \in Threads
    BY <1>2, <1>8, HeadAndTail
  <2>2. <<Head(Matched)>> \in Seq(Threads)
    BY <2>1
  <2> QED
    BY <1>4, <1>8, <2>2
<1>9. CASE ScanEnds("complete", AllFound) \/ ScanEnds("exhausted", AllFound)
  BY <1>2, <1>4, <1>9
<1> QED
  BY <1>5, <1>7, <1>8, <1>9 DEF ReadPage

LEMMA Ids ==
    ASSUME TypeOK, NEW i \in 1 .. Len(scans)
    PROVE  scans[i].ids \in Seq(Threads) /\ scans[i].exact \in BOOLEAN
<1>1. scans[i] \in Scan
  BY DEF TypeOK
<1> QED
  BY <1>1 DEF Scan

LEMMA TypeResolve ==
    ASSUME ThreadAssumption, TypeOK,
           ResolveSource \/ ResolveTarget \/ ResolveFirst \/ UpdateDone \/ Resume \/ NoRollout
    PROVE  TypeOK'
<1>1. UNCHANGED <<server, op, scan, scans>>
  BY DEF ResolveSource, ResolveTarget, ResolveFirst, UpdateDone, Resume, NoRollout, Goto, End
<1>2. /\ pc' \in {"scan", "resolve", "rollout", "update", "resume", "start", "done"}
      /\ outcome' \in {"none", "true", "false", "error"}
  BY DEF ResolveSource, ResolveTarget, ResolveFirst, UpdateDone, Resume, NoRollout, Goto,
     End, TypeOK
<1>3. todo' \in Seq(Threads) /\ chosen' \in Threads \cup {None}
  <2>1. todo \in Seq(Threads) /\ chosen \in Threads \cup {None} /\ Len(scans) \in Nat
    BY DEF TypeOK
  <2>2. CASE ResolveSource
    <3>1. Len(scans) = 1 /\ chosen' = chosen /\ todo' \in {todo, scans[1].ids}
      BY <2>2 DEF ResolveSource, Source, End
    <3>2. scans[1].ids \in Seq(Threads)
      BY <3>1, Ids
    <3> QED
      BY <2>1, <3>1, <3>2
  <2>3. CASE ResolveFirst
    <3>1. Len(scans) \in 1 .. Len(scans) \/ Len(scans) = 0
      BY <2>1
    <3>2. CASE Found(scans[Len(scans)])
      <4> DEFINE ids == scans[Len(scans)].ids
      <4>1. Len(scans) # 0 /\ ids # <<>> /\ chosen' = Head(ids) /\ todo' \in {todo, <<Head(ids)>>}
        <5>1. ids # <<>>
          BY <3>2 DEF Found
        <5>2. Len(scans) # 0
          <6>1. Len(scans) = 1 \/ Len(scans) = 2
            BY <2>3, <3>2, Zenon DEF ResolveFirst
          <6> QED
            BY <6>1
        <5>3. chosen' = Head(ids) /\ (todo' = todo \/ todo' = <<Head(ids)>>)
          <6>1. \/ /\ chosen' = Head(ids)
                   /\ UNCHANGED todo \/ todo' = <<Head(ids)>>
                \/ ~Found(scans[Len(scans)])
            BY <2>3, Zenon DEF ResolveFirst
          <6> QED
            BY <3>2, <6>1, Zenon
        <5> QED
          BY <5>1, <5>2, <5>3
      <4>2. ids \in Seq(Threads)
        BY <3>1, <4>1, Ids
      <4> HIDE DEF ids
      <4>3. Head(ids) \in Threads
        BY <4>1, <4>2, HeadAndTail
      <4>4. <<Head(ids)>> \in Seq(Threads)
        BY <4>3
      <4> QED
        BY <2>1, <4>1, <4>3, <4>4
    <3>3. CASE ~Found(scans[Len(scans)])
      BY <2>1, <2>3, <3>3 DEF ResolveFirst
    <3> QED
      BY <3>2, <3>3
  <2>4. CASE ResolveTarget \/ UpdateDone \/ Resume \/ NoRollout
    BY <2>1, <2>4 DEF ResolveTarget, UpdateDone, Resume, NoRollout, End
  <2> QED
    BY <2>2, <2>3, <2>4
<1> QED
  BY <1>1, <1>2, <1>3 DEF TypeOK, server, scan

LEMMA LoadedType ==
    ASSUME TypeOK, NEW t \in Threads, Loaded(t)
    PROVE  list' \in Seq(Threads) /\ IsInjective(list') /\ ToSet(list') = ToSet(list) \cup {t}
<1>1. list \in Seq(Threads) /\ IsInjective(list)
  BY DEF TypeOK
<1>2. /\ <<t>> \o list \in Seq(Threads)
      /\ ToSet(<<t>> \o list) = {t} \cup ToSet(list)
      /\ t \notin ToSet(list) => IsInjective(<<t>> \o list)
  BY <1>1, Before
<1>3. CASE t \in ToSet(list)
  <2>1. list' = list
    BY <1>3 DEF Loaded
  <2> QED
    BY <1>1, <1>3, <2>1
<1>4. CASE t \notin ToSet(list)
  <2>1. list' = <<t>> \o list
    BY <1>4 DEF Loaded
  <2> QED
    BY <1>2, <1>4, <2>1
<1> QED
  BY <1>3, <1>4

LEMMA NewType ==
    ASSUME TypeOK, NEW t \in Threads \ ToSet(list), list' = <<t>> \o list
    PROVE  list' \in Seq(Threads) /\ IsInjective(list') /\ ToSet(list') = ToSet(list) \cup {t}
<1>1. list \in Seq(Threads) /\ IsInjective(list) /\ t \in Threads
  BY DEF TypeOK
<1> QED
  BY <1>1, Before

LEMMA TouchType ==
    ASSUME TypeOK, NEW t \in Threads, Touch(t)
    PROVE  list' \in Seq(Threads) /\ IsInjective(list') /\ ToSet(list') = ToSet(list)
<1> DEFINE S == Threads \ {t}
           q == Only(list, S)
<1>1. t \in ToSet(list) /\ list' = <<t>> \o q
  BY DEF Touch
<1>2. list \in Seq(Threads) /\ IsInjective(list)
  BY DEF TypeOK
<1> HIDE DEF S
<1>3. q \in Seq(Threads) /\ IsInjective(q) /\ ToSet(q) = ToSet(list) \cap S
  BY <1>2, OnlyThose
<1> HIDE DEF q
<1>4. /\ <<t>> \o q \in Seq(Threads)
      /\ ToSet(<<t>> \o q) = {t} \cup ToSet(q)
      /\ t \notin ToSet(q) => IsInjective(<<t>> \o q)
  BY <1>3, Before
<1>5. ToSet(list) \subseteq Threads
  BY <1>2, Elements
<1> QED
  BY <1>1, <1>3, <1>4, <1>5 DEF S

-----------------------------------------------------------------------------
(* The invariant.                                                          *)

\* The thread is the one that is wanted, or of the session.
Fits(t) == t = Wanted \/ SessionId[t] = Wanted
Fitting == {t \in ToSet(list) : Fits(t)}
Syncs == {"archive", "unarchive"}
Attaches == {"ensure", "command"}

\* The steps an operation goes through, and what a scan begins with.
StepsFit ==
  /\ Len(scans) = 2 => pc # "scan"
  /\ pc = "resolve" => Len(scans) # 0
  /\ pc \in {"scan", "resolve", "rollout", "update", "resume"} => op # "create"
  /\ op = "command" => (pc = "scan" => Len(scans) = 0) /\ (pc = "resolve" => Len(scans) = 1)
  /\ pc = "update" => op # "command" /\ (op = "ensure" => chosen \in Threads)
  /\ pc = "resume" => op \in Attaches /\ chosen \in Threads
  /\ pc = "start" => op = "create"
  /\ pc \notin {"scan", "done"} => cursor = 0 /\ pages = 0 /\ seen = {} /\ found = <<>>
  /\ pc # "done" => outcome = "none"

\* What is found, updated or chosen fits what is wanted.
Matches ==
  /\ ToSet(found) \subseteq Fitting
  /\ \A i \in 1 .. Len(scans) : ToSet(scans[i].ids) \subseteq Fitting
  /\ ToSet(todo) \subseteq Fitting
  /\ op # "create" /\ chosen # None => Fits(chosen)

\* What is attached is active when it is resumed.
AttachesActive ==
  op \in Attaches =>
    /\ pc = "scan" /\ Len(scans) = 0 => ToSet(found) \cap archived = {}
    /\ pc = "resolve" /\ Len(scans) = 1 => ToSet(scans[1].ids) \cap archived = {}
    /\ pc = "update" => /\ chosen \in Threads
                        /\ todo \in {<<chosen>>, <<>>}
                        /\ todo = <<>> => chosen \notin archived
    /\ pc = "resume" => chosen \notin archived
    /\ outcome = "true" =>
         chosen \in Threads /\ chosen \notin archived
           /\ (op = "ensure" => SessionOf(chosen) = Wanted)

\* Each page showed a thread that those before it did not.
ShowsNew == pages <= Cardinality(seen)

-----------------------------------------------------------------------------
LEMMA ChangedType ==
    ASSUME TypeOK, Matches, todo # <<>>, Changed(Head(todo))
    PROVE  /\ archived' \subseteq ToSet(list)
           /\ Head(todo) \in Threads /\ Head(todo) \in Fitting /\ Tail(todo) \in Seq(Threads)
           /\ ToSet(todo) = {Head(todo)} \cup ToSet(Tail(todo))
<1>1. todo \in Seq(Threads) /\ archived \subseteq ToSet(list)
  BY DEF TypeOK
<1>2. /\ Head(todo) \in Threads /\ Tail(todo) \in Seq(Threads)
      /\ ToSet(todo) = {Head(todo)} \cup ToSet(Tail(todo))
  BY <1>1, HeadAndTail
<1>3. Head(todo) \in Fitting
  BY <1>2 DEF Matches
<1> QED
  BY <1>1, <1>2, <1>3 DEF Changed, Fitting

LEMMA TypeStep ==
    ASSUME ThreadAssumption, TypeOK, StepsFit, Matches, [Next]_vars PROVE TypeOK'
<1>1. CASE ReadPage
  <2>1. Len(scans) < 2
    <3>1. Len(scans) \in Nat /\ Len(scans) <= 2
      BY DEF TypeOK
    <3>2. pc = "scan"
      BY <1>1 DEF ReadPage
    <3>3. Len(scans) # 2
      BY <3>2 DEF StepsFit
    <3> DEFINE n == Len(scans)
    <3>4. n \in Nat /\ n <= 2 /\ n # 2
      BY <3>1, <3>3
    <3> HIDE DEF n
    <3>5. n < 2
      BY <3>4
    <3> QED
      BY <3>5 DEF n
  <2> QED
    BY <1>1, <2>1, TypePage
<1>2. CASE ResolveSource \/ ResolveTarget \/ ResolveFirst \/ UpdateDone \/ Resume \/ NoRollout
  BY <1>2, TypeResolve
<1>3. CASE ResumeRollout
  <2>1. rollout \in Threads
    BY <1>3 DEF ResumeRollout, FoundRollout, TypeOK
  <2>2. list' \in Seq(Threads) /\ IsInjective(list') /\ ToSet(list') = ToSet(list) \cup {rollout}
    BY <1>3, <2>1, LoadedType DEF ResumeRollout
  <2>3. <<rollout>> \in Seq(Threads)
    BY <2>1
  <2>4. todo' \in Seq(Threads) /\ chosen' \in Threads \cup {None}
    <3>1. todo' \in {todo, <<rollout>>} /\ chosen' \in {chosen, rollout}
      BY <1>3 DEF ResumeRollout, End, Goto
    <3> QED
      BY <2>1, <2>3, <3>1 DEF TypeOK
  <2>5. /\ pc' \in {"done", "update"} /\ outcome' \in {"none", "true", "false", "error"}
        /\ UNCHANGED <<archived, rollout, touches, moved, op, scan, scans>>
    BY <1>3 DEF ResumeRollout, End, Goto, TypeOK
  <2> QED
    BY <2>2, <2>4, <2>5 DEF TypeOK, scan
<1>4. CASE Update
  <2>1. /\ todo # <<>> /\ Changed(Head(todo)) /\ todo' = Tail(todo)
        /\ UNCHANGED <<list, rollout, touches, moved, op, pc, scan, scans, chosen, outcome>>
    BY <1>4 DEF Update
  <2>2. archived' \subseteq ToSet(list) /\ Tail(todo) \in Seq(Threads)
    BY <2>1, ChangedType
  <2> QED
    BY <2>1, <2>2 DEF TypeOK, scan
<1>5. CASE Create
  <2>1. PICK t \in Threads \ ToSet(list) : chosen' = t /\ list' = <<t>> \o list
    BY <1>5 DEF Create
  <2>2. list' \in Seq(Threads) /\ IsInjective(list') /\ ToSet(list') = ToSet(list) \cup {t}
    BY <2>1, NewType
  <2>3. /\ pc' = "done" /\ outcome' = "true"
        /\ UNCHANGED <<archived, rollout, touches, moved, op, scan, scans, todo>>
    BY <1>5 DEF Create, End
  <2> QED
    BY <2>1, <2>2, <2>3 DEF TypeOK, scan
<1>6. CASE Fail
  <2>1. /\ pc' = "done" /\ outcome' = "error"
        /\ UNCHANGED <<rollout, touches, moved, op, scan, scans, todo, chosen>>
    BY <1>6 DEF Fail, End
  <2>2. list' \in Seq(Threads) /\ IsInjective(list') /\ archived' \subseteq ToSet(list')
    <3>1. CASE UNCHANGED <<list, archived>>
      BY <3>1 DEF TypeOK
    <3>2. CASE todo # <<>> /\ Changed(Head(todo)) /\ UNCHANGED list
      <4>1. archived' \subseteq ToSet(list)
        BY <3>2, ChangedType
      <4> QED
        BY <3>2, <4>1 DEF TypeOK
    <3>3. CASE FoundRollout /\ Loaded(rollout) /\ UNCHANGED archived
      <4>1. rollout \in Threads
        BY <3>3 DEF FoundRollout, TypeOK
      <4>2. list' \in Seq(Threads) /\ IsInjective(list')
              /\ ToSet(list') = ToSet(list) \cup {rollout}
        BY <3>3, <4>1, LoadedType
      <4> QED
        BY <3>3, <4>2 DEF TypeOK
    <3>4. CASE UNCHANGED archived /\ \E t \in Threads \ ToSet(list) : list' = <<t>> \o list
      <4>1. PICK t \in Threads \ ToSet(list) : list' = <<t>> \o list
        BY <3>4
      <4>2. list' \in Seq(Threads) /\ IsInjective(list') /\ ToSet(list') = ToSet(list) \cup {t}
        BY <4>1, NewType
      <4> QED
        BY <3>4, <4>2 DEF TypeOK
    <3> QED
      BY <1>6, <3>1, <3>2, <3>3, <3>4 DEF Fail
  <2> QED
    BY <2>1, <2>2 DEF TypeOK, scan
<1>7. ASSUME NEW o \in Ops, Begin(o) PROVE TypeOK'
  <2>1. /\ op' = o /\ pc' \in {"start", "scan"} /\ moved' = FALSE
        /\ cursor' = 0 /\ pages' = 0 /\ seen' = {} /\ found' = <<>> /\ scans' = <<>>
        /\ todo' = <<>> /\ chosen' = None /\ outcome' = "none"
        /\ UNCHANGED <<list, archived, rollout, touches>>
    BY <1>7 DEF Begin, FirstStep
  <2>2. scans' \in Seq(Scan) /\ Len(scans') <= 2 /\ todo' \in Seq(Threads)
          /\ found' \in Seq(Threads) /\ IsInjective(found')
    BY <2>1 DEF IsInjective
  <2> QED
    BY <2>1, <2>2 DEF TypeOK
<1>8. ASSUME NEW t \in Threads, Touch(t) PROVE TypeOK'
  <2>1. list' \in Seq(Threads) /\ IsInjective(list') /\ ToSet(list') = ToSet(list)
    BY <1>8, TouchType
  <2>2. /\ touches < MaxTouches /\ touches' = touches + 1 /\ moved' = TRUE
        /\ UNCHANGED <<archived, rollout, op, pc, scan, scans, todo, chosen, outcome>>
    BY <1>8 DEF Touch
  <2>3. touches' \in 0 .. MaxTouches
    BY <2>2 DEF TypeOK, ThreadAssumption
  <2> QED
    BY <2>1, <2>2, <2>3 DEF TypeOK, scan
<1>9. CASE UNCHANGED vars
  BY <1>9 DEF TypeOK, vars, server, scan
<1> QED
  BY <1>1, <1>2, <1>3, <1>4, <1>5, <1>6, <1>7, <1>8, <1>9 DEF Next, Operation

\* A sequence with one more at its end.
LEMMA OneMore ==
    ASSUME NEW T, NEW s \in Seq(T), NEW m \in T
    PROVE  /\ Len(Append(s, m)) = Len(s) + 1 /\ Len(s) \in Nat
           /\ Append(s, m)[Len(s) + 1] = m
           /\ \A i \in 1 .. Len(s) : Append(s, m)[i] = s[i]
BY AppendProperties

LEMMA ScansLen == ASSUME TypeOK PROVE Len(scans) \in {0, 1, 2}
<1> DEFINE n == Len(scans)
<1>1. n \in Nat /\ n <= 2
  BY DEF TypeOK
<1> HIDE DEF n
<1>2. n \in {0, 1, 2}
  BY <1>1
<1> QED
  BY <1>2 DEF n

\* What the end of a scan adds.
LEMMA EndOfScan ==
    ASSUME ThreadAssumption, TypeOK, NEW kind \in {"complete", "exhausted"},
           NEW ids \in Seq(Threads),
           ScanEnds(kind, ids)
    PROVE  /\ Len(scans') = Len(scans) + 1
           /\ scans'[Len(scans) + 1] = [kind |-> kind, ids |-> ids, exact |-> Exact # {}]
           /\ \A i \in 1 .. Len(scans) : scans'[i] = scans[i]
<1> DEFINE m == [kind |-> kind, ids |-> ids, exact |-> Exact # {}]
<1>1. m \in Scan
  BY DEF Scan
<1>2. scans \in Seq(Scan)
  BY DEF TypeOK
<1>3. scans' = Append(scans, m)
  BY DEF ScanEnds
<1> HIDE DEF m
<1>4. /\ Len(Append(scans, m)) = Len(scans) + 1
      /\ Append(scans, m)[Len(scans) + 1] = m
      /\ \A i \in 1 .. Len(scans) : Append(scans, m)[i] = scans[i]
  BY <1>1, <1>2, OneMore
<1>5. /\ Len(scans') = Len(scans) + 1
      /\ scans'[Len(scans) + 1] = m
      /\ \A i \in 1 .. Len(scans) : scans'[i] = scans[i]
  BY <1>3, <1>4
<1> QED
  BY <1>5 DEF m

\* How a scan may end.
Ends ==
  \/ /\ Exact # {} /\ Wanted \in Exact /\ <<Wanted>> \in Seq(Threads)
     /\ ScanEnds("complete", <<Wanted>>)
  \/ /\ Exact = {} /\ op = "command" /\ Matched # <<>> /\ <<Head(Matched)>> \in Seq(Threads)
     /\ ScanEnds("complete", <<Head(Matched)>>)
  \/ /\ Exact = {}
     /\ LastPage \/ moved
     /\ ScanEnds("complete", AllFound)
  \/ /\ Exact = {} /\ op # "command" /\ ScanEnds("exhausted", AllFound)

LEMMA PageStep ==
    ASSUME ThreadAssumption, TypeOK, ReadPage
    PROVE  /\ pc = "scan" /\ UNCHANGED <<server, op, todo, chosen, outcome>>
           /\ Ends \/ (Exact = {} /\ ~LastPage /\ ReadOn)
<1>1. /\ AllFound \in Seq(Threads) /\ Matched \in Seq(Threads)
      /\ Page \in Seq(Threads) /\ Exact \subseteq ToSet(Page)
  BY Paging
<1>2. Exact # {} => Wanted \in Exact /\ Wanted \in Threads
  <2>1. Exact \subseteq Threads
    BY <1>1, Elements
  <2> QED
    BY <2>1 DEF Exact
<1>3. Matched # <<>> => Head(Matched) \in Threads
  BY <1>1, HeadAndTail
<1>4. Exact # {} => <<Wanted>> \in Seq(Threads)
  BY <1>2
<1>5. Matched # <<>> => <<Head(Matched)>> \in Seq(Threads)
  BY <1>3
<1>6. BudgetSpent => op # "command"
  BY DEF BudgetSpent
<1> QED
  BY <1>2, <1>4, <1>5, <1>6 DEF ReadPage, Ends

\* However it ends, these are the kinds and threads it may end with.
LEMMA EndsWith ==
    ASSUME ThreadAssumption, TypeOK, Ends
    PROVE  \E kind \in {"complete", "exhausted"}, ids \in Seq(Threads) :
              /\ ScanEnds(kind, ids)
              /\ ToSet(ids) \subseteq Exact \cup ToSet(Matched) \cup ToSet(found)
<1>1. AllFound \in Seq(Threads) /\ ToSet(AllFound) = ToSet(found) \cup ToSet(Matched)
  BY Paging
<1>2. Wanted \in Exact => ToSet(<<Wanted>>) \subseteq Exact
  BY DEF ToSet
<1>3. Matched # <<>> => ToSet(<<Head(Matched)>>) \subseteq ToSet(Matched)
  <2>1. Matched \in Seq(Threads)
    BY Paging
  <2>2. Matched # <<>> => Head(Matched) \in ToSet(Matched)
    BY <2>1, HeadAndTail
  <2> QED
    BY <2>2 DEF ToSet
<1> QED
  BY <1>1, <1>2, <1>3 DEF Ends

LEMMA StepsPage ==
    ASSUME ThreadAssumption, TypeOK, StepsFit, ReadPage PROVE StepsFit'
<1>1. pc = "scan" /\ UNCHANGED <<server, op, todo, chosen, outcome>>
  BY PageStep
<1>2. CASE Ends
  <2>1. PICK kind \in {"complete", "exhausted"}, ids \in Seq(Threads) : ScanEnds(kind, ids)
    BY <1>2, EndsWith
  <2>2. Len(scans') = Len(scans) + 1
    BY <2>1, EndOfScan
  <2>3. pc' = "resolve" /\ cursor' = 0 /\ pages' = 0 /\ seen' = {} /\ found' = <<>>
    BY <2>1 DEF ScanEnds
  <2>4. Len(scans) \in {0, 1} /\ (op = "command" => Len(scans) = 0)
    BY <1>1, ScansLen DEF StepsFit
  <2>5. Len(scans') # 0 /\ (op = "command" => Len(scans') = 1)
    BY <2>2, <2>4
  <2> QED
    BY <1>1, <2>3, <2>5 DEF StepsFit
<1>3. CASE ReadOn
  <2>1. UNCHANGED <<pc, scans>>
    BY <1>3 DEF ReadOn
  <2> QED
    BY <1>1, <2>1 DEF StepsFit
<1> QED
  BY <1>2, <1>3, PageStep

LEMMA StepsOther ==
    ASSUME ThreadAssumption, TypeOK, StepsFit,
           \/ ResolveSource \/ ResolveTarget \/ ResolveFirst \/ NoRollout \/ ResumeRollout
           \/ Update \/ UpdateDone \/ Resume \/ Create \/ Fail
    PROVE  StepsFit'
<1>1. UNCHANGED <<op, scan, scans>>
  BY DEF ResolveSource, ResolveTarget, ResolveFirst, NoRollout, ResumeRollout, Update,
     UpdateDone,
         Resume, Create, Fail, Goto, End
<1>2. UNCHANGED <<cursor, pages, seen, found>> /\ Len(scans') = Len(scans)
  BY <1>1 DEF scan
<1>3. CASE ResolveSource
  BY <1>1, <1>2, <1>3 DEF ResolveSource, Goto, End, StepsFit
<1>4. CASE ResolveTarget
  BY <1>1, <1>2, <1>4 DEF ResolveTarget, Goto, End, StepsFit
<1>5. CASE ResolveFirst
  <2> DEFINE last == scans[Len(scans)]
  <2>1. /\ pc = "resolve" /\ op \in Attaches
        /\ \/ /\ Found(last) /\ chosen' = Head(last.ids)
              /\ \/ Len(scans) = 1 /\ Goto("resume")
                 \/ Len(scans) = 2 /\ Goto("update")
           \/ /\ ~Found(last) /\ chosen' = chosen
              /\ \/ op = "ensure" /\ Len(scans) = 1 /\ Goto("scan")
                 \/ (op = "command" \/ Len(scans) = 2) /\ Goto("rollout")
    BY <1>5 DEF ResolveFirst, Attaches
  <2>2. Found(last) => Head(last.ids) \in Threads
    <3>1. Len(scans) \in 1 .. Len(scans)
      BY <2>1, ScansLen DEF StepsFit
    <3>2. last.ids \in Seq(Threads)
      BY <3>1, Ids
    <3> HIDE DEF last
    <3> QED
      BY <3>2, HeadAndTail DEF Found
  <2> HIDE DEF last
  <2> QED
    BY <1>1, <1>2, <2>1, <2>2 DEF Goto, StepsFit, Attaches
<1>6. CASE NoRollout \/ Resume \/ Create \/ Fail
  BY <1>1, <1>2, <1>6 DEF NoRollout, Resume, Create, Fail, End, StepsFit
<1>7. CASE ResumeRollout
  BY <1>1, <1>2, <1>7 DEF ResumeRollout, End, Goto, StepsFit
<1>8. CASE Update \/ UpdateDone
  BY <1>1, <1>2, <1>8 DEF Update, UpdateDone, End, Goto, StepsFit, Attaches
<1> QED
  BY <1>3, <1>4, <1>5, <1>6, <1>7, <1>8

LEMMA StepsStep ==
    ASSUME ThreadAssumption, TypeOK, StepsFit, [Next]_vars PROVE StepsFit'
<1>1. ASSUME NEW o \in Ops, Begin(o) PROVE StepsFit'
  <2>1. /\ pc' = (IF o = "create" THEN "start" ELSE "scan") /\ op' = o
        /\ cursor' = 0 /\ pages' = 0 /\ seen' = {} /\ found' = <<>> /\ scans' = <<>>
        /\ outcome' = "none"
    BY <1>1 DEF Begin, FirstStep
  <2>2. Len(scans') = 0
    BY <2>1
  <2> QED
    BY <2>1, <2>2 DEF StepsFit
<1>2. ASSUME NEW t \in Threads, Touch(t) PROVE StepsFit'
  <2>1. UNCHANGED <<op, pc, cursor, pages, seen, found, scans, chosen, outcome>>
    BY <1>2 DEF Touch, scan
  <2> QED
    BY <2>1 DEF StepsFit
<1>3. CASE UNCHANGED vars
  <2>1. UNCHANGED <<op, pc, cursor, pages, seen, found, scans, chosen, outcome>>
    BY <1>3 DEF vars, scan
  <2> QED
    BY <2>1 DEF StepsFit
<1> QED
  BY <1>1, <1>2, <1>3, StepsPage, StepsOther DEF Next, Operation

-----------------------------------------------------------------------------
(* What is found fits.                                                     *)

LEMMA PageFits ==
    ASSUME ThreadAssumption, TypeOK, Matches
    PROVE  Exact \cup ToSet(Matched) \cup ToSet(found) \subseteq Fitting
<1>1. /\ ToSet(Page) \subseteq Of(Side) /\ Exact \subseteq ToSet(Page)
      /\ ToSet(Matched) = {t \in ToSet(Page) : SessionId[t] = Wanted}
  BY Paging
<1>2. Of(Side) \subseteq ToSet(list)
  BY DEF Of
<1>3. Exact \subseteq Fitting
  BY <1>1, <1>2 DEF Exact, Fitting, Fits
<1>4. ToSet(Matched) \subseteq Fitting
  BY <1>1, <1>2 DEF Fitting, Fits
<1>5. ToSet(found) \subseteq Fitting
  BY DEF Matches
<1> QED
  BY <1>3, <1>4, <1>5

LEMMA MatchesPage ==
    ASSUME ThreadAssumption, TypeOK, StepsFit, Matches, ReadPage PROVE Matches'
<1>1. pc = "scan" /\ UNCHANGED <<server, op, todo, chosen, outcome>>
  BY PageStep
<1>2. Fitting' = Fitting /\ \A t : Fits(t)' = Fits(t)
  BY <1>1 DEF Fitting, Fits, server
<1>3. CASE Ends
  <2>1. PICK kind \in {"complete", "exhausted"}, ids \in Seq(Threads) :
           ScanEnds(kind, ids) /\ ToSet(ids) \subseteq Exact \cup ToSet(Matched) \cup ToSet(found)
    BY <1>3, EndsWith
  <2>2. /\ Len(scans') = Len(scans) + 1
        /\ scans'[Len(scans) + 1] = [kind |-> kind, ids |-> ids, exact |-> Exact # {}]
        /\ \A i \in 1 .. Len(scans) : scans'[i] = scans[i]
    BY <2>1, EndOfScan
  <2>3. ToSet(found') = {}
    BY <2>1 DEF ScanEnds, ToSet
  <2>4. ASSUME NEW i \in 1 .. Len(scans') PROVE ToSet(scans'[i].ids) \subseteq Fitting
    <3>1. i \in 1 .. Len(scans) \/ i = Len(scans) + 1
      BY <2>2, ScansLen
    <3>2. CASE i \in 1 .. Len(scans)
      <4>1. scans'[i] = scans[i]
        BY <2>2, <3>2
      <4>2. ToSet(scans[i].ids) \subseteq Fitting
        BY <3>2 DEF Matches
      <4> QED
        BY <4>1, <4>2
    <3>3. CASE i = Len(scans) + 1
      <4>1. scans'[i].ids = ids
        BY <2>2, <3>3
      <4> QED
        BY <2>1, <4>1, PageFits
    <3> QED
      BY <3>1, <3>2, <3>3
  <2> QED
    BY <1>1, <1>2, <2>3, <2>4 DEF Matches
<1>4. CASE ReadOn
  <2>1. found' = AllFound /\ UNCHANGED scans
    BY <1>4 DEF ReadOn
  <2>2. ToSet(AllFound) = ToSet(found) \cup ToSet(Matched)
    BY Paging
  <2>3. ToSet(found') \subseteq Fitting
    BY <2>1, <2>2, PageFits
  <2> QED
    BY <1>1, <1>2, <2>1, <2>3 DEF Matches
<1> QED
  BY <1>3, <1>4, PageStep

LEMMA SessionFits ==
    ASSUME ThreadAssumption, NEW t, SessionOf(t) = Wanted PROVE Fits(t)
BY DEF SessionOf, Fits

LEMMA IdsFit ==
    ASSUME TypeOK, Matches, NEW i \in 1 .. Len(scans), scans[i].ids # <<>>
    PROVE  /\ Head(scans[i].ids) \in Threads /\ Head(scans[i].ids) \in ToSet(scans[i].ids)
           /\ Head(scans[i].ids) \in Fitting /\ ToSet(scans[i].ids) \subseteq Fitting
<1> DEFINE s == scans[i].ids
<1>1. s \in Seq(Threads) /\ s # <<>> /\ ToSet(s) \subseteq Fitting
  BY Ids DEF Matches
<1> HIDE DEF s
<1>2. Head(s) \in Threads /\ Head(s) \in ToSet(s)
  BY <1>1, HeadAndTail
<1> QED
  BY <1>1, <1>2 DEF s

LEMMA MatchesOther ==
    ASSUME ThreadAssumption, TypeOK, StepsFit, Matches,
           \/ ResolveSource \/ ResolveTarget \/ ResolveFirst \/ NoRollout \/ ResumeRollout
           \/ Update \/ UpdateDone \/ Resume \/ Create \/ Fail
    PROVE  Matches'
<1>1. UNCHANGED <<op, found, scans>>
  BY DEF ResolveSource, ResolveTarget, ResolveFirst, NoRollout, ResumeRollout, Update,
     UpdateDone,
         Resume, Create, Fail, Goto, End, scan
<1>2. \A t : Fits(t)' = Fits(t)
  BY DEF Fits
<1>3. SUFFICES /\ ToSet(list) \subseteq ToSet(list') /\ ToSet(todo') \subseteq Fitting \cup Fitting'
               /\ op # "create" /\ chosen' # None => Fits(chosen')
  <2>1. Fitting \subseteq Fitting'
    BY <1>2, <1>3 DEF Fitting
  <2>2. \A i \in 1 .. Len(scans) : ToSet(scans[i].ids) \subseteq Fitting'
    BY <2>1 DEF Matches
  <2>3. ToSet(found) \subseteq Fitting' /\ ToSet(todo') \subseteq Fitting'
    BY <1>3, <2>1 DEF Matches
  <2>4. Fits(chosen') = Fits(chosen)'
    BY DEF Fits
  <2> QED
    BY <1>1, <1>3, <2>2, <2>3, <2>4 DEF Matches
<1>4. ToSet(todo) \subseteq Fitting /\ (op # "create" /\ chosen # None => Fits(chosen))
  BY DEF Matches
<1>5. CASE ResolveSource
  <2>1. UNCHANGED <<list, chosen>> /\ Len(scans) = 1
        /\ \/ todo' = scans[1].ids /\ scans[1].ids # <<>>
           \/ todo' = todo
    BY <1>5 DEF ResolveSource, End, server, Source, Found
  <2>2. scans[1].ids # <<>> => ToSet(scans[1].ids) \subseteq Fitting
    BY <2>1, IdsFit
  <2> QED
    BY <1>4, <2>1, <2>2
<1>6. CASE ResolveFirst
  <2> DEFINE ids == scans[Len(scans)].ids
  <2>1. /\ pc = "resolve" /\ UNCHANGED list
        /\ \/ ids # <<>> /\ chosen' = Head(ids) /\ todo' \in {todo, <<Head(ids)>>}
           \/ chosen' = chosen /\ todo' = todo
    BY <1>6 DEF ResolveFirst, Found, server, Goto
  <2>2. Len(scans) \in 1 .. Len(scans)
    BY <2>1, ScansLen DEF StepsFit
  <2>3. ids # <<>> => Head(ids) \in Fitting
    BY <2>2, IdsFit
  <2> HIDE DEF ids
  <2>4. ToSet(<<Head(ids)>>) = {Head(ids)}
    BY DEF ToSet
  <2> QED
    BY <1>4, <2>1, <2>3, <2>4 DEF Fitting
<1>7. CASE ResolveTarget \/ NoRollout \/ UpdateDone \/ Resume
  <2>1. UNCHANGED <<list, chosen, todo>>
    BY <1>7 DEF ResolveTarget, NoRollout, UpdateDone, Resume, End, Goto, server
  <2> QED
    BY <1>4, <2>1
<1>8. CASE ResumeRollout
  <2>1. rollout \in Threads
    BY <1>8 DEF ResumeRollout, FoundRollout, TypeOK
  <2>2. ToSet(list') = ToSet(list) \cup {rollout}
    BY <1>8, <2>1, LoadedType DEF ResumeRollout
  <2>3. \/ chosen' = chosen /\ todo' = todo
        \/ SessionOf(rollout) = Wanted /\ chosen' = rollout /\ todo' \in {todo, <<rollout>>}
    BY <1>8 DEF ResumeRollout, End, Goto
  <2>4. SessionOf(rollout) = Wanted => Fits(rollout) /\ rollout \in Fitting'
    BY <1>2, <2>2, SessionFits DEF Fitting
  <2>5. ToSet(<<rollout>>) = {rollout}
    BY DEF ToSet
  <2> QED
    BY <1>4, <2>2, <2>3, <2>4, <2>5
<1>9. CASE Update
  <2>1. todo # <<>> /\ Changed(Head(todo)) /\ todo' = Tail(todo) /\ UNCHANGED <<list, chosen>>
    BY <1>9 DEF Update
  <2>2. ToSet(todo) = {Head(todo)} \cup ToSet(Tail(todo))
    BY <2>1, ChangedType
  <2> QED
    BY <1>4, <2>1, <2>2
<1>10. CASE Create
  <2>1. PICK t \in Threads \ ToSet(list) : list' = <<t>> \o list
    BY <1>10 DEF Create
  <2>2. ToSet(list') = ToSet(list) \cup {t}
    BY <2>1, NewType
  <2>3. op = "create" /\ todo' = todo
    BY <1>10 DEF Create, End, StepsFit
  <2> QED
    BY <1>4, <2>2, <2>3
<1>11. CASE Fail
  <2>1. todo' = todo /\ chosen' = chosen
    BY <1>11 DEF Fail, End
  <2>2. ToSet(list) \subseteq ToSet(list')
    <3>1. \/ UNCHANGED list
          \/ FoundRollout /\ Loaded(rollout)
          \/ \E t \in Threads \ ToSet(list) : list' = <<t>> \o list
      BY <1>11 DEF Fail
    <3>2. CASE FoundRollout /\ Loaded(rollout)
      BY <3>2, LoadedType DEF FoundRollout, TypeOK
    <3>3. CASE \E t \in Threads \ ToSet(list) : list' = <<t>> \o list
      BY <3>3, NewType
    <3> QED
      BY <3>1, <3>2, <3>3
  <2> QED
    BY <1>4, <2>1, <2>2
<1> QED
  BY <1>5, <1>6, <1>7, <1>8, <1>9, <1>10, <1>11

LEMMA MatchesStep ==
    ASSUME ThreadAssumption, TypeOK, StepsFit, Matches, [Next]_vars PROVE Matches'
<1>1. ASSUME NEW o \in Ops, Begin(o) PROVE Matches'
  <2>1. found' = <<>> /\ scans' = <<>> /\ todo' = <<>> /\ chosen' = None
    BY <1>1 DEF Begin
  <2>2. ToSet(<<>>) = {} /\ 1 .. Len(scans') = {}
    BY <2>1 DEF ToSet
  <2> QED
    BY <2>1, <2>2 DEF Matches
<1>2. ASSUME NEW t \in Threads, Touch(t) PROVE Matches'
  <2>1. UNCHANGED <<op, found, scans, todo, chosen>>
    BY <1>2 DEF Touch, scan
  <2>2. ToSet(list') = ToSet(list)
    BY <1>2, TouchType
  <2> QED
    BY <2>1, <2>2 DEF Matches, Fitting, Fits
<1>3. CASE UNCHANGED vars
  <2>1. UNCHANGED <<op, list, found, scans, todo, chosen>>
    BY <1>3 DEF vars, scan, server
  <2> QED
    BY <2>1 DEF Matches, Fitting, Fits
<1> QED
  BY <1>1, <1>2, <1>3, MatchesPage, MatchesOther DEF Next, Operation

(* What is attached is active.                                             *)

LEMMA ActiveSide ==
    ASSUME ThreadAssumption, TypeOK, op \in Attaches, Len(scans) = 0
    PROVE  Of(Side) \cap archived = {}
<1>1. Side = FALSE
  BY DEF Side, Attaches
<1> QED
  BY <1>1 DEF Of

LEMMA ActivePage ==
    ASSUME ThreadAssumption, TypeOK, StepsFit, AttachesActive, ReadPage PROVE AttachesActive'
<1>1. /\ pc = "scan" /\ outcome = "none"
      /\ UNCHANGED <<archived, op, todo, chosen, outcome>>
  BY PageStep DEF StepsFit, server
<1>2. SUFFICES ASSUME op \in Attaches PROVE AttachesActive'
  BY <1>1 DEF AttachesActive
<1>3. ASSUME Len(scans) = 0
      PROVE  (Exact \cup ToSet(Matched) \cup ToSet(found)) \cap archived = {}
  <2>1. /\ ToSet(Page) \subseteq Of(Side) /\ Exact \subseteq ToSet(Page)
        /\ ToSet(Matched) = {t \in ToSet(Page) : SessionId[t] = Wanted}
    BY Paging
  <2>2. Of(Side) \cap archived = {}
    BY <1>2, <1>3, ActiveSide
  <2>3. ToSet(found) \cap archived = {}
    BY <1>1, <1>2, <1>3 DEF AttachesActive
  <2> QED
    BY <2>1, <2>2, <2>3
<1>4. CASE Ends
  <2>1. PICK kind \in {"complete", "exhausted"}, ids \in Seq(Threads) :
           ScanEnds(kind, ids) /\ ToSet(ids) \subseteq Exact \cup ToSet(Matched) \cup ToSet(found)
    BY <1>4, EndsWith
  <2>2. /\ Len(scans') = Len(scans) + 1
        /\ scans'[Len(scans) + 1] = [kind |-> kind, ids |-> ids, exact |-> Exact # {}]
    BY <2>1, EndOfScan
  <2>3. pc' = "resolve"
    BY <2>1 DEF ScanEnds
  <2>4. ASSUME Len(scans') = 1 PROVE ToSet(scans'[1].ids) \cap archived = {}
    <3>1. Len(scans) = 0
      <4> DEFINE n == Len(scans)
      <4>1. n \in {0, 1, 2} /\ n + 1 = 1
        BY <2>2, <2>4, ScansLen
      <4> HIDE DEF n
      <4>2. n = 0
        BY <4>1
      <4> QED
        BY <4>2 DEF n
    <3>2. scans'[1].ids = ids
      BY <2>2, <3>1
    <3> QED
      BY <1>3, <2>1, <3>1, <3>2
  <2> QED
    BY <1>1, <2>3, <2>4 DEF AttachesActive
<1>5. CASE ReadOn
  <2>1. found' = AllFound /\ UNCHANGED <<pc, scans>>
    BY <1>5 DEF ReadOn
  <2>2. ToSet(AllFound) = ToSet(found) \cup ToSet(Matched)
    BY Paging
  <2>3. Len(scans) = 0 => ToSet(found') \cap archived = {}
    BY <1>3, <2>1, <2>2
  <2> QED
    BY <1>1, <2>1, <2>3 DEF AttachesActive
<1> QED
  BY <1>4, <1>5, PageStep

LEMMA ActiveOther ==
    ASSUME ThreadAssumption, TypeOK, StepsFit, Matches, AttachesActive, op \in Attaches,
           \/ ResolveFirst \/ NoRollout \/ ResumeRollout \/ Update \/ UpdateDone \/ Resume \/ Fail
    PROVE  AttachesActive'
<1>1. UNCHANGED <<op, found, scans>> /\ op \in {"ensure", "command"} /\ op' \in Attaches
  BY DEF ResolveFirst, NoRollout, ResumeRollout, Update, UpdateDone,
         Resume, Fail, Goto, End, scan, Attaches
<1>2. CASE ResolveFirst
  <2> DEFINE last == scans[Len(scans)]
  <2>1. /\ pc = "resolve" /\ archived' = archived /\ outcome' = "none"
        /\ \/ /\ Found(last) /\ chosen' = Head(last.ids)
              /\ \/ Len(scans) = 1 /\ pc' = "resume"
                 \/ Len(scans) = 2 /\ pc' = "update" /\ todo' = <<Head(last.ids)>>
           \/ pc' = "scan" /\ Len(scans) = 1
           \/ pc' = "rollout"
    BY <1>2 DEF ResolveFirst, Goto, server, StepsFit
  <2>2. Len(scans) \in 1 .. Len(scans)
    BY <2>1, ScansLen DEF StepsFit
  <2>3. ASSUME Found(last) PROVE Head(last.ids) \in Threads /\ Head(last.ids) \in ToSet(last.ids)
    BY <2>2, <2>3, IdsFit DEF Found
  <2>4. ASSUME Len(scans) = 1, Found(last) PROVE Head(last.ids) \notin archived
    BY <2>1, <2>3, <2>4 DEF AttachesActive
  <2> HIDE DEF last
  <2>5. CASE pc' = "resume"
    BY <1>1, <2>1, <2>3, <2>4, <2>5 DEF AttachesActive
  <2>6. CASE pc' = "update"
    <3>1. todo' = <<chosen'>> /\ chosen' \in Threads /\ outcome' = "none"
      BY <2>1, <2>3, <2>6
    <3>2. pc' # "scan" /\ pc' # "resolve" /\ pc' # "resume" /\ outcome' # "true"
      BY <2>6, <3>1
    <3>3. todo' # <<>>
      BY <3>1
    <3>4. chosen' \in Threads /\ todo' \in {<<chosen'>>, <<>>}
      BY <3>1, Zenon
    <3> QED
      BY <3>2, <3>3, <3>4, Zenon DEF AttachesActive
  <2>7. CASE pc' \in {"scan", "rollout"}
    BY <1>1, <2>1, <2>7 DEF AttachesActive
  <2> QED
    BY <2>1, <2>5, <2>6, <2>7
<1>3. CASE NoRollout \/ Fail
  <2>1. pc' = "done" /\ outcome' = "error"
    BY <1>1, <1>3 DEF NoRollout, Fail, End
  <2> QED
    BY <2>1 DEF AttachesActive
<1>4. CASE ResumeRollout
  <2>1. /\ rollout \in Threads /\ rollout \notin archived /\ archived' = archived
        /\ \/ pc' = "done" /\ outcome' = "error"
           \/ SessionOf(rollout) = Wanted /\ chosen' = rollout /\ pc' = "done" /\ outcome' = "true"
    BY <1>1, <1>4 DEF ResumeRollout, FoundRollout, TypeOK, End
  <2>2. SessionOf(rollout) = Wanted /\ chosen' = rollout => SessionOf(chosen)' = Wanted
    BY DEF SessionOf
  <2> QED
    BY <2>1, <2>2 DEF AttachesActive
<1>5. CASE Update
  <2>1. /\ pc = "update" /\ todo # <<>> /\ Changed(Head(todo)) /\ todo' = Tail(todo)
        /\ UNCHANGED <<pc, chosen, outcome>>
    BY <1>5 DEF Update
  <2>2. todo = <<chosen>> /\ chosen \in Threads /\ outcome = "none"
    BY <1>1, <2>1 DEF AttachesActive, StepsFit, Attaches
  <2>3. Head(todo) = chosen /\ Tail(todo) = <<>>
    BY <2>2
  <2>4. archived' = archived \ {chosen}
    BY <1>1, <2>1, <2>3 DEF Changed
  <2> QED
    BY <1>1, <2>1, <2>2, <2>3, <2>4 DEF AttachesActive
<1>6. CASE UpdateDone
  <2>1. pc = "update" /\ todo = <<>> /\ op # "command"
    BY <1>6 DEF UpdateDone, StepsFit
  <2>2. UNCHANGED <<archived, chosen>> /\ pc' = "resume" /\ outcome' = "none"
    BY <1>1, <1>6, <2>1 DEF UpdateDone, Goto, server, StepsFit
  <2>3. chosen \notin archived
    <3>1. todo # <<chosen>>
      BY <2>1
    <3> QED
      BY <1>1, <2>1, <3>1 DEF AttachesActive, Attaches
  <2> QED
    BY <2>2, <2>3 DEF AttachesActive
<1>7. CASE Resume
  <2>1. /\ pc = "resume" /\ chosen \in Threads /\ chosen \notin archived
             /\ UNCHANGED <<archived, chosen>>
        /\ pc' = "done"
        /\ outcome' = IF op = "ensure" /\ SessionOf(chosen) # Wanted THEN "error" ELSE "true"
    BY <1>1, <1>7 DEF Resume, StepsFit, AttachesActive, server, End, Attaches
  <2>2. SessionOf(chosen') = SessionOf(chosen) /\ SessionOf(chosen)' = SessionOf(chosen')
    BY <2>1 DEF SessionOf
  <2> QED
    BY <1>1, <2>1, <2>2 DEF AttachesActive
<1> QED
  BY <1>2, <1>3, <1>4, <1>5, <1>6, <1>7

LEMMA ActiveStep ==
    ASSUME ThreadAssumption, TypeOK, StepsFit, Matches, AttachesActive, [Next]_vars
    PROVE  AttachesActive'
<1>1. ASSUME NEW o \in Ops, Begin(o) PROVE AttachesActive'
  <2>1. /\ pc' = (IF o = "create" THEN "start" ELSE "scan") /\ found' = <<>> /\ scans' = <<>>
        /\ outcome' = "none"
    BY <1>1 DEF Begin, FirstStep
  <2>2. ToSet(<<>>) = {}
    BY DEF ToSet
  <2> QED
    BY <2>1, <2>2 DEF AttachesActive
<1>2. ASSUME NEW t \in Threads, Touch(t) PROVE AttachesActive'
  <2>1. UNCHANGED <<archived, op, pc, found, scans, todo, chosen, outcome>>
    BY <1>2 DEF Touch, scan
  <2> QED
    BY <2>1 DEF AttachesActive, SessionOf
<1>3. CASE UNCHANGED vars
  <2>1. UNCHANGED <<archived, op, pc, found, scans, todo, chosen, outcome>>
    BY <1>3 DEF vars, scan, server
  <2> QED
    BY <2>1 DEF AttachesActive, SessionOf
<1>4. ASSUME op \notin Attaches, Operation \/ Fail PROVE AttachesActive'
  <2>1. op' = op
    BY <1>4 DEF Operation, ReadPage, ResolveSource, ResolveTarget, ResolveFirst, NoRollout,
         ResumeRollout, Update, UpdateDone, Resume, Create, Fail, Goto, End
  <2> QED
    BY <1>4, <2>1 DEF AttachesActive, Attaches
<1>5. ASSUME op \in Attaches PROVE ~ResolveSource /\ ~ResolveTarget /\ ~Create
  BY <1>5 DEF ResolveSource, ResolveTarget, Create, Attaches, StepsFit
<1> QED
  BY <1>1, <1>2, <1>3, <1>4, <1>5, ActivePage, ActiveOther DEF Next, Operation

-----------------------------------------------------------------------------
(* Pages are no more than the threads they showed.                         *)

LEMMA ShowsStep ==
    ASSUME ThreadAssumption, TypeOK, ShowsNew, [Next]_vars PROVE ShowsNew'
<1>0. IsFiniteSet(seen) /\ Cardinality(seen) \in Nat /\ pages \in Nat
  BY FS_Subset, FS_CardinalityType DEF ThreadAssumption, TypeOK
<1>1. CASE pages' = 0 /\ seen' = {}
  BY <1>1, FS_EmptySet DEF ShowsNew
<1>2. CASE UNCHANGED <<pages, seen>>
  BY <1>2 DEF ShowsNew
<1>3. CASE Exact = {} /\ ~LastPage /\ ReadOn
  <2>1. pages' = pages + 1 /\ seen' = seen \cup ToSet(Page) /\ ~(ToSet(Page) \subseteq seen)
    BY <1>3 DEF ReadOn, LastPage
  <2>2. PICK t \in ToSet(Page) : t \notin seen
    BY <2>1
  <2>3. ToSet(Page) \subseteq Threads
    BY Paging, Elements
  <2>4. IsFiniteSet(seen') /\ seen' \subseteq Threads
    <3>1. seen' \subseteq Threads
      BY <2>1, <2>3 DEF TypeOK
    <3> QED
      BY <3>1, FS_Subset DEF ThreadAssumption
  <2>5. Cardinality(seen \cup {t}) = Cardinality(seen) + 1
    BY <1>0, <2>2, FS_AddElement
  <2>6. Cardinality(seen \cup {t}) <= Cardinality(seen')
    <3>1. seen \cup {t} \subseteq seen'
      BY <2>1, <2>2
    <3> QED
      BY <2>4, <3>1, FS_Subset
  <2>7. Cardinality(seen') \in Nat
    BY <2>4, FS_CardinalityType
  <2>8. pages + 1 <= Cardinality(seen')
    <3> DEFINE a == Cardinality(seen)
               b == Cardinality(seen')
    <3>1. a \in Nat /\ b \in Nat /\ pages <= a /\ a + 1 <= b
      BY <1>0, <2>5, <2>6, <2>7 DEF ShowsNew
    <3> HIDE DEF a, b
    <3>2. pages + 1 <= b
      BY <1>0, <3>1
    <3> QED
      BY <3>2 DEF b
  <2> QED
    BY <2>1, <2>8 DEF ShowsNew
<1>4. CASE ReadPage
  <2>1. Ends => pages' = 0 /\ seen' = {}
    BY DEF Ends, ScanEnds
  <2> QED
    BY <1>1, <1>3, <1>4, <2>1, PageStep
<1>5. ASSUME NEW o \in Ops, Begin(o) PROVE pages' = 0 /\ seen' = {}
  BY <1>5 DEF Begin
<1>6. ASSUME NEW t \in Threads, Touch(t) PROVE UNCHANGED <<pages, seen>>
  BY <1>6 DEF Touch, scan
<1>7. ASSUME \/ ResolveSource \/ ResolveTarget \/ ResolveFirst \/ NoRollout \/ ResumeRollout
             \/ Update \/ UpdateDone \/ Resume \/ Create \/ Fail \/ UNCHANGED vars
      PROVE  UNCHANGED <<pages, seen>>
  BY <1>7 DEF ResolveSource, ResolveTarget, ResolveFirst, NoRollout, ResumeRollout, Update,
     UpdateDone,
         Resume, Create, Fail, Goto, End, scan, vars
<1> QED
  BY <1>1, <1>2, <1>4, <1>5, <1>6, <1>7 DEF Next, Operation

LEMMA ShowsBound ==
    ASSUME ThreadAssumption, TypeOK, ShowsNew PROVE ScanIsBounded
<1>1. seen \subseteq Threads /\ IsFiniteSet(Threads)
  BY DEF TypeOK, ThreadAssumption
<1>2. Cardinality(seen) <= Cardinality(Threads) /\ IsFiniteSet(seen)
  BY <1>1, FS_Subset
<1> DEFINE a == Cardinality(seen)
           b == Cardinality(Threads)
<1>3. a \in Nat /\ b \in Nat /\ pages \in Nat /\ a <= b /\ pages <= a
  BY <1>1, <1>2, FS_CardinalityType DEF TypeOK, ShowsNew
<1> HIDE DEF a, b
<1>4. pages <= b
  BY <1>3
<1> QED
  BY <1>4 DEF b, ScanIsBounded

(* What scans tell as long as nobody moves the list.                        *)

Exactly(t) == t = Wanted /\ SessionId[t] # Wanted
NoneExact(S) == \A t \in S : ~Exactly(t)
OfSession(S) == {t \in S : SessionId[t] = Wanted}
SideOf(i) == (op = "unarchive") # (i = 2)
IsRight(t) == (t \in archived) = (op = "archive")

\* The pages so far have shown the list up to the cursor.
ScanSoFar ==
  /\ cursor <= Len(Listed)
  /\ seen = {Listed[i] : i \in 1 .. cursor}
  /\ ToSet(found) = OfSession(seen)
  /\ NoneExact(seen)

\* A scan that is complete has told all of its side, or the row of that very id.
Told(i) ==
  /\ scans[i].exact => /\ scans[i].ids = <<Wanted>>
                       /\ Wanted \in Of(SideOf(i)) /\ Exactly(Wanted)
  /\ scans[i].kind = "complete" /\ ~scans[i].exact =>
       /\ ToSet(scans[i].ids) = OfSession(Of(SideOf(i)))
       /\ NoneExact(Of(SideOf(i)))

ScansTell ==
  op \in Syncs /\ ~moved =>
    /\ pc = "scan" => ScanSoFar
    /\ pc \in {"scan", "resolve"} => \A i \in 1 .. Len(scans) : Told(i)
    /\ pc = "scan" /\ Len(scans) = 1 => scans[1].ids = <<>>
    /\ pc = "resolve" /\ Len(scans) = 2 => scans[1].ids = <<>>
    /\ pc = "rollout" => Meant = {}
    /\ pc = "update" => \A t \in Meant : IsRight(t) \/ t \in ToSet(todo)
    /\ outcome = "true" => \A t \in Meant : IsRight(t)

IInv ==
  /\ TypeOK /\ StepsFit /\ Matches /\ AttachesActive /\ ShowsNew
  /\ ScansTell /\ MissingIsTrue

-----------------------------------------------------------------------------
LEMMA MeantIs ==
    ASSUME NEW t
    PROVE  t \in Meant <=> /\ t \in ToSet(list)
                           /\ Exactly(t) \/ (SessionId[t] = Wanted /\ NoneExact(ToSet(list)))
BY DEF Meant, Exactly, NoneExact

LEMMA SideIs ==
    ASSUME TypeOK, op \in Syncs
    PROVE  /\ Side = SideOf(Len(scans) + 1) \/ Len(scans) = 2
           /\ \A t \in ToSet(list) : IsRight(t) <=> t \in Of(SideOf(2))
           /\ \A t \in ToSet(list) : ~IsRight(t) <=> t \in Of(SideOf(1))
<1>1. Side = SideOf(Len(scans) + 1) \/ Len(scans) = 2
  <2> DEFINE n == Len(scans)
  <2>1. n \in {0, 1, 2} /\ Side = ((op = "unarchive") # (n = 1))
    BY ScansLen DEF Side
  <2> HIDE DEF n
  <2>2. n = 2 \/ Side = SideOf(n + 1)
    BY <2>1 DEF SideOf
  <2> QED
    BY <2>2 DEF n
<1>2. SideOf(2) = (op = "archive") /\ SideOf(1) = (op = "unarchive")
  BY DEF SideOf, Syncs
<1> QED
  BY <1>1, <1>2 DEF IsRight, Of, Syncs

LEMMA Same ==
    ASSUME UNCHANGED <<list, archived, op>>
    PROVE  /\ \A side : Of(side)' = Of(side)
           /\ \A i : SideOf(i)' = SideOf(i)
           /\ Meant' = Meant
           /\ \A t : IsRight(t)' = IsRight(t)
BY DEF Of, SideOf, Meant, IsRight

LEMMA SameTold ==
    ASSUME UNCHANGED <<list, archived, op>>, NEW i, scans'[i] = scans[i], Told(i)
    PROVE  Told(i)'
<1>1. Of(SideOf(i))' = Of(SideOf(i))
  BY DEF Of, SideOf
<1> QED
  BY <1>1 DEF Told

\* When the last page is read the scan has seen the whole list.
LEMMA WholeList ==
    ASSUME ThreadAssumption, TypeOK, ScanSoFar, LastPage
    PROVE  seen \cup ToSet(Page) = Of(Side)
<1> DEFINE n == Len(Listed)
           e == Min({cursor + PageSize, Len(Listed)})
<1>1. Listed \in Seq(Threads) /\ IsInjective(Listed) /\ ToSet(Listed) = Of(Side)
  BY Listing
<1>2. DOMAIN Listed = 1 .. n /\ n \in Nat /\ cursor \in Nat /\ PageSize \in Nat \ {0}
  BY <1>1 DEF TypeOK, ThreadAssumption
<1>3. /\ ToSet(Page) = Shown(e)
      /\ e = IF cursor + PageSize <= n THEN cursor + PageSize ELSE n
  BY Paging
<1>4. cursor <= n /\ seen = {Listed[i] : i \in 1 .. cursor}
  BY DEF ScanSoFar
<1>5. HasNext <=> cursor + PageSize < n
  BY DEF HasNext
<1> HIDE DEF n, e
<1>6. e = n
  <2>1. CASE ~HasNext
    BY <1>2, <1>3, <1>5, <2>1
  <2>2. CASE ToSet(Page) \subseteq seen
    <3>1. ~(cursor + 1 <= e)
      <4> SUFFICES ASSUME cursor + 1 <= e PROVE FALSE
        OBVIOUS
      <4>1. cursor + 1 \in cursor + 1 .. e /\ cursor + 1 \in 1 .. n
        BY <1>2, <1>3
      <4>2. Listed[cursor + 1] \in seen
        BY <1>3, <2>2, <4>1 DEF Shown
      <4>3. PICK j \in 1 .. cursor : Listed[j] = Listed[cursor + 1]
        BY <1>4, <4>2
      <4>4. j \in 1 .. n /\ j # cursor + 1
        BY <1>2, <1>4
      <4> QED
        BY <1>1, <1>2, <4>1, <4>3, <4>4 DEF IsInjective
    <3> QED
      BY <1>2, <1>3, <3>1
  <2> QED
    BY <2>1, <2>2 DEF LastPage
<1>7. \A i : i \in 1 .. n <=> i \in 1 .. cursor \/ i \in cursor + 1 .. n
  BY <1>2, <1>4
<1>8. ToSet(Listed) = {Listed[i] : i \in 1 .. n}
  BY <1>2 DEF ToSet
<1>9. {Listed[i] : i \in 1 .. n} =
        {Listed[i] : i \in 1 .. cursor} \cup {Listed[i] : i \in cursor + 1 .. n}
  BY <1>7
<1> QED
  BY <1>1, <1>3, <1>4, <1>6, <1>8, <1>9 DEF Shown

LEMMA TellsReadOn ==
    ASSUME ThreadAssumption, TypeOK, ScanSoFar, ~moved, Exact = {}, ~LastPage, ReadOn,
           UNCHANGED <<server, op>>
    PROVE  ScanSoFar'
<1> DEFINE n == Len(Listed)
           e == Min({cursor + PageSize, Len(Listed)})
<1>1. /\ cursor' = cursor + PageSize
      /\ seen' = seen \cup ToSet(Page) /\ found' = AllFound /\ UNCHANGED scans
  BY DEF ReadOn
<1>2. Listed' = Listed
  BY <1>1 DEF Listed, Side, server
<1>3. n \in Nat /\ cursor \in Nat /\ PageSize \in Nat \ {0}
  BY Listing DEF TypeOK, ThreadAssumption
<1>4. /\ ToSet(Page) = Shown(e)
      /\ e = IF cursor + PageSize <= n THEN cursor + PageSize ELSE n
      /\ ToSet(AllFound) = ToSet(found) \cup ToSet(Matched)
      /\ ToSet(Matched) = OfSession(ToSet(Page))
  BY Paging DEF OfSession
<1>5. cursor + PageSize < n
  BY DEF LastPage, HasNext
<1>6. /\ seen = {Listed[i] : i \in 1 .. cursor} /\ ToSet(found) = OfSession(seen) /\ NoneExact(seen)
  BY DEF ScanSoFar
<1> HIDE DEF n, e
<1>7. e = cursor + PageSize
  BY <1>3, <1>4, <1>5
<1>8. \A i : i \in 1 .. cursor + PageSize <=> i \in 1 .. cursor \/ i \in cursor + 1 .. e
  BY <1>3, <1>7
<1>9. seen' = {Listed'[i] : i \in 1 .. cursor'}
  <2>1. {Listed[i] : i \in 1 .. cursor + PageSize}
          = {Listed[i] : i \in 1 .. cursor} \cup {Listed[i] : i \in cursor + 1 .. e}
    BY <1>8
  <2> DEFINE L == Listed
             c == cursor'
  <2>2. Listed' = L /\ c = cursor + PageSize
    BY <1>1, <1>2
  <2>3. seen' = {L[i] : i \in 1 .. c}
    BY <1>1, <1>4, <1>6, <2>1, <2>2 DEF Shown
  <2> HIDE DEF L, c
  <2>4. seen' = {Listed'[i] : i \in 1 .. c}
    BY <2>2, <2>3
  <2> QED
    BY <2>4 DEF c
<1>10. ToSet(found') = OfSession(seen')
  BY <1>1, <1>4, <1>6 DEF OfSession
<1>11. NoneExact(seen')
  <2>1. NoneExact(ToSet(Page))
    BY DEF NoneExact, Exactly, Exact
  <2> QED
    BY <1>1, <1>6, <2>1 DEF NoneExact
<1>12. cursor' <= Len(Listed')
  <2>1. cursor + PageSize <= n
    BY <1>3, <1>5
  <2> QED
    BY <1>1, <1>2, <2>1 DEF n
<1> QED
  BY <1>9, <1>10, <1>11, <1>12 DEF ScanSoFar, OfSession, NoneExact, Exactly

LEMMA TellsEnds ==
    ASSUME ThreadAssumption, TypeOK, StepsFit, pc = "scan", ScanSoFar, op \in Syncs, ~moved, Ends,
           UNCHANGED <<server, op>>, NEW k, k = Len(scans) + 1
    PROVE  /\ Len(scans') = k
           /\ \A i \in 1 .. Len(scans) : scans'[i] = scans[i]
           /\ Told(k)'
           /\ pc' = "resolve"
<1>1. UNCHANGED <<list, archived, op>> /\ op # "command"
  BY DEF server, Syncs
<1>2. Side = SideOf(k)
  BY SideIs DEF StepsFit
<1>3. Of(SideOf(k))' = Of(Side)
  BY <1>1, <1>2 DEF Of, SideOf
<1>4. ToSet(Page) \subseteq Of(Side) /\ Exact \subseteq ToSet(Page)
      /\ AllFound \in Seq(Threads) /\ ToSet(AllFound) = ToSet(found) \cup ToSet(Matched)
      /\ ToSet(Matched) = OfSession(ToSet(Page))
  BY Paging DEF OfSession
<1>5. ASSUME NEW kind \in {"complete", "exhausted"}, NEW ids \in Seq(Threads), ScanEnds(kind, ids)
      PROVE  /\ Len(scans') = k /\ pc' = "resolve"
             /\ scans'[k].kind = kind /\ scans'[k].ids = ids /\ scans'[k].exact = (Exact # {})
             /\ \A i \in 1 .. Len(scans) : scans'[i] = scans[i]
  <2>1. /\ Len(scans') = Len(scans) + 1
        /\ scans'[Len(scans) + 1] = [kind |-> kind, ids |-> ids, exact |-> Exact # {}]
        /\ \A i \in 1 .. Len(scans) : scans'[i] = scans[i]
    BY <1>5, EndOfScan
  <2>2. scans'[k] = [kind |-> kind, ids |-> ids, exact |-> Exact # {}]
    BY <2>1
  <2>3. pc' = "resolve"
    BY <1>5 DEF ScanEnds
  <2> QED
    BY <2>1, <2>2, <2>3
<1>6. CASE Exact # {} /\ Wanted \in Exact /\ <<Wanted>> \in Seq(Threads)
             /\ ScanEnds("complete", <<Wanted>>)
  <2>1. Wanted \in Of(Side) /\ Exactly(Wanted)
    BY <1>4, <1>6 DEF Exact, Exactly
  <2>2. scans'[k].ids = <<Wanted>> /\ scans'[k].exact /\ Len(scans') = k /\ pc' = "resolve"
        /\ \A i \in 1 .. Len(scans) : scans'[i] = scans[i]
    BY <1>5, <1>6
  <2>3. Told(k)'
    BY <1>3, <2>1, <2>2 DEF Told, Exactly
  <2> QED
    BY <2>2, <2>3
<1>7. CASE Exact = {} /\ LastPage /\ ScanEnds("complete", AllFound)
  <2>1. /\ scans'[k].ids = AllFound /\ ~scans'[k].exact /\ Len(scans') = k /\ pc' = "resolve"
        /\ \A i \in 1 .. Len(scans) : scans'[i] = scans[i]
    BY <1>4, <1>5, <1>7
  <2>2. seen \cup ToSet(Page) = Of(Side) /\ ToSet(found) = OfSession(seen) /\ NoneExact(seen)
    BY <1>7, WholeList DEF ScanSoFar
  <2>3. ToSet(AllFound) = OfSession(Of(Side))
    BY <1>4, <2>2 DEF OfSession
  <2>4. NoneExact(Of(Side))
    BY <1>7, <2>2 DEF NoneExact, Exactly, Exact
  <2>5. Told(k)'
    BY <1>3, <2>1, <2>3, <2>4 DEF Told, OfSession, NoneExact, Exactly
  <2> QED
    BY <2>1, <2>5
<1>8. CASE Exact = {} /\ ScanEnds("exhausted", AllFound)
  <2>1. /\ scans'[k].kind = "exhausted" /\ ~scans'[k].exact /\ Len(scans') = k /\ pc' = "resolve"
        /\ \A i \in 1 .. Len(scans) : scans'[i] = scans[i]
    BY <1>4, <1>5, <1>8
  <2>2. Told(k)'
    BY <2>1 DEF Told
  <2> QED
    BY <2>1, <2>2
<1> QED
  BY <1>1, <1>6, <1>7, <1>8 DEF Ends

LEMMA TellsPage ==
    ASSUME ThreadAssumption, TypeOK, StepsFit, ScansTell, ReadPage PROVE ScansTell'
<1>1. pc = "scan" /\ outcome = "none" /\ UNCHANGED <<server, op, todo, chosen, outcome>>
  BY PageStep DEF StepsFit
<1>2. SUFFICES ASSUME op \in Syncs, ~moved PROVE ScansTell'
  BY <1>1 DEF ScansTell, server
<1>3. ScanSoFar /\ (\A i \in 1 .. Len(scans) : Told(i)) /\ (Len(scans) = 1 => scans[1].ids = <<>>)
  BY <1>1, <1>2 DEF ScansTell
<1>4. UNCHANGED <<list, archived, op>> /\ Len(scans) \in {0, 1}
  BY <1>1, ScansLen DEF server, StepsFit
<1>5. CASE Ends
  <2> DEFINE n == Len(scans)
  <2>1. PICK k : k = n + 1
    OBVIOUS
  <2>2. /\ Len(scans') = k /\ pc' = "resolve" /\ Told(k)'
        /\ \A i \in 1 .. n : scans'[i] = scans[i]
    BY <1>1, <1>2, <1>3, <1>5, <2>1, TellsEnds
  <2>3. n \in {0, 1} /\ \A i \in 1 .. n : Told(i)'
    BY <1>3, <1>4, <2>2, SameTold
  <2> HIDE DEF n
  <2>4. \A i \in 1 .. k : i \in 1 .. n \/ i = k
    BY <2>1, <2>3
  <2>5. \A i \in 1 .. k : Told(i)'
    BY <2>2, <2>3, <2>4
  <2>6. k = 2 => scans'[1].ids = <<>>
    <3>1. k = 2 => n = 1 /\ 1 \in 1 .. n
      BY <2>1, <2>3
    <3> QED
      BY <1>3, <2>2, <3>1 DEF n
  <2>7. (\A i \in 1 .. Len(scans) : Told(i))'
    BY <2>2, <2>5
  <2> QED
    BY <1>1, <2>2, <2>6, <2>7 DEF ScansTell
<1>6. CASE Exact = {} /\ ~LastPage /\ ReadOn
  <2>1. ScanSoFar'
    BY <1>1, <1>2, <1>3, <1>6, TellsReadOn
  <2>2. UNCHANGED <<pc, scans>>
    BY <1>6 DEF ReadOn
  <2>3. (\A i \in 1 .. Len(scans) : Told(i))'
    <3>1. \A i \in 1 .. Len(scans) : Told(i)'
      BY <1>3, <1>4, <2>2, SameTold
    <3> QED
      BY <2>2, <3>1
  <2> QED
    BY <1>1, <1>3, <2>1, <2>2, <2>3 DEF ScansTell
<1> QED
  BY <1>5, <1>6, PageStep

\* Where nothing changes but the step, what the scans tell is the same.
LEMMA TellsSource ==
    ASSUME ThreadAssumption, TypeOK, StepsFit, ScansTell, op \in Syncs, ~moved, ResolveSource
    PROVE  ScansTell'
<1>1. /\ pc = "resolve" /\ Len(scans) = 1 /\ UNCHANGED <<server, op, scan, scans>>
      /\ outcome = "none"
  BY DEF ResolveSource, Goto, End, StepsFit
<1>2. UNCHANGED <<list, archived, op>> /\ 1 \in 1 .. Len(scans)
  BY <1>1 DEF server
<1>3. Told(1) /\ scans[1] \in Scan
  <2>1. Told(1)
    BY <1>1, <1>2 DEF ScansTell
  <2>2. scans \in Seq(Scan)
    BY DEF TypeOK
  <2> QED
    BY <1>2, <2>1, <2>2, ElementOfSeq
<1>4. /\ scans[1].ids \in Seq(Threads) /\ scans[1].kind \in {"complete", "exhausted"}
      /\ scans[1].exact \in BOOLEAN
  BY <1>3 DEF Scan
<1>5. CASE pc' = "update"
  <2>1. scans[1].kind = "complete" /\ todo' = scans[1].ids /\ outcome' = "none"
    BY <1>1, <1>4, <1>5 DEF ResolveSource, Source, Exhausted, Goto, End
  <2>2. ASSUME NEW t \in Meant, ~IsRight(t) PROVE t \in ToSet(scans[1].ids)
    <3>1. t \in ToSet(list) /\ (Exactly(t) \/ (SessionId[t] = Wanted /\ NoneExact(ToSet(list))))
      BY <2>2, MeantIs
    <3>2. t \in Of(SideOf(1))
      BY <2>2, <3>1, SideIs
    <3>3. CASE scans[1].exact
      <4>1. scans[1].ids = <<Wanted>> /\ Exactly(Wanted) /\ Wanted \in ToSet(list)
        BY <1>3, <3>3 DEF Told, Of
      <4>2. t = Wanted
        BY <3>1, <4>1 DEF NoneExact, Exactly
      <4> QED
        BY <4>1, <4>2 DEF ToSet
    <3>4. CASE ~scans[1].exact
      <4>1. ToSet(scans[1].ids) = OfSession(Of(SideOf(1))) /\ NoneExact(Of(SideOf(1)))
        BY <1>3, <2>1, <3>4 DEF Told
      <4> QED
        BY <3>1, <3>2, <4>1 DEF OfSession, NoneExact
    <3> QED
      BY <3>3, <3>4
  <2>3. (\A t \in Meant : IsRight(t) \/ t \in ToSet(todo))'
    BY <1>2, <2>1, <2>2, Same
  <2> QED
    BY <1>5, <2>1, <2>3 DEF ScansTell
<1>6. CASE pc' = "scan"
  <2>1. scans[1].ids = <<>> /\ outcome' = "none"
    BY <1>1, <1>6 DEF ResolveSource, Source, Found, Goto, End
  <2>2. cursor' = 0 /\ seen' = {} /\ found' = <<>>
    BY <1>1 DEF StepsFit, scan
  <2>3. ScanSoFar'
    <3>1. Listed' = Listed
      BY <1>1, <1>2 DEF Listed, Side
    <3>2. Len(Listed) \in Nat
      BY Listing
    <3>3. cursor' <= Len(Listed')
      <4> DEFINE n == Len(Listed)
      <4>1. n \in Nat /\ Len(Listed') = n
        BY <3>1, <3>2
      <4> HIDE DEF n
      <4> QED
        BY <2>2, <4>1
    <3>4. {Listed'[i] : i \in 1 .. 0} = {} /\ ToSet(<<>>) = {} /\ OfSession({}) = {}
            /\ NoneExact({})
      BY DEF ToSet, OfSession, NoneExact
    <3>5. seen' = {Listed'[i] : i \in 1 .. cursor'} /\ ToSet(found') = OfSession(seen')
            /\ NoneExact(seen')
      BY <2>2, <3>4
    <3> QED
      BY <3>3, <3>5 DEF ScanSoFar, OfSession, NoneExact, Exactly
  <2>4. (\A i \in 1 .. Len(scans) : Told(i))'
    <3>1. \A i \in 1 .. Len(scans) : Told(i)'
      BY <1>1, <1>2, <1>3, SameTold DEF ScansTell
    <3> QED
      BY <1>1, <3>1
  <2> QED
    BY <1>1, <1>6, <2>1, <2>3, <2>4 DEF ScansTell
<1>7. CASE pc' = "done"
  <2>1. outcome' = "error"
    BY <1>1, <1>7 DEF ResolveSource, Goto, End
  <2> QED
    BY <1>7, <2>1 DEF ScansTell
<1> QED
  BY <1>5, <1>6, <1>7 DEF ResolveSource, Goto, End

LEMMA TellsTarget ==
    ASSUME ThreadAssumption, TypeOK, StepsFit, ScansTell, op \in Syncs, ~moved, ResolveTarget
    PROVE  ScansTell'
<1>1. /\ pc = "resolve" /\ Len(scans) = 2 /\ UNCHANGED <<server, op, scan, scans>>
      /\ outcome = "none"
  BY DEF ResolveTarget, Goto, End, StepsFit
<1>2. UNCHANGED <<list, archived, op>> /\ 1 \in 1 .. Len(scans) /\ 2 \in 1 .. Len(scans)
  BY <1>1 DEF server
<1>3. Told(1) /\ scans[1] \in Scan /\ Told(2) /\ scans[2] \in Scan /\ scans[1].ids = <<>>
  <2>1. Told(1) /\ Told(2) /\ scans[1].ids = <<>>
    BY <1>1, <1>2 DEF ScansTell
  <2>2. scans \in Seq(Scan)
    BY DEF TypeOK
  <2> QED
    BY <1>2, <2>1, <2>2, ElementOfSeq
<1>4. /\ scans[1].kind \in {"complete", "exhausted"} /\ scans[1].exact \in BOOLEAN
      /\ scans[2].kind \in {"complete", "exhausted"} /\ scans[2].exact \in BOOLEAN
  BY <1>3 DEF Scan
<1>5. ~scans[1].exact
  <2>1. <<Wanted>> # <<>>
    OBVIOUS
  <2> QED
    BY <1>3, <2>1 DEF Told
<1>6. ASSUME scans[1].kind = "complete", NEW t \in Meant PROVE IsRight(t)
  <2>1. OfSession(Of(SideOf(1))) = {} /\ NoneExact(Of(SideOf(1)))
    <3>1. ToSet(<<>>) = {}
      BY DEF ToSet
    <3> QED
      BY <1>3, <1>5, <1>6, <3>1 DEF Told
  <2>2. t \in ToSet(list) /\ (Exactly(t) \/ SessionId[t] = Wanted)
    BY <1>6, MeantIs
  <2>3. t \notin Of(SideOf(1))
    BY <2>1, <2>2 DEF OfSession, NoneExact
  <2> QED
    BY <2>2, <2>3, SideIs
<1>7. CASE outcome' = "true"
  <2>1. pc' = "done" /\ ((~Exhausted) \/ Target.exact)
    BY <1>1, <1>7 DEF ResolveTarget, Goto, End
  <2>2. \A t \in Meant : IsRight(t)
    <3>1. CASE ~Exhausted
      BY <1>4, <1>6, <3>1 DEF Exhausted, Source
    <3>2. CASE Target.exact
      <4>1. Exactly(Wanted) /\ Wanted \in Of(SideOf(2)) /\ Wanted \in ToSet(list)
        BY <1>3, <3>2 DEF Told, Target, Of
      <4>2. \A t \in Meant : t = Wanted
        BY <4>1, MeantIs DEF NoneExact, Exactly
      <4>3. IsRight(Wanted)
        BY <4>1, SideIs
      <4> QED
        BY <4>2, <4>3
    <3> QED
      BY <2>1, <3>1, <3>2
  <2>3. (\A t \in Meant : IsRight(t))'
    BY <1>2, <2>2, Same
  <2> QED
    BY <2>1, <2>3 DEF ScansTell
<1>8. CASE pc' = "rollout"
  <2>1. /\ scans[2].ids = <<>> /\ scans[1].kind = "complete" /\ scans[2].kind = "complete"
        /\ outcome' = "none"
    BY <1>1, <1>4, <1>8 DEF ResolveTarget, Goto, End, Found, Target, Exhausted, Source
  <2>2. ~scans[2].exact
    <3>1. <<Wanted>> # <<>>
      OBVIOUS
    <3> QED
      BY <1>3, <2>1, <3>1 DEF Told
  <2>3. OfSession(Of(SideOf(2))) = {} /\ NoneExact(Of(SideOf(2)))
    <3>1. ToSet(<<>>) = {}
      BY DEF ToSet
    <3> QED
      BY <1>3, <2>1, <2>2, <3>1 DEF Told
  <2>4. ASSUME NEW t \in Meant PROVE FALSE
    <3>1. t \in ToSet(list) /\ (Exactly(t) \/ SessionId[t] = Wanted)
      BY <2>4, MeantIs
    <3>2. IsRight(t)
      BY <1>6, <2>1, <2>4
    <3>3. t \in Of(SideOf(2))
      BY <3>1, <3>2, SideIs
    <3> QED
      BY <2>3, <3>1, <3>3 DEF OfSession, NoneExact
  <2>5. Meant' = {}
    BY <1>2, <2>4, Same
  <2> QED
    BY <1>8, <2>1, <2>5 DEF ScansTell
<1>9. pc' \in {"done", "rollout"} /\ (pc' = "done" => outcome' \in {"true", "error"})
  BY DEF ResolveTarget, Goto, End
<1>10. CASE pc' = "done" /\ outcome' = "error"
  BY <1>10 DEF ScansTell
<1> QED
  BY <1>7, <1>8, <1>9, <1>10

LEMMA TellsRollout ==
    ASSUME ThreadAssumption, TypeOK, StepsFit, ScansTell, op \in Syncs, ~moved, ResumeRollout
    PROVE  ScansTell'
<1>1. /\ pc = "rollout" /\ rollout \in Threads /\ Loaded(rollout) /\ Meant = {}
      /\ op' = op /\ archived' = archived
      /\ \/ pc' = "done" /\ outcome' = "error"
         \/ pc' = "update" /\ outcome' = "none" /\ todo' = <<rollout>>
  BY DEF ResumeRollout, FoundRollout, TypeOK, End, Goto, ScansTell, StepsFit, Syncs
<1>2. ToSet(list') = ToSet(list) \cup {rollout}
  BY <1>1, LoadedType
<1>3. CASE pc' = "done" /\ outcome' = "error"
  BY <1>3 DEF ScansTell
<1>4. CASE pc' = "update" /\ outcome' = "none" /\ todo' = <<rollout>>
  <2>1. ToSet(todo') = {rollout}
    BY <1>4 DEF ToSet
  <2>2. ASSUME NEW t, t \in Meant' PROVE t = rollout
    <3> DEFINE exact(S) == {x \in S : x = Wanted /\ SessionId[x] # Wanted}
               meant(S) == IF exact(S) # {} THEN exact(S) ELSE {x \in S : SessionId[x] = Wanted}
    <3>1. Meant = meant(ToSet(list)) /\ Meant' = meant(ToSet(list'))
      BY DEF Meant
    <3>2. exact(ToSet(list)) = {} /\ \A x \in ToSet(list) : SessionId[x] # Wanted
      BY <1>1, <3>1
    <3> QED
      BY <1>2, <2>2, <3>1, <3>2
  <2>3. (\A t \in Meant : IsRight(t) \/ t \in ToSet(todo))'
    BY <2>1, <2>2
  <2> QED
    BY <1>4, <2>3 DEF ScansTell
<1> QED
  BY <1>1, <1>3, <1>4

LEMMA TellsUpdate ==
    ASSUME ThreadAssumption, TypeOK, StepsFit, Matches, ScansTell, op \in Syncs, ~moved, Update
    PROVE  ScansTell'
<1>1. /\ pc = "update" /\ todo # <<>> /\ Changed(Head(todo)) /\ todo' = Tail(todo)
      /\ UNCHANGED <<list, op, pc, outcome>> /\ outcome = "none"
  BY DEF Update, StepsFit
<1>2. ToSet(todo) = {Head(todo)} \cup ToSet(Tail(todo))
  BY <1>1, ChangedType
<1>3. \A t \in Meant : IsRight(t) \/ t \in ToSet(todo)
  BY <1>1 DEF ScansTell
<1>4. Meant' = Meant
  BY <1>1 DEF Meant
<1>5. ASSUME NEW t \in Meant PROVE IsRight(t)' \/ t \in ToSet(todo')
  <2>1. CASE t = Head(todo)
    BY <1>1, <2>1 DEF IsRight, Changed, Syncs
  <2>2. CASE t # Head(todo)
    <3>1. IsRight(t)' = IsRight(t)
      BY <1>1, <2>2 DEF IsRight, Changed
    <3> QED
      BY <1>1, <1>2, <1>3, <1>5, <2>2, <3>1
  <2> QED
    BY <2>1, <2>2
<1>6. (\A t \in Meant : IsRight(t) \/ t \in ToSet(todo))'
  BY <1>4, <1>5
<1> QED
  BY <1>1, <1>6 DEF ScansTell

LEMMA TellsQuiet ==
    ASSUME ThreadAssumption, TypeOK, StepsFit, ScansTell, op \in Syncs, ~moved,
           NoRollout \/ UpdateDone \/ Fail
    PROVE  ScansTell'
<1>1. CASE NoRollout \/ Fail
  <2>1. pc' = "done" /\ outcome' \in {"false", "error"}
    BY <1>1 DEF NoRollout, Fail, End
  <2> QED
    BY <2>1 DEF ScansTell
<1>2. CASE UpdateDone
  <2>1. pc = "update" /\ todo = <<>> /\ UNCHANGED <<list, archived, op>> /\ pc' = "done"
    BY <1>2 DEF UpdateDone, End, Goto, server, Syncs
  <2>2. ToSet(<<>>) = {}
    BY DEF ToSet
  <2>3. \A t \in Meant : IsRight(t)
    BY <2>1, <2>2 DEF ScansTell
  <2>4. (\A t \in Meant : IsRight(t))'
    BY <2>1, <2>3, Same
  <2> QED
    BY <2>1, <2>4 DEF ScansTell
<1> QED
  BY <1>1, <1>2

LEMMA TellsStep ==
    ASSUME ThreadAssumption, TypeOK, StepsFit, Matches, ScansTell, [Next]_vars PROVE ScansTell'
<1>1. ASSUME NEW o \in Ops, Begin(o), o \in Syncs PROVE ScansTell'
  <2>1. /\ pc' = "scan" /\ cursor' = 0 /\ seen' = {} /\ found' = <<>> /\ scans' = <<>>
        /\ outcome' = "none" /\ UNCHANGED <<list, archived>> /\ op' = o
    BY <1>1 DEF Begin, FirstStep, Syncs
  <2>2. Len(scans') = 0 /\ 1 .. Len(scans') = {}
    BY <2>1
  <2>3. ScanSoFar'
    <3> DEFINE n == Len(Listed)
    <3>1. TypeOK'
      BY TypeStep, <1>1 DEF Next
    <3>2. Len(Listed)' \in Nat
      <4>1. Listed \in Seq(Threads) => Len(Listed) \in Nat
        OBVIOUS
      <4>2. Listed' \in Seq(Threads)
        <5> DEFINE S == {t \in Threads : (t \in archived') = Side'}
        <5>1. list \in Seq(Threads)
          BY DEF TypeOK
        <5>2. Listed' = Only(list, S)
          BY <2>1 DEF Listed
        <5> HIDE DEF S
        <5> QED
          BY <5>1, <5>2, OnlyThose
      <4> QED
        BY <4>2
    <3>3. n' \in Nat
      BY <3>2
    <3> HIDE DEF n
    <3>4. cursor' <= n'
      BY <2>1, <3>3
    <3>5. {Listed'[i] : i \in 1 .. 0} = {} /\ ToSet(<<>>) = {} /\ OfSession({}) = {}
            /\ NoneExact({})
      BY DEF ToSet, OfSession, NoneExact
    <3>6. seen' = {Listed'[i] : i \in 1 .. cursor'} /\ ToSet(found') = OfSession(seen')
            /\ NoneExact(seen')
      BY <2>1, <3>5
    <3> QED
      BY <3>4, <3>6 DEF ScanSoFar, OfSession, NoneExact, Exactly, n
  <2>4. (\A i \in 1 .. Len(scans) : Told(i))'
    BY <2>2
  <2> QED
    BY <2>1, <2>2, <2>3, <2>4 DEF ScansTell
<1>2. ASSUME NEW o \in Ops, Begin(o), o \notin Syncs PROVE ScansTell'
  BY <1>2 DEF Begin, ScansTell, Syncs
<1>3. ASSUME NEW t \in Threads, Touch(t) PROVE ScansTell'
  BY <1>3 DEF Touch, ScansTell
<1>4. CASE UNCHANGED vars
  <2>1. UNCHANGED <<list, archived, rollout, touches, moved, op, pc, cursor, pages, seen, found,
                    scans, todo, chosen, outcome>>
    BY <1>4 DEF vars, server, scan
  <2> SUFFICES ASSUME op \in Syncs, ~moved PROVE ScansTell'
    BY <2>1 DEF ScansTell
  <2>2. Meant' = Meant /\ \A t : IsRight(t)' = IsRight(t)
    BY <2>1, Same
  <2>3. ScanSoFar' = ScanSoFar
    <3>1. Listed' = Listed
      BY <2>1 DEF Listed, Side
    <3> QED
      BY <2>1, <3>1 DEF ScanSoFar, OfSession, NoneExact, Exactly
  <2>4. (\A i \in 1 .. Len(scans) : Told(i)) => (\A i \in 1 .. Len(scans) : Told(i))'
    <3>1. \A i \in 1 .. Len(scans) : Told(i) => Told(i)'
      BY <2>1, SameTold
    <3> QED
      BY <2>1, <3>1
  <2>5. (\A t \in Meant : IsRight(t)) => (\A t \in Meant : IsRight(t))'
    BY <2>2
  <2>6. (\A t \in Meant : IsRight(t) \/ t \in ToSet(todo))
          => (\A t \in Meant : IsRight(t) \/ t \in ToSet(todo))'
    BY <2>1, <2>2
  <2> QED
    BY <2>1, <2>2, <2>3, <2>4, <2>5, <2>6 DEF ScansTell
<1>5. ASSUME Operation \/ Fail, ~(op \in Syncs /\ ~moved) PROVE ScansTell'
  <2>1. op' = op /\ moved' = moved
    BY <1>5 DEF Operation, ReadPage, ResolveSource, ResolveTarget, ResolveFirst, NoRollout,
         ResumeRollout, Update, UpdateDone, Resume, Create, Fail, Goto, End, server
  <2> QED
    BY <1>5, <2>1 DEF ScansTell, Syncs
<1>6. ASSUME op \in Syncs PROVE ~ResolveFirst /\ ~Resume /\ ~Create
  BY <1>6 DEF ResolveFirst, Resume, Create, Syncs, StepsFit, Attaches
<1> QED
  BY <1>1, <1>2, <1>3, <1>4, <1>5, <1>6, TellsPage, TellsSource, TellsTarget, TellsRollout,
     TellsUpdate, TellsQuiet DEF Next, Operation

LEMMA MissingStep ==
    ASSUME ThreadAssumption, TypeOK, StepsFit, ScansTell, MissingIsTrue, [Next]_vars
    PROVE  MissingIsTrue'
<1>1. ASSUME outcome' = "false", ~moved', Operation \/ Fail
      PROVE  NoRollout /\ op \in Syncs /\ ~moved
  BY <1>1 DEF Operation, ReadPage, ResolveSource, ResolveTarget, ResolveFirst, NoRollout,
         ResumeRollout, Update, UpdateDone, Resume, Create, Fail, Goto, End, StepsFit, server, Syncs
<1>2. CASE NoRollout /\ op \in Syncs /\ ~moved
  <2>1. pc = "rollout" /\ UNCHANGED <<list, archived, op>>
    BY <1>2 DEF NoRollout, End, server
  <2>2. Meant = {} /\ Meant' = Meant
    BY <1>2, <2>1, Same DEF ScansTell
  <2> QED
    BY <2>2 DEF MissingIsTrue
<1>3. ASSUME NEW o \in Ops, Begin(o) PROVE MissingIsTrue'
  BY <1>3 DEF Begin, MissingIsTrue
<1>4. ASSUME NEW t \in Threads, Touch(t) PROVE MissingIsTrue'
  BY <1>4 DEF Touch, MissingIsTrue
<1>5. CASE UNCHANGED vars
  BY <1>5 DEF vars, server, MissingIsTrue, Meant
<1> QED
  BY <1>1, <1>2, <1>3, <1>4, <1>5 DEF Next, MissingIsTrue

-----------------------------------------------------------------------------
LEMMA InvStart == ASSUME ThreadAssumption, Init PROVE IInv
<1>1. TypeOK
  BY TypeStart
<1>2. /\ op \in Ops /\ pc = FirstStep(op) /\ moved = FALSE
      /\ cursor = 0 /\ pages = 0 /\ seen = {} /\ found = <<>> /\ scans = <<>>
      /\ todo = <<>> /\ chosen = None /\ outcome = "none"
  BY DEF Init
<1>3. pc = IF op = "create" THEN "start" ELSE "scan"
  BY <1>2 DEF FirstStep
<1>4. Len(scans) = 0 /\ 1 .. Len(scans) = {} /\ ToSet(<<>>) = {}
  BY <1>2 DEF ToSet
<1>5. StepsFit
  BY <1>2, <1>3, <1>4 DEF StepsFit
<1>6. Matches
  BY <1>2, <1>4 DEF Matches
<1>7. AttachesActive
  BY <1>2, <1>3, <1>4 DEF AttachesActive
<1>8. ShowsNew
  BY <1>2, FS_EmptySet DEF ShowsNew
<1>9. ScanSoFar
  <2>1. Len(Listed) \in Nat
    BY <1>1, Listing
  <2> DEFINE n == Len(Listed)
  <2>2. n \in Nat
    BY <2>1
  <2> HIDE DEF n
  <2>3. cursor <= n
    BY <1>2, <2>2
  <2>4. {Listed[i] : i \in 1 .. 0} = {} /\ OfSession({}) = {} /\ NoneExact({})
    BY DEF OfSession, NoneExact
  <2> QED
    BY <1>2, <1>4, <2>3, <2>4 DEF ScanSoFar, n
<1>10. ScansTell
  BY <1>2, <1>3, <1>4, <1>9 DEF ScansTell
<1>11. MissingIsTrue
  BY <1>2 DEF MissingIsTrue
<1> QED
  BY <1>1, <1>5, <1>6, <1>7, <1>8, <1>10, <1>11 DEF IInv

LEMMA InvStep == ASSUME ThreadAssumption, IInv, [Next]_vars PROVE IInv'
BY TypeStep, StepsStep, MatchesStep, ActiveStep, ShowsStep, TellsStep, MissingStep DEF IInv

LEMMA InvSays ==
    ASSUME ThreadAssumption, IInv
    PROVE  /\ TypeOK /\ SyncedIsWhole /\ MissingIsTrue
           /\ AttachedFits /\ CommandFits /\ ScanIsBounded
<1>1. SyncedIsWhole
  BY DEF IInv, ScansTell, SyncedIsWhole, IsRight, Syncs
<1>2. AttachedFits
  BY DEF IInv, AttachesActive, AttachedFits, Attaches
<1>3. CommandFits
  <2> SUFFICES ASSUME outcome = "true", op = "command" PROVE Wanted \in {chosen, SessionOf(chosen)}
    BY DEF CommandFits
  <2>1. chosen \in Threads
    BY DEF IInv, AttachesActive, Attaches
  <2>2. Fits(chosen)
    BY <2>1 DEF IInv, Matches, ThreadAssumption
  <2> QED
    BY <2>2 DEF Fits, SessionOf, ThreadAssumption
<1> QED
  BY <1>1, <1>2, <1>3, ShowsBound DEF IInv

LEMMA MeansStep == ASSUME ThreadAssumption, IInv, [Next]_vars PROVE MeansOnly
<1>1. ASSUME archived' # archived PROVE todo # <<>> /\ Changed(Head(todo))
  BY <1>1 DEF Next, Operation, ReadPage, ResolveSource, ResolveTarget, ResolveFirst, NoRollout,
         ResumeRollout, Update, UpdateDone, Resume, Create, Fail, Begin, Touch, server, vars
<1>2. ASSUME NEW t \in Threads, (t \in archived) # (t \in archived')
      PROVE  t = Head(todo) /\ todo # <<>>
  BY <1>1, <1>2 DEF Changed
<1>3. ASSUME NEW t \in Threads, t = Head(todo), todo # <<>> PROVE Fits(t)
  <2>1. todo \in Seq(Threads) /\ ToSet(todo) \subseteq Fitting
    BY DEF IInv, TypeOK, Matches
  <2>2. Head(todo) \in ToSet(todo)
    BY <1>3, <2>1, HeadAndTail
  <2> QED
    BY <1>3, <2>1, <2>2 DEF Fitting
<1>4. \A t : Fits(t) => Wanted \in {t, SessionOf(t)}
  BY DEF Fits, SessionOf, ThreadAssumption
<1> QED
  BY <1>2, <1>3, <1>4 DEF MeansOnly

LEMMA InvHolds == ASSUME ThreadAssumption PROVE Spec => []IInv
<1>1. Init => IInv
  BY InvStart
<1>2. IInv /\ [Next]_vars => IInv'
  BY InvStep
<1> QED
  BY <1>1, <1>2, PTL DEF Spec

\* The list, the scans and what an operation keeps of them have their types,
\* whatever other clients do (resolve_app_server_thread_ids_for_archive and its siblings).
THEOREM ThreadTypes == ASSUME ThreadAssumption PROVE Spec => []TypeOK
<1>1. IInv => TypeOK
  BY InvSays
<1> QED
  BY <1>1, InvHolds, PTL

\* An archive sync that reports success has left no thread of the session
\* behind, also when an earlier one failed between two threads and however many
\* pages there are, as long as the list was not reordered meanwhile; and it says
\* "not in the app-server" only when that is so (set_app_server_thread_archived_at_
\* with_auth and the scans it does).
THEOREM SyncsAreWhole ==
    ASSUME ThreadAssumption
    PROVE  Spec => [](SyncedIsWhole /\ MissingIsTrue)
<1>1. IInv => SyncedIsWhole /\ MissingIsTrue
  BY InvSays
<1> QED
  BY <1>1, InvHolds, PTL

\* What is attached is an active thread of the session asked for, a command runs
\* on a thread of its session, and the scan that finds it reads no more pages
\* than there are threads, even if others reorder the list all the time.
THEOREM ThreadsFit ==
    ASSUME ThreadAssumption
    PROVE  Spec => [](AttachedFits /\ CommandFits /\ ScanIsBounded)
<1>1. IInv => AttachedFits /\ CommandFits /\ ScanIsBounded
  BY InvSays
<1> QED
  BY <1>1, InvHolds, PTL

\* No operation archives or unarchives a thread of another session, also one
\* that fails after the app-server has done what was asked.
THEOREM OnlyMeantMove == ASSUME ThreadAssumption PROVE Spec => OnlyMeant
<1>1. IInv /\ [Next]_vars => MeansOnly
  BY MeansStep
<1>2. IInv /\ [Next]_vars => [MeansOnly]_vars
  BY <1>1
<1> QED
  BY <1>2, InvHolds, PTL DEF Spec, OnlyMeant

-----------------------------------------------------------------------------
(* The reports of a host's sessions, of any sessions and threads, sizes of  *)
(* pages and cuts, made for any operations and recorded by any handlers.    *)

CONSTANTS Sessions, AppThreads, ThreadSession, MaxSessions, MetaScan, RolloutScan, PageCap,
          WorkerCut, Handlers, Asks, MaxWrites, MaxReports
VARIABLES index, history, rollouts, active, writes, doing, local, wire, asked, handler,
          present, created, own

Reports == INSTANCE HostSessionReports
  WITH Threads <- AppThreads, Ops <- Asks, op <- doing

\* What the instance calls the same.
LEMMA RepWords ==
    /\ \A S : Reports!ToSet(S) = ToSet(S) /\ Reports!SetToSeqs(S) = SetToSeqs(S)
    /\ \A S : Reports!Min(S) = Min(S) /\ Reports!Max(S) = Max(S)
    /\ \A S : Reports!IsFiniteSet(S) <=> IsFiniteSet(S)
<1>1. \A S : Reports!ToSet(S) = ToSet(S)
  BY DEF Reports!ToSet, ToSet
<1>2. \A S : (Reports!IsFiniteSet(S) <=> IsFiniteSet(S)) /\ Reports!Cardinality(S) = Cardinality(S)
  BY Zenon DEF Reports!IsFiniteSet, IsFiniteSet, Reports!Cardinality, Cardinality
<1>3. \A S : Reports!SetToSeqs(S) = SetToSeqs(S)
  BY <1>2, Zenon DEF Reports!SetToSeqs, SetToSeqs
<1>4. \A S : Reports!Min(S) = Min(S) /\ Reports!Max(S) = Max(S)
  BY Zenon DEF Reports!Min, Min, Reports!Max, Max
<1> QED
  BY <1>1, <1>2, <1>3, <1>4

\* The elements of a finite set in a row.
LEMMA InARow ==
    ASSUME NEW S, IsFiniteSet(S), NEW q \in SetToSeqs(S)
    PROVE  /\ q \in Seq(S) /\ ToSet(q) = S /\ IsInjective(q)
           /\ Len(q) = Cardinality(S) /\ DOMAIN q = 1 .. Len(q)
<1> DEFINE n == Cardinality(S)
           D == 1 .. n
<1>1. n \in Nat
  BY FS_CardinalityType
<1>2. q \in [D -> S] /\ \A i, j \in D : i # j => q[i] # q[j]
  <2>1. q \in {f \in [D -> S] : \A i, j \in D : i # j => f[i] # f[j]}
    BY DEF SetToSeqs
  <2> HIDE DEF D
  <2> QED
    BY <2>1
<1> HIDE DEF n
<1>3. q \in Seq(S) /\ Len(q) = n /\ DOMAIN q = 1 .. n
  BY <1>1, <1>2
<1>4. IsInjective(q)
  BY <1>2, <1>3 DEF IsInjective
<1>5. IsFiniteSet(D) /\ Cardinality(D) = Cardinality(S)
  <2>1. IsFiniteSet(1 .. n) /\ Cardinality(1 .. n) = n
    BY <1>1, FS_Interval
  <2> QED
    BY <2>1 DEF n
<1> HIDE DEF D
<1>6. q \in Injection(D, S)
  BY <1>2 DEF Injection, IsInjective
<1>7. q \in Surjection(D, S)
  BY <1>5, <1>6, FS_Injection
<1>8. ToSet(q) = S
  <2>1. DOMAIN q = D /\ \A x \in S : \E i \in D : q[i] = x
    BY <1>2, <1>7 DEF Surjection
  <2>2. \A i \in D : q[i] \in S
    BY <1>2
  <2> QED
    BY <2>1, <2>2 DEF ToSet
<1> QED
  BY <1>3, <1>4, <1>8 DEF n

\* A set of times that is not empty and bounded has a latest.
LEMMA LatestOf ==
    ASSUME NEW n \in Nat, NEW S \in SUBSET (0 .. n), S # {}
    PROVE  Max(S) \in S
<1> DEFINE T == {n - x : x \in S}
<1>1. T \in SUBSET Nat /\ T # {}
  <2>1. \A x \in S : x \in Nat /\ x <= n /\ n - x \in Nat
    OBVIOUS
  <2>2. PICK x \in S : TRUE
    OBVIOUS
  <2>3. n - x \in T
    OBVIOUS
  <2> QED
    BY <2>1, <2>3
<1> HIDE DEF T
<1>2. PICK m \in T : \A y \in T : m <= y
  BY <1>1, LeastOf
<1>3. PICK x \in S : m = n - x
  BY <1>2 DEF T
<1>4. ASSUME NEW y \in S PROVE x >= y
  <2>1. n - y \in T /\ x \in Nat /\ y \in Nat
    BY <1>4 DEF T
  <2>2. n - x <= n - y
    BY <1>2, <1>3, <2>1
  <2> QED
    BY <2>1, <2>2
<1>5. \E z \in S : \A y \in S : z >= y
  BY <1>4
<1> QED
  BY <1>5 DEF Max

-----------------------------------------------------------------------------
(* The types of the reports, and what a report that tells all there is says. *)

\* No time is later than the last.
TimesAreMet ==
  /\ \A i \in DOMAIN index : index[i][2] <= writes
  /\ \A i \in DOMAIN history : history[i][2] <= writes
  /\ \A i \in DOMAIN rollouts : rollouts[i].head <= writes

\* The lines that are read are lines of the file.
LEMMA RecentOf ==
    ASSUME NEW T, NEW lines \in Seq(T), NEW n \in Nat \ {0}
    PROVE  /\ Reports!Recent(lines, n) \in Seq(T)
           /\ \A i \in DOMAIN Reports!Recent(lines, n) : \E j \in DOMAIN lines :
                Reports!Recent(lines, n)[i] = lines[j]
<1> DEFINE k == Len(lines)
           a == Max({1, Len(lines) - n + 1})
           r == SubSeq(lines, a, k)
<1>1. k \in Nat /\ DOMAIN lines = 1 .. k /\ \A i \in 1 .. k : lines[i] \in T
  OBVIOUS
<1>2. a \in Nat /\ a >= 1
  <2> DEFINE two == {1, k - n + 1}
             high == IF k - n + 1 >= 1 THEN k - n + 1 ELSE 1
  <2>1. high \in two /\ \A y \in two : high >= y
    BY <1>1
  <2>2. a = CHOOSE x \in two : \A y \in two : x >= y
    BY DEF Max
  <2>3. \A x \in two : (\A y \in two : x >= y) => x \in Nat /\ x >= 1
    BY <1>1
  <2> HIDE DEF two, high, a
  <2> QED
    BY <2>1, <2>2, <2>3
<1>3. r = Reports!Recent(lines, n)
  BY RepWords DEF Reports!Recent
<1> HIDE DEF k, a
<1>4. \A i \in a .. k : i \in 1 .. k /\ lines[i] \in T
  BY <1>1, <1>2
<1>5. /\ r \in Seq(T) /\ Len(r) = IF a <= k THEN k - a + 1 ELSE 0
      /\ \A i \in 1 .. k - a + 1 : r[i] = lines[a + i - 1]
  BY <1>1, <1>2, <1>4, SubSeqProperties
<1> HIDE DEF r
<1>6. ASSUME NEW i \in DOMAIN r PROVE \E j \in DOMAIN lines : r[i] = lines[j]
  <2>1. DOMAIN r = 1 .. Len(r)
    BY <1>5
  <2>2. i \in 1 .. k - a + 1 /\ a + i - 1 \in 1 .. k
    BY <1>1, <1>2, <1>5, <2>1
  <2> QED
    BY <1>1, <1>5, <2>2
<1> QED
  BY <1>3, <1>5, <1>6

LEMMA TimeIsMet ==
    ASSUME Reports!ReportAssumption, Reports!TypeOK, TimesAreMet, NEW s \in Sessions
    PROVE  Reports!LocalTimes(s) \subseteq 0 .. writes
<1>1. /\ index \in Seq(Sessions \X Nat) /\ history \in Seq(Sessions \X Nat \X BOOLEAN)
      /\ rollouts \in Seq([session : Sessions, day : Nat, head : Nat, mtime : Nat])
      /\ writes \in Nat /\ MetaScan \in Nat \ {0}
  BY RepWords DEF Reports!TypeOK, Reports!ReportAssumption
<1>2. \A i \in DOMAIN index : index[i] \in Sessions \X Nat
  BY <1>1
<1>3. \A i \in DOMAIN history : history[i] \in Sessions \X Nat \X BOOLEAN
  BY <1>1
<1>4. \A i \in DOMAIN rollouts :
        rollouts[i] \in [session : Sessions, day : Nat, head : Nat, mtime : Nat]
  <2> DEFINE R == [session : Sessions, day : Nat, head : Nat, mtime : Nat]
  <2>1. rollouts \in Seq(R)
    BY <1>1
  <2> HIDE DEF R
  <2>2. \A i \in DOMAIN rollouts : rollouts[i] \in R
    BY <2>1
  <2> QED
    BY <2>2 DEF R
<1>5. \A i \in DOMAIN index : index[i][2] \in 0 .. writes
  BY <1>1, <1>2 DEF TimesAreMet
<1>6. \A i \in DOMAIN history : history[i][2] \in 0 .. writes
  BY <1>1, <1>3 DEF TimesAreMet
<1>7. \A i \in DOMAIN rollouts : rollouts[i].head \in 0 .. writes
  BY <1>1, <1>4 DEF TimesAreMet
<1>8. Reports!IndexTimes(s) \subseteq 0 .. writes
  <2> DEFINE lines == Reports!Recent(index, MetaScan)
  <2>1. \A i \in DOMAIN lines : \E j \in DOMAIN index : lines[i] = index[j]
    BY <1>1, RecentOf
  <2> HIDE DEF lines
  <2>2. \A i \in DOMAIN lines : lines[i][2] \in 0 .. writes
    BY <1>5, <2>1
  <2>3. Reports!IndexTimes(s) \subseteq {lines[i][2] : i \in DOMAIN lines}
    BY DEF Reports!IndexTimes, lines
  <2> QED
    BY <2>2, <2>3
<1>9. Reports!HistoryTimes(s) \subseteq 0 .. writes
  <2> DEFINE lines == Reports!Recent(history, MetaScan)
  <2>1. \A i \in DOMAIN lines : \E j \in DOMAIN history : lines[i] = history[j]
    BY <1>1, RecentOf
  <2> HIDE DEF lines
  <2>2. \A i \in DOMAIN lines : lines[i][2] \in 0 .. writes
    BY <1>6, <2>1
  <2>3. Reports!HistoryTimes(s) \subseteq {lines[i][2] : i \in DOMAIN lines}
    BY DEF Reports!HistoryTimes, lines
  <2> QED
    BY <2>2, <2>3
<1>10. Reports!RolloutTimes(s) \subseteq 0 .. writes
  BY <1>7 DEF Reports!RolloutTimes, Reports!Scanned, Reports!InNewestDays
<1> QED
  BY <1>8, <1>9, <1>10 DEF Reports!LocalTimes

LEMMA LatestType ==
    ASSUME Reports!ReportAssumption, Reports!TypeOK, TimesAreMet, NEW s \in Sessions
    PROVE  Reports!Latest(s) \in Nat
<1> DEFINE S == {0} \cup Reports!LocalTimes(s)
<1>1. writes \in Nat
  BY RepWords DEF Reports!TypeOK, Reports!ReportAssumption
<1>2. S \in SUBSET (0 .. writes) /\ S # {}
  BY <1>1, TimeIsMet
<1> HIDE DEF S
<1>3. Max(S) \in S
  BY <1>1, <1>2, LatestOf
<1> DEFINE m == Max(S)
<1>4. m \in 0 .. writes
  BY <1>2, <1>3
<1> HIDE DEF m
<1>5. m \in Nat
  BY <1>1, <1>4
<1> QED
  BY <1>5, RepWords DEF Reports!Latest, S, m

Row == [session : Sessions, present : BOOLEAN]

\* Whose silence may be believed has told all there is.
Tells(r) ==
  Reports!CanUseAbsence(r) =>
    /\ \A s \in Sessions \ r.absent :
         \E j \in DOMAIN r.sessions : r.sessions[j] = [session |-> s, present |-> TRUE]
    /\ \A j \in DOMAIN r.sessions : r.sessions[j].present = (r.sessions[j].session \notin r.absent)

LEMMA FirstOf ==
    ASSUME NEW T, NEW q \in Seq(T), NEW m \in Nat, m <= Len(q)
    PROVE  /\ SubSeq(q, 1, m) \in Seq(T) /\ Len(SubSeq(q, 1, m)) = m
           /\ DOMAIN SubSeq(q, 1, m) = 1 .. m
           /\ \A i \in 1 .. m : SubSeq(q, 1, m)[i] = q[i] /\ i \in DOMAIN q
<1> DEFINE p == SubSeq(q, 1, m)
           n == Len(q)
<1>1. DOMAIN q = 1 .. n /\ n \in Nat /\ m <= n /\ \A i \in 1 .. n : q[i] \in T
  OBVIOUS
<1> HIDE DEF n
<1>2. \A i \in 1 .. m : i \in 1 .. n /\ q[i] \in T
  BY <1>1
<1>3. p \in Seq(T) /\ Len(p) = (IF 1 <= m THEN m - 1 + 1 ELSE 0) /\ \A i \in 1 .. m - 1 + 1 :
        p[i] = q[1 + i - 1]
  BY <1>2, SubSeqProperties
<1> HIDE DEF p
<1>4. Len(p) = m /\ DOMAIN p = 1 .. m
  BY <1>3
<1>5. \A i \in 1 .. m : p[i] = q[i]
  <2> SUFFICES ASSUME NEW i \in 1 .. m PROVE p[i] = q[i]
    OBVIOUS
  <2>1. i \in 1 .. m - 1 + 1 /\ 1 + i - 1 = i
    OBVIOUS
  <2> QED
    BY <1>3, <2>1
<1> QED
  BY <1>1, <1>2, <1>3, <1>4, <1>5 DEF p

LEMMA Least ==
    ASSUME NEW S \in SUBSET Nat, S # {}
    PROVE  Min(S) \in S /\ \A y \in S : Min(S) <= y
<1>1. \E x \in S : \A y \in S : x <= y
  BY LeastOf
<1> QED
  BY <1>1 DEF Min

LEMMA OpenIsFinite ==
    ASSUME Reports!ReportAssumption
    PROVE  IsFiniteSet(Reports!Open) /\ Reports!Open \subseteq AppThreads
<1>1. Reports!Open \subseteq AppThreads
  BY DEF Reports!Open
<1> QED
  BY <1>1, FS_Subset, RepWords DEF Reports!ReportAssumption

\* A page that is not truncated shows all there is.
LEMMA PageIsWhole ==
    ASSUME Reports!ReportAssumption, NEW q \in Reports!Listings
    PROVE  /\ ToSet(Reports!Page(q)) \subseteq Reports!Open
           /\ ~Reports!Truncated(q) => ToSet(Reports!Page(q)) = Reports!Open
<1> DEFINE m == Min({MaxSessions + 1, PageCap, Len(q)})
           p == Reports!Page(q)
<1>1. q \in Seq(Reports!Open) /\ ToSet(q) = Reports!Open /\ DOMAIN q = 1 .. Len(q) /\ Len(q) \in Nat
  <2>1. q \in SetToSeqs(Reports!Open)
    BY RepWords DEF Reports!Listings
  <2>2. q \in Seq(Reports!Open) /\ ToSet(q) = Reports!Open /\ DOMAIN q = 1 .. Len(q)
    BY <2>1, OpenIsFinite, InARow
  <2> QED
    BY <2>2
<1>2. m \in Nat /\ m <= Len(q)
  <2> DEFINE S == {MaxSessions + 1, PageCap, Len(q)}
  <2>1. S \in SUBSET Nat /\ S # {} /\ Len(q) \in S
    BY <1>1, RepWords DEF Reports!ReportAssumption
  <2> HIDE DEF S
  <2>2. Min(S) \in S /\ Min(S) <= Len(q)
    BY <2>1, Least
  <2>3. Min(S) \in Nat
    BY <2>1, <2>2
  <2> QED
    BY <2>2, <2>3 DEF S
<1>3. p = SubSeq(q, 1, m)
  BY RepWords DEF Reports!Page
<1> HIDE DEF m, p
<1>4. /\ p \in Seq(Reports!Open) /\ Len(p) = m /\ DOMAIN p = 1 .. m
      /\ \A i \in 1 .. m : p[i] = q[i] /\ i \in DOMAIN q
  BY <1>1, <1>2, <1>3, FirstOf
<1>5. ToSet(p) \subseteq Reports!Open
  BY <1>4, Elements
<1>6. ASSUME ~Reports!Truncated(q) PROVE Reports!Open \subseteq ToSet(p)
  <2>1. ~(Len(q) > Len(p))
    BY <1>6 DEF Reports!Truncated, Reports!HasNext, p
  <2>2. m = Len(q)
    <3> DEFINE n == Len(q)
    <3>1. n \in Nat /\ m <= n /\ ~(n > m)
      BY <1>1, <1>2, <1>4, <2>1
    <3> HIDE DEF n
    <3>2. m = n
      BY <1>2, <3>1
    <3> QED
      BY <3>2 DEF n
  <2>3. \A x \in ToSet(q) : \E i \in DOMAIN q : x = q[i]
    BY DEF ToSet
  <2>4. \A i \in DOMAIN q : i \in DOMAIN p /\ q[i] = p[i]
    BY <1>1, <1>4, <2>2
  <2>5. \A x \in ToSet(q) : x \in ToSet(p)
    BY <2>3, <2>4 DEF ToSet
  <2> QED
    BY <1>1, <2>5
<1> QED
  BY <1>5, <1>6 DEF p

LEMMA SessionsOfThreads ==
    ASSUME Reports!ReportAssumption, NEW S \in SUBSET AppThreads
    PROVE  Reports!AppSessions(S) \subseteq Sessions
BY RepWords DEF Reports!AppSessions, Reports!ReportAssumption

\* What a report says of every session, and which of them a full one names.
Says(r, app, ok, truncated) ==
  /\ r \in Reports!Report /\ r.ok = ok
  /\ r.absent = Sessions \ Reports!AppSessions(Reports!Open)
  /\ \A j \in DOMAIN r.sessions : r.sessions[j].present = (r.sessions[j].session \in app)
  /\ r.scope = "full" =>
       /\ ~truncated
       /\ \A s \in app : \E j \in DOMAIN r.sessions :
            r.sessions[j] = [session |-> s, present |-> TRUE]

LEMMA ReportSays ==
    ASSUME Reports!ReportAssumption, NEW app \in SUBSET Sessions, NEW page,
           NEW q \in Reports!Drafts(page, app),
           NEW ok \in {"true", "false", "null"}, NEW truncated \in BOOLEAN
    PROVE  Says(Reports!ReportOf(q, app, ok, truncated), app, ok, truncated)
<1> DEFINE D == {s \in Sessions : local[s] > 0} \cup app
           n == Len(q)
           m == Min({MaxSessions, Len(q)})
           cut == SubSeq(q, 1, Min({MaxSessions, Len(q)}))
           rows == [i \in DOMAIN cut |-> [session |-> cut[i], present |-> cut[i] \in app]]
           scope == IF truncated \/ Len(q) > MaxSessions THEN "incremental" ELSE "full"
           r == Reports!ReportOf(q, app, ok, truncated)
<1>1. D \subseteq Sessions /\ IsFiniteSet(D)
  <2>1. D \subseteq Sessions
    OBVIOUS
  <2> QED
    BY <2>1, FS_Subset, RepWords DEF Reports!ReportAssumption
<1>2. q \in Seq(Sessions) /\ ToSet(q) = D /\ DOMAIN q = 1 .. n /\ n \in Nat
  <2>1. q \in SetToSeqs(D)
    BY RepWords DEF Reports!Drafts
  <2> HIDE DEF D
  <2>2. q \in Seq(D) /\ ToSet(q) = D /\ DOMAIN q = 1 .. Len(q)
    BY <1>1, <2>1, InARow
  <2>3. q \in Seq(Sessions)
    BY <1>1, <2>2, SeqMonotonic
  <2> QED
    BY <2>2, <2>3
<1>3. m \in Nat /\ m <= n /\ m <= MaxSessions /\ m \in {MaxSessions, n} /\ MaxSessions \in Nat
  <2> DEFINE S == {MaxSessions, Len(q)}
  <2>1. S \in SUBSET Nat /\ S # {} /\ Len(q) \in S /\ MaxSessions \in S
    BY <1>2, RepWords DEF Reports!ReportAssumption
  <2> HIDE DEF S
  <2>2. Min(S) \in S /\ Min(S) <= Len(q) /\ Min(S) <= MaxSessions
    BY <2>1, Least
  <2>3. Min(S) \in Nat /\ MaxSessions \in Nat
    BY <2>1, <2>2
  <2> QED
    BY <2>2, <2>3 DEF S
<1>4. r = [scope |-> scope, ok |-> ok, sessions |-> rows,
        absent |-> Sessions \ Reports!AppSessions(Reports!Open)]
  BY RepWords DEF Reports!ReportOf
<1>5. cut = SubSeq(q, 1, m)
  OBVIOUS
<1> HIDE DEF D, m, cut
<1>6. /\ cut \in Seq(Sessions) /\ DOMAIN cut = 1 .. m
      /\ \A i \in 1 .. m : cut[i] = q[i] /\ i \in DOMAIN q
  BY <1>2, <1>3, <1>5, FirstOf DEF n
<1>7. /\ rows \in Seq(Row) /\ DOMAIN rows = 1 .. m
      /\ \A i \in 1 .. m : rows[i] = [session |-> q[i], present |-> q[i] \in app]
  <2>1. rows = [i \in 1 .. m |-> [session |-> cut[i], present |-> cut[i] \in app]]
    BY <1>6
  <2>2. \A i \in 1 .. m : cut[i] \in Sessions
    <3>0. cut \in Seq(Sessions)
      BY <1>6
    <3>1. \A i \in 1 .. Len(cut) : cut[i] \in Sessions
      BY <3>0, ElementOfSeq
    <3>2. DOMAIN cut = 1 .. Len(cut)
      BY <3>0
    <3> QED
      BY <1>6, <3>1, <3>2
  <2>3. \A i \in 1 .. m : [session |-> cut[i], present |-> cut[i] \in app] \in Row
    BY <2>2 DEF Row
  <2>4. rows \in [1 .. m -> Row]
    BY <2>1, <2>3
  <2>5. rows \in Seq(Row)
    BY <1>3, <2>4
  <2> QED
    BY <1>6, <2>1, <2>5
<1>8. scope \in {"full", "incremental"} /\ (scope = "full" => ~truncated /\ ~(n > MaxSessions))
  BY DEF n
<1>9. ASSUME scope = "full", NEW s \in app PROVE \E j \in 1 .. m : q[j] = s
  <2>1. m = n
    <3>1. ~(n > MaxSessions)
      BY <1>8, <1>9
    <3> HIDE DEF n
    <3> QED
      BY <1>2, <1>3, <3>1
  <2>2. s \in ToSet(q)
    BY <1>2 DEF D
  <2> QED
    BY <1>2, <2>1, <2>2 DEF ToSet
<1> HIDE DEF rows, scope, n, r
<1>10. r \in Reports!Report
  BY <1>4, <1>7, <1>8 DEF Reports!Report, Row
<1>11. /\ r.ok = ok /\ r.scope = scope /\ r.sessions = rows
       /\ r.absent = Sessions \ Reports!AppSessions(Reports!Open)
  BY <1>4
<1>12. \A j \in DOMAIN rows : rows[j].present = (rows[j].session \in app)
  BY <1>7
<1>13. ASSUME scope = "full"
       PROVE  \A s \in app : \E j \in DOMAIN rows : rows[j] = [session |-> s, present |-> TRUE]
  <2> SUFFICES ASSUME NEW s \in app
               PROVE  \E j \in DOMAIN rows : rows[j] = [session |-> s, present |-> TRUE]
    OBVIOUS
  <2>1. PICK j \in 1 .. m : q[j] = s
    BY <1>9, <1>13
  <2>2. j \in DOMAIN rows /\ rows[j] = [session |-> s, present |-> s \in app]
    BY <1>7, <2>1
  <2>3. (s \in app) = TRUE
    OBVIOUS
  <2> QED
    BY <2>2, <2>3
<1> QED
  BY <1>8, <1>10, <1>11, <1>12, <1>13 DEF r, Says

\* A sequence with one more.
LEMMA AddOne ==
    ASSUME NEW T, NEW s \in Seq(T), NEW m \in T
    PROVE  /\ Append(s, m) \in Seq(T)
           /\ \A i \in DOMAIN Append(s, m) :
                (i \in DOMAIN s /\ Append(s, m)[i] = s[i]) \/ Append(s, m)[i] = m
<1> DEFINE a == Append(s, m)
           n == Len(s)
<1>1. /\ a \in Seq(T) /\ Len(a) = n + 1 /\ n \in Nat
      /\ \A i \in 1 .. n : a[i] = s[i]
      /\ a[n + 1] = m
      /\ DOMAIN s = 1 .. n
  BY AppendProperties
<1> HIDE DEF a, n
<1>2. DOMAIN a = 1 .. n + 1
  BY <1>1
<1>3. \A i \in 1 .. n + 1 : i \in 1 .. n \/ i = n + 1
  BY <1>1
<1>4. \A i \in DOMAIN a : (i \in DOMAIN s /\ a[i] = s[i]) \/ a[i] = m
  BY <1>1, <1>2, <1>3
<1>5. a \in Seq(T)
  BY <1>1
<1> QED
  BY <1>4, <1>5 DEF a

FileRow == [session : Sessions, day : Nat, head : Nat, mtime : Nat]

\* What is written to a file now is written at the time it is now.
LEMMA WrittenNow ==
    ASSUME Reports!ReportAssumption, Reports!TypeOK, TimesAreMet, Reports!Host,
           /\ index' \in Seq(Sessions \X Nat) /\ history' \in Seq(Sessions \X Nat \X BOOLEAN)
           /\ rollouts' \in Seq(FileRow) /\ active' \in [AppThreads -> 0 .. MaxWrites],
           \A i \in DOMAIN index' :
             (i \in DOMAIN index /\ index'[i] = index[i]) \/ index'[i][2] = writes',
           \A i \in DOMAIN history' :
             (i \in DOMAIN history /\ history'[i] = history[i]) \/ history'[i][2] = writes',
           \A i \in DOMAIN rollouts' :
             (i \in DOMAIN rollouts /\ rollouts'[i].head = rollouts[i].head)
               \/ rollouts'[i].head = writes'
    PROVE  Reports!TypeOK' /\ TimesAreMet'
<1>1. /\ writes \in Nat /\ MaxWrites \in Nat /\ writes' = writes + 1 /\ writes' \in 0 .. MaxWrites
      /\ UNCHANGED <<doing, local, wire, asked, handler, present,
                     created>> /\ own' \subseteq Sessions
  <2>1. Reports!Written /\ Reports!Elsewhere
    BY DEF Reports!Host, Reports!WriteIndex, Reports!WriteHistory, Reports!NewRollout,
       Reports!UseRollout, Reports!Use, Reports!Close
  <2>2. writes \in 0 .. MaxWrites /\ MaxWrites \in Nat /\ own \subseteq Sessions
    BY RepWords DEF Reports!TypeOK, Reports!ReportAssumption
  <2>3. writes < MaxWrites /\ writes' = writes + 1 /\ own' \subseteq own
        /\ UNCHANGED <<doing, local, wire, asked, handler, present, created>>
    BY <2>1 DEF Reports!Written, Reports!Elsewhere, Reports!connector
  <2> QED
    BY <2>2, <2>3
<1>2. Reports!TypeOK'
  BY <1>1 DEF Reports!TypeOK, FileRow
<1>3. \A t \in Nat : (t <= writes => t <= writes') /\ (t = writes' => t <= writes')
  BY <1>1
<1>4. \A i \in DOMAIN index' : index'[i][2] <= writes'
  <2>1. \A i \in DOMAIN index : index[i][2] \in Nat /\ index[i][2] <= writes
    <3>1. \A i \in DOMAIN index : index[i] \in Sessions \X Nat
      BY DEF Reports!TypeOK
    <3> QED
      BY <3>1 DEF TimesAreMet
  <2> SUFFICES ASSUME NEW i \in DOMAIN index' PROVE index'[i][2] <= writes'
    OBVIOUS
  <2>2. CASE i \in DOMAIN index /\ index'[i][2] = index[i][2]
    BY <1>3, <2>1, <2>2
  <2>3. CASE index'[i][2] = writes'
    BY <1>1, <1>3, <2>3
  <2> QED
    BY <2>2, <2>3
<1>5. \A i \in DOMAIN history' : history'[i][2] <= writes'
  <2>1. \A i \in DOMAIN history : history[i][2] \in Nat /\ history[i][2] <= writes
    <3>1. \A i \in DOMAIN history : history[i] \in Sessions \X Nat \X BOOLEAN
      BY DEF Reports!TypeOK
    <3> QED
      BY <3>1 DEF TimesAreMet
  <2> SUFFICES ASSUME NEW i \in DOMAIN history' PROVE history'[i][2] <= writes'
    OBVIOUS
  <2>2. CASE i \in DOMAIN history /\ history'[i][2] = history[i][2]
    BY <1>3, <2>1, <2>2
  <2>3. CASE history'[i][2] = writes'
    BY <1>1, <1>3, <2>3
  <2> QED
    BY <2>2, <2>3
<1>6. \A i \in DOMAIN rollouts' : rollouts'[i].head <= writes'
  <2>1. \A i \in DOMAIN rollouts : rollouts[i].head \in Nat /\ rollouts[i].head <= writes
    <3>1. rollouts \in Seq(FileRow)
      BY DEF Reports!TypeOK, FileRow
    <3>2. \A i \in DOMAIN rollouts : rollouts[i] \in FileRow
      BY <3>1
    <3> QED
      BY <3>2 DEF TimesAreMet, FileRow
  <2> SUFFICES ASSUME NEW i \in DOMAIN rollouts' PROVE rollouts'[i].head <= writes'
    OBVIOUS
  <2>2. CASE i \in DOMAIN rollouts /\ rollouts'[i].head = rollouts[i].head
    BY <1>3, <2>1, <2>2
  <2>3. CASE rollouts'[i].head = writes'
    BY <1>1, <1>3, <2>3
  <2> QED
    BY <2>2, <2>3
<1> QED
  BY <1>2, <1>4, <1>5, <1>6 DEF TimesAreMet

\* Somebody writes a file or uses a thread.
LEMMA TypeHost ==
    ASSUME Reports!ReportAssumption, Reports!TypeOK, TimesAreMet, Reports!Host
    PROVE  Reports!TypeOK' /\ TimesAreMet'
<1>1. /\ index \in Seq(Sessions \X Nat) /\ history \in Seq(Sessions \X Nat \X BOOLEAN)
      /\ rollouts \in Seq(FileRow) /\ active \in [AppThreads -> 0 .. MaxWrites]
  BY DEF Reports!TypeOK, FileRow
<1>2. writes' \in Nat /\ writes' \in 0 .. MaxWrites
  <2>1. Reports!Written
    BY DEF Reports!Host, Reports!WriteIndex, Reports!WriteHistory, Reports!NewRollout,
       Reports!UseRollout, Reports!Use, Reports!Close
  <2> QED
    BY <2>1, RepWords DEF Reports!Written, Reports!TypeOK, Reports!ReportAssumption
<1>3. ASSUME NEW s \in Sessions, Reports!WriteIndex(s) PROVE Reports!TypeOK' /\ TimesAreMet'
  <2>1. index' = Append(index, <<s, writes'>>) /\ UNCHANGED <<history, rollouts, active>>
    BY <1>3 DEF Reports!WriteIndex
  <2>2. /\ index' \in Seq(Sessions \X Nat)
        /\ \A i \in DOMAIN index' :
             (i \in DOMAIN index /\ index'[i] = index[i]) \/ index'[i] = <<s, writes'>>
    <3> DEFINE m == <<s, writes'>>
               T == Sessions \X Nat
    <3>1. index \in Seq(T) /\ m \in T
      BY <1>1, <1>2
    <3> HIDE DEF m, T
    <3>2. /\ Append(index, m) \in Seq(T)
          /\ \A i \in DOMAIN Append(index, m) :
               (i \in DOMAIN index /\ Append(index, m)[i] = index[i]) \/ Append(index, m)[i] = m
      BY <3>1, AddOne
    <3>3. index' = Append(index, m)
      BY <2>1 DEF m
    <3>4. /\ index' \in Seq(T)
          /\ \A i \in DOMAIN index' : (i \in DOMAIN index /\ index'[i] = index[i]) \/ index'[i] = m
      BY <3>2, <3>3
    <3> QED
      BY <3>4 DEF m, T
  <2>3. \A i \in DOMAIN index' :
          (i \in DOMAIN index /\ index'[i] = index[i]) \/ index'[i][2] = writes'
    BY <2>2
  <2> QED
    BY <1>1, <2>1, <2>2, <2>3, WrittenNow
<1>4. ASSUME NEW s \in Sessions, NEW b \in BOOLEAN, Reports!WriteHistory(s, b)
      PROVE  Reports!TypeOK' /\ TimesAreMet'
  <2>1. history' = Append(history, <<s, writes', b>>) /\ UNCHANGED <<index, rollouts, active>>
    BY <1>4 DEF Reports!WriteHistory
  <2>2. /\ history' \in Seq(Sessions \X Nat \X BOOLEAN)
        /\ \A i \in DOMAIN history' :
             (i \in DOMAIN history /\ history'[i] = history[i]) \/ history'[i] = <<s, writes', b>>
    <3> DEFINE m == <<s, writes', b>>
               T == Sessions \X Nat \X BOOLEAN
    <3>1. history \in Seq(T) /\ m \in T
      BY <1>1, <1>2
    <3> HIDE DEF m, T
    <3>2. /\ Append(history, m) \in Seq(T)
          /\ \A i \in DOMAIN Append(history, m) :
               (i \in DOMAIN history /\ Append(history, m)[i] = history[i])
                 \/ Append(history, m)[i] = m
      BY <3>1, AddOne
    <3>3. history' = Append(history, m)
      BY <2>1 DEF m
    <3>4. /\ history' \in Seq(T)
          /\ \A i \in DOMAIN history' :
               (i \in DOMAIN history /\ history'[i] = history[i]) \/ history'[i] = m
      BY <3>2, <3>3
    <3> QED
      BY <3>4 DEF m, T
  <2>3. \A i \in DOMAIN history' :
          (i \in DOMAIN history /\ history'[i] = history[i]) \/ history'[i][2] = writes'
    BY <2>2
  <2> QED
    BY <1>1, <2>1, <2>2, <2>3, WrittenNow
<1>5. ASSUME NEW s \in Sessions, NEW b \in BOOLEAN, Reports!NewRollout(s, b)
      PROVE  Reports!TypeOK' /\ TimesAreMet'
  <2> DEFINE last == IF rollouts = <<>> THEN 0 ELSE rollouts[Len(rollouts)].day
             m == [session |-> s, day |-> IF b THEN last ELSE last + 1, head |-> writes',
               mtime |-> writes']
  <2>1. rollouts' = Append(rollouts, m) /\ UNCHANGED <<index, history, active>>
    BY <1>5 DEF Reports!NewRollout
  <2>2. m \in FileRow
    <3>1. rollouts # <<>> => rollouts[Len(rollouts)] \in FileRow
      BY <1>1
    <3>2. last \in Nat
      BY <3>1 DEF FileRow
    <3> HIDE DEF last
    <3> QED
      BY <1>2, <3>2 DEF FileRow
  <2>3. m.head = writes'
    OBVIOUS
  <2> HIDE DEF m
  <2>4. /\ rollouts' \in Seq(FileRow)
        /\ \A i \in DOMAIN rollouts' :
             (i \in DOMAIN rollouts /\ rollouts'[i] = rollouts[i]) \/ rollouts'[i] = m
    BY <1>1, <2>1, <2>2, AddOne
  <2>5. \A i \in DOMAIN rollouts' :
          (i \in DOMAIN rollouts /\ rollouts'[i].head = rollouts[i].head)
            \/ rollouts'[i].head = writes'
    BY <2>3, <2>4
  <2> QED
    BY <1>1, <2>1, <2>4, <2>5, WrittenNow
<1>6. ASSUME NEW f \in DOMAIN rollouts, Reports!UseRollout(f) PROVE Reports!TypeOK' /\ TimesAreMet'
  <2>1. rollouts' = [rollouts EXCEPT ![f].mtime = writes'] /\ UNCHANGED <<index, history, active>>
    BY <1>6 DEF Reports!UseRollout
  <2> DEFINE m == [rollouts[f] EXCEPT !.mtime = writes']
  <2>2. m \in FileRow /\ m.head = rollouts[f].head
    <3>1. rollouts[f] \in FileRow
      BY <1>1
    <3> QED
      BY <1>2, <3>1 DEF FileRow
  <2>3. rollouts' = [rollouts EXCEPT ![f] = m]
    BY <2>1
  <2> HIDE DEF m
  <2>4. /\ rollouts' \in Seq(FileRow) /\ DOMAIN rollouts' = DOMAIN rollouts
        /\ \A i \in DOMAIN rollouts : rollouts'[i] = IF i = f THEN m ELSE rollouts[i]
    BY <1>1, <2>2, <2>3
  <2>5. \A i \in DOMAIN rollouts' : i \in DOMAIN rollouts /\ rollouts'[i].head = rollouts[i].head
    BY <2>2, <2>4
  <2> QED
    BY <1>1, <2>1, <2>4, <2>5, WrittenNow
<1>7. ASSUME NEW t \in AppThreads, Reports!Use(t) \/ Reports!Close(t)
      PROVE  Reports!TypeOK' /\ TimesAreMet'
  <2>1. /\ \/ active' = [active EXCEPT ![t] = writes'] \/ active' = [active EXCEPT ![t] = 0]
        /\ UNCHANGED <<index, history, rollouts>>
    BY <1>7 DEF Reports!Use, Reports!Close, Reports!files
  <2>2. 0 \in 0 .. MaxWrites
    BY RepWords DEF Reports!ReportAssumption
  <2>3. active' \in [AppThreads -> 0 .. MaxWrites]
    BY <1>1, <1>2, <2>1, <2>2
  <2> QED
    BY <1>1, <2>1, <2>3, WrittenNow
<1> QED
  BY <1>3, <1>4, <1>5, <1>6, <1>7 DEF Reports!Host

\* What a report that is on its way or at work says is so.
ReportsTell ==
  /\ \A i \in DOMAIN wire : Tells(wire[i])
  /\ \A h \in Handlers : Tells(handler[h].report)

Frame == [step : {"idle", "read", "write", "clear"}, report : Reports!Report,
          todo : Seq(Row), previous : {"none", "no", "yes"}]

LEMMA QuietIsFrame ==
    Reports!Quiet \in Frame /\ Tells(Reports!Quiet.report) /\ Reports!NoReport \in Reports!Report
<1>1. Reports!NoReport \in Reports!Report
  BY DEF Reports!NoReport, Reports!Report
<1>2. Reports!Quiet \in Frame
  BY <1>1 DEF Reports!Quiet, Frame
<1>3. Reports!Quiet.report = Reports!NoReport /\ Reports!NoReport.scope = "incremental"
  BY DEF Reports!Quiet, Reports!NoReport
<1> QED
  BY <1>1, <1>2, <1>3 DEF Tells, Reports!CanUseAbsence

RepInv == Reports!TypeOK /\ TimesAreMet /\ ReportsTell

LEMMA RepStart == ASSUME Reports!ReportAssumption, Reports!Init PROVE RepInv
<1>1. Reports!TypeOK
  <2>1. 0 \in 0 .. MaxWrites /\ 0 \in 0 .. MaxReports
    BY RepWords DEF Reports!ReportAssumption
  <2>2. handler \in [Handlers -> Frame]
    BY QuietIsFrame DEF Reports!Init
  <2>3. wire \in Seq(Reports!Report)
    BY DEF Reports!Init
  <2>4. index \in Seq(Sessions \X Nat) /\ history \in Seq(Sessions \X Nat \X BOOLEAN)
        /\ rollouts \in Seq([session : Sessions, day : Nat, head : Nat, mtime : Nat])
    BY DEF Reports!Init
  <2>5. /\ active \in [AppThreads -> 0..MaxWrites] /\ writes \in 0..MaxWrites
        /\ doing \in {"idle", "read", "list"} \X {"full", "incremental"}
        /\ local \in [Sessions -> Nat] /\ asked \in 0..MaxReports
        /\ present \in [Sessions -> {"none", "no", "yes"}]
        /\ created \subseteq Sessions /\ own \subseteq Sessions
    BY <2>1 DEF Reports!Init
  <2> QED
    BY <2>2, <2>3, <2>4, <2>5 DEF Reports!TypeOK, Frame, Row
<1>2. TimesAreMet
  BY DEF Reports!Init, TimesAreMet
<1>3. ReportsTell
  <2>1. \A i \in DOMAIN wire : Tells(wire[i])
    BY DEF Reports!Init
  <2>2. \A h \in Handlers : handler[h] = Reports!Quiet
    BY DEF Reports!Init
  <2> QED
    BY <2>1, <2>2, QuietIsFrame DEF ReportsTell
<1> QED
  BY <1>1, <1>2, <1>3 DEF RepInv

\* The connector begins to read, and reads the files.
LEMMA RepAsks ==
    ASSUME Reports!ReportAssumption, RepInv,
           Reports!Refresh \/ Reports!ReadFiles \/ \E t \in AppThreads :
             Reports!Archive(t) \/ Reports!Create(t)
    PROVE  RepInv'
<1>1. UNCHANGED <<Reports!files, wire, handler, present>>
  BY DEF Reports!Refresh, Reports!ReadFiles, Reports!Archive, Reports!Create, Reports!Ask
<1>2. ReportsTell'
  BY <1>1 DEF RepInv, ReportsTell
<1>3. /\ writes \in Nat /\ MaxWrites \in Nat /\ writes \in 0 .. MaxWrites
      /\ asked \in Nat /\ asked \in 0 .. MaxReports
  BY RepWords DEF RepInv, Reports!TypeOK, Reports!ReportAssumption
<1>4. writes' \in 0 .. MaxWrites /\ (writes' = writes \/ writes' = writes + 1)
  BY <1>3 DEF Reports!Refresh, Reports!ReadFiles, Reports!Archive, Reports!Create,
     Reports!Ask, Reports!Written
<1>5. TimesAreMet'
  <2>1. \A t \in Nat : t <= writes => t <= writes'
    BY <1>3, <1>4
  <2>2. \A i \in DOMAIN index : index[i] \in Sessions \X Nat
    BY DEF RepInv, Reports!TypeOK
  <2>3. \A i \in DOMAIN history : history[i] \in Sessions \X Nat \X BOOLEAN
    BY DEF RepInv, Reports!TypeOK
  <2>4. \A i \in DOMAIN rollouts : rollouts[i] \in FileRow
    <3>1. rollouts \in Seq(FileRow)
      BY DEF RepInv, Reports!TypeOK, FileRow
    <3> QED
      BY <3>1
  <2>5. \A i \in DOMAIN rollouts : rollouts[i].head \in Nat
    BY <2>4 DEF FileRow
  <2> QED
    BY <1>1, <2>1, <2>2, <2>3, <2>5 DEF RepInv, TimesAreMet, Reports!files
<1>6. active' \in [AppThreads -> 0 .. MaxWrites]
  <2>1. active \in [AppThreads -> 0 .. MaxWrites] /\ 0 \in 0 .. MaxWrites
    BY <1>3 DEF RepInv, Reports!TypeOK
  <2>2. UNCHANGED active \/ \E t \in AppThreads, n \in {0, writes'} :
          active' = [active EXCEPT ![t] = n]
    BY DEF Reports!Refresh, Reports!ReadFiles, Reports!Archive, Reports!Create
  <2> QED
    BY <1>4, <2>1, <2>2
<1>7. /\ doing' \in {"idle", "read", "list"} \X {"full", "incremental"}
      /\ asked' \in 0 .. MaxReports
  <2>1. doing = <<doing[1], doing[2]>> /\ doing[2] \in {"full", "incremental"} /\ MaxReports \in Nat
    BY RepWords DEF RepInv, Reports!TypeOK, Reports!ReportAssumption
  <2>2. CASE Reports!ReadFiles
    BY <1>3, <2>1, <2>2 DEF Reports!ReadFiles
  <2>3. CASE ~Reports!ReadFiles
    <3>1. /\ asked < MaxReports /\ asked' = asked + 1
          /\ doing' \in {<<"read", "full">>, <<"read", "incremental">>}
      BY <2>3 DEF Reports!Refresh, Reports!Archive, Reports!Create, Reports!Ask
    <3> QED
      BY <1>3, <2>1, <3>1
  <2> QED
    BY <2>2, <2>3
<1>8. local' \in [Sessions -> Nat]
  <2>1. CASE Reports!ReadFiles
    BY <2>1, LatestType DEF Reports!ReadFiles, RepInv
  <2>2. CASE ~Reports!ReadFiles
    BY <2>2 DEF Reports!Refresh, Reports!Archive, Reports!Create, Reports!Ask, RepInv,
       Reports!TypeOK
  <2> QED
    BY <2>1, <2>2
<1>9. created' \subseteq Sessions /\ own' \subseteq Sessions
  <2>1. own \subseteq Sessions /\ created \subseteq Sessions
    BY DEF RepInv, Reports!TypeOK
  <2>2. own' \subseteq own
    BY DEF Reports!Refresh, Reports!ReadFiles, Reports!Archive, Reports!Create
  <2>3. UNCHANGED created \/ \E t \in AppThreads : created' = created \cup {ThreadSession[t]}
    BY DEF Reports!Refresh, Reports!ReadFiles, Reports!Archive, Reports!Create
  <2>4. \A t \in AppThreads : ThreadSession[t] \in Sessions
    BY RepWords DEF Reports!ReportAssumption
  <2> QED
    BY <2>1, <2>2, <2>3, <2>4
<1>10. Reports!TypeOK'
  <2> USE <1>1, <1>4, <1>6, <1>7, <1>8, <1>9 DEF Reports!files
  <2> QED
    BY DEF RepInv, Reports!TypeOK
<1> QED
  BY <1>2, <1>5, <1>10 DEF RepInv

\* A report that tells is sent.
LEMMA RepSends ==
    ASSUME Reports!ReportAssumption, RepInv, NEW r \in Reports!Report, Tells(r), Reports!Send(r)
    PROVE  RepInv'
<1> DEFINE s == IF doing[2] = "full" THEN r ELSE [r EXCEPT !.scope = "incremental"]
<1>1. /\ wire' = Append(wire, s) /\ doing' = <<"idle", "full">> /\ UNCHANGED <<local, asked>>
      /\ UNCHANGED <<Reports!files, active, writes, handler, present, created, own>>
  BY DEF Reports!Send
<1>2. s \in Reports!Report /\ Tells(s)
  <2>1. [r EXCEPT !.scope = "incremental"] \in Reports!Report
        /\ [r EXCEPT !.scope = "incremental"].scope = "incremental"
    BY DEF Reports!Report
  <2>2. Tells([r EXCEPT !.scope = "incremental"])
    BY <2>1 DEF Tells, Reports!CanUseAbsence
  <2> QED
    BY <2>1, <2>2
<1> HIDE DEF s
<1>3. /\ wire' \in Seq(Reports!Report)
      /\ \A i \in DOMAIN wire' : (i \in DOMAIN wire /\ wire'[i] = wire[i]) \/ wire'[i] = s
  <2>1. wire \in Seq(Reports!Report)
    BY DEF RepInv, Reports!TypeOK
  <2> QED
    BY <1>1, <1>2, <2>1, AddOne
<1>4. Reports!TypeOK'
  BY <1>1, <1>3 DEF RepInv, Reports!TypeOK, Reports!files
<1>5. TimesAreMet'
  BY <1>1 DEF RepInv, TimesAreMet, Reports!files
<1>6. ReportsTell'
  BY <1>1, <1>2, <1>3 DEF RepInv, ReportsTell
<1> QED
  BY <1>4, <1>5, <1>6 DEF RepInv

\* Every report that is made tells.
LEMMA RepReports ==
    ASSUME Reports!ReportAssumption, RepInv, Reports!ReadFails \/ Reports!ListThreads
           \/ Reports!ListFails \/ Reports!NoAppServer
    PROVE  RepInv'
<1>1. CASE Reports!ReadFails
  <2>1. PICK ok \in {"false", "null"} : Reports!Send([Reports!NoReport EXCEPT !.ok = ok])
    BY <1>1 DEF Reports!ReadFails
  <2> DEFINE r == [Reports!NoReport EXCEPT !.ok = ok]
  <2>2. r \in Reports!Report /\ r.scope = "incremental"
    <3>1. Reports!NoReport \in Reports!Report /\ Reports!NoReport.scope = "incremental"
      BY QuietIsFrame DEF Reports!NoReport
    <3> QED
      BY <3>1 DEF Reports!Report
  <2>3. Tells(r)
    BY <2>2 DEF Tells, Reports!CanUseAbsence
  <2> HIDE DEF r
  <2>4. Reports!Send(r)
    BY <2>1 DEF r
  <2> QED
    BY <2>2, <2>3, <2>4, RepSends
<1>2. CASE Reports!ListFails \/ Reports!NoAppServer
  <2>1. PICK ok \in {"false", "null"} : Reports!Unlisted(ok)
    BY <1>2 DEF Reports!ListFails, Reports!NoAppServer
  <2>2. PICK q \in Reports!Drafts(<<>>, {}) : Reports!Send(Reports!ReportOf(q, {}, ok, FALSE))
    BY <2>1 DEF Reports!Unlisted
  <2> DEFINE r == Reports!ReportOf(q, {}, ok, FALSE)
  <2>3. r \in Reports!Report /\ r.ok = ok
    <3>1. {} \in SUBSET Sessions /\ ok \in {"true", "false", "null"} /\ FALSE \in BOOLEAN
      OBVIOUS
    <3>2. Says(Reports!ReportOf(q, {}, ok, FALSE), {}, ok, FALSE)
      BY <2>2, <3>1, ReportSays
    <3> QED
      BY <3>2 DEF Says
  <2>4. Tells(r)
    BY <2>1, <2>3 DEF Tells, Reports!CanUseAbsence
  <2> HIDE DEF r
  <2>5. Reports!Send(r)
    BY <2>2 DEF r
  <2> QED
    BY <2>3, <2>4, <2>5, RepSends
<1>3. CASE Reports!ListThreads
  <2>1. PICK listed \in Reports!Listings :
          \E sorted \in Reports!Drafts(Reports!Page(listed),
            Reports!AppSessions(ToSet(Reports!Page(listed)))) :
            Reports!Send(Reports!ReportOf(sorted,
              Reports!AppSessions(ToSet(Reports!Page(listed))), "true", Reports!Truncated(listed)))
    BY <1>3, RepWords DEF Reports!ListThreads
  <2> DEFINE app == Reports!AppSessions(ToSet(Reports!Page(listed)))
  <2>2. PICK q \in Reports!Drafts(Reports!Page(listed), app) :
               Reports!Send(Reports!ReportOf(q, app, "true", Reports!Truncated(listed)))
    BY <2>1
  <2> DEFINE r == Reports!ReportOf(q, app, "true", Reports!Truncated(listed))
  <2>3. ToSet(Reports!Page(listed)) \subseteq Reports!Open
          /\ (~Reports!Truncated(listed) => ToSet(Reports!Page(listed)) = Reports!Open)
    BY PageIsWhole
  <2>4. app \in SUBSET Sessions
          /\ (~Reports!Truncated(listed) => app = Reports!AppSessions(Reports!Open))
    <3>1. ToSet(Reports!Page(listed)) \in SUBSET AppThreads
      BY <2>3, OpenIsFinite
    <3> QED
      BY <2>3, <3>1, SessionsOfThreads
  <2>5. Reports!AppSessions(Reports!Open) \in SUBSET Sessions
    BY OpenIsFinite, SessionsOfThreads
  <2> HIDE DEF app
  <2>6. Reports!Truncated(listed) \in BOOLEAN
    BY DEF Reports!Truncated
  <2>7. /\ r \in Reports!Report /\ r.absent = Sessions \ Reports!AppSessions(Reports!Open)
        /\ \A j \in DOMAIN r.sessions : r.sessions[j].present = (r.sessions[j].session \in app)
        /\ r.scope = "full" =>
             /\ ~Reports!Truncated(listed)
             /\ \A s \in app : \E j \in DOMAIN r.sessions :
                  r.sessions[j] = [session |-> s, present |-> TRUE]
    <3>1. "true" \in {"true", "false", "null"}
      OBVIOUS
    <3>2. Says(Reports!ReportOf(q, app, "true", Reports!Truncated(listed)), app, "true",
            Reports!Truncated(listed))
      BY <2>2, <2>4, <2>6, <3>1, ReportSays
    <3> QED
      BY <3>2 DEF Says
  <2> HIDE DEF r
  <2>8. Tells(r)
    <3> SUFFICES ASSUME Reports!CanUseAbsence(r)
                 PROVE  /\ \A s \in Sessions \ r.absent :
                             \E j \in DOMAIN r.sessions :
                               r.sessions[j] = [session |-> s, present |-> TRUE]
                        /\ \A j \in DOMAIN r.sessions :
                             r.sessions[j].present = (r.sessions[j].session \notin r.absent)
      BY DEF Tells
    <3>1. r.scope = "full" /\ app = Reports!AppSessions(Reports!Open) /\ Sessions \ r.absent = app
      BY <2>4, <2>5, <2>7 DEF Reports!CanUseAbsence
    <3>2. \A j \in DOMAIN r.sessions : r.sessions[j].session \in Sessions
      <4>1. r.sessions \in Seq(Row)
        BY <2>7 DEF Reports!Report, Row
      <4>2. \A j \in DOMAIN r.sessions : r.sessions[j] \in Row
        BY <4>1
      <4> QED
        BY <4>2 DEF Row
    <3>3. \A j \in DOMAIN r.sessions :
            (r.sessions[j].session \in app) = (r.sessions[j].session \notin r.absent)
      BY <3>1, <3>2
    <3> QED
      BY <2>7, <3>1, <3>3
  <2>9. Reports!Send(r)
    BY <2>2 DEF r
  <2> QED
    BY <2>7, <2>8, <2>9, RepSends
<1> QED
  BY <1>1, <1>2, <1>3

\* A step of the Worker leaves the files and the connector alone.
LEMMA RepWorks ==
    ASSUME Reports!ReportAssumption, RepInv, Reports!Recording,
           wire' \in Seq(Reports!Report), handler' \in [Handlers -> Frame],
           present' \in [Sessions -> {"none", "no", "yes"}],
           created' \subseteq Sessions, own' \subseteq Sessions,
           \A i \in DOMAIN wire' : Tells(wire'[i]),
           \A h \in Handlers : Tells(handler'[h].report)
    PROVE  RepInv'
<1>1. Reports!TypeOK'
  BY DEF RepInv, Reports!TypeOK, Reports!Recording, Reports!files, Frame, Row
<1>2. TimesAreMet'
  BY DEF RepInv, TimesAreMet, Reports!Recording, Reports!files
<1> QED
  BY <1>1, <1>2 DEF RepInv, ReportsTell

\* What the first report is, and what those after it are.
LEMMA Taken ==
    ASSUME RepInv, wire # <<>>
    PROVE  /\ Head(wire) \in Reports!Report /\ Tells(Head(wire))
           /\ Tail(wire) \in Seq(Reports!Report)
           /\ \A i \in DOMAIN Tail(wire) : Tells(Tail(wire)[i])
<1>1. wire \in Seq(Reports!Report)
  BY DEF RepInv, Reports!TypeOK
<1>2. /\ Head(wire) \in Reports!Report /\ Tail(wire) \in Seq(Reports!Report)
      /\ 1 \in DOMAIN wire /\ Head(wire) = wire[1]
      /\ \A i \in DOMAIN Tail(wire) : i + 1 \in DOMAIN wire /\ Tail(wire)[i] = wire[i + 1]
  <2> DEFINE h == Head(wire)
             r == Tail(wire)
             n == Len(wire)
  <2>1. /\ h \in Reports!Report /\ r \in Seq(Reports!Report) /\ n \in Nat /\ n # 0
        /\ Len(r) = n - 1 /\ h = wire[1]
        /\ \A i \in 1 .. Len(r) : r[i] = wire[i + 1]
        /\ DOMAIN wire = 1 .. n /\ DOMAIN r = 1 .. Len(r)
    BY <1>1, HeadTailProperties
  <2> HIDE DEF h, r, n
  <2>2. 1 \in DOMAIN wire /\ \A i \in DOMAIN r : i + 1 \in DOMAIN wire /\ r[i] = wire[i + 1]
    BY <2>1
  <2> QED
    BY <2>1, <2>2 DEF h, r
<1> QED
  BY <1>2 DEF RepInv, ReportsTell

LEMMA HandlerType ==
    ASSUME RepInv, NEW h \in Handlers
    PROVE  /\ handler \in [Handlers -> Frame] /\ handler[h] \in Frame
           /\ handler[h].report \in Reports!Report /\ handler[h].todo \in Seq(Row)
           /\ handler[h].report.sessions \in Seq(Row) /\ Tells(handler[h].report)
           /\ present \in [Sessions -> {"none", "no", "yes"}]
<1>1. handler \in [Handlers -> Frame]
  BY DEF RepInv, Reports!TypeOK, Frame, Row
<1>2. handler[h] \in Frame
  BY <1>1
<1>3. handler[h].report \in Reports!Report /\ handler[h].todo \in Seq(Row)
  BY <1>2 DEF Frame
<1>4. handler[h].report.sessions \in Seq(Row)
  BY <1>3 DEF Reports!Report, Row
<1> QED
  BY <1>1, <1>2, <1>3, <1>4 DEF RepInv, Reports!TypeOK, ReportsTell

\* One handler changes what it keeps.
LEMMA RepHandles ==
    ASSUME Reports!ReportAssumption, RepInv, Reports!Recording, NEW h \in Handlers, NEW f \in Frame,
           Tells(f.report), handler' = [handler EXCEPT ![h] = f],
           wire' \in Seq(Reports!Report), \A i \in DOMAIN wire' : Tells(wire'[i]),
           present' \in [Sessions -> {"none", "no", "yes"}], UNCHANGED <<created, own>>
    PROVE  RepInv'
<1>1. handler' \in [Handlers -> Frame]
  BY HandlerType
<1>2. \A g \in Handlers : Tells(handler'[g].report)
  BY HandlerType DEF RepInv, ReportsTell
<1>3. created' \subseteq Sessions /\ own' \subseteq Sessions
  BY DEF RepInv, Reports!TypeOK
<1> QED
  BY <1>1, <1>2, <1>3, RepWorks

\* What the Worker looks at next.
LEMMA RowAtHand ==
    ASSUME RepInv, NEW h \in Handlers, handler[h].todo # <<>>
    PROVE  /\ Head(handler[h].todo) \in Row /\ Head(handler[h].todo).session \in Sessions
           /\ Head(handler[h].todo).present \in BOOLEAN
           /\ Tail(handler[h].todo) \in Seq(Row)
           /\ ToSet(handler[h].todo) = {Head(handler[h].todo)} \cup ToSet(Tail(handler[h].todo))
<1>1. handler[h].todo \in Seq(Row)
  BY HandlerType
<1>2. /\ Head(handler[h].todo) \in Row /\ Tail(handler[h].todo) \in Seq(Row)
      /\ ToSet(handler[h].todo) = {Head(handler[h].todo)} \cup ToSet(Tail(handler[h].todo))
  BY <1>1, HeadAndTail
<1> QED
  BY <1>2 DEF Row

\* What is cut off a list.
LEMMA CutOf ==
    ASSUME NEW T, NEW q \in Seq(T), NEW n \in Nat
    PROVE  /\ SubSeq(q, 1, Min({n, Len(q)})) \in Seq(T)
           /\ Len(q) <= n => SubSeq(q, 1, Min({n, Len(q)})) = q
<1> DEFINE S == {n, Len(q)}
           m == Min(S)
<1>1. S \in SUBSET Nat /\ S # {}
  OBVIOUS
<1>2. m \in S /\ \A y \in S : m <= y
  <2> HIDE DEF S
  <2> QED
    BY <1>1, Least
<1>3. m \in Nat /\ m <= Len(q) /\ (Len(q) <= n => m = Len(q))
  <2> DEFINE k == Len(q)
  <2>1. k \in Nat /\ (m = n \/ m = k) /\ m <= k /\ m <= n
    BY <1>2
  <2> HIDE DEF k, m
  <2> QED
    <3>1. m \in Nat /\ m <= k /\ (k <= n => m = k)
      BY <2>1
    <3> QED
      BY <3>1 DEF k
<1>4. SubSeq(q, 1, Min({n, Len(q)})) = SubSeq(q, 1, m)
  OBVIOUS
<1> HIDE DEF m
<1>5. SubSeq(q, 1, m) \in Seq(T) /\ Len(SubSeq(q, 1, m)) = m /\ DOMAIN SubSeq(q, 1, m) = 1 .. m
      /\ \A i \in 1 .. m : SubSeq(q, 1, m)[i] = q[i]
  BY <1>3, FirstOf
<1>6. ASSUME m = Len(q) PROVE SubSeq(q, 1, m) = q
  <2> DEFINE p == SubSeq(q, 1, m)
  <2>1. p \in Seq(T) /\ Len(p) = Len(q) /\ \A i \in 1 .. Len(p) : p[i] = q[i]
    BY <1>5, <1>6
  <2> HIDE DEF p
  <2>2. p = q
    BY <2>1, SeqEqual
  <2> QED
    BY <2>2 DEF p
<1> QED
  BY <1>3, <1>4, <1>5, <1>6

\* One step of the Worker.
Works ==
  \/ \E h \in Handlers :
       \/ Reports!Record(h) \/ Reports!FindHostSession(h) \/ Reports!Upsert(h)
       \/ Reports!FindMissing(h) \/ Reports!ClearMissing(h) \/ Reports!RecordEnds(h)
  \/ Reports!Blocked \/ \E s \in Sessions : Reports!PersistCreated(s)

LEMMA StillTold ==
    ASSUME RepInv, UNCHANGED wire
    PROVE  wire' \in Seq(Reports!Report) /\ \A i \in DOMAIN wire' : Tells(wire'[i])
BY DEF RepInv, Reports!TypeOK, ReportsTell

LEMMA RepRecords ==
    ASSUME Reports!ReportAssumption, RepInv, NEW h \in Handlers, Reports!Record(h)
    PROVE  RepInv'
<1> DEFINE r == Head(wire)
           f == [step |-> "read", report |-> r, previous |-> "none",
                 todo |-> SubSeq(r.sessions, 1, Min({WorkerCut, Len(r.sessions)}))]
<1>1. /\ wire # <<>> /\ wire' = Tail(wire) /\ handler' = [handler EXCEPT ![h] = f]
      /\ Reports!Recording /\ UNCHANGED <<present, created, own>>
  BY RepWords DEF Reports!Record
<1>2. /\ r \in Reports!Report /\ Tells(r) /\ wire' \in Seq(Reports!Report)
      /\ \A i \in DOMAIN wire' : Tells(wire'[i])
  BY <1>1, Taken
<1> HIDE DEF r
<1>3. f \in Frame
  <2>1. r.sessions \in Seq(Row) /\ WorkerCut \in Nat
    BY <1>2, RepWords DEF Reports!Report, Row, Reports!ReportAssumption
  <2>2. SubSeq(r.sessions, 1, Min({WorkerCut, Len(r.sessions)})) \in Seq(Row)
    BY <2>1, CutOf
  <2> QED
    BY <1>2, <2>2 DEF Frame
<1>4. f.report = r
  OBVIOUS
<1> HIDE DEF f
<1>5. present' \in [Sessions -> {"none", "no", "yes"}]
  BY <1>1 DEF RepInv, Reports!TypeOK
<1> QED
  BY <1>1, <1>2, <1>3, <1>4, <1>5, RepHandles

LEMMA RepLooks ==
    ASSUME Reports!ReportAssumption, RepInv, NEW h \in Handlers,
           Reports!FindHostSession(h) \/ Reports!RecordEnds(h)
    PROVE  RepInv'
<1>1. /\ Reports!Recording /\ UNCHANGED <<wire, present, created, own>>
  BY DEF Reports!FindHostSession, Reports!RecordEnds
<1>2. present' \in [Sessions -> {"none", "no", "yes"}]
  BY <1>1 DEF RepInv, Reports!TypeOK
<1>3. wire' \in Seq(Reports!Report) /\ \A i \in DOMAIN wire' : Tells(wire'[i])
  BY <1>1, StillTold
<1>4. CASE Reports!FindHostSession(h)
  <2> DEFINE p == present[Head(handler[h].todo).session]
             f == [handler[h] EXCEPT !.step = "write", !.previous = p]
  <2>1. handler[h].todo # <<>> /\ handler' = [handler EXCEPT ![h] = f]
    BY <1>4, HandlerType DEF Reports!FindHostSession
  <2>2. p \in {"none", "no", "yes"}
    BY <2>1, RowAtHand, HandlerType
  <2>3. f \in Frame /\ f.report = handler[h].report
    BY <2>2, HandlerType DEF Frame
  <2> HIDE DEF f
  <2> QED
    BY <1>1, <1>2, <1>3, <2>1, <2>3, HandlerType, RepHandles
<1>5. CASE Reports!RecordEnds(h)
  <2>1. handler' = [handler EXCEPT ![h] = Reports!Quiet]
    BY <1>5 DEF Reports!RecordEnds
  <2> QED
    BY <1>1, <1>2, <1>3, <2>1, QuietIsFrame, RepHandles
<1> QED
  BY <1>4, <1>5

LEMMA RepWrites ==
    ASSUME Reports!ReportAssumption, RepInv, NEW h \in Handlers,
           Reports!Upsert(h) \/ Reports!ClearMissing(h), handler[h].todo # <<>>
    PROVE  RepInv'
<1> DEFINE s == Head(handler[h].todo).session
<1>1. /\ Reports!Recording /\ UNCHANGED <<wire, created, own>>
      /\ \E v \in {"no", "yes"} : present' = [present EXCEPT ![s] = v]
      /\ \E n \in {"read", handler[h].step} :
           handler' = [handler EXCEPT ![h] =
             [handler[h] EXCEPT !.step = n, !.todo = Tail(handler[h].todo)]]
  <2>1. CASE Reports!Upsert(h)
    <3>1. /\ Reports!Recording /\ UNCHANGED <<wire, created, own>>
          /\ present' = [present EXCEPT ![s] =
               Reports!AppServerPresent(handler[h].report, Head(handler[h].todo),
                 handler[h].previous)]
          /\ handler' = [handler EXCEPT ![h].step = "read", ![h].todo = Tail(@)]
      BY <2>1 DEF Reports!Upsert
    <3>2. Reports!AppServerPresent(handler[h].report, Head(handler[h].todo),
            handler[h].previous) \in {"no", "yes"}
      BY DEF Reports!AppServerPresent
    <3>3. handler' = [handler EXCEPT ![h] =
            [handler[h] EXCEPT !.step = "read", !.todo = Tail(handler[h].todo)]]
      BY <3>1, HandlerType DEF Frame
    <3> QED
      BY <3>1, <3>2, <3>3
  <2>2. CASE Reports!ClearMissing(h)
    <3>1. /\ Reports!Recording /\ UNCHANGED <<wire, created, own>>
          /\ present' = [present EXCEPT ![s] = "no"]
          /\ handler' = [handler EXCEPT ![h].todo = Tail(@)]
      BY <2>2 DEF Reports!ClearMissing
    <3>2. handler' = [handler EXCEPT ![h] =
            [handler[h] EXCEPT !.step = handler[h].step, !.todo = Tail(handler[h].todo)]]
      BY <3>1, HandlerType DEF Frame
    <3> QED
      BY <3>1, <3>2
  <2> QED
    BY <2>1, <2>2
<1>2. PICK v \in {"no", "yes"} : present' = [present EXCEPT ![s] = v]
  BY <1>1
<1>3. PICK n \in {"read", handler[h].step} :
        handler' = [handler EXCEPT ![h] =
          [handler[h] EXCEPT !.step = n, !.todo = Tail(handler[h].todo)]]
  BY <1>1
<1> DEFINE f == [handler[h] EXCEPT !.step = n, !.todo = Tail(handler[h].todo)]
<1>4. f \in Frame /\ f.report = handler[h].report
  <2>1. handler[h] \in Frame /\ Tail(handler[h].todo) \in Seq(Row)
    BY RowAtHand, HandlerType
  <2>2. n \in {"idle", "read", "write", "clear"}
    BY <2>1 DEF Frame
  <2> QED
    BY <2>1, <2>2 DEF Frame
<1>5. present' \in [Sessions -> {"none", "no", "yes"}]
  BY <1>2, HandlerType
<1>6. wire' \in Seq(Reports!Report) /\ \A i \in DOMAIN wire' : Tells(wire'[i])
  BY <1>1, StillTold
<1>7. handler' = [handler EXCEPT ![h] = f]
  BY <1>3
<1> HIDE DEF f
<1> QED
  BY <1>1, <1>4, <1>5, <1>6, <1>7, HandlerType, RepHandles

\* The sessions to clear, one after the other.
ToClear(h) == {s \in Reports!MissingSessions(handler[h].report) : present[s] = "yes"}
Clearing(h, q) ==
  [handler[h] EXCEPT !.step = "clear",
                     !.todo = [i \in DOMAIN q |-> [session |-> q[i], present |-> FALSE]]]

LEMMA MissingAtHand ==
    ASSUME Reports!ReportAssumption, RepInv, NEW h \in Handlers, Reports!FindMissing(h)
    PROVE  /\ Reports!Recording /\ UNCHANGED <<wire, present, created, own>>
           /\ \E q \in Seq(Sessions) :
                /\ ToSet(q) = ToClear(h)
                /\ Clearing(h, q) \in Frame
                /\ handler' = [handler EXCEPT ![h] = Clearing(h, q)]
<1>1. PICK q \in SetToSeqs(ToClear(h)) :
        handler' = [handler EXCEPT ![h].step = "clear",
          ![h].todo = [i \in DOMAIN q |-> [session |-> q[i], present |-> FALSE]]]
  BY RepWords DEF Reports!FindMissing, ToClear
<1>2. ToClear(h) \subseteq Sessions
  BY DEF ToClear, Reports!MissingSessions
<1>3. IsFiniteSet(ToClear(h))
  BY <1>2, FS_Subset, RepWords DEF Reports!ReportAssumption
<1>4. q \in Seq(ToClear(h)) /\ ToSet(q) = ToClear(h) /\ DOMAIN q = 1 .. Len(q)
  BY <1>1, <1>3, InARow
<1>5. q \in Seq(Sessions)
  BY <1>2, <1>4, SeqMonotonic
<1> DEFINE t == [i \in DOMAIN q |-> [session |-> q[i], present |-> FALSE]]
<1>6. t \in Seq(Row)
  <2>1. \A i \in 1 .. Len(q) : q[i] \in Sessions
    BY <1>5, ElementOfSeq
  <2>2. t = [i \in 1 .. Len(q) |-> [session |-> q[i], present |-> FALSE]]
    BY <1>4
  <2>3. t \in [1 .. Len(q) -> Row]
    BY <2>1, <2>2 DEF Row
  <2>4. Len(q) \in Nat
    BY <1>5
  <2> QED
    BY <2>3, <2>4
<1>7. Clearing(h, q) = [handler[h] EXCEPT !.step = "clear", !.todo = t]
  BY DEF Clearing
<1>8. handler' = [handler EXCEPT ![h].step = "clear", ![h].todo = t]
  BY <1>1
<1> HIDE DEF t
<1>9. Clearing(h, q) \in Frame
  BY <1>6, <1>7, HandlerType DEF Frame
<1>10. handler' = [handler EXCEPT ![h] = Clearing(h, q)]
  BY <1>7, <1>8, HandlerType DEF Frame
<1> QED
  BY <1>4, <1>5, <1>9, <1>10, RepWords DEF Reports!FindMissing

LEMMA RepWorker ==
    ASSUME Reports!ReportAssumption, RepInv, Works,
           \A h \in Handlers : handler[h].step = "write" => handler[h].todo # <<>>
    PROVE  RepInv'
<1>1. ASSUME NEW h \in Handlers, Reports!FindMissing(h) PROVE RepInv'
  <2>1. /\ Reports!Recording /\ UNCHANGED <<wire, present, created, own>>
        /\ \E q \in Seq(Sessions) :
             /\ Clearing(h, q) \in Frame
             /\ handler' = [handler EXCEPT ![h] = Clearing(h, q)]
    BY <1>1, MissingAtHand
  <2>2. PICK q \in Seq(Sessions) :
          Clearing(h, q) \in Frame /\ handler' = [handler EXCEPT ![h] = Clearing(h, q)]
    BY <2>1
  <2>3. Clearing(h, q).report = handler[h].report
    BY HandlerType DEF Clearing, Frame
  <2>4. present' \in [Sessions -> {"none", "no", "yes"}]
    BY <2>1 DEF RepInv, Reports!TypeOK
  <2> QED
    BY <2>1, <2>2, <2>3, <2>4, HandlerType, StillTold, RepHandles
<1>2. CASE Reports!Blocked
  <2>1. /\ wire # <<>> /\ wire' = Tail(wire) /\ Reports!Recording
             /\ UNCHANGED <<handler, present, created, own>>
    BY <1>2 DEF Reports!Blocked
  <2>2. wire' \in Seq(Reports!Report) /\ \A i \in DOMAIN wire' : Tells(wire'[i])
    BY <2>1, Taken
  <2>3. /\ handler' \in [Handlers -> Frame] /\ present' \in [Sessions -> {"none", "no", "yes"}]
        /\ created' \subseteq Sessions /\ own' \subseteq Sessions
    BY <2>1 DEF RepInv, Reports!TypeOK, Frame, Row
  <2>4. \A h \in Handlers : Tells(handler'[h].report)
    BY <2>1 DEF RepInv, ReportsTell
  <2> QED
    BY <2>1, <2>2, <2>3, <2>4, RepWorks
<1>3. ASSUME NEW s \in Sessions, Reports!PersistCreated(s) PROVE RepInv'
  <2>1. /\ created' = created \ {s} /\ present' = [present EXCEPT ![s] = "yes"]
        /\ own' = own \cup ({s} \cap Reports!AppSessions(Reports!Open)) /\ Reports!Recording
             /\ UNCHANGED <<wire, handler>>
    BY <1>3 DEF Reports!PersistCreated
  <2>2. /\ handler' \in [Handlers -> Frame] /\ present' \in [Sessions -> {"none", "no", "yes"}]
        /\ created' \subseteq Sessions /\ own' \subseteq Sessions
    BY <2>1 DEF RepInv, Reports!TypeOK, Frame, Row
  <2>3. \A h \in Handlers : Tells(handler'[h].report)
    BY <2>1 DEF RepInv, ReportsTell
  <2> QED
    BY <2>1, <2>2, <2>3, StillTold, RepWorks
<1>4. ASSUME NEW h \in Handlers, Reports!Upsert(h) \/ Reports!ClearMissing(h) PROVE RepInv'
  <2>1. handler[h].todo # <<>>
    BY <1>4 DEF Reports!Upsert, Reports!ClearMissing
  <2> QED
    BY <1>4, <2>1, RepWrites
<1> QED
  BY <1>1, <1>2, <1>3, <1>4, RepRecords, RepLooks DEF Works

WritesARow == \A h \in Handlers : handler[h].step = "write" => handler[h].todo # <<>>

\* Nothing but the files and the connector changes.
Outside ==
  \/ Reports!Host \/ Reports!Refresh
  \/ \E t \in AppThreads : Reports!Archive(t) \/ Reports!Create(t)
  \/ Reports!ReadFiles \/ Reports!ReadFails
  \/ Reports!ListThreads \/ Reports!ListFails \/ Reports!NoAppServer

LEMMA OutsideTouches ==
    ASSUME Outside
    PROVE  UNCHANGED <<handler, present>> /\ ("create" \notin Asks => UNCHANGED created)
<1>1. Reports!Host => UNCHANGED <<handler, present, created>>
  BY DEF Reports!Host, Reports!WriteIndex, Reports!WriteHistory, Reports!NewRollout,
     Reports!UseRollout, Reports!Use, Reports!Close, Reports!Elsewhere
<1>2. Reports!Refresh \/ Reports!ReadFiles \/ (\E t \in AppThreads : Reports!Archive(t)) =>
        UNCHANGED <<handler, present, created>>
  BY DEF Reports!Refresh, Reports!ReadFiles, Reports!Archive, Reports!Ask
<1>3. \A t \in AppThreads : Reports!Create(t) => UNCHANGED <<handler, present>> /\ "create" \in Asks
  BY DEF Reports!Create, Reports!Ask
<1>4. \A r : Reports!Send(r) => UNCHANGED <<handler, present, created>>
  BY DEF Reports!Send
<1>5. Reports!ReadFails \/ Reports!ListThreads \/ Reports!ListFails \/ Reports!NoAppServer =>
        \E r : Reports!Send(r)
  BY RepWords DEF Reports!ReadFails, Reports!ListThreads, Reports!ListFails,
     Reports!NoAppServer, Reports!Unlisted
<1> QED
  BY <1>1, <1>2, <1>3, <1>4, <1>5 DEF Outside

LEMMA NextIs == Reports!Next <=> Outside \/ Works
BY DEF Reports!Next, Outside, Works

LEMMA RepStep ==
    ASSUME Reports!ReportAssumption, RepInv, WritesARow, Reports!Next
    PROVE  RepInv' /\ WritesARow'
<1>1. CASE Outside
  <2>1. RepInv'
    <3>1. CASE Reports!Host
      <4>1. Reports!TypeOK' /\ TimesAreMet'
        BY <3>1, TypeHost DEF RepInv
      <4>2. UNCHANGED <<handler, wire>>
        BY <3>1 DEF Reports!Host, Reports!WriteIndex, Reports!WriteHistory,
           Reports!NewRollout, Reports!UseRollout, Reports!Use, Reports!Close,
           Reports!Elsewhere, Reports!connector
      <4> QED
        BY <4>1, <4>2 DEF RepInv, ReportsTell
    <3> QED
      BY <1>1, <3>1, RepAsks, RepReports DEF Outside
  <2>2. WritesARow'
    BY <1>1, OutsideTouches DEF WritesARow
  <2> QED
    BY <2>1, <2>2
<1>2. CASE Works
  <2>1. RepInv'
    BY <1>2, RepWorker DEF WritesARow
  <2>2. ASSUME NEW g \in Handlers, handler'[g].step = "write" PROVE handler'[g].todo # <<>>
    <3>1. \A h \in Handlers : handler[h] \in Frame /\ handler \in [Handlers -> Frame]
      BY HandlerType
    <3>2. CASE handler'[g] = handler[g]
      BY <2>2, <3>2 DEF WritesARow
    <3>3. CASE Reports!FindHostSession(g)
      <4>1. handler[g].todo # <<>> /\ handler'[g].todo = handler[g].todo
        BY <3>1, <3>3 DEF Reports!FindHostSession, Frame
      <4> QED
        BY <4>1
    <3>4. CASE Reports!Record(g) \/ Reports!RecordEnds(g) \/ Reports!Upsert(g)
                 \/ Reports!FindMissing(g)
      <4>1. handler'[g].step # "write"
        <5>1. Reports!Record(g) => handler'[g].step = "read"
          BY <3>1, RepWords DEF Reports!Record
        <5>2. Reports!RecordEnds(g) => handler'[g].step = "idle"
          BY <3>1 DEF Reports!RecordEnds, Reports!Quiet
        <5>3. Reports!Upsert(g) => handler'[g].step = "read"
          BY <3>1 DEF Reports!Upsert, Frame
        <5>4. ASSUME Reports!FindMissing(g) PROVE handler'[g].step = "clear"
          <6>1. PICK t : handler' = [handler EXCEPT ![g].step = "clear", ![g].todo = t]
            BY <5>4, RepWords DEF Reports!FindMissing
          <6> QED
            BY <3>1, <6>1 DEF Frame
        <5> QED
          BY <3>4, <5>1, <5>2, <5>3, <5>4
      <4> QED
        BY <2>2, <4>1
    <3>5. CASE Reports!ClearMissing(g)
      <4>1. handler[g].step = "clear" /\ handler'[g].step = handler[g].step
        BY <3>1, <3>5 DEF Reports!ClearMissing, Frame
      <4> QED
        BY <2>2, <4>1
    <3>6. \A h \in Handlers : Reports!Record(h) \/ Reports!FindHostSession(h) \/ Reports!Upsert(h)
             \/ Reports!FindMissing(h) \/ Reports!ClearMissing(h) \/ Reports!RecordEnds(h) =>
                  h = g \/ handler'[g] = handler[g]
      BY <3>1, RepWords DEF Reports!Record, Reports!FindHostSession, Reports!Upsert,
         Reports!FindMissing, Reports!ClearMissing, Reports!RecordEnds
    <3>7. Reports!Blocked \/ (\E s \in Sessions : Reports!PersistCreated(s)) =>
            handler'[g] = handler[g]
      BY DEF Reports!Blocked, Reports!PersistCreated
    <3> QED
      BY <1>2, <3>2, <3>3, <3>4, <3>5, <3>6, <3>7 DEF Works
  <2> QED
    BY <2>1, <2>2 DEF WritesARow
<1> QED
  BY <1>1, <1>2, NextIs

LEMMA RepStutters ==
    ASSUME RepInv, WritesARow, UNCHANGED Reports!vars
    PROVE  RepInv' /\ WritesARow'
BY DEF RepInv, WritesARow, Reports!TypeOK, TimesAreMet, ReportsTell, Reports!vars,
   Reports!files, Reports!connector

LEMMA WholeReports == ASSUME RepInv PROVE Reports!FullIsWhole
<1> SUFFICES ASSUME NEW i \in DOMAIN wire, Reports!CanUseAbsence(wire[i]),
               NEW s \in Sessions \ wire[i].absent
             PROVE  \E j \in DOMAIN wire[i].sessions :
               wire[i].sessions[j] = [session |-> s, present |-> TRUE]
  BY DEF Reports!FullIsWhole
<1> QED
  BY DEF RepInv, ReportsTell, Tells

LEMMA RepBegins ==
    ASSUME Reports!ReportAssumption, Reports!Init PROVE RepInv /\ WritesARow
BY RepStart, QuietIsFrame DEF WritesARow, Reports!Init, Reports!Quiet

LEMMA RepGoesOn ==
    ASSUME Reports!ReportAssumption, RepInv, WritesARow, [Reports!Next]_(Reports!vars)
    PROVE  RepInv' /\ WritesARow'
BY RepStep, RepStutters

(* What the files tell, what is sent and what the Worker keeps have their   *)
(* types, and a report that calls itself full, with a successful list, has  *)
(* all the sessions of the app-server, for pages of any size and sessions   *)
(* of any number of threads: a truncated list is never taken for the whole  *)
(* (list_app_server_threads and the scope of the inventory).                *)
THEOREM FullReportsAreWhole ==
    ASSUME Reports!ReportAssumption
    PROVE  Reports!Spec => [](Reports!TypeOK /\ Reports!FullIsWhole)
<1>1. Reports!Init => RepInv /\ WritesARow
  BY RepBegins
<1>2. RepInv /\ WritesARow /\ [Reports!Next]_(Reports!vars) => RepInv' /\ WritesARow'
  BY RepGoesOn
<1>3. RepInv => Reports!TypeOK /\ Reports!FullIsWhole
  BY WholeReports DEF RepInv
<1> QED
  BY <1>1, <1>2, <1>3, PTL DEF Reports!Spec

\* Reports are recorded one after the other, and nothing is created.
Serial == "create" \notin Asks /\ \A g, h \in Handlers : g = h

Presence(x) == IF x.present THEN "yes" ELSE "no"
Rows(h) == ToSet(handler[h].report.sessions)
Left(h) == ToSet(handler[h].todo)

\* How far the recording of a report has come, when no other is in between.
Progress(h) ==
  /\ handler[h].step = "write" =>
       handler[h].todo # <<>> /\ handler[h].previous = present[Head(handler[h].todo).session]
  /\ handler[h].step \in {"read", "write"} => Left(h) \subseteq Rows(h)
  /\ handler[h].step = "clear" =>
       \A x \in Left(h) : x.session \in Reports!MissingSessions(handler[h].report)
  /\ Reports!CanClearMissing(handler[h].report) =>
       /\ handler[h].step \in {"read", "write"} =>
            \A x \in Rows(h) : x \in Left(h) \/ present[x.session] = Presence(x)
       /\ handler[h].step = "clear" =>
            /\ \A x \in Rows(h) : present[x.session] = Presence(x)
            /\ \A s \in Reports!MissingSessions(handler[h].report) :
                 present[s] = "yes" => \E x \in Left(h) : x.session = s

SerialInv == RepInv /\ WritesARow /\ created = {} /\ \A h \in Handlers : Progress(h)

\* What a full report says of each of its rows, and of what it does not name.
LEMMA RowsTell ==
    ASSUME NEW r \in Reports!Report, Tells(r)
    PROVE  /\ ToSet(r.sessions) \subseteq Row
           /\ Reports!CanUseAbsence(r) =>
                /\ \A x \in ToSet(r.sessions) : x.present = (x.session \notin r.absent)
                /\ \A s \in Sessions \ r.absent : \E x \in ToSet(r.sessions) :
                     x.session = s /\ x.present
           /\ \A s : s \in Reports!MissingSessions(r) <=>
                Reports!CanClearMissing(r) /\ s \in Sessions /\ \A x \in ToSet(r.sessions) :
                  x.session # s
<1>1. r.sessions \in Seq(Row)
  BY DEF Reports!Report, Row
<1>2. ToSet(r.sessions) \subseteq Row
  BY <1>1, Elements
<1>3. \A x : x \in ToSet(r.sessions) <=> \E j \in DOMAIN r.sessions : x = r.sessions[j]
  BY DEF ToSet
<1>4. Reports!CanUseAbsence(r) =>
        \A x \in ToSet(r.sessions) : x.present = (x.session \notin r.absent)
  BY <1>3 DEF Tells
<1>5. ASSUME Reports!CanUseAbsence(r), NEW s \in Sessions \ r.absent
      PROVE  \E x \in ToSet(r.sessions) : x.session = s /\ x.present
  <2>1. PICK j \in DOMAIN r.sessions : r.sessions[j] = [session |-> s, present |-> TRUE]
    BY <1>5 DEF Tells
  <2>2. r.sessions[j] \in ToSet(r.sessions) /\ r.sessions[j].session = s /\ r.sessions[j].present
    BY <1>3, <2>1
  <2> QED
    BY <2>2
<1>6. \A s : s \in {r.sessions[i].session : i \in DOMAIN r.sessions}
               <=> \E x \in ToSet(r.sessions) : x.session = s
  BY <1>3
<1>7. \A s : s \in Reports!MissingSessions(r) <=>
        Reports!CanClearMissing(r) /\ s \in Sessions /\ \A x \in ToSet(r.sessions) : x.session # s
  BY <1>6 DEF Reports!MissingSessions
<1> QED
  BY <1>2, <1>4, <1>5, <1>7

LEMMA ProgressStart == ASSUME Reports!Init PROVE created = {} /\ \A h \in Handlers : Progress(h)
<1>1. \A h \in Handlers : handler[h] = Reports!Quiet
  BY DEF Reports!Init
<1>2. Reports!Quiet.step = "idle" /\ ~Reports!CanClearMissing(Reports!Quiet.report)
  BY DEF Reports!Quiet, Reports!NoReport, Reports!CanClearMissing, Reports!CanUseAbsence
<1> QED
  BY <1>1, <1>2 DEF Reports!Init, Progress

\* Nothing of the recording has changed.
LEMMA ProgressStays ==
    ASSUME NEW h, Progress(h), UNCHANGED <<handler, present>>
    PROVE  Progress(h)'
BY DEF Progress, Rows, Left

LEMMA ProgressRecords ==
    ASSUME Reports!ReportAssumption, SerialInv, NEW h \in Handlers, Reports!Record(h)
    PROVE  Progress(h)'
<1> DEFINE r == Head(wire)
           t == SubSeq(r.sessions, 1, Min({WorkerCut, Len(r.sessions)}))
<1>1. /\ handler'[h] = [step |-> "read", report |-> r, previous |-> "none", todo |-> t]
      /\ wire # <<>>
  BY HandlerType, RepWords DEF Reports!Record, SerialInv
<1>2. r \in Reports!Report /\ Tells(r)
  BY <1>1, Taken DEF SerialInv
<1> HIDE DEF r
<1>3. /\ r.sessions \in Seq(Row) /\ WorkerCut \in Nat
      /\ (Reports!CanClearMissing(r) => Len(r.sessions) <= WorkerCut)
  BY <1>2, RepWords DEF Reports!Report, Row, Reports!ReportAssumption, Reports!CanClearMissing
<1>4. t \in Seq(Row) /\ (Reports!CanClearMissing(r) => t = r.sessions)
  BY <1>3, CutOf
<1>5. ToSet(t) \subseteq ToSet(r.sessions)
  <2> DEFINE k == Len(r.sessions)
             m == Min({WorkerCut, k})
  <2>1. m \in Nat /\ m <= k
    <3> DEFINE S == {WorkerCut, k}
    <3>1. S \in SUBSET Nat /\ S # {} /\ k \in S
      BY <1>3
    <3> HIDE DEF S, k
    <3>2. Min(S) \in S /\ Min(S) <= k
      BY <3>1, Least
    <3>3. Min(S) \in Nat
      BY <3>1, <3>2
    <3> QED
      BY <3>2, <3>3 DEF S
  <2>2. t = SubSeq(r.sessions, 1, m)
    OBVIOUS
  <2> HIDE DEF m, t
  <2>3. DOMAIN t = 1 .. m /\ \A i \in 1 .. m : t[i] = r.sessions[i] /\ i \in DOMAIN r.sessions
    BY <1>3, <2>1, <2>2, FirstOf
  <2> QED
    BY <2>3 DEF ToSet
<1> HIDE DEF t
<1>6. /\ handler'[h].step = "read" /\ handler'[h].report = r /\ handler'[h].todo = t
  BY <1>1
<1>7. Left(h)' = ToSet(t) /\ Rows(h)' = ToSet(r.sessions)
  BY <1>6 DEF Left, Rows
<1>8. Reports!CanClearMissing(r) => Left(h)' = Rows(h)'
  BY <1>4, <1>7
<1> QED
  BY <1>5, <1>6, <1>7, <1>8 DEF Progress

LEMMA ProgressLooks ==
    ASSUME Reports!ReportAssumption, SerialInv, NEW h \in Handlers,
           Reports!FindHostSession(h) \/ Reports!RecordEnds(h)
    PROVE  Progress(h)'
<1>1. handler[h] \in Frame /\ handler \in [Handlers -> Frame] /\ Progress(h)
  BY HandlerType DEF SerialInv
<1>2. CASE Reports!FindHostSession(h)
  <2>1. /\ handler[h].step = "read" /\ handler[h].todo # <<>> /\ UNCHANGED present
        /\ handler'[h].step = "write" /\ handler'[h].report = handler[h].report
        /\ handler'[h].todo = handler[h].todo
        /\ handler'[h].previous = present[Head(handler[h].todo).session]
    BY <1>1, <1>2 DEF Reports!FindHostSession, Frame
  <2>2. Left(h)' = Left(h) /\ Rows(h)' = Rows(h)
    BY <2>1 DEF Left, Rows
  <2> QED
    BY <1>1, <2>1, <2>2 DEF Progress
<1>3. CASE Reports!RecordEnds(h)
  <2>1. handler'[h] = Reports!Quiet
    BY <1>1, <1>3 DEF Reports!RecordEnds
  <2>2. Reports!Quiet.step = "idle" /\ ~Reports!CanClearMissing(Reports!Quiet.report)
    BY DEF Reports!Quiet, Reports!NoReport, Reports!CanClearMissing, Reports!CanUseAbsence
  <2> QED
    BY <2>1, <2>2 DEF Progress
<1> QED
  BY <1>2, <1>3

\* A row gets what it is told, unless it is left what it was.
LEMMA ProgressUpserts ==
    ASSUME Reports!ReportAssumption, SerialInv, NEW h \in Handlers, Reports!Upsert(h)
    PROVE  Progress(h)'
<1> DEFINE x == Head(handler[h].todo)
           r == handler[h].report
<1>1. /\ handler[h] \in Frame /\ handler \in [Handlers -> Frame] /\ Progress(h)
      /\ r \in Reports!Report /\ Tells(r) /\ present \in [Sessions -> {"none", "no", "yes"}]
  BY HandlerType DEF SerialInv
<1>2. handler[h].step = "write" /\ handler[h].todo # <<>>
  BY <1>1 DEF Reports!Upsert, Progress
<1>3. /\ x \in Row /\ x.session \in Sessions /\ Left(h) = {x} \cup ToSet(Tail(handler[h].todo))
  BY <1>2, RowAtHand DEF SerialInv, Left
<1>4. /\ handler'[h].step = "read" /\ handler'[h].report = r
      /\ handler'[h].todo = Tail(handler[h].todo)
      /\ present' = [present EXCEPT ![x.session] =
           Reports!AppServerPresent(r, x, handler[h].previous)]
  BY <1>1 DEF Reports!Upsert, Frame
<1> HIDE DEF r, x
<1>5. Left(h)' = ToSet(Tail(handler[h].todo)) /\ Rows(h)' = ToSet(r.sessions)
        /\ Rows(h) = ToSet(r.sessions)
  BY <1>4 DEF Left, Rows, r
<1>6. Left(h) \subseteq Rows(h)
  BY <1>1, <1>2 DEF Progress
<1>7. Left(h)' \subseteq Rows(h)' /\ x \in Rows(h)
  BY <1>3, <1>5, <1>6
<1>8. ASSUME Reports!CanClearMissing(r), NEW y \in Rows(h)'
      PROVE  y \in Left(h)' \/ present'[y.session] = Presence(y)
  <2>1. Reports!CanUseAbsence(r)
    BY <1>8 DEF Reports!CanClearMissing
  <2>2. y \in Row /\ y.session \in Sessions /\ y.present = (y.session \notin r.absent)
        /\ x.present = (x.session \notin r.absent)
    BY <1>1, <1>5, <1>7, <1>8, <2>1, RowsTell DEF Row
  <2>3. present'[x.session] = Presence(x)
    BY <1>1, <1>3, <1>4, <2>1 DEF Reports!AppServerPresent, Presence
  <2>4. CASE y.session = x.session
    <3>1. Presence(y) = Presence(x)
      BY <2>2, <2>4 DEF Presence
    <3> QED
      BY <2>3, <2>4, <3>1
  <2>5. CASE y.session # x.session
    <3>1. y \in Left(h) \/ present[y.session] = Presence(y)
      BY <1>1, <1>2, <1>5, <1>8 DEF Progress, r
    <3>2. y # x /\ present'[y.session] = present[y.session]
      BY <1>1, <1>4, <2>2, <2>5
    <3> QED
      BY <1>3, <1>5, <3>1, <3>2
  <2> QED
    BY <2>4, <2>5
<1> QED
  BY <1>4, <1>7, <1>8 DEF Progress

\* What is missing and marked is to be cleared.
LEMMA ProgressMisses ==
    ASSUME Reports!ReportAssumption, SerialInv, NEW h \in Handlers, Reports!FindMissing(h)
    PROVE  Progress(h)'
<1> DEFINE r == handler[h].report
<1>1. PICK q \in Seq(Sessions) :
        /\ ToSet(q) = ToClear(h) /\ Clearing(h, q) \in Frame
        /\ handler' = [handler EXCEPT ![h] = Clearing(h, q)]
  BY MissingAtHand DEF SerialInv
<1>2. UNCHANGED present /\ handler[h].step = "read" /\ handler[h].todo = <<>>
  BY RepWords DEF Reports!FindMissing
<1>3. /\ handler[h] \in Frame /\ handler \in [Handlers -> Frame] /\ Progress(h)
  BY HandlerType DEF SerialInv
<1> DEFINE t == [i \in DOMAIN q |-> [session |-> q[i], present |-> FALSE]]
<1>4. /\ handler'[h].step = "clear" /\ handler'[h].report = r /\ handler'[h].todo = t
  BY <1>1, <1>3 DEF Clearing, Frame
<1>5. \A s : s \in ToClear(h) <=> \E x \in ToSet(t) : x.session = s
  <2>1. \A s : s \in ToSet(q) <=> \E i \in DOMAIN q : q[i] = s
    BY DEF ToSet
  <2>2. DOMAIN t = DOMAIN q /\ \A i \in DOMAIN q : t[i].session = q[i]
    OBVIOUS
  <2> HIDE DEF t
  <2>3. \A x : x \in ToSet(t) <=> \E i \in DOMAIN t : t[i] = x
    BY DEF ToSet
  <2> QED
    BY <1>1, <2>1, <2>2, <2>3
<1> HIDE DEF t
<1>6. Left(h)' = ToSet(t) /\ Rows(h)' = Rows(h)
  BY <1>4 DEF Left, Rows
<1>7. Left(h) = {}
  BY <1>2 DEF Left, ToSet
<1>8. ToClear(h) = {s \in Reports!MissingSessions(r) : present[s] = "yes"}
  BY DEF ToClear
<1>9. Reports!CanClearMissing(r) => \A x \in Rows(h) : present[x.session] = Presence(x)
  BY <1>2, <1>3, <1>7 DEF Progress
<1> HIDE DEF r
<1>10. Reports!MissingSessions(handler'[h].report) = Reports!MissingSessions(r)
  BY <1>4
<1>11. \A x \in Left(h)' : x.session \in Reports!MissingSessions(r)
  BY <1>5, <1>6, <1>8
<1>12. \A s \in Reports!MissingSessions(r) : present'[s] = "yes" =>
         \E x \in Left(h)' : x.session = s
  BY <1>2, <1>5, <1>6, <1>8
<1>13. Reports!CanClearMissing(r) => \A x \in Rows(h)' : present'[x.session] = Presence(x)
  BY <1>2, <1>6, <1>9
<1> QED
  BY <1>4, <1>10, <1>11, <1>12, <1>13 DEF Progress

LEMMA ProgressClears ==
    ASSUME Reports!ReportAssumption, SerialInv, NEW h \in Handlers, Reports!ClearMissing(h)
    PROVE  Progress(h)'
<1> DEFINE x == Head(handler[h].todo)
           r == handler[h].report
<1>1. /\ handler[h] \in Frame /\ handler \in [Handlers -> Frame] /\ Progress(h)
      /\ r \in Reports!Report /\ Tells(r) /\ present \in [Sessions -> {"none", "no", "yes"}]
  BY HandlerType DEF SerialInv
<1>2. handler[h].step = "clear" /\ handler[h].todo # <<>>
  BY DEF Reports!ClearMissing
<1>3. /\ x \in Row /\ x.session \in Sessions /\ Left(h) = {x} \cup ToSet(Tail(handler[h].todo))
  BY <1>2, RowAtHand DEF SerialInv, Left
<1>4. /\ handler'[h].step = "clear" /\ handler'[h].report = r
      /\ handler'[h].todo = Tail(handler[h].todo)
      /\ present' = [present EXCEPT ![x.session] = "no"]
  BY <1>1, <1>2 DEF Reports!ClearMissing, Frame
<1> HIDE DEF r, x
<1>5. Left(h)' = ToSet(Tail(handler[h].todo)) /\ Rows(h)' = ToSet(r.sessions)
        /\ Rows(h) = ToSet(r.sessions)
  BY <1>4 DEF Left, Rows, r
<1>6. x.session \in Reports!MissingSessions(r) /\ \A y \in Left(h) :
        y.session \in Reports!MissingSessions(r)
  BY <1>1, <1>2, <1>3 DEF Progress, r
<1>7. \A y \in Rows(h) : y.session # x.session /\ y.session \in Sessions
  BY <1>1, <1>5, <1>6, RowsTell DEF Row
<1>8. \A s \in Sessions : s # x.session => present'[s] = present[s]
  BY <1>1, <1>4
<1>9. present'[x.session] = "no"
  BY <1>1, <1>3, <1>4
<1>10. ASSUME Reports!CanClearMissing(r)
       PROVE  /\ \A y \in Rows(h)' : present'[y.session] = Presence(y)
              /\ \A s \in Reports!MissingSessions(r) : present'[s] = "yes" =>
                   \E y \in Left(h)' : y.session = s
  <2>1. /\ \A y \in Rows(h) : present[y.session] = Presence(y)
        /\ \A s \in Reports!MissingSessions(r) : present[s] = "yes" =>
             \E y \in Left(h) : y.session = s
    BY <1>1, <1>2, <1>10 DEF Progress, r
  <2>2. \A y \in Rows(h)' : present'[y.session] = Presence(y)
    BY <1>5, <1>7, <1>8, <2>1
  <2>3. ASSUME NEW s \in Reports!MissingSessions(r), present'[s] = "yes"
        PROVE  \E y \in Left(h)' : y.session = s
    <3>1. s # x.session /\ s \in Sessions
      BY <1>9, <2>3 DEF Reports!MissingSessions
    <3>2. PICK y \in Left(h) : y.session = s
      BY <1>8, <2>1, <2>3, <3>1
    <3> QED
      BY <1>3, <1>5, <3>1, <3>2
  <2> QED
    BY <2>2, <2>3
<1>11. \A y \in Left(h)' : y.session \in Reports!MissingSessions(r)
  BY <1>3, <1>5, <1>6
<1> QED
  BY <1>4, <1>10, <1>11 DEF Progress

LEMMA SerialStep ==
    ASSUME Reports!ReportAssumption, Serial, SerialInv, Reports!Next
    PROVE  SerialInv'
<1>1. RepInv' /\ WritesARow'
  BY RepStep DEF SerialInv
<1>2. CASE Outside
  <2>1. UNCHANGED <<handler, present, created>>
    BY <1>2, OutsideTouches DEF Serial
  <2>2. \A h \in Handlers : Progress(h)'
    BY <2>1, ProgressStays DEF SerialInv
  <2> QED
    BY <1>1, <2>1, <2>2 DEF SerialInv
<1>3. CASE Reports!Blocked
  <2>1. UNCHANGED <<handler, present, created>>
    BY <1>3 DEF Reports!Blocked
  <2>2. \A h \in Handlers : Progress(h)'
    BY <2>1, ProgressStays DEF SerialInv
  <2> QED
    BY <1>1, <2>1, <2>2 DEF SerialInv
<1>4. ~\E s \in Sessions : Reports!PersistCreated(s)
  BY DEF Reports!PersistCreated, SerialInv
<1>5. ASSUME NEW h \in Handlers,
             \/ Reports!Record(h) \/ Reports!FindHostSession(h) \/ Reports!Upsert(h)
             \/ Reports!FindMissing(h) \/ Reports!ClearMissing(h) \/ Reports!RecordEnds(h)
      PROVE  SerialInv'
  <2>1. Progress(h)'
    BY <1>5, ProgressRecords, ProgressLooks, ProgressUpserts, ProgressMisses, ProgressClears
  <2>2. created' = created
    BY <1>5, RepWords DEF Reports!Record, Reports!FindHostSession, Reports!Upsert,
       Reports!FindMissing, Reports!ClearMissing, Reports!RecordEnds
  <2>3. \A g \in Handlers : g = h
    BY DEF Serial
  <2> QED
    BY <1>1, <2>1, <2>2, <2>3 DEF SerialInv
<1> QED
  BY <1>2, <1>3, <1>4, <1>5, NextIs DEF Works

\* A row loses its presence only to a full report that knows better.
LEMMA PresenceStep ==
    ASSUME Reports!ReportAssumption, Serial, SerialInv, Reports!Next
    PROVE  Reports!KeepsPresence
<1> SUFFICES ASSUME NEW s \in Sessions, present[s] = "yes", present'[s] # "yes"
             PROVE  \E h \in Handlers :
                      /\ handler'[h] # handler[h] /\ Reports!CanUseAbsence(handler[h].report)
                      /\ s \in handler[h].report.absent
  BY DEF Reports!KeepsPresence
<1>1. ~Outside
  BY OutsideTouches
<1>2. ~Reports!Blocked /\ ~\E t \in Sessions : Reports!PersistCreated(t)
  BY DEF Reports!Blocked, Reports!PersistCreated, SerialInv
<1>3. PICK h \in Handlers : Reports!Upsert(h) \/ Reports!ClearMissing(h)
  <2>1. \A h \in Handlers : ~Reports!Record(h) /\ ~Reports!FindHostSession(h)
          /\ ~Reports!FindMissing(h) /\ ~Reports!RecordEnds(h)
    BY RepWords DEF Reports!Record, Reports!FindHostSession, Reports!FindMissing,
       Reports!RecordEnds
  <2> QED
    BY <1>1, <1>2, <2>1, NextIs DEF Works
<1> DEFINE x == Head(handler[h].todo)
           r == handler[h].report
<1>4. /\ handler[h] \in Frame /\ handler \in [Handlers -> Frame] /\ Progress(h)
      /\ r \in Reports!Report /\ Tells(r) /\ present \in [Sessions -> {"none", "no", "yes"}]
  BY HandlerType DEF SerialInv
<1>5. handler[h].todo # <<>> /\ handler[h].todo \in Seq(Row)
  BY <1>3, HandlerType DEF Reports!Upsert, Reports!ClearMissing, SerialInv, WritesARow
<1>6. /\ x \in Row /\ x.session \in Sessions /\ x.present \in BOOLEAN
      /\ Left(h) = {x} \cup ToSet(Tail(handler[h].todo))
  BY <1>5, RowAtHand DEF SerialInv, Left
<1>7. handler'[h] # handler[h]
  <2>1. handler'[h].todo = Tail(handler[h].todo)
    BY <1>3, <1>4 DEF Reports!Upsert, Reports!ClearMissing, Frame
  <2>2. Tail(handler[h].todo) # handler[h].todo
    <3> DEFINE q == handler[h].todo
    <3>1. q \in Seq(Row) /\ q # <<>>
      BY <1>5
    <3> HIDE DEF q
    <3>2. Len(Tail(q)) = Len(q) - 1 /\ Len(q) \in Nat
      BY <3>1, HeadTailProperties
    <3>3. Tail(q) # q
      BY <3>2
    <3> QED
      BY <3>3 DEF q
  <2> QED
    BY <2>1, <2>2
<1>8. CASE Reports!Upsert(h)
  <2>1. present' = [present EXCEPT ![x.session] =
          Reports!AppServerPresent(r, x, handler[h].previous)]
    BY <1>8 DEF Reports!Upsert
  <2>2. s = x.session /\ Reports!AppServerPresent(r, x, handler[h].previous) # "yes"
    BY <1>4, <1>6, <2>1
  <2>3. handler[h].step = "write" /\ handler[h].previous = "yes"
    BY <1>4, <1>8, <2>2 DEF Reports!Upsert, Progress
  <2>4. Reports!CanUseAbsence(r) /\ ~x.present
    BY <2>2, <2>3 DEF Reports!AppServerPresent
  <2>5. x \in ToSet(r.sessions)
    BY <1>4, <1>6, <2>3 DEF Progress, Rows
  <2>6. x.present = (x.session \notin r.absent)
    BY <1>4, <2>4, <2>5, RowsTell
  <2> QED
    BY <1>7, <2>2, <2>4, <2>6
<1>9. CASE Reports!ClearMissing(h)
  <2>1. present' = [present EXCEPT ![x.session] = "no"] /\ handler[h].step = "clear"
    BY <1>9 DEF Reports!ClearMissing
  <2>2. s = x.session
    BY <1>4, <1>6, <2>1
  <2>3. s \in Reports!MissingSessions(r)
    BY <1>4, <1>6, <2>1, <2>2 DEF Progress
  <2>4. Reports!CanUseAbsence(r) /\ \A y \in ToSet(r.sessions) : y.session # s
    BY <1>4, <2>3, RowsTell DEF Reports!CanClearMissing
  <2>5. s \in r.absent
    BY <1>4, <2>4, RowsTell
  <2> QED
    BY <1>7, <2>4, <2>5
<1> QED
  BY <1>3, <1>8, <1>9

LEMMA SerialSettles == ASSUME SerialInv PROVE Reports!FullReportSettles
<1> SUFFICES ASSUME NEW h \in Handlers, Reports!Recorded(h),
               Reports!CanClearMissing(handler[h].report), NEW s \in Sessions
             PROVE  present[s] = "yes" <=> s \notin handler[h].report.absent
  BY DEF Reports!FullReportSettles
<1> DEFINE r == handler[h].report
<1>1. /\ Progress(h) /\ r \in Reports!Report /\ Tells(r) /\ handler[h].step = "clear"
           /\ handler[h].todo = <<>>
      /\ Reports!CanUseAbsence(r)
  BY HandlerType DEF SerialInv, Reports!Recorded, Reports!CanClearMissing
<1>2. Left(h) = {}
  BY <1>1 DEF Left, ToSet
<1>3. /\ \A x \in ToSet(r.sessions) : present[x.session] = Presence(x)
      /\ \A t \in Reports!MissingSessions(r) : present[t] # "yes"
  BY <1>1, <1>2 DEF Progress, Rows
<1> HIDE DEF r
<1>4. /\ \A x \in ToSet(r.sessions) : x.present = (x.session \notin r.absent)
      /\ \A t \in Sessions \ r.absent : \E x \in ToSet(r.sessions) : x.session = t /\ x.present
      /\ s \in Reports!MissingSessions(r) <=>
           Reports!CanClearMissing(r) /\ s \in Sessions /\ \A x \in ToSet(r.sessions) :
             x.session # s
  BY <1>1, RowsTell
<1>5. ASSUME s \notin r.absent PROVE present[s] = "yes"
  BY <1>3, <1>4, <1>5 DEF Presence
<1>6. ASSUME present[s] = "yes" PROVE s \notin r.absent
  <2>1. PICK x \in ToSet(r.sessions) : x.session = s
    BY <1>3, <1>4, <1>6 DEF r
  <2>2. Presence(x) = "yes"
    BY <1>3, <1>6, <2>1
  <2>3. x.present
    BY <2>2 DEF Presence
  <2> QED
    BY <1>4, <2>1, <2>3
<1> QED
  BY <1>5, <1>6 DEF r

LEMMA SerialBegins ==
    ASSUME Reports!ReportAssumption, Serial, Reports!Init PROVE SerialInv
BY RepStart, QuietIsFrame, ProgressStart DEF SerialInv, WritesARow, Reports!Init, Reports!Quiet

LEMMA SerialGoesOn ==
    ASSUME Reports!ReportAssumption, Serial, SerialInv, [Reports!Next]_(Reports!vars)
    PROVE  SerialInv'
<1>1. ASSUME UNCHANGED Reports!vars PROVE SerialInv'
  <2>1. RepInv' /\ WritesARow'
    BY <1>1, RepStutters DEF SerialInv
  <2>2. UNCHANGED <<handler, present, created>>
    BY <1>1 DEF Reports!vars
  <2>3. \A h \in Handlers : Progress(h)'
    BY <2>2, ProgressStays DEF SerialInv
  <2> QED
    BY <2>1, <2>2, <2>3 DEF SerialInv
<1> QED
  BY <1>1, SerialStep

LEMMA SerialHolds ==
    ASSUME Reports!ReportAssumption, Serial
    PROVE  Reports!Spec => []SerialInv
<1>1. Reports!Init => SerialInv
  BY SerialBegins
<1>2. SerialInv /\ [Reports!Next]_(Reports!vars) => SerialInv'
  BY SerialGoesOn
<1> QED
  BY <1>1, <1>2, PTL DEF Reports!Spec

(* When reports are recorded one after the other and nothing is created for *)
(* the browser, the rows marked present after a full report that was not    *)
(* too long are exactly the sessions the app-server had when it was made    *)
(* (upsertHostSessions, row by row, then the missing ones).                 *)
THEOREM FullReportsSettle ==
    ASSUME Reports!ReportAssumption, Serial
    PROVE  Reports!Spec => []Reports!FullReportSettles
<1>1. SerialInv => Reports!FullReportSettles
  BY SerialSettles
<1> QED
  BY <1>1, SerialHolds, PTL

(* And a row loses its presence only in the recording of a full report with *)
(* a successful list, whose app-server had no such session: a failed list   *)
(* or a truncated report clears nothing.                                    *)
THEOREM OnlyAbsenceClears ==
    ASSUME Reports!ReportAssumption, Serial
    PROVE  Reports!Spec => Reports!PresenceIsKept
<1>1. SerialInv /\ [Reports!Next]_(Reports!vars) => [Reports!KeepsPresence]_(Reports!vars)
  BY PresenceStep
<1> QED
  BY <1>1, SerialHolds, PTL DEF Reports!Spec, Reports!PresenceIsKept

-----------------------------------------------------------------------------
(* The history of a session, imported into its thread: any sessions, limits *)
(* of what is looked at and brought, writes of Codex and attachments.       *)

CONSTANTS Dated, FileScan, LineScan, HistoryScan, Limit, MaxAttaches
VARIABLES files, path, events, clipped, there, thread, told, attaches

Import == INSTANCE HostSessionBackfill WITH truncated <- clipped

\* What the instance calls the same.
LEMMA ImpWords ==
    /\ \A s, S : Import!Only(s, S) = Only(s, S)
    /\ \A s : Import!ToSet(s) = ToSet(s) /\ Import!Last(s) = Last(s)
    /\ \A s, e : Import!Contains(s, e) <=> Contains(s, e)
    /\ \A S : Import!Max(S) = Max(S) /\ Import!Cardinality(S) = Cardinality(S)
<1>1. \A s, S : Import!Only(s, S) = Only(s, S)
  BY Zenon DEF Import!Only, Only
<1>2. \A s : Import!ToSet(s) = ToSet(s) /\ Import!Last(s) = Last(s)
  BY DEF Import!ToSet, ToSet, Import!Last, Last
<1>3. \A s, e : Import!Contains(s, e) <=> Contains(s, e)
  BY DEF Import!Contains, Contains
<1>4. \A S : Import!Max(S) = Max(S)
  BY Zenon DEF Import!Max, Max
<1>5. \A S : Import!Cardinality(S) = Cardinality(S)
  BY Zenon DEF Import!IsFiniteSet, IsFiniteSet, Import!Cardinality, Cardinality
<1> QED
  BY <1>1, <1>2, <1>3, <1>4, <1>5

\* And it keeps their order.
LEMMA OnlyInOrder ==
    ASSUME NEW T, NEW s \in Seq(T), NEW S
    PROVE  /\ DOMAIN Only(s, S) = 1 .. Len(Only(s, S)) /\ Len(Only(s, S)) \in Nat
           /\ \A i, j \in DOMAIN Only(s, S) : i < j =>
                \E a, b \in DOMAIN s : a < b /\ Only(s, S)[i] = s[a] /\ Only(s, S)[j] = s[b]
<1> DEFINE n == Len(s)
           f == CHOOSE h : Keeping(s, S, n, h)
           From(q, k) == \A i \in DOMAIN q : \E a \in 1 .. k : q[i] = s[a]
           InRow(q, k) == \A i, j \in DOMAIN q : i < j =>
                          \E a, b \in 1 .. k : a < b /\ q[i] = s[a] /\ q[j] = s[b]
           Mine(k) == f[k] \in Seq(T) /\ From(f[k], k) /\ InRow(f[k], k)
<1>1. n \in Nat /\ DOMAIN s = 1 .. n /\ \A j \in 1 .. n : s[j] \in T
  OBVIOUS
<1>2. Keeping(s, S, n, f)
  BY <1>1, SomethingKeeps
<1>3. Only(s, S) = f[n]
  BY DEF Only, Keeping, KeptOf
<1> HIDE DEF n, f
<1>4. \A i \in 0 .. n : f[i] = KeptOf(s, S, f, i)
  BY <1>2 DEF Keeping
<1>5. \A k \in 0 .. n : Mine(k)
  <2> DEFINE Bad == {k \in 0 .. n : ~Mine(k)}
  <2> SUFFICES ASSUME Bad # {} PROVE FALSE
    OBVIOUS
  <2>1. PICK m \in Bad : \A y \in Bad : m <= y
    <3>1. Bad \in SUBSET Nat
      OBVIOUS
    <3> HIDE DEF Bad
    <3> QED
      BY <3>1, LeastOf
  <2>2. CASE m = 0
    <3>1. f[0] = <<>>
      BY <1>1, <1>4 DEF KeptOf
    <3>2. Mine(0)
      BY <3>1
    <3> QED
      BY <2>1, <2>2, <3>2
  <2>3. CASE m # 0
    <3>1. m \in 1 .. n /\ m - 1 \in 0 .. n /\ m - 1 \notin Bad
      <4>1. m \in 0 .. n /\ ~(m <= m - 1)
        BY <1>1, <2>1
      <4>2. m - 1 \notin Bad
        BY <2>1, <4>1
      <4> HIDE DEF Bad
      <4> QED
        BY <1>1, <2>3, <4>1, <4>2
    <3> DEFINE g == f[m - 1]
    <3>2. g \in Seq(T) /\ From(g, m - 1) /\ InRow(g, m - 1)
      BY <3>1
    <3>3. f[m] = IF s[m] \in S THEN Append(g, s[m]) ELSE g
      BY <1>4, <3>1 DEF KeptOf
    <3> HIDE DEF g
    <3>4. \A a \in 1 .. m - 1 : a \in 1 .. m /\ a < m
      BY <3>1
    <3>5. From(g, m) /\ InRow(g, m)
      BY <3>2, <3>4
    <3>6. CASE s[m] \notin S
      <4>1. f[m] = g
        BY <3>3, <3>6
      <4>2. Mine(m)
        BY <3>2, <3>5, <4>1
      <4> QED
        BY <2>1, <4>2
    <3>7. CASE s[m] \in S
      <4> DEFINE q == Append(g, s[m])
      <4>1. f[m] = q
        BY <3>3, <3>7
      <4>2. s[m] \in T
        BY <1>1, <3>1
      <4>3. /\ q \in Seq(T) /\ Len(g) \in Nat
            /\ \A i \in 1 .. Len(g) : q[i] = g[i]
            /\ q[Len(g) + 1] = s[m]
            /\ DOMAIN q = 1 .. Len(g) + 1 /\ DOMAIN g = 1 .. Len(g)
        BY <3>2, <4>2, AppendProperties
      <4> HIDE DEF q
      <4>4. \A i \in DOMAIN q : \/ i \in DOMAIN g /\ q[i] = g[i]
                                \/ i = Len(g) + 1 /\ q[i] = s[m]
        <5>1. \A i \in 1 .. Len(g) + 1 : i \in 1 .. Len(g) \/ i = Len(g) + 1
          BY <4>3
        <5> QED
          BY <4>3, <5>1
      <4>5. m \in 1 .. m
        BY <3>1
      <4>6. From(q, m)
        BY <3>5, <4>4, <4>5
      <4>7. InRow(q, m)
        <5> SUFFICES ASSUME NEW i \in DOMAIN q, NEW j \in DOMAIN q, i < j
                     PROVE  \E a, b \in 1 .. m : a < b /\ q[i] = s[a] /\ q[j] = s[b]
          OBVIOUS
        <5>1. i \in DOMAIN g /\ q[i] = g[i]
          BY <4>3, <4>4
        <5>2. CASE j \in DOMAIN g /\ q[j] = g[j]
          BY <3>5, <5>1, <5>2
        <5>3. CASE q[j] = s[m]
          <6>1. PICK a \in 1 .. m - 1 : g[i] = s[a]
            BY <3>2, <5>1
          <6> QED
            BY <3>4, <4>5, <5>1, <5>3, <6>1
        <5> QED
          BY <4>4, <5>2, <5>3
      <4>8. Mine(m)
        BY <4>1, <4>3, <4>6, <4>7
      <4> QED
        BY <2>1, <4>8
    <3> QED
      BY <3>6, <3>7
  <2> QED
    BY <2>2, <2>3
<1>6. Mine(n)
  <2>1. n \in 0 .. n
    BY <1>1
  <2> HIDE DEF Mine
  <2> QED
    BY <1>5, <2>1
<1> DEFINE r == f[n]
<1>7. r \in Seq(T) /\ InRow(r, n)
  BY <1>6
<1> HIDE DEF r
<1>8. DOMAIN r = 1 .. Len(r) /\ Len(r) \in Nat
  BY <1>7
<1> QED
  BY <1>1, <1>3, <1>7, <1>8 DEF r

Nums(q) == {q[i].n : i \in DOMAIN q}
Ascends(q) == \A i, j \in DOMAIN q : i < j => q[i].n < q[j].n
Ev(f, n) == [source |-> "rollout", file |-> f, n |-> n]

\* The numbers of the whole lines of a file; of those that are to be imported;
\* of these among the lines that are looked at; and of those that would be
\* brought, if the file were read now.
Imports(line) == line.whole /\ line.kind = "item"
WholeOf(lines) == {lines[i].n : i \in {j \in DOMAIN lines : lines[j].whole}}
ItemsOf(lines) == {lines[i].n : i \in {j \in DOMAIN lines : Imports(lines[j])}}
ScannedOf(lines) ==
  {lines[i].n : i \in {j \in DOMAIN lines : j > Len(lines) - LineScan /\ Imports(lines[j])}}
Latest(N) == {n \in N : Cardinality({m \in N : m > n}) < Limit}
SelectedOf(lines) == Latest(ScannedOf(lines))

\* The last n elements of k begin here.
StartOf(k, n) == IF k <= n THEN 1 ELSE k - n + 1

LEMMA RecentIs ==
    ASSUME NEW T, NEW lines \in Seq(T), NEW n \in Nat \ {0}
    PROVE  /\ StartOf(Len(lines), n) \in Nat \ {0} /\ StartOf(Len(lines), n) <= Len(lines) + 1
           /\ Import!Recent(lines, n) \in Seq(T)
           /\ Len(Import!Recent(lines, n)) = Len(lines) - StartOf(Len(lines), n) + 1
           /\ DOMAIN Import!Recent(lines, n) = 1 .. Len(lines) - StartOf(Len(lines), n) + 1
           /\ \A i \in 1 .. Len(lines) - StartOf(Len(lines), n) + 1 :
                Import!Recent(lines, n)[i] = lines[StartOf(Len(lines), n) + i - 1]
<1> DEFINE k == Len(lines)
           a == Max({1, k - n + 1})
           r == SubSeq(lines, a, k)
<1>1. k \in Nat /\ DOMAIN lines = 1 .. k /\ \A i \in 1 .. k : lines[i] \in T
  OBVIOUS
<1>2. a = IF k <= n THEN 1 ELSE k - n + 1
  <2> DEFINE two == {1, k - n + 1}
             high == IF k <= n THEN 1 ELSE k - n + 1
  <2>1. high \in two /\ \A y \in two : high >= y
    BY <1>1
  <2>2. a = CHOOSE x \in two : \A y \in two : x >= y
    BY DEF Max
  <2>3. \A x \in two : (\A y \in two : x >= y) => x = high
    BY <1>1
  <2> HIDE DEF two, high, a
  <2>4. a = high
    BY <2>1, <2>2, <2>3
  <2> QED
    BY <2>4 DEF high
<1>3. r = Import!Recent(lines, n)
  BY ImpWords DEF Import!Recent
<1> HIDE DEF k, a
<1>4. a \in Nat \ {0} /\ a <= k + 1
  BY <1>1, <1>2
<1>5. \A i \in a .. k : i \in 1 .. k /\ lines[i] \in T
  BY <1>1, <1>4
<1>6. /\ r \in Seq(T) /\ Len(r) = IF a <= k THEN k - a + 1 ELSE 0
      /\ \A i \in 1 .. k - a + 1 : r[i] = lines[a + i - 1]
  BY <1>1, <1>4, <1>5, SubSeqProperties
<1> HIDE DEF r
<1>7. Len(r) = k - a + 1 /\ DOMAIN r = 1 .. k - a + 1
  <2>1. Len(r) = k - a + 1
    BY <1>1, <1>4, <1>6
  <2>2. DOMAIN r = 1 .. Len(r)
    BY <1>6
  <2> QED
    BY <2>1, <2>2
<1>8. a = StartOf(Len(lines), n)
  BY <1>2 DEF StartOf, k
<1> QED
  BY <1>3, <1>4, <1>6, <1>7, <1>8 DEF k

\* The events of lines in order are in order, and are those of the lines that are
\* to be imported.
LEMMA EventsTell ==
    ASSUME NEW lines \in Seq(Import!Line), Ascends(lines), NEW f \in Nat
    PROVE  /\ Import!EventsOf(f, lines) \in Seq(Import!Event)
           /\ Ascends(Import!EventsOf(f, lines)) /\ Nums(Import!EventsOf(f, lines)) = ItemsOf(lines)
           /\ \A i \in DOMAIN Import!EventsOf(f, lines) :
                Import!EventsOf(f, lines)[i] = Ev(f, Import!EventsOf(f, lines)[i].n)
<1> DEFINE mine == Only(lines, Import!BackfillLines(lines))
           q == [i \in DOMAIN mine |-> Ev(f, mine[i].n)]
<1>1. q = Import!EventsOf(f, lines)
  BY ImpWords DEF Import!EventsOf, Ev
<1>2. mine \in Seq(Import!Line) /\ ToSet(mine) = ToSet(lines) \cap Import!BackfillLines(lines)
  BY OnlyThose
<1>3. /\ DOMAIN mine = 1 .. Len(mine) /\ Len(mine) \in Nat
      /\ \A i, j \in DOMAIN mine : i < j =>
           \E a, b \in DOMAIN lines : a < b /\ mine[i] = lines[a] /\ mine[j] = lines[b]
  BY OnlyInOrder
<1> HIDE DEF mine
<1>4. \A i \in DOMAIN mine : mine[i] \in Import!Line /\ mine[i].n \in Nat
  <2>1. \A i \in DOMAIN mine : mine[i] \in Import!Line
    BY <1>2
  <2> QED
    BY <2>1 DEF Import!Line
<1>5. \A i \in DOMAIN mine : q[i] = Ev(f, mine[i].n) /\ q[i].n = mine[i].n /\ q[i] \in Import!Event
  BY <1>4 DEF Ev, Import!Event
<1>6. DOMAIN q = DOMAIN mine
  OBVIOUS
<1> HIDE DEF q
<1>7. q \in Seq(Import!Event)
  <2>1. q = [i \in 1 .. Len(mine) |-> q[i]]
    BY <1>3 DEF q
  <2>2. \A i \in 1 .. Len(mine) : q[i] \in Import!Event
    BY <1>3, <1>5
  <2> QED
    BY <1>3, <2>1, <2>2
<1>8. Ascends(q)
  <2> SUFFICES ASSUME NEW i \in DOMAIN mine, NEW j \in DOMAIN mine, i < j PROVE q[i].n < q[j].n
    BY <1>6 DEF Ascends
  <2>1. PICK a \in DOMAIN lines, b \in DOMAIN lines :
          a < b /\ mine[i] = lines[a] /\ mine[j] = lines[b]
    BY <1>3
  <2>2. lines[a].n < lines[b].n
    BY <2>1 DEF Ascends
  <2> QED
    BY <1>5, <2>1, <2>2
<1>9. Nums(q) = ItemsOf(lines)
  <2>1. \A x : x \in ToSet(mine) <=> \E i \in DOMAIN lines : x = lines[i] /\ Imports(lines[i])
    BY <1>2, ImpWords DEF ToSet, Import!BackfillLines, Imports
  <2>2. \A x : x \in ToSet(mine) <=> \E i \in DOMAIN mine : x = mine[i]
    BY DEF ToSet
  <2>3. \A n : n \in Nums(q) <=> \E i \in DOMAIN mine : n = mine[i].n
    BY <1>5, <1>6 DEF Nums
  <2>4. \A n : n \in ItemsOf(lines) <=> \E i \in DOMAIN lines : n = lines[i].n /\ Imports(lines[i])
    BY DEF ItemsOf
  <2>5. \A n : n \in Nums(q) => n \in ItemsOf(lines)
    <3> SUFFICES ASSUME NEW i \in DOMAIN mine PROVE mine[i].n \in ItemsOf(lines)
      BY <2>3
    <3>1. mine[i] \in ToSet(mine)
      BY <2>2
    <3>2. PICK j \in DOMAIN lines : mine[i] = lines[j] /\ Imports(lines[j])
      BY <2>1, <3>1
    <3> QED
      BY <2>4, <3>2
  <2>6. \A n : n \in ItemsOf(lines) => n \in Nums(q)
    <3> SUFFICES ASSUME NEW j \in DOMAIN lines, Imports(lines[j]) PROVE lines[j].n \in Nums(q)
      BY <2>4
    <3>1. lines[j] \in ToSet(mine)
      BY <2>1
    <3>2. PICK i \in DOMAIN mine : lines[j] = mine[i]
      BY <2>2, <3>1
    <3> QED
      BY <2>3, <3>2
  <2> QED
    BY <2>5, <2>6
<1>10. \A i \in DOMAIN q : q[i] = Ev(f, q[i].n)
  BY <1>5, <1>6
<1> QED
  BY <1>1, <1>7, <1>8, <1>9, <1>10

\* The latest of events in order are in order, and those after which there are
\* fewer than the limit.
LEMMA LatestTell ==
    ASSUME NEW q \in Seq(Import!Event), Ascends(q), Import!BackfillAssumption
    PROVE  /\ Import!LatestEvents(q) \in Seq(Import!Event) /\ Ascends(Import!LatestEvents(q))
           /\ Nums(Import!LatestEvents(q)) = Latest(Nums(q))
           /\ \A i \in DOMAIN Import!LatestEvents(q) :
                \E j \in DOMAIN q : Import!LatestEvents(q)[i] = q[j]
           /\ \A j \in DOMAIN q, i \in DOMAIN Import!LatestEvents(q) :
                q[j] \notin ToSet(Import!LatestEvents(q)) => q[j].n < Import!LatestEvents(q)[i].n
           /\ ~(Len(q) > Limit) => Import!LatestEvents(q) = q
<1> DEFINE r == Import!LatestEvents(q)
           k == Len(q)
           N == Nums(q)
           After(j) == {m \in N : m > q[j].n}
<1>1. k \in Nat /\ DOMAIN q = 1 .. k /\ Limit \in Nat \ {0}
  BY DEF Import!BackfillAssumption
<1>2. \A i \in 1 .. k : q[i] \in Import!Event /\ q[i].n \in Nat
  <2>1. \A i \in 1 .. k : q[i] \in Import!Event
    BY <1>1
  <2> QED
    BY <2>1 DEF Import!Event
<1> DEFINE a == StartOf(k, Limit)
<1>3. /\ a \in Nat \ {0} /\ a = IF k <= Limit THEN 1 ELSE k - Limit + 1
      /\ a <= k + 1
      /\ r \in Seq(Import!Event) /\ Len(r) = k - a + 1 /\ DOMAIN r = 1 .. k - a + 1
      /\ \A i \in 1 .. k - a + 1 : r[i] = q[a + i - 1]
  <2>1. r = Import!Recent(q, Limit)
    BY ImpWords DEF Import!LatestEvents
  <2>2. a = IF k <= Limit THEN 1 ELSE k - Limit + 1
    BY DEF StartOf
  <2> HIDE DEF r, a
  <2> QED
    BY <1>1, <2>1, <2>2, RecentIs DEF a
<1> HIDE DEF k, r, a
<1>4. \A i, j \in 1 .. k : i < j => q[i].n < q[j].n
  BY <1>1 DEF Ascends
<1>5. \A i \in DOMAIN r : a + i - 1 \in 1 .. k /\ a + i - 1 >= a /\ r[i] = q[a + i - 1]
  BY <1>1, <1>3
<1>6. \A j \in 1 .. k : j >= a => j - a + 1 \in DOMAIN r /\ r[j - a + 1] = q[j]
  <2> SUFFICES ASSUME NEW j \in 1 .. k, j >= a PROVE j - a + 1 \in DOMAIN r /\ r[j - a + 1] = q[j]
    OBVIOUS
  <2>1. j - a + 1 \in 1 .. k - a + 1 /\ a + (j - a + 1) - 1 = j
    BY <1>1, <1>3
  <2> QED
    BY <1>3, <2>1
<1>7. Ascends(r)
  <2> SUFFICES ASSUME NEW i \in DOMAIN r, NEW j \in DOMAIN r, i < j PROVE r[i].n < r[j].n
    BY DEF Ascends
  <2>1. i \in Nat /\ j \in Nat /\ a + i - 1 < a + j - 1
    BY <1>3
  <2> QED
    BY <1>4, <1>5, <2>1
<1>8. \A j \in 1 .. k : IsFiniteSet(After(j)) /\ Cardinality(After(j)) = k - j
  <2> SUFFICES ASSUME NEW j \in 1 .. k PROVE IsFiniteSet(After(j)) /\ Cardinality(After(j)) = k - j
    OBVIOUS
  <2> DEFINE D == j + 1 .. k
             g == [i \in D |-> q[i].n]
  <2>1. IsFiniteSet(D) /\ Cardinality(D) = k - j
    BY <1>1, FS_Interval
  <2>2. \A i \in D : i \in 1 .. k /\ i > j
    BY <1>1
  <2>3. \A i \in D : q[i].n \in After(j)
    <3> SUFFICES ASSUME NEW i \in D PROVE q[i].n \in After(j)
      OBVIOUS
    <3>1. q[i].n > q[j].n
      BY <1>2, <1>4, <2>2
    <3>2. q[i].n \in N
      BY <1>1, <2>2 DEF Nums
    <3> QED
      BY <3>1, <3>2
  <2>4. \A m \in After(j) : \E i \in D : q[i].n = m
    <3> SUFFICES ASSUME NEW m \in N, m > q[j].n PROVE \E i \in D : q[i].n = m
      OBVIOUS
    <3>1. PICK i \in 1 .. k : q[i].n = m
      BY <1>1 DEF Nums
    <3>2. i > j
      <4>1. ~(i < j) /\ i # j
        BY <1>2, <1>4, <3>1
      <4> QED
        BY <1>1, <4>1
    <3>3. i \in D
      BY <1>1, <3>2
    <3> QED
      BY <3>1, <3>3
  <2>5. \A x, y \in D : x # y => q[x].n # q[y].n
    <3> SUFFICES ASSUME NEW x \in D, NEW y \in D, x # y PROVE q[x].n # q[y].n
      OBVIOUS
    <3>1. x \in 1 .. k /\ y \in 1 .. k /\ (x < y \/ y < x)
      BY <1>1, <2>2
    <3> QED
      BY <1>2, <1>4, <3>1
  <2> HIDE DEF D, After
  <2>6. g \in [D -> After(j)]
    BY <2>3
  <2>7. \A x, y \in D : g[x] = g[y] => x = y
    BY <2>5
  <2>8. \A m \in After(j) : \E i \in D : g[i] = m
    BY <2>4
  <2> HIDE DEF g
  <2>9. g \in Bijection(D, After(j))
    <3>1. g \in Injection(D, After(j))
      BY <2>6, <2>7 DEF Injection, IsInjective
    <3>2. g \in Surjection(D, After(j))
      BY <2>6, <2>8 DEF Surjection
    <3> QED
      BY <3>1, <3>2 DEF Bijection
  <2>10. ExistsBijection(D, After(j))
    BY <2>9 DEF ExistsBijection
  <2> QED
    BY <2>1, <2>10, FS_Bijection
<1>9. \A j \in 1 .. k : q[j].n \in Latest(N) <=> j >= a
  <2> SUFFICES ASSUME NEW j \in 1 .. k PROVE q[j].n \in Latest(N) <=> j >= a
    OBVIOUS
  <2>1. q[j].n \in N
    BY <1>1 DEF Nums
  <2>2. q[j].n \in Latest(N) <=> Cardinality(After(j)) < Limit
    BY <2>1 DEF Latest
  <2>3. Cardinality(After(j)) < Limit <=> k - j < Limit
    BY <1>8
  <2>4. k - j < Limit <=> j >= a
    BY <1>1, <1>3
  <2> QED
    BY <2>2, <2>3, <2>4
<1>10. Nums(r) = Latest(N)
  <2>1. \A n \in Nums(r) : n \in Latest(N)
    <3> SUFFICES ASSUME NEW i \in DOMAIN r PROVE r[i].n \in Latest(N)
      BY DEF Nums
    <3> QED
      BY <1>5, <1>9
  <2>2. \A n \in Latest(N) : n \in Nums(r)
    <3> SUFFICES ASSUME NEW n \in Latest(N) PROVE n \in Nums(r)
      OBVIOUS
    <3>1. PICK j \in 1 .. k : n = q[j].n
      BY <1>1 DEF Nums, Latest
    <3>2. j >= a
      BY <1>9, <3>1
    <3> QED
      BY <1>6, <3>1, <3>2 DEF Nums
  <2> QED
    BY <2>1, <2>2
<1>11. \A i \in DOMAIN r : \E j \in DOMAIN q : r[i] = q[j]
  BY <1>1, <1>5
<1>12. ASSUME NEW j \in DOMAIN q, NEW i \in DOMAIN r, q[j] \notin ToSet(r)
       PROVE  q[j].n < r[i].n
  <2>1. ~(j >= a)
    BY <1>1, <1>6, <1>12 DEF ToSet
  <2>2. j < a + i - 1 /\ j \in 1 .. k
    BY <1>1, <1>3, <1>5, <2>1
  <2> QED
    BY <1>4, <1>5, <2>2
<1>13. ~(k > Limit) => r = q
  <2> SUFFICES ASSUME ~(k > Limit) PROVE r = q
    OBVIOUS
  <2>1. a = 1
    BY <1>1, <1>3
  <2>2. DOMAIN r = DOMAIN q /\ \A i \in DOMAIN q : r[i] = q[i]
    BY <1>1, <1>3, <2>1
  <2>3. r \in Seq(Import!Event) /\ q \in Seq(Import!Event) /\ Len(r) = Len(q)
    BY <1>1, <1>3, <2>1 DEF k
  <2> QED
    BY <2>2, <2>3, SeqEqual
<1> QED
  BY <1>3, <1>7, <1>10, <1>11, <1>12, <1>13 DEF r, k

\* The lines that are looked at.
LEMMA WindowTells ==
    ASSUME NEW lines \in Seq(Import!Line), Ascends(lines), Import!BackfillAssumption
    PROVE  /\ Import!Recent(lines, LineScan) \in Seq(Import!Line)
           /\ Ascends(Import!Recent(lines, LineScan))
           /\ ItemsOf(Import!Recent(lines, LineScan)) = ScannedOf(lines)
           /\ Len(Import!Recent(lines, LineScan)) # LineScan => ScannedOf(lines) = ItemsOf(lines)
<1> DEFINE w == Import!Recent(lines, LineScan)
           k == Len(lines)
           a == StartOf(k, LineScan)
<1>1. k \in Nat /\ DOMAIN lines = 1 .. k /\ LineScan \in Nat \ {0}
  BY DEF Import!BackfillAssumption
<1>2. /\ a \in Nat \ {0} /\ a = IF k <= LineScan THEN 1 ELSE k - LineScan + 1
      /\ a <= k + 1
      /\ w \in Seq(Import!Line) /\ Len(w) = k - a + 1 /\ DOMAIN w = 1 .. k - a + 1
      /\ \A i \in 1 .. k - a + 1 : w[i] = lines[a + i - 1]
  <2>1. a = IF k <= LineScan THEN 1 ELSE k - LineScan + 1
    BY DEF StartOf
  <2> HIDE DEF a
  <2> QED
    BY <1>1, <2>1, RecentIs DEF a
<1> HIDE DEF k, w, a
<1>3. \A i \in DOMAIN w :
        a + i - 1 \in 1 .. k /\ a + i - 1 > k - LineScan /\ w[i] = lines[a + i - 1]
  BY <1>1, <1>2
<1>4. \A j \in 1 .. k : j > k - LineScan => j - a + 1 \in DOMAIN w /\ w[j - a + 1] = lines[j]
  <2> SUFFICES ASSUME NEW j \in 1 .. k, j > k - LineScan
               PROVE  j - a + 1 \in DOMAIN w /\ w[j - a + 1] = lines[j]
    OBVIOUS
  <2>1. j >= a
    BY <1>1, <1>2
  <2>2. j - a + 1 \in 1 .. k - a + 1 /\ a + (j - a + 1) - 1 = j
    BY <1>1, <1>2, <2>1
  <2> QED
    BY <1>2, <2>2
<1>5. Ascends(w)
  <2> SUFFICES ASSUME NEW i \in DOMAIN w, NEW j \in DOMAIN w, i < j PROVE w[i].n < w[j].n
    BY DEF Ascends
  <2>1. i \in Nat /\ j \in Nat /\ a + i - 1 < a + j - 1
    BY <1>1, <1>2
  <2> QED
    BY <1>1, <1>3, <2>1 DEF Ascends
<1>6. ItemsOf(w) = ScannedOf(lines)
  <2>1. \A n \in ItemsOf(w) : n \in ScannedOf(lines)
    <3> SUFFICES ASSUME NEW i \in DOMAIN w, Imports(w[i]) PROVE w[i].n \in ScannedOf(lines)
      BY DEF ItemsOf
    <3> QED
      BY <1>1, <1>3 DEF ScannedOf, k
  <2>2. \A n \in ScannedOf(lines) : n \in ItemsOf(w)
    <3> SUFFICES ASSUME NEW j \in 1 .. k, j > k - LineScan, Imports(lines[j])
                 PROVE  lines[j].n \in ItemsOf(w)
      BY <1>1 DEF ScannedOf, k
    <3> QED
      BY <1>4 DEF ItemsOf
  <2> QED
    BY <2>1, <2>2
<1>7. ASSUME Len(w) # LineScan PROVE ScannedOf(lines) = ItemsOf(lines)
  <2>1. k - LineScan < 1
    BY <1>1, <1>2, <1>7
  <2>2. \A j \in 1 .. k : j > k - LineScan
    BY <1>1, <2>1
  <2> QED
    BY <1>1, <2>2 DEF ScannedOf, ItemsOf, k
<1> QED
  BY <1>2, <1>5, <1>6, <1>7 DEF w, k

\* The lines of a file stay, but for the last, which may be finished.
GrewTo(a, b) ==
  /\ Len(a) <= Len(b)
  /\ \A i \in DOMAIN a :
       /\ b[i].n = a[i].n /\ (a[i].whole => b[i] = a[i])
       /\ b[i] # a[i] => i = Len(a)

\* What would be brought of a file that has grown would have been brought before,
\* or comes after all that was.
LEMMA SelectedGrow ==
    ASSUME NEW a \in Seq(Import!Line), NEW b \in Seq(Import!Line), Ascends(a), Ascends(b),
           GrewTo(a, b),
           NEW n \in SelectedOf(b), Import!BackfillAssumption
    PROVE  n \in SelectedOf(a) \/ \A m \in WholeOf(a) : m < n
<1> DEFINE k == Len(a)
           l == Len(b)
           A == ScannedOf(a)
           B == ScannedOf(b)
<1>1. /\ k \in Nat /\ DOMAIN a = 1 .. k /\ l \in Nat /\ DOMAIN b = 1 .. l /\ k <= l
      /\ LineScan \in Nat /\ Limit \in Nat
  BY DEF GrewTo, Import!BackfillAssumption
<1>2. /\ \A i \in 1 .. k : a[i].n \in Nat
      /\ \A i \in 1 .. l : b[i].n \in Nat
  <2>1. (\A i \in 1 .. k : a[i] \in Import!Line) /\ (\A i \in 1 .. l : b[i] \in Import!Line)
    BY <1>1
  <2> QED
    BY <2>1 DEF Import!Line
<1>3. PICK i \in 1 .. l : n = b[i].n /\ i > l - LineScan /\ Imports(b[i])
  BY <1>1 DEF SelectedOf, Latest, ScannedOf
<1>4. n \in B /\ Cardinality({m \in B : m > n}) < Limit
  BY DEF SelectedOf, Latest
<1> HIDE DEF k, l
<1>5. CASE i \in 1 .. k /\ b[i] = a[i]
  <2>1. n \in A
    BY <1>1, <1>3, <1>5 DEF ScannedOf, k
  <2>2. {m \in A : m > n} \subseteq {m \in B : m > n}
    <3> SUFFICES ASSUME NEW m \in A, m > n PROVE m \in B
      OBVIOUS
    <3>1. PICK j \in 1 .. k : m = a[j].n /\ Imports(a[j])
      BY <1>1 DEF ScannedOf
    <3>2. b[j] = a[j]
      BY <1>1, <3>1 DEF GrewTo, Imports
    <3>3. j > i
      <4>1. a[j].n > a[i].n /\ a[j].n \in Nat /\ a[i].n \in Nat
        BY <1>2, <1>3, <1>5, <3>1
      <4>2. j < i => a[j].n < a[i].n
        BY <1>1, <1>5 DEF Ascends
      <4> QED
        BY <1>1, <1>5, <4>1, <4>2
    <3>4. j \in 1 .. l /\ j > l - LineScan
      BY <1>1, <1>3, <3>3
    <3> QED
      BY <1>1, <3>1, <3>2, <3>4 DEF ScannedOf, l
  <2>3. IsFiniteSet({m \in B : m > n})
    <3> DEFINE D == {j \in 1 .. l : j > l - LineScan /\ Imports(b[j])}
    <3>1. IsFiniteSet(1 .. l)
      BY <1>1, FS_Interval
    <3>2. IsFiniteSet(D)
      BY <3>1, FS_Subset
    <3> HIDE DEF D
    <3>3. \A m : m \in B <=> \E j \in D : m = b[j].n
      BY <1>1 DEF ScannedOf, D, l
    <3> DEFINE g == [j \in D |-> b[j].n]
    <3>4. g \in Surjection(D, B)
      <4>1. g \in [D -> B] /\ \A m \in B : \E j \in D : g[j] = m
        BY <3>3
      <4> HIDE DEF g
      <4> QED
        BY <4>1 DEF Surjection
    <3>5. IsFiniteSet(B)
      BY <3>2, <3>4, FS_Surjection
    <3> QED
      BY <3>5, FS_Subset
  <2>4. /\ Cardinality({m \in A : m > n}) <= Cardinality({m \in B : m > n})
        /\ IsFiniteSet({m \in A : m > n})
    BY <2>2, <2>3, FS_Subset
  <2>5. Cardinality({m \in A : m > n}) \in Nat /\ Cardinality({m \in B : m > n}) \in Nat
    BY <2>3, <2>4, FS_CardinalityType
  <2>6. Cardinality({m \in A : m > n}) < Limit
    BY <1>1, <1>4, <2>4, <2>5
  <2> QED
    BY <2>1, <2>6 DEF SelectedOf, Latest
<1>6. CASE ~(i \in 1 .. k /\ b[i] = a[i])
  <2> SUFFICES ASSUME NEW j \in 1 .. k, a[j].whole PROVE a[j].n < n
    BY <1>1 DEF WholeOf
  <2>1. b[j] = a[j]
    BY <1>1 DEF GrewTo
  <2>2. j < i
    <3>1. CASE i \in 1 .. k
      <4>1. i = k /\ j # i
        BY <1>1, <1>6, <2>1, <3>1 DEF GrewTo, k
      <4> QED
        BY <1>1, <4>1
    <3>2. CASE i \notin 1 .. k
      BY <1>1, <3>2
    <3> QED
      BY <3>1, <3>2
  <2>3. b[j].n < b[i].n
    BY <1>1, <2>2 DEF Ascends
  <2> QED
    BY <1>3, <2>1, <2>3
<1> QED
  BY <1>5, <1>6

File == [session : Sessions, day : Nat, mtime : Nat, away : BOOLEAN, lines : Seq(Import!Line)]

\* The lines of a file are numbered as they were written, by the time w.
Numbered(file, w) ==
  /\ file.lines # <<>> /\ Ascends(file.lines) /\ file.mtime <= w
  /\ \A i \in DOMAIN file.lines : file.lines[i].n <= w
FilesAreNumbered == \A f \in DOMAIN files : Numbered(files[f], writes)

Stored == ToSet(thread)
Numbers(f) == WholeOf(files[f].lines)
Selected(f) == SelectedOf(files[f].lines)

\* An event of the thread is a prompt of the history, or a line of a file.
StoredAreThere ==
  \A e \in Stored : e.file # 0 =>
    e.file \in DOMAIN files /\ e = Ev(e.file, e.n) /\ e.n \in Numbers(e.file)

\* What an import would bring and is older than what is stored, is stored.
NoHoles ==
  \A e \in Stored, f \in DOMAIN files : e.file = f =>
    \A n \in Selected(f) : n < e.n => Ev(f, n) \in Stored

\* The events to import are in order, none of them belongs before what is stored,
\* and nothing else is to be imported before one of them.
EventsFit ==
  /\ \A i \in DOMAIN events : events[i] = Ev(path, events[i].n) /\ events[i].n \in Numbers(path)
  /\ Ascends(events)
  /\ \A i \in DOMAIN events : events[i] \notin Stored =>
       \A e \in Stored : e.file = path => e.n < events[i].n
  /\ \A i \in DOMAIN events : \A n \in Selected(path) : n < events[i].n =>
       Ev(path, n) \in Stored \/ \E j \in DOMAIN events : j < i /\ events[j].n = n
ImportFits ==
  /\ pc = "import" /\ path # 0 => EventsFit
  /\ pc = "import" /\ path = 0 => \A i \in DOMAIN events : events[i].file = 0

\* An import that is not truncated has all of the file.
AllIsImported ==
  pc = "import" /\ path # 0 /\ ~clipped => there \subseteq ToSet(events) \cup Stored

HistoryInv ==
  /\ Import!TypeOK /\ FilesAreNumbered /\ StoredAreThere /\ NoHoles /\ ImportFits /\ AllIsImported
  /\ Import!InOrder /\ Import!NoSilentGap /\ Import!OldestAreLeftOut

LEMMA FilesTyped ==
    ASSUME Import!TypeOK
    PROVE  /\ files \in Seq(File) /\ Len(files) \in Nat /\ DOMAIN files = 1 .. Len(files)
           /\ \A f \in DOMAIN files :
                /\ files[f] \in File /\ files[f].lines \in Seq(Import!Line)
                /\ files[f].mtime \in Nat
                /\ files[f].session \in Sessions
                /\ Len(files[f].lines) \in Nat
                /\ DOMAIN files[f].lines = 1 .. Len(files[f].lines)
                /\ \A i \in DOMAIN files[f].lines :
                     files[f].lines[i] \in Import!Line /\ files[f].lines[i].n \in Nat
<1>1. files \in Seq(File)
  BY DEF Import!TypeOK, File
<1>2. Len(files) \in Nat /\ DOMAIN files = 1 .. Len(files)
  BY <1>1
<1>3. \A f \in DOMAIN files : files[f] \in File
  <2> HIDE DEF File
  <2> QED
    BY <1>1
<1>4. \A f \in DOMAIN files :
        /\ files[f].lines \in Seq(Import!Line) /\ files[f].mtime \in Nat
        /\ files[f].session \in Sessions
  BY <1>3 DEF File
<1>5. ASSUME NEW q \in Seq(Import!Line)
      PROVE  /\ Len(q) \in Nat /\ DOMAIN q = 1 .. Len(q)
             /\ \A i \in DOMAIN q : q[i] \in Import!Line /\ q[i].n \in Nat
  <2>1. Len(q) \in Nat /\ DOMAIN q = 1 .. Len(q)
    OBVIOUS
  <2>2. \A i \in DOMAIN q : q[i] \in Import!Line
    OBVIOUS
  <2> QED
    BY <2>1, <2>2 DEF Import!Line
<1> QED
  BY <1>1, <1>2, <1>3, <1>4, <1>5

LEMMA WholeGrow ==
    ASSUME NEW a \in Seq(Import!Line), NEW b \in Seq(Import!Line), GrewTo(a, b)
    PROVE  WholeOf(a) \subseteq WholeOf(b)
<1> SUFFICES ASSUME NEW i \in DOMAIN a, a[i].whole PROVE a[i].n \in WholeOf(b)
  BY DEF WholeOf
<1>1. i \in DOMAIN b /\ b[i] = a[i]
  BY DEF GrewTo
<1> QED
  BY <1>1 DEF WholeOf

\* One file is written or moved.
LEMMA OneIsWritten ==
    ASSUME Import!TypeOK, FilesAreNumbered, NEW f \in DOMAIN files, NEW file \in File,
           GrewTo(files[f].lines, file.lines), Numbered(file, writes'),
           files' = [files EXCEPT ![f] = file],
           writes' \in Nat, writes <= writes'
    PROVE  /\ files' \in Seq(File) /\ Len(files) <= Len(files') /\ FilesAreNumbered'
           /\ \A g \in DOMAIN files : GrewTo(files[g].lines, files'[g].lines)
<1>1. files' \in Seq(File) /\ Len(files') = Len(files) /\ DOMAIN files' = DOMAIN files
  <2>1. files \in Seq(File)
    BY FilesTyped
  <2> QED
    BY <2>1
<1>2. files'[f] = file /\ \A g \in DOMAIN files : g # f => files'[g] = files[g]
  OBVIOUS
<1>3. writes \in Nat /\ Len(files) \in Nat
  BY FilesTyped DEF Import!TypeOK
<1>4. \A g \in DOMAIN files : GrewTo(files[g].lines, files[g].lines)
  <2> SUFFICES ASSUME NEW g \in DOMAIN files PROVE GrewTo(files[g].lines, files[g].lines)
    OBVIOUS
  <2>1. Len(files[g].lines) \in Nat
    BY FilesTyped
  <2> QED
    BY <2>1 DEF GrewTo
<1>5. ASSUME NEW g \in DOMAIN files, g # f PROVE Numbered(files[g], writes')
  <2>1. Numbered(files[g], writes)
    BY DEF FilesAreNumbered
  <2>2. /\ files[g].mtime \in Nat
        /\ \A i \in DOMAIN files[g].lines : files[g].lines[i].n \in Nat
    BY FilesTyped
  <2>3. files[g].mtime <= writes'
    BY <1>3, <2>1, <2>2 DEF Numbered
  <2>4. \A i \in DOMAIN files[g].lines : files[g].lines[i].n <= writes'
    BY <1>3, <2>1, <2>2 DEF Numbered
  <2> QED
    BY <2>1, <2>3, <2>4 DEF Numbered
<1>6. FilesAreNumbered'
  BY <1>1, <1>2, <1>5 DEF FilesAreNumbered
<1> QED
  BY <1>1, <1>2, <1>3, <1>4, <1>6

\* Files only grow.
Grows ==
  /\ files' \in Seq(File) /\ Len(files) <= Len(files') /\ FilesAreNumbered'
  /\ \A g \in DOMAIN files : GrewTo(files[g].lines, files'[g].lines)
  /\ writes' \in 0 .. MaxWrites /\ history' \in Seq([n : Nat, session : Sessions])
  /\ Import!Idle

\* A write takes the next number.
LEMMA NextIsWritten ==
    ASSUME Import!TypeOK, Import!Written, Import!BackfillAssumption
    PROVE  /\ writes \in Nat /\ MaxWrites \in Nat /\ writes' = writes + 1 /\ writes < MaxWrites
           /\ writes' \in 0 .. MaxWrites /\ writes' \in Nat /\ writes <= writes'
<1>1. writes \in 0 .. MaxWrites /\ MaxWrites \in Nat
  BY DEF Import!TypeOK, Import!BackfillAssumption
<1>2. writes' = writes + 1 /\ writes < MaxWrites
  BY DEF Import!Written
<1> QED
  BY <1>1, <1>2

LEMMA RolloutIsNew ==
    ASSUME Import!TypeOK, FilesAreNumbered, NEW s \in Sessions, NEW sameDay \in BOOLEAN,
           Import!NewRollout(s, sameDay), Import!BackfillAssumption
    PROVE  Grows
<1> DEFINE last == IF files = <<>> THEN 0 ELSE files[Len(files)].day
           line == [n |-> writes', kind |-> "other", whole |-> TRUE]
           file == [session |-> s, day |-> IF sameDay THEN last ELSE last + 1,
                    mtime |-> writes', away |-> FALSE, lines |-> <<line>>]
<1>1. /\ files' = Append(files, file) /\ writes' = writes + 1 /\ writes < MaxWrites
      /\ UNCHANGED history /\ Import!Idle
  BY DEF Import!NewRollout, Import!Written
<1>2. /\ files \in Seq(File) /\ Len(files) \in Nat /\ DOMAIN files = 1 .. Len(files)
      /\ writes \in Nat /\ MaxWrites \in Nat /\ writes' \in 0 .. MaxWrites
  BY FilesTyped, NextIsWritten DEF Import!NewRollout
<1>3. last \in Nat
  <2>1. files # <<>> => Len(files) \in DOMAIN files
    BY <1>2
  <2>2. files # <<>> => files[Len(files)] \in File
    BY <2>1, FilesTyped
  <2> QED
    BY <2>2 DEF File
<1>4. line \in Import!Line
  BY <1>2 DEF Import!Line, Import!Kinds
<1> DEFINE lines == <<line>>
<1>5. lines \in Seq(Import!Line) /\ lines # <<>> /\ DOMAIN lines = {1} /\ lines[1].n = writes'
  BY <1>4
<1> HIDE DEF last, line
<1>6. file \in File
  BY <1>2, <1>3, <1>5 DEF File
<1>7. Numbered(file, writes')
  BY <1>2, <1>5 DEF Numbered, Ascends
<1> HIDE DEF file, lines
<1>8. /\ files' \in Seq(File) /\ Len(files') = Len(files) + 1
      /\ \A g \in DOMAIN files : files'[g] = files[g]
      /\ files'[Len(files) + 1] = file
      /\ DOMAIN files' = 1 .. Len(files) + 1
  BY <1>1, <1>2, <1>6, AppendProperties
<1>9. \A g \in DOMAIN files : GrewTo(files[g].lines, files'[g].lines)
  <2> SUFFICES ASSUME NEW g \in DOMAIN files PROVE GrewTo(files[g].lines, files[g].lines)
    BY <1>8
  <2>1. Len(files[g].lines) \in Nat
    BY FilesTyped
  <2> QED
    BY <2>1 DEF GrewTo
<1>10. FilesAreNumbered'
  <2> SUFFICES ASSUME NEW g \in DOMAIN files' PROVE Numbered(files'[g], writes')
    BY DEF FilesAreNumbered
  <2>1. CASE g = Len(files) + 1
    BY <1>7, <1>8, <2>1
  <2>2. CASE g # Len(files) + 1
    <3>1. g \in DOMAIN files
      BY <1>2, <1>8, <2>2
    <3>2. Numbered(files[g], writes)
      BY <3>1 DEF FilesAreNumbered
    <3>3. /\ files[g].mtime \in Nat
          /\ \A i \in DOMAIN files[g].lines : files[g].lines[i].n \in Nat
      BY <3>1, FilesTyped
    <3>4. Numbered(files[g], writes')
      BY <1>1, <1>2, <3>2, <3>3 DEF Numbered
    <3> QED
      BY <1>8, <3>1, <3>4
  <2> QED
    BY <2>1, <2>2
<1> QED
  BY <1>1, <1>2, <1>8, <1>9, <1>10 DEF Grows, Import!TypeOK

\* A line is added to a file.
LEMMA LineIsNew ==
    ASSUME Import!TypeOK, FilesAreNumbered, NEW f \in DOMAIN files, NEW kind \in Import!Kinds,
           NEW whole \in BOOLEAN,
           Import!NewLine(f, kind, whole), Import!BackfillAssumption
    PROVE  /\ files' \in Seq(File) /\ Len(files) <= Len(files') /\ FilesAreNumbered'
           /\ \A g \in DOMAIN files : GrewTo(files[g].lines, files'[g].lines)
           /\ writes' \in 0 .. MaxWrites /\ writes' \in Nat
<1> DEFINE line == [n |-> writes', kind |-> kind, whole |-> whole]
           q == files[f].lines
           r == Append(q, line)
           file == [files[f] EXCEPT !.mtime = writes', !.lines = r]
<1>1. /\ files' = [files EXCEPT ![f] = file]
      /\ writes' = writes + 1 /\ writes < MaxWrites
  BY ImpWords DEF Import!NewLine, Import!Written
<1>2. writes \in Nat /\ MaxWrites \in Nat /\ writes' \in 0 .. MaxWrites /\ writes' \in Nat
  BY NextIsWritten, ImpWords DEF Import!NewLine
<1>3. line \in Import!Line /\ line.n = writes'
  BY <1>2 DEF Import!Line
<1>4. /\ q \in Seq(Import!Line) /\ Len(q) \in Nat /\ DOMAIN q = 1 .. Len(q) /\ files[f] \in File
      /\ \A i \in DOMAIN q : q[i].n \in Nat
  BY FilesTyped
<1>5. Ascends(q) /\ \A i \in DOMAIN q : q[i].n <= writes
  BY DEF FilesAreNumbered, Numbered
<1> HIDE DEF q, line, r
<1>6. /\ r \in Seq(Import!Line) /\ Len(r) = Len(q) + 1 /\ DOMAIN r = 1 .. Len(q) + 1
      /\ r[Len(q) + 1] = line /\ \A i \in DOMAIN q : r[i] = q[i]
  BY <1>3, <1>4, AppendProperties DEF r
<1>7. file \in File /\ file.lines = r /\ file.mtime = writes'
  BY <1>2, <1>4, <1>6 DEF File
<1> HIDE DEF file
<1>8. \A i \in 1 .. Len(q) + 1 : i \in DOMAIN q \/ i = Len(q) + 1
  BY <1>4
<1>9. Ascends(r)
  <2> SUFFICES ASSUME NEW i \in 1 .. Len(q) + 1, NEW j \in 1 .. Len(q) + 1, i < j
               PROVE  r[i].n < r[j].n
    BY <1>6 DEF Ascends
  <2>1. i \in DOMAIN q /\ r[i] = q[i] /\ q[i].n <= writes /\ q[i].n \in Nat
    BY <1>4, <1>5, <1>6
  <2>2. CASE j \in DOMAIN q
    BY <1>5, <1>6, <2>1, <2>2 DEF Ascends
  <2>3. CASE j = Len(q) + 1
    BY <1>1, <1>2, <1>3, <1>6, <2>1, <2>3
  <2> QED
    BY <1>8, <2>2, <2>3
<1>10. \A i \in DOMAIN r : r[i].n <= writes'
  <2> SUFFICES ASSUME NEW i \in 1 .. Len(q) + 1 PROVE r[i].n <= writes'
    BY <1>6
  <2>1. CASE i \in DOMAIN q
    BY <1>1, <1>2, <1>4, <1>5, <1>6, <2>1
  <2>2. CASE i = Len(q) + 1
    BY <1>2, <1>3, <1>6, <2>2
  <2> QED
    BY <1>8, <2>1, <2>2
<1>11. Numbered(file, writes')
  <2>1. r # <<>>
    BY <1>4, <1>6
  <2> QED
    BY <1>2, <1>7, <1>9, <1>10, <2>1 DEF Numbered
<1>12. GrewTo(files[f].lines, file.lines)
  BY <1>4, <1>6, <1>7 DEF GrewTo, q
<1>13. writes <= writes'
  BY <1>1, <1>2
<1> HIDE DEF file
<1> QED
  BY <1>1, <1>2, <1>7, <1>11, <1>12, <1>13, OneIsWritten

\* The last line of a file is finished.
LEMMA LineIsFinished ==
    ASSUME Import!TypeOK, FilesAreNumbered, NEW f \in DOMAIN files, Import!FinishLine(f),
           Import!BackfillAssumption
    PROVE  Grows
<1> DEFINE q == files[f].lines
           k == Len(q)
           line == [q[k] EXCEPT !.whole = TRUE]
           r == [q EXCEPT ![k] = line]
           file == [files[f] EXCEPT !.lines = r]
<1>1. /\ files' = [files EXCEPT ![f] = file] /\ UNCHANGED <<history, writes>> /\ Import!Idle
      /\ ~q[k].whole
  BY ImpWords DEF Import!FinishLine, Last
<1>2. writes \in 0 .. MaxWrites /\ writes \in Nat
  BY DEF Import!TypeOK, Import!BackfillAssumption
<1>3. /\ q \in Seq(Import!Line) /\ k \in Nat /\ DOMAIN q = 1 .. k /\ files[f] \in File
      /\ \A i \in DOMAIN q : q[i] \in Import!Line /\ q[i].n \in Nat
  BY FilesTyped
<1>4. q # <<>> /\ Ascends(q) /\ (\A i \in DOMAIN q : q[i].n <= writes) /\ files[f].mtime <= writes
  BY DEF FilesAreNumbered, Numbered
<1> HIDE DEF q
<1>5. k \in DOMAIN q
  BY <1>3, <1>4
<1>6. line \in Import!Line /\ line.n = q[k].n
  BY <1>3, <1>5 DEF Import!Line
<1> HIDE DEF line, k
<1>7. /\ r \in Seq(Import!Line) /\ Len(r) = k /\ DOMAIN r = DOMAIN q
      /\ r[k] = line /\ \A i \in DOMAIN q : i # k => r[i] = q[i]
  BY <1>3, <1>5, <1>6 DEF k
<1> HIDE DEF r
<1>8. \A i \in DOMAIN q : r[i].n = q[i].n
  BY <1>6, <1>7
<1>9. file \in File /\ file.lines = r /\ file.mtime = files[f].mtime
  BY <1>3, <1>7 DEF File
<1> HIDE DEF file
<1>10. Numbered(file, writes)
  <2>1. r # <<>>
    BY <1>3, <1>5, <1>7
  <2> QED
    BY <1>4, <1>7, <1>8, <1>9, <2>1 DEF Numbered, Ascends
<1>11. GrewTo(files[f].lines, file.lines)
  BY <1>1, <1>3, <1>7, <1>8, <1>9 DEF GrewTo, q, k
<1>12. writes' = writes /\ writes' \in Nat /\ writes <= writes' /\ Numbered(file, writes')
  BY <1>1, <1>2, <1>10
<1>13. /\ files' \in Seq(File) /\ Len(files) <= Len(files') /\ FilesAreNumbered'
       /\ \A g \in DOMAIN files : GrewTo(files[g].lines, files'[g].lines)
  BY <1>1, <1>9, <1>11, <1>12, OneIsWritten
<1> QED
  BY <1>1, <1>2, <1>13 DEF Grows, Import!TypeOK

LEMMA FileIsMoved ==
    ASSUME Import!TypeOK, FilesAreNumbered, NEW f \in DOMAIN files, Import!Move(f),
           Import!BackfillAssumption
    PROVE  Grows
<1> DEFINE file == [files[f] EXCEPT !.away = ~@]
<1>1. /\ files' = [files EXCEPT ![f] = file] /\ UNCHANGED history /\ Import!Idle
      /\ writes' = writes + 1 /\ writes < MaxWrites
  BY DEF Import!Move, Import!Written
<1>2. writes \in Nat /\ MaxWrites \in Nat /\ writes' \in 0 .. MaxWrites /\ writes' \in Nat
  BY NextIsWritten DEF Import!Move
<1>3. /\ files[f] \in File /\ Len(files[f].lines) \in Nat /\ files[f].mtime \in Nat
      /\ \A i \in DOMAIN files[f].lines : files[f].lines[i].n \in Nat
  BY FilesTyped
<1>4. file \in File /\ file.lines = files[f].lines /\ file.mtime = files[f].mtime
  BY <1>3 DEF File
<1> HIDE DEF file
<1>5. Numbered(files[f], writes)
  BY DEF FilesAreNumbered
<1>6. Numbered(file, writes')
  <2>1. \A i \in DOMAIN files[f].lines : files[f].lines[i].n <= writes'
    BY <1>1, <1>2, <1>3, <1>5 DEF Numbered
  <2> QED
    BY <1>1, <1>2, <1>3, <1>4, <1>5, <2>1 DEF Numbered
<1>7. GrewTo(files[f].lines, file.lines)
  BY <1>3, <1>4 DEF GrewTo
<1>8. /\ files' \in Seq(File) /\ Len(files) <= Len(files') /\ FilesAreNumbered'
      /\ \A g \in DOMAIN files : GrewTo(files[g].lines, files'[g].lines)
  BY <1>1, <1>2, <1>4, <1>6, <1>7, NextIsWritten, OneIsWritten DEF Import!Move
<1> QED
  BY <1>1, <1>2, <1>8 DEF Grows, Import!TypeOK

LEMMA CodexGrows ==
    ASSUME Import!TypeOK, FilesAreNumbered, Import!Codex, Import!BackfillAssumption PROVE Grows
<1>1. ASSUME NEW s \in Sessions, NEW sameDay \in BOOLEAN, Import!NewRollout(s, sameDay) PROVE Grows
  BY <1>1, RolloutIsNew
<1>2. ASSUME NEW f \in DOMAIN files, NEW whole \in BOOLEAN, Import!Prompt(f, whole) PROVE Grows
  <2>1. Import!NewLine(f, "item", whole) /\ Import!Idle /\ "item" \in Import!Kinds
    BY <1>2 DEF Import!Prompt, Import!Kinds
  <2>2. history' \in Seq([n : Nat, session : Sessions])
    <3>1. writes' \in Nat /\ files[f].session \in Sessions
      BY <2>1, LineIsNew, FilesTyped
    <3> DEFINE T == [n : Nat, session : Sessions]
               p == [n |-> writes', session |-> files[f].session]
    <3>2. p \in T /\ history \in Seq(T) /\ history' = Append(history, p)
      BY <1>2, <3>1 DEF Import!Prompt, Import!TypeOK
    <3> HIDE DEF T, p
    <3>3. history' \in Seq(T)
      BY <3>2
    <3> QED
      BY <3>3 DEF T
  <2> QED
    BY <2>1, <2>2, LineIsNew DEF Grows
<1>3. ASSUME NEW f \in DOMAIN files, NEW whole \in BOOLEAN, NEW k \in Import!Kinds,
             Import!Record(f, k, whole)
      PROVE  Grows
  <2>1. Import!NewLine(f, k, whole) /\ UNCHANGED history /\ Import!Idle
    BY <1>3 DEF Import!Record
  <2>2. history' \in Seq([n : Nat, session : Sessions])
    BY <2>1 DEF Import!TypeOK
  <2> QED
    BY <2>1, <2>2, LineIsNew DEF Grows
<1>4. ASSUME NEW f \in DOMAIN files, Import!FinishLine(f) PROVE Grows
  BY <1>4, LineIsFinished
<1>5. ASSUME NEW f \in DOMAIN files, Import!Move(f) PROVE Grows
  BY <1>5, FileIsMoved
<1> QED
  BY <1>1, <1>2, <1>3, <1>4, <1>5 DEF Import!Codex

\* What would be brought of a file that has grown is brought before, or is new.
LEMMA SelectedIsOld ==
    ASSUME Import!TypeOK, FilesAreNumbered, Grows, Import!BackfillAssumption,
           NEW f \in DOMAIN files,
           NEW m \in Numbers(f), NEW n \in Selected(f)', n < m
    PROVE  n \in Selected(f)
<1> DEFINE a == files[f].lines
           b == files'[f].lines
<1>1. f \in DOMAIN files'
  <2>1. DOMAIN files = 1 .. Len(files) /\ Len(files) \in Nat
    BY FilesTyped
  <2>2. files' \in Seq(File) /\ Len(files) <= Len(files')
    BY DEF Grows
  <2>3. Len(files') \in Nat /\ DOMAIN files' = 1 .. Len(files')
    <3> HIDE DEF File
    <3> QED
      BY <2>2
  <2> QED
    BY <2>1, <2>2, <2>3
<1>2. a \in Seq(Import!Line) /\ \A i \in DOMAIN a : a[i].n \in Nat
  BY FilesTyped
<1>3. b \in Seq(Import!Line)
  <2>1. files' \in Seq(File)
    BY DEF Grows
  <2>2. files'[f] \in File
    <3> HIDE DEF File
    <3> QED
      BY <1>1, <2>1
  <2> QED
    BY <2>2 DEF File
<1>4. Ascends(a)
  BY DEF FilesAreNumbered, Numbered
<1>5. Ascends(b)
  BY <1>1 DEF Grows, FilesAreNumbered, Numbered
<1>6. GrewTo(a, b)
  BY DEF Grows
<1>7. n \in SelectedOf(b) /\ m \in WholeOf(a)
  BY DEF Selected, Numbers
<1>8. n \in SelectedOf(a) \/ m < n
  <2> HIDE DEF a, b
  <2> QED
    BY <1>2, <1>3, <1>4, <1>5, <1>6, <1>7, SelectedGrow
<1>9. m \in Nat /\ n \in Nat
  <2>1. m \in Nat
    BY <1>2, <1>7 DEF WholeOf
  <2>2. n \in ScannedOf(b)
    BY <1>7 DEF SelectedOf, Latest
  <2>3. \A i \in DOMAIN b : b[i] \in Import!Line
    BY <1>3
  <2>4. n \in Nat
    BY <2>2, <2>3 DEF ScannedOf, Import!Line
  <2> QED
    BY <2>1, <2>4
<1> QED
  BY <1>8, <1>9 DEF Selected

\* What a file holds in whole it keeps.
LEMMA NumbersGrow ==
    ASSUME Import!TypeOK, Grows, NEW f \in DOMAIN files
    PROVE  f \in DOMAIN files' /\ Numbers(f) \subseteq Numbers(f)'
<1>1. f \in DOMAIN files'
  <2>1. DOMAIN files = 1 .. Len(files) /\ Len(files) \in Nat
    BY FilesTyped
  <2>2. files' \in Seq(File) /\ Len(files) <= Len(files')
    BY DEF Grows
  <2>3. Len(files') \in Nat /\ DOMAIN files' = 1 .. Len(files')
    <3> HIDE DEF File
    <3> QED
      BY <2>2
  <2> QED
    BY <2>1, <2>2, <2>3
<1>2. files[f].lines \in Seq(Import!Line)
  BY FilesTyped
<1>3. files'[f].lines \in Seq(Import!Line)
  <2>1. files' \in Seq(File)
    BY DEF Grows
  <2>2. files'[f] \in File
    <3> HIDE DEF File
    <3> QED
      BY <1>1, <2>1
  <2> QED
    BY <2>2 DEF File
<1>4. GrewTo(files[f].lines, files'[f].lines)
  BY DEF Grows
<1>5. WholeOf(files[f].lines) \subseteq WholeOf(files'[f].lines)
  BY <1>2, <1>3, <1>4, WholeGrow
<1> QED
  BY <1>1, <1>5 DEF Numbers

LEMMA CodexKeeps == ASSUME HistoryInv, Grows, Import!BackfillAssumption PROVE HistoryInv'
<1>1. /\ Import!TypeOK /\ FilesAreNumbered /\ StoredAreThere /\ NoHoles /\ ImportFits
      /\ AllIsImported
      /\ Import!InOrder /\ Import!NoSilentGap /\ Import!OldestAreLeftOut
  BY DEF HistoryInv
<1>2. /\ UNCHANGED <<pc, path, events, clipped, there, thread, told, attaches>>
      /\ Stored' = Stored
  BY DEF Grows, Import!Idle, Stored
<1>3. /\ Len(files) \in Nat /\ DOMAIN files = 1 .. Len(files) /\ Len(files') \in Nat
      /\ DOMAIN files' = 1 .. Len(files') /\ Len(files) <= Len(files')
  <2>1. DOMAIN files = 1 .. Len(files) /\ Len(files) \in Nat
    BY <1>1, FilesTyped
  <2>2. files' \in Seq(File) /\ Len(files) <= Len(files')
    BY DEF Grows
  <2>3. Len(files') \in Nat /\ DOMAIN files' = 1 .. Len(files')
    <3> HIDE DEF File
    <3> QED
      BY <2>2
  <2> QED
    BY <2>1, <2>2, <2>3
<1>4. Import!TypeOK'
  <2>1. /\ files' \in Seq(File) /\ writes' \in 0 .. MaxWrites
        /\ history' \in Seq([n : Nat, session : Sessions])
    BY DEF Grows
  <2>2. path \in 0 .. Len(files')
    <3>1. path \in 0 .. Len(files)
      BY <1>1 DEF Import!TypeOK
    <3> QED
      BY <1>3, <3>1
  <2>3. /\ pc \in {"off", "find", "read", "import", "on"}
        /\ events \in Seq(Import!Event) /\ there \subseteq Import!Event
        /\ thread \in Seq(Import!Event)
        /\ clipped \in BOOLEAN
        /\ told \in {"none", "complete", "truncated", "error"}
        /\ attaches \in 0 .. MaxAttaches
    BY <1>1 DEF Import!TypeOK
  <2> QED
    BY <1>2, <2>1, <2>2, <2>3 DEF Import!TypeOK, File
<1>5. FilesAreNumbered'
  BY DEF Grows
<1>6. StoredAreThere'
  <2> SUFFICES ASSUME NEW e \in Stored, e.file # 0
               PROVE  e.file \in DOMAIN files' /\ e = Ev(e.file, e.n) /\ e.n \in Numbers(e.file)'
    BY <1>2 DEF StoredAreThere
  <2>1. e.file \in DOMAIN files /\ e = Ev(e.file, e.n) /\ e.n \in Numbers(e.file)
    BY <1>1 DEF StoredAreThere
  <2> QED
    BY <1>1, <2>1, NumbersGrow
<1>7. NoHoles'
  <2> SUFFICES ASSUME NEW e \in Stored, NEW f \in DOMAIN files', e.file = f, NEW n \in Selected(f)',
                      n < e.n
               PROVE  Ev(f, n) \in Stored
    BY <1>2 DEF NoHoles
  <2>1. e.file # 0
    BY <1>3
  <2>2. f \in DOMAIN files /\ e.n \in Numbers(f)
    BY <1>1, <2>1 DEF StoredAreThere
  <2>3. n \in Selected(f)
    BY <1>1, <2>2, SelectedIsOld
  <2> QED
    BY <1>1, <2>2, <2>3 DEF NoHoles
<1>8. ImportFits'
  <2> SUFFICES ASSUME pc = "import", path # 0 PROVE EventsFit'
    BY <1>1, <1>2 DEF ImportFits
  <2>1. EventsFit
    BY <1>1 DEF ImportFits
  <2>p. PICK p : p = path
    OBVIOUS
  <2>2. p \in DOMAIN files
    BY <1>1, <1>3, <2>p DEF Import!TypeOK
  <2>3. \A i \in DOMAIN events :
          events[i] = Ev(p, events[i].n) /\ events[i].n \in Numbers(p)'
    BY <1>1, <2>1, <2>p, <2>2, NumbersGrow DEF EventsFit
  <2>4. ASSUME NEW i \in DOMAIN events, NEW n \in Selected(p)', n < events[i].n
        PROVE  Ev(p, n) \in Stored \/ \E j \in DOMAIN events : j < i /\ events[j].n = n
    <3>1. events[i].n \in Numbers(p)
      BY <2>1, <2>p DEF EventsFit
    <3>2. n \in Selected(p)
      BY <1>1, <2>2, <2>4, <3>1, SelectedIsOld
    <3> QED
      BY <2>1, <2>p, <2>4, <3>2 DEF EventsFit
  <2>5. /\ Ascends(events)
        /\ \A i \in DOMAIN events : events[i] \notin Stored =>
             \A e \in Stored : e.file = path => e.n < events[i].n
    BY <2>1 DEF EventsFit
  <2> QED
    BY <1>2, <2>p, <2>3, <2>4, <2>5 DEF EventsFit, Ascends
<1>9. AllIsImported' /\ Import!InOrder' /\ Import!NoSilentGap' /\ Import!OldestAreLeftOut'
  BY <1>1, <1>2, ImpWords DEF AllIsImported, Import!InOrder, Import!NoSilentGap,
     Import!OldestAreLeftOut
<1> QED
  BY <1>4, <1>5, <1>6, <1>7, <1>8, <1>9 DEF HistoryInv

\* A set of numbers that are not greater than one has a greatest.
LEMMA GreatestOf ==
    ASSUME NEW n \in Nat, NEW S \in SUBSET (0 .. n), S # {}
    PROVE  \E x \in S : \A y \in S : y <= x
<1> DEFINE T == {n - x : x \in S}
<1>1. T \in SUBSET Nat /\ T # {}
  <2>1. \A x \in 0 .. n : n - x \in Nat
    OBVIOUS
  <2>2. \A x \in S : x \in 0 .. n
    OBVIOUS
  <2> QED
    BY <2>1, <2>2
<1>2. PICK t \in T : \A y \in T : t <= y
  <2> HIDE DEF T
  <2> QED
    BY <1>1, LeastOf
<1>3. PICK x \in S : t = n - x
  OBVIOUS
<1>4. ASSUME NEW y \in S PROVE y <= x
  <2>1. n - x <= n - y
    BY <1>2, <1>3
  <2>2. x \in 0 .. n /\ y \in 0 .. n
    OBVIOUS
  <2> QED
    BY <2>1, <2>2
<1> QED
  BY <1>4

\* The rollout that is found is a file.
LEMMA RolloutIsFound ==
    ASSUME Import!TypeOK, FilesAreNumbered, Import!FindRolloutPath, Import!BackfillAssumption
    PROVE  path' \in 0 .. Len(files)
<1>1. PICK listed \in Import!Listings :
        LET matches == {f \in Import!RolloutPaths(listed) : Import!HasSessionId(f)} IN
        IF matches = {} THEN path' = 0
        ELSE path' = CHOOSE f \in matches : \A g \in matches : files[g].mtime <= files[f].mtime
  BY DEF Import!FindRolloutPath
<1> DEFINE matches == {f \in Import!RolloutPaths(listed) : Import!HasSessionId(f)}
<1>2. /\ Len(files) \in Nat /\ DOMAIN files = 1 .. Len(files)
      /\ \A f \in DOMAIN files : files[f].mtime \in Nat
  BY FilesTyped
<1>3. matches \subseteq DOMAIN files
  <2>1. listed \subseteq Import!There
    BY ImpWords DEF Import!Listings, Import!InNewestDays
  <2> QED
    BY <2>1, ImpWords DEF Import!RolloutPaths, Import!There
<1>4. CASE matches = {}
  BY <1>1, <1>2, <1>4
<1>5. CASE matches # {}
  <2> DEFINE S == {files[f].mtime : f \in matches}
  <2>1. writes \in Nat
    BY DEF Import!TypeOK, Import!BackfillAssumption
  <2>2. \A f \in DOMAIN files : files[f].mtime <= writes
    BY DEF FilesAreNumbered, Numbered
  <2> HIDE DEF matches
  <2>3. S \in SUBSET (0 .. writes) /\ S # {}
    BY <1>2, <1>3, <1>5, <2>1, <2>2
  <2>4. \E x \in S : \A y \in S : y <= x
    <3> HIDE DEF S
    <3> QED
      BY <2>1, <2>3, GreatestOf
  <2>5. \E f \in matches : \A g \in matches : files[g].mtime <= files[f].mtime
    BY <2>4
  <2>6. path' = CHOOSE f \in matches : \A g \in matches : files[g].mtime <= files[f].mtime
    BY <1>1, <1>5 DEF matches
  <2>7. path' \in matches
    BY <2>5, <2>6
  <2> QED
    BY <1>2, <1>3, <2>7
<1> QED
  BY <1>4, <1>5

\* What is read of the history is of no file.
LEMMA PromptsTell ==
    ASSUME NEW lines \in Seq([n : Nat, session : Sessions])
    PROVE  /\ Import!PromptsOf(lines) \in Seq(Import!Event)
           /\ \A i \in DOMAIN Import!PromptsOf(lines) : Import!PromptsOf(lines)[i].file = 0
<1> DEFINE T == [n : Nat, session : Sessions]
           mine == Only(lines, {p \in ToSet(lines) : p.session = Wanted})
           q == [i \in DOMAIN mine |-> [source |-> "history", file |-> 0, n |-> mine[i].n]]
<1>1. q = Import!PromptsOf(lines)
  BY ImpWords DEF Import!PromptsOf
<1>2. mine \in Seq(T)
  <2>1. lines \in Seq(T)
    OBVIOUS
  <2> HIDE DEF T
  <2> QED
    BY <2>1, OnlyThose
<1> HIDE DEF mine
<1>3. Len(mine) \in Nat /\ DOMAIN mine = 1 .. Len(mine) /\ \A i \in 1 .. Len(mine) : mine[i] \in T
  <2> HIDE DEF T
  <2> QED
    BY <1>2
<1>4. \A i \in 1 .. Len(mine) : q[i] \in Import!Event /\ q[i].file = 0
  BY <1>3 DEF Import!Event
<1>5. DOMAIN q = 1 .. Len(mine)
  BY <1>3
<1>6. q \in Seq(Import!Event)
  <2> DEFINE E(i) == [source |-> "history", file |-> 0, n |-> mine[i].n]
  <2>1. q = [i \in 1 .. Len(mine) |-> E(i)]
    BY <1>3
  <2>2. \A i \in 1 .. Len(mine) : E(i) \in Import!Event
    BY <1>3 DEF Import!Event
  <2> HIDE DEF q, E
  <2> QED
    BY <1>3, <2>1, <2>2
<1> HIDE DEF q
<1> QED
  BY <1>1, <1>4, <1>5, <1>6

LEMMA AttachKeeps == ASSUME HistoryInv, Import!Attach, Import!BackfillAssumption PROVE HistoryInv'
<1>1. /\ Import!TypeOK /\ FilesAreNumbered /\ StoredAreThere /\ NoHoles /\ Import!InOrder
  BY DEF HistoryInv
<1>2. /\ pc' = "find" /\ path' = 0 /\ events' = <<>> /\ clipped' = FALSE /\ there' = {}
      /\ told' = "none" /\ UNCHANGED <<files, history, writes, thread>>
      /\ attaches < MaxAttaches /\ attaches' = attaches + 1
  BY DEF Import!Attach, Import!disk
<1>3. Import!TypeOK'
  <2>1. attaches' \in 0 .. MaxAttaches
    BY <1>1, <1>2 DEF Import!TypeOK, Import!BackfillAssumption
  <2>2. path' \in 0 .. Len(files')
    BY <1>1, <1>2 DEF Import!TypeOK
  <2>3. /\ files \in Seq([session : Sessions, day : Nat, mtime : Nat,
                          away : BOOLEAN, lines : Seq(Import!Line)])
        /\ history \in Seq([n : Nat, session : Sessions]) /\ writes \in 0 .. MaxWrites
        /\ thread \in Seq(Import!Event)
    BY <1>1 DEF Import!TypeOK
  <2>4. events' \in Seq(Import!Event) /\ there' \subseteq Import!Event
    BY <1>2
  <2> QED
    BY <1>2, <2>1, <2>2, <2>3, <2>4 DEF Import!TypeOK
<1>4. FilesAreNumbered' /\ StoredAreThere' /\ NoHoles' /\ Import!InOrder'
  BY <1>1, <1>2 DEF FilesAreNumbered, StoredAreThere, NoHoles, Import!InOrder, Stored,
     Numbers, Selected
<1>5. ImportFits' /\ AllIsImported' /\ Import!NoSilentGap' /\ Import!OldestAreLeftOut'
  BY <1>2, ImpWords DEF ImportFits, AllIsImported, Import!NoSilentGap, Import!OldestAreLeftOut
<1> QED
  BY <1>3, <1>4, <1>5 DEF HistoryInv

LEMMA FindRolloutPathKeeps ==
    ASSUME HistoryInv, Import!FindRolloutPath, Import!BackfillAssumption PROVE HistoryInv'
<1>1. /\ Import!TypeOK /\ FilesAreNumbered /\ StoredAreThere /\ NoHoles /\ Import!InOrder
  BY DEF HistoryInv
<1>2. /\ pc' = "read"
      /\ UNCHANGED <<files, history, writes, events, clipped, there, thread, told, attaches>>
  BY DEF Import!FindRolloutPath, Import!disk
<1>3. Import!TypeOK'
  <2>1. path' \in 0 .. Len(files')
    BY <1>1, <1>2, RolloutIsFound
  <2> QED
    BY <1>1, <1>2, <2>1 DEF Import!TypeOK
<1>4. FilesAreNumbered' /\ StoredAreThere' /\ NoHoles' /\ Import!InOrder'
  BY <1>1, <1>2 DEF FilesAreNumbered, StoredAreThere, NoHoles, Import!InOrder, Stored,
     Numbers, Selected
<1>5. ImportFits' /\ AllIsImported' /\ Import!NoSilentGap' /\ Import!OldestAreLeftOut'
  BY <1>2, ImpWords DEF ImportFits, AllIsImported, Import!NoSilentGap, Import!OldestAreLeftOut
<1> QED
  BY <1>3, <1>4, <1>5 DEF HistoryInv

\* The import fails, or the session is detached.
LEMMA OthersKeep ==
    ASSUME HistoryInv, Import!ReadFails \/ Import!ImportFails \/ Import!Detach PROVE HistoryInv'
<1>1. /\ Import!TypeOK /\ FilesAreNumbered /\ StoredAreThere /\ NoHoles /\ Import!InOrder
  BY DEF HistoryInv
<1>2. /\ pc' = "off" \/ (pc' = "on" /\ told' = "error")
      /\ told' \in {told, "error"}
      /\ UNCHANGED <<files, history, writes, path, events, clipped, there, thread, attaches>>
  BY DEF Import!ReadFails, Import!ImportFails, Import!Detach, Import!disk
<1>3. Import!TypeOK'
  BY <1>1, <1>2 DEF Import!TypeOK
<1>4. FilesAreNumbered' /\ StoredAreThere' /\ NoHoles' /\ Import!InOrder'
  BY <1>1, <1>2 DEF FilesAreNumbered, StoredAreThere, NoHoles, Import!InOrder, Stored,
     Numbers, Selected
<1>5. ImportFits' /\ AllIsImported' /\ Import!NoSilentGap' /\ Import!OldestAreLeftOut'
  BY <1>2, ImpWords DEF ImportFits, AllIsImported, Import!NoSilentGap, Import!OldestAreLeftOut
<1> QED
  BY <1>3, <1>4, <1>5 DEF HistoryInv

LEMMA ImportEndsKeeps == ASSUME HistoryInv, Import!ImportEnds PROVE HistoryInv'
<1>1. /\ Import!TypeOK /\ FilesAreNumbered /\ StoredAreThere /\ NoHoles /\ Import!InOrder
      /\ AllIsImported
  BY DEF HistoryInv
<1>2. /\ pc = "import" /\ events = <<>> /\ pc' = "on"
      /\ told' = IF clipped THEN "truncated" ELSE "complete"
      /\ UNCHANGED <<files, history, writes, path, events, clipped, there, thread, attaches>>
  BY DEF Import!ImportEnds, Import!disk
<1>3. Import!TypeOK'
  BY <1>1, <1>2 DEF Import!TypeOK
<1>4. FilesAreNumbered' /\ StoredAreThere' /\ NoHoles' /\ Import!InOrder'
  BY <1>1, <1>2 DEF FilesAreNumbered, StoredAreThere, NoHoles, Import!InOrder, Stored,
     Numbers, Selected
<1>5. ImportFits' /\ AllIsImported' /\ Import!OldestAreLeftOut'
  BY <1>2, ImpWords DEF ImportFits, AllIsImported, Import!OldestAreLeftOut
<1>6. Import!NoSilentGap'
  <2> SUFFICES ASSUME ~clipped, path # 0 PROVE there \subseteq Stored
    BY <1>1, <1>2, ImpWords DEF Import!NoSilentGap, Stored, Import!TypeOK
  <2>1. ToSet(events) = {}
    BY <1>2 DEF ToSet
  <2> QED
    BY <1>1, <1>2, <2>1 DEF AllIsImported
<1> QED
  BY <1>3, <1>4, <1>5, <1>6 DEF HistoryInv

LEMMA ReadHistoryKeeps ==
    ASSUME HistoryInv, Import!ReadHistory, Import!BackfillAssumption PROVE HistoryInv'
<1> DEFINE all == Import!PromptsOf(Import!Recent(history, HistoryScan))
           T == [n : Nat, session : Sessions]
<1>1. /\ Import!TypeOK /\ FilesAreNumbered /\ StoredAreThere /\ NoHoles /\ Import!InOrder
  BY DEF HistoryInv
<1>2. /\ pc' = "import" /\ path' = 0 /\ events' = Import!LatestEvents(all)
      /\ clipped' = (Len(all) > Limit) /\ there' = ToSet(Import!PromptsOf(history))
      /\ UNCHANGED <<files, history, writes, path, thread, told, attaches>>
  BY ImpWords DEF Import!ReadHistory, Import!disk
<1>3. HistoryScan \in Nat \ {0} /\ Limit \in Nat \ {0} /\ history \in Seq(T)
  BY <1>1 DEF Import!BackfillAssumption, Import!TypeOK
<1>4. Import!Recent(history, HistoryScan) \in Seq(T)
  <2> HIDE DEF T
  <2> QED
    BY <1>3, RecentIs
<1>5. all \in Seq(Import!Event) /\ \A i \in DOMAIN all : all[i].file = 0
  BY <1>4, PromptsTell
<1>6. /\ StartOf(Len(all), Limit) \in Nat \ {0}
      /\ Import!LatestEvents(all) \in Seq(Import!Event)
      /\ DOMAIN Import!LatestEvents(all) = 1 .. Len(all) - StartOf(Len(all), Limit) + 1
      /\ \A i \in 1 .. Len(all) - StartOf(Len(all), Limit) + 1 :
           Import!LatestEvents(all)[i] = all[StartOf(Len(all), Limit) + i - 1]
  <2> HIDE DEF all
  <2> QED
    BY <1>3, <1>5, RecentIs, ImpWords DEF Import!LatestEvents
<1>7. Import!PromptsOf(history) \in Seq(Import!Event)
  BY <1>3, PromptsTell
<1> HIDE DEF all
<1>8. \A i \in DOMAIN Import!LatestEvents(all) : Import!LatestEvents(all)[i].file = 0
  <2> SUFFICES ASSUME NEW i \in DOMAIN Import!LatestEvents(all)
               PROVE  StartOf(Len(all), Limit) + i - 1 \in DOMAIN all
    BY <1>5, <1>6
  <2>1. Len(all) \in Nat /\ DOMAIN all = 1 .. Len(all)
    BY <1>5
  <2> QED
    BY <1>6, <2>1
<1>9. Import!TypeOK'
  <2>1. there' \subseteq Import!Event
    <3>1. \A i \in DOMAIN Import!PromptsOf(history) : Import!PromptsOf(history)[i] \in Import!Event
      <4> HIDE DEF Import!Event
      <4> QED
        BY <1>7
    <3> QED
      BY <1>2, <3>1 DEF ToSet
  <2>2. events' \in Seq(Import!Event)
    BY <1>2, <1>6
  <2>3. pc' = "import" /\ clipped' \in BOOLEAN
    BY <1>2
  <2>4. /\ files \in Seq([session : Sessions, day : Nat, mtime : Nat,
                          away : BOOLEAN, lines : Seq(Import!Line)])
        /\ history \in Seq([n : Nat, session : Sessions]) /\ writes \in 0 .. MaxWrites
        /\ thread \in Seq(Import!Event) /\ path \in 0 .. Len(files)
        /\ told \in {"none", "complete", "truncated", "error"}
        /\ attaches \in 0 .. MaxAttaches
    BY <1>1 DEF Import!TypeOK
  <2> QED
    BY <1>2, <2>1, <2>2, <2>3, <2>4 DEF Import!TypeOK
<1>10. FilesAreNumbered' /\ StoredAreThere' /\ NoHoles' /\ Import!InOrder'
  BY <1>1, <1>2 DEF FilesAreNumbered, StoredAreThere, NoHoles, Import!InOrder, Stored,
     Numbers, Selected
<1>11. ImportFits' /\ AllIsImported' /\ Import!NoSilentGap' /\ Import!OldestAreLeftOut'
  BY <1>2, <1>8, ImpWords DEF ImportFits, AllIsImported, Import!NoSilentGap, Import!OldestAreLeftOut
<1> QED
  BY <1>9, <1>10, <1>11 DEF HistoryInv

\* What is brought of a file.
LEMMA RolloutTells ==
    ASSUME HistoryInv, Import!ReadRollout, Import!BackfillAssumption
    PROVE  /\ path \in DOMAIN files /\ path # 0
           /\ events' \in Seq(Import!Event) /\ there' \subseteq Import!Event
           /\ \A i \in DOMAIN events' :
                /\ events'[i] = Ev(path, events'[i].n)
                /\ events'[i].n \in Selected(path) /\ events'[i].n \in Numbers(path)
           /\ Ascends(events')
           /\ \A n \in Selected(path) : \E j \in DOMAIN events' : events'[j].n = n
           /\ ~clipped' => there' \subseteq ToSet(events')
           /\ \A e \in there', k \in DOMAIN events' : e \notin ToSet(events') => e.n < events'[k].n
<1> DEFINE lines == files[path].lines
           w == Import!Recent(lines, LineScan)
           all == Import!EventsOf(path, w)
           full == Import!EventsOf(path, lines)
<1>1. /\ path # 0 /\ path \in Import!There /\ events' = Import!LatestEvents(all)
      /\ clipped' = Import!IsTruncated(path, all) /\ there' = ToSet(full)
  BY ImpWords DEF Import!ReadRollout
<1>2. /\ path \in DOMAIN files /\ path \in Nat /\ lines \in Seq(Import!Line)
      /\ Len(lines) \in Nat /\ DOMAIN lines = 1 .. Len(lines)
      /\ \A i \in DOMAIN lines : lines[i].n \in Nat
  BY <1>1, FilesTyped DEF Import!There, HistoryInv
<1>3. Ascends(lines)
  BY <1>2 DEF HistoryInv, FilesAreNumbered, Numbered
<1>4. clipped' = (Len(all) > Limit \/ Len(w) = LineScan)
  BY <1>1, ImpWords DEF Import!IsTruncated
<1>5. LineScan \in Nat \ {0} /\ Limit \in Nat \ {0}
  BY DEF Import!BackfillAssumption
<1>6. Numbers(path) = WholeOf(lines) /\ Selected(path) = SelectedOf(lines)
  BY DEF Numbers, Selected
<1> HIDE DEF lines, w, all, full
<1>7. /\ w \in Seq(Import!Line) /\ Ascends(w) /\ ItemsOf(w) = ScannedOf(lines)
      /\ Len(w) # LineScan => ScannedOf(lines) = ItemsOf(lines)
  BY <1>2, <1>3, WindowTells DEF w
<1>8. /\ all \in Seq(Import!Event) /\ Ascends(all) /\ Nums(all) = ScannedOf(lines)
      /\ \A i \in DOMAIN all : all[i] = Ev(path, all[i].n)
  BY <1>2, <1>7, EventsTell DEF all
<1>9. /\ full \in Seq(Import!Event) /\ Nums(full) = ItemsOf(lines)
      /\ \A i \in DOMAIN full : full[i] = Ev(path, full[i].n)
  BY <1>2, <1>3, EventsTell DEF full
<1>10. /\ events' \in Seq(Import!Event) /\ Ascends(events') /\ Nums(events') = Latest(Nums(all))
       /\ \A i \in DOMAIN events' : \E j \in DOMAIN all : events'[i] = all[j]
       /\ \A j \in DOMAIN all, i \in DOMAIN events' :
            all[j] \notin ToSet(events') => all[j].n < events'[i].n
       /\ ~(Len(all) > Limit) => events' = all
  BY <1>1, <1>8, LatestTell
<1>11. Nums(events') = SelectedOf(lines)
  BY <1>8, <1>10 DEF SelectedOf
<1>12. there' \subseteq Import!Event
  <2>1. \A i \in DOMAIN full : full[i] \in Import!Event
    <3> HIDE DEF Import!Event
    <3> QED
      BY <1>9
  <2> QED
    BY <1>1, <2>1 DEF ToSet
<1>13. SelectedOf(lines) \subseteq ScannedOf(lines) /\ ScannedOf(lines) \subseteq WholeOf(lines)
  BY DEF SelectedOf, Latest, ScannedOf, WholeOf, Imports
<1>14. \A i \in DOMAIN events' :
         /\ events'[i] = Ev(path, events'[i].n)
         /\ events'[i].n \in SelectedOf(lines)
  <2>1. \A i \in DOMAIN events' : events'[i].n \in Nums(events')
    BY DEF Nums
  <2> QED
    BY <1>8, <1>10, <1>11, <2>1
<1>15. \A n \in SelectedOf(lines) : \E j \in DOMAIN events' : events'[j].n = n
  BY <1>11 DEF Nums
<1>16. ASSUME NEW e \in there' PROVE e.n \in ItemsOf(lines) /\ e = Ev(path, e.n)
  <2>1. PICK i \in DOMAIN full : e = full[i]
    BY <1>1, <1>16 DEF ToSet
  <2>2. e.n \in Nums(full)
    BY <2>1 DEF Nums
  <2> QED
    BY <1>9, <2>1, <2>2
<1>17. ASSUME NEW e \in there', e.n \in ScannedOf(lines)
       PROVE  \E i \in DOMAIN all : e = all[i]
  <2>1. e = Ev(path, e.n)
    BY <1>16
  <2>2. PICK i \in DOMAIN all : all[i].n = e.n
    BY <1>8, <1>17 DEF Nums
  <2>3. all[i] = Ev(path, all[i].n)
    BY <1>8
  <2> QED
    BY <2>1, <2>2, <2>3
<1>18. ASSUME ~clipped' PROVE there' \subseteq ToSet(events')
  <2>1. ~(Len(all) > Limit) /\ Len(w) # LineScan
    BY <1>4, <1>18
  <2>2. events' = all /\ ScannedOf(lines) = ItemsOf(lines)
    BY <1>7, <1>10, <2>1
  <2> SUFFICES ASSUME NEW e \in there' PROVE e \in ToSet(all)
    BY <2>2
  <2>3. PICK i \in DOMAIN all : e = all[i]
    BY <1>16, <1>17, <2>2
  <2> QED
    BY <2>3 DEF ToSet
<1>19. ASSUME NEW e \in there', NEW k \in DOMAIN events', e \notin ToSet(events')
       PROVE  e.n < events'[k].n
  <2>1. CASE e.n \in ScannedOf(lines)
    <3>1. PICK i \in DOMAIN all : e = all[i]
      BY <1>17, <2>1
    <3> QED
      BY <1>10, <1>19, <3>1
  <2>2. CASE e.n \notin ScannedOf(lines)
    <3>1. PICK i \in DOMAIN lines : Imports(lines[i]) /\ lines[i].n = e.n
      BY <1>16 DEF ItemsOf
    <3>2. ~(i > Len(lines) - LineScan)
      BY <2>2, <3>1 DEF ScannedOf
    <3>3. events'[k].n \in ScannedOf(lines)
      BY <1>13, <1>14
    <3>4. PICK j \in DOMAIN lines : j > Len(lines) - LineScan /\ lines[j].n = events'[k].n
      BY <3>3 DEF ScannedOf
    <3>5. i < j
      BY <1>2, <1>5, <3>2, <3>4
    <3> QED
      BY <1>3, <3>1, <3>4, <3>5 DEF Ascends
  <2> QED
    BY <2>1, <2>2
<1> QED
  BY <1>1, <1>2, <1>6, <1>10, <1>12, <1>13, <1>14, <1>15, <1>18, <1>19

LEMMA ReadRolloutKeeps ==
    ASSUME HistoryInv, Import!ReadRollout, Import!BackfillAssumption PROVE HistoryInv'
<1>1. /\ Import!TypeOK /\ FilesAreNumbered /\ StoredAreThere /\ NoHoles /\ Import!InOrder
  BY DEF HistoryInv
<1>2. /\ pc' = "import" /\ UNCHANGED <<files, history, writes, path, thread, told, attaches>>
  BY ImpWords DEF Import!ReadRollout, Import!disk
<1>3. /\ path \in DOMAIN files /\ path # 0
      /\ events' \in Seq(Import!Event) /\ there' \subseteq Import!Event
      /\ \A i \in DOMAIN events' :
           /\ events'[i] = Ev(path, events'[i].n)
           /\ events'[i].n \in Selected(path) /\ events'[i].n \in Numbers(path)
      /\ Ascends(events')
      /\ \A n \in Selected(path) : \E j \in DOMAIN events' : events'[j].n = n
      /\ ~clipped' => there' \subseteq ToSet(events')
      /\ \A e \in there', k \in DOMAIN events' : e \notin ToSet(events') => e.n < events'[k].n
  BY RolloutTells
<1>4. Import!TypeOK'
  <2>1. clipped' \in BOOLEAN
    BY ImpWords DEF Import!ReadRollout, Import!IsTruncated
  <2>2. /\ files \in Seq([session : Sessions, day : Nat, mtime : Nat,
                          away : BOOLEAN, lines : Seq(Import!Line)])
        /\ history \in Seq([n : Nat, session : Sessions]) /\ writes \in 0 .. MaxWrites
        /\ thread \in Seq(Import!Event) /\ path \in 0 .. Len(files)
        /\ told \in {"none", "complete", "truncated", "error"}
        /\ attaches \in 0 .. MaxAttaches
    BY <1>1 DEF Import!TypeOK
  <2>3. events' \in Seq(Import!Event) /\ there' \subseteq Import!Event
    BY <1>3
  <2> QED
    BY <1>2, <2>1, <2>2, <2>3 DEF Import!TypeOK
<1>5. /\ FilesAreNumbered' /\ StoredAreThere' /\ NoHoles' /\ Import!InOrder'
      /\ Stored' = Stored /\ Numbers(path)' = Numbers(path) /\ Selected(path)' = Selected(path)
  BY <1>1, <1>2 DEF FilesAreNumbered, StoredAreThere, NoHoles, Import!InOrder, Stored,
     Numbers, Selected
<1>6. \A i \in DOMAIN events' : events'[i].n \in Nat
  <2>1. \A i \in DOMAIN events' : events'[i] \in Import!Event
    <3> HIDE DEF Import!Event
    <3> QED
      BY <1>3
  <2> QED
    BY <2>1 DEF Import!Event
<1>7. \A e \in Stored : e.n \in Nat
  <2>1. thread \in Seq(Import!Event)
    BY <1>1 DEF Import!TypeOK
  <2>2. \A i \in DOMAIN thread : thread[i] \in Import!Event
    <3> HIDE DEF Import!Event
    <3> QED
      BY <2>1
  <2> QED
    BY <2>2 DEF Stored, ToSet, Import!Event
<1>8. ASSUME NEW i \in DOMAIN events', events'[i] \notin Stored, NEW e \in Stored, e.file = path
      PROVE  e.n < events'[i].n
  <2> DEFINE n == events'[i].n
  <2>1. Ev(path, n) \notin Stored /\ n \in Selected(path) /\ n \in Nat
    BY <1>3, <1>6, <1>8
  <2>2. e = Ev(path, e.n) /\ e.n \in Nat
    BY <1>1, <1>3, <1>7, <1>8 DEF StoredAreThere
  <2>3. ~(n < e.n)
    BY <1>1, <1>3, <1>8, <2>1 DEF NoHoles
  <2>4. n # e.n
    BY <1>8, <2>1, <2>2
  <2> QED
    BY <2>1, <2>2, <2>3, <2>4
<1>9. ASSUME NEW i \in DOMAIN events', NEW n \in Selected(path), n < events'[i].n
      PROVE  \E j \in DOMAIN events' : j < i /\ events'[j].n = n
  <2>1. PICK j \in DOMAIN events' : events'[j].n = n
    BY <1>3
  <2>2. DOMAIN events' = 1 .. Len(events') /\ Len(events') \in Nat
    <3> HIDE DEF Import!Event
    <3> QED
      BY <1>3
  <2>3. i < j => events'[i].n < n
    BY <1>3, <2>1 DEF Ascends
  <2>4. n \in Nat /\ events'[i].n \in Nat
    BY <1>6, <2>1
  <2>5. i # j /\ ~(i < j)
    BY <1>9, <2>1, <2>3, <2>4
  <2>6. i \in Nat /\ j \in Nat
    BY <2>2
  <2> QED
    BY <2>1, <2>5, <2>6
<1>10. EventsFit'
  BY <1>2, <1>3, <1>5, <1>8, <1>9 DEF EventsFit
<1>11. ImportFits'
  BY <1>2, <1>3, <1>10 DEF ImportFits
<1>12. AllIsImported' /\ Import!NoSilentGap'
  BY <1>2, <1>3, ImpWords DEF AllIsImported, Import!NoSilentGap
<1>13. Import!OldestAreLeftOut'
  BY <1>2, <1>3, <1>5, ImpWords DEF Import!OldestAreLeftOut, Stored
<1> QED
  BY <1>4, <1>5, <1>11, <1>12, <1>13 DEF HistoryInv

LEMMA ImportEventKeeps ==
    ASSUME HistoryInv, Import!ImportEvent, Import!BackfillAssumption PROVE HistoryInv'
<1> DEFINE h == Head(events)
<1>1. /\ Import!TypeOK /\ FilesAreNumbered /\ StoredAreThere /\ NoHoles /\ ImportFits
      /\ AllIsImported
      /\ Import!InOrder /\ Import!OldestAreLeftOut
  BY DEF HistoryInv
<1>2. /\ pc = "import" /\ pc' = "import" /\ events # <<>> /\ events' = Tail(events)
      /\ thread' = IF Contains(thread, h) THEN thread ELSE Append(thread, h)
      /\ UNCHANGED <<files, history, writes, path, clipped, there, told, attaches>>
  BY ImpWords DEF Import!ImportEvent, Import!disk
<1>3. events \in Seq(Import!Event) /\ thread \in Seq(Import!Event)
  BY <1>1 DEF Import!TypeOK
<1>4. /\ Len(events) \in Nat /\ Len(events) > 0 /\ DOMAIN events = 1 .. Len(events)
      /\ \A i \in 1 .. Len(events) : events[i] \in Import!Event
      /\ h = events[1] /\ events' \in Seq(Import!Event)
      /\ DOMAIN events' = 1 .. Len(events) - 1
      /\ \A i \in 1 .. Len(events) - 1 : events'[i] = events[i + 1]
  <2> HIDE DEF Import!Event
  <2>1. /\ Len(events) \in Nat /\ Len(events) > 0 /\ DOMAIN events = 1 .. Len(events)
        /\ \A i \in 1 .. Len(events) : events[i] \in Import!Event
    BY <1>2, <1>3
  <2>2. h = events[1]
    BY <1>3
  <2>3. /\ Tail(events) \in Seq(Import!Event) /\ DOMAIN Tail(events) = 1 .. Len(events) - 1
        /\ \A i \in 1 .. Len(events) - 1 : Tail(events)[i] = events[i + 1]
    BY <1>2, <1>3, HeadTailProperties
  <2> QED
    BY <1>2, <2>1, <2>2, <2>3
<1> HIDE DEF h
<1>5. h \in Import!Event /\ \A i \in 1 .. Len(events) : events[i].n \in Nat
  BY <1>4 DEF Import!Event
<1>6. /\ Len(thread) \in Nat /\ DOMAIN thread = 1 .. Len(thread)
      /\ \A i \in 1 .. Len(thread) : thread[i] \in Import!Event
  <2> HIDE DEF Import!Event
  <2> QED
    BY <1>3
<1>7. Contains(thread, h) <=> h \in Stored
  BY DEF Contains, Stored, ToSet
<1>8. /\ thread' \in Seq(Import!Event) /\ Stored' = Stored \cup {h}
      /\ h \notin Stored =>
           /\ DOMAIN thread' = 1 .. Len(thread) + 1
           /\ thread'[Len(thread) + 1] = h
           /\ \A i \in 1 .. Len(thread) : thread'[i] = thread[i]
      /\ h \in Stored => thread' = thread
  <2> HIDE DEF Import!Event
  <2>1. CASE h \in Stored
    BY <1>2, <1>3, <1>7, <2>1 DEF Stored
  <2>2. CASE h \notin Stored
    <3>1. thread' = Append(thread, h)
      BY <1>2, <1>7, <2>2
    <3>2. /\ thread' \in Seq(Import!Event) /\ DOMAIN thread' = 1 .. Len(thread) + 1
          /\ thread'[Len(thread) + 1] = h
          /\ \A i \in 1 .. Len(thread) : thread'[i] = thread[i]
      BY <1>3, <1>5, <1>6, <3>1, AppendProperties
    <3>3. \A i \in 1 .. Len(thread) + 1 : i \in 1 .. Len(thread) \/ i = Len(thread) + 1
      BY <1>6
    <3>4. \A i \in 1 .. Len(thread) : i \in 1 .. Len(thread) + 1
      BY <1>6
    <3>5. Len(thread) + 1 \in 1 .. Len(thread) + 1
      BY <1>6
    <3>6. ToSet(thread') = ToSet(thread) \cup {h}
      BY <1>6, <3>2, <3>3, <3>4, <3>5 DEF ToSet
    <3> QED
      BY <2>2, <3>2, <3>6 DEF Stored
  <2> QED
    BY <2>1, <2>2
<1>9. ToSet(events) = {h} \cup ToSet(events')
  <2>1. \A i \in 1 .. Len(events) : i = 1 \/ (i - 1 \in 1 .. Len(events) - 1 /\ i = (i - 1) + 1)
    BY <1>4
  <2>2. \A i \in 1 .. Len(events) - 1 : i + 1 \in 1 .. Len(events)
    BY <1>4
  <2>3. 1 \in 1 .. Len(events)
    BY <1>4
  <2>4. ToSet(events) \subseteq {h} \cup ToSet(events')
    <3> SUFFICES ASSUME NEW i \in 1 .. Len(events), i # 1 PROVE events[i] \in ToSet(events')
      BY <1>4 DEF ToSet
    <3>1. i - 1 \in DOMAIN events' /\ events'[i - 1] = events[i]
      BY <1>4, <2>1
    <3> QED
      BY <3>1 DEF ToSet
  <2>5. {h} \cup ToSet(events') \subseteq ToSet(events)
    BY <1>4, <2>2, <2>3 DEF ToSet
  <2> QED
    BY <2>4, <2>5
<1>10. Import!TypeOK'
  <2>1. /\ files \in Seq([session : Sessions, day : Nat, mtime : Nat,
                          away : BOOLEAN, lines : Seq(Import!Line)])
        /\ history \in Seq([n : Nat, session : Sessions]) /\ writes \in 0 .. MaxWrites
        /\ path \in 0 .. Len(files) /\ there \subseteq Import!Event /\ clipped \in BOOLEAN
        /\ told \in {"none", "complete", "truncated", "error"}
        /\ attaches \in 0 .. MaxAttaches
    BY <1>1 DEF Import!TypeOK
  <2> QED
    BY <1>2, <1>4, <1>8, <2>1 DEF Import!TypeOK
<1>11. FilesAreNumbered'
  BY <1>1, <1>2 DEF FilesAreNumbered
<1>12. \A f \in DOMAIN files : f # 0
  BY <1>1, FilesTyped
<1>13. path # 0 => EventsFit /\ path \in DOMAIN files
  BY <1>1, <1>2, FilesTyped DEF ImportFits, Import!TypeOK
<1>14. path = 0 => \A i \in DOMAIN events : events[i].file = 0
  BY <1>1, <1>2 DEF ImportFits
<1>15. 1 \in DOMAIN events
  BY <1>4
<1>16. h.file # 0 => path # 0 /\ h.file = path /\ h = Ev(path, h.n) /\ h.n \in Numbers(path)
  <2> SUFFICES ASSUME h.file # 0
               PROVE  path # 0 /\ h.file = path /\ h = Ev(path, h.n) /\ h.n \in Numbers(path)
    OBVIOUS
  <2>1. path # 0
    BY <1>4, <1>14, <1>15
  <2>2. h = Ev(path, h.n) /\ h.n \in Numbers(path)
    BY <1>4, <1>13, <1>15, <2>1 DEF EventsFit
  <2>3. h.file = path
    BY <2>2 DEF Ev
  <2> QED
    BY <2>1, <2>2, <2>3
<1>17. StoredAreThere'
  <2> SUFFICES ASSUME NEW e \in Stored \cup {h}, e.file # 0
               PROVE  e.file \in DOMAIN files /\ e = Ev(e.file, e.n) /\ e.n \in Numbers(e.file)
    BY <1>2, <1>8 DEF StoredAreThere, Numbers
  <2>1. CASE e \in Stored
    BY <1>1, <2>1 DEF StoredAreThere
  <2>2. CASE e = h
    BY <1>13, <1>16, <2>2
  <2> QED
    BY <2>1, <2>2
<1>18. NoHoles'
  <2> SUFFICES ASSUME NEW e \in Stored \cup {h}, NEW f \in DOMAIN files, e.file = f,
                      NEW n \in Selected(f), n < e.n
               PROVE  Ev(f, n) \in Stored \cup {h}
    BY <1>2, <1>8 DEF NoHoles, Selected
  <2>1. CASE e \in Stored
    BY <1>1, <2>1 DEF NoHoles
  <2>2. CASE e = h
    <3>1. f = path /\ path # 0
      BY <1>12, <1>16, <2>2
    <3>2. Ev(path, n) \in Stored \/ \E j \in DOMAIN events : j < 1 /\ events[j].n = n
      BY <1>4, <1>13, <1>15, <2>2, <3>1 DEF EventsFit
    <3>3. \A j \in DOMAIN events : ~(j < 1)
      BY <1>4
    <3> QED
      BY <3>1, <3>2, <3>3
  <2> QED
    BY <2>1, <2>2
<1>19. \A i \in DOMAIN events' : /\ i \in Nat /\ i + 1 \in DOMAIN events /\ 1 < i + 1
                                 /\ events'[i] = events[i + 1]
  BY <1>4
<1>20. ASSUME path # 0 PROVE EventsFit'
  <2>1. Ascends(events')
    <3> SUFFICES ASSUME NEW i \in DOMAIN events', NEW j \in DOMAIN events', i < j
                 PROVE  events'[i].n < events'[j].n
      BY DEF Ascends
    <3>1. i + 1 < j + 1
      BY <1>19
    <3> QED
      BY <1>13, <1>19, <1>20, <3>1 DEF EventsFit, Ascends
  <2>2. \A i \in DOMAIN events' :
          events'[i] = Ev(path, events'[i].n) /\ events'[i].n \in Numbers(path)
    BY <1>13, <1>19, <1>20 DEF EventsFit
  <2>3. ASSUME NEW i \in DOMAIN events', events'[i] \notin Stored \cup {h},
               NEW e \in Stored \cup {h}, e.file = path
        PROVE  e.n < events'[i].n
    <3>1. CASE e \in Stored
      BY <1>13, <1>19, <1>20, <2>3, <3>1 DEF EventsFit
    <3>2. CASE e = h
      <4>1. events[1].n < events[i + 1].n
        BY <1>13, <1>15, <1>19, <1>20 DEF EventsFit, Ascends
      <4> QED
        BY <1>4, <1>19, <3>2, <4>1
    <3> QED
      BY <2>3, <3>1, <3>2
  <2>4. ASSUME NEW i \in DOMAIN events', NEW n \in Selected(path), n < events'[i].n
        PROVE  \/ Ev(path, n) \in Stored \cup {h}
               \/ \E j \in DOMAIN events' : j < i /\ events'[j].n = n
    <3>1. Ev(path, n) \in Stored \/ \E j \in DOMAIN events : j < i + 1 /\ events[j].n = n
      BY <1>13, <1>19, <1>20, <2>4 DEF EventsFit
    <3>2. CASE Ev(path, n) \in Stored
      BY <3>2
    <3>3. ASSUME NEW j \in DOMAIN events, j < i + 1, events[j].n = n
          PROVE  \/ Ev(path, n) \in Stored \cup {h}
                 \/ \E m \in DOMAIN events' : m < i /\ events'[m].n = n
      <4>1. CASE j = 1
        <5>1. h = Ev(path, n)
          BY <1>4, <1>13, <1>15, <1>20, <3>3, <4>1 DEF EventsFit
        <5> QED
          BY <5>1
      <4>2. CASE j # 1
        <5>1. j - 1 \in DOMAIN events' /\ j - 1 < i /\ events'[j - 1] = events[j]
          BY <1>4, <1>19, <3>3, <4>2
        <5> QED
          BY <3>3, <5>1
      <4> QED
        BY <4>1, <4>2
    <3> QED
      BY <3>1, <3>2, <3>3
  <2>5. Numbers(path)' = Numbers(path) /\ Selected(path)' = Selected(path) /\ path' = path
    BY <1>2 DEF Numbers, Selected
  <2> QED
    BY <1>8, <2>1, <2>2, <2>3, <2>4, <2>5 DEF EventsFit
<1>21. ImportFits'
  BY <1>2, <1>14, <1>19, <1>20 DEF ImportFits
<1>22. ToSet(events') \cup Stored' = ToSet(events) \cup Stored
  BY <1>8, <1>9
<1>23. AllIsImported'
  BY <1>1, <1>2, <1>22 DEF AllIsImported
<1>24. Import!OldestAreLeftOut'
  <2> SUFFICES ASSUME path # 0, NEW e \in there, e \notin ToSet(events') \cup Stored',
                      NEW k \in DOMAIN events'
               PROVE  e.n < events'[k].n
    BY <1>2, ImpWords DEF Import!OldestAreLeftOut, Stored
  <2>1. e \notin ToSet(events) \cup ToSet(thread)
    BY <1>22 DEF Stored
  <2> QED
    BY <1>1, <1>2, <1>19, <2>1, ImpWords DEF Import!OldestAreLeftOut
<1>25. Import!InOrder'
  <2>1. CASE h \in Stored
    BY <1>1, <1>8, <2>1 DEF Import!InOrder
  <2>2. CASE h \notin Stored
    <3> SUFFICES ASSUME NEW i \in 1 .. Len(thread) + 1, NEW j \in 1 .. Len(thread) + 1, i < j,
                        thread'[i].file # 0, thread'[i].file = thread'[j].file
                 PROVE  thread'[i].n < thread'[j].n
      BY <1>8, <2>2 DEF Import!InOrder
    <3>1. i \in 1 .. Len(thread) /\ thread'[i] = thread[i]
      BY <1>6, <1>8, <2>2
    <3>2. thread[i] \in Stored
      BY <1>6, <3>1 DEF Stored, ToSet
    <3>3. CASE j \in 1 .. Len(thread)
      BY <1>1, <1>6, <1>8, <2>2, <3>1, <3>3 DEF Import!InOrder
    <3>4. CASE j = Len(thread) + 1
      <4>1. thread'[j] = h
        BY <1>8, <2>2, <3>4
      <4>2. path # 0 /\ thread[i].file = path
        BY <1>16, <3>1, <4>1
      <4>3. thread[i].n < h.n
        BY <1>4, <1>13, <1>15, <2>2, <3>2, <4>2 DEF EventsFit
      <4> QED
        BY <3>1, <4>1, <4>3
    <3> QED
      BY <1>6, <3>3, <3>4
  <2> QED
    BY <2>1, <2>2
<1>26. Import!NoSilentGap'
  BY <1>2, ImpWords DEF Import!NoSilentGap
<1> QED
  BY <1>10, <1>11, <1>17, <1>18, <1>21, <1>23, <1>24, <1>25, <1>26 DEF HistoryInv

LEMMA BackfillStarts == ASSUME Import!Init, Import!BackfillAssumption PROVE HistoryInv
<1>1. /\ files = <<>> /\ history = <<>> /\ writes = 0 /\ pc = "off" /\ path = 0 /\ events = <<>>
      /\ clipped = FALSE /\ there = {} /\ thread = <<>> /\ told = "none" /\ attaches = 0
  BY DEF Import!Init
<1>2. Import!TypeOK
  <2>1. MaxWrites \in Nat /\ MaxAttaches \in Nat
    BY DEF Import!BackfillAssumption
  <2>2. writes \in 0 .. MaxWrites /\ attaches \in 0 .. MaxAttaches /\ path \in 0 .. Len(files)
    BY <1>1, <2>1
  <2>3. /\ files \in Seq([session : Sessions, day : Nat, mtime : Nat,
                          away : BOOLEAN, lines : Seq(Import!Line)])
        /\ history \in Seq([n : Nat, session : Sessions])
        /\ events \in Seq(Import!Event) /\ thread \in Seq(Import!Event)
    BY <1>1
  <2> QED
    BY <1>1, <2>2, <2>3 DEF Import!TypeOK
<1>3. FilesAreNumbered /\ StoredAreThere /\ NoHoles /\ ImportFits /\ AllIsImported
  BY <1>1 DEF FilesAreNumbered, StoredAreThere, NoHoles, ImportFits, AllIsImported, Stored, ToSet
<1>4. Import!InOrder /\ Import!NoSilentGap /\ Import!OldestAreLeftOut
  BY <1>1, ImpWords DEF Import!InOrder, Import!NoSilentGap, Import!OldestAreLeftOut
<1> QED
  BY <1>2, <1>3, <1>4 DEF HistoryInv

LEMMA BackfillKeeps ==
    ASSUME HistoryInv, [Import!Next]_(Import!vars), Import!BackfillAssumption
    PROVE  HistoryInv'
<1>1. CASE Import!Next
  <2>1. CASE Import!Codex
    <3>1. Grows
      BY <2>1, CodexGrows DEF HistoryInv
    <3> QED
      BY <3>1, CodexKeeps
  <2>2. CASE Import!Attach
    BY <2>2, AttachKeeps
  <2>3. CASE Import!FindRolloutPath
    BY <2>3, FindRolloutPathKeeps
  <2>4. CASE Import!ReadRollout
    BY <2>4, ReadRolloutKeeps
  <2>5. CASE Import!ReadHistory
    BY <2>5, ReadHistoryKeeps
  <2>6. CASE Import!ReadFails \/ Import!ImportFails \/ Import!Detach
    BY <2>6, OthersKeep
  <2>7. CASE Import!ImportEvent
    BY <2>7, ImportEventKeeps
  <2>8. CASE Import!ImportEnds
    BY <2>8, ImportEndsKeeps
  <2> QED
    BY <1>1, <2>1, <2>2, <2>3, <2>4, <2>5, <2>6, <2>7, <2>8 DEF Import!Next
<1>2. CASE UNCHANGED Import!vars
  <2>1. UNCHANGED <<files, history, writes, pc, path, events, clipped, there, thread, told,
          attaches>>
    BY <1>2 DEF Import!vars, Import!disk
  <2>2. Import!TypeOK'
    BY <2>1 DEF HistoryInv, Import!TypeOK
  <2>3. FilesAreNumbered' /\ StoredAreThere' /\ NoHoles'
    BY <2>1 DEF HistoryInv, FilesAreNumbered, StoredAreThere, NoHoles, Stored, Numbers, Selected
  <2>4. ImportFits' /\ AllIsImported'
    BY <2>1 DEF HistoryInv, ImportFits, AllIsImported, EventsFit, Stored, Numbers, Selected
  <2>5. Import!InOrder' /\ Import!NoSilentGap' /\ Import!OldestAreLeftOut'
    BY <2>1, ImpWords DEF HistoryInv, Import!InOrder, Import!NoSilentGap, Import!OldestAreLeftOut
  <2> QED
    BY <2>2, <2>3, <2>4, <2>5 DEF HistoryInv
<1> QED
  BY <1>1, <1>2

(* However often a session is detached, used on the host and attached       *)
(* again, whatever Codex writes meanwhile and whichever imports fail: the   *)
(* records of a rollout stand in the thread in the order of the file, an    *)
(* import that is said not to be truncated leaves nothing out, and what a   *)
(* truncated one leaves out is older than all it brings.                    *)
THEOREM HistoryIsImported ==
    ASSUME Import!BackfillAssumption
    PROVE  Import!Spec => [](/\ Import!TypeOK /\ Import!InOrder /\ Import!NoSilentGap
                             /\ Import!OldestAreLeftOut)
<1>1. Import!Init => HistoryInv
  BY BackfillStarts
<1>2. HistoryInv /\ [Import!Next]_(Import!vars) => HistoryInv'
  BY BackfillKeeps
<1>3. HistoryInv => /\ Import!TypeOK /\ Import!InOrder /\ Import!NoSilentGap
                    /\ Import!OldestAreLeftOut
  BY DEF HistoryInv
<1> QED
  BY <1>1, <1>2, <1>3, PTL DEF Import!Spec
=============================================================================
