---------------------------- MODULE TimerListProofs ----------------------------
(***************************************************************************)
(* TimerList for any number of timers.                                     *)
(*                                                                         *)
(* The invariant names the order in which the list holds the timers        *)
(* (Chain): next and prev follow it, and expire does not decrease along    *)
(* it.  An operation drops one timer from that order or puts one in, and   *)
(* the helper's walk ends where the order asks for.  The service of        *)
(* TimerService follows step by step.                                      *)
(***************************************************************************)
EXTENDS TimerList, FiniteSetTheorems, TLAPS

\* Every set of naturals that is not empty has a least element: the proofs by
\* induction of this module look at the least counterexample.
LEMMA Least ==
  ASSUME NEW T \in SUBSET Nat, T # {}
  PROVE \E n \in T : \A m \in T : n <= m
  <1> DEFINE U == {0..n : n \in T}
  <1>1. \A n \in T : 0..n \in FiniteSubsetsOf(Nat)
    <2> SUFFICES ASSUME NEW n \in T PROVE 0..n \in FiniteSubsetsOf(Nat)
      OBVIOUS
    <2>1. IsFiniteSet(0..n)
      BY FS_Interval
    <2>2. 0..n \subseteq Nat
      OBVIOUS
    <2> QED BY <2>1, <2>2 DEF FiniteSubsetsOf
  <1>2. PICK x \in U : \A y \in U : ~ (<<y, x>> \in StrictSubsetOrdering(Nat))
    <2>1. U # {} /\ U \subseteq FiniteSubsetsOf(Nat)
      BY <1>1
    <2> HIDE DEF U
    <2> QED BY <2>1, FS_StrictSubsetOrderingWellFounded, WFMin
  <1>3. PICK n \in T : x = 0..n
    OBVIOUS
  <1>4. ASSUME NEW m \in T, m < n PROVE FALSE
    <2>1. 0..m \in U /\ 0..m \subseteq 0..n /\ n \in 0..n /\ n \notin 0..m
      BY <1>4
    <2>2. 0..m \in SUBSET Nat /\ 0..n \in SUBSET Nat
      OBVIOUS
    <2> HIDE DEF U
    <2> QED BY <2>1, <2>2, <1>2, <1>3 DEF StrictSubsetOrdering
  <1> QED BY <1>4

\* The walk of the helper has a value wherever it begins, even where pointers
\* of freed timers turn in a circle: the end of all that next leads to.
LEMMA WalkDefined ==
  ASSUME NEW l, l.next \in [Timer -> Timer \cup {NULL}], NEW t, NEW e
  PROVE  \A p \in Timer : Walk(l, t, e)[p] =
            IF StopsAt(l, t, e, p) THEN p ELSE Walk(l, t, e)[l.next[p]]
  <1> DEFINE Stop(p) == StopsAt(l, t, e, p)
             Closed(C) == \A q \in C : Stop(q) \/ l.next[q] \in C
             Ends(p) == {q \in Timer : /\ Stop(q)
                                      /\ \A C \in SUBSET Timer :
                                            p \in C /\ Closed(C) => q \in C}
             f == [p \in Timer |-> CHOOSE q : q \in Ends(p)]
             W(g) == [p \in Timer |-> IF Stop(p) THEN p ELSE g[l.next[p]]]
  <1>1. ASSUME NEW p \in Timer, Stop(p) PROVE f[p] = p
    <2>1. Closed({p})
      BY <1>1
    <2> HIDE DEF Stop, Closed
    <2>2. Ends(p) = {p}
      BY <1>1, <2>1
    <2> QED BY <2>2
  <1>2. ASSUME NEW p \in Timer, ~Stop(p) PROVE f[p] = f[l.next[p]] /\ l.next[p] \in Timer
    <2> DEFINE n == l.next[p]
    <2>1. n \in Timer
      BY <1>2 DEF StopsAt
    <2> HIDE DEF Stop, n
    <2>2. ASSUME NEW q \in Ends(p), NEW C \in SUBSET Timer, n \in C, Closed(C)
          PROVE  q \in C
      <3>1. C \cup {p} \in SUBSET Timer /\ Closed(C \cup {p})
        BY <2>2 DEF n
      <3>2. q \in C \cup {p}
        BY <3>1
      <3> QED BY <3>2, <1>2
    <2>3. ASSUME NEW q \in Ends(n), NEW C \in SUBSET Timer, p \in C, Closed(C)
          PROVE  q \in C
      <3>1. n \in C
        BY <2>3, <1>2 DEF n
      <3> QED BY <2>3, <3>1
    <2>4. Ends(p) = Ends(n) 
      <3> HIDE DEF Closed
      <3> QED BY <2>2, <2>3
    <2> HIDE DEF Ends
    <2> QED BY <2>1, <2>4 DEF n
  <1>3. f = W(f)
    <2> HIDE DEF Stop, Ends
    <2> QED BY <1>1, <1>2
  <1>4. Walk(l, t, e) = CHOOSE g : g = W(g)
    BY DEF Walk
  <1>5. Walk(l, t, e) = W(Walk(l, t, e))
    <2> HIDE DEF f, W
    <2> QED BY <1>3, <1>4
  <1> HIDE DEF f
  <1> QED BY <1>5
-----------------------------------------------------------------------------
\* s is the order in which the list l holds the n timers of A.
Chain(l, A, n, s) ==
    /\ n \in Nat
    /\ s \in [1..n -> A]
    /\ \A i, j \in 1..n : s[i] = s[j] => i = j
    /\ \A t \in A : \E i \in 1..n : s[i] = t
    /\ l.head = IF n = 0 THEN NULL ELSE s[1]
    /\ n > 0 => l.tail = s[n]
    /\ \A i \in 1..n : l.next[s[i]] = IF i = n THEN NULL ELSE s[i + 1]
    /\ \A i \in 1..n : l.prev[s[i]] = IF i = 1 THEN NULL ELSE s[i - 1]

InOrder(e, n, s) == \A i, j \in 1..n : i <= j => e[s[i]] <= e[s[j]]

Lists ==
    [head : Timer \cup {NULL}, tail : Timer \cup {NULL},
     next : [Timer -> Timer \cup {NULL}], prev : [Timer -> Timer \cup {NULL}]]

\* The walk over a sorted chain stops behind the timers that are not later and
\* before the ones that are.
LEMMA WalkStops ==
  ASSUME NEW l \in Lists, NEW A \in SUBSET Timer, NEW n, NEW s, Chain(l, A, n, s),
         NEW e \in [Timer -> Nat], InOrder(e, n, s),
         NEW t \in Timer, NEW k \in 1..n, e[s[k]] <= e[t]
  PROVE  \E m \in k..n : /\ Walk(l, t, e)[s[k]] = s[m]
                         /\ \A i \in 1..m : e[s[i]] <= e[t]
                         /\ \A i \in m + 1..n : e[t] < e[s[i]]
  <1> DEFINE W == Walk(l, t, e)
  <1>0. /\ n \in Nat /\ s \in [1..n -> Timer]
        /\ \A i \in 1..n : l.next[s[i]] = IF i = n THEN NULL ELSE s[i + 1]
        /\ NULL \notin Timer
    BY TimersAssumption DEF Chain
  <1>1. \A i \in 1..n : StopsAt(l, t, e, s[i]) <=> i = n \/ e[t] < e[s[i + 1]]
    BY <1>0 DEF StopsAt
  <1>2. \A i \in 1..n : W[s[i]] = IF i = n \/ e[t] < e[s[i + 1]] THEN s[i] ELSE W[s[i + 1]]
    <2> SUFFICES ASSUME NEW i \in 1..n
                 PROVE  W[s[i]] = IF i = n \/ e[t] < e[s[i + 1]] THEN s[i] ELSE W[s[i + 1]]
      OBVIOUS
    <2>1. l.next \in [Timer -> Timer \cup {NULL}]
      BY DEF Lists
    <2>2. s[i] \in Timer
      BY <1>0
    <2>3. W[s[i]] = IF StopsAt(l, t, e, s[i]) THEN s[i] ELSE W[l.next[s[i]]]
      BY <2>1, <2>2, WalkDefined
    <2> HIDE DEF W
    <2> QED BY <2>3, <1>0, <1>1
  <1> HIDE DEF W
  <1> DEFINE Stops == {i \in k..n : i = n \/ e[t] < e[s[i + 1]]}
  <1>3. PICK m \in Stops : \A i \in Stops : m <= i
    <2>1. n \in Stops
      BY <1>0
    <2> HIDE DEF Stops
    <2>2. Stops \in SUBSET Nat
      BY <1>0 DEF Stops
    <2> QED BY <2>1, <2>2, Least
  <1>3a. m \in k..n /\ k \in Nat /\ n \in Nat /\ k >= 1
    BY <1>0
  <1>4. \A i \in k..m - 1 : e[s[i + 1]] <= e[t] /\ W[s[i]] = W[s[i + 1]]
    <2> SUFFICES ASSUME NEW i \in k..m - 1
                 PROVE  e[s[i + 1]] <= e[t] /\ W[s[i]] = W[s[i + 1]]
      OBVIOUS
    <2>0. i \in Int /\ k <= i /\ i <= m - 1
      BY <1>3a
    <2>1. i \notin Stops /\ i \in k..n 
      <3>1. ~(m <= i)
        BY <2>0, <1>3a
      <3>2. i \in k..n
        BY <2>0, <1>3a
      <3> HIDE DEF Stops
      <3> QED BY <1>3, <3>1, <3>2
    <2>2. i # n /\ ~(e[t] < e[s[i + 1]]) /\ i \in 1..n /\ i + 1 \in 1..n
      BY <2>1, <1>0
    <2> QED BY <2>2, <1>0, <1>2
  <1>5. W[s[m]] = s[m]
    BY <1>0, <1>2, <1>3
  <1>6. W[s[k]] = s[m]
    <2> DEFINE Off == {d \in 0..m - k : W[s[m - d]] # s[m]}
    <2>1. CASE Off = {}
      <3>1. m - k \in 0..m - k /\ m - (m - k) = k
        BY <1>0, <1>3
      <3> QED BY <2>1, <3>1
    <2>2. CASE Off # {}
      <3>1. PICK d \in Off : \A c \in Off : d <= c
        <4> HIDE DEF Off
        <4>1. Off \in SUBSET Nat
          BY <1>0 DEF Off
        <4> QED BY <2>2, <4>1, Least
      <3>2. d # 0
        BY <1>5, <3>1, <1>3, <1>0
      <3>2a. d \in 0..m - k /\ d - 1 \in 0..m - k /\ ~(d <= d - 1) /\ d \in Int
        BY <3>2, <1>3a
      <3>3. d - 1 \notin Off
        <4> HIDE DEF Off
        <4> QED BY <3>1, <3>2a
      <3>4. m - d \in k..m - 1 /\ m - (d - 1) = m - d + 1
        BY <3>2a, <3>2, <1>3a
      <3>5. W[s[m - d + 1]] = s[m]
        BY <3>2a, <3>3, <3>4
      <3>6. W[s[m - d]] = s[m]
        BY <3>5, <3>4, <1>4
      <3> QED BY <3>1, <3>6
    <2> QED BY <2>1, <2>2
  <1>7. e[s[m]] <= e[t]
    <2>1. CASE m = k
      BY <2>1
    <2>2. CASE m # k 
      <3>1. m - 1 \in k..m - 1 /\ (m - 1) + 1 = m
        BY <2>2, <1>0, <1>3
      <3> QED BY <3>1, <1>4
    <2> QED BY <2>1, <2>2
  <1>8. \A i \in 1..n : e[s[i]] \in Nat
    BY <1>0
  <1>9. \A i \in 1..m : e[s[i]] <= e[t] 
    BY <1>0, <1>3, <1>7, <1>8 DEF InOrder
  <1>10. \A i \in m + 1..n : e[t] < e[s[i]]
    <2> SUFFICES ASSUME NEW i \in m + 1..n PROVE e[t] < e[s[i]]
      OBVIOUS
    <2>1. m # n /\ m + 1 \in 1..n /\ i \in 1..n /\ m + 1 <= i
      BY <1>0, <1>3
    <2>2. e[t] < e[s[m + 1]]
      BY <2>1, <1>3
    <2>3. e[s[m + 1]] <= e[s[i]]
      BY <2>1 DEF InOrder
    <2> QED BY <2>1, <2>2, <2>3, <1>8
  <1> QED BY <1>0, <1>3, <1>6, <1>9, <1>10 DEF W

\* From the head next leads through the chain and then nowhere.
LEMMA MetIsChain ==
  ASSUME NEW l \in Lists, NEW A \in SUBSET Timer, NEW n, NEW s, Chain(l, A, n, s)
  PROVE  Linked(l) = A
  <1> DEFINE C == Cardinality(Timer)
  <1>0. /\ n \in Nat /\ s \in [1..n -> A] /\ NULL \notin Timer
        /\ \A i, j \in 1..n : s[i] = s[j] => i = j
        /\ \A t \in A : \E i \in 1..n : s[i] = t
        /\ l.head = IF n = 0 THEN NULL ELSE s[1]
        /\ \A i \in 1..n : l.next[s[i]] = IF i = n THEN NULL ELSE s[i + 1]
    BY TimersAssumption DEF Chain
  <1>1. C \in Nat /\ n <= C
    <2>1. IsFiniteSet(Timer)
      BY TimersAssumption
    <2>2. C \in Nat
      BY <2>1, FS_CardinalityType
    <2>3. IsFiniteSet(1..n) /\ Cardinality(1..n) = n
      <3>1. 1 \in Int /\ n \in Int /\ n \in Nat
        BY <1>0
      <3>2. IsFiniteSet(1..n) /\ Cardinality(1..n) = IF 1 > n THEN 0 ELSE n - 1 + 1
        BY <3>1, FS_Interval
      <3> QED BY <3>1, <3>2
    <2>4. CASE n <= C
      BY <2>2, <2>4
    <2>5. CASE ~(n <= C)
      <3>1. s \in [1..n -> Timer]
        BY <1>0
      <3>2. \E i, j \in 1..n : i # j /\ s[i] = s[j]
        BY <2>1, <2>2, <2>3, <2>5, <3>1, <1>0, FS_PigeonHole
      <3> QED BY <3>2, <1>0
    <2> QED BY <2>2, <2>4, <2>5
  <1> DEFINE step(g, k) == IF k = 0 THEN l.head
                           ELSE IF g[k - 1] = NULL THEN NULL ELSE l.next[g[k - 1]]
             S(g) == [k \in 0..C |-> step(g, k)]
             g0 == [k \in 0..C |-> IF k < n THEN s[k + 1] ELSE NULL]
             M == Met(l)
  <1>2. g0 = S(g0)
    <2> HIDE DEF C
    <2> SUFFICES ASSUME NEW k \in 0..C PROVE g0[k] = step(g0, k)
      OBVIOUS
    <2>1. CASE k = 0
      BY <2>1, <1>0, <1>1
    <2>2. CASE k # 0
      <3>1. k - 1 \in 0..C /\ (k - 1) + 1 = k
        BY <2>2, <1>1
      <3>2. CASE k - 1 < n
        <4>1. g0[k - 1] = s[k] /\ k \in 1..n
          BY <3>1, <3>2, <1>0
        <4>2. s[k] # NULL
          BY <4>1, <1>0
        <4>3. l.next[s[k]] = IF k = n THEN NULL ELSE s[k + 1]
          BY <4>1, <1>0
        <4> QED BY <4>1, <4>2, <4>3, <2>2, <1>0
      <3>3. CASE ~(k - 1 < n)
        <4>1. g0[k - 1] = NULL /\ ~(k < n)
          BY <3>1, <3>3, <1>0
        <4> QED BY <4>1, <2>2
      <3> QED BY <3>2, <3>3
    <2> QED BY <2>1, <2>2
  <1>3. M = S(M)
    <2>1. M = CHOOSE g : g = S(g)
      BY DEF Met
    <2> HIDE DEF M, S, g0
    <2> QED BY <2>1, <1>2
  <1>4. \A k \in 0..C : M[k] = step(M, k) /\ g0[k] = step(g0, k)
    <2>1. \A k \in 0..C : S(M)[k] = step(M, k) /\ S(g0)[k] = step(g0, k)
      OBVIOUS
    <2> HIDE DEF M, S, g0, step, C
    <2> QED BY <2>1, <1>2, <1>3
  <1>5. \A k \in 0..C : M[k] = g0[k]
    <2> HIDE DEF M, g0, C
    <2> DEFINE Off == {k \in 0..C : M[k] # g0[k]}
    <2>1. CASE Off = {}
      BY <2>1
    <2>2. CASE Off # {}
      <3>1. PICK k \in Off : \A j \in Off : k <= j
        <4> HIDE DEF Off
        <4>1. Off \in SUBSET Nat
          BY <1>1 DEF Off
        <4> QED BY <2>2, <4>1, Least
      <3>2. k # 0
        BY <1>4, <3>1
      <3>3. k - 1 \in 0..C /\ k - 1 \notin Off
        BY <3>1, <3>2, <1>1
      <3>4. M[k - 1] = g0[k - 1]
        BY <3>3
      <3> QED BY <3>1, <3>4, <1>4
    <2> QED BY <2>1, <2>2
  <1>6. Linked(l) = {M[k] : k \in 0..C} \ {NULL}
    BY DEF Linked
  <1> HIDE DEF M, C
  <1>7. ASSUME NEW t \in A PROVE t \in Linked(l)
    <2>1. PICK i \in 1..n : s[i] = t
      BY <1>0
    <2>2. i - 1 \in 0..C /\ i - 1 < n /\ (i - 1) + 1 = i
      BY <1>0, <1>1
    <2>3. g0[i - 1] = t /\ t # NULL
      BY <2>1, <2>2, <1>0
    <2> HIDE DEF g0
    <2> QED BY <1>5, <1>6, <2>2, <2>3
  <1>8. ASSUME NEW t \in Linked(l) PROVE t \in A
    <2>1. PICK k \in 0..C : M[k] = t /\ t # NULL
      BY <1>6
    <2>2. g0[k] = t
      BY <2>1, <1>5
    <2>3. k < n /\ k + 1 \in 1..n
      BY <2>1, <2>2, <1>0, <1>1
    <2> QED BY <2>2, <2>3, <1>0
  <1> QED BY <1>7, <1>8
-----------------------------------------------------------------------------
(* What an operation does to the order of the timers *)

\* s without its k-th timer, and s with t behind the m-th.
Drop(n, s, k) == [i \in 1..n - 1 |-> IF i < k THEN s[i] ELSE s[i + 1]]
Put(n, s, m, t) ==
    [i \in 1..n + 1 |-> IF i <= m THEN s[i] ELSE IF i = m + 1 THEN t ELSE s[i - 1]]

\* The pointers that go around the k-th timer leave a chain of the others.
LEMMA Dropped ==
  ASSUME NEW l, NEW l2, NEW A \in SUBSET Timer, NEW n, NEW s, Chain(l, A, n, s),
         NEW k \in 1..n,
         l2.head = IF k # 1 THEN l.head ELSE IF n = 1 THEN NULL ELSE s[2],
         n > 1 => l2.tail = IF k = n THEN s[n - 1] ELSE l.tail,
         \A i \in 1..n : i # k =>
            l2.next[s[i]] = IF i + 1 = k THEN l.next[s[k]] ELSE l.next[s[i]],
         \A i \in 1..n : i # k =>
            l2.prev[s[i]] = IF i = k + 1 THEN l.prev[s[k]] ELSE l.prev[s[i]]
  PROVE  Chain(l2, A \ {s[k]}, n - 1, Drop(n, s, k))
  <1> DEFINE d == Drop(n, s, k)
  <1>0. /\ n \in Nat /\ n >= 1 /\ k \in Int /\ 1 <= k /\ k <= n
        /\ s \in [1..n -> A]
        /\ \A i, j \in 1..n : s[i] = s[j] => i = j
        /\ \A t \in A : \E i \in 1..n : s[i] = t
        /\ l.head = s[1]
        /\ l.tail = s[n]
        /\ \A i \in 1..n : l.next[s[i]] = IF i = n THEN NULL ELSE s[i + 1]
        /\ \A i \in 1..n : l.prev[s[i]] = IF i = 1 THEN NULL ELSE s[i - 1]
    BY DEF Chain
  <1>a. n \in Nat /\ k \in Int /\ 1 <= k /\ k <= n
    BY <1>0
  <1>1. /\ d = [i \in 1..n - 1 |-> d[i]]
        /\ \A i \in 1..n - 1 : i < k => d[i] = s[i] /\ i \in 1..n
        /\ \A i \in 1..n - 1 : ~(i < k) => d[i] = s[i + 1] /\ i + 1 \in 1..n
    BY <1>0 DEF Drop
  <1> HIDE DEF d
  <1>2. \A i \in 1..n - 1 : d[i] \in A \ {s[k]}
    BY <1>0, <1>1
  <1>3. d \in [1..n - 1 -> A \ {s[k]}]
    BY <1>1, <1>2
  <1>4. \A i, j \in 1..n - 1 : d[i] = d[j] => i = j
    BY <1>0, <1>1
  <1>5. ASSUME NEW t \in A \ {s[k]} PROVE \E i \in 1..n - 1 : d[i] = t
    <2>1. PICK j \in 1..n : s[j] = t
      BY <1>0
    <2>2. CASE j < k
      <3>1. j \in 1..n - 1
        BY <1>0, <2>2
      <3> QED BY <1>1, <2>1, <2>2, <3>1
    <2>3. CASE j > k
      <3>1. j - 1 \in 1..n - 1 /\ ~(j - 1 < k) /\ (j - 1) + 1 = j
        BY <1>0, <2>3
      <3> QED BY <1>1, <2>1, <3>1
    <2> QED BY <1>0, <2>1, <2>2, <2>3
  <1>6. l2.head = IF n - 1 = 0 THEN NULL ELSE d[1]
    BY <1>0, <1>1
  <1>7. n - 1 > 0 => l2.tail = d[n - 1]
    BY <1>0, <1>1
  <1>8. ASSUME NEW i \in 1..n - 1
        PROVE  l2.next[d[i]] = IF i = n - 1 THEN NULL ELSE d[i + 1]
    <2>1. CASE i + 1 < k
      <3>1. i \in 1..n /\ i + 1 \in 1..n - 1 /\ i # n - 1 /\ i # k /\ i # n
        BY <1>a, <2>1
      <3> QED BY <1>0, <1>1, <2>1, <3>1
    <2>2. CASE i + 1 = k
      <3>1. i \in 1..n /\ i # k /\ i < k
        BY <1>0, <2>2
      <3>2. l2.next[d[i]] = IF k = n THEN NULL ELSE s[k + 1]
        BY <1>0, <1>1, <2>2, <3>1
      <3>3. k # n => k \in 1..n - 1
        BY <1>0
      <3> QED BY <1>0, <1>1, <2>2, <3>2, <3>3
    <2>3. CASE i >= k
      <3>1. i + 1 \in 1..n /\ i + 1 # k /\ i + 1 + 1 # k /\ ~(i < k)
        BY <1>0, <2>3
      <3>2. l2.next[d[i]] = IF i + 1 = n THEN NULL ELSE s[i + 1 + 1]
        BY <1>0, <1>1, <3>1
      <3>3. i + 1 # n => i + 1 \in 1..n - 1 /\ ~(i + 1 < k)
        BY <1>0, <2>3
      <3> QED BY <1>0, <1>1, <3>2, <3>3
    <2> QED BY <1>0, <2>1, <2>2, <2>3
  <1>9. ASSUME NEW i \in 1..n - 1
        PROVE  l2.prev[d[i]] = IF i = 1 THEN NULL ELSE d[i - 1]
    <2>1. CASE i < k
      <3>1. i \in 1..n /\ i # k /\ i # k + 1
        BY <1>0, <2>1
      <3>2. l2.prev[d[i]] = IF i = 1 THEN NULL ELSE s[i - 1]
        BY <1>0, <1>1, <2>1, <3>1
      <3>3. i # 1 => i - 1 \in 1..n - 1 /\ i - 1 < k
        BY <1>0, <2>1
      <3> QED BY <1>0, <1>1, <3>2, <3>3
    <2>2. CASE i = k
      <3>1. i + 1 \in 1..n /\ i + 1 # k /\ i + 1 = k + 1 /\ ~(i < k)
        BY <1>a, <2>2
      <3>2. l2.prev[d[i]] = IF k = 1 THEN NULL ELSE s[k - 1]
        <4>1. d[i] = s[i + 1]
          BY <1>1, <3>1
        <4>2. l2.prev[s[i + 1]] = l.prev[s[k]]
          BY <3>1
        <4>3. l.prev[s[k]] = IF k = 1 THEN NULL ELSE s[k - 1]
          BY <1>0
        <4> QED BY <4>1, <4>2, <4>3
      <3>3. i # 1 => i - 1 \in 1..n - 1 /\ i - 1 < k
        BY <1>0, <2>2
      <3> QED BY <1>0, <1>1, <2>2, <3>2, <3>3
    <2>3. CASE i > k
      <3>1. i + 1 \in 1..n /\ i + 1 # k /\ i + 1 # k + 1 /\ ~(i < k) /\ i # 1
        BY <1>0, <2>3
      <3>2. l2.prev[d[i]] = s[i]
        BY <1>0, <1>1, <3>1
      <3>3. i - 1 \in 1..n - 1 /\ ~(i - 1 < k) /\ (i - 1) + 1 = i
        BY <1>0, <2>3
      <3> QED BY <1>0, <1>1, <3>1, <3>2, <3>3
    <2> QED BY <1>0, <2>1, <2>2, <2>3
  <1>10. n - 1 \in Nat
    BY <1>0
  <1> QED BY <1>3, <1>4, <1>5, <1>6, <1>7, <1>8, <1>9, <1>10 DEF Chain, d

\* The others keep their order.
LEMMA DroppedInOrder ==
  ASSUME NEW A, NEW n \in Nat, NEW s \in [1..n -> A], NEW k \in 1..n,
         \A i, j \in 1..n : s[i] = s[j] => i = j,
         NEW e, InOrder(e, n, s)
  PROVE  InOrder(e, n - 1, Drop(n, s, k))
  <1> DEFINE d == Drop(n, s, k)
  <1> SUFFICES ASSUME NEW i \in 1..n - 1, NEW j \in 1..n - 1, i <= j
               PROVE  e[d[i]] <= e[d[j]]
    BY DEF InOrder
  <1>1. PICK x \in 1..n : d[i] = s[x] /\ x # k /\ x = IF i < k THEN i ELSE i + 1
    BY DEF Drop
  <1>2. PICK y \in 1..n : d[j] = s[y] /\ y # k /\ y = IF j < k THEN j ELSE j + 1
    BY DEF Drop
  <1>3. x <= y
    BY <1>1, <1>2
  <1>4. e[s[x]] <= e[s[y]]
    BY <1>3 DEF InOrder
  <1> QED BY <1>1, <1>2, <1>4

\* The pointers that lead through t behind the m-th timer make a chain with t.
LEMMA Inserted ==
  ASSUME NEW l, NEW l2, NEW A \in SUBSET Timer, NEW n, NEW s, Chain(l, A, n, s),
         NEW t \in Timer, t \notin A, NEW m \in 0..n,
         l2.head = IF m = 0 THEN t ELSE l.head,
         l2.tail = IF m = n THEN t ELSE l.tail,
         l2.next[t] = IF m = n THEN NULL ELSE s[m + 1],
         l2.prev[t] = IF m = 0 THEN NULL ELSE s[m],
         \A i \in 1..n : l2.next[s[i]] = IF i = m THEN t ELSE l.next[s[i]],
         \A i \in 1..n : l2.prev[s[i]] = IF i = m + 1 THEN t ELSE l.prev[s[i]]
  PROVE  Chain(l2, A \cup {t}, n + 1, Put(n, s, m, t))
  <1> DEFINE d == Put(n, s, m, t)
  <1>0. /\ n \in Nat /\ m \in Int /\ 0 <= m /\ m <= n
        /\ s \in [1..n -> A]
        /\ \A i, j \in 1..n : s[i] = s[j] => i = j
        /\ \A u \in A : \E i \in 1..n : s[i] = u
        /\ l.head = IF n = 0 THEN NULL ELSE s[1]
        /\ n > 0 => l.tail = s[n]
        /\ \A i \in 1..n : l.next[s[i]] = IF i = n THEN NULL ELSE s[i + 1]
        /\ \A i \in 1..n : l.prev[s[i]] = IF i = 1 THEN NULL ELSE s[i - 1]
    BY DEF Chain
  <1>1. /\ d = [i \in 1..n + 1 |-> d[i]]
        /\ \A i \in 1..n + 1 : i <= m => d[i] = s[i] /\ i \in 1..n
        /\ d[m + 1] = t /\ m + 1 \in 1..n + 1
        /\ \A i \in 1..n + 1 : i > m + 1 => d[i] = s[i - 1] /\ i - 1 \in 1..n
    BY <1>0 DEF Put
  <1> HIDE DEF d
  <1>11. \A i \in 1..n + 1 : i <= m \/ i = m + 1 \/ i > m + 1
    BY <1>0
  <1>2. \A i \in 1..n + 1 : d[i] \in A \cup {t}
    BY <1>0, <1>1, <1>11
  <1>3. d \in [1..n + 1 -> A \cup {t}]
    BY <1>1, <1>2
  <1>4. ASSUME NEW i \in 1..n + 1, NEW j \in 1..n + 1, d[i] = d[j]
        PROVE  i = j
    <2>1. \A x \in 1..n : s[x] # t
      BY <1>0
    <2> QED BY <1>0, <1>1, <1>4, <2>1
  <1>5. ASSUME NEW u \in A \cup {t} PROVE \E i \in 1..n + 1 : d[i] = u
    <2>1. CASE u = t
      BY <1>1, <2>1
    <2>2. CASE u # t
      <3>1. PICK j \in 1..n : s[j] = u
        BY <1>0, <2>2
      <3>2. CASE j <= m
        <4>1. j \in 1..n + 1
          BY <1>0
        <4> QED BY <1>1, <3>1, <3>2, <4>1
      <3>3. CASE ~(j <= m)
        <4>1. j + 1 \in 1..n + 1 /\ j + 1 > m + 1 /\ (j + 1) - 1 = j
          BY <1>0, <3>3
        <4> QED BY <1>1, <3>1, <4>1
      <3> QED BY <3>2, <3>3
    <2> QED BY <2>1, <2>2
  <1>6. l2.head = IF n + 1 = 0 THEN NULL ELSE d[1]
    BY <1>0, <1>1
  <1>7. n + 1 > 0 => l2.tail = d[n + 1]
    BY <1>0, <1>1
  <1>8. ASSUME NEW i \in 1..n + 1
        PROVE  l2.next[d[i]] = IF i = n + 1 THEN NULL ELSE d[i + 1]
    <2>1. CASE i <= m
      <3>1. i \in 1..n /\ i + 1 \in 1..n + 1 /\ i # n + 1 /\ d[i] = s[i]
        BY <1>0, <1>1, <2>1
      <3>2. CASE i = m
        BY <1>1, <3>1, <3>2
      <3>3. CASE i # m
        <4>1. i + 1 <= m /\ i # n
          BY <1>0, <2>1, <3>3
        <4> QED BY <1>0, <1>1, <3>1, <3>3, <4>1
      <3> QED BY <3>2, <3>3
    <2>2. CASE i = m + 1
      <3>1. m # n => m + 1 + 1 \in 1..n + 1 /\ m + 1 + 1 > m + 1 /\ (m + 1 + 1) - 1 = m + 1
        BY <1>0
      <3> QED BY <1>0, <1>1, <2>2, <3>1
    <2>3. CASE i > m + 1
      <3>1. i - 1 \in 1..n /\ i - 1 # m /\ d[i] = s[i - 1] /\ (i - 1) + 1 = i
        BY <1>0, <1>1, <2>3
      <3>2. l2.next[d[i]] = IF i - 1 = n THEN NULL ELSE s[i]
        BY <1>0, <3>1
      <3>3. i # n + 1 => i + 1 \in 1..n + 1 /\ i + 1 > m + 1 /\ (i + 1) - 1 = i
        BY <1>0, <2>3
      <3> QED BY <1>0, <1>1, <3>2, <3>3
    <2> QED BY <1>11, <2>1, <2>2, <2>3
  <1>9. ASSUME NEW i \in 1..n + 1
        PROVE  l2.prev[d[i]] = IF i = 1 THEN NULL ELSE d[i - 1]
    <2>1. CASE i <= m
      <3>1. i \in 1..n /\ i # m + 1 /\ d[i] = s[i]
        BY <1>0, <1>1, <2>1
      <3>2. l2.prev[d[i]] = IF i = 1 THEN NULL ELSE s[i - 1]
        BY <1>0, <3>1
      <3>3. i # 1 => i - 1 \in 1..n + 1 /\ i - 1 <= m
        BY <1>0, <2>1
      <3> QED BY <1>1, <3>2, <3>3
    <2>2. CASE i = m + 1
      <3>1. m # 0 => m \in 1..n + 1 /\ m <= m
        BY <1>0
      <3>2. (m + 1) - 1 = m /\ (m + 1 = 1 <=> m = 0)
        BY <1>0
      <3> QED BY <1>1, <2>2, <3>1, <3>2
    <2>3. CASE i > m + 1
      <3>1. i - 1 \in 1..n /\ i # 1 /\ d[i] = s[i - 1] /\ i - 1 \in 1..n + 1
        BY <1>0, <1>1, <2>3
      <3>2. CASE i - 1 = m + 1
        BY <1>1, <3>1, <3>2
      <3>3. CASE i - 1 # m + 1
        <4>1. i - 1 > m + 1 /\ i - 1 # 1
          BY <1>0, <2>3, <3>3
        <4>2. l2.prev[d[i]] = s[(i - 1) - 1]
          BY <1>0, <3>1, <3>3, <4>1
        <4> QED BY <1>1, <3>1, <4>1, <4>2
      <3> QED BY <3>2, <3>3
    <2> QED BY <1>11, <2>1, <2>2, <2>3
  <1>10. n + 1 \in Nat
    BY <1>0
  <1> QED BY <1>3, <1>4, <1>5, <1>6, <1>7, <1>8, <1>9, <1>10 DEF Chain, d

\* The order is kept when t is not earlier than what precedes it and not later
\* than what follows.
LEMMA InsertedInOrder ==
  ASSUME NEW A \in SUBSET Timer, NEW n \in Nat, NEW s \in [1..n -> A],
         NEW e \in [Timer -> Nat], InOrder(e, n, s),
         NEW t \in Timer, NEW m \in 0..n,
         \A i \in 1..m : e[s[i]] <= e[t],
         \A i \in m + 1..n : e[t] <= e[s[i]]
  PROVE  InOrder(e, n + 1, Put(n, s, m, t))
  <1> DEFINE d == Put(n, s, m, t)
  <1>1. /\ \A i \in 1..n + 1 : i <= m => d[i] = s[i] /\ i \in 1..n
        /\ \A i \in 1..n + 1 : i = m + 1 => d[i] = t
        /\ \A i \in 1..n + 1 : i > m + 1 => d[i] = s[i - 1] /\ i - 1 \in 1..n /\ i - 1 \in m + 1..n
    BY DEF Put
  <1> HIDE DEF d
  <1> SUFFICES ASSUME NEW i \in 1..n + 1, NEW j \in 1..n + 1, i <= j
               PROVE  e[d[i]] <= e[d[j]]
    BY DEF InOrder, d
  <1>2. e[t] \in Nat /\ \A x \in 1..n : e[s[x]] \in Nat
    OBVIOUS
  <1>3. CASE i <= m /\ j <= m
    BY <1>1, <1>3 DEF InOrder
  <1>4. CASE i <= m /\ j = m + 1
    BY <1>1, <1>4
  <1>5. CASE i <= m /\ j > m + 1
    <2>1. i <= j - 1
      BY <1>5
    <2> QED BY <1>1, <1>5, <2>1 DEF InOrder
  <1>6. CASE i = m + 1 /\ j = m + 1
    BY <1>1, <1>2, <1>6
  <1>7. CASE i = m + 1 /\ j > m + 1
    BY <1>1, <1>7
  <1>8. CASE i > m + 1 /\ j > m + 1
    <2>1. i - 1 <= j - 1
      BY <1>8
    <2> QED BY <1>1, <1>8, <2>1 DEF InOrder
  <1> QED BY <1>3, <1>4, <1>5, <1>6, <1>7, <1>8
-----------------------------------------------------------------------------
(* Each operation makes a sorted list of what was in a sorted list *)

\* The list l holds the timers of A, the earliest first.
Sorted(l, A, e) ==
    \E n, s : Chain(l, A, n, s) /\ InOrder(e, n, s)

\* The helper, begun at a timer that is not later than t.
LEMMA AddAfterSorts ==
  ASSUME NEW l \in Lists, NEW A \in SUBSET Timer, NEW n, NEW s, Chain(l, A, n, s),
         NEW e \in [Timer -> Nat], InOrder(e, n, s),
         NEW t \in Timer, t \notin A, NEW k \in 1..n, e[s[k]] <= e[t]
  PROVE  /\ AddAfter(l, t, s[k], e) \in Lists
         /\ Sorted(AddAfter(l, t, s[k], e), A \cup {t}, e)
  <1>0. /\ n \in Nat /\ s \in [1..n -> A] /\ NULL \notin Timer
        /\ \A i, j \in 1..n : s[i] = s[j] => i = j
        /\ l.head = s[1] /\ l.tail = s[n]
        /\ \A i \in 1..n : l.next[s[i]] = IF i = n THEN NULL ELSE s[i + 1]
    BY TimersAssumption DEF Chain
  <1>1. PICK m \in k..n : /\ Walk(l, t, e)[s[k]] = s[m]
                          /\ \A i \in 1..m : e[s[i]] <= e[t]
                          /\ \A i \in m + 1..n : e[t] < e[s[i]]
    BY WalkStops
  <1>2. m \in 1..n /\ m \in 0..n /\ s[m] \in Timer /\ s[m] # t
    BY <1>0
  <1> DEFINE l2 == AddAfter(l, t, s[k], e)
  <1>3. /\ l2 \in Lists
        /\ l2.head = l.head
        /\ l2.tail = IF m = n THEN t ELSE l.tail
        /\ l2.next[t] = IF m = n THEN NULL ELSE s[m + 1]
        /\ l2.prev[t] = s[m]
        /\ \A i \in 1..n : l2.next[s[i]] = IF i = m THEN t ELSE l.next[s[i]]
        /\ \A i \in 1..n : l2.prev[s[i]] = IF i = m + 1 THEN t ELSE l.prev[s[i]]
    <2>1. CASE m = n
      <3>1. l.next[s[m]] = NULL
        BY <1>0, <2>1, <1>2
      <3>2. l2 = [l EXCEPT !.next[s[m]] = t, !.prev[t] = s[m], !.next[t] = NULL, !.tail = t]
        BY <1>1, <3>1 DEF AddAfter
      <3>3. \A i \in 1..n : s[i] # t /\ s[i] \in Timer /\ i # m + 1
        BY <1>0, <2>1
      <3>4. \A i \in 1..n : s[i] = s[m] <=> i = m
        BY <1>0, <1>2
      <3> HIDE DEF l2
      <3> QED BY <1>2, <2>1, <3>2, <3>3, <3>4 DEF Lists
    <2>2. CASE m # n
      <3>0. m + 1 \in 1..n /\ s[m + 1] \in Timer /\ s[m + 1] # t
        BY <1>0, <1>2, <2>2
      <3>1. l.next[s[m]] = s[m + 1] /\ s[m + 1] # NULL
        BY <1>0, <1>2, <2>2, <3>0
      <3>2. l2 = [l EXCEPT !.next[s[m]] = t, !.next[t] = s[m + 1],
                           !.prev[s[m + 1]] = t, !.prev[t] = s[m]]
        BY <1>1, <3>1 DEF AddAfter
      <3>3. \A i \in 1..n : s[i] # t /\ s[i] \in Timer
        BY <1>0
      <3>4. \A i \in 1..n : (s[i] = s[m] <=> i = m) /\ (s[i] = s[m + 1] <=> i = m + 1)
        BY <1>0, <1>2, <3>0
      <3> HIDE DEF l2
      <3> QED BY <1>2, <2>2, <3>0, <3>2, <3>3, <3>4 DEF Lists
    <2> QED BY <2>1, <2>2
  <1> HIDE DEF l2
  <1>4. m # 0
    BY <1>0
  <1>5. Chain(l2, A \cup {t}, n + 1, Put(n, s, m, t))
    BY <1>2, <1>3, <1>4, Inserted
  <1>6. \A i \in m + 1..n : e[t] <= e[s[i]]
    <2> SUFFICES ASSUME NEW i \in m + 1..n PROVE e[t] <= e[s[i]]
      OBVIOUS
    <2>1. i \in 1..n
      BY <1>0
    <2>2. e[t] \in Nat /\ e[s[i]] \in Nat
      BY <1>0, <2>1
    <2> QED BY <1>1, <2>2
  <1>7. InOrder(e, n + 1, Put(n, s, m, t))
    BY <1>0, <1>1, <1>2, <1>6, InsertedInOrder
  <1> QED BY <1>3, <1>5, <1>7 DEF Sorted, l2

LEMMA AddSorts ==
  ASSUME NEW l \in Lists, NEW A \in SUBSET Timer, NEW e \in [Timer -> Nat],
         Sorted(l, A, e), NEW t \in Timer, t \notin A,
         l.next[t] = NULL, l.prev[t] = NULL
  PROVE  add_timer(l, t, e) \in Lists /\ Sorted(add_timer(l, t, e), A \cup {t}, e)
  <1>1. PICK n, s : Chain(l, A, n, s) /\ InOrder(e, n, s)
    BY DEF Sorted
  <1>2. /\ n \in Nat /\ s \in [1..n -> A] /\ NULL \notin Timer
        /\ \A i, j \in 1..n : s[i] = s[j] => i = j
        /\ l.head = IF n = 0 THEN NULL ELSE s[1]
        /\ n > 0 => l.tail = s[n]
        /\ 0 \in 0..n
    BY <1>1, TimersAssumption DEF Chain
  <1>3. n > 0 => 1 \in 1..n /\ s[1] \in Timer /\ s[1] # NULL /\ s[1] # t
    BY <1>2
  <1> DEFINE l2 == add_timer(l, t, e)
  <1>4. CASE n = 0
    <2>1. l2 = [l EXCEPT !.head = t, !.tail = t]
      BY <1>2, <1>4 DEF add_timer
    <2>2. /\ l2 \in Lists /\ l2.head = t /\ l2.tail = t
          /\ l2.next = l.next /\ l2.prev = l.prev
      BY <2>1 DEF Lists
    <2> HIDE DEF l2
    <2>a. 0 \in 0..n /\ 1..n = {} /\ 1..0 = {} /\ 0 + 1..n = {}
      BY <1>4
    <2>b. /\ l2.next[t] = IF 0 = n THEN NULL ELSE s[0 + 1]
          /\ l2.tail = IF 0 = n THEN t ELSE l.tail
      BY <1>4, <2>2
    <2>c. /\ \A i \in 1..n : l2.next[s[i]] = IF i = 0 THEN t ELSE l.next[s[i]]
          /\ \A i \in 1..n : l2.prev[s[i]] = IF i = 0 + 1 THEN t ELSE l.prev[s[i]]
      BY <2>a
    <2>3. Chain(l2, A \cup {t}, n + 1, Put(n, s, 0, t))
      BY <1>1, <2>2, <2>a, <2>b, <2>c, Inserted
    <2>4. InOrder(e, n + 1, Put(n, s, 0, t))
      BY <1>1, <1>2, <2>a, InsertedInOrder
    <2> QED BY <2>2, <2>3, <2>4 DEF Sorted, l2
  <1>5. CASE n > 0 /\ e[t] < e[s[1]]
    <2>0. l.head = s[1] /\ l.head # NULL
      BY <1>2, <1>3, <1>5
    <2>1. l2 = [l EXCEPT !.next[t] = l.head, !.prev[l.head] = t, !.head = t]
      BY <1>5, <2>0 DEF add_timer
    <2>2. \A i \in 1..n : s[i] # t /\ s[i] \in Timer /\ (s[i] = s[1] <=> i = 1)
      BY <1>2, <1>3, <1>5
    <2>3. /\ l2 \in Lists /\ l2.head = t /\ l2.tail = l.tail
          /\ l2.next[t] = s[1] /\ l2.prev[t] = NULL
          /\ \A i \in 1..n : l2.next[s[i]] = l.next[s[i]]
          /\ \A i \in 1..n : l2.prev[s[i]] = IF i = 0 + 1 THEN t ELSE l.prev[s[i]]
      <3> HIDE DEF l2
      <3>1. /\ l2 \in Lists /\ l2.head = t /\ l2.tail = l.tail
            /\ l2.next = [l.next EXCEPT ![t] = s[1]]
            /\ l2.prev = [l.prev EXCEPT ![s[1]] = t]
        BY <1>3, <1>5, <2>0, <2>1 DEF Lists
      <3>2. l.next \in [Timer -> Timer \cup {NULL}] /\ l.prev \in [Timer -> Timer \cup {NULL}]
        BY DEF Lists
      <3>3. t # s[1] /\ s[1] \in Timer
        BY <1>3, <1>5
      <3>4. l2.next[t] = s[1] /\ l2.prev[t] = NULL
        BY <3>1, <3>2, <3>3
      <3>5. \A i \in 1..n : l2.next[s[i]] = l.next[s[i]]
        BY <2>2, <3>1, <3>2
      <3>6. \A i \in 1..n : l2.prev[s[i]] = IF i = 0 + 1 THEN t ELSE l.prev[s[i]]
        BY <2>2, <3>1, <3>2
      <3> QED BY <3>1, <3>4, <3>5, <3>6
    <2> HIDE DEF l2
    <2>4. n # 0 /\ 0 + 1 = 1 /\ \A i \in 1..n : i # 0
      BY <1>2, <1>5
    <2>5. /\ l2.next[t] = IF 0 = n THEN NULL ELSE s[0 + 1]
          /\ l2.tail = IF 0 = n THEN t ELSE l.tail
          /\ \A i \in 1..n : l2.next[s[i]] = IF i = 0 THEN t ELSE l.next[s[i]]
      BY <2>3, <2>4
    <2>5a. 0 \in 0..n
      BY <1>2
    <2>6. Chain(l2, A \cup {t}, n + 1, Put(n, s, 0, t))
      BY <1>1, <2>3, <2>5, <2>5a, Inserted
    <2>7. \A i \in 0 + 1..n : e[t] <= e[s[i]]
      <3> SUFFICES ASSUME NEW i \in 1..n PROVE e[t] <= e[s[i]]
        OBVIOUS
      <3>1. e[s[1]] <= e[s[i]]
        BY <1>1, <1>3, <1>5, <1>2 DEF InOrder
      <3>2. e[t] \in Nat /\ e[s[1]] \in Nat /\ e[s[i]] \in Nat
        BY <1>2, <1>3, <1>5
      <3> QED BY <1>5, <3>1, <3>2
    <2>8. InOrder(e, n + 1, Put(n, s, 0, t))
      <3>1. 1..0 = {} /\ n \in Nat /\ s \in [1..n -> A]
        BY <1>2
      <3> QED BY <1>1, <2>5a, <2>7, <3>1, InsertedInOrder
    <2> QED BY <2>3, <2>6, <2>8 DEF Sorted, l2
  <1>6. CASE n > 0 /\ ~(e[t] < e[s[1]])
    <2>1. l2 = AddAfter(l, t, s[1], e)
      BY <1>2, <1>3, <1>6 DEF add_timer
    <2>2. e[t] \in Nat /\ e[s[1]] \in Nat
      BY <1>3, <1>6
    <2>3. e[s[1]] <= e[t]
      BY <1>6, <2>2
    <2> HIDE DEF l2
    <2> QED BY <1>1, <1>3, <1>6, <2>1, <2>3, AddAfterSorts DEF l2
  <1> QED BY <1>2, <1>4, <1>5, <1>6

LEMMA DelSorts ==
  ASSUME NEW l \in Lists, NEW A \in SUBSET Timer, NEW e,
         Sorted(l, A, e), NEW t \in A
  PROVE  del_timer(l, t) \in Lists /\ Sorted(del_timer(l, t), A \ {t}, e)
  <1>1. PICK n, s : Chain(l, A, n, s) /\ InOrder(e, n, s)
    BY DEF Sorted
  <1>2. /\ n \in Nat /\ s \in [1..n -> A] /\ NULL \notin Timer
        /\ \A i, j \in 1..n : s[i] = s[j] => i = j
        /\ l.head = IF n = 0 THEN NULL ELSE s[1]
        /\ n > 0 => l.tail = s[n]
        /\ \A i \in 1..n : l.next[s[i]] = IF i = n THEN NULL ELSE s[i + 1]
        /\ \A i \in 1..n : l.prev[s[i]] = IF i = 1 THEN NULL ELSE s[i - 1]
    BY <1>1, TimersAssumption DEF Chain
  <1>3. PICK k \in 1..n : s[k] = t
    BY <1>1 DEF Chain
  <1>4. 1 \in 1..n /\ n \in 1..n /\ l.head = s[1] /\ l.tail = s[n]
    BY <1>2, <1>3
  <1>5. (t = l.head <=> k = 1) /\ (t = l.tail <=> k = n)
    BY <1>2, <1>3, <1>4
  <1>6. \A i \in 1..n : s[i] \in Timer /\ (i # k => s[i] # t)
    BY <1>2, <1>3
  <1> DEFINE l2 == del_timer(l, t)
  <1>7. /\ l2 \in Lists
        /\ l2.head = IF k # 1 THEN l.head ELSE IF n = 1 THEN NULL ELSE s[2]
        /\ n > 1 => l2.tail = IF k = n THEN s[n - 1] ELSE l.tail
        /\ \A i \in 1..n : i # k =>
              l2.next[s[i]] = IF i + 1 = k THEN l.next[s[k]] ELSE l.next[s[i]]
        /\ \A i \in 1..n : i # k =>
              l2.prev[s[i]] = IF i = k + 1 THEN l.prev[s[k]] ELSE l.prev[s[i]]
    <2>1. CASE k = 1 /\ k = n
      <3>1. l2 = [l EXCEPT !.head = NULL, !.tail = NULL]
        BY <1>5, <2>1 DEF del_timer
      <3>2. n = 1 /\ ~(n > 1) /\ \A i \in 1..n : i = k
        BY <2>1
      <3> HIDE DEF l2
      <3>3. l2 \in Lists /\ l2.head = NULL
        BY <3>1 DEF Lists
      <3> QED BY <2>1, <3>2, <3>3
    <2>2. CASE k = 1 /\ k # n
      <3>1. 2 \in 1..n /\ n # 1 /\ s[2] \in Timer /\ l.next[t] = s[2] /\ l.prev[t] = NULL
        BY <1>2, <1>3, <1>6, <2>2
      <3>2. l2 = [l EXCEPT !.head = s[2], !.prev[s[2]] = NULL]
        BY <1>5, <2>2, <3>1 DEF del_timer
      <3>3. \A i \in 1..n : s[i] = s[2] <=> i = 2
        BY <1>2, <3>1
      <3>4. \A i \in 1..n : i + 1 # k /\ s[k] = t
        BY <1>3, <2>2
      <3> HIDE DEF l2
      <3>5. /\ l2 \in Lists /\ l2.head = s[2] /\ l2.tail = l.tail
            /\ l2.next = l.next
            /\ l2.prev = [l.prev EXCEPT ![s[2]] = NULL]
        BY <3>1, <3>2 DEF Lists
      <3>6. l.prev \in [Timer -> Timer \cup {NULL}]
        BY DEF Lists
      <3>7. \A i \in 1..n : l2.prev[s[i]] = IF i = k + 1 THEN l.prev[s[k]] ELSE l.prev[s[i]]
        BY <1>6, <2>2, <3>1, <3>3, <3>4, <3>5, <3>6
      <3> QED BY <2>2, <3>1, <3>4, <3>5, <3>7
    <2>3. CASE k # 1 /\ k = n
      <3>1. n - 1 \in 1..n /\ s[n - 1] \in Timer /\ l.prev[t] = s[n - 1] /\ l.next[t] = NULL
        BY <1>2, <1>3, <1>6, <2>3
      <3>2. l2 = [l EXCEPT !.tail = s[n - 1], !.next[s[n - 1]] = NULL]
        BY <1>5, <2>3, <3>1 DEF del_timer
      <3>3. \A i \in 1..n : s[i] = s[n - 1] <=> i + 1 = n
        BY <1>2, <3>1
      <3>4. \A i \in 1..n : i # k + 1 /\ s[k] = t
        BY <1>3, <2>3
      <3> HIDE DEF l2
      <3> QED BY <1>6, <2>3, <3>1, <3>2, <3>3, <3>4 DEF Lists
    <2>4. CASE k # 1 /\ k # n
      <3>1. /\ k - 1 \in 1..n /\ s[k - 1] \in Timer /\ l.prev[t] = s[k - 1]
            /\ k + 1 \in 1..n /\ s[k + 1] \in Timer /\ l.next[t] = s[k + 1]
        BY <1>2, <1>3, <1>6, <2>4
      <3>2. l2 = [l EXCEPT !.next[s[k - 1]] = s[k + 1], !.prev[s[k + 1]] = s[k - 1]]
        BY <1>5, <2>4, <3>1 DEF del_timer
      <3>3. \A i \in 1..n : (s[i] = s[k - 1] <=> i + 1 = k) /\ (s[i] = s[k + 1] <=> i = k + 1)
        BY <1>2, <3>1
      <3> HIDE DEF l2
      <3> QED BY <1>3, <1>6, <2>4, <3>1, <3>2, <3>3 DEF Lists
    <2> QED BY <2>1, <2>2, <2>3, <2>4
  <1> HIDE DEF l2
  <1>8. Chain(l2, A \ {t}, n - 1, Drop(n, s, k))
    BY <1>1, <1>3, <1>7, Dropped
  <1>9. InOrder(e, n - 1, Drop(n, s, k))
    BY <1>1, <1>2, DroppedInOrder
  <1> QED BY <1>7, <1>8, <1>9 DEF Sorted, l2

\* The head of a sorted list is its earliest timer.
LEMMA UnlinkSorts ==
  ASSUME NEW l \in Lists, NEW A \in SUBSET Timer, NEW e,
         Sorted(l, A, e), l.head # NULL
  PROVE  /\ l.head \in A
         /\ \A u \in A : e[l.head] <= e[u]
         /\ UnlinkHead(l) \in Lists
         /\ Sorted(UnlinkHead(l), A \ {l.head}, e)
  <1>1. PICK n, s : Chain(l, A, n, s) /\ InOrder(e, n, s)
    BY DEF Sorted
  <1>2. /\ n \in Nat /\ s \in [1..n -> A] /\ NULL \notin Timer
        /\ \A i, j \in 1..n : s[i] = s[j] => i = j
        /\ l.head = IF n = 0 THEN NULL ELSE s[1]
        /\ n > 0 => l.tail = s[n]
        /\ \A i \in 1..n : l.next[s[i]] = IF i = n THEN NULL ELSE s[i + 1]
        /\ \A i \in 1..n : l.prev[s[i]] = IF i = 1 THEN NULL ELSE s[i - 1]
        /\ \A u \in A : \E i \in 1..n : s[i] = u
    BY <1>1, TimersAssumption DEF Chain
  <1>3. n > 0 /\ l.head = s[1] /\ 1 \in 1..n /\ s[1] \in A
    BY <1>2
  <1>4. \A u \in A : e[l.head] <= e[u]
    BY <1>1, <1>2, <1>3 DEF InOrder
  <1> DEFINE l2 == UnlinkHead(l)
  <1>5. /\ l2 \in Lists
        /\ l2.head = IF n = 1 THEN NULL ELSE s[2]
        /\ l2.tail = l.tail
        /\ l2.next = l.next
        /\ \A i \in 1..n : i # 1 =>
              l2.prev[s[i]] = IF i = 1 + 1 THEN l.prev[s[1]] ELSE l.prev[s[i]]
    <2>1. CASE n = 1
      <3>1. l2 = [l EXCEPT !.head = NULL]
        BY <1>2, <1>3, <2>1 DEF UnlinkHead
      <3>2. \A i \in 1..n : i = 1
        BY <2>1
      <3> HIDE DEF l2
      <3> QED BY <2>1, <3>1, <3>2 DEF Lists
    <2>2. CASE n # 1
      <3>1. /\ 2 \in 1..n /\ s[2] \in Timer /\ s[2] # NULL
            /\ l.next[s[1]] = s[2] /\ l.prev[s[1]] = NULL
        BY <1>2, <1>3, <2>2
      <3>2. l2 = [l EXCEPT !.head = s[2], !.prev[s[2]] = NULL]
        BY <1>3, <3>1 DEF UnlinkHead
      <3>3. \A i \in 1..n : s[i] \in Timer /\ (s[i] = s[2] <=> i = 1 + 1)
        BY <1>2, <3>1
      <3> HIDE DEF l2
      <3> QED BY <2>2, <3>1, <3>2, <3>3 DEF Lists
    <2> QED BY <2>1, <2>2
  <1> HIDE DEF l2
  <1>6. Chain(l2, A \ {s[1]}, n - 1, Drop(n, s, 1))
    <2>1. n > 1 => l2.tail = IF 1 = n THEN s[n - 1] ELSE l.tail
      BY <1>2, <1>5
    <2>2. \A i \in 1..n : i # 1 =>
             l2.next[s[i]] = IF i + 1 = 1 THEN l.next[s[1]] ELSE l.next[s[i]]
      BY <1>2, <1>5
    <2> QED BY <1>1, <1>3, <1>5, <2>1, <2>2, Dropped
  <1>7. InOrder(e, n - 1, Drop(n, s, 1))
    BY <1>1, <1>2, <1>3, DroppedInOrder
  <1> QED BY <1>3, <1>4, <1>5, <1>6, <1>7 DEF Sorted, l2

\* adjust_timer takes t out and begins the helper at its successor; only a timer
\* that is put off stays behind what precedes it.
LEMMA AdjustSorts ==
  ASSUME NEW l \in Lists, NEW A \in SUBSET Timer, NEW e \in [Timer -> Nat],
         Sorted(l, A, e), NEW t \in A,
         NEW f \in [Timer -> Nat], e[t] <= f[t],
         \A u \in Timer : u # t => f[u] = e[u]
  PROVE  adjust_timer(l, t, f) \in Lists /\ Sorted(adjust_timer(l, t, f), A, f)
  <1>1. PICK n, s : Chain(l, A, n, s) /\ InOrder(e, n, s)
    BY DEF Sorted
  <1>2. /\ n \in Nat /\ s \in [1..n -> A] /\ NULL \notin Timer
        /\ \A i, j \in 1..n : s[i] = s[j] => i = j
        /\ l.head = IF n = 0 THEN NULL ELSE s[1]
        /\ n > 0 => l.tail = s[n]
        /\ \A i \in 1..n : l.next[s[i]] = IF i = n THEN NULL ELSE s[i + 1]
        /\ \A i \in 1..n : l.prev[s[i]] = IF i = 1 THEN NULL ELSE s[i - 1]
    BY <1>1, TimersAssumption DEF Chain
  <1>3. PICK k \in 1..n : s[k] = t
    BY <1>1 DEF Chain
  <1>4. 1 \in 1..n /\ l.head = s[1] /\ (t = l.head <=> k = 1)
    BY <1>2, <1>3
  <1>5. \A i \in 1..n : s[i] \in Timer /\ s[i] # NULL /\ (i # k => s[i] # t)
    BY <1>2, <1>3
  <1>6. \A i \in 1..n : e[s[i]] \in Nat /\ f[s[i]] \in Nat
    BY <1>5
  <1>7. \A i \in 1..n : i # k => f[s[i]] = e[s[i]]
    BY <1>5
  <1> DEFINE nx == l.next[t]
  <1>8. nx = IF k = n THEN NULL ELSE s[k + 1]
    BY <1>2, <1>3
  <1>9. CASE nx = NULL \/ f[nx] >= f[t]
    <2>1. adjust_timer(l, t, f) = l
      BY <1>9 DEF adjust_timer
    <2>2. InOrder(f, n, s)
      <3> SUFFICES ASSUME NEW i \in 1..n, NEW j \in 1..n, i <= j
                   PROVE  f[s[i]] <= f[s[j]]
        BY DEF InOrder
      <3>1. e[s[i]] <= e[s[j]]
        BY <1>1 DEF InOrder
      <3>2. CASE i # k /\ j # k
        BY <1>7, <3>1, <3>2
      <3>3. CASE j = k /\ i # k
        BY <1>3, <1>6, <1>7, <3>1, <3>3
      <3>4. CASE i = k /\ j = k
        BY <1>6, <3>4
      <3>5. CASE i = k /\ j # k
        <4>1. k + 1 \in 1..n /\ k + 1 <= j /\ k # n /\ k + 1 # k
          BY <1>2, <3>5
        <4>2. f[s[k + 1]] >= f[t]
          BY <1>5, <1>8, <1>9, <4>1
        <4>3. e[s[k + 1]] <= e[s[j]]
          BY <1>1, <4>1 DEF InOrder
        <4>4. f[s[k + 1]] = e[s[k + 1]] /\ f[s[j]] = e[s[j]]
          BY <1>7, <3>5, <4>1
        <4> QED BY <1>3, <1>6, <3>5, <4>1, <4>2, <4>3, <4>4
      <3> QED BY <3>2, <3>3, <3>4, <3>5
    <2> QED BY <1>1, <2>1, <2>2 DEF Sorted
  <1>10. CASE ~(nx = NULL \/ f[nx] >= f[t])
    <2>0. k # n /\ k + 1 \in 1..n /\ nx = s[k + 1] /\ s[k + 1] \in Timer /\ t \in Timer
      BY <1>2, <1>5, <1>8, <1>10
    <2> DEFINE out == IF k = 1
                      THEN [l EXCEPT !.head = nx, !.prev[nx] = NULL, !.next[t] = NULL]
                      ELSE [l EXCEPT !.next[l.prev[t]] = nx, !.prev[nx] = l.prev[t]]
    <2>1. adjust_timer(l, t, f) = AddAfter(out, t, nx, f)
      BY <1>4, <1>10 DEF adjust_timer
    <2>2. /\ out \in Lists
          /\ out.head = IF k # 1 THEN l.head ELSE IF n = 1 THEN NULL ELSE s[2]
          /\ out.tail = l.tail
          /\ \A i \in 1..n : i # k =>
                out.next[s[i]] = IF i + 1 = k THEN l.next[s[k]] ELSE l.next[s[i]]
          /\ \A i \in 1..n : i # k =>
                out.prev[s[i]] = IF i = k + 1 THEN l.prev[s[k]] ELSE l.prev[s[i]]
      <3>1. CASE k = 1
        <4>1. out = [l EXCEPT !.head = s[2], !.prev[s[2]] = NULL, !.next[t] = NULL]
          BY <2>0, <3>1
        <4>2. /\ 2 \in 1..n /\ n # 1 /\ s[2] \in Timer /\ l.prev[s[k]] = NULL
              /\ \A i \in 1..n : (s[i] = s[2] <=> i = k + 1) /\ i + 1 # k
          BY <1>2, <2>0, <3>1
        <4> HIDE DEF out
        <4> QED BY <1>5, <2>0, <3>1, <4>1, <4>2 DEF Lists
      <3>2. CASE k # 1
        <4>1. k - 1 \in 1..n /\ s[k - 1] \in Timer /\ l.prev[t] = s[k - 1]
          BY <1>2, <1>3, <1>5, <3>2
        <4>2. out = [l EXCEPT !.next[s[k - 1]] = s[k + 1], !.prev[s[k + 1]] = s[k - 1]]
          BY <2>0, <3>2, <4>1
        <4>a. \A i, j \in 1..n : s[i] = s[j] <=> i = j
          BY <1>2
        <4>b. \A i \in 1..n : i = k - 1 <=> i + 1 = k
          OBVIOUS
        <4>3. \A i \in 1..n : (s[i] = s[k - 1] <=> i + 1 = k) /\ (s[i] = s[k + 1] <=> i = k + 1)
          BY <2>0, <4>1, <4>a, <4>b
        <4> HIDE DEF out
        <4> QED BY <1>3, <1>5, <2>0, <3>2, <4>1, <4>2, <4>3 DEF Lists
      <3> QED BY <3>1, <3>2
    <2> HIDE DEF out
    <2> DEFINE d == Drop(n, s, k)
    <2>3. Chain(out, A \ {t}, n - 1, d)
      BY <1>1, <1>3, <2>0, <2>2, Dropped
    <2>4. InOrder(f, n - 1, d)
      <3>1. \A i \in 1..n - 1 : f[d[i]] = e[d[i]]
        <4>1. \A i \in 1..n - 1 : d[i] \in A \ {t}
          BY <2>3 DEF Chain
        <4> QED BY <4>1
      <3>2. n \in Nat /\ s \in [1..n -> A] /\ \A i, j \in 1..n : s[i] = s[j] => i = j
        BY <1>2
      <3> HIDE DEF d, nx
      <3>3. InOrder(e, n, s)
        BY <1>1
      <3>4. InOrder(e, n - 1, d)
        BY <3>2, <3>3, DroppedInOrder DEF d
      <3> QED BY <3>1, <3>4 DEF InOrder
    <2>5. k \in 1..n - 1 /\ d[k] = nx
      <3>1. k \in 1..n - 1 /\ ~(k < k)
        BY <1>2, <2>0
      <3>2. d[k] = s[k + 1]
        BY <3>1 DEF Drop
      <3> QED BY <2>0, <3>1, <3>2
    <2>6. f[nx] <= f[t]
      <3>1. f[nx] \in Nat /\ f[t] \in Nat
        BY <2>0
      <3> QED BY <1>10, <3>1
    <2> HIDE DEF d, nx
    <2>7. /\ AddAfter(out, t, d[k], f) \in Lists
          /\ Sorted(AddAfter(out, t, d[k], f), (A \ {t}) \cup {t}, f)
      BY <2>0, <2>2, <2>3, <2>4, <2>5, <2>6, AddAfterSorts
    <2>8. (A \ {t}) \cup {t} = A
      OBVIOUS
    <2> QED BY <2>1, <2>5, <2>7, <2>8
  <1> QED BY <1>9, <1>10
-----------------------------------------------------------------------------
(* The invariant of the sorted list *)

ListTypes ==
    /\ now \in Nat
    /\ expire \in [Timer -> Nat]
    /\ allocated \in SUBSET Timer
    /\ ticking \in BOOLEAN
    /\ container \in {"list", "none"}
    /\ lst \in Lists

ListInv ==
    /\ ListTypes
    /\ ticking => container = "list"
    /\ container = "list" => Sorted(lst, allocated, expire)

LEMMA ListInitInv == ListInit => ListInv
  <1> SUFFICES ASSUME ListInit PROVE ListInv
    OBVIOUS
  <1> USE DEF ListInit, TimersInit
  <1>1. ListTypes
    BY DEF ListTypes, Lists
  <1>2. Chain(lst, allocated, 0, [i \in 1..0 |-> NULL])
    BY DEF Chain
  <1>3. InOrder(expire, 0, [i \in 1..0 |-> NULL])
    BY DEF InOrder
  <1> QED BY <1>1, <1>2, <1>3 DEF ListInv, Sorted

LEMMA ListNextInv ==
    ASSUME ListInv, [ListNext]_listVars
    PROVE  ListInv'
  <1> USE DelayAssumption DEF ListInv, ListTypes, Idle
  <1>1. ASSUME NEW t \in Timer, NEW d \in Delay, ListAdd(t, d)
        PROVE  ListInv'
    <2> DEFINE l == [lst EXCEPT !.next[t] = NULL, !.prev[t] = NULL]
    <2>1. /\ container = "list" /\ t \notin allocated
          /\ allocated' = allocated \cup {t}
          /\ expire' = [expire EXCEPT ![t] = now + d]
          /\ lst' = add_timer(l, t, expire')
          /\ UNCHANGED <<now, ticking, container>>
      BY <1>1 DEF ListAdd
    <2>2. now + d \in Nat
      OBVIOUS
    <2>3. expire' \in [Timer -> Nat]
      BY <2>1, <2>2
    <2>4. PICK n, s : Chain(lst, allocated, n, s) /\ InOrder(expire, n, s)
      BY <2>1 DEF Sorted
    <2>5. \A i \in 1..n : s[i] \in Timer /\ s[i] # t /\ expire'[s[i]] = expire[s[i]]
      BY <2>1, <2>4 DEF Chain
    <2>6. /\ l \in Lists /\ l.head = lst.head /\ l.tail = lst.tail
          /\ l.next = [lst.next EXCEPT ![t] = NULL]
          /\ l.prev = [lst.prev EXCEPT ![t] = NULL]
      BY DEF Lists
    <2>7. lst.next \in [Timer -> Timer \cup {NULL}] /\ lst.prev \in [Timer -> Timer \cup {NULL}]
      BY DEF Lists
    <2> HIDE DEF l
    <2>8. /\ l.next[t] = NULL /\ l.prev[t] = NULL
          /\ \A i \in 1..n : l.next[s[i]] = lst.next[s[i]] /\ l.prev[s[i]] = lst.prev[s[i]]
      BY <2>5, <2>6, <2>7
    <2>9. Chain(l, allocated, n, s)
      BY <2>4, <2>6, <2>8 DEF Chain
    <2>10. InOrder(expire', n, s)
      BY <2>4, <2>5 DEF InOrder
    <2>11. Sorted(l, allocated, expire')
      BY <2>9, <2>10 DEF Sorted
    <2>12. lst' \in Lists /\ Sorted(lst', allocated', expire')
      BY <2>1, <2>3, <2>6, <2>8, <2>11, AddSorts
    <2> QED BY <2>1, <2>3, <2>12
  <1>2. ASSUME NEW t \in Timer, NEW d \in Delay, ListAdjust(t, d)
        PROVE  ListInv'
    <2>1. /\ container = "list" /\ t \in allocated /\ expire[t] <= now + d
          /\ expire' = [expire EXCEPT ![t] = now + d]
          /\ lst' = adjust_timer(lst, t, expire')
          /\ UNCHANGED <<now, allocated, ticking, container>>
      BY <1>2 DEF ListAdjust
    <2>2. now + d \in Nat
      OBVIOUS
    <2>3. /\ expire' \in [Timer -> Nat]
          /\ expire[t] <= expire'[t]
          /\ \A u \in Timer : u # t => expire'[u] = expire[u]
      BY <2>1, <2>2
    <2>4. lst' \in Lists /\ Sorted(lst', allocated, expire')
      BY <2>1, <2>3, AdjustSorts
    <2> QED BY <2>1, <2>3, <2>4
  <1>3. ASSUME NEW t \in Timer, ListDel(t)
        PROVE  ListInv'
    <2>1. /\ container = "list" /\ t \in allocated
          /\ lst' = del_timer(lst, t)
          /\ allocated' = allocated \ {t}
          /\ UNCHANGED <<now, expire, ticking, container>>
      BY <1>3 DEF ListDel
    <2>2. lst' \in Lists /\ Sorted(lst', allocated \ {t}, expire)
      BY <2>1, DelSorts
    <2> QED BY <2>1, <2>2
  <1>4. CASE ListTickBegins
    BY <1>4 DEF ListTickBegins
  <1>5. CASE ListTickFire
    <2>1. /\ ticking /\ lst.head # NULL
          /\ lst' = UnlinkHead(lst)
          /\ allocated' = allocated \ {lst.head}
          /\ UNCHANGED <<now, expire, ticking, container>>
      BY <1>5 DEF ListTickFire
    <2>2. lst' \in Lists /\ Sorted(lst', allocated', expire)
      BY <2>1, UnlinkSorts
    <2> QED BY <2>1, <2>2
  <1>6. CASE ListTickEnds
    BY <1>6 DEF ListTickEnds
  <1>7. CASE ListDtor
    <2>1. lst' \in Lists
      BY <1>7 DEF ListDtor, Lists
    <2> QED BY <1>7, <2>1 DEF ListDtor
  <1>8. CASE Elapse /\ UNCHANGED lst
    BY <1>8 DEF Elapse
  <1>9. CASE UNCHANGED listVars
    BY <1>9 DEF listVars, timerVars
  <1> QED BY <1>1, <1>2, <1>3, <1>4, <1>5, <1>6, <1>7, <1>8, <1>9 DEF ListNext

\* The list is sorted and holds exactly the timers that exist.
THEOREM ListInvariant == ListSpec => []ListInv
  BY ListInitInv, ListNextInv, PTL DEF ListSpec

LEMMA SortedIsWellFormed ==
    ASSUME ListInv
    PROVE  ListWellFormed
  <1> SUFFICES ASSUME container = "list"
               PROVE  /\ Linked(lst) = allocated
                      /\ lst.head # NULL =>
                           /\ lst.prev[lst.head] = NULL
                           /\ lst.tail \in allocated
                           /\ lst.next[lst.tail] = NULL
                      /\ \A t \in allocated :
                           lst.next[t] # NULL => lst.prev[lst.next[t]] = t
    BY DEF ListWellFormed
  <1> USE DEF ListInv, ListTypes
  <1>1. PICK n, s : Chain(lst, allocated, n, s)
    BY DEF Sorted
  <1>2. Linked(lst) = allocated
    BY <1>1, MetIsChain
  <1>3. /\ n \in Nat /\ s \in [1..n -> allocated]
        /\ lst.head = IF n = 0 THEN NULL ELSE s[1]
        /\ n > 0 => lst.tail = s[n]
        /\ \A t \in allocated : \E i \in 1..n : s[i] = t
        /\ \A i \in 1..n : lst.next[s[i]] = IF i = n THEN NULL ELSE s[i + 1]
        /\ \A i \in 1..n : lst.prev[s[i]] = IF i = 1 THEN NULL ELSE s[i - 1]
    BY <1>1 DEF Chain
  <1>4. ASSUME lst.head # NULL
        PROVE  lst.prev[lst.head] = NULL /\ lst.tail \in allocated /\ lst.next[lst.tail] = NULL
    <2>1. n > 0 /\ 1 \in 1..n /\ n \in 1..n
      BY <1>3, <1>4
    <2>2. lst.head = s[1] /\ lst.prev[s[1]] = NULL
      BY <1>3, <2>1
    <2>3. lst.tail = s[n] /\ lst.next[s[n]] = NULL /\ s[n] \in allocated
      BY <1>3, <2>1
    <2> QED BY <2>2, <2>3
  <1>5. ASSUME NEW t \in allocated, lst.next[t] # NULL
        PROVE  lst.prev[lst.next[t]] = t
    <2>1. PICK i \in 1..n : s[i] = t
      BY <1>3
    <2>2. i # n /\ lst.next[t] = s[i + 1]
      BY <1>3, <1>5, <2>1
    <2>3. i + 1 \in 1..n /\ i + 1 # 1 /\ (i + 1) - 1 = i
      BY <1>3, <2>2
    <2> QED BY <1>3, <2>1, <2>2, <2>3
  <1> QED BY <1>2, <1>4, <1>5

\* No pointer dangles and no timer is lost, for any number of timers and every
\* history of addresses that new returns again.
THEOREM ListKeepsAll == ListSpec => []ListWellFormed
  BY ListInvariant, SortedIsWellFormed, PTL

-----------------------------------------------------------------------------
(* The refinement by the sorted list *)

LEMMA ListStepImplements ==
    ASSUME ListInv, [ListNext]_listVars
    PROVE  [ListService!Next]_(ListService!vars)
  <1> DEFINE pending == [t \in allocated |-> expire[t]]
  <1> USE DelayAssumption DEF ListInv, ListTypes, Idle, ListService!vars,
              ListService!Pending, ListService!Without
  <1>1. ASSUME NEW t \in Timer, NEW d \in Delay, ListAdd(t, d)
        PROVE ListService!Start(t)
    <2>1. /\ expire' = [expire EXCEPT ![t] = now + d]
          /\ allocated' = allocated \cup {t} /\ t \notin allocated
          /\ ~ticking /\ UNCHANGED <<now, ticking>>
      BY <1>1 DEF ListAdd
    <2>2. now + d \in Int
      OBVIOUS
    <2>3. pending'[t] = now + d
      BY <2>1
    <2>4. \A u \in allocated : pending'[u] = pending[u]
      BY <2>1
    <2> QED BY <2>1, <2>2, <2>3, <2>4 DEF ListService!Start
  <1>2. ASSUME NEW t \in Timer, NEW d \in Delay, ListAdjust(t, d)
        PROVE ListService!Extend(t)
    <2>1. /\ expire' = [expire EXCEPT ![t] = now + d]
          /\ t \in allocated /\ now + d >= expire[t]
          /\ ~ticking /\ UNCHANGED <<now, allocated, ticking>>
      BY <1>2 DEF ListAdjust
    <2>2. pending'[t] = now + d /\ pending[t] = expire[t]
      BY <2>1
    <2>3. \A u \in allocated \ {t} : pending'[u] = pending[u]
      BY <2>1
    <2> QED BY <2>1, <2>2, <2>3 DEF ListService!Extend
  <1>3. ASSUME NEW t \in Timer, ListDel(t)
        PROVE ListService!Cancel(t)
    BY <1>3 DEF ListDel, ListService!Cancel
  <1>4. ASSUME ListTickBegins PROVE ListService!TickBegins
    BY <1>4 DEF ListTickBegins, ListService!TickBegins
  <1>5. ASSUME ListTickFire PROVE \E t \in Timer : ListService!Fire(t)
    <2>1. /\ ticking /\ lst.head # NULL /\ now >= expire[lst.head]
          /\ allocated' = allocated \ {lst.head}
          /\ UNCHANGED <<now, expire, ticking>>
      BY <1>5 DEF ListTickFire
    <2>2. lst.head \in allocated /\ \A u \in allocated : expire[lst.head] <= expire[u]
      BY <2>1, UnlinkSorts
    <2>3. PICK h \in Timer : h = lst.head
      BY <2>2
    <2>4. /\ h \in allocated /\ expire[h] <= now
          /\ \A u \in allocated : expire[h] <= expire[u]
          /\ allocated' = allocated \ {h}
      BY <2>1, <2>2, <2>3
    <2>5. ListService!Fire(h)
      BY <2>1, <2>4 DEF ListService!Fire
    <2> QED BY <2>5
  <1>6. ASSUME ListTickEnds PROVE ListService!TickEnds
    <2>1. /\ ticking /\ container = "list"
          /\ lst.head # NULL => now < expire[lst.head]
          /\ ticking' = FALSE /\ UNCHANGED <<now, expire, allocated>>
      BY <1>6 DEF ListTickEnds
    <2>2. \A u \in allocated : expire[u] > now
      <3>1. CASE lst.head = NULL
        <4>1. PICK n, s : Chain(lst, allocated, n, s)
          BY <2>1 DEF Sorted
        <4>2. n = 0
          <5>1. n \in Nat /\ (n # 0 => lst.head = s[1] /\ s[1] \in allocated)
            BY <4>1 DEF Chain
          <5> QED BY <3>1, <5>1, TimersAssumption
        <4>3. allocated = {}
          BY <4>1, <4>2 DEF Chain
        <4> QED BY <4>3
      <3>2. CASE lst.head # NULL
        <4>1. lst.head \in allocated /\ \A u \in allocated : expire[lst.head] <= expire[u]
          BY <2>1, <3>2, UnlinkSorts
        <4>2. \A u \in allocated : expire[u] \in Nat
          OBVIOUS
        <4> QED BY <2>1, <3>2, <4>1, <4>2
      <3> QED BY <3>1, <3>2
    <2> QED BY <2>1, <2>2 DEF ListService!TickEnds
  <1>7. ASSUME ListDtor PROVE ListService!Close
    <2>1. container = "list" /\ allocated' = allocated \ Linked(lst)
      BY <1>7 DEF ListDtor
    <2>2. PICK n, s : Chain(lst, allocated, n, s)
      BY <2>1 DEF Sorted
    <2>3. Linked(lst) = allocated
      BY <2>2, MetIsChain
    <2>4. allocated' = {}
      BY <2>1, <2>3
    <2>5. ~ticking /\ UNCHANGED <<now, ticking>>
      BY <1>7 DEF ListDtor
    <2>6. /\ pending' = [t \in {} |-> 0]
          /\ [u \in allocated \ allocated |-> pending[u]] = [t \in {} |-> 0]
      BY <2>4
    <2> QED BY <2>5, <2>6 DEF ListService!Close
  <1>8. ASSUME Elapse PROVE ListService!Elapse
    BY <1>8 DEF Elapse, ListService!Elapse
  <1>9. ASSUME UNCHANGED listVars PROVE UNCHANGED ListService!vars
    BY <1>9 DEF listVars, timerVars
  <1> HIDE DEF ListInv, ListTypes, ListService!vars, ListService!Pending,
               ListService!Without
  <1> QED BY <1>1, <1>2, <1>3, <1>4, <1>5, <1>6, <1>7, <1>8, <1>9
          DEF ListNext, ListService!Next

\* The list runs every timer at its time and the earliest first, for any number
\* of timers and every expire.
THEOREM ListRefinement == ListSpec => ListImplementsService
  <1>1. ListInit => ListService!Init
    BY DEF ListInit, TimersInit, ListService!Init, ListService!Pending
  <1> QED BY <1>1, ListInvariant, ListStepImplements, PTL
          DEF ListSpec, ListImplementsService, ListService!Spec
=============================================================================
