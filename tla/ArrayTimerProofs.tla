---------------------------- MODULE ArrayTimerProofs ----------------------------
(***************************************************************************)
(* TimerHeap and TimerWheel, the containers that keep timers in an array,  *)
(* for every size of the array and any number of timers.                   *)
(*                                                                         *)
(* Between the calls the order of the heap is that of a heap; while a loop *)
(* runs, it is so but for the hole: all around the hole fits, and the      *)
(* timer that moves fits what is on the side it comes from (UpOrder,       *)
(* DownOrder).  That the top is the earliest then needs the least place    *)
(* that would be earlier (TopIsLeast).                                     *)
(*                                                                         *)
(* The invariant of the wheel says where a timer is: in the slot it        *)
(* records, at a distance from cur_slot and with a rotation that together  *)
(* make up the turn in which it is due.  Its lists are followed with       *)
(* Reached, the least set that is closed under next: a well chosen closed  *)
(* set does what an induction along the list would do.                     *)
(*                                                                         *)
(* Either way the service of TimerService follows step by step.            *)
(***************************************************************************)
EXTENDS TimerHeap, TimerWheel, FiniteSetTheorems, WellFoundedInduction, TLAPS

-----------------------------------------------------------------------------
(* The tree *)

LEMMA Tree ==
  ASSUME NEW i \in Nat \ {0}
  PROVE  /\ Parent(i) \in Nat /\ Parent(i) < i
         /\ i = 2 * Parent(i) + 1 \/ i = 2 * Parent(i) + 2
  BY DEF Parent

\* A set of numbers has a least one.
LEMMA Least ==
  ASSUME NEW T \in SUBSET Nat, T # {}
  PROVE  \E x \in T : \A y \in T : x <= y
<1> DEFINE R == OpToRel(<, Nat)
<1>1. \A x, y \in Nat : y < x => <<y, x>> \in R
  BY DEF OpToRel
<1>2. IsWellFoundedOn(R, Nat)
  BY NatLessThanWellFounded
<1> HIDE DEF R
<1>3. PICK x \in T : \A y \in T : ~(<<y, x>> \in R)
  BY <1>2, WFMin
<1>4. \A y \in T : x \in Nat /\ y \in Nat /\ ~(y < x)
  BY <1>1, <1>3, Zenon
<1> QED
  BY <1>4

-----------------------------------------------------------------------------
(* The invariant *)

Places == 0..cur_size - 1

HeapTypes ==
    /\ now \in Nat /\ ticking \in BOOLEAN
    /\ expire \in [Timer -> Nat]
    /\ allocated \subseteq Timer
    /\ container \in {"heap", "none"}
    /\ ticking => container = "heap"
    /\ capacity \in Nat \ {0} /\ cur_size \in 0..capacity
    /\ array \in [0..capacity - 1 -> Timer \cup {NULL}]

\* Where the loops are.  When the last timer was popped, percolate_down is
\* called for a place that holds no timer any more.
LoopTypes ==
    /\ loop \in {"none", "up", "down"}
    /\ loop # "none" => container = "heap" /\ temp \in Timer
    /\ hole \in Nat /\ floor \in Nat
    /\ loop = "up" => hole \in Places
    /\ loop = "down" => floor <= hole /\ (hole \in Places \/ (cur_size = 0 /\ hole = 0))
    /\ loop # "down" => floor = 0

Held ==
    container = "heap" =>
        /\ {Element(i) : i \in Places} = allocated
        /\ \A i, j \in Places : Element(i) = Element(j) => i = j

\* What is above and below the hole fits, and the timer that rises fits what is below.
UpOrder ==
    loop = "up" => \A i \in 1..cur_size - 1 :
        /\ i # hole /\ Parent(i) # hole => expire[array[Parent(i)]] <= expire[array[i]]
        /\ Parent(i) = hole =>
             /\ expire[temp] <= expire[array[i]]
             /\ hole > 0 => expire[array[Parent(hole)]] <= expire[array[i]]

\* From floor on; the timer that sinks fits what is above.
DownOrder ==
    loop = "down" =>
        /\ \A i \in 1..cur_size - 1 :
             /\ Parent(i) >= floor /\ i # hole /\ Parent(i) # hole =>
                  expire[array[Parent(i)]] <= expire[array[i]]
             /\ Parent(i) = hole /\ hole # floor =>
                  expire[array[Parent(hole)]] <= expire[array[i]]
        /\ hole # floor =>
             /\ Parent(hole) >= floor
             /\ expire[array[Parent(hole)]] <= expire[temp]

HeapInv == HeapTypes /\ LoopTypes /\ Held /\ UpOrder /\ DownOrder /\ HeapOrdered

\* A place other than the hole holds a timer.
LEMMA Occupied ==
  ASSUME HeapTypes, Held, container = "heap"
  PROVE  \A i \in Places : (i = hole /\ loop # "none") \/ (array[i] \in Timer /\ expire[array[i]] \in Nat)
  BY DEF HeapTypes, Held, Element, Places

\* Two places that change their elements lose none and double none.
LEMMA Swapped ==
  ASSUME NEW n \in Nat, NEW f, NEW g, NEW S,
         NEW a \in 0..n - 1, NEW b \in 0..n - 1,
         {f[i] : i \in 0..n - 1} = S,
         \A i, j \in 0..n - 1 : f[i] = f[j] => i = j,
         g[a] = f[b], g[b] = f[a],
         \A i \in 0..n - 1 : i # a /\ i # b => g[i] = f[i]
  PROVE  /\ {g[i] : i \in 0..n - 1} = S
         /\ \A i, j \in 0..n - 1 : g[i] = g[j] => i = j
<1>1. \A i \in 0..n - 1 : g[i] \in S
  OBVIOUS
<1>2. \A i \in 0..n - 1 : \E j \in 0..n - 1 : f[i] = g[j]
  OBVIOUS
<1>3. {g[i] : i \in 0..n - 1} = S
  BY <1>1, <1>2
<1> QED
  BY <1>3

-----------------------------------------------------------------------------
(* The first state *)

LEMMA InvInit == HeapInit => HeapInv
<1> SUFFICES ASSUME HeapInit PROVE HeapInv
  OBVIOUS
<1>1. /\ now = 0 /\ ticking = FALSE /\ container = "heap"
      /\ capacity \in Nat \ {0}
  BY HeapAssumption DEF HeapInit, TimersInit, EmptyHeap, GivenArray
<1>2. CASE EmptyHeap
  <2> USE <1>1, <1>2 DEF EmptyHeap, Empty
  <2>1. HeapTypes
    <3>1. expire \in [Timer -> Nat] /\ array \in [0..capacity - 1 -> Timer \cup {NULL}]
      OBVIOUS
    <3>2. cur_size \in 0..capacity /\ allocated \subseteq Timer /\ now \in Nat
      OBVIOUS
    <3> QED
      BY <3>1, <3>2 DEF HeapTypes
  <2>2. LoopTypes
    BY DEF LoopTypes
  <2>3. Held
    BY DEF Held, Places
  <2>4. UpOrder /\ DownOrder /\ HeapOrdered
    BY DEF UpOrder, DownOrder, HeapOrdered
  <2> QED
    BY <2>1, <2>2, <2>3, <2>4 DEF HeapInv
<1>3. CASE GivenArray
  <2>1. /\ cur_size \in 1..capacity
        /\ allocated \subseteq Timer /\ Cardinality(allocated) = cur_size
        /\ expire \in [Timer -> HeapDelay \cup {0}]
        /\ loop = "down" /\ floor = (cur_size - 1) \div 2
        /\ hole = floor /\ temp = array[floor]
    BY <1>3 DEF GivenArray
  <2>2. PICK init_array \in [Places -> allocated] :
          /\ {init_array[i] : i \in Places} = allocated
          /\ array = [i \in 0..capacity - 1 |->
                        IF i < cur_size THEN init_array[i] ELSE NULL]
    BY <1>3 DEF GivenArray, Places
  <2>3. floor \in Places /\ cur_size \in Nat \ {0}
    BY <1>1, <2>1 DEF Places
  <2>4. \A i \in Places : array[i] = init_array[i] /\ Element(i) = init_array[i]
    BY <1>1, <2>1, <2>2, <2>3 DEF Places, Element
  <2>5. \A i, j \in Places : init_array[i] = init_array[j] => i = j
    <3>1. IsFiniteSet(Places) /\ Cardinality(Places) = cur_size
      BY <1>1, <2>3, FS_Interval DEF Places
    <3>2. init_array \in Surjection(Places, allocated)
      BY <2>2 DEF Surjection
    <3>3. init_array \in Injection(Places, allocated)
      BY <2>1, <3>1, <3>2, FS_SurjSameCardinalityImpliesInj
    <3> QED
      BY <3>3 DEF Injection, IsInjective
  <2>6. HeapTypes
    <3>1. expire \in [Timer -> Nat]
      <4>1. HeapDelay \cup {0} \subseteq Nat
        BY HeapAssumption
      <4> QED
        BY <2>1, <4>1
    <3>2. array \in [0..capacity - 1 -> Timer \cup {NULL}]
      BY <1>1, <2>1, <2>2 DEF Places
    <3>3. now \in Nat /\ cur_size \in 0..capacity
      BY <1>1, <2>1
    <3>4. ticking \in BOOLEAN
      BY <1>1
    <3> QED
      BY <1>1, <2>1, <3>1, <3>2, <3>3, <3>4 DEF HeapTypes
  <2>7. LoopTypes
    <3>1. temp \in Timer
      BY <2>1, <2>2, <2>3, <2>4
    <3> QED
      BY <1>1, <2>1, <2>3, <3>1 DEF LoopTypes, Places
  <2>8. Held
    <3>1. {Element(i) : i \in Places} = allocated
      BY <2>2, <2>4
    <3> QED
      BY <2>4, <2>5, <3>1 DEF Held
  <2>9. UpOrder /\ HeapOrdered
    BY <2>1 DEF UpOrder, HeapOrdered
  <2>10. DownOrder
    <3>1. ASSUME NEW i \in 1..cur_size - 1, Parent(i) >= floor
          PROVE  Parent(i) = floor
      <4>1. floor \in Nat /\ cur_size - 1 <= 2 * floor + 1
        BY <2>1, <2>3
      <4>2. Parent(i) \in Nat /\ i \in Nat /\ 2 * Parent(i) + 1 <= i /\ i <= cur_size - 1
        BY <2>3, Tree
      <4> QED
        BY <2>3, <3>1, <4>1, <4>2
    <3> QED
      BY <2>1, <2>3, <3>1, Tree DEF DownOrder
  <2> QED
    BY <2>6, <2>7, <2>8, <2>9, <2>10 DEF HeapInv
<1> QED
  BY <1>2, <1>3 DEF HeapInit

-----------------------------------------------------------------------------
(* The loop of add_timer *)

LEMMA InvSiftUp == HeapInv /\ SiftUp => HeapInv'
<1> SUFFICES ASSUME HeapInv, SiftUp PROVE HeapInv'
  OBVIOUS
<1> DEFINE p == Parent(hole)
<1>1. /\ UNCHANGED <<now, expire, allocated, ticking, container>>
      /\ UNCHANGED <<capacity, cur_size, loop, temp, floor>>
      /\ loop = "up" /\ hole > 0
      /\ expire[array[p]] > expire[temp]
      /\ array' = [array EXCEPT ![hole] = array[p]]
      /\ hole' = p
  BY DEF SiftUp, timerVars
<1>2. HeapTypes /\ LoopTypes /\ Held /\ UpOrder
  BY DEF HeapInv
<1>3. /\ container = "heap" /\ temp \in Timer /\ expire[temp] \in Nat
      /\ hole \in Places /\ hole \in Nat \ {0} /\ floor = 0
      /\ cur_size \in Nat /\ Places' = Places /\ cur_size <= capacity /\ capacity \in Nat
  BY <1>1, <1>2 DEF HeapTypes, LoopTypes, Places
<1>4. p \in Places /\ p < hole /\ p \in Nat
  BY <1>3, Tree DEF Places
<1> HIDE DEF p
<1>5. \A i \in Places : i = hole \/ (array[i] \in Timer /\ expire[array[i]] \in Nat)
  BY <1>2, <1>3, Occupied
<1>6. /\ DOMAIN array = 0..capacity - 1
      /\ array'[hole] = array[p]
      /\ \A i \in Places : i # hole => array'[i] = array[i]
  BY <1>1, <1>2, <1>3 DEF HeapTypes, Places
<1>7. HeapTypes'
  BY <1>1, <1>2, <1>3, <1>4, <1>5 DEF HeapTypes, Places
<1>8. LoopTypes'
  BY <1>1, <1>2, <1>3, <1>4 DEF LoopTypes
<1>9. Held'
  <2> DEFINE f == [i \in Places |-> Element(i)]
             g == [i \in Places |-> Element(i)']
  <2>1. g[hole] = f[p] /\ g[p] = f[hole]
    BY <1>1, <1>3, <1>4, <1>6 DEF Element
  <2>2. \A i \in Places : i # hole /\ i # p => g[i] = f[i]
    BY <1>1, <1>6 DEF Element
  <2>3. {f[i] : i \in Places} = allocated /\ \A i, j \in Places : f[i] = f[j] => i = j
    BY <1>2, <1>3 DEF Held
  <2> HIDE DEF f
  <2>4. /\ {g[i] : i \in Places} = allocated
        /\ \A i, j \in Places : g[i] = g[j] => i = j
    <3> HIDE DEF g
    <3> QED
      BY <1>3, <1>4, <2>1, <2>2, <2>3, Swapped DEF Places
  <2> QED
    BY <1>1, <1>3, <2>4 DEF Held
<1>10. UpOrder'
  <2> SUFFICES ASSUME NEW i \in 1..cur_size - 1
               PROVE  /\ i # p /\ Parent(i) # p => expire[array'[Parent(i)]] <= expire[array'[i]]
                      /\ Parent(i) = p =>
                           /\ expire[temp] <= expire[array'[i]]
                           /\ p > 0 => expire[array'[Parent(p)]] <= expire[array'[i]]
    BY <1>1 DEF UpOrder
  <2>1. i \in Places /\ i \in Nat \ {0} /\ Parent(i) \in Places /\ Parent(i) < i /\ Parent(i) \in Nat
    BY <1>3, Tree DEF Places
  <2>2. /\ i # hole /\ Parent(i) # hole => expire[array[Parent(i)]] <= expire[array[i]]
        /\ Parent(i) = hole => expire[array[p]] <= expire[array[i]]
    BY <1>1, <1>2, <1>3 DEF UpOrder, p
  <2>3. p > 0 => /\ Parent(p) \in Places /\ Parent(p) # hole /\ Parent(p) < p
                 /\ expire[array[Parent(p)]] <= expire[array[p]]
    BY <1>1, <1>2, <1>3, <1>4, Tree DEF UpOrder, Places
  <2>4. ASSUME i # p, Parent(i) # p
        PROVE  expire[array'[Parent(i)]] <= expire[array'[i]]
    <3>1. i # hole
      BY <2>4 DEF p
    <3>2. CASE Parent(i) = hole
      BY <1>6, <2>1, <2>2, <3>1, <3>2
    <3>3. CASE Parent(i) # hole
      BY <1>6, <2>1, <2>2, <3>1, <3>3
    <3> QED
      BY <3>2, <3>3
  <2>5. ASSUME Parent(i) = p PROVE expire[array[p]] <= expire[array'[i]]
    <3>1. CASE i = hole
      BY <1>4, <1>5, <1>6, <3>1
    <3>2. CASE i # hole
      BY <1>4, <1>6, <2>1, <2>2, <2>5, <3>2
    <3> QED
      BY <3>1, <3>2
  <2>6. expire[array[p]] \in Nat /\ expire[array'[i]] \in Nat
    BY <1>4, <1>5, <1>6, <2>1
  <2>7. ASSUME Parent(i) = p, p > 0
        PROVE  expire[array'[Parent(p)]] <= expire[array'[i]]
    <3>1. array'[Parent(p)] = array[Parent(p)] /\ expire[array[Parent(p)]] \in Nat
      BY <1>5, <1>6, <2>3, <2>7
    <3> QED
      BY <2>3, <2>5, <2>6, <2>7, <3>1
  <2> QED
    BY <1>1, <1>3, <2>4, <2>5, <2>6, <2>7
<1>11. DownOrder' /\ HeapOrdered'
  BY <1>1 DEF DownOrder, HeapOrdered
<1> QED
  BY <1>7, <1>8, <1>9, <1>10, <1>11 DEF HeapInv

LEMMA InvSiftUpEnds == HeapInv /\ SiftUpEnds => HeapInv'
<1> SUFFICES ASSUME HeapInv, SiftUpEnds PROVE HeapInv'
  OBVIOUS
<1>1. /\ UNCHANGED <<now, expire, allocated, ticking, container>>
      /\ UNCHANGED <<capacity, cur_size>>
      /\ loop = "up" /\ loop' = "none" /\ hole' = 0 /\ floor' = 0
      /\ hole > 0 => expire[array[Parent(hole)]] <= expire[temp]
      /\ array' = [array EXCEPT ![hole] = temp]
  BY DEF SiftUpEnds, LoopEnds, timerVars
<1>2. HeapTypes /\ LoopTypes /\ Held /\ UpOrder
  BY DEF HeapInv
<1>3. /\ container = "heap" /\ temp \in Timer
      /\ hole \in Places /\ Places' = Places
      /\ cur_size \in Nat /\ cur_size <= capacity /\ capacity \in Nat
  BY <1>1, <1>2 DEF HeapTypes, LoopTypes, Places
<1>4. \A i \in Places : array'[i] = IF i = hole THEN temp ELSE array[i]
  BY <1>1, <1>2, <1>3 DEF HeapTypes, Places
<1>5. HeapTypes'
  BY <1>1, <1>2, <1>3 DEF HeapTypes
<1>6. LoopTypes'
  BY <1>1 DEF LoopTypes
<1>7. Held'
  <2>1. \A i \in Places : Element(i)' = Element(i)
    BY <1>1, <1>4 DEF Element
  <2> QED
    BY <1>1, <1>2, <1>3, <2>1 DEF Held
<1>8. HeapOrdered'
  <2> SUFFICES ASSUME NEW i \in 1..cur_size - 1
               PROVE  expire[array'[Parent(i)]] <= expire[array'[i]]
    BY <1>1 DEF HeapOrdered
  <2>1. i \in Places /\ Parent(i) \in Places /\ Parent(i) < i /\ Parent(i) \in Nat
    BY <1>3, Tree DEF Places
  <2>2. /\ i # hole /\ Parent(i) # hole => expire[array[Parent(i)]] <= expire[array[i]]
        /\ Parent(i) = hole => expire[temp] <= expire[array[i]]
    BY <1>1, <1>2 DEF UpOrder
  <2>3. CASE i = hole
    BY <1>1, <1>3, <1>4, <2>1, <2>3
  <2>4. CASE Parent(i) = hole
    BY <1>4, <2>1, <2>2, <2>4
  <2>5. CASE i # hole /\ Parent(i) # hole
    BY <1>4, <2>1, <2>2, <2>5
  <2> QED
    BY <2>3, <2>4, <2>5
<1>9. UpOrder' /\ DownOrder'
  BY <1>1 DEF UpOrder, DownOrder
<1> QED
  BY <1>5, <1>6, <1>7, <1>8, <1>9 DEF HeapInv

-----------------------------------------------------------------------------
(* percolate_down *)

\* The child that may rise is the earlier of the two.
LEMMA EarlierChild ==
  ASSUME HeapTypes, Held, container = "heap", hole \in Places, hole \in Nat,
         2 * hole + 1 <= cur_size - 1
  PROVE  LET c == SmallerChild(hole)
         IN  /\ c \in Places /\ c \in Nat \ {0} /\ c > hole /\ Parent(c) = hole
             /\ \A i \in 1..cur_size - 1 :
                  Parent(i) = hole => expire[array[c]] <= expire[array[i]]
<1> DEFINE left == 2 * hole + 1
           c == SmallerChild(hole)
<1>1. cur_size \in Nat /\ left \in Places /\ left \in Nat \ {0} /\ left > hole
  BY DEF HeapTypes, Places
<1>2. \A i \in Places : i # hole => expire[array[i]] \in Nat
  BY Occupied
<1>3. \A i \in 1..cur_size - 1 : Parent(i) = hole => i = left \/ i = left + 1
  BY Tree
<1>4. Parent(left) = hole /\ Parent(left + 1) = hole
  BY DEF Parent
<1>5. CASE left < cur_size - 1 /\ expire[array[left + 1]] < expire[array[left]]
  <2>1. c = left + 1 /\ left + 1 \in Places
    BY <1>1, <1>5 DEF SmallerChild, Places
  <2>2. expire[array[left]] \in Nat /\ expire[array[left + 1]] \in Nat
    BY <1>1, <1>2, <2>1
  <2> QED
    BY <1>1, <1>3, <1>4, <1>5, <2>1, <2>2
<1>6. CASE ~(left < cur_size - 1 /\ expire[array[left + 1]] < expire[array[left]])
  <2>1. c = left
    BY <1>1, <1>6 DEF SmallerChild
  <2>2. \A i \in 1..cur_size - 1 : i = left + 1 => expire[array[left]] <= expire[array[i]]
    BY <1>1, <1>2, <1>6 DEF Places
  <2>3. expire[array[left]] <= expire[array[left]]
    BY <1>1, <1>2
  <2> QED
    BY <1>1, <1>3, <1>4, <2>1, <2>2, <2>3
<1> QED
  BY <1>5, <1>6

LEMMA InvSiftDown == HeapInv /\ SiftDown => HeapInv'
<1> SUFFICES ASSUME HeapInv, SiftDown PROVE HeapInv'
  OBVIOUS
<1> DEFINE c == SmallerChild(hole)
<1>1. /\ UNCHANGED <<now, expire, allocated, ticking, container>>
      /\ UNCHANGED <<capacity, cur_size, loop, temp, floor>>
      /\ loop = "down" /\ 2 * hole + 1 <= cur_size - 1
      /\ expire[array[c]] < expire[temp]
      /\ array' = [array EXCEPT ![hole] = array[c]]
      /\ hole' = c
  BY DEF SiftDown, Sinks, timerVars
<1>2. HeapTypes /\ LoopTypes /\ Held /\ DownOrder
  BY DEF HeapInv
<1>3. /\ container = "heap" /\ temp \in Timer /\ expire[temp] \in Nat
      /\ hole \in Places /\ hole \in Nat /\ floor \in Nat /\ floor <= hole
      /\ cur_size \in Nat /\ Places' = Places /\ cur_size <= capacity /\ capacity \in Nat
  BY <1>1, <1>2 DEF HeapTypes, LoopTypes, Places
<1>4. /\ c \in Places /\ c \in Nat \ {0} /\ c > hole /\ Parent(c) = hole
      /\ \A i \in 1..cur_size - 1 :
           Parent(i) = hole => expire[array[c]] <= expire[array[i]]
  BY <1>1, <1>2, <1>3, EarlierChild
<1> HIDE DEF c
<1>5. \A i \in Places : i = hole \/ (array[i] \in Timer /\ expire[array[i]] \in Nat)
  BY <1>2, <1>3, Occupied
<1>6. /\ array'[hole] = array[c]
      /\ \A i \in Places : i # hole => array'[i] = array[i]
  BY <1>1, <1>2, <1>3 DEF HeapTypes, Places
<1>7. HeapTypes'
  BY <1>1, <1>2, <1>3, <1>4, <1>5 DEF HeapTypes, Places
<1>8. LoopTypes'
  BY <1>1, <1>2, <1>3, <1>4 DEF LoopTypes
<1>9. Held'
  <2> DEFINE f == [i \in Places |-> Element(i)]
             g == [i \in Places |-> Element(i)']
  <2>1. g[hole] = f[c] /\ g[c] = f[hole]
    BY <1>1, <1>3, <1>4, <1>6 DEF Element
  <2>2. \A i \in Places : i # hole /\ i # c => g[i] = f[i]
    BY <1>1, <1>6 DEF Element
  <2>3. {f[i] : i \in Places} = allocated /\ \A i, j \in Places : f[i] = f[j] => i = j
    BY <1>2, <1>3 DEF Held
  <2> HIDE DEF f
  <2>4. /\ {g[i] : i \in Places} = allocated
        /\ \A i, j \in Places : g[i] = g[j] => i = j
    <3> HIDE DEF g
    <3> QED
      BY <1>3, <1>4, <2>1, <2>2, <2>3, Swapped DEF Places
  <2> QED
    BY <1>1, <1>3, <2>4 DEF Held
<1>10. DownOrder'
  <2>1. expire[array[c]] \in Nat
    BY <1>4, <1>5
  <2>2. ASSUME NEW i \in 1..cur_size - 1, Parent(i) >= floor, i # c, Parent(i) # c
        PROVE  expire[array'[Parent(i)]] <= expire[array'[i]]
    <3>1. i \in Places /\ Parent(i) \in Places /\ Parent(i) < i /\ Parent(i) \in Nat
      BY <1>3, Tree DEF Places
    <3>2. CASE Parent(i) = hole
      BY <1>4, <1>6, <3>1, <3>2
    <3>3. CASE i = hole
      <4>1. hole # floor /\ c \in 1..cur_size - 1
        BY <1>3, <1>4, <2>2, <3>1, <3>3 DEF Places
      <4>2. expire[array[Parent(hole)]] <= expire[array[c]]
        BY <1>1, <1>2, <1>4, <4>1 DEF DownOrder
      <4>3. Parent(hole) # hole
        BY <3>1, <3>3
      <4> QED
        BY <1>6, <3>1, <3>3, <4>2, <4>3
    <3>4. CASE i # hole /\ Parent(i) # hole
      BY <1>1, <1>2, <1>6, <2>2, <3>1, <3>4 DEF DownOrder
    <3> QED
      BY <3>2, <3>3, <3>4
  <2>3. ASSUME NEW i \in 1..cur_size - 1, Parent(i) = c
        PROVE  expire[array'[Parent(c)]] <= expire[array'[i]]
    <3>1. i \in Places /\ i > c /\ i \in Nat
      BY <1>3, <1>4, <2>3, Tree DEF Places
    <3>2. array'[i] = array[i] /\ array'[Parent(c)] = array[c]
      BY <1>4, <1>6, <3>1
    <3>3. Parent(i) >= floor /\ i # hole /\ Parent(i) # hole
      BY <1>3, <1>4, <2>3, <3>1
    <3>4. expire[array[Parent(i)]] <= expire[array[i]]
      BY <1>1, <1>2, <3>3 DEF DownOrder
    <3> QED
      BY <2>3, <3>2, <3>4
  <2>4. /\ Parent(c) >= floor
        /\ expire[array'[Parent(c)]] <= expire[temp]
    BY <1>1, <1>3, <1>4, <1>6, <2>1
  <2> QED
    BY <1>1, <2>2, <2>3, <2>4 DEF DownOrder
<1>11. UpOrder' /\ HeapOrdered'
  BY <1>1 DEF UpOrder, HeapOrdered
<1> QED
  BY <1>7, <1>8, <1>9, <1>10, <1>11 DEF HeapInv

LEMMA InvSiftDownEnds == HeapInv /\ SiftDownEnds => HeapInv'
<1> SUFFICES ASSUME HeapInv, SiftDownEnds PROVE HeapInv'
  OBVIOUS
<1>1. /\ UNCHANGED <<now, expire, allocated, ticking, container>>
      /\ UNCHANGED <<capacity, cur_size>>
      /\ loop = "down" /\ ~Sinks
      /\ array' = [array EXCEPT ![hole] = temp]
      /\ \/ /\ floor > 0 /\ floor' = floor - 1 /\ hole' = floor - 1
            /\ temp' = array'[floor - 1] /\ loop' = loop
         \/ /\ ~(floor > 0) /\ loop' = "none" /\ hole' = 0 /\ floor' = 0
  BY DEF SiftDownEnds, LoopEnds, timerVars
<1>2. HeapTypes /\ LoopTypes /\ Held /\ DownOrder
  BY DEF HeapInv
<1>3. /\ container = "heap" /\ temp \in Timer /\ expire[temp] \in Nat
      /\ hole \in Nat /\ floor \in Nat /\ floor <= hole
      /\ hole \in Places \/ (cur_size = 0 /\ hole = 0)
      /\ cur_size \in Nat /\ Places' = Places /\ cur_size <= capacity
      /\ capacity \in Nat \ {0}
  BY <1>1, <1>2 DEF HeapTypes, LoopTypes, Places
<1>4. \A i \in Places : array'[i] = IF i = hole THEN temp ELSE array[i]
  BY <1>1, <1>2, <1>3 DEF HeapTypes, Places
<1>5. \A i \in Places : array'[i] = Element(i) /\ Element(i)' = Element(i)
  BY <1>1, <1>4 DEF Element
<1>6. \A i \in Places : array'[i] \in Timer /\ expire[array'[i]] \in Nat
  BY <1>2, <1>3, <1>5 DEF Held, HeapTypes
<1>7. HeapTypes'
  BY <1>1, <1>2, <1>3 DEF HeapTypes, Places
<1>8. LoopTypes'
  <2>1. CASE floor > 0
    <3>1. floor - 1 \in Places
      BY <1>3, <2>1 DEF Places
    <3> QED
      BY <1>1, <1>3, <1>6, <2>1, <3>1 DEF LoopTypes
  <2>2. CASE ~(floor > 0)
    BY <1>1, <2>2 DEF LoopTypes
  <2> QED
    BY <2>1, <2>2
<1>9. Held'
  BY <1>1, <1>2, <1>3, <1>5 DEF Held
\* The sunken timer fits: no child expires before it.
<1>10. \A i \in 1..cur_size - 1 :
         Parent(i) >= floor => expire[array'[Parent(i)]] <= expire[array'[i]]
  <2> SUFFICES ASSUME NEW i \in 1..cur_size - 1, Parent(i) >= floor
               PROVE  expire[array'[Parent(i)]] <= expire[array'[i]]
    OBVIOUS
  <2>1. /\ i \in Places /\ Parent(i) \in Places /\ Parent(i) < i /\ Parent(i) \in Nat
        /\ 2 * Parent(i) + 1 <= i /\ i \in Nat
    BY <1>3, Tree DEF Places
  <2>2. CASE Parent(i) = hole
    <3> DEFINE c == SmallerChild(hole)
    <3>1. 2 * hole + 1 <= cur_size - 1 /\ hole \in Places
      BY <1>3, <2>1, <2>2 DEF Places
    <3>2. c \in Places /\ c # hole /\ expire[array[c]] <= expire[array[i]]
      BY <1>2, <1>3, <2>2, <3>1, EarlierChild
    <3>3. ~(expire[array[c]] < expire[temp])
      BY <1>1, <3>1 DEF Sinks
    <3> HIDE DEF c
    <3>4. i # hole /\ array'[i] = array[i] /\ array'[Parent(i)] = temp
      BY <1>4, <2>1, <2>2
    <3>5. expire[array[c]] \in Nat /\ expire[array[i]] \in Nat
      BY <1>4, <1>6, <2>1, <3>2, <3>4
    <3>6. expire[temp] <= expire[array[c]]
      BY <1>3, <3>3, <3>5
    <3> QED
      BY <1>3, <3>2, <3>4, <3>5, <3>6
  <2>3. CASE i = hole
    <3>1. hole # floor
      BY <1>3, <2>1, <2>3
    <3>2. expire[array[Parent(hole)]] <= expire[temp]
      BY <1>1, <1>2, <3>1 DEF DownOrder
    <3> QED
      BY <1>4, <2>1, <2>3, <3>2
  <2>4. CASE i # hole /\ Parent(i) # hole
    BY <1>1, <1>2, <1>4, <2>1, <2>4 DEF DownOrder
  <2> QED
    BY <2>2, <2>3, <2>4
<1>11. HeapOrdered'
  <2> SUFFICES ASSUME loop' = "none", NEW i \in 1..cur_size - 1
               PROVE  expire[array'[Parent(i)]] <= expire[array'[i]]
    BY <1>1 DEF HeapOrdered
  <2>1. floor = 0 /\ Parent(i) \in Nat
    BY <1>1, <1>3, Tree
  <2> QED
    BY <1>10, <2>1
<1>12. DownOrder'
  <2> SUFFICES ASSUME loop' = "down" PROVE DownOrder'
    BY DEF DownOrder
  <2>1. floor > 0 /\ floor' = floor - 1 /\ hole' = floor - 1
    BY <1>1
  <2>2. ASSUME NEW i \in 1..cur_size - 1, Parent(i) >= floor', Parent(i) # hole'
        PROVE  Parent(i) >= floor
    BY <1>3, <2>1, <2>2, Tree
  <2> QED
    BY <1>1, <1>10, <2>1, <2>2 DEF DownOrder
<1>13. UpOrder'
  BY <1>1 DEF UpOrder
<1> QED
  BY <1>7, <1>8, <1>9, <1>11, <1>12, <1>13 DEF HeapInv

-----------------------------------------------------------------------------
(* The calls *)

\* Between the loops every place has its timer.
LEMMA AtRest ==
  ASSUME HeapInv, container = "heap", loop = "none"
  PROVE  /\ cur_size \in Nat /\ capacity \in Nat \ {0} /\ cur_size <= capacity
         /\ floor = 0
         /\ {array[i] : i \in Places} = allocated
         /\ \A i, j \in Places : array[i] = array[j] => i = j
         /\ \A i \in Places : array[i] \in allocated /\ array[i] \in Timer
         /\ \A i \in 1..cur_size - 1 :
              expire[array[Parent(i)]] <= expire[array[i]]
<1>1. \A i \in Places : Element(i) = array[i]
  BY DEF Element
<1>2. /\ {array[i] : i \in Places} = allocated
      /\ \A i, j \in Places : array[i] = array[j] => i = j
  BY <1>1 DEF HeapInv, Held
<1> QED
  BY <1>2 DEF HeapInv, HeapTypes, LoopTypes, HeapOrdered

LEMMA InvAdd ==
  ASSUME HeapInv, NEW t \in Timer, NEW d \in HeapDelay, HeapAdd(t, d)
  PROVE  HeapInv'
<1>1. /\ container = "heap" /\ ~ticking /\ loop = "none"
      /\ t \notin allocated /\ allocated' = allocated \cup {t}
      /\ expire' = [expire EXCEPT ![t] = now + d]
      /\ \/ cur_size >= capacity /\ array' = resize /\ capacity' = 2 * capacity
         \/ ~(cur_size >= capacity) /\ UNCHANGED <<array, capacity>>
      /\ cur_size' = cur_size + 1
      /\ loop' = "up" /\ hole' = cur_size /\ temp' = t
      /\ UNCHANGED <<now, ticking, container, floor>>
  BY DEF HeapAdd, HeapIdle, Idle, HeapInv, HeapTypes
<1>2. HeapTypes
  BY DEF HeapInv
<1>3. /\ cur_size \in Nat /\ capacity \in Nat \ {0} /\ cur_size <= capacity
      /\ floor = 0
      /\ {array[i] : i \in Places} = allocated
      /\ \A i, j \in Places : array[i] = array[j] => i = j
      /\ \A i \in Places : array[i] \in allocated /\ array[i] \in Timer
      /\ \A i \in 1..cur_size - 1 : expire[array[Parent(i)]] <= expire[array[i]]
  BY <1>1, AtRest
<1>4. \A i \in Places : array'[i] = array[i]
  BY <1>1, <1>3 DEF resize, Places
<1>5. Places' = Places \cup {cur_size} /\ cur_size \notin Places
  BY <1>1, <1>3 DEF Places
<1>6. \A i \in Places : expire'[array'[i]] = expire[array[i]]
  BY <1>1, <1>2, <1>3, <1>4 DEF HeapTypes
<1>7. HeapTypes'
  <2>1. expire' \in [Timer -> Nat]
    <3>1. now + d \in Nat
      BY <1>2, HeapAssumption DEF HeapTypes
    <3> QED
      BY <1>1, <1>2, <3>1 DEF HeapTypes
  <2>2. /\ capacity' \in Nat \ {0} /\ cur_size' \in 0..capacity'
        /\ array' \in [0..capacity' - 1 -> Timer \cup {NULL}]
    <3>1. CASE cur_size >= capacity
      BY <1>1, <1>3, <3>1 DEF resize, Places
    <3>2. CASE ~(cur_size >= capacity)
      BY <1>1, <1>2, <1>3, <3>2 DEF HeapTypes
    <3> QED
      BY <3>1, <3>2
  <2> QED
    BY <1>1, <1>2, <2>1, <2>2 DEF HeapTypes
<1>8. LoopTypes'
  BY <1>1, <1>3, <1>5 DEF LoopTypes
<1>9. Held'
  <2>1. \A i \in Places : Element(i)' = array[i]
    BY <1>1, <1>4, <1>5 DEF Element
  <2>2. \A i : i = cur_size => Element(i)' = t
    BY <1>1 DEF Element
  <2>3. {Element(i)' : i \in Places'} = allocated'
    BY <1>1, <1>3, <1>5, <2>1, <2>2
  <2>4. \A i, j \in Places' : Element(i)' = Element(j)' => i = j
    BY <1>1, <1>3, <1>5, <2>1, <2>2
  <2> QED
    BY <2>3, <2>4 DEF Held
<1>10. UpOrder'
  <2> SUFFICES ASSUME NEW i \in 1..cur_size
               PROVE  /\ i # cur_size => expire'[array'[Parent(i)]] <= expire'[array'[i]]
                      /\ Parent(i) # cur_size
    BY <1>1, <1>3 DEF UpOrder
  <2>1. Parent(i) \in Places /\ (i # cur_size => i \in Places /\ i \in 1..cur_size - 1)
    BY <1>3, Tree DEF Places
  <2> QED
    BY <1>3, <1>5, <1>6, <2>1
<1>11. DownOrder' /\ HeapOrdered'
  BY <1>1 DEF DownOrder, HeapOrdered
<1> QED
  BY <1>7, <1>8, <1>9, <1>10, <1>11 DEF HeapInv

LEMMA InvPop ==
  ASSUME HeapInv, container = "heap", loop = "none", pop_timer
  PROVE  HeapInv'
<1>1. /\ cur_size > 0
      /\ allocated' = allocated \ {array[0]}
      /\ array' = [array EXCEPT ![0] = array[cur_size - 1]]
      /\ cur_size' = cur_size - 1
      /\ loop' = "down" /\ hole' = 0 /\ temp' = array[cur_size - 1]
      /\ UNCHANGED <<now, expire, ticking, container, capacity, floor>>
  BY DEF pop_timer
<1>2. HeapTypes
  BY DEF HeapInv
<1>3. /\ cur_size \in Nat /\ capacity \in Nat \ {0} /\ cur_size <= capacity
      /\ floor = 0
      /\ {array[i] : i \in Places} = allocated
      /\ \A i, j \in Places : array[i] = array[j] => i = j
      /\ \A i \in Places : array[i] \in allocated /\ array[i] \in Timer
      /\ \A i \in 1..cur_size - 1 : expire[array[Parent(i)]] <= expire[array[i]]
  BY AtRest
<1> DEFINE last == cur_size - 1
<1>4. 0 \in Places /\ last \in Places /\ Places' = Places \ {last} /\ last \in Nat
  BY <1>1, <1>3 DEF Places
<1>5. \A i \in Places : i # 0 => array'[i] = array[i]
  BY <1>1, <1>2, <1>3 DEF HeapTypes, Places
<1>6. HeapTypes'
  <2>1. array' \in [0..capacity - 1 -> Timer \cup {NULL}]
    BY <1>1, <1>2, <1>3, <1>4 DEF HeapTypes, Places
  <2>2. cur_size' \in 0..capacity'
    BY <1>1, <1>3
  <2> QED
    BY <1>1, <1>2, <2>1, <2>2 DEF HeapTypes
<1>7. LoopTypes'
  BY <1>1, <1>3, <1>4 DEF LoopTypes, Places
<1>8. Held'
  <2>1. Element(0)' = array[last]
    BY <1>1 DEF Element
  <2>2. \A i \in Places' : i # 0 => Element(i)' = array[i]
    BY <1>1, <1>4, <1>5 DEF Element
  <2>3. {Element(i)' : i \in Places'} = allocated'
    <3>1. \A i \in Places' : Element(i)' \in allocated'
      BY <1>1, <1>3, <1>4, <2>1, <2>2
    <3>2. \A t \in allocated' : \E i \in Places' : t = Element(i)'
      <4> SUFFICES ASSUME NEW t \in allocated' PROVE \E i \in Places' : t = Element(i)'
        OBVIOUS
      <4>1. PICK j \in Places : t = array[j] /\ j # 0
        BY <1>1, <1>3
      <4>2. CASE j = last
        <5>1. 0 \in Places'
          BY <1>4, <4>1, <4>2
        <5> QED
          BY <2>1, <4>1, <4>2, <5>1
      <4>3. CASE j # last
        BY <1>4, <2>2, <4>1, <4>3
      <4> QED
        BY <4>2, <4>3
    <3> QED
      BY <3>1, <3>2
  <2>4. \A i, j \in Places' : Element(i)' = Element(j)' => i = j
    BY <1>3, <1>4, <2>1, <2>2
  <2> QED
    BY <2>3, <2>4 DEF Held
<1>9. DownOrder'
  <2> SUFFICES ASSUME NEW i \in 1..cur_size' - 1, Parent(i) # 0, i # 0
               PROVE  expire[array'[Parent(i)]] <= expire[array'[i]]
    BY <1>1, <1>3 DEF DownOrder
  <2>1. i \in Places /\ Parent(i) \in Places /\ i \in 1..cur_size - 1
    BY <1>1, <1>3, Tree DEF Places
  <2> QED
    BY <1>3, <1>5, <2>1
<1>10. UpOrder' /\ HeapOrdered'
  BY <1>1 DEF UpOrder, HeapOrdered
<1> QED
  BY <1>6, <1>7, <1>8, <1>9, <1>10 DEF HeapInv

\* What leaves the array and the loops alone leaves the order alone too.
LEMMA InvKeeps ==
  ASSUME HeapInv, UNCHANGED <<expire, array, capacity, cur_size, loopVars>>,
         \/ UNCHANGED <<allocated, container>>
         \/ container' = "none" /\ allocated' \subseteq allocated /\ loop = "none",
         now' \in Nat, ticking' \in BOOLEAN,
         ticking' => container' = "heap"
  PROVE  HeapInv'
<1> USE DEF HeapInv, loopVars
<1>1. HeapTypes' /\ LoopTypes'
  BY DEF HeapTypes, LoopTypes, Places
<1>2. UpOrder' /\ DownOrder'
  BY DEF UpOrder, DownOrder
<1>3. HeapOrdered'
  BY DEF HeapOrdered
<1>4. Held'
  BY DEF Held, Element, Places
<1> QED
  BY <1>1, <1>2, <1>3, <1>4

LEMMA InvStep == HeapInv /\ [HeapNext]_heapVars => HeapInv'
<1> SUFFICES ASSUME HeapInv, [HeapNext]_heapVars PROVE HeapInv'
  OBVIOUS
<1>1. /\ now \in Nat /\ ticking \in BOOLEAN /\ (ticking => container = "heap")
      /\ container \in {"heap", "none"}
      /\ cur_size > 0 \/ cur_size = 0
  BY DEF HeapInv, HeapTypes
<1>2. ASSUME NEW t \in Timer, HeapDel(t) PROVE HeapInv'
  BY <1>1, <1>2, InvKeeps DEF HeapDel, timerVars
<1>3. ASSUME NEW t \in Timer, NEW d \in HeapDelay, HeapAdd(t, d) PROVE HeapInv'
  BY <1>3, InvAdd
<1>4. CASE HeapPop
  BY <1>1, <1>4, InvPop DEF HeapPop, HeapIdle, Idle
<1>5. CASE HeapTickBegins
  BY <1>1, <1>5, InvKeeps DEF HeapTickBegins, HeapIdle, Idle
<1>6. CASE HeapTickFire
  BY <1>1, <1>6, InvPop DEF HeapTickFire
<1>7. CASE HeapTickEnds
  BY <1>1, <1>7, InvKeeps DEF HeapTickEnds
<1>8. CASE SiftUp \/ SiftUpEnds \/ SiftDown \/ SiftDownEnds
  BY <1>8, InvSiftUp, InvSiftUpEnds, InvSiftDown, InvSiftDownEnds
<1>9. CASE HeapDtor
  BY <1>1, <1>9, InvKeeps DEF HeapDtor, HeapIdle, Idle
<1>10. CASE loop = "none" /\ Elapse
              /\ UNCHANGED <<array, capacity, cur_size, cancelled, loopVars>>
  <2>1. now' \in Nat
    BY <1>1, <1>10 DEF Elapse
  <2> QED
    BY <1>1, <1>10, <2>1, InvKeeps DEF Elapse
<1>11. CASE UNCHANGED heapVars
  BY <1>1, <1>11, InvKeeps DEF heapVars, timerVars
<1> QED
  BY <1>2, <1>3, <1>4, <1>5, <1>6, <1>7, <1>8, <1>9, <1>10, <1>11 DEF HeapNext

-----------------------------------------------------------------------------
(* The theorems *)

\* Every reachable state satisfies the invariant.
THEOREM HeapAlways == HeapSpec => []HeapInv
<1> QED
  BY InvInit, InvStep, PTL DEF HeapSpec

\* In time_heap no sift, pop or copy into a larger array loses a timer, keeps
\* one twice, or keeps a pointer to a deleted one.
THEOREM PlacesHoldEach == HeapSpec => []HeapHoldsEach
<1>1. ASSUME HeapInv, container = "heap"
      PROVE  /\ {Element(i) : i \in 0..cur_size - 1} = allocated
             /\ Cardinality(allocated) = cur_size
  <2>1. /\ {Element(i) : i \in Places} = allocated
        /\ \A i, j \in Places : Element(i) = Element(j) => i = j
        /\ cur_size \in Nat
    BY <1>1 DEF HeapInv, Held, HeapTypes
  <2> DEFINE f == [i \in Places |-> Element(i)]
  <2>2. f \in Bijection(Places, allocated)
    BY <2>1 DEF Bijection, Injection, Surjection, IsInjective
  <2>3. IsFiniteSet(Places) /\ Cardinality(Places) = cur_size
    BY <2>1, FS_Interval DEF Places
  <2>4. ExistsBijection(Places, allocated)
    BY <2>2 DEF ExistsBijection
  <2>5. Cardinality(allocated) = cur_size
    BY <2>3, <2>4, FS_Bijection
  <2> QED
    BY <2>1, <2>5 DEF Places
<1>2. HeapInv => HeapHoldsEach
  BY <1>1 DEF HeapHoldsEach
<1> QED
  BY <1>2, HeapAlways, PTL

\* Whatever calls came before, between two of them no timer of time_heap
\* expires before its parent.
THEOREM ParentsFirst == HeapSpec => []HeapOrdered
<1>1. HeapInv => HeapOrdered
  BY DEF HeapInv
<1> QED
  BY <1>1, HeapAlways, PTL

\* top() is the earliest timer: of those that would be earlier, the one in the
\* least place would have a parent earlier still.
LEMMA TopIsLeast ==
  ASSUME HeapInv, container = "heap", loop = "none", cur_size > 0
  PROVE  /\ array[0] \in allocated
         /\ \A t \in allocated : expire[array[0]] <= expire[t]
<1>1. /\ cur_size \in Nat
      /\ {array[i] : i \in Places} = allocated
      /\ \A i \in Places : array[i] \in allocated /\ array[i] \in Timer
      /\ \A i \in 1..cur_size - 1 :
           expire[array[Parent(i)]] <= expire[array[i]]
  BY AtRest
<1>2. 0 \in Places
  BY <1>1 DEF Places
<1>3. \A i \in Places : expire[array[i]] \in Nat
  BY <1>1 DEF HeapInv, HeapTypes
<1> DEFINE Earlier == {i \in Places : expire[array[i]] < expire[array[0]]}
<1>4. Earlier = {}
  <2> SUFFICES ASSUME Earlier # {} PROVE FALSE
    OBVIOUS
  <2>1. Earlier \in SUBSET Nat
    BY <1>1 DEF Places
  <2> HIDE DEF Earlier
  <2>2. PICK i \in Earlier : \A j \in Earlier : i <= j
    BY <2>1, Least
  <2>3. i \in Places /\ expire[array[i]] < expire[array[0]] /\ i # 0
    BY <1>2, <1>3, <2>2 DEF Earlier
  <2>4. /\ i \in 1..cur_size - 1 /\ Parent(i) \in Places
        /\ Parent(i) < i /\ Parent(i) \in Nat /\ i \in Nat
    BY <1>1, <2>3, Tree DEF Places
  <2>5. Parent(i) \in Earlier
    BY <1>1, <1>2, <1>3, <2>3, <2>4 DEF Earlier
  <2> QED
    BY <2>2, <2>4, <2>5
<1>5. \A i \in Places : expire[array[0]] <= expire[array[i]]
  BY <1>2, <1>3, <1>4
<1> QED
  BY <1>1, <1>2, <1>5

LEMMA HeapStepImplements ==
  ASSUME HeapInv, [HeapNext]_heapVars
  PROVE  [HeapService!Next]_(HeapService!vars)
<1> DEFINE pending == [t \in allocated \ cancelled |-> expire[t]]
<1> USE DEF Idle, HeapIdle, HeapService!vars, HeapService!Pending, HeapService!Without
<1>1. /\ now \in Nat /\ ticking \in BOOLEAN /\ (ticking => container = "heap")
      /\ container \in {"heap", "none"} /\ expire \in [Timer -> Nat]
      /\ allocated \subseteq Timer /\ cur_size \in Nat
  BY DEF HeapInv, HeapTypes
<1>2. ASSUME NEW t \in Timer, HeapDel(t)
      PROVE  HeapService!Cancel(t) \/ UNCHANGED HeapService!vars
  <2>1. /\ ~ticking /\ t \in allocated /\ cancelled' = cancelled \cup {t}
        /\ UNCHANGED <<now, ticking, expire, allocated>>
    BY <1>2 DEF HeapDel, timerVars
  <2>2. CASE t \in cancelled
    BY <2>1, <2>2
  <2>3. CASE t \notin cancelled
    BY <2>1, <2>3 DEF HeapService!Cancel
  <2> QED
    BY <2>2, <2>3
<1>3. ASSUME NEW t \in Timer, NEW d \in HeapDelay, HeapAdd(t, d)
      PROVE  HeapService!Start(t)
  <2>1. /\ ~ticking /\ t \notin allocated /\ allocated' = allocated \cup {t}
        /\ expire' = [expire EXCEPT ![t] = now + d]
        /\ cancelled' = cancelled \ {t}
        /\ UNCHANGED <<now, ticking>>
    BY <1>3 DEF HeapAdd
  <2>2. now + d \in Int
    BY <1>1, HeapAssumption
  <2>3. allocated' \ cancelled' = (allocated \ cancelled) \cup {t} /\ t \notin allocated \ cancelled
    BY <2>1
  <2>4. pending'[t] = now + d
    BY <1>1, <2>1, <2>3
  <2>5. \A u \in allocated \ cancelled : pending'[u] = pending[u]
    BY <1>1, <2>1, <2>3
  <2> QED
    BY <2>1, <2>2, <2>3, <2>4, <2>5 DEF HeapService!Start
\* What goes with the top is one pending timer, or none when it was cancelled.
<1>4. ASSUME pop_timer, container = "heap", loop = "none"
      PROVE  /\ array[0] \in allocated /\ UNCHANGED <<now, ticking>>
             /\ \A t \in allocated : expire[array[0]] <= expire[t]
             /\ IF array[0] \in cancelled THEN pending' = pending
                ELSE pending' = [u \in (allocated \ cancelled) \ {array[0]} |-> pending[u]]
  <2>1. /\ allocated' = allocated \ {array[0]} /\ cur_size > 0
        /\ UNCHANGED <<now, ticking, expire, cancelled>>
    BY <1>4 DEF pop_timer
  <2> QED
    BY <1>4, <2>1, TopIsLeast
<1>5. CASE HeapPop
  <2>1. ~ticking /\ loop = "none" /\ container = "heap" /\ pop_timer
    BY <1>1, <1>5 DEF HeapPop
  <2>2. CASE array[0] \in cancelled
    BY <1>4, <2>1, <2>2
  <2>3. CASE array[0] \notin cancelled
    BY <1>1, <1>4, <2>1, <2>3 DEF HeapService!Cancel, HeapService!Next
  <2> QED
    BY <2>2, <2>3
<1>6. CASE HeapTickFire
  <2>1. /\ ticking /\ loop = "none" /\ container = "heap" /\ pop_timer
        /\ expire[array[0]] <= now
    BY <1>1, <1>6 DEF HeapTickFire
  <2>2. CASE array[0] \in cancelled
    BY <1>4, <2>1, <2>2
  <2>3. CASE array[0] \notin cancelled
    BY <1>1, <1>4, <2>1, <2>3 DEF HeapService!Fire, HeapService!Next
  <2> QED
    BY <2>2, <2>3
<1>7. CASE HeapTickBegins
  BY <1>7 DEF HeapTickBegins, HeapService!TickBegins, HeapService!Next
<1>8. CASE HeapTickEnds
  <2>1. /\ ticking /\ loop = "none" /\ ticking' = FALSE
        /\ cur_size > 0 => expire[array[0]] > now
        /\ UNCHANGED <<now, expire, allocated, cancelled>>
    BY <1>8 DEF HeapTickEnds
  <2>2. \A t \in allocated : expire[t] > now
    <3>1. CASE cur_size > 0
      BY <1>1, <2>1, <3>1, TopIsLeast
    <3>2. CASE ~(cur_size > 0)
      BY <1>1, <2>1, <3>2, AtRest DEF Places
    <3> QED
      BY <3>1, <3>2
  <2>3. now' >= now
    BY <1>1, <2>1
  <2> QED
    BY <2>1, <2>2, <2>3 DEF HeapService!TickEnds, HeapService!Next
<1>9. CASE SiftUp \/ SiftUpEnds \/ SiftDown \/ SiftDownEnds
  BY <1>9 DEF SiftUp, SiftUpEnds, SiftDown, SiftDownEnds, timerVars
<1>10. CASE HeapDtor
  <2>1. /\ ~ticking /\ container = "heap" /\ loop = "none"
        /\ allocated' = allocated \ {array[i] : i \in Places}
        /\ UNCHANGED <<now, ticking, expire, cancelled>>
    BY <1>1, <1>10 DEF HeapDtor, Places
  <2>2. allocated' = {}
    BY <2>1, AtRest
  <2> QED
    BY <2>1, <2>2 DEF HeapService!Close, HeapService!Next
<1>11. CASE loop = "none" /\ Elapse
              /\ UNCHANGED <<array, capacity, cur_size, cancelled, loopVars>>
  BY <1>1, <1>11 DEF Elapse, HeapService!Elapse, HeapService!Next
<1>12. CASE UNCHANGED heapVars
  BY <1>12 DEF heapVars, timerVars
<1> QED
  BY <1>2, <1>3, <1>5, <1>6, <1>7, <1>8, <1>9, <1>10, <1>11, <1>12
  DEF HeapNext, HeapService!Next

\* time_heap runs every timer that was not cancelled, at its time and in order,
\* for every capacity and whatever cancelled ones lie between them.
THEOREM HeapRefinement == HeapSpec => HeapImplementsService
<1>1. HeapInit => HeapService!Init
  <2> SUFFICES ASSUME HeapInit PROVE HeapService!Init
    OBVIOUS
  <2>1. HeapInv /\ now = 0 /\ ticking = FALSE
    BY InvInit DEF HeapInit, TimersInit
  <2>2. allocated \subseteq Timer /\ expire \in [Timer -> Nat]
    BY <2>1 DEF HeapInv, HeapTypes
  <2> QED
    BY <2>1, <2>2 DEF HeapService!Init, HeapService!Pending
<1> QED
  BY <1>1, HeapAlways, HeapStepImplements, PTL
  DEF HeapSpec, HeapImplementsService, HeapService!Spec

-----------------------------------------------------------------------------
(* Following next.  Reached is the least set that is closed under next, so  *)
(* a set that is closed takes the place of an induction along the list.     *)

Links == [Timer -> Timer \cup {NULL}]

LEMMA ReachedClosed ==
    ASSUME NEW n \in Links, NEW p \in Timer \cup {NULL}
    PROVE  /\ Reached(n, p) \in SUBSET Timer
           /\ p \in Reached(n, p) \cup {NULL}
           /\ Closed(n, Reached(n, p))
  <1>1. p \in Reached(n, p) \cup {NULL}
    BY DEF Reached
  <1>2. ASSUME NEW u \in Reached(n, p), n[u] # NULL
        PROVE  n[u] \in Reached(n, p)
    <2>1. n[u] \in Timer
      BY <1>2 DEF Links, Reached
    <2>2. ASSUME NEW S \in SUBSET Timer, p \in S \cup {NULL}, Closed(n, S)
          PROVE  n[u] \in S
      BY <1>2, <2>2 DEF Closed, Reached
    <2> QED BY <2>1, <2>2 DEF Reached
  <1> QED BY <1>1, <1>2 DEF Closed, Reached

LEMMA ReachedLeast ==
    ASSUME NEW n \in Links, NEW p \in Timer \cup {NULL},
           NEW S \in SUBSET Timer, p \in S \cup {NULL}, Closed(n, S)
    PROVE  Reached(n, p) \subseteq S
  BY DEF Reached

\* NULL reaches nothing, and a timer itself and what comes after it.
LEMMA ReachedNext ==
    ASSUME NEW n \in Links
    PROVE  /\ Reached(n, NULL) = {}
           /\ \A p \in Timer : Reached(n, p) = {p} \cup Reached(n, n[p])
  <1>1. Reached(n, NULL) = {}
    <2>1. Closed(n, {}) /\ {} \in SUBSET Timer /\ NULL \in {} \cup {NULL}
      BY DEF Closed
    <2> QED BY <2>1 DEF Reached
  <1>2. ASSUME NEW p \in Timer
        PROVE  Reached(n, p) = {p} \cup Reached(n, n[p])
    <2> DEFINE R == Reached(n, n[p])
    <2>1. /\ R \in SUBSET Timer
          /\ n[p] \in R \cup {NULL}
          /\ Closed(n, R)
      BY ReachedClosed DEF Links
    <2>2. Reached(n, p) \subseteq {p} \cup R
      <3> HIDE DEF R
      <3>1. Closed(n, {p} \cup R)
        BY <2>1 DEF Closed
      <3> QED BY <2>1, <3>1, ReachedLeast
    <2>3. p \in Reached(n, p) /\ n[p] \in Reached(n, p) \cup {NULL}
      BY ReachedClosed, TimersAssumption DEF Closed
    <2>4. R \subseteq Reached(n, p)
      BY <2>3, ReachedClosed, ReachedLeast DEF Links
    <2> QED BY <2>2, <2>3, <2>4
  <1> QED BY <1>1, <1>2

\* Only the links of what is reached matter.
LEMMA ReachedFrame ==
    ASSUME NEW n \in Links, NEW m \in Links, NEW p \in Timer \cup {NULL},
           \A u \in Reached(n, p) : m[u] = n[u]
    PROVE  Reached(m, p) = Reached(n, p)
  <1> DEFINE R == Reached(n, p)
             Q == Reached(m, p)
  <1>1. /\ R \in SUBSET Timer /\ p \in R \cup {NULL} /\ Closed(n, R)
        /\ Q \in SUBSET Timer /\ p \in Q \cup {NULL} /\ Closed(m, Q)
        /\ \A u \in R : m[u] = n[u]
    BY ReachedClosed
  <1>2. Q \subseteq R
    <2>1. Closed(m, R)
      BY <1>1 DEF Closed
    <2> QED BY <1>1, <2>1, ReachedLeast
  <1>3. R \subseteq Q
    <2>1. Closed(n, Q \cap R)
      <3> HIDE DEF Q, R
      <3> QED BY <1>1 DEF Closed
    <2>2. Q \cap R \in SUBSET Timer /\ p \in (Q \cap R) \cup {NULL}
      <3> HIDE DEF Q, R
      <3> QED BY <1>1
    <2>3. R \subseteq Q \cap R
      BY <2>1, <2>2, ReachedLeast
    <2> QED BY <2>3
  <1> QED BY <1>2, <1>3

\* A list with head h: prev, here q, mirrors next and nothing precedes h.
Mirrored(n, q, h) ==
    /\ h # NULL => q[h] = NULL
    /\ \A u \in Reached(n, h) : n[u] # NULL => q[n[u]] = u

\* Such a list ends.
LEMMA ListEnds ==
    ASSUME NEW n \in Links, NEW q \in Links, NEW h \in Timer \cup {NULL},
           Mirrored(n, q, h), NEW p \in Reached(n, h)
    PROVE  p \notin Reached(n, n[p])
  <1> SUFFICES ASSUME p \in Reached(n, n[p]) PROVE FALSE
    OBVIOUS
  <1> DEFINE L == Reached(n, h)
             C == Reached(n, n[p])
             D == {u \in C : q[u] \in C}
  <1>0. L \in SUBSET Timer /\ h \in L \cup {NULL} /\ Closed(n, L)
    BY ReachedClosed
  <1>1. p \in Timer /\ n[p] \in Timer \cup {NULL} /\ n[p] \in L \cup {NULL}
    BY <1>0 DEF Links, Closed
  <1>2. C \in SUBSET Timer /\ n[p] \in C \cup {NULL} /\ Closed(n, C)
    BY <1>1, ReachedClosed
  <1>3. C \subseteq L
    BY <1>0, <1>1, ReachedLeast
  <1>4. n[p] # NULL
    BY ReachedNext
  <1>5. \A u \in L : n[u] # NULL => q[n[u]] = u
    BY DEF Mirrored
  <1>6. D \in SUBSET Timer /\ n[p] \in D \cup {NULL} /\ Closed(n, D)
    <2>1. p \in C
      OBVIOUS
    <2> HIDE DEF C, L
    <2> QED BY <1>2, <1>3, <1>4, <1>5, <2>1 DEF Closed
  <1>7. C \subseteq D
    BY <1>1, <1>6, ReachedLeast
  <1>8. h \notin C
    <2>1. CASE h = NULL
      BY <1>2, <2>1, TimersAssumption
    <2>2. CASE h # NULL
      <3>1. q[h] = NULL
        BY <2>2 DEF Mirrored
      <3> HIDE DEF C
      <3> QED BY <1>2, <1>7, <3>1, TimersAssumption
    <2> QED BY <2>1, <2>2
  <1>9. Closed(n, L \ C)
    <2> HIDE DEF L, C, D
    <2>1. ASSUME NEW u \in L \ C, n[u] \in C
          PROVE  FALSE
      <3>1. n[u] # NULL
        BY <1>2, <2>1, TimersAssumption
      <3>2. q[n[u]] = u /\ q[n[u]] \in C
        BY <1>5, <1>7, <2>1, <3>1 DEF D
      <3> QED BY <3>2
    <2> QED BY <1>0, <2>1 DEF Closed
  <1>10. L \ C \in SUBSET Timer /\ h \in (L \ C) \cup {NULL}
    <2> HIDE DEF L, C
    <2> QED BY <1>0, <1>8
  <1>11. L \subseteq L \ C
    BY <1>9, <1>10, ReachedLeast
  <1>12. p \in L /\ p \in C
    OBVIOUS
  <1> QED BY <1>11, <1>12

\* What is not the head has somebody before it.
LEMMA HasPrevious ==
    ASSUME NEW n \in Links, NEW q \in Links, NEW h \in Timer \cup {NULL},
           Mirrored(n, q, h), NEW t \in Reached(n, h), t # h
    PROVE  q[t] \in Reached(n, h) /\ n[q[t]] = t
  <1> DEFINE L == Reached(n, h)
  <1>1. L \in SUBSET Timer /\ h \in L \cup {NULL} /\ Closed(n, L)
    BY ReachedClosed
  <1>2. \A u \in L : n[u] # NULL => q[n[u]] = u
    BY DEF Mirrored
  <1>3. PICK u \in L : n[u] = t
    <2> SUFFICES ASSUME \A u \in L : n[u] # t PROVE FALSE
      OBVIOUS
    <2>1. Closed(n, L \ {t}) /\ L \ {t} \in SUBSET Timer /\ h \in (L \ {t}) \cup {NULL}
      <3> HIDE DEF L
      <3> QED BY <1>1 DEF Closed
    <2>2. L \subseteq L \ {t}
      BY <2>1, ReachedLeast
    <2> QED BY <2>2
  <1>4. t # NULL
    BY <1>1, TimersAssumption
  <1> QED BY <1>2, <1>3, <1>4

\* The front of a list is cut off.
LEMMA WithoutHead ==
    ASSUME NEW n \in Links, NEW q \in Links, NEW h \in Timer,
           Mirrored(n, q, h)
    PROVE  Reached(n, n[h]) = Reached(n, h) \ {h}
  <1>1. h \in Reached(n, h)
    BY ReachedClosed, TimersAssumption
  <1> QED BY <1>1, ReachedNext, ListEnds

\* A timer behind the head is taken out, and what follows it is still there.
LEMMA WithoutOne ==
    ASSUME NEW n \in Links, NEW q \in Links, NEW h \in Timer \cup {NULL},
           Mirrored(n, q, h), NEW t \in Reached(n, h), t # h,
           NEW m \in Links, m[q[t]] = n[t],
           \A u \in Timer \ {q[t]} : m[u] = n[u]
    PROVE  /\ Reached(m, h) = Reached(n, h) \ {t}
           /\ Reached(m, n[t]) = Reached(n, n[t])
  <1> DEFINE L == Reached(n, h)
             p == q[t]
             M == Reached(m, h)
  <1>1. L \in SUBSET Timer /\ h \in L \cup {NULL} /\ Closed(n, L)
    BY ReachedClosed
  <1>2. p \in L /\ t \in L /\ n[p] = t /\ t \in Timer /\ n[t] \in Timer \cup {NULL}
    BY <1>1, HasPrevious DEF Links
  <1>3. \A u \in L : n[u] # NULL => q[n[u]] = u
    BY DEF Mirrored
  <1>4. t # NULL
    BY <1>2, TimersAssumption
  <1>5. n[t] # t
    BY <1>2, ReachedClosed, ListEnds, <1>4
  <1>6. p # t
    BY <1>2, <1>5
  <1>7. m \in Links /\ m[p] = n[t] /\ \A u \in Timer \ {p} : m[u] = n[u]
    OBVIOUS
  <1>8. /\ M \in SUBSET Timer /\ h \in M \cup {NULL} /\ Closed(m, M)
    <2> QED BY <1>7, ReachedClosed
  <1>9. M \subseteq L \ {t}
    <2>1. Closed(m, L \ {t})
      <3> HIDE DEF p, L
      <3>1. ASSUME NEW u \in L \ {t}
            PROVE  m[u] \in (L \ {t}) \cup {NULL}
        <4>1. CASE u = p
          BY <1>1, <1>2, <1>5, <1>7, <4>1 DEF Closed
        <4>2. CASE u # p
          <5>1. m[u] = n[u] /\ n[u] \in L \cup {NULL}
            BY <1>1, <1>7, <4>2 DEF Closed
          <5>2. n[u] # t
            BY <1>3, <1>4, <4>2 DEF p
          <5> QED BY <5>1, <5>2
        <4> QED BY <4>1, <4>2
      <3> QED BY <3>1 DEF Closed
    <2>2. L \ {t} \in SUBSET Timer /\ h \in (L \ {t}) \cup {NULL}
      <3> HIDE DEF L
      <3> QED BY <1>1
    <2> HIDE DEF L
    <2> QED BY <1>7, <2>1, <2>2, ReachedLeast DEF M
  <1>10. L \ {t} \subseteq M
    <2>1. p \in M
      <3> SUFFICES ASSUME p \notin M PROVE FALSE
        OBVIOUS
      <3>1. Closed(n, M)
        <4> HIDE DEF M, p
        <4> QED BY <1>7, <1>8 DEF Closed
      <3>2. L \subseteq M
        <4> HIDE DEF M
        <4> QED BY <1>8, <3>1, ReachedLeast DEF L
      <3> QED BY <1>2, <3>2
    <2>2. Closed(n, M \cup {t})
      <3> HIDE DEF M, p
      <3>1. n[t] \in M \cup {NULL}
        BY <1>7, <1>8, <2>1 DEF Closed
      <3>2. \A u \in M \ {p} : n[u] \in M \cup {NULL}
        BY <1>7, <1>8 DEF Closed
      <3> QED BY <1>2, <3>1, <3>2 DEF Closed
    <2>3. M \cup {t} \in SUBSET Timer /\ h \in (M \cup {t}) \cup {NULL}
      <3> HIDE DEF M
      <3> QED BY <1>2, <1>8
    <2>4. L \subseteq M \cup {t}
      <3> HIDE DEF M
      <3> QED BY <2>2, <2>3, ReachedLeast DEF L
    <2> QED BY <2>4
  <1>11. Reached(m, n[t]) = Reached(n, n[t])
    <2>1. p \notin Reached(n, n[t])
      <3> SUFFICES ASSUME p \in Reached(n, n[t]) PROVE FALSE
        OBVIOUS
      <3>1. Closed(n, Reached(n, n[t]))
        BY <1>2, ReachedClosed
      <3>2. t \in Reached(n, n[t])
        BY <1>2, <1>4, <3>1 DEF Closed
      <3> QED BY <3>2, ListEnds
    <2>2. \A u \in Reached(n, n[t]) : m[u] = n[u]
      <3>1. Reached(n, n[t]) \in SUBSET Timer
        BY <1>2, ReachedClosed
      <3> HIDE DEF p
      <3> QED BY <1>7, <2>1, <3>1
    <2> QED BY <1>2, <1>7, <2>2, ReachedFrame
  <1> QED BY <1>7, <1>9, <1>10, <1>11

\* A new timer goes before a list that does not hold it.
LEMMA WithNewHead ==
    ASSUME NEW n \in Links, NEW h \in Timer \cup {NULL}, NEW t \in Timer,
           t \notin Reached(n, h),
           NEW m \in Links, m[t] = h, \A u \in Timer \ {t} : m[u] = n[u]
    PROVE  Reached(m, t) = Reached(n, h) \cup {t}
  <1>1. Reached(n, h) \in SUBSET Timer
    BY ReachedClosed
  <1>2. \A u \in Reached(n, h) : m[u] = n[u]
    BY <1>1
  <1>3. Reached(m, h) = Reached(n, h)
    BY <1>2, ReachedFrame
  <1>4. Reached(m, t) = {t} \cup Reached(m, m[t])
    BY ReachedNext
  <1> QED BY <1>3, <1>4

-----------------------------------------------------------------------------
(* The wheel *)

WheelTypes ==
    /\ now \in Nat
    /\ expire \in [Timer -> Nat]
    /\ allocated \in SUBSET Timer
    /\ ticking \in BOOLEAN
    /\ container \in {"wheel", "none"}
    /\ slots \in [0..N - 1 -> Timer \cup {NULL}]
    /\ next \in Links
    /\ prev \in Links
    /\ cur_slot \in 0..N - 1
    /\ rotation \in [Timer -> Nat]
    /\ time_slot \in [Timer -> 0..N - 1]
    /\ tmp \in Timer \cup {NULL}

\* The walk is in the current list, and only a living wheel ticks.
WalkIsCurrent ==
    /\ ticking => container = "wheel"
    /\ tmp # NULL => ticking /\ tmp \in allocated /\ time_slot[tmp] = cur_slot
    /\ container = "none" => allocated = {}

WheelInv == WheelTypes /\ WalkIsCurrent /\ WheelHoldsEach /\ RotationAddsUp

-----------------------------------------------------------------------------
(* Arithmetic of the wheel *)

LEMMA DivMod ==
    ASSUME NEW a \in Nat, NEW m \in Nat \ {0}
    PROVE  /\ a % m \in 0..m - 1
           /\ a \div m \in Nat
           /\ a = m * (a \div m) + (a % m)
  OBVIOUS

\* Going m slots on from c takes m turns.
LEMMA SlotDistance ==
    ASSUME NEW n \in Nat \ {0}, NEW c \in 0..n - 1, NEW m \in 0..n - 1
    PROVE  (c + m) % n = IF c + m < n THEN c + m ELSE c + m - n
  <1>1. CASE c + m < n
    BY <1>1
  <1>2. CASE ~(c + m < n)
    BY <1>2
  <1> QED BY <1>1, <1>2

LEMMA TurnsRange ==
    ASSUME WheelAssumption, NEW a \in 0..N - 1, NEW b \in 0..N - 1
    PROVE  /\ Turns(a, b) \in 0..N - 1
           /\ Turns(a, b) = 0 <=> a = b
  BY DEF Turns, WheelAssumption

\* After a turn every other slot is one turn nearer, and the slot that was
\* current is a round away but for that turn.
LEMMA TurnOnce ==
    ASSUME WheelAssumption, NEW c \in 0..N - 1, NEW s \in 0..N - 1
    PROVE  /\ (c + 1) % N \in 0..N - 1
           /\ s # c => Turns((c + 1) % N, s) = Turns(c, s) - 1
           /\ s = c => Turns((c + 1) % N, s) = N - 1
  <1>1. N \in Nat \ {0}
    BY DEF WheelAssumption
  <1>2. CASE c + 1 < N
    <2>1. (c + 1) % N = c + 1
      BY <1>1, <1>2
    <2> QED BY <1>1, <1>2, <2>1 DEF Turns
  <1>3. CASE ~(c + 1 < N)
    <2>1. c + 1 = N
      BY <1>1, <1>3
    <2>2. N % N = 0
      BY <1>1
    <2> QED BY <1>1, <2>1, <2>2 DEF Turns
  <1> QED BY <1>2, <1>3

\* add_timer puts a timer ticks turns away.
LEMMA Placed ==
    ASSUME WheelAssumption, NEW c \in 0..N - 1, NEW ticks \in Nat
    PROVE  LET s == (c + (ticks % N)) % N IN
           /\ s \in 0..N - 1
           /\ ticks \div N \in Nat
           /\ ticks = Turns(c, s) + N * (ticks \div N)
  <1> DEFINE m == ticks % N
             s == (c + m) % N
  <1>1. N \in Nat \ {0}
    BY DEF WheelAssumption
  <1>2. m \in 0..N - 1 /\ ticks \div N \in Nat /\ ticks = N * (ticks \div N) + m
    BY <1>1, DivMod
  <1>3. s = IF c + m < N THEN c + m ELSE c + m - N
    BY <1>1, <1>2, SlotDistance
  <1>4. s \in 0..N - 1 /\ Turns(c, s) = m
    <2> HIDE DEF m
    <2> QED BY <1>1, <1>2, <1>3 DEF Turns
  <1>5. N * (ticks \div N) \in Nat
    BY <1>1, <1>2
  <1> QED BY <1>2, <1>4, <1>5

LEMMA TicksType ==
    ASSUME WheelAssumption, NEW timeout \in Timeout
    PROVE  Ticks(timeout) \in Nat
  <1>1. SI \in Nat \ {0} /\ timeout \in Nat
    BY DEF WheelAssumption
  <1>2. timeout \div SI \in Nat
    BY <1>1, DivMod
  <1> QED BY <1>1, <1>2 DEF Ticks

-----------------------------------------------------------------------------
(* What the operations do to the lists *)

ListOf(i) == {t \in allocated : time_slot[t] = i}

LEMMA Lists ==
    ASSUME WheelTypes, WheelHoldsEach, container = "wheel", NEW i \in 0..N - 1
    PROVE  /\ slots[i] \in Timer \cup {NULL}
           /\ Reached(next, slots[i]) = ListOf(i)
           /\ Mirrored(next, prev, slots[i])
  BY DEF WheelTypes, WheelHoldsEach, Mirrored, ListOf

\* Unlink takes one timer out of one list, and the walk can go on behind it.
LEMMA Unlinked ==
    ASSUME WheelTypes, WheelHoldsEach, container = "wheel",
           NEW i \in 0..N - 1, NEW t \in ListOf(i), Unlink(t, i)
    PROVE  /\ slots' \in [0..N - 1 -> Timer \cup {NULL}]
           /\ next' \in Links /\ prev' \in Links
           /\ \A j \in 0..N - 1 :
                /\ Reached(next', slots'[j]) = ListOf(j) \ {t}
                /\ slots'[j] # NULL => prev'[slots'[j]] = NULL
           /\ \A u \in allocated \ {t} : next'[u] # NULL => prev'[next'[u]] = u
           /\ Reached(next', next[t]) = Reached(next, next[t])
  <1> DEFINE p == prev[t]
  <1>1. /\ slots \in [0..N - 1 -> Timer \cup {NULL}]
        /\ next \in Links /\ prev \in Links
        /\ t \in allocated /\ t \in Timer /\ t # NULL
        /\ next[t] \in Timer \cup {NULL}
        /\ ListOf(i) \in SUBSET Timer
    BY TimersAssumption DEF WheelTypes, Links, ListOf
  <1>2. \A j \in 0..N - 1 : slots[j] # NULL => prev[slots[j]] = NULL
    BY DEF WheelHoldsEach
  <1>3. \A u \in allocated : next[u] # NULL => prev[next[u]] = u
    BY DEF WheelHoldsEach
  <1>4. \A u \in allocated \ {t} : next[u] # NULL => next[u] # next[t]
    BY <1>1, <1>3
  <1>5. /\ Reached(next, slots[i]) = ListOf(i)
        /\ Mirrored(next, prev, slots[i])
        /\ slots[i] \in Timer \cup {NULL}
    BY Lists
  <1>6. CASE t = slots[i]
    <2>1. /\ slots' = [slots EXCEPT ![i] = next[t]]
          /\ next' = next
          /\ prev' = [u \in Timer |-> IF u = next[t] THEN NULL ELSE prev[u]]
      BY <1>6 DEF Unlink
    <2>2. slots' \in [0..N - 1 -> Timer \cup {NULL}] /\ next' \in Links /\ prev' \in Links
      BY <1>1, <2>1 DEF Links
    <2>3. ASSUME NEW j \in 0..N - 1
          PROVE  /\ Reached(next', slots'[j]) = ListOf(j) \ {t}
                 /\ slots'[j] # NULL => prev'[slots'[j]] = NULL
      <3>1. slots'[j] # NULL => prev'[slots'[j]] = NULL
        BY <1>1, <1>2, <2>1
      <3>2. CASE j = i
        <4>1. slots'[j] = next[t] /\ next' = next
          BY <1>1, <2>1, <3>2
        <4>2. Reached(next, next[t]) = ListOf(i) \ {t}
          BY <1>1, <1>5, <1>6, WithoutHead
        <4> QED BY <3>1, <3>2, <4>1, <4>2
      <3>3. CASE j # i
        <4>1. slots'[j] = slots[j] /\ next' = next
          BY <1>1, <2>1, <3>3
        <4>2. Reached(next, slots[j]) = ListOf(j)
          BY Lists
        <4>3. t \notin ListOf(j)
          BY <3>3 DEF ListOf
        <4> QED BY <3>1, <4>1, <4>2, <4>3
      <3> QED BY <3>2, <3>3
    <2>4. \A u \in allocated \ {t} : next'[u] # NULL => prev'[next'[u]] = u
      BY <1>1, <1>3, <1>4, <2>1 DEF Links, WheelTypes
    <2> QED BY <2>1, <2>2, <2>3, <2>4
  <1>7. CASE t # slots[i]
    <2>1. /\ slots' = slots
          /\ next' = [next EXCEPT ![p] = next[t]]
          /\ prev' = [u \in Timer |-> IF u = next[t] THEN p ELSE prev[u]]
      BY <1>7 DEF Unlink
    <2>2. p \in ListOf(i) /\ next[p] = t
      BY <1>1, <1>5, <1>7, HasPrevious
    <2>3. p \in Timer /\ p \in allocated
      BY <1>1, <2>2 DEF ListOf
    <2> HIDE DEF p
    <2>4. /\ next' \in Links /\ next'[p] = next[t]
          /\ \A u \in Timer \ {p} : next'[u] = next[u]
      BY <1>1, <2>1, <2>3 DEF Links
    <2>5. slots' \in [0..N - 1 -> Timer \cup {NULL}] /\ prev' \in Links
      BY <1>1, <2>1, <2>3 DEF Links
    <2>6. /\ Reached(next', slots[i]) = ListOf(i) \ {t}
          /\ Reached(next', next[t]) = Reached(next, next[t])
      <3>1. t \in Reached(next, slots[i])
        BY <1>5
      <3> QED BY <1>1, <1>5, <1>7, <2>4, <3>1, WithoutOne DEF p
    <2>7. ASSUME NEW j \in 0..N - 1
          PROVE  Reached(next', slots'[j]) = ListOf(j) \ {t}
      <3>1. CASE j = i
        BY <2>1, <2>6, <3>1
      <3>2. CASE j # i
        <4>1. Reached(next, slots[j]) = ListOf(j) /\ slots[j] \in Timer \cup {NULL}
          BY Lists
        <4>2. t \notin ListOf(j) /\ p \notin ListOf(j)
          BY <2>2, <3>2 DEF ListOf
        <4>3. ListOf(j) \in SUBSET Timer
          BY DEF WheelTypes, ListOf
        <4>4. \A u \in Reached(next, slots[j]) : next'[u] = next[u]
          BY <2>4, <4>1, <4>2, <4>3
        <4>5. Reached(next', slots[j]) = Reached(next, slots[j])
          BY <1>1, <2>4, <4>1, <4>4, ReachedFrame
        <4> QED BY <2>1, <4>1, <4>2, <4>5
      <3> QED BY <3>1, <3>2
    <2>8. ASSUME NEW j \in 0..N - 1, slots'[j] # NULL
          PROVE  prev'[slots'[j]] = NULL
      <3>1. slots[j] \in Timer /\ prev[slots[j]] = NULL /\ slots'[j] = slots[j]
        BY <1>1, <1>2, <2>1, <2>8
      <3>2. slots[j] # next[t]
        BY <1>1, <1>3, <3>1, TimersAssumption
      <3> QED BY <2>1, <3>1, <3>2
    <2>9. ASSUME NEW u \in allocated \ {t}, next'[u] # NULL
          PROVE  prev'[next'[u]] = u
      <3>1. CASE u = p
        BY <1>1, <2>1, <2>4, <2>9, <3>1
      <3>2. CASE u # p
        <4>1. next'[u] = next[u] /\ next[u] \in Timer
          BY <1>1, <2>4, <2>9, <3>2 DEF WheelTypes, Links
        <4> QED BY <1>3, <1>4, <2>1, <2>9, <4>1
      <3> QED BY <3>1, <3>2
    <2> QED BY <2>4, <2>5, <2>6, <2>7, <2>8, <2>9
  <1> QED BY <1>6, <1>7

\* add_timer puts one timer into one list.
LEMMA Pushed ==
    ASSUME WheelTypes, WheelHoldsEach, container = "wheel",
           NEW i \in 0..N - 1, NEW t \in Timer \ allocated,
           slots' = [slots EXCEPT ![i] = t],
           next' \in Links, next'[t] = slots[i],
           \A u \in Timer \ {t} : next'[u] = next[u],
           prev' = [u \in Timer |-> IF u = t THEN NULL
                                    ELSE IF u = slots[i] THEN t ELSE prev[u]]
    PROVE  /\ slots' \in [0..N - 1 -> Timer \cup {NULL}]
           /\ prev' \in Links
           /\ \A j \in 0..N - 1 :
                /\ Reached(next', slots'[j]) = IF j = i THEN ListOf(j) \cup {t} ELSE ListOf(j)
                /\ slots'[j] # NULL => prev'[slots'[j]] = NULL
           /\ \A u \in allocated \cup {t} : next'[u] # NULL => prev'[next'[u]] = u
  <1>1. /\ slots \in [0..N - 1 -> Timer \cup {NULL}]
        /\ next \in Links /\ prev \in Links
        /\ allocated \in SUBSET Timer
        /\ t # NULL
    BY TimersAssumption DEF WheelTypes, Links
  <1>2. \A j \in 0..N - 1 : slots[j] # NULL => prev[slots[j]] = NULL
    BY DEF WheelHoldsEach
  <1>3. \A u \in allocated : next[u] # NULL => prev[next[u]] = u
    BY DEF WheelHoldsEach
  <1>4. \A j \in 0..N - 1 : t \notin ListOf(j) /\ ListOf(j) \in SUBSET Timer
    BY <1>1 DEF ListOf
  <1>5. \A j \in 0..N - 1 : slots[j] # NULL => slots[j] \in ListOf(j)
    BY <1>1, Lists, ReachedClosed
  <1>6. slots' \in [0..N - 1 -> Timer \cup {NULL}] /\ prev' \in Links
    BY <1>1 DEF Links
  <1>7. /\ next' \in Links /\ next'[t] = slots[i]
        /\ \A u \in Timer \ {t} : next'[u] = next[u]
    OBVIOUS
  <1>8. Reached(next', t) = ListOf(i) \cup {t}
    <2>1. slots[i] \in Timer \cup {NULL} /\ Reached(next, slots[i]) = ListOf(i)
      BY Lists
    <2>2. t \in Timer /\ t \notin Reached(next, slots[i])
      BY <1>4, <2>1
    <2>3. Reached(next', t) = Reached(next, slots[i]) \cup {t}
      BY <1>1, <1>7, <2>1, <2>2, WithNewHead
    <2> QED BY <2>1, <2>3
  <1>9. ASSUME NEW j \in 0..N - 1
        PROVE  Reached(next', slots'[j]) = IF j = i THEN ListOf(j) \cup {t} ELSE ListOf(j)
    <2>1. CASE j = i
      BY <1>1, <1>8, <2>1
    <2>2. CASE j # i
      <3>1. slots'[j] = slots[j]
        BY <1>1, <2>2
      <3>2. Reached(next, slots[j]) = ListOf(j) /\ slots[j] \in Timer \cup {NULL}
        BY Lists
      <3>3. \A u \in Reached(next, slots[j]) : next'[u] = next[u]
        BY <1>4, <1>7, <3>2
      <3>4. Reached(next', slots[j]) = Reached(next, slots[j])
        BY <1>1, <1>7, <3>2, <3>3, ReachedFrame
      <3> QED BY <2>2, <3>1, <3>2, <3>4
    <2> QED BY <2>1, <2>2
  <1>10. ASSUME NEW j \in 0..N - 1, slots'[j] # NULL
         PROVE  prev'[slots'[j]] = NULL
    <2>1. CASE j = i
      BY <1>1, <2>1
    <2>2. CASE j # i
      <3>1. slots'[j] = slots[j] /\ slots[j] \in Timer /\ prev[slots[j]] = NULL
        BY <1>1, <1>2, <1>10, <2>2
      <3>2. slots[j] # slots[i]
        BY <1>5, <1>10, <2>2, <3>1 DEF ListOf
      <3> QED BY <3>1, <3>2
    <2> QED BY <2>1, <2>2
  <1>11. ASSUME NEW u \in allocated \cup {t}, next'[u] # NULL
         PROVE  prev'[next'[u]] = u
    <2>1. CASE u = t
      <3>1. slots[i] \in Timer /\ slots[i] # t
        BY <1>1, <1>4, <1>5, <1>7, <1>11, <2>1
      <3> QED BY <1>7, <2>1, <3>1
    <2>2. CASE u # t
      <3>1. u \in allocated /\ u \in Timer /\ u # NULL
        BY <1>1, <2>2, TimersAssumption
      <3>2. next'[u] = next[u] /\ next[u] \in Timer /\ prev[next[u]] = u
        BY <1>1, <1>3, <1>7, <1>11, <2>2, <3>1 DEF Links
      <3>3. next[u] # slots[i]
        BY <1>2, <3>1, <3>2, TimersAssumption
      <3>4. next[u] # t
        <4>1. u \in ListOf(time_slot[u]) /\ time_slot[u] \in 0..N - 1
          BY <3>1 DEF ListOf, WheelTypes
        <4>2. Closed(next, ListOf(time_slot[u]))
          BY <1>1, <4>1, Lists, ReachedClosed
        <4>3. next[u] \in ListOf(time_slot[u])
          BY <3>2, <4>1, <4>2, TimersAssumption DEF Closed
        <4> QED BY <1>4, <4>1, <4>3
      <3> QED BY <3>2, <3>3, <3>4
    <2> QED BY <2>1, <2>2
  <1> QED BY <1>6, <1>7, <1>9, <1>10, <1>11

\* The walk is at the first of the timers it has yet to visit.
LEMMA Walking ==
    ASSUME WheelInv, container = "wheel"
    PROVE  /\ Rest \subseteq ListOf(cur_slot)
           /\ tmp = NULL => Rest = {}
           /\ tmp # NULL => /\ tmp \in Rest
                            /\ Reached(next, next[tmp]) = Rest \ {tmp}
                            /\ next[tmp] \in ListOf(cur_slot) \cup {NULL}
  <1> DEFINE L == ListOf(cur_slot)
  <1>1. /\ cur_slot \in 0..N - 1 /\ next \in Links /\ prev \in Links
        /\ tmp \in Timer \cup {NULL}
        /\ tmp # NULL => tmp \in L
    BY DEF WheelInv, WheelTypes, Links, WalkIsCurrent, ListOf
  <1>2. /\ Reached(next, slots[cur_slot]) = L
        /\ slots[cur_slot] \in Timer \cup {NULL}
        /\ Mirrored(next, prev, slots[cur_slot])
    BY <1>1, Lists DEF WheelInv
  <1>3. L \in SUBSET Timer /\ Closed(next, L)
    BY <1>1, <1>2, ReachedClosed
  <1>4. Rest \subseteq L
    <2> HIDE DEF L
    <2> QED BY <1>1, <1>3, ReachedLeast DEF Rest
  <1>5. tmp = NULL => Rest = {}
    BY <1>1, ReachedNext DEF Rest
  <1>6. ASSUME tmp # NULL
        PROVE  /\ tmp \in Rest
               /\ Reached(next, next[tmp]) = Rest \ {tmp}
               /\ next[tmp] \in L \cup {NULL}
    <2>1. Rest = {tmp} \cup Reached(next, next[tmp])
      BY <1>1, <1>6, ReachedNext DEF Rest
    <2>2. tmp \notin Reached(next, next[tmp])
      BY <1>1, <1>2, <1>6, ListEnds
    <2>3. next[tmp] \in L \cup {NULL}
      <3> HIDE DEF L
      <3> QED BY <1>1, <1>3, <1>6 DEF Closed
    <2> QED BY <2>1, <2>2, <2>3
  <1> QED BY <1>4, <1>5, <1>6

-----------------------------------------------------------------------------
(* The invariant of the wheel *)

LEMMA InitInv == WheelInit => WheelInv
  <1> SUFFICES ASSUME WheelInit PROVE WheelInv
    OBVIOUS
  <1> USE WheelAssumption DEF WheelInit, TimersInit
  <1>0. 0 \in 0..N - 1
    BY DEF WheelAssumption
  <1>1. WheelTypes
    BY <1>0 DEF WheelTypes, Links
  <1>2. WalkIsCurrent
    BY DEF WalkIsCurrent
  <1>3. WheelHoldsEach
    <2>1. next \in Links
      BY DEF Links
    <2>2. Reached(next, NULL) = {}
      BY <2>1, ReachedNext
    <2> QED BY <2>2 DEF WheelHoldsEach
  <1>4. RotationAddsUp
    BY DEF RotationAddsUp
  <1> QED BY <1>1, <1>2, <1>3, <1>4 DEF WheelInv

LEMMA AddKeeps ==
    ASSUME WheelInv, NEW t \in Timer, NEW timeout \in Timeout, WheelAdd(t, timeout)
    PROVE  WheelTypes' /\ WalkIsCurrent' /\ WheelHoldsEach'
  <1> DEFINE ticks == Ticks(timeout)
             ts == SlotAfter(ticks)
  <1> USE DEF WheelInv
  <1>1. ticks \in Nat
    BY WheelAssumption, TicksType
  <1>2. ts \in 0..N - 1 /\ ticks \div N \in Nat
    <2> HIDE DEF ticks
    <2> QED BY <1>1, WheelAssumption, Placed DEF SlotAfter, WheelTypes
  <1>3. /\ t \notin allocated /\ container = "wheel" /\ tmp = NULL
        /\ expire' = [expire EXCEPT ![t] = now + ticks]
        /\ rotation' = [rotation EXCEPT ![t] = ticks \div N]
        /\ time_slot' = [time_slot EXCEPT ![t] = ts]
        /\ allocated' = allocated \cup {t}
        /\ slots' = [slots EXCEPT ![ts] = t]
        /\ next' = [next EXCEPT ![t] = slots[ts]]
        /\ prev' = [u \in Timer |-> IF u = t THEN NULL
                                    ELSE IF u = slots[ts] THEN t ELSE prev[u]]
        /\ UNCHANGED <<now, ticking, container, cur_slot, tmp>>
    BY DEF WheelAdd, Idle, WheelTypes, WalkIsCurrent
  <1> HIDE DEF ticks, ts
  <1>4. /\ next' \in Links /\ next'[t] = slots[ts]
        /\ \A u \in Timer \ {t} : next'[u] = next[u]
    BY <1>2, <1>3 DEF WheelTypes, Links
  <1>5. /\ slots' \in [0..N - 1 -> Timer \cup {NULL}]
        /\ prev' \in Links
        /\ \A j \in 0..N - 1 :
             /\ Reached(next', slots'[j]) = IF j = ts THEN ListOf(j) \cup {t} ELSE ListOf(j)
             /\ slots'[j] # NULL => prev'[slots'[j]] = NULL
        /\ \A u \in allocated \cup {t} : next'[u] # NULL => prev'[next'[u]] = u
    BY <1>2, <1>3, <1>4, Pushed
  <1>6. WheelTypes'
    BY <1>1, <1>2, <1>3, <1>4, <1>5 DEF WheelTypes
  <1>7. WalkIsCurrent'
    BY <1>3 DEF WalkIsCurrent
  <1>8. \A j \in 0..N - 1 : {u \in allocated' : time_slot'[u] = j}
                             = IF j = ts THEN ListOf(j) \cup {t} ELSE ListOf(j)
    BY <1>3 DEF WheelTypes, ListOf
  <1>9. WheelHoldsEach'
    BY <1>3, <1>5, <1>8 DEF WheelHoldsEach
  <1> QED BY <1>6, <1>7, <1>9

\* What del_timer and a tick that runs a timer share.
LEMMA UnlinkKeeps ==
    ASSUME WheelInv, container = "wheel", NEW i \in 0..N - 1, NEW t \in ListOf(i),
           Unlink(t, i), allocated' = allocated \ {t},
           UNCHANGED <<container, time_slot>>
    PROVE  /\ slots' \in [0..N - 1 -> Timer \cup {NULL}]
           /\ next' \in Links /\ prev' \in Links
           /\ WheelHoldsEach'
           /\ Reached(next', next[t]) = Reached(next, next[t])
  <1> USE DEF WheelInv
  <1>1. /\ slots' \in [0..N - 1 -> Timer \cup {NULL}]
        /\ next' \in Links /\ prev' \in Links
        /\ \A j \in 0..N - 1 :
             /\ Reached(next', slots'[j]) = ListOf(j) \ {t}
             /\ slots'[j] # NULL => prev'[slots'[j]] = NULL
        /\ \A u \in allocated \ {t} : next'[u] # NULL => prev'[next'[u]] = u
        /\ Reached(next', next[t]) = Reached(next, next[t])
    BY Unlinked
  <1>2. \A j \in 0..N - 1 : {u \in allocated' : time_slot'[u] = j} = ListOf(j) \ {t}
    BY DEF ListOf
  <1> QED BY <1>1, <1>2 DEF WheelHoldsEach

LEMMA DelKeeps ==
    ASSUME WheelInv, NEW t \in Timer, WheelDel(t)
    PROVE  WheelTypes' /\ WalkIsCurrent' /\ WheelHoldsEach'
  <1> USE DEF WheelInv
  <1>1. /\ container = "wheel" /\ ~ticking /\ tmp = NULL
        /\ time_slot[t] \in 0..N - 1 /\ t \in ListOf(time_slot[t])
        /\ Unlink(t, time_slot[t]) /\ allocated' = allocated \ {t}
        /\ UNCHANGED <<now, expire, ticking, container, cur_slot, rotation, time_slot, tmp>>
    BY DEF WheelDel, Idle, WheelTypes, WalkIsCurrent, ListOf
  <1>2. /\ slots' \in [0..N - 1 -> Timer \cup {NULL}]
        /\ next' \in Links /\ prev' \in Links
        /\ WheelHoldsEach'
    BY <1>1, UnlinkKeeps
  <1>3. WheelTypes' /\ WalkIsCurrent'
    BY <1>1, <1>2 DEF WheelTypes, WalkIsCurrent
  <1> QED BY <1>2, <1>3

\* When a timer runs, those behind it are what is left to visit.
LEMMA FireKeeps ==
    ASSUME WheelInv, WheelTickFire
    PROVE  /\ WheelTypes' /\ WalkIsCurrent' /\ WheelHoldsEach'
           /\ Rest' = Rest \ {tmp}
  <1> USE DEF WheelInv
  <1>1. /\ container = "wheel" /\ ticking /\ tmp # NULL /\ tmp \in Timer
        /\ cur_slot \in 0..N - 1 /\ tmp \in ListOf(cur_slot)
        /\ Unlink(tmp, cur_slot) /\ allocated' = allocated \ {tmp}
        /\ tmp' = next[tmp]
        /\ UNCHANGED <<now, expire, ticking, container, cur_slot, rotation, time_slot>>
    BY DEF WheelTickFire, WheelTypes, WalkIsCurrent, ListOf
  <1>2. /\ slots' \in [0..N - 1 -> Timer \cup {NULL}]
        /\ next' \in Links /\ prev' \in Links
        /\ WheelHoldsEach'
        /\ Reached(next', next[tmp]) = Reached(next, next[tmp])
    BY <1>1, UnlinkKeeps
  <1>3. /\ Reached(next, next[tmp]) = Rest \ {tmp}
        /\ next[tmp] \in ListOf(cur_slot) \cup {NULL}
    BY <1>1, Walking
  <1>4. next[tmp] # tmp
    <2>1. next[tmp] \in Timer \cup {NULL} /\ next \in Links
      BY <1>1 DEF WheelTypes, Links
    <2>2. next[tmp] # NULL => next[tmp] \in Reached(next, next[tmp])
      BY <2>1, ReachedClosed
    <2> QED BY <1>1, <1>3, <2>2
  <1>5. WheelTypes' /\ WalkIsCurrent'
    BY <1>1, <1>2, <1>3, <1>4 DEF WheelTypes, WalkIsCurrent, ListOf, Links
  <1>6. Rest' = Rest \ {tmp}
    BY <1>1, <1>2, <1>3 DEF Rest
  <1> QED BY <1>2, <1>5, <1>6

LEMMA SkipKeeps ==
    ASSUME WheelInv, WheelTickSkip
    PROVE  /\ WheelTypes' /\ WalkIsCurrent' /\ WheelHoldsEach'
           /\ Rest' = Rest \ {tmp}
  <1> USE DEF WheelInv
  <1>1. /\ container = "wheel" /\ ticking /\ tmp # NULL /\ tmp \in Timer
        /\ rotation[tmp] > 0
        /\ rotation' = [rotation EXCEPT ![tmp] = @ - 1]
        /\ tmp' = next[tmp]
        /\ UNCHANGED <<timerVars, linkVars, cur_slot, time_slot>>
    BY DEF WheelTickSkip, WheelTypes, WalkIsCurrent
  <1>2. /\ Reached(next, next[tmp]) = Rest \ {tmp}
        /\ next[tmp] \in ListOf(cur_slot) \cup {NULL}
    BY <1>1, Walking
  <1>3. WheelTypes' /\ WalkIsCurrent'
    BY <1>1, <1>2 DEF WheelTypes, WalkIsCurrent, ListOf, Links, timerVars, linkVars
  <1>4. WheelHoldsEach'
    BY <1>1 DEF WheelHoldsEach, timerVars, linkVars
  <1>5. Rest' = Rest \ {tmp}
    BY <1>1, <1>2 DEF Rest, linkVars
  <1> QED BY <1>3, <1>4, <1>5

LEMMA BeginsKeeps ==
    ASSUME WheelInv, WheelTickBegins
    PROVE  /\ WheelTypes' /\ WalkIsCurrent' /\ WheelHoldsEach'
           /\ container = "wheel" /\ Rest' = ListOf(cur_slot)
  <1> USE DEF WheelInv
  <1>1. /\ container = "wheel" /\ ticking' = TRUE /\ tmp' = slots[cur_slot]
        /\ UNCHANGED <<now, expire, allocated, container, linkVars, cur_slot, rotation, time_slot>>
    BY DEF WheelTickBegins, Idle, WheelTypes
  <1>2. /\ slots[cur_slot] \in Timer \cup {NULL}
        /\ next \in Links
        /\ Reached(next, slots[cur_slot]) = ListOf(cur_slot)
    BY <1>1, Lists DEF WheelTypes
  <1>3. slots[cur_slot] # NULL => slots[cur_slot] \in ListOf(cur_slot)
    BY <1>2, ReachedClosed
  <1>4. WheelTypes' /\ WalkIsCurrent'
    BY <1>1, <1>2, <1>3 DEF WheelTypes, WalkIsCurrent, ListOf, linkVars
  <1>5. WheelHoldsEach'
    BY <1>1 DEF WheelHoldsEach, linkVars
  <1>6. Rest' = ListOf(cur_slot)
    BY <1>1, <1>2 DEF Rest, linkVars
  <1> QED BY <1>1, <1>4, <1>5, <1>6

LEMMA EndsKeeps ==
    ASSUME WheelInv, WheelTickEnds
    PROVE  WheelTypes' /\ WalkIsCurrent' /\ WheelHoldsEach'
  <1>1. /\ cur_slot' = (cur_slot + 1) % N
        /\ now' = now + 1 /\ ticking' = FALSE /\ tmp = NULL
        /\ UNCHANGED <<expire, allocated, container, slots, next, prev, rotation, time_slot, tmp>>
    BY DEF WheelTickEnds, linkVars
  <1>2. (cur_slot + 1) % N \in 0..N - 1
    BY WheelAssumption, TurnOnce DEF WheelInv, WheelTypes
  <1>3. cur_slot' \in 0..N - 1 /\ now' \in Nat
    BY <1>1, <1>2 DEF WheelInv, WheelTypes
  <1>4. WheelTypes'
    BY <1>1, <1>3 DEF WheelInv, WheelTypes
  <1>5. WalkIsCurrent' /\ WheelHoldsEach'
    BY <1>1 DEF WheelInv, WalkIsCurrent, WheelHoldsEach
  <1> QED BY <1>4, <1>5

\* The destructor meets every timer.
LEMMA DtorKeeps ==
    ASSUME WheelInv, WheelDtor
    PROVE  /\ WheelTypes' /\ WalkIsCurrent' /\ WheelHoldsEach'
           /\ allocated' = {}
  <1> USE DEF WheelInv
  <1>1. /\ container = "wheel" /\ container' = "none" /\ ~ticking /\ tmp = NULL
        /\ allocated' = allocated \ UNION {Reached(next, slots[i]) : i \in 0..N - 1}
        /\ slots' = [i \in 0..N - 1 |-> NULL]
        /\ UNCHANGED <<now, expire, ticking, next, prev, cur_slot, rotation, time_slot, tmp>>
    BY DEF WheelDtor, Idle, WheelTypes, WalkIsCurrent
  <1>2. ASSUME NEW t \in allocated
        PROVE  t \notin allocated'
    <2>1. time_slot[t] \in 0..N - 1
      BY DEF WheelTypes
    <2>2. t \in Reached(next, slots[time_slot[t]])
      BY <1>1, <2>1 DEF WheelHoldsEach
    <2> QED BY <1>1, <2>1, <2>2
  <1>3. allocated' = {}
    BY <1>1, <1>2
  <1>4. WheelTypes' /\ WalkIsCurrent' /\ WheelHoldsEach'
    BY <1>1, <1>3 DEF WheelTypes, WalkIsCurrent, WheelHoldsEach
  <1> QED BY <1>3, <1>4

LEMMA NextHolds ==
    ASSUME WheelInv, [WheelNext]_wheelVars
    PROVE  WheelTypes' /\ WalkIsCurrent' /\ WheelHoldsEach'
  <1>1. CASE UNCHANGED wheelVars
    BY <1>1 DEF WheelInv, WheelTypes, WalkIsCurrent, WheelHoldsEach,
                wheelVars, timerVars, linkVars
  <1> QED BY <1>1, AddKeeps, DelKeeps, SkipKeeps, FireKeeps, BeginsKeeps, EndsKeeps,
             DtorKeeps DEF WheelNext

\* The slot, the rotation and the turn of a timer move together.
LEMMA NextAddsUp ==
    ASSUME WheelInv, [WheelNext]_wheelVars
    PROVE  RotationAddsUp'
  <1> USE WheelAssumption DEF WheelInv, WheelTypes, WalkIsCurrent, Idle
  <1>0. N \in Nat \ {0}
    BY DEF WheelAssumption
  <1>1. ASSUME NEW t \in Timer, NEW timeout \in Timeout, WheelAdd(t, timeout)
        PROVE RotationAddsUp'
    <2> DEFINE ticks == Ticks(timeout)
               ts == SlotAfter(ticks)
               rounds == ticks \div N
    <2>1. ticks \in Nat
      BY TicksType
    <2>2. /\ ts \in 0..N - 1
          /\ rounds \in Nat
          /\ ticks = Turns(cur_slot, ts) + N * rounds
      <3> HIDE DEF ticks
      <3> QED BY <2>1, Placed DEF SlotAfter
    <2>3. /\ expire' = [expire EXCEPT ![t] = now + ticks]
          /\ rotation' = [rotation EXCEPT ![t] = rounds]
          /\ time_slot' = [time_slot EXCEPT ![t] = ts]
          /\ allocated' = allocated \cup {t}
          /\ ~ticking
          /\ UNCHANGED <<now, ticking, container, cur_slot>>
      BY <1>1 DEF WheelAdd
    <2> HIDE DEF ticks, ts, rounds
    <2>4. Turns(cur_slot, ts) \in Nat
      BY <2>2, TurnsRange
    <2>5. ASSUME NEW u \in allocated'
          PROVE  expire'[u] = now' + Turns(cur_slot', time_slot'[u]) + N * Rounds(u)'
      <3>1. CASE u = t
        <4>1. Rounds(u)' = rounds
          BY <2>2, <2>3, <3>1 DEF Rounds
        <4>2. /\ expire'[u] = now + ticks
              /\ time_slot'[u] = ts
          BY <2>3, <3>1
        <4>3. N * rounds \in Nat
          BY <1>0, <2>2
        <4> QED BY <2>1, <2>2, <2>3, <2>4, <4>1, <4>2, <4>3
      <3>2. CASE u # t
        <4>1. Rounds(u)' = Rounds(u) /\ u \in allocated
          BY <2>3, <3>2 DEF Rounds
        <4> QED BY <2>3, <3>2, <4>1 DEF RotationAddsUp
      <3> QED BY <3>1, <3>2
    <2> QED BY <2>5 DEF RotationAddsUp
  <1>2. ASSUME NEW t \in Timer, WheelDel(t)
        PROVE RotationAddsUp'
    BY <1>2 DEF WheelDel, RotationAddsUp, Rounds
  <1>3. CASE WheelTickSkip
    <2>1. /\ tmp \in allocated /\ time_slot[tmp] = cur_slot /\ container = "wheel"
          /\ ticking /\ rotation' = [rotation EXCEPT ![tmp] = @ - 1]
          /\ rotation[tmp] \in Nat
          /\ UNCHANGED <<now, expire, allocated, container, ticking, cur_slot, time_slot>>
      BY <1>3 DEF WheelTickSkip, timerVars
    <2>2. tmp \in Rest /\ Rest' = Rest \ {tmp}
      BY <1>3, <2>1, SkipKeeps, Walking DEF WheelTickSkip
    <2>3. ASSUME NEW u \in allocated
          PROVE  Rounds(u)' = Rounds(u)
      BY <2>1, <2>2 DEF Rounds
    <2> QED BY <2>1, <2>3 DEF RotationAddsUp
  <1>4. CASE WheelTickFire
    <2>1. Rest' = Rest \ {tmp}
      BY <1>4, FireKeeps
    <2>2. /\ allocated' = allocated \ {tmp}
          /\ UNCHANGED <<now, expire, ticking, container, cur_slot, rotation, time_slot>>
      BY <1>4 DEF WheelTickFire
    <2>3. ASSUME NEW u \in allocated'
          PROVE  Rounds(u)' = Rounds(u)
      BY <2>1, <2>2 DEF Rounds
    <2> QED BY <2>2, <2>3 DEF RotationAddsUp
  <1>5. CASE WheelTickBegins
    <2>1. Rest' = ListOf(cur_slot) /\ ~ticking
          /\ UNCHANGED <<now, expire, allocated, container, cur_slot, rotation, time_slot>>
      BY <1>5, BeginsKeeps DEF WheelTickBegins
    <2>2. ASSUME NEW u \in allocated
          PROVE  Rounds(u)' = Rounds(u)
      BY <2>1 DEF Rounds, ListOf
    <2> QED BY <2>1, <2>2 DEF RotationAddsUp
  <1>6. CASE WheelTickEnds
    <2>1. /\ cur_slot' = (cur_slot + 1) % N
          /\ now' = now + 1
          /\ ticking /\ ~ticking' /\ container = "wheel"
          /\ Rest = {}
          /\ UNCHANGED <<expire, allocated, container, rotation, time_slot>>
      BY <1>6, Walking DEF WheelTickEnds
    <2>2. ASSUME NEW u \in allocated
          PROVE  expire[u] = now' + Turns(cur_slot', time_slot[u]) + N * rotation[u]
      <3>1. expire[u] = now + Turns(cur_slot, time_slot[u]) + N * Rounds(u)
        BY <2>1 DEF RotationAddsUp
      <3>2. Turns(cur_slot, time_slot[u]) \in Nat /\ N * rotation[u] \in Nat
        <4>1. rotation[u] \in Nat /\ time_slot[u] \in 0..N - 1
          OBVIOUS
        <4>2. Turns(cur_slot, time_slot[u]) \in 0..N - 1
          BY <4>1, TurnsRange
        <4> QED BY <1>0, <4>1, <4>2
      <3>3. CASE time_slot[u] = cur_slot
        <4>1. Rounds(u) = rotation[u] + 1
          BY <2>1, <3>3 DEF Rounds
        <4>2. N * (rotation[u] + 1) = N * rotation[u] + N
          BY <1>0
        <4>3. /\ Turns(cur_slot, time_slot[u]) = 0
              /\ Turns(cur_slot', time_slot[u]) = N - 1
          BY <2>1, <3>3, TurnsRange, TurnOnce
        <4> QED BY <1>0, <2>1, <3>1, <3>2, <4>1, <4>2, <4>3
      <3>4. CASE time_slot[u] # cur_slot
        <4>1. Rounds(u) = rotation[u]
          BY <2>1, <3>4 DEF Rounds
        <4>2. Turns(cur_slot', time_slot[u]) = Turns(cur_slot, time_slot[u]) - 1
          BY <2>1, <3>4, TurnOnce
        <4> QED BY <1>0, <2>1, <3>1, <3>2, <4>1, <4>2
      <3> QED BY <3>3, <3>4
    <2>3. ASSUME NEW u \in allocated
          PROVE  Rounds(u)' = rotation[u]
      BY <2>1 DEF Rounds
    <2> QED BY <2>1, <2>2, <2>3 DEF RotationAddsUp
  <1>7. CASE WheelDtor
    BY <1>7 DEF WheelDtor, RotationAddsUp
  <1>8. CASE UNCHANGED wheelVars
    BY <1>8 DEF wheelVars, timerVars, linkVars, RotationAddsUp, Rounds, Rest
  <1> QED BY <1>1, <1>2, <1>3, <1>4, <1>5, <1>6, <1>7, <1>8 DEF WheelNext

-----------------------------------------------------------------------------
(* Theorems *)

THEOREM WheelInvariant == WheelSpec => []WheelInv
  <1>1. WheelInv /\ [WheelNext]_wheelVars => WheelInv'
    BY NextHolds, NextAddsUp DEF WheelInv
  <1> QED BY InitInv, <1>1, PTL DEF WheelSpec

\* Head, next and prev of every slot chain exactly the timers that record the
\* slot, whatever add_timer, del_timer and tick do and in the middle of a walk,
\* for every number of slots and of timers.
THEOREM SlotsHoldEach == WheelSpec => []WheelHoldsEach
  BY WheelInvariant, PTL DEF WheelInv

\* cur_slot, the slot and the rotation of a timer make up the turn that
\* add_timer promised, for every number of slots and every timeout.
THEOREM TurnsAddUp == WheelSpec => []RotationAddsUp
  BY WheelInvariant, PTL DEF WheelInv

-----------------------------------------------------------------------------
(* The refinement by the wheel *)

\* A visited timer without rounds to go is due now, and nothing is overdue.
LEMMA DueNow ==
    ASSUME WheelInv, NEW t \in allocated, container = "wheel"
    PROVE  /\ expire[t] >= now
           /\ ticking /\ t \in Rest /\ ~(rotation[t] > 0) => expire[t] = now
           /\ ticking /\ Rest = {} => expire[t] > now
  <1> USE DEF WheelInv, WheelTypes, WalkIsCurrent
  <1>0. N \in Nat \ {0} /\ WheelAssumption
    BY WheelAssumption DEF WheelAssumption
  <1> DEFINE far == Turns(cur_slot, time_slot[t])
  <1>1. expire[t] = now + far + N * Rounds(t)
    BY DEF RotationAddsUp
  <1>2. rotation[t] \in Nat /\ time_slot[t] \in 0..N - 1
    OBVIOUS
  <1>3. far \in 0..N - 1 /\ (far = 0 <=> cur_slot = time_slot[t])
    BY <1>0, <1>2, TurnsRange
  <1>4. Rounds(t) \in Nat
    BY <1>2 DEF Rounds
  <1>5. N * Rounds(t) \in Nat
    BY <1>0, <1>4
  <1> HIDE DEF far
  <1>6. expire[t] >= now
    BY <1>0, <1>1, <1>3, <1>5
  <1>7. ASSUME ticking, t \in Rest, ~(rotation[t] > 0)
        PROVE expire[t] = now
    <2>1. time_slot[t] = cur_slot
      BY <1>7, Walking DEF ListOf
    <2>2. Rounds(t) = 0
      BY <1>2, <1>7 DEF Rounds
    <2>3. N * 0 = 0
      BY <1>0
    <2> QED BY <1>1, <1>3, <2>1, <2>2, <2>3
  <1>8. ASSUME ticking, Rest = {}
        PROVE expire[t] > now
    <2>1. CASE time_slot[t] = cur_slot
      <3>1. Rounds(t) = rotation[t] + 1
        BY <1>8, <2>1 DEF Rounds
      <3>2. N * (rotation[t] + 1) = N * rotation[t] + N /\ N * rotation[t] \in Nat
        BY <1>0, <1>2
      <3> QED BY <1>0, <1>1, <1>3, <3>1, <3>2
    <2>2. CASE time_slot[t] # cur_slot
      BY <1>0, <1>1, <1>3, <1>5, <2>2
    <2> QED BY <2>1, <2>2
  <1> QED BY <1>6, <1>7, <1>8

LEMMA WheelStepImplements ==
    ASSUME WheelInv, [WheelNext]_wheelVars
    PROVE  [WheelService!Next]_(WheelService!vars)
  <1> DEFINE pending == [t \in allocated |-> expire[t]]
  <1> USE DEF WheelInv, WheelTypes, WalkIsCurrent, Idle, WheelService!vars,
              WheelService!Pending, WheelService!Without
  <1>1. ASSUME NEW t \in Timer, NEW timeout \in Timeout, WheelAdd(t, timeout)
        PROVE WheelService!Start(t)
    <2> DEFINE ticks == Ticks(timeout)
    <2>1. ticks \in Nat
      BY WheelAssumption, TicksType
    <2>2. /\ expire' = [expire EXCEPT ![t] = now + ticks]
          /\ allocated' = allocated \cup {t} /\ t \notin allocated
          /\ ~ticking /\ UNCHANGED <<now, ticking>>
      BY <1>1 DEF WheelAdd
    <2> HIDE DEF ticks
    <2>3. now + ticks \in Int
      BY <2>1
    <2>4. pending'[t] = now + ticks
      BY <2>2
    <2>5. \A u \in allocated : pending'[u] = pending[u]
      BY <2>2
    <2> QED BY <2>2, <2>3, <2>4, <2>5 DEF WheelService!Start
  <1>2. ASSUME NEW t \in Timer, WheelDel(t)
        PROVE WheelService!Cancel(t)
    BY <1>2 DEF WheelDel, WheelService!Cancel
  <1>3. ASSUME WheelTickSkip
        PROVE  UNCHANGED WheelService!vars
    BY <1>3 DEF WheelTickSkip, timerVars
  <1>4. ASSUME WheelTickFire
        PROVE  WheelService!Next
    <2>1. /\ ticking /\ tmp # NULL /\ ~(rotation[tmp] > 0)
          /\ allocated' = allocated \ {tmp}
          /\ UNCHANGED <<now, expire, ticking>>
      BY <1>4 DEF WheelTickFire
    <2>2. container = "wheel" /\ tmp \in allocated /\ tmp \in Rest
      BY <2>1, Walking
    <2>3. expire[tmp] = now /\ \A u \in allocated : expire[u] >= now
      BY <2>1, <2>2, DueNow
    <2>4. \A u \in allocated : expire[tmp] <= expire[u]
      BY <2>3
    <2>5. expire[tmp] <= now
      BY <2>2, <2>3
    <2>6. PICK t \in Timer : t = tmp
      BY <2>2
    <2>7. WheelService!Fire(t)
      BY <2>1, <2>2, <2>4, <2>5, <2>6 DEF WheelService!Fire
    <2> QED BY <2>7 DEF WheelService!Next
  <1>5. ASSUME WheelTickBegins PROVE WheelService!TickBegins
    BY <1>5 DEF WheelTickBegins, WheelService!TickBegins
  <1>6. ASSUME WheelTickEnds PROVE WheelService!TickEnds
    <2>1. \A u \in allocated : expire[u] > now
      BY <1>6, Walking, DueNow DEF WheelTickEnds
    <2>2. now' >= now
      BY <1>6 DEF WheelTickEnds
    <2>3. ticking /\ ticking' = FALSE /\ UNCHANGED <<expire, allocated>>
      BY <1>6 DEF WheelTickEnds
    <2> QED BY <2>1, <2>2, <2>3 DEF WheelService!TickEnds
  <1>7. ASSUME WheelDtor PROVE WheelService!Close
    <2>1. allocated' = {}
      BY <1>7, DtorKeeps
    <2> QED BY <1>7, <2>1 DEF WheelDtor, WheelService!Close
  <1>8. CASE UNCHANGED wheelVars
    BY <1>8 DEF wheelVars, timerVars
  <1> QED BY <1>1, <1>2, <1>3, <1>4, <1>5, <1>6, <1>7, <1>8
          DEF WheelNext, WheelService!Next

\* The wheel runs every timer in its turn, in no round too early and in none
\* too late, for every number of slots, every interval and every timeout.
THEOREM WheelRefinement == WheelSpec => WheelImplementsService
  <1>1. WheelInit => WheelService!Init
    BY DEF WheelInit, TimersInit, WheelService!Init, WheelService!Pending
  <1> QED BY <1>1, WheelInvariant, WheelStepImplements, PTL
          DEF WheelSpec, WheelImplementsService, WheelService!Spec
=============================================================================
