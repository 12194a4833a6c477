------------------------------- MODULE TimerHeap -------------------------------
(***************************************************************************)
(* time_heap of 11-6_min_heap_timer.h: the array of pointers that doubles  *)
(* when it is full, the sift up of add_timer, percolate_down as it is used *)
(* by the constructor that takes an array, by pop_timer and by tick, and   *)
(* the lazy del_timer.  A step of a sift is one round of its loop.         *)
(***************************************************************************)
EXTENDS Timers

CONSTANTS
    HeapDelay,      \* the delays heap_timer's constructor is given
    Capacities      \* the capacities a heap is built with

\* With capacity 0 resize() doubles nothing and add_timer writes outside.
ASSUME HeapAssumption ==
    /\ HeapDelay \subseteq Nat
    /\ Capacities \subseteq Nat \ {0}

VARIABLES
    array, capacity, cur_size,
    cancelled,      \* the timers whose cb_func is NULL
    loop,           \* the loop that runs: up, down, or none
    hole, temp,     \* its locals: where the hole is, and the timer for it
    floor           \* i of the constructor's loop

loopVars == <<loop, hole, temp, floor>>
heapVars == <<timerVars, array, capacity, cur_size, cancelled, loopVars>>

Empty(cap) == [i \in 0..cap - 1 |-> NULL]

\* time_heap(cap).
EmptyHeap ==
    /\ capacity \in Capacities
    /\ array = Empty(capacity)
    /\ cur_size = 0
    /\ allocated = {}
    /\ expire = [t \in Timer |-> 0]
    /\ loop = "none" /\ hole = 0 /\ temp = NULL /\ floor = 0

\* time_heap(init_array, size, cap), where its loop begins.
GivenArray ==
    /\ capacity \in Capacities
    /\ cur_size \in 1..capacity
    /\ allocated \in {S \in SUBSET Timer : Cardinality(S) = cur_size}
    /\ \E init_array \in [0..cur_size - 1 -> allocated] :
         /\ {init_array[i] : i \in 0..cur_size - 1} = allocated
         /\ array = [i \in 0..capacity - 1 |->
                       IF i < cur_size THEN init_array[i] ELSE NULL]
    /\ expire \in [Timer -> HeapDelay \cup {0}]
    /\ \A t \in Timer \ allocated : expire[t] = 0
    /\ loop = "down"
    /\ floor = (cur_size - 1) \div 2
    /\ hole = floor
    /\ temp = array[floor]

HeapInit ==
    /\ TimersInit
    /\ container = "heap"
    /\ cancelled = {}
    /\ EmptyHeap \/ GivenArray

-----------------------------------------------------------------------------
(* The loops *)

Parent(i) == (i - 1) \div 2

SiftUp ==
    /\ loop = "up"
    /\ hole > 0
    /\ expire[array[Parent(hole)]] > expire[temp]
    /\ array' = [array EXCEPT ![hole] = array[Parent(hole)]]
    /\ hole' = Parent(hole)
    /\ UNCHANGED <<timerVars, capacity, cur_size, cancelled, loop, temp, floor>>

LoopEnds == loop' = "none" /\ hole' = 0 /\ temp' = NULL /\ floor' = 0

SiftUpEnds ==
    /\ loop = "up"
    /\ hole > 0 => expire[array[Parent(hole)]] <= expire[temp]
    /\ array' = [array EXCEPT ![hole] = temp]
    /\ LoopEnds
    /\ UNCHANGED <<timerVars, capacity, cur_size, cancelled>>

Mut_SmallerChild(h) == 2 * h + 1

\* The child that expires first; the left one when they are equal.
SmallerChild(h) ==
    LET left == 2 * h + 1 IN
    IF left < cur_size - 1 /\ expire[array[left + 1]] < expire[array[left]]
    THEN left + 1 ELSE left

Sinks ==
    /\ 2 * hole + 1 <= cur_size - 1
    /\ expire[array[SmallerChild(hole)]] < expire[temp]

SiftDown ==
    /\ loop = "down"
    /\ Sinks
    /\ array' = [array EXCEPT ![hole] = array[SmallerChild(hole)]]
    /\ hole' = SmallerChild(hole)
    /\ UNCHANGED <<timerVars, capacity, cur_size, cancelled, loop, temp, floor>>

\* The constructor goes on with the element before.
SiftDownEnds ==
    /\ loop = "down"
    /\ ~Sinks
    /\ array' = [array EXCEPT ![hole] = temp]
    /\ IF floor > 0
       THEN /\ floor' = floor - 1
            /\ hole' = floor - 1
            /\ temp' = array'[floor - 1]
            /\ loop' = loop
       ELSE LoopEnds
    /\ UNCHANGED <<timerVars, capacity, cur_size, cancelled>>

-----------------------------------------------------------------------------
(* The calls of the program *)

HeapIdle == Idle /\ loop = "none"

Mut_resize ==
    [i \in 0..2 * capacity - 1 |-> IF i < cur_size - 1 THEN array[i] ELSE NULL]

resize ==
    [i \in 0..2 * capacity - 1 |-> IF i < cur_size THEN array[i] ELSE NULL]

HeapAdd(t, d) ==
    /\ HeapIdle
    /\ t \notin allocated
    /\ allocated' = allocated \cup {t}
    /\ expire' = [expire EXCEPT ![t] = now + d]
    /\ cancelled' = cancelled \ {t}
    /\ IF cur_size >= capacity
       THEN array' = resize /\ capacity' = 2 * capacity
       ELSE UNCHANGED <<array, capacity>>
    /\ cur_size' = cur_size + 1
    /\ loop' = "up" /\ hole' = cur_size /\ temp' = t
    /\ UNCHANGED <<now, ticking, container, floor>>

\* del_timer only clears cb_func; the timer stays where it is.
HeapDel(t) ==
    /\ HeapIdle
    /\ t \in allocated
    /\ cancelled' = cancelled \cup {t}
    /\ UNCHANGED <<timerVars, array, capacity, cur_size, loopVars>>

\* pop_timer: the last element takes the place of the deleted top and sinks.
pop_timer ==
    /\ cur_size > 0
    /\ allocated' = allocated \ {array[0]}
    /\ array' = [array EXCEPT ![0] = array[cur_size - 1]]
    /\ cur_size' = cur_size - 1
    /\ loop' = "down" /\ hole' = 0 /\ temp' = array[cur_size - 1]
    /\ UNCHANGED <<now, expire, ticking, container, capacity, cancelled, floor>>

HeapPop == HeapIdle /\ pop_timer

\* The first look at the top: an empty heap makes the loop end at once.
HeapTickBegins ==
    /\ HeapIdle
    /\ cur_size > 0
    /\ ticking' = TRUE
    /\ UNCHANGED <<now, expire, allocated, container, array, capacity, cur_size,
                   cancelled, loopVars>>

\* The callback of the top, if it still has one, runs and the top goes.
HeapTickFire ==
    /\ ticking
    /\ loop = "none"
    /\ expire[array[0]] <= now
    /\ pop_timer

Mut_HeapTickEnds ==
    /\ ticking
    /\ loop = "none"
    /\ ticking' = FALSE
    /\ UNCHANGED <<now, expire, allocated, container, array, capacity, cur_size,
                   cancelled, loopVars>>

HeapTickEnds ==
    /\ ticking
    /\ loop = "none"
    /\ cur_size > 0 => expire[array[0]] > now
    /\ ticking' = FALSE
    /\ UNCHANGED <<now, expire, allocated, container, array, capacity, cur_size,
                   cancelled, loopVars>>

HeapDtor ==
    /\ HeapIdle
    /\ container' = "none"
    /\ allocated' = allocated \ {array[i] : i \in 0..cur_size - 1}
    /\ UNCHANGED <<now, expire, ticking, array, capacity, cur_size, cancelled,
                   loopVars>>

HeapNext ==
    \/ \E t \in Timer : HeapDel(t) \/ \E d \in HeapDelay : HeapAdd(t, d)
    \/ HeapPop \/ HeapTickBegins \/ HeapTickFire \/ HeapTickEnds
    \/ SiftUp \/ SiftUpEnds \/ SiftDown \/ SiftDownEnds
    \/ HeapDtor
    \/ loop = "none" /\ Elapse
         /\ UNCHANGED <<array, capacity, cur_size, cancelled, loopVars>>

HeapSpec == HeapInit /\ [][HeapNext]_heapVars

-----------------------------------------------------------------------------
(* Properties *)

\* The elements of the heap, with the moving one put in the hole.
Element(i) == IF loop # "none" /\ i = hole THEN temp ELSE array[i]

\* Sifts, pops and the copy into a larger array neither lose a timer nor
\* keep one twice, nor keep a pointer to a deleted one.
HeapHoldsEach ==
    container = "heap" =>
        /\ {Element(i) : i \in 0..cur_size - 1} = allocated
        /\ Cardinality(allocated) = cur_size

\* Between the calls no timer expires before its parent, so top() and tick()
\* look at the earliest one.
HeapOrdered ==
    container = "heap" /\ loop = "none" =>
        \A i \in 1..cur_size - 1 : expire[array[Parent(i)]] <= expire[array[i]]

\* What the heap promises the server: the timers that were not cancelled run
\* at their time and in order, whatever cancelled ones lie between them.
HeapService == INSTANCE TimerService WITH
    due <- [t \in allocated \ cancelled |-> expire[t]]
HeapImplementsService == HeapService!Spec
=============================================================================
