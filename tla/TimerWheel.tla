------------------------------- MODULE TimerWheel -------------------------------
(***************************************************************************)
(* time_wheel of 11-5_time_wheel_timer.h at the level of its pointers: a   *)
(* slot is the head of a doubly linked list without order (11-5:40), a new *)
(* timer goes to its front, and tick() walks the list of the current slot  *)
(* and unlinks what it runs.  now counts the turns of the wheel.  A        *)
(* tw_timer has no expire: here the field records the turn in which it is  *)
(* to run, for the properties only.                                        *)
(***************************************************************************)
EXTENDS Timers

CONSTANTS
    N,              \* slots of the wheel (60 in the code)
    SI,             \* the interval of a slot (1 in the code)
    Timeout,        \* the timeouts add_timer is called with
    MaxTurn         \* bound: how often the wheel turns

\* add_timer returns NULL and does nothing for a negative timeout.
ASSUME WheelAssumption ==
    /\ N \in Nat \ {0}
    /\ SI \in Nat \ {0}
    /\ Timeout \subseteq Nat
    /\ MaxTurn \in Nat

VARIABLES
    slots,          \* slots[i]: the head of the list of slot i
    cur_slot,
    rotation,       \* the fields of each timer: rotation,
    time_slot,      \* time_slot,
    next,           \* next
    prev,           \* and prev
    tmp             \* where the walk of tick() is

linkVars == <<slots, next, prev>>

wheelVars == <<timerVars, linkVars, cur_slot, rotation, time_slot, tmp>>

\* S holds what next leads to from its timers.
Closed(n, S) == \A u \in S : n[u] \in S \cup {NULL}

\* The timers met from p along n, where n is next.
Reached(n, p) ==
    LET from == {S \in SUBSET Timer : p \in S \cup {NULL} /\ Closed(n, S)}
    IN {t \in Timer : \A S \in from : t \in S}

\* The timers tick() has yet to visit.
Rest == Reached(next, tmp)

WheelInit ==
    /\ TimersInit
    /\ container = "wheel"
    /\ allocated = {}
    /\ expire = [t \in Timer |-> 0]
    /\ slots = [i \in 0..N - 1 |-> NULL]
    /\ cur_slot = 0
    /\ rotation = [t \in Timer |-> 0]
    /\ time_slot = [t \in Timer |-> 0]
    /\ next = [t \in Timer |-> NULL]
    /\ prev = [t \in Timer |-> NULL]
    /\ tmp = NULL

Ticks(timeout) == IF timeout < SI THEN 1 ELSE timeout \div SI

Mut_SlotAfter(ticks) == ticks % N

SlotAfter(ticks) == (cur_slot + (ticks % N)) % N

\* The new timer becomes the head, before what the list held.
WheelAdd(t, timeout) ==
    LET ticks == Ticks(timeout)
        ts == SlotAfter(ticks)
        head == slots[ts]
    IN /\ Idle
       /\ t \notin allocated
       /\ allocated' = allocated \cup {t}
       /\ expire' = [expire EXCEPT ![t] = now + ticks]
       /\ rotation' = [rotation EXCEPT ![t] = ticks \div N]
       /\ time_slot' = [time_slot EXCEPT ![t] = ts]
       /\ slots' = [slots EXCEPT ![ts] = t]
       /\ next' = [next EXCEPT ![t] = head]
       /\ prev' = [u \in Timer |-> IF u = t THEN NULL
                                   ELSE IF u = head THEN t ELSE prev[u]]
       /\ UNCHANGED <<now, ticking, container, cur_slot, tmp>>

Mut_Unlink(t, i) ==
    IF t = slots[i]
    THEN /\ slots' = [slots EXCEPT ![i] = next[t]]
         /\ UNCHANGED <<next, prev>>
    ELSE /\ next' = [next EXCEPT ![prev[t]] = next[t]]
         /\ prev' = [u \in Timer |-> IF u = next[t] THEN prev[t] ELSE prev[u]]
         /\ UNCHANGED slots

\* t leaves list i: as its head, or from behind another timer.
Unlink(t, i) ==
    IF t = slots[i]
    THEN /\ slots' = [slots EXCEPT ![i] = next[t]]
         /\ prev' = [u \in Timer |-> IF u = next[t] THEN NULL ELSE prev[u]]
         /\ UNCHANGED next
    ELSE /\ next' = [next EXCEPT ![prev[t]] = next[t]]
         /\ prev' = [u \in Timer |-> IF u = next[t] THEN prev[t] ELSE prev[u]]
         /\ UNCHANGED slots

WheelDel(t) ==
    /\ Idle
    /\ t \in allocated
    /\ Unlink(t, time_slot[t])
    /\ allocated' = allocated \ {t}
    /\ UNCHANGED <<now, expire, ticking, container, cur_slot, rotation, time_slot, tmp>>

WheelTickBegins ==
    /\ Idle
    /\ now < MaxTurn
    /\ ticking' = TRUE
    /\ tmp' = slots[cur_slot]
    /\ UNCHANGED <<now, expire, allocated, container, linkVars, cur_slot, rotation, time_slot>>

\* The timer has rounds to go.
WheelTickSkip ==
    /\ ticking
    /\ tmp # NULL
    /\ rotation[tmp] > 0
    /\ rotation' = [rotation EXCEPT ![tmp] = @ - 1]
    /\ tmp' = next[tmp]
    /\ UNCHANGED <<timerVars, linkVars, cur_slot, time_slot>>

Mut_WheelTickFire ==
    /\ ticking
    /\ tmp # NULL
    /\ Unlink(tmp, cur_slot)
    /\ allocated' = allocated \ {tmp}
    /\ tmp' = next[tmp]
    /\ UNCHANGED <<now, expire, ticking, container, cur_slot, rotation, time_slot>>

\* Its callback runs and it is unlinked and deleted.
WheelTickFire ==
    /\ ticking
    /\ tmp # NULL
    /\ ~(rotation[tmp] > 0)
    /\ Unlink(tmp, cur_slot)
    /\ allocated' = allocated \ {tmp}
    /\ tmp' = next[tmp]
    /\ UNCHANGED <<now, expire, ticking, container, cur_slot, rotation, time_slot>>

\* The wheel turns by one slot.
WheelTickEnds ==
    /\ ticking
    /\ tmp = NULL
    /\ cur_slot' = (cur_slot + 1) % N
    /\ now' = now + 1
    /\ ticking' = FALSE
    /\ UNCHANGED <<expire, allocated, container, linkVars, rotation, time_slot, tmp>>

\* The destructor empties one list after the other.
WheelDtor ==
    /\ Idle
    /\ container' = "none"
    /\ allocated' = allocated \ UNION {Reached(next, slots[i]) : i \in 0..N - 1}
    /\ slots' = [i \in 0..N - 1 |-> NULL]
    /\ UNCHANGED <<now, expire, ticking, next, prev, cur_slot, rotation, time_slot, tmp>>

WheelNext ==
    \/ \E t \in Timer : \E timeout \in Timeout : WheelAdd(t, timeout)
    \/ \E t \in Timer : WheelDel(t)
    \/ WheelTickBegins \/ WheelTickSkip \/ WheelTickFire \/ WheelTickEnds \/ WheelDtor

WheelSpec == WheelInit /\ [][WheelNext]_wheelVars

-----------------------------------------------------------------------------
(* Properties *)

\* No pointer of the wheel dangles and none is lost: what the head of a slot
\* reaches is exactly the timers that record this slot, prev mirrors next, and
\* nothing precedes a head.  It holds after every order of insertions, removals
\* and ticks, in the middle of a walk, and with addresses that new returns again.
WheelHoldsEach ==
    container = "wheel" =>
        /\ \A i \in 0..N - 1 :
             /\ Reached(next, slots[i]) = {t \in allocated : time_slot[t] = i}
             /\ slots[i] # NULL => prev[slots[i]] = NULL
        /\ \A t \in allocated : next[t] # NULL => prev[next[t]] = t

\* Turns from slot a to slot b.
Turns(a, b) == IF a <= b THEN b - a ELSE b - a + N

\* A timer that tick() has visited in this turn waits for the next round.
Rounds(t) ==
    rotation[t] + IF ticking /\ time_slot[t] = cur_slot /\ t \notin Rest
                  THEN 1 ELSE 0

\* Slot and rotation of a timer always add up to the turn add_timer promised,
\* however often the wheel went round, and in the middle of a tick too.
RotationAddsUp ==
    container = "wheel" =>
        \A t \in allocated :
            expire[t] = now + Turns(cur_slot, time_slot[t]) + N * Rounds(t)

\* What the wheel promises the server: every timer runs in the turn that its
\* timeout stands for, neither a round early nor a round late.
WheelService == INSTANCE TimerService WITH due <- [t \in allocated |-> expire[t]]
WheelImplementsService == WheelService!Spec
=============================================================================
