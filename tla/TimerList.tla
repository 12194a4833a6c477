------------------------------- MODULE TimerList -------------------------------
(***************************************************************************)
(* sort_timer_lst of 11-2_uppper_list_timer.h at the level of its          *)
(* pointers: a doubly linked list sorted by expire, add_timer with the     *)
(* helper that walks to the place, adjust_timer for a timer that was put   *)
(* off, del_timer, the loop of tick, and the destructor.                   *)
(***************************************************************************)
EXTENDS Timers

CONSTANT Delay      \* how far in the future expire may be set

ASSUME DelayAssumption == Delay \subseteq Nat

VARIABLE lst        \* head, tail, and the fields next and prev of each timer

listVars == <<timerVars, lst>>

ListInit ==
    /\ TimersInit
    /\ container = "list"
    /\ allocated = {}
    /\ expire = [t \in Timer |-> 0]
    /\ lst = [head |-> NULL, tail |-> NULL,
              next |-> [t \in Timer |-> NULL], prev |-> [t \in Timer |-> NULL]]

-----------------------------------------------------------------------------
(* The operations, as what they do to a list l when the expire fields are e *)

\* The helper stops behind the last timer, or before one that expires later.
StopsAt(l, t, e, p) == l.next[p] = NULL \/ e[t] < e[l.next[p]]

\* Walk(l, t, e)[h]: the timer at which the helper stops when it begins at h.
Walk(l, t, e) ==
    LET last[p \in Timer] ==
          IF StopsAt(l, t, e, p) THEN p ELSE last[l.next[p]]
    IN last

\* The helper: t goes behind that timer, where it may be the new tail.
AddAfter(l, t, h, e) ==
    LET before == Walk(l, t, e)[h]
        after == l.next[before]
    IN IF after = NULL
       THEN [l EXCEPT !.next[before] = t, !.prev[t] = before,
                      !.next[t] = NULL, !.tail = t]
       ELSE [l EXCEPT !.next[before] = t, !.next[t] = after,
                      !.prev[after] = t, !.prev[t] = before]

Mut_add_timer(l, t, e) ==
    IF l.head = NULL THEN [l EXCEPT !.head = t, !.tail = t]
    ELSE AddAfter(l, t, l.head, e)

add_timer(l, t, e) ==
    IF l.head = NULL THEN [l EXCEPT !.head = t, !.tail = t]
    ELSE IF e[t] < e[l.head]
    THEN [l EXCEPT !.next[t] = l.head, !.prev[l.head] = t, !.head = t]
    ELSE AddAfter(l, t, l.head, e)

\* Nothing moves when t is the last or still precedes the next one.
adjust_timer(l, t, e) ==
    LET n == l.next[t] IN
    IF n = NULL \/ e[n] >= e[t] THEN l
    ELSE IF t = l.head
    THEN AddAfter([l EXCEPT !.head = n, !.prev[n] = NULL, !.next[t] = NULL], t, n, e)
    ELSE AddAfter([l EXCEPT !.next[l.prev[t]] = n, !.prev[n] = l.prev[t]], t, n, e)

Mut_del_timer(l, t) ==
    IF t = l.head /\ t = l.tail THEN [l EXCEPT !.head = NULL, !.tail = NULL]
    ELSE IF t = l.head
    THEN [l EXCEPT !.head = l.next[t], !.prev[l.next[t]] = NULL]
    ELSE IF t = l.tail
    THEN [l EXCEPT !.next[l.prev[t]] = NULL]
    ELSE [l EXCEPT !.next[l.prev[t]] = l.next[t], !.prev[l.next[t]] = l.prev[t]]

del_timer(l, t) ==
    IF t = l.head /\ t = l.tail THEN [l EXCEPT !.head = NULL, !.tail = NULL]
    ELSE IF t = l.head
    THEN [l EXCEPT !.head = l.next[t], !.prev[l.next[t]] = NULL]
    ELSE IF t = l.tail
    THEN [l EXCEPT !.tail = l.prev[t], !.next[l.prev[t]] = NULL]
    ELSE [l EXCEPT !.next[l.prev[t]] = l.next[t], !.prev[l.next[t]] = l.prev[t]]

\* One round of the loop of tick.  The tail is not touched: when the last
\* timer is deleted it dangles until add_timer sets it again.
UnlinkHead(l) ==
    LET n == l.next[l.head] IN
    IF n = NULL THEN [l EXCEPT !.head = NULL]
    ELSE [l EXCEPT !.head = n, !.prev[n] = NULL]

-----------------------------------------------------------------------------
(* The calls of the program *)

\* new util_timer clears next and prev; the caller sets expire, then adds it.
ListAdd(t, d) ==
    /\ Idle
    /\ t \notin allocated
    /\ allocated' = allocated \cup {t}
    /\ expire' = [expire EXCEPT ![t] = now + d]
    /\ lst' = add_timer([lst EXCEPT !.next[t] = NULL, !.prev[t] = NULL], t, expire')
    /\ UNCHANGED <<now, ticking, container>>

\* adjust_timer is for a timer that is put off: it only looks to the tail.
ListAdjust(t, d) ==
    /\ Idle
    /\ t \in allocated
    /\ now + d >= expire[t]
    /\ expire' = [expire EXCEPT ![t] = now + d]
    /\ lst' = adjust_timer(lst, t, expire')
    /\ UNCHANGED <<now, allocated, ticking, container>>

ListDel(t) ==
    /\ Idle
    /\ t \in allocated
    /\ lst' = del_timer(lst, t)
    /\ allocated' = allocated \ {t}
    /\ UNCHANGED <<now, expire, ticking, container>>

\* tick() returns at once on an empty list.
ListTickBegins ==
    /\ Idle
    /\ lst.head # NULL
    /\ ticking' = TRUE
    /\ UNCHANGED <<now, expire, allocated, container, lst>>

\* The head is not later than now: its callback runs and it is deleted.
ListTickFire ==
    /\ ticking
    /\ lst.head # NULL
    /\ now >= expire[lst.head]
    /\ lst' = UnlinkHead(lst)
    /\ allocated' = allocated \ {lst.head}
    /\ UNCHANGED <<now, expire, ticking, container>>

ListTickEnds ==
    /\ ticking
    /\ lst.head # NULL => now < expire[lst.head]
    /\ ticking' = FALSE
    /\ UNCHANGED <<now, expire, allocated, container, lst>>

\* Met(l)[k]: what k steps along next lead to, from the head.
Met(l) ==
    LET at[k \in 0..Cardinality(Timer)] ==
          IF k = 0 THEN l.head
          ELSE IF at[k - 1] = NULL THEN NULL ELSE l.next[at[k - 1]]
    IN at

\* The timers met on the way.
Linked(l) == {Met(l)[k] : k \in 0..Cardinality(Timer)} \ {NULL}

ListDtor ==
    /\ Idle
    /\ container' = "none"
    /\ allocated' = allocated \ Linked(lst)
    /\ lst' = [lst EXCEPT !.head = NULL]
    /\ UNCHANGED <<now, expire, ticking>>

ListNext ==
    \/ \E t \in Timer : \E d \in Delay : ListAdd(t, d) \/ ListAdjust(t, d)
    \/ \E t \in Timer : ListDel(t)
    \/ ListTickBegins \/ ListTickFire \/ ListTickEnds
    \/ ListDtor
    \/ Elapse /\ UNCHANGED lst

ListSpec == ListInit /\ [][ListNext]_listVars

-----------------------------------------------------------------------------
(* Properties *)

\* No pointer of the list dangles and none is lost: what the head reaches is
\* exactly what was added and not deleted, next and prev mirror each other,
\* and the tail is the last one.  It holds after every interleaving of calls,
\* with addresses that new returns again.
ListWellFormed ==
    container = "list" =>
        /\ Linked(lst) = allocated
        /\ lst.head # NULL =>
             /\ lst.prev[lst.head] = NULL
             /\ lst.tail \in allocated
             /\ lst.next[lst.tail] = NULL
        /\ \A t \in allocated :
             lst.next[t] # NULL => lst.prev[lst.next[t]] = t

\* What the list promises the server: timers run at their time and in order.
\* tick stops at the first timer that is not due, so this rests on the order
\* that add_timer and adjust_timer keep.
ListService == INSTANCE TimerService WITH due <- [t \in allocated |-> expire[t]]
ListImplementsService == ListService!Spec
=============================================================================
