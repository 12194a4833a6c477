------------------------------ MODULE TimerService ------------------------------
(***************************************************************************)
(* What a container of timers promises to the server that uses it, however *)
(* it is built: a timer is due at a time of its own; a tick runs the       *)
(* timers that are due, the earliest first, each of them once, and returns *)
(* only when none is left that is due.  The sorted list, the time heap and *)
(* the time wheel implement this specification.                            *)
(***************************************************************************)
EXTENDS Integers

CONSTANT Timer      \* the addresses of timers

VARIABLES
    now,            \* the clock the container reads
    due,            \* due[t]: when the pending timer t is to run
    ticking         \* a tick is running

vars == <<now, due, ticking>>

Pending == DOMAIN due

Without(S) == [u \in Pending \ S |-> due[u]]

\* A container may be built from timers that exist already.
Init ==
    /\ now \in Int
    /\ ticking = FALSE
    /\ Pending \subseteq Timer
    /\ \A t \in Pending : due[t] \in Int

Start(t) ==
    /\ ~ticking
    /\ t \notin Pending
    /\ Pending' = Pending \cup {t}
    /\ due'[t] \in Int
    /\ \A u \in Pending : due'[u] = due[u]
    /\ UNCHANGED <<now, ticking>>

Cancel(t) ==
    /\ ~ticking
    /\ t \in Pending
    /\ due' = Without({t})
    /\ UNCHANGED <<now, ticking>>

\* A pending timer is only ever put off.
Extend(t) ==
    /\ ~ticking
    /\ t \in Pending
    /\ Pending' = Pending
    /\ due'[t] >= due[t]
    /\ \A u \in Pending \ {t} : due'[u] = due[u]
    /\ UNCHANGED <<now, ticking>>

\* The container goes away with everything in it.
Close ==
    /\ ~ticking
    /\ due' = Without(Pending)
    /\ UNCHANGED <<now, ticking>>

Elapse ==
    /\ ~ticking
    /\ now' > now
    /\ UNCHANGED <<due, ticking>>

TickBegins ==
    /\ ~ticking
    /\ ticking' = TRUE
    /\ UNCHANGED <<now, due>>

\* A tick runs a timer that is due and that no other timer precedes.
Fire(t) ==
    /\ ticking
    /\ t \in Pending
    /\ due[t] <= now
    /\ \A u \in Pending : due[t] <= due[u]
    /\ due' = Without({t})
    /\ UNCHANGED <<now, ticking>>

\* A tick leaves nothing behind that was due when it read the clock.
TickEnds ==
    /\ ticking
    /\ \A t \in Pending : due[t] > now
    /\ ticking' = FALSE
    /\ now' >= now
    /\ UNCHANGED due

Next ==
    \/ \E t \in Timer : Start(t) \/ Cancel(t) \/ Extend(t) \/ Fire(t)
    \/ Close \/ Elapse \/ TickBegins \/ TickEnds

Spec == Init /\ [][Next]_vars
=============================================================================
