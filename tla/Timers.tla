--------------------------------- MODULE Timers ---------------------------------
(***************************************************************************)
(* What the containers of 11-2, 11-5 and 11-6 have in common: the timer    *)
(* objects of the program, the clock, and whether a tick is running.  An   *)
(* element of Timer is an address: an object that is deleted frees it for  *)
(* the next new.  All three are used by one thread, and the callbacks of   *)
(* the repository (cb_func of 11-3) do not touch the container.            *)
(***************************************************************************)
EXTENDS Integers, FiniteSets

CONSTANTS
    Timer,          \* the addresses new may return
    NULL,
    MaxNow          \* bound: the last instant of the clock

ASSUME TimersAssumption ==
    /\ IsFiniteSet(Timer)
    /\ NULL \notin Timer
    /\ MaxNow \in Nat

VARIABLES
    now,            \* what time(NULL) returns; the turns made by a wheel
    expire,         \* expire[t]: the field of timer t, an absolute time
    allocated,      \* the timers that exist and that the container owns
    ticking,        \* tick() is running
    container       \* the one the program uses: "list", "heap" or "wheel";
                    \* "none" when it has been destroyed

timerVars == <<now, expire, allocated, ticking, container>>

\* The program may call an operation of the container.
Idle == container # "none" /\ ~ticking

TimersInit ==
    /\ now = 0
    /\ ticking = FALSE

\* tick() reads the clock once, so time passes between the calls.
Elapse ==
    /\ Idle
    /\ now < MaxNow
    /\ now' = now + 1
    /\ UNCHANGED <<expire, allocated, ticking, container>>
=============================================================================
