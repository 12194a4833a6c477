-------------------------------- MODULE MCTimers --------------------------------
(***************************************************************************)
(* The three containers, and the server of 11-3 on the first of them, for  *)
(* TLC, one at a time: the first state picks the program, and the          *)
(* variables of the others rest.                                           *)
(***************************************************************************)
EXTENDS NonactiveServer, TimerHeap, TimerWheel, TLC

CONSTANTS
    LastNow,        \* bound: the last instant of the clock for 11-3 and 11-6
    Addresses       \* bound: how many addresses new returns in 11-5

VARIABLE program

listOnly == lst
heapOnly == <<array, capacity, cur_size, cancelled, loopVars>>
wheelOnly == <<linkVars, cur_slot, rotation, time_slot, tmp>>
serverOnly == <<serverVars, clientVars, signalVars, ready, batch>>

ListUnused ==
    lst = [head |-> NULL, tail |-> NULL,
           next |-> [t \in Timer |-> NULL], prev |-> [t \in Timer |-> NULL]]
HeapUnused ==
    /\ capacity = 0 /\ array = Empty(0) /\ cur_size = 0 /\ cancelled = {}
    /\ loop = "none" /\ hole = 0 /\ temp = NULL /\ floor = 0
WheelUnused ==
    /\ slots = [i \in 0..N - 1 |-> NULL] /\ cur_slot = 0 /\ tmp = NULL
    /\ rotation = [t \in Timer |-> 0] /\ time_slot = [t \in Timer |-> 0]
    /\ next = [t \in Timer |-> NULL] /\ prev = [t \in Timer |-> NULL]

\* The loop of 11-3 is over.
ServerUnused ==
    /\ open = {} /\ users = [f \in Fd |-> NULL]
    /\ unread = [f \in Fd |-> 0] /\ peer = [f \in Fd |-> "up"] /\ backlog = 0
    /\ alarm = FALSE /\ terms = 0 /\ stop_server = TRUE
    /\ ready = {} /\ batch = {}

ProgramInit ==
    \/ program = "11-2" /\ ListInit /\ HeapUnused /\ WheelUnused /\ ServerUnused
    \/ program = "11-6" /\ HeapInit /\ ListUnused /\ WheelUnused /\ ServerUnused
    \/ program = "11-5" /\ WheelInit /\ ListUnused /\ HeapUnused /\ ServerUnused
    \/ program = "11-3" /\ Init /\ HeapUnused /\ WheelUnused

Only(p) ==
    /\ program = p
    /\ program' = p
    /\ p \notin {"11-2", "11-3"} => UNCHANGED listOnly
    /\ p # "11-6" => UNCHANGED heapOnly
    /\ p # "11-5" => UNCHANGED wheelOnly
    /\ p # "11-3" => UNCHANGED serverOnly

\* The addresses that have held a timer: each was given a turn after 0.
Used == {t \in Timer : expire[t] > 0}

ProgramNext ==
    \/ Only("11-2") /\ ListNext
    \/ Only("11-6") /\ HeapNext /\ now' <= LastNow
    \/ Only("11-5") /\ WheelNext /\ Cardinality(Used') <= Addresses
    \/ Only("11-3") /\ Next /\ now' <= LastNow

ProgramSpec == ProgramInit /\ [][ProgramNext]_<<vars, heapOnly, wheelOnly, program>>

\* Addresses are interchangeable, and so are descriptors.
Symmetry == Permutations(Timer) \cup Permutations(Fd)
=============================================================================
