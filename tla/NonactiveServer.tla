---------------------------- MODULE NonactiveServer ----------------------------
(***************************************************************************)
(* 11-3_close_nonactive_connect.cpp: a server that gives each connection a *)
(* timer in the sorted list of 11-2, puts it off when data arrives, and    *)
(* deletes it when the connection ends.  epoll is edge triggered and the   *)
(* loop makes one accept or one recv for an event.                         *)
(*                                                                         *)
(* The test of what recv returned for the signal pipe is an assignment     *)
(* (11-3:154), so the loop leaves the signals alone: nothing sets timeout  *)
(* or stop_server, timer_handler and with it tick() are never called, and  *)
(* those lines are not in the model.                                       *)
(***************************************************************************)
EXTENDS TimerList

CONSTANTS
    Fd,             \* descriptors accept may return
    MaxData,        \* bound: unread data of a connection
    MaxTerm         \* bound: SIGTERMs sent

TIMERSLOT == 1

ASSUME ServerAssumption ==
    /\ 3 * TIMERSLOT \in Delay
    /\ IsFiniteSet(Fd)
    /\ {"listenfd", "pipefd"} \cap Fd = {}
    /\ MaxData \in Nat /\ MaxTerm \in Nat

VARIABLES
    open,           \* the descriptors that are connections
    users,          \* users[f]: the field timer of f's client_data
    unread,         \* unread[f]: data the kernel holds for f
    peer,           \* peer[f]: "up", or how the other side has ended: fin, rst
    backlog,        \* connections nobody has accepted
    alarm,          \* SIGALRM is still to come
    terms,          \* how many SIGTERMs were sent
    stop_server,
    ready,          \* descriptors with an edge epoll_wait has not returned
    batch           \* events of the current round that are to be handled

serverVars == <<users, open>>
clientVars == <<unread, peer, backlog>>
signalVars == <<alarm, terms, stop_server>>
vars == <<listVars, serverVars, clientVars, signalVars, ready, batch>>

Init ==
    /\ ListInit
    /\ open = {}
    /\ users = [f \in Fd |-> NULL]
    /\ unread = [f \in Fd |-> 0]
    /\ peer = [f \in Fd |-> "up"]
    /\ backlog = 0
    /\ alarm = TRUE
    /\ terms = 0
    /\ stop_server = FALSE
    /\ ready = {}
    /\ batch = {}

-----------------------------------------------------------------------------
(* The world outside *)

\* No more connections than descriptors, so that accept succeeds.
ClientConnects ==
    /\ backlog + Cardinality(open) < Cardinality(Fd)
    /\ backlog' = backlog + 1
    /\ ready' = ready \cup {"listenfd"}
    /\ UNCHANGED <<listVars, serverVars, unread, peer, signalVars, batch>>

ClientSends(f) ==
    /\ f \in open
    /\ peer[f] = "up"
    /\ unread[f] < MaxData
    /\ unread' = [unread EXCEPT ![f] = @ + 1]
    /\ ready' = ready \cup {f}
    /\ UNCHANGED <<listVars, serverVars, peer, backlog, signalVars, batch>>

ClientEnds(f, how) ==
    /\ f \in open
    /\ peer[f] = "up"
    /\ peer' = [peer EXCEPT ![f] = how]
    /\ ready' = ready \cup {f}
    /\ UNCHANGED <<listVars, serverVars, unread, backlog, signalVars, batch>>

\* sig_handler writes the byte of a signal into the pipe.
SignalByte ==
    /\ ready' = ready \cup {"pipefd"}
    /\ UNCHANGED <<listVars, serverVars, clientVars, stop_server, batch>>

\* alarm( TIMERSLOT ) was called once, before the loop.
Alarm ==
    /\ alarm
    /\ now >= TIMERSLOT
    /\ alarm' = FALSE
    /\ SignalByte
    /\ UNCHANGED terms

Terminate ==
    /\ terms < MaxTerm
    /\ terms' = terms + 1
    /\ SignalByte
    /\ UNCHANGED alarm

Clock ==
    /\ Elapse
    /\ UNCHANGED <<lst, serverVars, clientVars, signalVars, ready, batch>>

-----------------------------------------------------------------------------
(* The loop *)

epoll_wait ==
    /\ batch = {}
    /\ ~stop_server
    /\ ready # {}
    /\ batch' = ready
    /\ ready' = {}
    /\ UNCHANGED <<listVars, serverVars, clientVars, signalVars>>

\* A connection and its timer begin together.
AcceptClient(f, t) ==
    /\ "listenfd" \in batch
    /\ f \notin open
    /\ ListAdd(t, 3 * TIMERSLOT)
    /\ open' = open \cup {f}
    /\ users' = [users EXCEPT ![f] = t]
    /\ backlog' = backlog - 1
    /\ batch' = batch \ {"listenfd"}
    /\ UNCHANGED <<unread, peer, signalVars, ready>>

\* recv empties the pipe, and ret = -1 ends the turn: what the bytes were
\* makes no difference, so the model does not keep them.
ReadSignals ==
    /\ "pipefd" \in batch
    /\ batch' = batch \ {"pipefd"}
    /\ UNCHANGED <<listVars, serverVars, clientVars, signalVars, ready>>

\* recv returns data when there is any, unless the connection was reset.
HasData(f) == peer[f] # "rst" /\ unread[f] > 0

\* The timer of f is put off, and adjust_timer moves it in the list.
PutOff(f) ==
    /\ expire' = [expire EXCEPT ![users[f]] = now + 3 * TIMERSLOT]
    /\ lst' = adjust_timer(lst, users[f], expire')
    /\ UNCHANGED <<now, allocated, ticking, container>>

\* One recv takes some of what the kernel holds; the rest has no event.
Receive(f) ==
    /\ f \in batch
    /\ HasData(f)
    /\ \E n \in 1..unread[f] : unread' = [unread EXCEPT ![f] = @ - n]
    /\ PutOff(f)
    /\ batch' = batch \ {f}
    /\ UNCHANGED <<serverVars, peer, backlog, signalVars, ready>>

\* recv fails with EAGAIN: an earlier one took the data of this event too.
NothingToRead(f) ==
    /\ f \in batch
    /\ ~HasData(f)
    /\ peer[f] = "up"
    /\ batch' = batch \ {f}
    /\ UNCHANGED <<listVars, serverVars, clientVars, signalVars, ready>>

Mut_EndConnection(f) ==
    /\ f \in batch
    /\ ~HasData(f)
    /\ peer[f] # "up"
    /\ open' = open \ {f}
    /\ ready' = ready \ {f}
    /\ batch' = batch \ {f}
    /\ IF peer[f] = "fin" THEN ListDel(users[f]) ELSE UNCHANGED listVars
    /\ unread' = [unread EXCEPT ![f] = 0]
    /\ peer' = [peer EXCEPT ![f] = "up"]
    /\ UNCHANGED <<users, backlog, signalVars>>

Mut_EndAndWatch(f) ==
    /\ f \in batch
    /\ ~HasData(f)
    /\ peer[f] # "up"
    /\ open' = open \ {f}
    /\ ready' = ready \cup {f}
    /\ batch' = batch \ {f}
    /\ ListDel(users[f])
    /\ unread' = [unread EXCEPT ![f] = 0]
    /\ peer' = [peer EXCEPT ![f] = "up"]
    /\ UNCHANGED <<users, backlog, signalVars>>

\* recv returns 0 or fails: cb_func closes f, which takes it out of epoll,
\* and the timer leaves the list.  What the kernel kept for f goes too.
EndConnection(f) ==
    /\ f \in batch
    /\ ~HasData(f)
    /\ peer[f] # "up"
    /\ open' = open \ {f}
    /\ ready' = ready \ {f}
    /\ batch' = batch \ {f}
    /\ ListDel(users[f])
    /\ unread' = [unread EXCEPT ![f] = 0]
    /\ peer' = [peer EXCEPT ![f] = "up"]
    /\ UNCHANGED <<users, backlog, signalVars>>

ServerNext ==
    \/ epoll_wait
    \/ \E f \in Fd : \E t \in Timer : AcceptClient(f, t)
    \/ ReadSignals
    \/ \E f \in Fd : Receive(f) \/ NothingToRead(f) \/ EndConnection(f)

Next ==
    \/ ServerNext
    \/ ClientConnects
    \/ \E f \in Fd : ClientSends(f) \/ \E how \in {"fin", "rst"} : ClientEnds(f, how)
    \/ Alarm \/ Terminate \/ Clock

\* The server runs when it can, time passes, and the alarm comes.
Spec ==
    /\ Init /\ [][Next]_vars
    /\ WF_vars(ServerNext) /\ WF_vars(Clock) /\ WF_vars(Alarm)

-----------------------------------------------------------------------------
(* Properties *)

TypeOK ==
    /\ open \subseteq Fd /\ users \in [Fd -> Timer \cup {NULL}]
    /\ unread \in [Fd -> 0..MaxData]
    /\ peer \in [Fd -> {"up", "fin", "rst"}]
    /\ backlog \in 0..Cardinality(Fd)
    /\ terms \in 0..MaxTerm
    /\ {alarm, stop_server} \subseteq BOOLEAN
    /\ ready \subseteq open \cup {"listenfd", "pipefd"}
    /\ batch \subseteq Fd \cup {"listenfd", "pipefd"}

\* While the loop runs, the timers in the list are those of the open connections,
\* one for each, though descriptors and addresses are used again: the server never
\* hands a deleted timer to the list and never forgets one.
OneTimerEach ==
    ~stop_server =>
        /\ {users[f] : f \in open} = allocated
        /\ Cardinality(open) = Cardinality(allocated)

\* An event is for something that is still there: a connection that was not
\* closed earlier in the round, and a listening socket with somebody waiting,
\* so that accept and recv do not fail.
EventsAreCurrent ==
    /\ batch \cap Fd \subseteq open
    /\ "listenfd" \in ready \cup batch => backlog > 0

\* 11-3:145 says that a connection is closed when it was idle for three
\* periods: one whose timer has expired is closed, unless data puts it off.
IdleIsClosed ==
    \A f \in Fd :
        (f \in open /\ now >= expire[users[f]])
            ~> (f \notin open \/ now < expire[users[f]])
=============================================================================
