---------------------------- MODULE NonactiveProofs ----------------------------
(***************************************************************************)
(* NonactiveServer for every number of descriptors and addresses.          *)
(*                                                                         *)
(* That no two connections share a timer (OwnTimer) is what lets the       *)
(* deletion of a timer leave those of the others, and the count of the     *)
(* edges of the listening socket (Queued) is what lets every accept find   *)
(* somebody, however many connections come between two rounds.             *)
(*                                                                         *)
(* How the list orders its timers does not matter for that.  But the       *)
(* server calls the list as TimerList says it may be called (Lawful), so   *)
(* what TimerListProofs proves of the list holds in the server.            *)
(***************************************************************************)
EXTENDS NonactiveServer, TimerListProofs

-----------------------------------------------------------------------------
(* The invariant *)

OwnTimer ==
    /\ {users[f] : f \in open} = allocated
    /\ \A f, g \in open : users[f] = users[g] => f = g

Room == backlog + Cardinality(open) <= Cardinality(Fd)

\* One waits for each edge of the listening socket, reported or not.
Queued ==
    /\ "listenfd" \in ready \cup batch => backlog > 0
    /\ "listenfd" \in ready \cap batch => backlog > 1

ServerInv == TypeOK /\ OwnTimer /\ Room /\ Queued /\ batch \cap Fd \subseteq open

LEMMA Finite ==
  ASSUME open \subseteq Fd
  PROVE  /\ IsFiniteSet(open) /\ Cardinality(open) \in Nat
         /\ Cardinality(open) <= Cardinality(Fd) /\ Cardinality(Fd) \in Nat
  BY FS_Subset, FS_CardinalityType, ServerAssumption

LEMMA InvInit == Init => ServerInv
<1> SUFFICES ASSUME Init PROVE ServerInv
  OBVIOUS
<1> USE DEF Init, ListInit
<1>1. Cardinality(open) = 0 /\ Cardinality(Fd) \in Nat
  BY FS_EmptySet, FS_CardinalityType, ServerAssumption
<1>2. TypeOK
  <2>1. MaxTerm \in Nat /\ unread \in [Fd -> 0..MaxData]
    BY ServerAssumption
  <2>2. /\ users \in [Fd -> Timer \cup {NULL}]
        /\ peer \in [Fd -> {"up", "fin", "rst"}]
    OBVIOUS
  <2>3. {alarm, stop_server} \subseteq BOOLEAN
    OBVIOUS
  <2>4. /\ open \subseteq Fd /\ backlog \in 0..Cardinality(Fd)
        /\ terms \in 0..MaxTerm /\ ready = {} /\ batch = {}
    BY <1>1, <2>1
  <2> QED
    BY <2>1, <2>2, <2>3, <2>4 DEF TypeOK
<1>3. OwnTimer /\ Room /\ Queued /\ batch \cap Fd \subseteq open
  BY <1>1 DEF OwnTimer, Room, Queued
<1> QED
  BY <1>2, <1>3 DEF ServerInv

-----------------------------------------------------------------------------
(* The steps that end and begin nothing *)

\* A step that neither makes nor deletes a timer and leaves the backlog.
LEMMA InvKeeps ==
  ASSUME ServerInv, UNCHANGED <<users, open, allocated, backlog, stop_server>>,
         unread' \in [Fd -> 0..MaxData],
         peer' \in [Fd -> {"up", "fin", "rst"}],
         terms' \in 0..MaxTerm, alarm' \in BOOLEAN,
         ready' \subseteq ready \cup open \cup {"pipefd"},
         batch' \subseteq batch
  PROVE  ServerInv'
<1> USE DEF ServerInv
<1>1. TypeOK'
  BY DEF TypeOK
<1>2. OwnTimer' /\ Room'
  BY DEF OwnTimer, Room
<1>3. Queued'
  BY ServerAssumption DEF Queued, TypeOK
<1>4. (batch \cap Fd \subseteq open)'
  OBVIOUS
<1> QED
  BY <1>1, <1>2, <1>3, <1>4

LEMMA InvWait == ServerInv /\ epoll_wait => ServerInv'
<1> SUFFICES ASSUME ServerInv, epoll_wait PROVE ServerInv'
  OBVIOUS
<1> USE DEF ServerInv, epoll_wait, listVars, timerVars, serverVars, clientVars, signalVars
<1>1. TypeOK'
  BY DEF TypeOK
<1>2. OwnTimer' /\ Room'
  BY DEF OwnTimer, Room
<1>3. Queued'
  BY DEF Queued
<1>4. (batch \cap Fd \subseteq open)'
  BY ServerAssumption DEF TypeOK
<1> QED
  BY <1>1, <1>2, <1>3, <1>4

LEMMA InvConnects == ServerInv /\ ClientConnects => ServerInv'
<1> SUFFICES ASSUME ServerInv, ClientConnects PROVE ServerInv'
  OBVIOUS
<1> USE DEF ServerInv, ClientConnects, listVars, timerVars, serverVars, signalVars
<1>1. /\ open \subseteq Fd /\ backlog \in Nat
      /\ Cardinality(open) \in Nat /\ Cardinality(Fd) \in Nat
  BY Finite DEF TypeOK
<1>2. TypeOK'
  BY <1>1 DEF TypeOK
<1>3. OwnTimer'
  BY DEF OwnTimer
<1>4. Room'
  BY <1>1 DEF Room
<1>5. Queued'
  BY <1>1 DEF Queued
<1> QED
  BY <1>2, <1>3, <1>4, <1>5

-----------------------------------------------------------------------------
(* A connection begins and ends with its timer *)

LEMMA InvAccept ==
  ASSUME ServerInv, NEW f \in Fd, NEW t \in Timer, AcceptClient(f, t)
  PROVE  ServerInv'
<1>a. /\ "listenfd" \in batch /\ f \notin open /\ t \notin allocated
      /\ allocated' = allocated \cup {t}
      /\ open' = open \cup {f}
      /\ users' = [users EXCEPT ![f] = t]
      /\ backlog' = backlog - 1
      /\ batch' = batch \ {"listenfd"}
      /\ UNCHANGED <<unread, peer, signalVars, ready>>
  BY ZenonT(30) DEF AcceptClient, ListAdd
<1> USE <1>a, ServerAssumption DEF ServerInv, signalVars
<1>1. /\ open \subseteq Fd /\ backlog \in Nat /\ backlog > 0
      /\ IsFiniteSet(open)
      /\ Cardinality(open) \in Nat /\ Cardinality(Fd) \in Nat
  BY Finite DEF TypeOK, Queued
<1>2. backlog' \in Nat /\ backlog' < backlog /\ backlog' + 1 = backlog
  BY <1>1
<1>3. TypeOK'
  BY <1>1, <1>2 DEF TypeOK
<1>4. OwnTimer'
  <2>1. users' = [users EXCEPT ![f] = t] /\ users \in [Fd -> Timer \cup {NULL}]
    BY DEF TypeOK
  <2>2. users'[f] = t /\ \A g \in open : g # f /\ users'[g] = users[g]
    BY <1>1, <2>1
  <2>3. {users'[g] : g \in open'} = {users[g] : g \in open} \cup {t}
    BY <2>2
  <2>4. t \notin {users[g] : g \in open}
    BY DEF OwnTimer
  <2> QED
    BY <2>2, <2>3, <2>4 DEF OwnTimer
<1>5. Room'
  <2>1. Cardinality(open') = Cardinality(open) + 1
    BY <1>1, FS_AddElement
  <2> QED
    BY <1>1, <1>2, <2>1 DEF Room
<1>6. Queued'
  BY <1>1, <1>2 DEF Queued
<1>7. (batch \cap Fd \subseteq open)'
  OBVIOUS
<1> QED
  BY <1>3, <1>4, <1>5, <1>6, <1>7

LEMMA InvEnd ==
  ASSUME ServerInv, NEW f \in Fd, EndConnection(f)
  PROVE  ServerInv'
<1> USE ServerAssumption DEF ServerInv, EndConnection, ListDel, signalVars
<1>1. /\ open \subseteq Fd /\ backlog \in Nat /\ f \in open
      /\ IsFiniteSet(open)
      /\ Cardinality(open) \in Nat /\ Cardinality(Fd) \in Nat
      /\ f # "listenfd" /\ f # "pipefd"
  BY Finite, ServerAssumption DEF TypeOK
<1>2. TypeOK'
  <2>1. unread' \in [Fd -> 0..MaxData] /\ peer' \in [Fd -> {"up", "fin", "rst"}]
    BY ServerAssumption DEF TypeOK
  <2>2. ready' \subseteq open' \cup {"listenfd", "pipefd"}
    BY <1>1 DEF TypeOK
  <2> QED
    BY <2>1, <2>2 DEF TypeOK
<1>3. OwnTimer'
  <2>1. {users[g] : g \in open \ {f}} = {users[g] : g \in open} \ {users[f]}
    BY <1>1 DEF OwnTimer
  <2> QED
    BY <2>1 DEF OwnTimer
<1>4. Room'
  <2>1. Cardinality(open') = Cardinality(open) - 1
    BY <1>1, FS_RemoveElement
  <2> QED
    BY <1>1, <2>1 DEF Room
<1>5. Queued'
  BY <1>1 DEF Queued
<1>6. (batch \cap Fd \subseteq open)'
  OBVIOUS
<1> QED
  BY <1>2, <1>3, <1>4, <1>5, <1>6

-----------------------------------------------------------------------------
(* Every step, and the theorems *)

LEMMA InvReceive ==
  ASSUME ServerInv, NEW f \in Fd, Receive(f)
  PROVE  ServerInv'
<1>1. PICK n \in 1..unread[f] : unread' = [unread EXCEPT ![f] = @ - n]
  BY DEF Receive
<1>2. unread \in [Fd -> 0..MaxData] /\ MaxData \in Nat
  BY ServerAssumption DEF ServerInv, TypeOK
<1>3. unread[f] - n \in 0..MaxData
  BY <1>2
<1>4. unread' \in [Fd -> 0..MaxData]
  BY <1>1, <1>2, <1>3
<1>5. /\ UNCHANGED <<users, open, allocated, backlog, stop_server>>
      /\ UNCHANGED <<peer, terms, alarm, ready>>
      /\ batch' = batch \ {f}
  BY ZenonT(30) DEF Receive, PutOff, serverVars, signalVars
<1> QED
  BY <1>4, <1>5, InvKeeps DEF ServerInv, TypeOK

LEMMA InvStep == ServerInv /\ [Next]_vars => ServerInv'
<1> SUFFICES ASSUME ServerInv, [Next]_vars PROVE ServerInv'
  OBVIOUS
<1> USE ServerAssumption
    DEF listVars, timerVars, serverVars, clientVars, signalVars
<1>t. TypeOK
  BY DEF ServerInv
<1>1. CASE epoll_wait
  BY <1>1, InvWait
<1>2. CASE \E f \in Fd : \E t \in Timer : AcceptClient(f, t)
  BY <1>2, InvAccept
<1>3. CASE ReadSignals
  BY <1>3, <1>t, InvKeeps DEF ReadSignals, TypeOK
<1>4. ASSUME NEW f \in Fd, Receive(f) PROVE ServerInv'
  BY <1>4, InvReceive
<1>5. ASSUME NEW f \in Fd, NothingToRead(f) PROVE ServerInv'
  BY <1>5, <1>t, InvKeeps DEF NothingToRead, TypeOK
<1>6. ASSUME NEW f \in Fd, EndConnection(f) PROVE ServerInv'
  BY <1>6, InvEnd
<1>7. CASE ClientConnects
  BY <1>7, InvConnects
<1>8. ASSUME NEW f \in Fd, ClientSends(f) PROVE ServerInv'
  <2>1. unread' \in [Fd -> 0..MaxData]
    BY <1>8, <1>t DEF ClientSends, TypeOK
  <2> QED
    BY <1>8, <1>t, <2>1, InvKeeps DEF ClientSends, TypeOK
<1>9. ASSUME NEW f \in Fd, NEW how \in {"fin", "rst"}, ClientEnds(f, how)
      PROVE  ServerInv'
  <2>1. peer' \in [Fd -> {"up", "fin", "rst"}]
    BY <1>9, <1>t DEF ClientEnds, TypeOK
  <2> QED
    BY <1>9, <1>t, <2>1, InvKeeps DEF ClientEnds, TypeOK
<1>10. CASE Alarm
  BY <1>10, <1>t, InvKeeps DEF Alarm, SignalByte, TypeOK
<1>11. CASE Terminate
  <2>1. terms' \in 0..MaxTerm
    BY <1>11, <1>t DEF Terminate, TypeOK
  <2> QED
    BY <1>11, <1>t, <2>1, InvKeeps DEF Terminate, SignalByte, TypeOK
<1>12. CASE Clock
  BY <1>12, <1>t, InvKeeps DEF Clock, Elapse, TypeOK
<1>13. CASE UNCHANGED vars
  BY <1>13, <1>t, InvKeeps DEF vars, TypeOK
<1> QED
  BY <1>1, <1>2, <1>3, <1>4, <1>5, <1>6, <1>7, <1>8, <1>9, <1>10, <1>11,
     <1>12, <1>13 DEF Next, ServerNext

\* Every reachable state satisfies the invariant.
THEOREM ServerAlways == Spec => []ServerInv
<1> QED
  BY InvInit, InvStep, PTL DEF Spec

\* The variables of the server of 11-3 have their types, so an edge that was
\* not reported is of a descriptor that is still open.
THEOREM ServerTypes == Spec => []TypeOK
<1>1. ServerInv => TypeOK
  BY DEF ServerInv
<1> QED
  BY <1>1, ServerAlways, PTL

\* The timers of 11-3 are those of its open connections, one for each,
\* however often descriptors and addresses are used again.
THEOREM OneTimerForEach == Spec => []OneTimerEach
<1>1. ASSUME ServerInv PROVE OneTimerEach
  <2>1. open \subseteq Fd /\ IsFiniteSet(open)
    BY <1>1, Finite DEF ServerInv, TypeOK
  <2>2. {users[f] : f \in open} = allocated
    BY <1>1 DEF ServerInv, OwnTimer
  <2> DEFINE timerOf == [f \in open |-> users[f]]
  <2>3. timerOf \in Bijection(open, allocated)
    BY <1>1, <2>2 DEF ServerInv, OwnTimer, Bijection, Injection, Surjection, IsInjective
  <2>4. Cardinality(open) = Cardinality(allocated)
    BY <2>1, <2>3, FS_Bijection DEF ExistsBijection
  <2> QED
    BY <2>2, <2>4 DEF OneTimerEach
<1> QED
  BY <1>1, ServerAlways, PTL

\* Neither the accept nor the recv of 11-3 is made for what has gone: an event
\* of the round is for an open connection, and somebody waits to be accepted.
THEOREM EventsStayCurrent == Spec => []EventsAreCurrent
<1>1. ServerInv => EventsAreCurrent
  BY DEF ServerInv, Queued, EventsAreCurrent
<1> QED
  BY <1>1, ServerAlways, PTL
-----------------------------------------------------------------------------
(* The server and its list *)

\* A timer is never further off than data that arrives now would put it, so
\* adjust_timer, which only looks to the tail, never has to look to the head.
Lawful ==
    /\ container = "list" /\ ticking = FALSE
    /\ now \in Nat
    /\ expire \in [Timer -> Nat]
    /\ allocated \subseteq Timer
    /\ \A t \in allocated : expire[t] <= now + 3 * TIMERSLOT

LEMMA LawfulInit == Init => Lawful /\ ListInit
BY DEF Init, ListInit, TimersInit, Lawful

\* Every step of the server is a call of the list, or leaves it alone.
LEMMA LawfulStep ==
  ASSUME ServerInv, Lawful, [Next]_vars
  PROVE  Lawful' /\ [ListNext]_listVars
<1> USE DEF Lawful, TIMERSLOT
<1>d. 3 * TIMERSLOT \in Delay
  BY ServerAssumption
<1>1. ASSUME UNCHANGED listVars PROVE Lawful' /\ [ListNext]_listVars
  BY <1>1 DEF listVars, timerVars
<1>2. ASSUME NEW f \in Fd, NEW t \in Timer, AcceptClient(f, t)
      PROVE  Lawful' /\ [ListNext]_listVars
  <2>1. ListAdd(t, 3 * TIMERSLOT)
    BY <1>2 DEF AcceptClient
  <2>2. /\ allocated' = allocated \cup {t}
        /\ expire' = [expire EXCEPT ![t] = now + 3 * TIMERSLOT]
        /\ UNCHANGED <<now, ticking, container>>
    BY <2>1 DEF ListAdd
  <2>3. Lawful'
    BY <2>2
  <2>4. ListNext
    BY <1>d, <2>1 DEF ListNext
  <2> QED
    BY <2>3, <2>4
<1>3. ASSUME NEW f \in Fd, Receive(f) PROVE Lawful' /\ [ListNext]_listVars
  <2> DEFINE t == users[f]
  <2>1. t \in allocated
    BY <1>3 DEF Receive, ServerInv, OwnTimer
  <2>2. /\ expire' = [expire EXCEPT ![t] = now + 3 * TIMERSLOT]
        /\ lst' = adjust_timer(lst, t, expire')
        /\ UNCHANGED <<now, allocated, ticking, container>>
    BY <1>3 DEF Receive, PutOff
  <2> HIDE DEF t
  <2>3. Lawful'
    BY <2>1, <2>2
  <2>4. ListAdjust(t, 3 * TIMERSLOT)
    BY <2>1, <2>2 DEF ListAdjust, Idle
  <2>5. ListNext
    BY <1>d, <2>1, <2>4 DEF ListNext
  <2> QED
    BY <2>3, <2>5
<1>4. ASSUME NEW f \in Fd, EndConnection(f) PROVE Lawful' /\ [ListNext]_listVars
  <2>1. ListDel(users[f])
    BY <1>4 DEF EndConnection
  <2>2. users[f] \in Timer /\ allocated' \subseteq allocated
        /\ UNCHANGED <<now, expire, ticking, container>>
    BY <2>1 DEF ListDel
  <2>3. ListNext
    BY <2>1, <2>2 DEF ListNext
  <2> QED
    BY <2>2, <2>3
<1>5. CASE Clock
  <2>1. Elapse /\ UNCHANGED lst
    BY <1>5 DEF Clock
  <2>2. Lawful'
    BY <2>1 DEF Elapse
  <2> QED
    BY <2>1, <2>2 DEF ListNext
<1>6. CASE \/ epoll_wait \/ ReadSignals \/ ClientConnects \/ Alarm \/ Terminate
           \/ \E f \in Fd : \/ NothingToRead(f) \/ ClientSends(f)
                            \/ \E how \in {"fin", "rst"} : ClientEnds(f, how)
           \/ UNCHANGED vars
  BY <1>1, <1>6 DEF epoll_wait, ReadSignals, ClientConnects, Alarm, Terminate,
                    SignalByte, NothingToRead, ClientSends, ClientEnds, vars
<1> QED
  BY <1>2, <1>3, <1>4, <1>5, <1>6 DEF Next, ServerNext

\* The server of 11-3 is a client of the list that TimerList specifies: it adds
\* a timer that is new, puts off and deletes one that is in the list, and never
\* moves one to an earlier time, which adjust_timer does not handle.
THEOREM ServerUsesList == Spec => ListSpec
<1> QED
  BY InvInit, InvStep, LawfulInit, LawfulStep, PTL DEF Spec, ListSpec

\* So no pointer of the server's list dangles and no timer is lost, however
\* connections come, send and go.
THEOREM ServerListWellFormed == Spec => []ListWellFormed
BY ServerUsesList, ListKeepsAll

\* And in the server, too, the list is the timer service that it promises.
THEOREM ServerListService == Spec => ListImplementsService
BY ServerUsesList, ListRefinement
=============================================================================
