---------------------------- MODULE EpollLoopProofs ----------------------------
(***************************************************************************)
(* The loops of 9-3, 9-4 and 10-1 for any number of connections, threads   *)
(* and signals.                                                            *)
(*                                                                         *)
(* That neither mode of 9-3 loses what clients send: EventsAreCurrent and  *)
(* NothingUnseen are inductive together with the types and with what       *)
(* couples the mode of the server to the way its connections are           *)
(* registered.  And that in 9-4, while no thread has read an argument that *)
(* was not meant for it, EPOLLONESHOT hands each connection from one       *)
(* reader to the next.  And that in 10-1 a SIGTERM is somewhere on its way *)
(* to stop_server until it gets there, unless it found the pipe full.      *)
(***************************************************************************)
EXTENDS LevelEdge, OneShot, UniformEvents, SequenceTheorems, TLAPS

-----------------------------------------------------------------------------
(* Level and edge triggering *)

\* Every connection is registered in the mode of the server.
Registered ==
    \A f \in open : interest[f] = IF mode = "et" THEN "edge" ELSE "level"

\* No connection without a mode; lt() has no inner loop; what et() is reading
\* is not also an event to come.
Reading ==
    /\ mode = "invalid" => open = {}
    /\ cur # NoFd => mode = "et" /\ cur \notin batch

Inv == TypeOK /\ Registered /\ Reading /\ EventsAreCurrent /\ NothingUnseen

LEMMA NotListen == \A f \in Fd : f # listenfd /\ f # NoFd
  BY EpollAssumption DEF Fd, listenfd, NoFd

LEMMA InitInv == Init => Inv
  <1> SUFFICES ASSUME Init PROVE Inv
    OBVIOUS
  <1>1. TypeOK
    BY EpollAssumption DEF Init, EpollInit, TypeOK, KernelTypes
  <1>2. Registered /\ Reading /\ EventsAreCurrent /\ NothingUnseen
    BY DEF Init, EpollInit, Registered, Reading, EventsAreCurrent, NothingUnseen
  <1> QED BY <1>1, <1>2 DEF Inv

\* The steps of epoll_wait and of the default branch.
LEMMA WaitInv == Inv /\ (epoll_wait \/ InvalidMode) => Inv'
  <1> SUFFICES ASSUME Inv, epoll_wait \/ InvalidMode PROVE Inv'
    OBVIOUS
  <1> USE NotListen DEF Inv
  <1>1. CASE epoll_wait
    <2>1. TypeOK'
      BY <1>1 DEF epoll_wait, Reported, TypeOK, KernelTypes
    <2>2. Registered' /\ Reading'
      BY <1>1 DEF epoll_wait, Registered, Reading
    <2>3. EventsAreCurrent'
      BY <1>1 DEF epoll_wait, Reported, Readable, EventsAreCurrent, TypeOK, KernelTypes
    <2>4. NothingUnseen'
      BY <1>1 DEF epoll_wait, Reported, Readable, NothingUnseen, TypeOK, KernelTypes
    <2> QED BY <2>1, <2>2, <2>3, <2>4
  <1>2. CASE InvalidMode
    <2>1. TypeOK'
      BY <1>2 DEF InvalidMode, kernelVars, TypeOK, KernelTypes
    <2>2. Registered' /\ Reading' /\ EventsAreCurrent' /\ NothingUnseen'
      BY <1>2 DEF InvalidMode, kernelVars, Registered, Reading, EventsAreCurrent, NothingUnseen, Readable
    <2> QED BY <2>1, <2>2
  <1> QED BY <1>1, <1>2

\* The steps of accept.
LEMMA AcceptInv == Inv /\ (Accept \/ AcceptFails) => Inv'
  <1> SUFFICES ASSUME Inv, Accept \/ AcceptFails PROVE Inv'
    OBVIOUS
  <1> USE NotListen DEF Inv
  <1>0. listenfd \in batch /\ batch' = batch \ {listenfd} /\ cur = NoFd
        /\ cur' = NoFd /\ mode' = mode /\ mode # "invalid" /\ backlog \in Nat \ {0}
        /\ backlog \in 0 .. MaxBacklog
    BY EpollAssumption DEF Accept, AcceptFails, Event, EventsAreCurrent, Readable, TypeOK, KernelTypes
  <1>1. CASE Accept
    <2> DEFINE m == IF mode = "et" THEN "edge" ELSE "level"
    <2>1. PICK f \in Fd \ open : Opened(f, m)
      BY <1>1 DEF Accept
    <2>2. PICK n \in 0 .. MaxData, p \in {"up", "fin", "rst"} :
              /\ inbox' = [inbox EXCEPT ![f] = n]
              /\ peer' = [peer EXCEPT ![f] = p]
              /\ edges' = IF m = "edge" /\ (n > 0 \/ p # "up")
                          THEN edges \cup {f} ELSE edges
      BY <2>1 DEF Opened
    <2>3. /\ open' = open \cup {f}
          /\ interest' = [interest EXCEPT ![f] = m]
          /\ backlog' = backlog - 1
      BY <2>1 DEF Opened
    <2>4. TypeOK'
      BY <1>0, <2>2, <2>3, EpollAssumption DEF TypeOK, KernelTypes
    <2>5. Registered' /\ Reading'
      BY <1>0, <2>3 DEF Registered, Reading, TypeOK, KernelTypes
    <2>6. EventsAreCurrent'
      BY <1>0, <2>2, <2>3 DEF EventsAreCurrent, Readable, TypeOK, KernelTypes
    <2>7. NothingUnseen'
      BY <1>0, <2>2, <2>3 DEF NothingUnseen, Readable, TypeOK, KernelTypes
    <2> QED BY <2>4, <2>5, <2>6, <2>7
  <1>2. CASE AcceptFails
    <2>1. /\ UNCHANGED <<open, inbox, peer, interest, edges>>
          /\ backlog' \in {backlog, backlog - 1}
      BY <1>2 DEF AcceptFails, Aborted, kernelVars
    <2>2. TypeOK'
      BY <1>0, <2>1, EpollAssumption DEF TypeOK, KernelTypes
    <2>3. Registered' /\ Reading' /\ EventsAreCurrent' /\ NothingUnseen'
      <3>1. Registered' /\ Reading'
        BY <1>0, <2>1 DEF Registered, Reading
      <3>2. EventsAreCurrent'
        BY <1>0, <2>1 DEF EventsAreCurrent, Readable
      <3>3. NothingUnseen'
        BY <1>0, <2>1 DEF NothingUnseen, Readable, TypeOK, KernelTypes
      <3> QED BY <3>1, <3>2, <3>3
    <2> QED BY <2>2, <2>3
  <1> QED BY <1>1, <1>2

\* What recv does to a connection that no event to come is for.
LEMMA TakenInv ==
  ASSUME Inv, NEW f \in open, Taken(f), inbox[f] > 0, f \notin batch',
         batch' \subseteq batch, mode' = mode, cur' = cur, mode # "invalid",
         batch \ batch' \subseteq {f}, mode = "lt" \/ cur = f
  PROVE  Inv'
  <1> USE NotListen DEF Inv
  <1>1. TypeOK'
    BY EpollAssumption DEF TypeOK, KernelTypes, Taken
  <1>2. Registered' /\ Reading'
    BY DEF Registered, Reading, Taken
  <1>3. EventsAreCurrent'
    BY DEF EventsAreCurrent, Readable, Taken, TypeOK, KernelTypes
  <1>4. NothingUnseen'
    BY DEF NothingUnseen, Readable, Taken, TypeOK, KernelTypes
  <1> QED BY <1>1, <1>2, <1>3, <1>4

\* What close does to a connection that no event to come is for.
LEMMA ClosedInv ==
  ASSUME Inv, NEW f \in open, Closed(f), f \notin batch',
         batch' \subseteq batch, mode' = mode, cur' = NoFd, cur \in {NoFd, f},
         batch \ batch' \subseteq {f}
  PROVE  Inv'
  <1> USE NotListen DEF Inv
  <1>1. TypeOK'
    BY EpollAssumption DEF TypeOK, KernelTypes, Closed
  <1>2. Registered' /\ Reading'
    BY DEF Registered, Reading, Closed, TypeOK, KernelTypes
  <1>3. EventsAreCurrent'
    BY DEF EventsAreCurrent, Readable, Closed, TypeOK, KernelTypes
  <1>4. NothingUnseen'
    BY DEF NothingUnseen, Readable, Closed, TypeOK, KernelTypes
  <1> QED BY <1>1, <1>2, <1>3, <1>4

\* The steps of lt() and et() for a connection.
LEMMA ReadInv ==
  ASSUME Inv, NEW f \in Fd,
         LtReceive(f) \/ LtClose(f) \/ EtBegins(f) \/ EtReceive(f) \/ EtClose(f) \/ EtLater(f)
  PROVE  Inv'
  <1> USE NotListen DEF Inv
  <1>0. f \in open
    BY DEF LtReceive, LtClose, EtBegins, EtReceive, EtClose, EtLater, Event, EventsAreCurrent
  <1>1. CASE LtReceive(f)
    BY <1>0, <1>1, TakenInv DEF LtReceive, Event
  <1>2. CASE LtClose(f)
    BY <1>0, <1>2, ClosedInv DEF LtClose, Event
  <1>3. CASE EtBegins(f)
    <2>1. TypeOK'
      BY <1>3 DEF EtBegins, Event, kernelVars, TypeOK, KernelTypes
    <2>2. /\ UNCHANGED <<open, inbox, peer, backlog, interest, edges, mode>>
          /\ mode = "et" /\ cur = NoFd /\ cur' = f
          /\ f \in batch /\ batch' = batch \ {f}
      BY <1>3 DEF EtBegins, Event, kernelVars
    <2>3. Registered' /\ Reading'
      BY <2>2 DEF Registered, Reading
    <2>4. EventsAreCurrent'
      BY <1>0, <2>2 DEF EventsAreCurrent, Readable
    <2>5. NothingUnseen'
      BY <2>2 DEF NothingUnseen, Readable, TypeOK, KernelTypes
    <2> QED BY <2>1, <2>3, <2>4, <2>5
  <1>4. CASE EtReceive(f)
    BY <1>0, <1>4, TakenInv DEF EtReceive, Reading
  <1>5. CASE EtClose(f)
    BY <1>0, <1>5, ClosedInv DEF EtClose, Reading
  <1>6. CASE EtLater(f)
    <2>1. TypeOK'
      BY <1>6 DEF EtLater, kernelVars, TypeOK, KernelTypes
    <2>2. Registered' /\ Reading' /\ EventsAreCurrent' /\ NothingUnseen'
      BY <1>0, <1>6 DEF EtLater, kernelVars, Registered, Reading, EventsAreCurrent, NothingUnseen, Readable
    <2> QED BY <2>1, <2>2
  <1> QED BY <1>1, <1>2, <1>3, <1>4, <1>5, <1>6

\* What clients do only adds something to read, and an edge for it.
LEMMA ClientInv == Inv /\ Clients => Inv'
  <1> SUFFICES ASSUME Inv, Clients PROVE Inv'
    OBVIOUS
  <1> USE NotListen DEF Inv
  <1>0. batch' = batch /\ cur' = cur /\ mode' = mode
    BY DEF Clients
  <1>1. CASE ClientConnects
    <2>1. TypeOK'
      BY <1>0, <1>1, EpollAssumption DEF ClientConnects, TypeOK, KernelTypes
    <2>2. Registered' /\ Reading' /\ EventsAreCurrent' /\ NothingUnseen'
      BY <1>0, <1>1 DEF ClientConnects, Registered, Reading, EventsAreCurrent, NothingUnseen, Readable, TypeOK, KernelTypes
    <2> QED BY <2>1, <2>2
  <1>2. ASSUME NEW f \in Fd, ClientSends(f) PROVE Inv'
    <2>1. TypeOK'
      BY <1>0, <1>2, EpollAssumption DEF ClientSends, Edge, TypeOK, KernelTypes
    <2>2. Registered' /\ Reading'
      BY <1>0, <1>2 DEF ClientSends, Registered, Reading
    <2>3. EventsAreCurrent'
      BY <1>0, <1>2 DEF ClientSends, EventsAreCurrent, Readable, TypeOK, KernelTypes
    <2>4. NothingUnseen'
      BY <1>0, <1>2 DEF ClientSends, Edge, Registered, NothingUnseen, Readable, TypeOK, KernelTypes
    <2> QED BY <2>1, <2>2, <2>3, <2>4
  <1>3. ASSUME NEW f \in Fd, NEW how \in {"fin", "rst"}, ClientEnds(f, how) PROVE Inv'
    <2>1. TypeOK'
      BY <1>0, <1>3 DEF ClientEnds, Edge, TypeOK, KernelTypes
    <2>2. Registered' /\ Reading'
      BY <1>0, <1>3 DEF ClientEnds, Registered, Reading
    <2>3. EventsAreCurrent'
      BY <1>0, <1>3 DEF ClientEnds, EventsAreCurrent, Readable, TypeOK, KernelTypes
    <2>4. NothingUnseen'
      BY <1>0, <1>3 DEF ClientEnds, Edge, Registered, NothingUnseen, Readable, TypeOK, KernelTypes
    <2> QED BY <2>1, <2>2, <2>3, <2>4
  <1> QED BY <1>1, <1>2, <1>3 DEF Clients, ClientNext

LEMMA StepInv == Inv /\ [Next]_vars => Inv'
  <1> SUFFICES ASSUME Inv, [Next]_vars PROVE Inv'
    OBVIOUS
  <1>1. CASE Next
    BY <1>1, WaitInv, AcceptInv, ReadInv, ClientInv DEF Next, Server
  <1>2. CASE UNCHANGED vars
    BY <1>2 DEF vars, kernelVars, Inv, TypeOK, KernelTypes, Registered, Reading, EventsAreCurrent, NothingUnseen, Readable
  <1> QED BY <1>1, <1>2

THEOREM InvAlways == Spec => []Inv
  BY InitInv, StepInv, PTL DEF Spec

\* No event is for a connection that was closed, or that has nothing to read
\* and would make lt() close it, for any number of connections.
THEOREM NoStaleEvent == Spec => []EventsAreCurrent
  <1>1. Inv => EventsAreCurrent
    BY DEF Inv
  <1> QED BY <1>1, InvAlways, PTL

\* Whatever a client sent is being read, or an event or an edge will have it
\* read, for any number of connections and any amount of data.
THEOREM NoDataStranded == Spec => []NothingUnseen
  <1>1. Inv => NothingUnseen
    BY DEF Inv
  <1> QED BY <1>1, InvAlways, PTL

\* Nobody who has not ended is closed: neither lt(), which does not look at
\* errno, nor et().
THEOREM ClosesNobodyElse == Spec => ClosesOnlyTheEnded
  <1>1. Inv /\ [Next]_vars => [\A f \in open \ open' : peer[f] # "up"]_vars
    <2> SUFFICES ASSUME Inv, Next, NEW f \in open \ open'
                 PROVE  peer[f] # "up"
      OBVIOUS
    <2>1. f \in Fd
      BY DEF Inv, TypeOK, KernelTypes
    <2>2. CASE Clients
      BY <2>2 DEF Clients, ClientNext, ClientConnects, ClientSends, ClientEnds
    <2>3. CASE epoll_wait \/ InvalidMode \/ Accept \/ AcceptFails
      BY <2>3 DEF epoll_wait, InvalidMode, Accept, AcceptFails, Opened, Aborted, kernelVars
    <2>4. ASSUME NEW g \in Fd, LtReceive(g) \/ EtBegins(g) \/ EtReceive(g) \/ EtLater(g)
          PROVE  FALSE
      BY <2>4 DEF LtReceive, EtBegins, EtReceive, EtLater, Taken, kernelVars
    <2>5. ASSUME NEW g \in Fd, LtClose(g) \/ EtClose(g) PROVE peer[f] # "up"
      <3>1. f = g
        BY <2>5 DEF LtClose, EtClose, Closed
      <3>2. CASE EtClose(g)
        BY <3>1, <3>2 DEF EtClose
      <3>3. CASE LtClose(g)
        <4>1. g \in batch /\ g # listenfd
          BY <3>3, NotListen DEF LtClose, Event
        <4>2. inbox[g] > 0 \/ peer[g] # "up"
          BY <4>1 DEF Inv, EventsAreCurrent, Readable
        <4>3. inbox[g] = 0 \/ peer[g] = "rst"
          BY <3>3 DEF LtClose
        <4> QED BY <3>1, <4>2, <4>3
      <3> QED BY <2>5, <3>2, <3>3
    <2> QED BY <2>2, <2>3, <2>4, <2>5 DEF Next, Server
  <1> QED BY <1>1, InvAlways, PTL DEF Spec, ClosesOnlyTheEnded

-----------------------------------------------------------------------------
(* EPOLLONESHOT *)

Types ==
    /\ open \subseteq Fd
    /\ dropped \subseteq Fd
    /\ fired \subseteq Fd \cup {listenfd}
    /\ interest \in [Fd -> {"none", "in", "off"}]
    /\ \A f \in Fd : interest[f] = "none" <=> f \notin open
    /\ edges \subseteq {listenfd}
    /\ meant \in [Threads -> Fd \cup {Nothing}]
    /\ sockfd \in [Threads -> Fd \cup {Nothing}]
    /\ argument \in Fd \cup {Nothing}
    /\ mixed \in BOOLEAN

\* A thread reads what it was started for.
AsMeant == \A t \in Threads : sockfd[t] \in {Nothing, meant[t]}

\* Of the epoll set, the loop and the threads at most one has f.
AtMostOne ==
    \A f \in Fd :
        /\ f \in fired => ~Armed(f)
        /\ \A t \in Threads : meant[t] = f => ~Armed(f) /\ f \notin fired
        /\ \A t, u \in Threads : meant[t] = f /\ meant[u] = f => t = u

\* And exactly the connections that were not dropped are had by one.
Had ==
    \A f \in Fd :
        f \in open \ dropped <=> Armed(f) \/ f \in fired \/ \E t \in Threads : meant[t] = f

OneShotInv == Types /\ (~mixed => AsMeant /\ AtMostOne /\ Had)

LEMMA OneShotNotListen == \A f \in Fd : f # listenfd /\ f # Nothing
  BY EpollAssumption DEF Fd, listenfd, Nothing

LEMMA OneShotInvInit == OneShotInit => OneShotInv
  <1> SUFFICES ASSUME OneShotInit PROVE OneShotInv
    OBVIOUS
  <1> USE OneShotNotListen DEF OneShotInit, EpollInit
  <1>1. Types
    BY DEF Types
  <1>2. AsMeant /\ AtMostOne /\ Had
    BY DEF AsMeant, AtMostOne, Had, Armed
  <1> QED BY <1>1, <1>2 DEF OneShotInv

\* What clients do, recv of data and an error leave the registrations alone.
LEMMA QuietInv ==
  ASSUME OneShotInv, edges' \subseteq {listenfd},
         UNCHANGED <<open, interest, fired, argument, meant, sockfd, mixed, dropped>>
  PROVE  OneShotInv'
  BY DEF OneShotInv, Types, AsMeant, AtMostOne, Had, Armed

LEMMA OneShotInvWait == ASSUME OneShotInv, OneShotWait PROVE OneShotInv'
  <1> USE OneShotNotListen DEF OneShotInv
  <1> DEFINE R == Reported
  <1>1. R \cap Fd = {f \in Fd : f \in R /\ Armed(f)} /\ R \subseteq Fd \cup {listenfd}
    BY DEF Reported, Types, Armed
  <1>2. /\ fired = {} /\ fired' = R
        /\ interest' = [f \in Fd |-> IF f \in R /\ Armed(f) THEN "off" ELSE interest[f]]
        /\ edges' = {}
        /\ UNCHANGED <<open, argument, meant, sockfd, mixed, dropped>>
    BY DEF OneShotWait, Disarmed
  <1> HIDE DEF R
  <1>3. Types'
    BY <1>1, <1>2 DEF Types, Armed
  <1>4. ASSUME ~mixed PROVE AsMeant' /\ AtMostOne' /\ Had'
    <2>1. \A f \in Fd : Armed(f)' <=> Armed(f) /\ f \notin R
      BY <1>2 DEF Types, Armed
    <2> QED BY <1>1, <1>2, <1>4, <2>1 DEF AsMeant, AtMostOne, Had
  <1> QED BY <1>2, <1>3, <1>4

LEMMA AddsInv == ASSUME OneShotInv, AddsConnection PROVE OneShotInv'
  <1> USE OneShotNotListen DEF OneShotInv
  <1>1. PICK f \in OneShotFd \ open : Opened(f, "in") /\ dropped' = dropped \ {f}
    BY DEF AddsConnection
  <1>2. f \in Fd /\ f \notin open
    BY <1>1, OneShotAssumption
  <1>3. /\ open' = open \cup {f}
        /\ interest' = [interest EXCEPT ![f] = "in"]
        /\ edges' = edges
        /\ fired' = fired \ {listenfd}
        /\ UNCHANGED <<argument, meant, sockfd, mixed>>
    BY <1>1 DEF Opened, AddsConnection, Handled
  <1>4. Types'
    BY <1>1, <1>2, <1>3 DEF Types
  <1>5. ASSUME ~mixed PROVE AsMeant' /\ AtMostOne' /\ Had'
    <2>1. \A g \in Fd : Armed(g)' <=> Armed(g) \/ g = f
      BY <1>2, <1>3 DEF Types, Armed
    <2>2. f \notin fired /\ ~Armed(f) /\ \A t \in Threads : meant[t] # f
      BY <1>2, <1>5 DEF Had
    <2>3. \A g \in Fd : g \in fired' <=> g \in fired
      BY <1>3
    <2> QED BY <1>1, <1>2, <1>3, <1>5, <2>1, <2>2, <2>3 DEF AsMeant, AtMostOne, Had
  <1> QED BY <1>3, <1>4, <1>5

LEMMA EventInv ==
  ASSUME OneShotInv, NEW f \in Fd, AddsNothing \/ StartsWorker(f) \/ StartFails(f)
  PROVE  OneShotInv'
  <1> USE OneShotNotListen DEF OneShotInv
  <1>0. UNCHANGED <<open, interest, edges, sockfd, mixed>>
    BY DEF AddsNothing, StartsWorker, StartFails, Aborted, kernelVars
  <1>1. CASE AddsNothing
    <2>1. fired' = fired \ {listenfd} /\ UNCHANGED <<argument, meant, dropped>>
      BY <1>1 DEF AddsNothing, Handled
    <2> QED BY <1>0, <2>1 DEF Types, AsMeant, AtMostOne, Had, Armed
  <1>2. CASE StartsWorker(f)
    <2>1. PICK t \in Threads : meant[t] = Nothing /\ meant' = [meant EXCEPT ![t] = f]
      BY <1>2 DEF StartsWorker
    <2>2. f \in fired /\ fired' = fired \ {f} /\ argument' = f /\ dropped' = dropped
      BY <1>2 DEF StartsWorker, Handled
    <2>3. \A u \in Threads : meant'[u] = IF u = t THEN f ELSE meant[u]
      BY <2>1 DEF Types
    <2>4. Types'
      BY <1>0, <2>1, <2>2 DEF Types
    <2>5. ASSUME ~mixed PROVE AsMeant' /\ AtMostOne' /\ Had'
      <3>1. AsMeant'
        BY <1>0, <2>1, <2>3, <2>5 DEF AsMeant
      <3>2. AtMostOne'
        BY <1>0, <2>1, <2>2, <2>3, <2>5 DEF AtMostOne, Armed
      <3>3. Had'
        BY <1>0, <2>1, <2>2, <2>3, <2>5 DEF Had, Armed
      <3> QED BY <3>1, <3>2, <3>3
    <2> QED BY <1>0, <2>4, <2>5
  <1>3. CASE StartFails(f)
    <2>1. /\ f \in fired /\ fired' = fired \ {f} /\ argument' = f
          /\ dropped' = dropped \cup {f} /\ meant' = meant
      BY <1>3 DEF StartFails, Handled
    <2> QED BY <1>0, <2>1 DEF Types, AsMeant, AtMostOne, Had, Armed
  <1> QED BY <1>1, <1>2, <1>3

LEMMA ReadsInv == ASSUME OneShotInv, NEW t \in Threads, ReadsArgument(t) PROVE OneShotInv'
  <1> USE OneShotNotListen DEF OneShotInv, ReadsArgument, kernelVars
  <1>1. Types'
    BY DEF Types
  <1>2. ASSUME ~mixed' PROVE AsMeant' /\ AtMostOne' /\ Had'
    <2>1. ~mixed /\ argument = meant[t]
      BY <1>2
    <2> QED BY <2>1 DEF AsMeant, AtMostOne, Had, Armed, Types
  <1> QED BY <1>1, <1>2

\* The thread that returns has closed its connection or armed it again.
LEMMA ReturnsInv ==
  ASSUME OneShotInv, NEW t \in Threads, NEW f \in Fd, WorkerCloses(t, f) \/ WorkerRearms(t, f)
  PROVE  OneShotInv'
  <1> USE OneShotNotListen DEF OneShotInv
  <1>0. /\ sockfd[t] = f
        /\ meant' = [meant EXCEPT ![t] = Nothing]
        /\ sockfd' = [sockfd EXCEPT ![t] = Nothing]
        /\ UNCHANGED <<fired, argument, mixed, dropped>>
    BY DEF WorkerCloses, WorkerRearms, Receiving, Returns
  <1>1. \A u \in Threads : /\ meant'[u] = IF u = t THEN Nothing ELSE meant[u]
                           /\ sockfd'[u] = IF u = t THEN Nothing ELSE sockfd[u]
    BY <1>0 DEF Types
  <1>2. ASSUME ~mixed
        PROVE  /\ meant[t] = f /\ f \in open /\ f \notin dropped /\ f \notin fired /\ ~Armed(f)
               /\ \A u \in Threads : meant[u] = f => u = t
    BY <1>0, <1>2 DEF AsMeant, AtMostOne, Had
  <1>3. CASE WorkerCloses(t, f)
    <2>1. /\ open' = open \ {f} /\ edges' = edges \ {f}
          /\ interest' = [interest EXCEPT ![f] = "none"]
      BY <1>3 DEF WorkerCloses, Closed
    <2>2. Types'
      BY <1>0, <2>1 DEF Types
    <2>3. ASSUME ~mixed PROVE AsMeant' /\ AtMostOne' /\ Had'
      <3>1. \A g \in Fd : Armed(g)' <=> Armed(g) /\ g # f
        BY <2>1 DEF Types, Armed
      <3> QED BY <1>0, <1>1, <1>2, <2>1, <2>3, <3>1 DEF AsMeant, AtMostOne, Had
    <2> QED BY <1>0, <2>2, <2>3
  <1>4. CASE WorkerRearms(t, f)
    <2>1. /\ UNCHANGED <<open, edges>>
          /\ interest' = IF f \in open THEN [interest EXCEPT ![f] = "in"] ELSE interest
      BY <1>4 DEF WorkerRearms, reset_oneshot
    <2>2. Types'
      BY <1>0, <2>1 DEF Types
    <2>3. ASSUME ~mixed PROVE AsMeant' /\ AtMostOne' /\ Had'
      <3>1. \A g \in Fd : Armed(g)' <=> Armed(g) \/ g = f
        BY <1>2, <2>1, <2>3 DEF Types, Armed
      <3> QED BY <1>0, <1>1, <1>2, <2>1, <2>3, <3>1 DEF AsMeant, AtMostOne, Had
    <2> QED BY <1>0, <2>2, <2>3
  <1> QED BY <1>3, <1>4

LEMMA OneShotInvStep == OneShotInv /\ [OneShotNext]_<<kernelVars, oneShotVars>> => OneShotInv'
  <1> SUFFICES ASSUME OneShotInv, [OneShotNext]_<<kernelVars, oneShotVars>> PROVE OneShotInv'
    OBVIOUS
  <1>0. edges \subseteq {listenfd}
    BY DEF OneShotInv, Types
  <1>1. CASE OneShotLoop
    BY <1>1, OneShotInvWait, AddsInv, EventInv, EpollAssumption DEF OneShotLoop, Fd
  <1>2. ASSUME NEW t \in Threads, OneShotWorker(t) PROVE OneShotInv'
    <2>1. ASSUME NEW f \in Fd, WorkerReceives(t, f) \/ WorkerFails(t, f) \/ WorkerLater(t, f)
          PROVE  OneShotInv'
      BY <1>0, <2>1, QuietInv
         DEF WorkerReceives, WorkerFails, WorkerLater, Taken, kernelVars, oneShotVars
    <2> QED BY <1>2, <2>1, ReadsInv, ReturnsInv DEF OneShotWorker
  <1>3. CASE ClientNext /\ UNCHANGED oneShotVars
    <2>1. UNCHANGED <<open, interest>> /\ edges' \subseteq edges \cup {listenfd}
      BY <1>3 DEF ClientNext, ClientConnects, ClientSends, ClientEnds, Edge, OneShotInv, Types
    <2> QED BY <1>0, <1>3, <2>1, QuietInv DEF oneShotVars
  <1>4. CASE UNCHANGED <<kernelVars, oneShotVars>>
    BY <1>0, <1>4, QuietInv DEF kernelVars, oneShotVars
  <1> QED BY <1>1, <1>2, <1>3, <1>4 DEF OneShotNext

\* The set that OneReader speaks of has one member exactly where OneShotInv says so.
LEMMA InvOneReader == OneShotInv => OneReader
  <1> SUFFICES ASSUME OneShotInv, ~mixed, NEW f \in Fd
               PROVE  /\ f \in open \ dropped => \E r \in Readers(f) : Readers(f) = {r}
                      /\ f \notin open \ dropped => Readers(f) = {}
    BY DEF OneReader
  <1>0. Types /\ AsMeant /\ AtMostOne /\ Had
    BY DEF OneShotInv
  <1> DEFINE E == {<<"epoll", g>> : g \in {f} \cap {g \in Fd : Armed(g)}}
             L == {<<"loop", g>> : g \in {f} \cap fired}
             T == {<<"thread", t>> : t \in {t \in Threads : meant[t] = f \/ sockfd[t] = f}}
  <1>1. Readers(f) = E \cup L \cup T
    BY DEF Readers
  <1>2. E = IF Armed(f) THEN {<<"epoll", f>>} ELSE {}
    OBVIOUS
  <1>3. L = IF f \in fired THEN {<<"loop", f>>} ELSE {}
    OBVIOUS
  <1>4. \A t \in Threads : meant[t] = f \/ sockfd[t] = f <=> meant[t] = f
    BY <1>0, OneShotNotListen DEF AsMeant
  <1>5. T = {<<"thread", t>> : t \in {t \in Threads : meant[t] = f}}
    BY <1>4
  <1>6. ASSUME NEW t \in Threads, meant[t] = f PROVE T = {<<"thread", t>>}
    <2>1. {u \in Threads : meant[u] = f} = {t}
      BY <1>0, <1>6 DEF AtMostOne
    <2> QED BY <1>5, <2>1
  <1>7. (\A t \in Threads : meant[t] # f) => T = {}
    BY <1>5
  <1> HIDE DEF E, L, T
  <1>8. CASE f \notin open \ dropped
    BY <1>0, <1>1, <1>2, <1>3, <1>7, <1>8 DEF Had
  <1>9. CASE f \in open \ dropped
    <2>1. CASE Armed(f)
      BY <1>0, <1>1, <1>2, <1>3, <1>7, <1>9, <2>1 DEF AtMostOne
    <2>2. CASE f \in fired
      BY <1>0, <1>1, <1>2, <1>3, <1>7, <1>9, <2>2 DEF AtMostOne
    <2>3. ASSUME NEW t \in Threads, meant[t] = f
          PROVE  \E r \in Readers(f) : Readers(f) = {r}
      BY <1>0, <1>1, <1>2, <1>3, <1>6, <2>3 DEF AtMostOne
    <2> QED BY <1>0, <1>9, <2>1, <2>2, <2>3 DEF Had
  <1> QED BY <1>8, <1>9

\* A connection of 9-4 has one reader at every moment as long as no thread was
\* given the argument of another, for any number of connections and threads.
THEOREM OneReaderEach == OneShotSpec => []OneReader
  <1>1. OneShotSpec => []OneShotInv
    BY OneShotInvInit, OneShotInvStep, PTL DEF OneShotSpec
  <1> QED BY <1>1, InvOneReader, PTL
-----------------------------------------------------------------------------
(* Signals as events *)

UniformTypes ==
    /\ KernelTypes
    /\ reported \subseteq Fd \cup {listenfd, pipefd}
    /\ pipe \in Seq(Signals) /\ Len(pipe) <= PipeCap
    /\ pending \subseteq Signals /\ lost \subseteq Signals
    /\ sent \in 0 .. MaxSignals

\* Bytes in the pipe have an edge or an event, and an event is for bytes that
\* are there, or for a client that waits.
UniformSeen ==
    /\ pipe # <<>> => pipe_edge \/ pipefd \in reported
    /\ pipefd \in reported => pipe # <<>>
    /\ listenfd \in reported => backlog > 0

UniformInv == UniformTypes /\ UniformSeen

LEMMA UniformNotListen ==
  listenfd # pipefd /\ \A f \in Fd : f # listenfd /\ f # pipefd
  BY EpollAssumption DEF Fd, listenfd, pipefd

LEMMA UniformInvInit == UniformInit => UniformInv
  <1> SUFFICES ASSUME UniformInit PROVE UniformInv
    OBVIOUS
  <1> USE EpollAssumption, UniformAssumption
      DEF UniformInit, UniformRest, EpollInit
  <1>1. KernelTypes
    BY DEF KernelTypes
  <1>2. pipe \in Seq(Signals) /\ Len(pipe) = 0
    BY EmptySeq
  <1> QED BY <1>1, <1>2 DEF UniformInv, UniformTypes, UniformSeen

\* Steps that leave the kernel's side of the connections alone.
LEMMA UniformSignalInv ==
  ASSUME UniformInv, NEW s \in Signals,
         Raise(s) \/ sig_handler(s) \/ ReadsSignals \/ LeavesLoop
  PROVE  UniformInv'
  <1> USE UniformAssumption, UniformNotListen DEF UniformInv
  <1>1. UNCHANGED kernelVars
    BY DEF Raise, sig_handler, ReadsSignals, LeavesLoop
  <1>2. KernelTypes' /\ backlog' = backlog
    BY <1>1 DEF UniformTypes, KernelTypes, kernelVars
  <1>3. CASE Raise(s)
    <2>1. sent' \in 0 .. MaxSignals /\ pending' \subseteq Signals
          /\ UNCHANGED <<reported, pipe, pipe_edge, lost>>
      BY <1>3 DEF Raise, UniformTypes
    <2> QED BY <1>2, <2>1 DEF UniformTypes, UniformSeen
  <1>4. CASE sig_handler(s)
    <2>1. /\ pending' \subseteq Signals /\ lost' \subseteq Signals
          /\ UNCHANGED <<reported, sent>>
      BY <1>4 DEF sig_handler, UniformTypes
    <2>2. CASE Len(pipe) < PipeCap
      <3>1. pipe' = Append(pipe, s) /\ pipe_edge'
        BY <1>4, <2>2 DEF sig_handler
      <3>2. pipe' \in Seq(Signals) /\ Len(pipe') = Len(pipe) + 1 /\ Len(pipe) \in Nat
        BY <3>1, AppendProperties, LenProperties DEF UniformTypes
      <3>3. Len(pipe') <= PipeCap /\ pipe' # <<>>
        BY <2>2, <3>2
      <3> QED BY <1>2, <2>1, <3>1, <3>2, <3>3 DEF UniformTypes, UniformSeen
    <2>3. CASE ~(Len(pipe) < PipeCap)
      <3>1. UNCHANGED <<pipe, pipe_edge>>
        BY <1>4, <2>3 DEF sig_handler
      <3> QED BY <1>2, <2>1, <3>1 DEF UniformTypes, UniformSeen
    <2> QED BY <2>2, <2>3
  <1>5. CASE ReadsSignals
    <2>1. /\ pipe' = <<>> /\ reported' = reported \ {pipefd}
          /\ UNCHANGED <<pending, sent, lost>>
      BY <1>5 DEF ReadsSignals, Dispatched
    <2>2. pipe' \in Seq(Signals) /\ Len(pipe') <= PipeCap
      BY <2>1, EmptySeq
    <2> QED BY <1>2, <2>1, <2>2 DEF UniformTypes, UniformSeen
  <1>6. CASE LeavesLoop
    BY <1>2, <1>6 DEF LeavesLoop, UniformTypes, UniformSeen
  <1> QED BY <1>3, <1>4, <1>5, <1>6

LEMMA UniformWaitInv == ASSUME UniformInv, UniformWait PROVE UniformInv'
  <1> USE UniformNotListen DEF UniformInv
  <1>1. /\ reported = {} /\ edges' = {} /\ pipe_edge' = FALSE
        /\ reported' = Reported \cup (IF pipe_edge /\ pipe # <<>> THEN {pipefd} ELSE {})
        /\ UNCHANGED <<open, inbox, peer, backlog, interest, pipe, pending, sent, lost>>
    BY DEF UniformWait
  <1>2. Reported \subseteq Fd \cup {listenfd} /\ (listenfd \in Reported => backlog > 0)
    BY DEF Reported, Readable, UniformTypes, KernelTypes
  <1>3. KernelTypes'
    BY <1>1 DEF UniformTypes, KernelTypes
  <1> HIDE DEF UniformInv
  <1>4. UniformTypes'
    BY <1>1, <1>2, <1>3 DEF UniformInv, UniformTypes
  <1>5. UniformSeen'
    BY <1>1, <1>2 DEF UniformInv, UniformTypes, UniformSeen
  <1> QED BY <1>4, <1>5 DEF UniformInv

LEMMA UniformEventInv ==
  ASSUME UniformInv, Accepts \/ AcceptsNothing \/ \E f \in Fd : LooksAway(f)
  PROVE  UniformInv'
  <1> USE UniformNotListen DEF UniformInv
  <1>1. UNCHANGED <<pipe, pipe_edge, pending, sent, lost>>
    BY DEF Accepts, AcceptsNothing, LooksAway
  <1>2. CASE Accepts
    <2>1. /\ listenfd \in reported /\ reported' = reported \ {listenfd}
      BY <1>2 DEF Accepts, Dispatched
    <2>2. PICK f \in UniformFd \ open : Opened(f, "edge")
      BY <1>2 DEF Accepts
    <2>3. PICK n \in 0 .. MaxData, p \in {"up", "fin", "rst"} :
              /\ inbox' = [inbox EXCEPT ![f] = n]
              /\ peer' = [peer EXCEPT ![f] = p]
              /\ edges' = IF n > 0 \/ p # "up" THEN edges \cup {f} ELSE edges
      BY <2>2 DEF Opened
    <2>4. /\ f \in Fd
          /\ open' = open \cup {f} /\ backlog' = backlog - 1
          /\ interest' = [interest EXCEPT ![f] = "edge"]
      BY <2>2, UniformAssumption DEF Opened
    <2>5. KernelTypes'
      <3>1. backlog' \in 0 .. MaxBacklog
        BY <2>1, <2>4, EpollAssumption DEF UniformTypes, UniformSeen, KernelTypes
      <3>2. /\ inbox' \in [Fd -> 0 .. MaxData]
            /\ peer' \in [Fd -> {"up", "fin", "rst"}]
            /\ edges' \subseteq open' \cup {listenfd}
        BY <2>3, <2>4 DEF UniformTypes, KernelTypes
      <3>3. /\ interest' \in [Fd -> {"none", "level", "edge", "in", "out", "off"}]
            /\ open' \subseteq Fd
            /\ \A g \in Fd : interest'[g] = "none" <=> g \notin open'
        BY <2>4 DEF UniformTypes, KernelTypes
      <3> QED BY <3>1, <3>2, <3>3 DEF KernelTypes
    <2> QED BY <1>1, <2>1, <2>5 DEF UniformTypes, UniformSeen
  <1>3. CASE AcceptsNothing
    <2>1. /\ listenfd \in reported /\ reported' = reported \ {listenfd}
          /\ backlog' \in {backlog, backlog - 1}
          /\ UNCHANGED <<open, inbox, peer, interest, edges>>
      BY <1>3 DEF AcceptsNothing, Dispatched, Aborted, kernelVars
    <2>2. backlog' \in 0 .. MaxBacklog
      BY <2>1, EpollAssumption DEF UniformTypes, UniformSeen, KernelTypes
    <2>3. KernelTypes'
      BY <2>1, <2>2 DEF UniformTypes, KernelTypes
    <2> QED BY <1>1, <2>1, <2>3 DEF UniformTypes, UniformSeen
  <1>4. ASSUME NEW f \in Fd, LooksAway(f) PROVE UniformInv'
    <2>1. reported' = reported \ {f} /\ f # listenfd /\ f # pipefd /\ UNCHANGED kernelVars
      BY <1>4 DEF LooksAway, Dispatched
    <2> QED BY <1>1, <2>1 DEF UniformTypes, UniformSeen, KernelTypes, kernelVars
  <1> QED BY <1>2, <1>3, <1>4

LEMMA UniformInvStep ==
  UniformInv /\ [UniformNext]_<<kernelVars, uniformVars>> => UniformInv'
  <1> SUFFICES ASSUME UniformInv, [UniformNext]_<<kernelVars, uniformVars>>
               PROVE  UniformInv'
    OBVIOUS
  <1>1. CASE UniformLoop
    BY <1>1, UniformSignalInv, UniformWaitInv, UniformEventInv DEF UniformLoop, Signals
  <1>2. ASSUME NEW s \in Signals, Raise(s) \/ sig_handler(s) PROVE UniformInv'
    BY <1>2, UniformSignalInv
  <1>3. CASE ClientNext /\ UNCHANGED uniformVars
    <2>1. KernelTypes' /\ backlog' >= backlog
      BY <1>3, EpollAssumption
         DEF ClientNext, ClientConnects, ClientSends, ClientEnds, Edge,
             UniformInv, UniformTypes, KernelTypes
    <2>2. listenfd \in reported => backlog' > 0
      BY <2>1 DEF UniformInv, UniformTypes, UniformSeen, KernelTypes
    <2> QED BY <1>3, <2>1, <2>2 DEF uniformVars, UniformInv, UniformTypes, UniformSeen
  <1>4. CASE UNCHANGED <<kernelVars, uniformVars>>
    BY <1>4 DEF kernelVars, uniformVars, UniformInv, UniformTypes, UniformSeen, KernelTypes
  <1> QED BY <1>1, <1>2, <1>3, <1>4 DEF UniformNext

\* Bytes in the pipe of 10-1 always have an edge, reported or not, and what
\* epoll_wait reported is still there when its turn comes.
THEOREM NoByteStranded == UniformSpec => []UniformSeen
  <1>1. UniformInv => UniformSeen
    BY DEF UniformInv
  <1> QED BY <1>1, UniformInvInit, UniformInvStep, PTL DEF UniformSpec

\* Where a SIGTERM that was raised is: before its handler, in the pipe, in
\* stop_server, or gone because the pipe was full.
TermOnItsWay == "TERM" \in pending \/ \E i \in DOMAIN pipe : pipe[i] = "TERM"
TermAccounted == TermOnItsWay \/ stop_server \/ "TERM" \in lost

LEMMA TermStep ==
  UniformInv /\ TermAccounted /\ [UniformNext]_<<kernelVars, uniformVars>>
      => TermAccounted'
  <1> SUFFICES ASSUME UniformInv, TermAccounted, [UniformNext]_<<kernelVars, uniformVars>>
               PROVE  TermAccounted'
    OBVIOUS
  <1> USE DEF TermAccounted, TermOnItsWay
  <1>1. ASSUME NEW s \in Signals, sig_handler(s) PROVE TermAccounted'
    <2>1. pending' = pending \ {s} /\ stop_server' = stop_server
      BY <1>1 DEF sig_handler
    <2>2. CASE Len(pipe) < PipeCap
      <3>1. pipe' = Append(pipe, s) /\ lost' = lost
        BY <1>1, <2>2 DEF sig_handler
      <3>2. /\ DOMAIN pipe = 1 .. Len(pipe) /\ Len(pipe) \in Nat
            /\ DOMAIN pipe' = 1 .. Len(pipe) + 1
            /\ pipe'[Len(pipe) + 1] = s
            /\ \A i \in 1 .. Len(pipe) : pipe'[i] = pipe[i]
        BY <3>1, AppendProperties, LenProperties DEF UniformInv, UniformTypes
      <3> QED BY <2>1, <3>1, <3>2
    <2>3. CASE ~(Len(pipe) < PipeCap)
      BY <1>1, <2>1, <2>3 DEF sig_handler
    <2> QED BY <2>2, <2>3
  <1>2. CASE ReadsSignals
    BY <1>2 DEF ReadsSignals
  <1>3. ASSUME pending \subseteq pending', UNCHANGED <<pipe, stop_server, lost>>
        PROVE  TermAccounted'
    BY <1>3
  <1>4. ASSUME NEW s \in Signals, Raise(s) PROVE TermAccounted'
    BY <1>3, <1>4 DEF Raise
  <1>5. CASE UniformWait \/ Accepts \/ AcceptsNothing \/ LeavesLoop
             \/ \E f \in Fd : LooksAway(f)
    BY <1>3, <1>5 DEF UniformWait, Accepts, AcceptsNothing, LeavesLoop, LooksAway
  <1>6. CASE UNCHANGED uniformVars
    BY <1>3, <1>6 DEF uniformVars
  <1> QED BY <1>1, <1>2, <1>4, <1>5, <1>6 DEF UniformNext, UniformLoop

\* A SIGTERM of 10-1 is never forgotten on its way, whatever signals merge with
\* it and whatever shares its edge or its batch: from when it is raised it is
\* pending, in the pipe or in stop_server, unless the pipe was full.
THEOREM TermNeverForgotten == UniformSpec => [](TermOnItsWay => []TermAccounted)
  <1>1. TermOnItsWay => TermAccounted
    BY DEF TermAccounted
  <1> QED BY <1>1, UniformInvInit, UniformInvStep, TermStep, PTL DEF UniformSpec
=============================================================================
