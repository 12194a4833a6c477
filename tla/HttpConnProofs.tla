----------------------------- MODULE HttpConnProofs -----------------------------
(***************************************************************************)
(* HttpConn for every number of connections, workers and places in the     *)
(* queue, and whether or not accept returns what a worker is closing.      *)
(* First the types, then who owns a connection.                            *)
(***************************************************************************)
EXTENDS HttpConn, TLAPS

-----------------------------------------------------------------------------
(* Types *)

Places == {"idle", "parse", "forever", "in", "out", "close", "closed", "counting"}

ObjectTypes ==
    /\ m_sockfd \in [Fd -> Fd \cup {NoFd}]
    /\ m_read_idx \in [Fd -> {"before", "in", "end"}]
    /\ answer \in [Fd -> BOOLEAN]
    /\ m_user_count \in Int /\ storing \subseteq Int /\ races \in 0 .. MaxDrift

LoopTypes ==
    /\ batch \subseteq (Fd \X {"in", "out", "hup"}) \cup {<<listenfd, "in">>}
    /\ cur \in Fd \cup {NoFd, Wild}
    /\ again \in BOOLEAN
    /\ crossed \in BOOLEAN

PoolTypes ==
    /\ queue \in Seq(Fd)
    /\ holding \in [Workers -> Fd \cup {NoFd}]
    /\ call \in [{"main"} -> {"none", "asking", "accepted", "refused"}]
    /\ offered \in [{"main"} -> Fd \cup {NoFd}]
    /\ call["main"] = "asking" => offered["main"] \in Fd

WorkerTypes ==
    /\ at \in [Workers -> Places]
    /\ tmp \in [Workers -> Int]

\* Only the listening socket is edge triggered without EPOLLONESHOT.
Once ==
    /\ interest \in [Fd -> {"none", "in", "out", "off"}]
    /\ edges \subseteq {listenfd}

\* accept is called only for somebody who waits.
Waiting == <<listenfd, "in">> \in batch => backlog > 0

TypeInv ==
    /\ KernelTypes /\ Once /\ Waiting
    /\ ObjectTypes /\ LoopTypes /\ PoolTypes /\ WorkerTypes

LEMMA Numbers ==
    /\ MaxFd \in Nat \ {0} /\ MaxBacklog \in Nat \ {0} /\ MaxData \in Nat
    /\ MaxDrift \in Nat /\ Capacity \in Nat \ {0} /\ Reuse \in BOOLEAN
    /\ MAX_FD = MaxFd
    /\ \A f \in Fd : f # listenfd /\ f # NoFd /\ f # Wild
    /\ listenfd \notin Fd /\ NoFd # Wild
  BY EpollAssumption, HttpAssumption DEF Fd, listenfd, NoFd, Wild, MAX_FD

\* A load of the count is noted; main's is the number it has to store.
LEMMA LoadTypes == ASSUME ObjectTypes, Loads PROVE races' \in 0 .. MaxDrift
  BY Numbers DEF ObjectTypes, Loads

LEMMA AddTypes ==
  ASSUME ObjectTypes, NEW n \in {-1, 1}, Adds(n)
  PROVE  m_user_count' \in Int /\ storing' \subseteq Int /\ races' \in 0 .. MaxDrift
  BY LoadTypes DEF ObjectTypes, Adds

LEMMA InitTypes == Init => TypeInv
  <1> SUFFICES ASSUME Init PROVE TypeInv
    OBVIOUS
  <1> USE Numbers DEF Init
  <1>1. KernelTypes /\ Once /\ Waiting
    BY DEF EpollInit, KernelTypes, Once, Waiting
  <1>2. ObjectTypes
    BY DEF ObjectTypes
  <1>3. LoopTypes
    BY DEF LoopTypes
  <1>4. PoolTypes
    BY DEF PoolTypes, Pool!Init
  <1>5. WorkerTypes
    BY DEF WorkerTypes, Places
  <1> QED BY <1>1, <1>2, <1>3, <1>4, <1>5 DEF TypeInv

\* What each call of the kernel leaves as it was.
LEMMA KernelClosed ==
  ASSUME KernelTypes, Once, NEW f \in Fd, Closed(f)
  PROVE  KernelTypes' /\ Once' /\ backlog' = backlog
  BY Numbers DEF KernelTypes, Once, Closed

LEMMA KernelTaken ==
  ASSUME KernelTypes, Once, NEW f \in Fd, inbox[f] > 0, Taken(f)
  PROVE  KernelTypes' /\ Once' /\ backlog' = backlog
  BY Numbers DEF KernelTypes, Once, Taken

LEMMA KernelMod ==
  ASSUME KernelTypes, Once, NEW f \in Fd, NEW ev \in {"in", "out"}, modfd(f, ev)
  PROVE  KernelTypes' /\ Once' /\ backlog' = backlog
  BY Numbers DEF KernelTypes, Once, modfd, Connected

LEMMA KernelAccept ==
  ASSUME KernelTypes, Once, backlog > 0, NEW f \in Fd \ open, Aborted \/ Opened(f, addfd)
  PROVE  KernelTypes' /\ Once'
  <1>1. CASE Aborted
    BY <1>1, Numbers DEF Aborted, KernelTypes, Once
  <1>2. CASE Opened(f, addfd)
    BY <1>2, Numbers DEF Opened, addfd, KernelTypes, Once
  <1> QED BY <1>1, <1>2

LEMMA KernelSame ==
  ASSUME KernelTypes, Once, UNCHANGED kernelVars
  PROVE  KernelTypes' /\ Once' /\ backlog' = backlog
  BY DEF kernelVars, KernelTypes, Once

LEMMA KernelClients ==
  ASSUME KernelTypes, Once, ClientNext
  PROVE  /\ KernelTypes' /\ Once' /\ backlog' >= backlog
         /\ UNCHANGED <<open, interest>>
  <1> USE Numbers
  <1>1. CASE ClientConnects
    BY <1>1 DEF ClientConnects, KernelTypes, Once
  <1>2. ASSUME NEW f \in Fd, ClientSends(f) PROVE KernelTypes' /\ Once' /\ backlog' = backlog /\ UNCHANGED <<open, interest>>
    BY <1>2 DEF ClientSends, Edge, KernelTypes, Once
  <1>3. ASSUME NEW f \in Fd, NEW how \in {"fin", "rst"}, ClientEnds(f, how)
        PROVE  KernelTypes' /\ Once' /\ backlog' = backlog /\ UNCHANGED <<open, interest>>
    BY <1>3 DEF ClientEnds, Edge, KernelTypes, Once
  <1>4. backlog >= backlog
    BY DEF KernelTypes
  <1> QED BY <1>1, <1>2, <1>3, <1>4 DEF ClientNext, ClientConnects, KernelTypes

LEMMA CloseTypes ==
  ASSUME KernelTypes, Once, ObjectTypes, NEW f \in Fd, close_conn(f)
  PROVE  KernelTypes' /\ Once' /\ ObjectTypes' /\ backlog' = backlog
  <1>1. KernelTypes' /\ Once' /\ backlog' = backlog
    BY KernelClosed, KernelSame DEF close_conn, removefd
  <1>2. ObjectTypes'
    BY AddTypes DEF close_conn, ObjectTypes, count
  <1> QED BY <1>1, <1>2

LEMMA ResetTypes ==
  ASSUME ObjectTypes, NEW f \in Fd, Reset(f)
  PROVE  /\ m_read_idx' \in [Fd -> {"before", "in", "end"}]
         /\ answer' \in [Fd -> BOOLEAN]
  BY DEF Reset, ObjectTypes

\* The events of a batch, and the listening socket's only while somebody waits.
LEMMA WaitTypes == ASSUME TypeInv, epoll_wait PROVE TypeInv'
  <1> USE Numbers DEF TypeInv
  <1>1. PICK room \in SUBSET {f \in open : interest[f] = "out"} :
           /\ batch' = {<<f, Kind(f)>> : f \in Reported \cup room}
           /\ interest' = Disarmed(Reported \cup room)
    BY DEF epoll_wait
  <1>2. /\ edges' = {}
        /\ UNCHANGED <<open, inbox, peer, backlog, object, cur, again, pool, worker, crossed>>
    BY DEF epoll_wait
  <1>3. Reported \subseteq open \cup {listenfd} /\ (listenfd \in Reported => backlog > 0)
    BY DEF Reported, Readable, KernelTypes
  <1>4. \A f \in open \cup {listenfd} :
           Kind(f) \in {"in", "out", "hup"} /\ (f = listenfd => Kind(f) = "in")
    BY DEF Kind
  <1>5. LoopTypes'
    BY <1>1, <1>2, <1>3, <1>4 DEF LoopTypes, KernelTypes
  <1>6. Waiting'
    BY <1>1, <1>2, <1>3, <1>4 DEF Waiting, KernelTypes
  <1>7. KernelTypes' /\ Once'
    BY <1>1, <1>2 DEF KernelTypes, Once, Disarmed, Armed
  <1>8. ObjectTypes' /\ PoolTypes' /\ WorkerTypes'
    BY <1>2 DEF ObjectTypes, PoolTypes, WorkerTypes, object, count, pool, worker
  <1> QED BY <1>5, <1>6, <1>7, <1>8

LEMMA EventTypes ==
  ASSUME NEW f \in Fd \cup {listenfd}, NEW kind \in {"in", "out", "hup"},
         LoopTypes, Waiting, PoolTypes, WorkerTypes, Event(f, kind)
  PROVE  /\ batch' \subseteq (Fd \X {"in", "out", "hup"}) \cup {<<listenfd, "in">>}
         /\ backlog' = backlog => Waiting'
         /\ WorkerTypes'
  BY DEF Event, LoopTypes, Waiting, WorkerTypes, worker

LEMMA AcceptTypes == ASSUME TypeInv, Accept \/ AcceptFails PROVE TypeInv'
  <1> USE Numbers DEF TypeInv
  <1>0. /\ Event(listenfd, "in") /\ UNCHANGED <<cur, again, pool>>
        /\ <<listenfd, "in">> \in batch /\ batch' = batch \ {<<listenfd, "in">>}
    BY DEF Accept, AcceptFails, Event
  <1>1. backlog > 0
    BY <1>0 DEF Waiting
  <1>2. WorkerTypes' /\ Waiting' /\ PoolTypes'
    BY <1>0, EventTypes DEF PoolTypes, pool, Waiting
  <1>3. CASE Accept
    <2>1. PICK f \in Fd \ open :
             /\ IF m_user_count >= MAX_FD THEN Aborted ELSE Opened(f, addfd)
             /\ init(f)
      BY <1>3 DEF Accept
    <2>2. KernelTypes' /\ Once'
      BY <1>1, <2>1, KernelAccept
    <2>3. ObjectTypes'
      BY <2>1, AddTypes, ResetTypes DEF init, ObjectTypes
    <2>4. crossed' \in BOOLEAN
      BY <2>1 DEF init, LoopTypes
    <2> QED BY <1>0, <1>2, <2>2, <2>3, <2>4 DEF LoopTypes
  <1>4. CASE AcceptFails
    <2>1. UNCHANGED <<object, crossed>> /\ (open # Fd => Aborted) /\ (open = Fd => UNCHANGED kernelVars)
      BY <1>4 DEF AcceptFails
    <2>2. KernelTypes' /\ Once'
      BY <1>1, <2>1, KernelAccept, KernelSame DEF KernelTypes
    <2>3. ObjectTypes' /\ LoopTypes'
      BY <1>0, <2>1 DEF ObjectTypes, LoopTypes, object, count
    <2> QED BY <1>2, <2>2, <2>3
  <1> QED BY <1>3, <1>4

\* An event of a connection.
LEMMA HandleTypes ==
  ASSUME TypeInv, NEW f \in Fd, Hangup(f) \/ ReadBegins(f) \/ WriteStays(f) \/ WriteEnds(f)
  PROVE  TypeInv'
  <1> USE Numbers DEF TypeInv
  <1>1. \E kind \in {"in", "out", "hup"} : Event(f, kind)
    BY DEF Hangup, ReadBegins, WriteStays, WriteEnds
  <1>2. /\ batch' \subseteq (Fd \X {"in", "out", "hup"}) \cup {<<listenfd, "in">>}
        /\ backlog' = backlog => Waiting'
        /\ WorkerTypes'
    BY <1>1, EventTypes
  <1>3. UNCHANGED <<pool, crossed>>
    BY DEF Hangup, ReadBegins, WriteStays, WriteEnds
  <1>4. PoolTypes' /\ crossed' \in BOOLEAN
    BY <1>3 DEF PoolTypes, pool, LoopTypes
  <1>5. cur' \in Fd \cup {NoFd, Wild} /\ again' \in BOOLEAN
    BY DEF Hangup, ReadBegins, WriteStays, WriteEnds, LoopTypes
  <1>6. LoopTypes'
    BY <1>2, <1>4, <1>5 DEF LoopTypes
  <1>7. CASE close_conn(f)
    BY <1>2, <1>4, <1>6, <1>7, CloseTypes
  <1>8. CASE UNCHANGED <<kernelVars, object>>
    <2>1. ObjectTypes'
      BY <1>8 DEF ObjectTypes, object, count
    <2> QED BY <1>2, <1>4, <1>6, <1>8, <2>1, KernelSame
  <1>9. CASE WriteStays(f)
    <2>1. PICK ev \in {"in", "out"} : modfd(f, ev)
      BY <1>9 DEF WriteStays
    <2>2. KernelTypes' /\ Once' /\ backlog' = backlog
      BY <2>1, KernelMod
    <2>3. ObjectTypes'
      BY <1>9, ResetTypes DEF WriteStays, ObjectTypes, count
    <2> QED BY <1>2, <1>4, <1>6, <2>2, <2>3
  <1> QED BY <1>7, <1>8, <1>9 DEF Hangup, ReadBegins, WriteEnds

\* What read() does with what recv gives.
LEMMA ReadTypes ==
  ASSUME TypeInv, NEW f \in Fd,
         ReadMore(f) \/ ReadReturnsTrue(f) \/ ReadReturnsFalse(f) \/ ReadFails(f) \/ ReadWild(f)
  PROVE  TypeInv'
  <1> USE Numbers DEF TypeInv
  <1>0. UNCHANGED <<batch, worker, crossed>>
    BY DEF ReadMore, ReadReturnsTrue, ReadReturnsFalse, ReadFails, ReadWild, loop
  <1>1. LoopTypes' /\ WorkerTypes' /\ (backlog' = backlog => Waiting')
    <2>1. cur' \in Fd \cup {NoFd, Wild} /\ again' \in BOOLEAN
      BY DEF ReadMore, ReadReturnsTrue, ReadReturnsFalse, ReadFails, ReadWild, ReadEnds, loop, LoopTypes, Connected
    <2> QED BY <1>0, <2>1 DEF LoopTypes, WorkerTypes, Waiting, worker
  <1>2. CASE ReadMore(f)
    <2>1. inbox[f] > 0 /\ Taken(f) /\ UNCHANGED <<m_sockfd, answer, count, pool>>
      BY <1>2 DEF ReadMore, Arrived
    <2>2. m_read_idx' \in [Fd -> {"before", "in", "end"}]
      BY <1>2 DEF ReadMore, ObjectTypes
    <2>3. ObjectTypes' /\ PoolTypes'
      BY <2>1, <2>2 DEF ObjectTypes, PoolTypes, pool, count
    <2> QED BY <1>1, <2>1, <2>3, KernelTaken
  <1>3. CASE ReadReturnsTrue(f)
    <2>1. inbox[f] > 0 /\ Taken(f) /\ UNCHANGED object /\ Pool!Offer("main", f)
      BY <1>3 DEF ReadReturnsTrue, Arrived
    <2>2. PoolTypes'
      BY <2>1 DEF PoolTypes, Pool!Offer
    <2>3. ObjectTypes'
      BY <2>1 DEF ObjectTypes, object, count
    <2> QED BY <1>1, <2>1, <2>2, <2>3, KernelTaken
  <1>4. CASE ReadReturnsFalse(f)
    <2>1. close_conn(f) /\ UNCHANGED pool
      BY <1>4 DEF ReadReturnsFalse
    <2>2. PoolTypes'
      BY <2>1 DEF PoolTypes, pool
    <2> QED BY <1>1, <2>1, <2>2, CloseTypes
  <1>5. CASE ReadFails(f)
    <2>1. UNCHANGED <<open, inbox, backlog, interest, edges, m_sockfd, answer, count, pool>>
      BY <1>5 DEF ReadFails
    <2>2. peer' \in [Fd -> {"up", "fin", "rst"}]
      BY <1>5 DEF ReadFails, KernelTypes
    <2>3. m_read_idx' \in [Fd -> {"before", "in", "end"}]
      BY <1>5 DEF ReadFails, ObjectTypes
    <2>4. KernelTypes' /\ Once' /\ ObjectTypes' /\ PoolTypes'
      BY <2>1, <2>2, <2>3 DEF KernelTypes, Once, ObjectTypes, PoolTypes, pool, count
    <2> QED BY <1>1, <2>1, <2>4
  <1>6. CASE ReadWild(f)
    <2>1. UNCHANGED <<kernelVars, object, pool>>
      BY <1>6 DEF ReadWild
    <2>2. ObjectTypes' /\ PoolTypes'
      BY <2>1 DEF ObjectTypes, PoolTypes, object, count, pool
    <2> QED BY <1>1, <2>1, <2>2, KernelSame
  <1> QED BY <1>2, <1>3, <1>4, <1>5, <1>6

LEMMA AppendTypes == ASSUME TypeInv, append PROVE TypeInv'
  <1> USE Numbers DEF TypeInv
  <1>1. UNCHANGED <<kernelVars, object, loop, worker, crossed>>
    BY DEF append
  <1>2. PoolTypes'
    <2>1. CASE Pool!Accept("main")
      BY <2>1 DEF Pool!Accept, PoolTypes
    <2>2. CASE Pool!Refuse("main") \/ Pool!Answer("main")
      BY <2>2 DEF Pool!Refuse, Pool!Answer, PoolTypes
    <2> QED BY <2>1, <2>2 DEF append
  <1>3. ObjectTypes' /\ LoopTypes' /\ WorkerTypes'
    BY <1>1 DEF ObjectTypes, LoopTypes, WorkerTypes, object, count, loop, worker
  <1>4. KernelTypes' /\ Once' /\ Waiting'
    BY <1>1, KernelSame DEF Waiting, loop
  <1> QED BY <1>2, <1>3, <1>4

\* A step of process().
LEMMA ProcessTypes ==
  ASSUME TypeInv, NEW w \in Workers, Take(w) \/ Process(w)
  PROVE  TypeInv'
  <1> USE Numbers DEF TypeInv
  <1>1. PICK f \in Fd \cup {NoFd}, from \in Places, to \in Places :
          /\ Goes(w, f, from, to)
          /\ holding[w] = f
    BY DEF Take, Process, Incomplete, ParsesForEver, Answers, NoAnswer, Closes, Forgets, Counts,
           Rearms, Goes, Places
  <1>2. LoopTypes' /\ at' \in [Workers -> Places] /\ (backlog' = backlog => Waiting')
    BY <1>1 DEF Goes, LoopTypes, WorkerTypes, loop, Waiting
  <1>3. CASE Take(w)
    <2>1. Pool!Take(w) /\ UNCHANGED <<kernelVars, object, tmp>>
      BY <1>3 DEF Take
    <2>2. Head(queue) \in Fd /\ Tail(queue) \in Seq(Fd)
      BY <2>1 DEF Pool!Take, PoolTypes
    <2>3. PoolTypes'
      BY <2>1, <2>2 DEF Pool!Take, PoolTypes
    <2>4. ObjectTypes' /\ WorkerTypes'
      BY <1>2, <2>1 DEF ObjectTypes, WorkerTypes, object, count
    <2> QED BY <1>2, <2>1, <2>3, <2>4, KernelSame
  <1>4. ASSUME NEW g \in Fd, Incomplete(w, g) \/ ParsesForEver(w, g) \/ Answers(w, g) \/ NoAnswer(w, g)
        PROVE  TypeInv'
    <2>1. UNCHANGED <<kernelVars, m_sockfd, m_read_idx, count, pool, tmp>>
      BY <1>4 DEF Incomplete, ParsesForEver, Answers, NoAnswer, object
    <2>2. answer' \in [Fd -> BOOLEAN]
      BY <1>4 DEF Incomplete, ParsesForEver, Answers, NoAnswer, Responds, object, ObjectTypes
    <2>3. ObjectTypes' /\ PoolTypes' /\ WorkerTypes'
      BY <1>2, <2>1, <2>2 DEF ObjectTypes, PoolTypes, WorkerTypes, pool, count
    <2> QED BY <1>2, <2>1, <2>3, KernelSame
  <1>5. ASSUME NEW g \in Fd, Closes(w, g) PROVE TypeInv'
    <2>1. removefd(g) /\ UNCHANGED <<object, pool, tmp>>
      BY <1>5 DEF Closes
    <2>2. KernelTypes' /\ Once' /\ backlog' = backlog
      BY <2>1, KernelClosed, KernelSame DEF removefd
    <2>3. ObjectTypes' /\ PoolTypes' /\ WorkerTypes'
      BY <1>2, <2>1 DEF ObjectTypes, PoolTypes, WorkerTypes, object, count, pool
    <2> QED BY <1>2, <2>2, <2>3
  <1>6. ASSUME NEW g \in Fd, Forgets(w, g) \/ Counts(w, g) PROVE TypeInv'
    <2>1. UNCHANGED <<kernelVars, m_read_idx, answer, pool>>
      BY <1>6 DEF Forgets, Counts
    <2>2. /\ m_sockfd' \in [Fd -> Fd \cup {NoFd}]
          /\ m_user_count' \in Int /\ storing' \subseteq Int /\ races' \in 0 .. MaxDrift
          /\ tmp' \in [Workers -> Int]
      <3>1. CASE Forgets(w, g)
        BY <3>1, LoadTypes DEF Forgets, ObjectTypes, WorkerTypes
      <3>2. CASE Counts(w, g)
        <4>1. tmp[w] \in Int
          BY DEF WorkerTypes
        <4> QED BY <3>2, <4>1 DEF Counts, ObjectTypes, WorkerTypes
      <3> QED BY <1>6, <3>1, <3>2
    <2>3. ObjectTypes' /\ PoolTypes' /\ WorkerTypes'
      BY <1>2, <2>1, <2>2 DEF ObjectTypes, PoolTypes, WorkerTypes, pool
    <2> QED BY <1>2, <2>1, <2>3, KernelSame
  <1>7. ASSUME NEW g \in Fd, Rearms(w, g) PROVE TypeInv'
    <2>1. PICK ev \in {"in", "out"} : modfd(g, ev)
      BY <1>7 DEF Rearms
    <2>2. Pool!Finish(w) /\ UNCHANGED <<object, tmp>>
      BY <1>7 DEF Rearms
    <2>3. PoolTypes'
      BY <2>2 DEF Pool!Finish, PoolTypes
    <2>4. ObjectTypes' /\ WorkerTypes'
      BY <1>2, <2>2 DEF ObjectTypes, WorkerTypes, object, count
    <2> QED BY <1>2, <2>1, <2>3, <2>4, KernelMod
  <1> QED BY <1>3, <1>4, <1>5, <1>6, <1>7 DEF Process

\* main stores the count, or leaves its loop for good.
LEMMA MainTypes == ASSUME TypeInv, MainStores \/ EpollFails PROVE TypeInv'
  <1> USE Numbers DEF TypeInv
  <1>1. /\ UNCHANGED <<kernelVars, m_sockfd, m_read_idx, answer, races, batch, again, pool, worker, crossed>>
        /\ cur' \in Fd \cup {NoFd, Wild}
    BY DEF MainStores, EpollFails, object, count, loop, LoopTypes
  <1>2. m_user_count' \in Int /\ storing' \subseteq Int
    BY DEF MainStores, EpollFails, object, count, ObjectTypes
  <1>3. ObjectTypes' /\ LoopTypes' /\ PoolTypes' /\ WorkerTypes' /\ Waiting'
    <2>1. UNCHANGED backlog
      BY <1>1 DEF kernelVars
    <2> QED BY <1>1, <1>2, <2>1 DEF ObjectTypes, LoopTypes, PoolTypes, WorkerTypes, Waiting, pool, worker
  <1> QED BY <1>1, <1>3, KernelSame

LEMMA ClientTypes == ASSUME TypeInv, Clients PROVE TypeInv'
  <1>1. KernelTypes' /\ Once' /\ backlog' >= backlog /\ UNCHANGED <<object, loop, pool, worker, crossed>>
    BY KernelClients DEF Clients, TypeInv
  <1>2. ObjectTypes' /\ LoopTypes' /\ PoolTypes' /\ WorkerTypes'
    BY <1>1 DEF TypeInv, ObjectTypes, LoopTypes, PoolTypes, WorkerTypes, object, count, loop, pool, worker
  <1>3. Waiting'
    BY <1>1 DEF TypeInv, Waiting, loop, KernelTypes
  <1> QED BY <1>1, <1>2, <1>3 DEF TypeInv

LEMMA StepTypes == TypeInv /\ [Next]_vars => TypeInv'
  <1> SUFFICES ASSUME TypeInv, [Next]_vars PROVE TypeInv'
    OBVIOUS
  <1>1. CASE UNCHANGED vars
    <2>1. KernelTypes' /\ Once'
      BY <1>1, KernelSame DEF vars, TypeInv
    <2> QED BY <1>1, <2>1 DEF vars, kernelVars, TypeInv, ObjectTypes, LoopTypes, PoolTypes, WorkerTypes,
               Waiting, object, count, loop, pool, worker
  <1>2. CASE Main \/ EpollFails
    BY <1>2, WaitTypes, AcceptTypes, AppendTypes, HandleTypes, ReadTypes, MainTypes DEF Main
  <1>3. CASE \E w \in Workers : Take(w) \/ Process(w)
    BY <1>3, ProcessTypes
  <1>4. CASE Clients
    BY <1>4, ClientTypes
  <1> QED BY <1>1, <1>2, <1>3, <1>4 DEF Next

\* The variables keep their types: every open connection is registered, and nothing
\* but descriptors ever enters the pool, for any number of connections and workers.
THEOREM TypeCorrect == Spec => []TypeOK
  <1>1. Spec => []TypeInv
    BY InitTypes, StepTypes, PTL DEF Spec
  <1>2. TypeInv => TypeOK
    BY DEF TypeInv, TypeOK, ObjectTypes, LoopTypes, PoolTypes, WorkerTypes, Places
  <1> QED BY <1>1, <1>2, PTL

-----------------------------------------------------------------------------
(* Owners: what OneOwner, ObjectIsCurrent and ForgetsOnlyWhenFull speak of *)

InBatch(f) == \E k \in {"in", "out", "hup"} : <<f, k>> \in batch
Asked(f) == call["main"] = "asking" /\ offered["main"] = f
Queued(f) == \E i \in DOMAIN queue : queue[i] = f
Held(f) == \E w \in Workers : holding[w] = f

\* Each excludes those before it.
Apart(f) ==
    /\ InBatch(f) => ~Armed(f)
    /\ cur = f => ~Armed(f) /\ ~InBatch(f)
    /\ Asked(f) => ~Armed(f) /\ ~InBatch(f) /\ cur # f
    /\ Queued(f) => ~Armed(f) /\ ~InBatch(f) /\ cur # f /\ ~Asked(f)
    /\ Held(f) => ~Armed(f) /\ ~InBatch(f) /\ cur # f /\ ~Asked(f) /\ ~Queued(f)

\* And nobody is an owner twice; for the queue Distinct says so.
Single(f) ==
    /\ \A k, l : <<f, k>> \in batch /\ <<f, l>> \in batch => k = l
    /\ \A v, w \in Workers : holding[v] = f /\ holding[w] = f => v = w

Distinct == \A i, j \in DOMAIN queue : queue[i] = queue[j] => i = j

\* How far an owner is, by whether the descriptor is open.
Stage(f) ==
    /\ f \in open => m_sockfd[f] = f
    /\ f \notin open => ~InBatch(f) /\ cur # f /\ ~Asked(f) /\ ~Queued(f)
    /\ \A w \in Workers : holding[w] = f =>
           at[w] \in IF f \in open THEN {"parse", "forever", "in", "out", "close"}
                     ELSE {"closed", "counting", "out"}

Sound(f) == Apart(f) /\ Single(f) /\ Stage(f)

Core == Distinct /\ \A f \in Fd : Sound(f)

Inv == TypeInv /\ (~crossed => Core)

Owned(f) == Armed(f) \/ InBatch(f) \/ cur = f \/ Asked(f) \/ Queued(f) \/ Held(f)

\* A step that leaves g, and whoever owns it, as they are.
Same(g) ==
    /\ g \in open' <=> g \in open
    /\ Armed(g)' <=> Armed(g)
    /\ \A k : <<g, k>> \in batch' <=> <<g, k>> \in batch
    /\ cur' = g <=> cur = g
    /\ Asked(g)' <=> Asked(g)
    /\ Queued(g)' <=> Queued(g)
    /\ \A w \in Workers : /\ holding'[w] = g <=> holding[w] = g
                          /\ holding[w] = g => at'[w] = at[w]
    /\ m_sockfd'[g] = m_sockfd[g]

Lost == cur' = Wild \/ (call'["main"] = "refused" /\ Len(queue) >= Capacity)

\* A step that is about f only.
About(f) ==
    /\ \A g \in Fd \ {f} : Same(g)
    /\ Distinct' /\ Sound(f)'
    /\ f \in open' /\ Owned(f) => Owned(f)' \/ Lost

\* What a step keeps.
Kept ==
    /\ ~crossed' => Core'
    /\ \A f \in open \cap open' : Owned(f) => Owned(f)' \/ Lost

LEMMA SameSound ==
  ASSUME NEW g \in Fd, Same(g)
  PROVE  (Sound(g) => Sound(g)') /\ (Owned(g)' <=> Owned(g))
  <1>1. (InBatch(g)' <=> InBatch(g)) /\ (Held(g)' <=> Held(g))
    BY DEF Same, InBatch, Held
  <1>2. (Apart(g) => Apart(g)') /\ (Owned(g)' <=> Owned(g))
    BY <1>1 DEF Same, Apart, Owned
  <1>3. Single(g) => Single(g)'
    BY DEF Same, Single
  <1>4. Stage(g) => Stage(g)'
    BY <1>1 DEF Same, Stage
  <1> QED BY <1>2, <1>3, <1>4 DEF Sound

LEMMA AboutKept ==
  ASSUME Core, TypeInv, NEW f \in Fd, About(f)
  PROVE  Kept
  <1>1. \A g \in Fd : Sound(g)'
    BY SameSound DEF Core, About
  <1>2. \A g \in Fd : g \in open' /\ Owned(g) => Owned(g)' \/ Lost
    BY SameSound DEF About
  <1>3. open \subseteq Fd
    BY DEF TypeInv, KernelTypes
  <1> QED BY <1>1, <1>2, <1>3 DEF Kept, Core, About

LEMMA SameKept ==
  ASSUME Core, TypeInv, Distinct', \A g \in Fd : Same(g)
  PROVE  Kept
  BY SameSound DEF Core, TypeInv, KernelTypes, Kept

LEMMA InitCore == Init => Core
  <1> SUFFICES ASSUME Init PROVE Core
    OBVIOUS
  <1> USE Numbers DEF Init, EpollInit, Pool!Init
  <1>1. Distinct
    BY DEF Distinct
  <1>2. ASSUME NEW f \in Fd PROVE Sound(f)
    BY DEF Sound, Apart, Single, Stage, InBatch, Asked, Queued, Held, Armed
  <1> QED BY <1>1, <1>2 DEF Core

\* What clients do, and recv, concern nobody's ownership.
LEMMA QuietKept ==
  ASSUME Core, TypeInv,
         UNCHANGED <<open, interest, m_sockfd, batch, cur, queue, holding, call, offered, at, crossed>>
  PROVE  Kept
  <1>1. \A g \in Fd : Same(g)
    BY DEF Same, Armed, Asked, Queued
  <1>2. Distinct'
    BY DEF Core, Distinct
  <1> QED BY <1>1, <1>2, SameKept

LEMMA WaitKept == ASSUME Core, TypeInv, epoll_wait PROVE Kept
  <1> USE Numbers DEF TypeInv
  <1>1. PICK room \in SUBSET {f \in open : interest[f] = "out"} :
           /\ batch' = {<<f, Kind(f)>> : f \in Reported \cup room}
           /\ interest' = Disarmed(Reported \cup room)
    BY DEF epoll_wait
  <1>2. /\ batch = {}
        /\ UNCHANGED <<open, object, cur, again, pool, worker, crossed>>
    BY DEF epoll_wait
  <1> DEFINE R == Reported \cup room
  <1>3. \A g \in Fd : g \in R => g \in open /\ Armed(g)
    BY DEF Reported, Armed, Once
  <1>4. /\ \A g \in Fd : Armed(g)' <=> Armed(g) /\ g \notin R
        /\ \A g, k : <<g, k>> \in batch' <=> g \in R /\ k = Kind(g)
    BY <1>1 DEF Disarmed, Armed, Once
  <1>5. \A g \in Fd : Kind(g) \in {"in", "out", "hup"}
    BY DEF Kind
  <1> HIDE DEF R
  <1>6. \A g \in Fd : InBatch(g)' <=> g \in R
    BY <1>4, <1>5 DEF InBatch
  <1>7. \A g \in Fd : /\ Asked(g)' <=> Asked(g)
                      /\ Queued(g)' <=> Queued(g)
                      /\ Held(g)' <=> Held(g)
    BY <1>2 DEF Asked, Queued, Held, pool
  <1>8. ASSUME NEW g \in Fd PROVE Sound(g)' /\ (Owned(g) => Owned(g)')
    <2>1. Apart(g) /\ Single(g) /\ Stage(g)
      BY DEF Core, Sound
    <2>2. Apart(g)'
      BY <1>2, <1>3, <1>4, <1>6, <1>7, <2>1 DEF Apart
    <2>3. Single(g)'
      BY <1>2, <1>4, <2>1 DEF Single, pool
    <2>4. Stage(g)'
      BY <1>2, <1>3, <1>6, <1>7, <2>1 DEF Stage, object, pool, worker
    <2>5. ~InBatch(g)
      BY <1>2 DEF InBatch
    <2> QED BY <1>2, <1>4, <1>6, <1>7, <2>2, <2>3, <2>4, <2>5 DEF Sound, Owned
  <1>9. Distinct'
    BY <1>2 DEF Core, Distinct, pool
  <1> QED BY <1>8, <1>9 DEF Kept, Core, KernelTypes

\* Whoever has one event of f in hand is its only owner.
LEMMA EventAlone ==
  ASSUME Core, TypeInv, NEW f \in Fd, NEW kind \in {"in", "out", "hup"}, Event(f, kind)
  PROVE  /\ f \in open /\ m_sockfd[f] = f
         /\ ~Armed(f) /\ cur # f /\ ~Asked(f) /\ ~Queued(f) /\ ~Held(f)
         /\ \A k : <<f, k>> \notin batch'
         /\ \A g \in Fd \ {f} : \A k : <<g, k>> \in batch' <=> <<g, k>> \in batch
         /\ UNCHANGED worker
         /\ cur = NoFd
  <1>1. Apart(f) /\ Single(f) /\ Stage(f)
    BY DEF Core, Sound
  <1>2. InBatch(f)
    BY DEF Event, InBatch
  <1> QED BY <1>1, <1>2 DEF Apart, Single, Stage, Event, AtLoop, InBatch, Held

\* close_conn of an open connection that nobody else owns.
LEMMA CloseAbout ==
  ASSUME Core, TypeInv, NEW f \in Fd, close_conn(f), f \in open, m_sockfd[f] = f,
         ~Asked(f), ~Queued(f), ~Held(f), cur' # f,
         \A k : <<f, k>> \notin batch',
         \A g \in Fd \ {f} : (cur' = g <=> cur = g) /\ \A k : <<g, k>> \in batch' <=> <<g, k>> \in batch,
         UNCHANGED <<pool, worker>>
  PROVE  About(f)
  <1>1. /\ open' = open \ {f} /\ interest' = [interest EXCEPT ![f] = "none"]
        /\ m_sockfd' = [m_sockfd EXCEPT ![f] = NoFd]
    BY Numbers DEF close_conn, removefd, Closed
  <1>2. /\ ~Armed(f)' /\ ~InBatch(f)' /\ ~Asked(f)' /\ ~Queued(f)' /\ ~Held(f)'
        /\ \A w \in Workers : holding'[w] # f
    BY <1>1 DEF Armed, InBatch, Asked, Queued, Held, pool, TypeInv, KernelTypes
  <1>3. \A g \in Fd \ {f} : Same(g)
    BY <1>1 DEF Same, Armed, Asked, Queued, pool, worker, TypeInv, KernelTypes, ObjectTypes
  <1>4. Sound(f)'
    BY <1>1, <1>2 DEF Sound, Apart, Single, Stage
  <1>5. Distinct'
    BY DEF Core, Distinct, pool
  <1> QED BY <1>1, <1>3, <1>4, <1>5 DEF About

LEMMA HandleKept ==
  ASSUME Core, TypeInv, NEW f \in Fd, Hangup(f) \/ ReadBegins(f) \/ WriteStays(f) \/ WriteEnds(f)
  PROVE  Kept
  <1> USE Numbers
  <1>1. PICK kind \in {"in", "out", "hup"} : Event(f, kind)
    BY DEF Hangup, ReadBegins, WriteStays, WriteEnds
  <1>2. UNCHANGED pool
    BY DEF Hangup, ReadBegins, WriteStays, WriteEnds
  <1>3. /\ f \in open /\ m_sockfd[f] = f
        /\ ~Armed(f) /\ cur # f /\ ~Asked(f) /\ ~Queued(f) /\ ~Held(f)
        /\ \A k : <<f, k>> \notin batch'
        /\ \A g \in Fd \ {f} : \A k : <<g, k>> \in batch' <=> <<g, k>> \in batch
        /\ UNCHANGED worker
        /\ cur = NoFd
    BY <1>1, EventAlone
  <1>4. Distinct'
    BY <1>2 DEF Core, Distinct, pool
  <1>5. CASE close_conn(f) /\ cur' = cur
    BY <1>2, <1>3, <1>5, CloseAbout, AboutKept
  <1>6. CASE cur' = f /\ UNCHANGED <<kernelVars, object>>
    <2>1. \A g \in Fd \ {f} : Same(g)
      BY <1>2, <1>3, <1>6 DEF Same, Armed, Asked, Queued, pool, worker, kernelVars, object
    <2>2. ~Armed(f)' /\ ~InBatch(f)' /\ ~Asked(f)' /\ ~Queued(f)' /\ ~Held(f)'
      BY <1>2, <1>3, <1>6 DEF Armed, InBatch, Asked, Queued, Held, pool, kernelVars
    <2>3. Sound(f)'
      BY <1>2, <1>3, <1>6, <2>2 DEF Sound, Apart, Single, Stage, Held, pool, kernelVars, object
    <2> QED BY <1>4, <1>6, <2>1, <2>3, AboutKept DEF About, Owned
  <1>7. CASE WriteStays(f)
    <2>1. PICK ev \in {"in", "out"} : modfd(f, ev)
      BY <1>7 DEF WriteStays
    <2>2. /\ interest' = [interest EXCEPT ![f] = ev]
          /\ UNCHANGED <<open, m_sockfd, cur>>
      BY <1>3, <1>7, <2>1 DEF WriteStays, modfd, Connected
    <2>3. \A g \in Fd \ {f} : Same(g)
      BY <1>2, <1>3, <2>2 DEF Same, Armed, Asked, Queued, pool, worker, TypeInv, KernelTypes
    <2>4. Armed(f)' /\ ~InBatch(f)' /\ ~Asked(f)' /\ ~Queued(f)' /\ ~Held(f)'
      BY <1>2, <1>3, <2>2 DEF Armed, InBatch, Asked, Queued, Held, pool, TypeInv, KernelTypes
    <2>5. Sound(f)'
      BY <1>2, <1>3, <2>2, <2>4 DEF Sound, Apart, Single, Stage, Held, pool
    <2> QED BY <1>4, <2>3, <2>4, <2>5, AboutKept DEF About, Owned
  <1> QED BY <1>5, <1>6, <1>7 DEF Hangup, ReadBegins, WriteEnds

\* The descriptor that accept returns is nobody's, unless a worker is closing it.
LEMMA AcceptKept == ASSUME Core, TypeInv, Accept \/ AcceptFails PROVE Kept
  <1> USE Numbers
  <1>1. /\ batch' = batch \ {<<listenfd, "in">>}
        /\ UNCHANGED <<cur, pool, worker>>
    BY DEF Accept, AcceptFails, Event
  <1>2. \A g \in Fd : \A k : <<g, k>> \in batch' <=> <<g, k>> \in batch
    BY <1>1
  <1>3. Distinct'
    BY <1>1 DEF Core, Distinct, pool
  <1>4. CASE Accept
    <2>1. PICK f \in Fd \ open :
             /\ IF m_user_count >= MAX_FD THEN Aborted ELSE Opened(f, addfd)
             /\ init(f)
      BY <1>4 DEF Accept
    <2>2. /\ m_sockfd' = [m_sockfd EXCEPT ![f] = f]
          /\ open' = open \/ open' = open \cup {f}
          /\ \A g \in Fd \ {f} : interest'[g] = interest[g]
          /\ f \notin open' => interest'[f] = "none"
      BY <2>1 DEF init, Aborted, Opened, TypeInv, KernelTypes
    <2>3. \A g \in Fd \ {f} : Same(g)
      BY <1>1, <1>2, <2>2 DEF Same, Armed, Asked, Queued, pool, worker, TypeInv, ObjectTypes
    <2>4. CASE crossed'
      <3>1. \A g \in Fd \ {f} : Owned(g)' <=> Owned(g)
        BY <2>3, SameSound
      <3> QED BY <2>1, <2>4, <3>1 DEF Kept, TypeInv, KernelTypes
    <2>5. CASE ~crossed'
      <3>1. ~Held(f)
        BY <2>1, <2>5 DEF init, Held
      <3>2. ~InBatch(f) /\ cur # f /\ ~Asked(f) /\ ~Queued(f)
        BY <2>1 DEF Core, Sound, Stage
      <3>3. ~InBatch(f)' /\ cur' # f /\ ~Asked(f)' /\ ~Queued(f)' /\ ~Held(f)'
        BY <1>1, <1>2, <3>1, <3>2 DEF InBatch, Asked, Queued, Held, pool
      <3>4. m_sockfd'[f] = f
        BY <2>2 DEF TypeInv, ObjectTypes
      <3>5. Sound(f)'
        <4>1. \A k : <<f, k>> \notin batch'
          BY <1>2, <3>2 DEF InBatch, TypeInv, LoopTypes
        <4>2. Apart(f)' /\ Single(f)'
          BY <3>3, <4>1 DEF Apart, Single, Held
        <4>3. Stage(f)'
          BY <3>3, <3>4 DEF Stage, Held
        <4> QED BY <4>2, <4>3 DEF Sound
      <3>6. f \in open' /\ Owned(f) => FALSE
        BY <2>1, <3>1, <3>2 DEF Owned, Armed, TypeInv, KernelTypes
      <3> QED BY <1>3, <2>3, <3>5, <3>6, AboutKept DEF About
    <2> QED BY <2>4, <2>5
  <1>5. CASE AcceptFails
    <2>1. UNCHANGED <<open, interest, m_sockfd, crossed>>
      BY <1>5 DEF AcceptFails, Aborted, kernelVars, object
    <2>2. \A g \in Fd : Same(g)
      BY <1>1, <1>2, <2>1 DEF Same, Armed, Asked, Queued, pool, worker
    <2> QED BY <1>3, <2>2, SameKept
  <1> QED BY <1>4, <1>5

LEMMA ReadKept ==
  ASSUME Core, TypeInv, NEW f \in Fd,
         ReadMore(f) \/ ReadReturnsTrue(f) \/ ReadReturnsFalse(f) \/ ReadFails(f) \/ ReadWild(f)
  PROVE  Kept
  <1> USE Numbers
  <1>0. /\ cur = f
        /\ UNCHANGED <<batch, worker, crossed>>
    BY DEF ReadMore, ReadReturnsTrue, ReadReturnsFalse, ReadFails, ReadWild, Arrived, loop
  <1>1. /\ f \in open /\ m_sockfd[f] = f
        /\ ~Armed(f) /\ ~InBatch(f) /\ ~Asked(f) /\ ~Queued(f) /\ ~Held(f)
    BY <1>0 DEF Core, Sound, Apart, Stage
  <1>2. \A k : <<f, k>> \notin batch
    BY <1>1 DEF InBatch, TypeInv, LoopTypes
  <1>3. CASE ReadMore(f) \/ ReadFails(f)
    BY <1>0, <1>3, QuietKept DEF ReadMore, ReadFails, Taken, loop, count, pool, worker
  <1>4. CASE ReadReturnsTrue(f)
    <2>1. /\ Taken(f) /\ cur' = NoFd /\ UNCHANGED object /\ Pool!Offer("main", f)
      BY <1>4 DEF ReadReturnsTrue, ReadEnds
    <2>2. /\ call["main"] = "none" /\ call'["main"] = "asking" /\ offered'["main"] = f
          /\ UNCHANGED <<queue, holding, open, interest>>
      BY <2>1 DEF Pool!Offer, Taken, TypeInv, PoolTypes
    <2>3. \A g \in Fd \ {f} : Same(g)
      BY <1>0, <2>1, <2>2 DEF Same, Armed, Asked, Queued, worker, object
    <2>4. ~Armed(f)' /\ ~InBatch(f)' /\ cur' # f /\ Asked(f)' /\ ~Queued(f)' /\ ~Held(f)'
      BY <1>0, <1>1, <2>1, <2>2 DEF Armed, InBatch, Asked, Queued, Held
    <2>5. Sound(f)'
      BY <1>0, <1>1, <1>2, <2>1, <2>2, <2>4 DEF Sound, Apart, Single, Stage, Held, object
    <2>6. Distinct'
      BY <2>2 DEF Core, Distinct
    <2> QED BY <2>3, <2>4, <2>5, <2>6, AboutKept DEF About, Owned
  <1>5. CASE ReadReturnsFalse(f)
    <2>1. close_conn(f) /\ cur' = NoFd /\ UNCHANGED pool
      BY <1>5 DEF ReadReturnsFalse, ReadEnds
    <2> QED BY <1>0, <1>1, <1>2, <2>1, CloseAbout, AboutKept
  <1>6. CASE ReadWild(f)
    <2>1. cur' = Wild /\ UNCHANGED <<kernelVars, object, pool>>
      BY <1>6 DEF ReadWild, ReadEnds
    <2>2. \A g \in Fd \ {f} : Same(g)
      BY <1>0, <2>1 DEF Same, Armed, Asked, Queued, worker, object, pool, kernelVars
    <2>3. ~Armed(f)' /\ ~InBatch(f)' /\ cur' # f /\ ~Asked(f)' /\ ~Queued(f)' /\ ~Held(f)'
      BY <1>0, <1>1, <2>1 DEF Armed, InBatch, Asked, Queued, Held, pool, kernelVars
    <2>4. Sound(f)'
      BY <1>0, <1>1, <1>2, <2>1, <2>3 DEF Sound, Apart, Single, Stage, Held, object, kernelVars
    <2>5. Distinct'
      BY <2>1 DEF Core, Distinct, pool
    <2> QED BY <2>1, <2>2, <2>4, <2>5, AboutKept DEF About, Lost
  <1> QED BY <1>3, <1>4, <1>5, <1>6

\* append() hands the object to the queue, or forgets it.
LEMMA AppendKept == ASSUME Core, TypeInv, append PROVE Kept
  <1> USE Numbers
  <1>0. UNCHANGED <<open, interest, m_sockfd, batch, cur, holding, at, crossed>>
    BY DEF append, kernelVars, object, loop, worker, Pool!Accept, Pool!Refuse, Pool!Answer
  <1>1. CASE Pool!Answer("main")
    <2>1. /\ ~(call["main"] = "asking") /\ call'["main"] = "none" /\ UNCHANGED queue
      BY <1>1 DEF Pool!Answer, TypeInv, PoolTypes
    <2>2. \A g \in Fd : Same(g)
      BY <1>0, <2>1 DEF Same, Armed, Asked, Queued
    <2>3. Distinct'
      BY <2>1 DEF Core, Distinct
    <2> QED BY <2>2, <2>3, SameKept
  <1>2. CASE Pool!Accept("main") \/ Pool!Refuse("main")
    <2>1. PICK f \in Fd : f = offered["main"]
      BY <1>2 DEF Pool!Accept, Pool!Refuse, TypeInv, PoolTypes
    <2>2. /\ Asked(f) /\ \A g \in Fd \ {f} : ~Asked(g)
          /\ call'["main"] \in {"accepted", "refused"}
      BY <1>2, <2>1 DEF Asked, Pool!Accept, Pool!Refuse, TypeInv, PoolTypes
    <2>3. f \in open /\ ~Armed(f) /\ ~InBatch(f) /\ cur # f /\ ~Queued(f) /\ ~Held(f)
      BY <2>2 DEF Core, Sound, Apart, Stage
    <2>4. /\ ~Armed(f)' /\ ~InBatch(f)' /\ cur' # f /\ ~Held(f)'
          /\ \A g \in Fd : ~Asked(g)'
      BY <1>0, <2>2, <2>3 DEF Armed, InBatch, Held, Asked
    <2>5. Sound(f)'
      BY <1>0, <2>3, <2>4 DEF Core, Sound, Apart, Single, Stage
    <2>6. CASE Pool!Accept("main")
      <3>1. queue' = Append(queue, f) /\ queue \in Seq(Fd)
        BY <2>1, <2>6 DEF Pool!Accept, TypeInv, PoolTypes
      <3>2. \A i \in DOMAIN queue : queue[i] # f
        BY <2>3 DEF Queued
      <3>3. Distinct'
        BY <3>1, <3>2 DEF Core, Distinct
      <3>4. Queued(f)' /\ \A g \in Fd \ {f} : Queued(g)' <=> Queued(g)
        BY <3>1 DEF Queued
      <3>5. \A g \in Fd \ {f} : Same(g)
        BY <1>0, <2>2, <2>4, <3>4 DEF Same, Armed
      <3> QED BY <2>5, <3>3, <3>4, <3>5, AboutKept DEF About, Owned
    <2>7. CASE Pool!Refuse("main")
      <3>1. UNCHANGED queue /\ Lost
        BY <2>7 DEF Pool!Refuse, Lost, TypeInv, PoolTypes
      <3>2. \A g \in Fd \ {f} : Same(g)
        BY <1>0, <2>2, <2>4, <3>1 DEF Same, Armed, Queued
      <3>3. Distinct'
        BY <3>1 DEF Core, Distinct
      <3> QED BY <2>5, <3>1, <3>2, <3>3, AboutKept DEF About
    <2> QED BY <1>2, <2>6, <2>7
  <1> QED BY <1>1, <1>2 DEF append

\* The oldest request goes from the queue to worker w.
LEMMA TakeKept == ASSUME Core, TypeInv, NEW w \in Workers, Take(w) PROVE Kept
  <1> USE Numbers
  <1>1. /\ holding[w] = NoFd /\ queue # <<>> /\ queue \in Seq(Fd)
        /\ holding' = [holding EXCEPT ![w] = Head(queue)] /\ queue' = Tail(queue)
        /\ at' = [at EXCEPT ![w] = "parse"]
        /\ UNCHANGED <<open, interest, m_sockfd, batch, cur, call, offered, crossed>>
    BY DEF Take, Goes, Pool!Take, kernelVars, object, loop, TypeInv, PoolTypes
  <1>2. PICK f \in Fd : f = Head(queue)
    BY <1>1
  <1>3. \A i \in DOMAIN Tail(queue) : i + 1 \in DOMAIN queue /\ Tail(queue)[i] = queue[i + 1]
    BY <1>1
  <1>4. f = queue[1] /\ 1 \in DOMAIN queue
    BY <1>1, <1>2
  <1>5. Distinct'
    BY <1>1, <1>3 DEF Core, Distinct
  <1>6. /\ Queued(f) /\ ~Queued(f)'
        /\ \A g \in Fd \ {f} : Queued(g)' <=> Queued(g)
    <2>1. Queued(f)
      BY <1>4 DEF Queued
    <2>2. ~Queued(f)'
      BY <1>1, <1>3, <1>4 DEF Queued, Core, Distinct
    <2>3. ASSUME NEW g \in Fd \ {f}, NEW i \in DOMAIN queue, queue[i] = g PROVE Queued(g)'
      <3>1. i # 1 /\ i - 1 \in DOMAIN Tail(queue) /\ Tail(queue)[i - 1] = g
        BY <1>1, <1>4, <2>3
      <3> QED BY <1>1, <3>1 DEF Queued
    <2>4. \A g \in Fd : Queued(g)' => Queued(g)
      BY <1>1, <1>3 DEF Queued
    <2> QED BY <2>1, <2>2, <2>3, <2>4 DEF Queued
  <1>7. /\ f \in open /\ m_sockfd[f] = f
        /\ ~Armed(f) /\ ~InBatch(f) /\ cur # f /\ ~Asked(f) /\ ~Held(f)
    BY <1>6 DEF Core, Sound, Apart, Stage
  <1>8. \A v \in Workers : holding'[v] = f <=> v = w
    BY <1>1, <1>2, <1>7 DEF Held, TypeInv, PoolTypes
  <1>9. \A g \in Fd \ {f} : Same(g)
    BY <1>1, <1>2, <1>6 DEF Same, Armed, Asked, TypeInv, PoolTypes, WorkerTypes
  <1>10. ~Armed(f)' /\ ~InBatch(f)' /\ cur' # f /\ ~Asked(f)' /\ Held(f)'
    BY <1>1, <1>7, <1>8 DEF Armed, InBatch, Asked, Held
  <1>11. Sound(f)'
    <2>1. Apart(f)'
      BY <1>6, <1>10 DEF Apart
    <2>2. \A k : <<f, k>> \notin batch
      BY <1>7 DEF InBatch, TypeInv, LoopTypes
    <2>3. Single(f)'
      BY <1>1, <1>8, <2>2 DEF Single
    <2>4. Stage(f)'
      BY <1>1, <1>6, <1>7, <1>8, <1>10 DEF Stage, TypeInv, WorkerTypes
    <2> QED BY <2>1, <2>3, <2>4 DEF Sound
  <1> QED BY <1>5, <1>9, <1>10, <1>11, AboutKept DEF About, Owned

\* A step of process() that leaves the descriptor as it is.
LEMMA GoesKept ==
  ASSUME Core, TypeInv, NEW w \in Workers, NEW f \in Fd, NEW from, NEW to, Goes(w, f, from, to),
         UNCHANGED <<open, interest, queue, holding, call, offered>>,
         m_sockfd' = m_sockfd \/ (f \notin open /\ m_sockfd' = [m_sockfd EXCEPT ![f] = NoFd]),
         to \in IF f \in open THEN {"parse", "forever", "in", "out", "close"}
               ELSE {"closed", "counting", "out"}
  PROVE  Kept
  <1> USE Numbers
  <1>1. /\ holding[w] = f /\ at' = [at EXCEPT ![w] = to]
        /\ UNCHANGED <<batch, cur, crossed>>
    BY DEF Goes, loop
  <1>2. \A g \in Fd \ {f} : Same(g)
    BY <1>1 DEF Same, Armed, Asked, Queued, TypeInv, WorkerTypes, ObjectTypes
  <1>3. /\ Armed(f)' <=> Armed(f)
        /\ InBatch(f)' <=> InBatch(f)
        /\ Asked(f)' <=> Asked(f)
        /\ Queued(f)' <=> Queued(f)
        /\ Held(f)' <=> Held(f)
    BY <1>1 DEF Armed, InBatch, Asked, Queued, Held
  <1>4. Apart(f) /\ Single(f) /\ Stage(f)
    BY DEF Core, Sound
  <1>5. Apart(f)' /\ Single(f)'
    BY <1>1, <1>3, <1>4 DEF Apart, Single
  <1>6. Stage(f)'
    BY <1>1, <1>3, <1>4 DEF Stage, TypeInv, WorkerTypes, ObjectTypes
  <1>7. Distinct'
    BY DEF Core, Distinct
  <1> QED BY <1>1, <1>2, <1>3, <1>5, <1>6, <1>7, AboutKept DEF About, Sound, Owned

\* What a worker that has f knows of it.
LEMMA HolderAlone ==
  ASSUME Core, TypeInv, NEW w \in Workers, NEW f \in Fd, holding[w] = f
  PROVE  /\ f \in open => m_sockfd[f] = f /\ at[w] \in {"parse", "forever", "in", "out", "close"}
         /\ f \notin open => at[w] \in {"closed", "counting", "out"}
         /\ ~Armed(f) /\ ~InBatch(f) /\ cur # f /\ ~Asked(f) /\ ~Queued(f)
         /\ \A v \in Workers : holding[v] = f => v = w
         /\ \A k : <<f, k>> \notin batch
  <1>1. Held(f)
    BY DEF Held
  <1>2. Apart(f) /\ Single(f) /\ Stage(f)
    BY DEF Core, Sound
  <1> QED BY <1>1, <1>2 DEF Apart, Single, Stage, InBatch, TypeInv, LoopTypes

LEMMA ProcessKept ==
  ASSUME Core, TypeInv, NEW w \in Workers, Process(w)
  PROVE  Kept
  <1> USE Numbers
  <1>1. ASSUME NEW f \in Fd, Incomplete(w, f) \/ ParsesForEver(w, f) \/ Answers(w, f) \/ NoAnswer(w, f)
        PROVE  Kept
    <2>1. PICK to \in {"in", "forever", "out", "close"} : Goes(w, f, "parse", to)
      BY <1>1 DEF Incomplete, ParsesForEver, Answers, NoAnswer
    <2>2. UNCHANGED <<open, interest, m_sockfd, queue, holding, call, offered>>
      BY <1>1 DEF Incomplete, ParsesForEver, Answers, NoAnswer, kernelVars, object, pool
    <2>3. f \in open
      BY <2>1, HolderAlone DEF Goes
    <2> QED BY <2>1, <2>2, <2>3, GoesKept
  <1>2. ASSUME NEW f \in Fd, Forgets(w, f) \/ Counts(w, f) PROVE Kept
    <2>1. PICK from \in {"closed", "counting"}, to \in {"counting", "out"} : Goes(w, f, from, to)
      BY <1>2 DEF Forgets, Counts
    <2>2. f \notin open
      BY <2>1, HolderAlone DEF Goes
    <2>3. /\ UNCHANGED <<open, interest, queue, holding, call, offered>>
          /\ m_sockfd' = m_sockfd \/ m_sockfd' = [m_sockfd EXCEPT ![f] = NoFd]
      BY <1>2 DEF Forgets, Counts, kernelVars, pool
    <2> QED BY <2>1, <2>2, <2>3, GoesKept
  <1>3. ASSUME NEW f \in Fd, Closes(w, f) PROVE Kept
    <2>1. /\ holding[w] = f /\ at[w] = "close" /\ at' = [at EXCEPT ![w] = "closed"]
          /\ UNCHANGED <<batch, cur, crossed, object, pool>>
      BY <1>3 DEF Closes, Goes, loop
    <2>2. /\ f \in open /\ m_sockfd[f] = f
          /\ ~Armed(f) /\ ~InBatch(f) /\ cur # f /\ ~Asked(f) /\ ~Queued(f)
          /\ \A v \in Workers : holding[v] = f => v = w
          /\ \A k : <<f, k>> \notin batch
      BY <2>1, HolderAlone
    <2>3. open' = open \ {f} /\ interest' = [interest EXCEPT ![f] = "none"]
      BY <1>3, <2>2 DEF Closes, removefd, Closed
    <2>4. \A g \in Fd \ {f} : Same(g)
      BY <2>1, <2>3 DEF Same, Armed, Asked, Queued, object, pool, TypeInv, KernelTypes, WorkerTypes
    <2>5. ~Armed(f)' /\ ~InBatch(f)' /\ cur' # f /\ ~Asked(f)' /\ ~Queued(f)'
      BY <2>1, <2>2, <2>3 DEF Armed, InBatch, Asked, Queued, pool, TypeInv, KernelTypes
    <2>6. Apart(f)' /\ Single(f)'
      BY <2>1, <2>2, <2>5 DEF Apart, Single, pool
    <2>7. Stage(f)'
      BY <2>1, <2>2, <2>3, <2>5 DEF Stage, pool, TypeInv, WorkerTypes
    <2>8. Distinct'
      BY <2>1 DEF Core, Distinct, pool
    <2> QED BY <2>3, <2>4, <2>6, <2>7, <2>8, AboutKept DEF About, Sound
  <1>4. ASSUME NEW f \in Fd, Rearms(w, f) PROVE Kept
    <2>1. PICK ev \in {"in", "out"} : Goes(w, f, ev, "idle") /\ modfd(f, ev)
      BY <1>4 DEF Rearms
    <2>2. /\ holding[w] = f /\ at' = [at EXCEPT ![w] = "idle"]
          /\ holding' = [holding EXCEPT ![w] = NoFd]
          /\ UNCHANGED <<open, m_sockfd, batch, cur, crossed, queue, call, offered>>
      BY <1>4, <2>1 DEF Rearms, Goes, loop, object, Pool!Finish, modfd
    <2>3. /\ f \in open => m_sockfd[f] = f
          /\ ~Armed(f) /\ ~InBatch(f) /\ cur # f /\ ~Asked(f) /\ ~Queued(f)
          /\ \A v \in Workers : holding[v] = f => v = w
          /\ \A k : <<f, k>> \notin batch
      BY <2>2, HolderAlone
    <2>4. interest' = IF f \in open THEN [interest EXCEPT ![f] = ev] ELSE interest
      BY <2>1, <2>3 DEF modfd, Connected
    <2>5. \A g \in Fd \ {f} : Same(g)
      BY <2>2, <2>4 DEF Same, Armed, Asked, Queued, TypeInv, KernelTypes, WorkerTypes, PoolTypes
    <2>6. /\ Armed(f)' <=> f \in open
          /\ ~InBatch(f)' /\ cur' # f /\ ~Asked(f)' /\ ~Queued(f)'
          /\ \A v \in Workers : holding'[v] # f
      BY <2>2, <2>3, <2>4 DEF Armed, InBatch, Asked, Queued, TypeInv, KernelTypes, PoolTypes
    <2>7. Apart(f)' /\ Single(f)'
      BY <2>2, <2>3, <2>6 DEF Apart, Single, Held
    <2>8. Stage(f)'
      BY <2>2, <2>3, <2>6 DEF Stage
    <2>9. Distinct'
      BY <2>2 DEF Core, Distinct
    <2> QED BY <2>2, <2>5, <2>6, <2>7, <2>8, <2>9, AboutKept DEF About, Sound, Owned
  <1> QED BY <1>1, <1>2, <1>3, <1>4 DEF Process

\* Whoever main leaves behind keeps what it owns: main itself had nothing.
LEMMA LeaveKept == ASSUME Core, TypeInv, EpollFails PROVE Kept
  <1> USE Numbers
  <1>1. /\ cur = NoFd /\ cur' = Wild
        /\ UNCHANGED <<kernelVars, object, batch, pool, worker, crossed>>
    BY DEF EpollFails, AtLoop
  <1>2. \A g \in Fd : Same(g)
    BY <1>1 DEF Same, Armed, Asked, Queued, kernelVars, object, pool, worker
  <1>3. Distinct'
    BY <1>1 DEF Core, Distinct, pool
  <1> QED BY <1>2, <1>3, SameKept

LEMMA StepKept == ASSUME Core, TypeInv, [Next]_vars PROVE Kept
  <1>1. CASE UNCHANGED vars
    BY <1>1, QuietKept DEF vars, kernelVars, object, loop, pool, worker
  <1>2. CASE Main \/ EpollFails
    <2>1. CASE MainStores
      BY <2>1, QuietKept DEF MainStores, kernelVars, loop, pool, worker
    <2> QED BY <1>2, <2>1, WaitKept, AcceptKept, AppendKept, HandleKept, ReadKept, LeaveKept DEF Main
  <1>3. CASE \E w \in Workers : Take(w) \/ Process(w)
    BY <1>3, TakeKept, ProcessKept
  <1>4. CASE Clients
    <2>1. UNCHANGED <<open, interest>>
      BY <1>4, KernelClients DEF Clients, TypeInv
    <2> QED BY <1>4, <2>1, QuietKept DEF Clients, object, loop, pool, worker
  <1> QED BY <1>1, <1>2, <1>3, <1>4 DEF Next

\* crossed is never taken back.
LEMMA CrossedStays == TypeInv /\ [Next]_vars => (crossed => crossed')
  <1> SUFFICES ASSUME TypeInv, [Next]_vars, crossed PROVE crossed'
    OBVIOUS
  <1>1. UNCHANGED crossed \/ \E f \in Fd : init(f)
    BY DEF Next, Main, Process, Clients, MainStores, EpollFails, vars, loop, epoll_wait, Accept, AcceptFails, append, Hangup,
           ReadBegins, ReadMore, ReadReturnsTrue, ReadReturnsFalse, ReadFails, ReadWild, WriteStays,
           WriteEnds, Take, Incomplete, ParsesForEver, Answers, NoAnswer, Closes, Forgets, Counts,
           Rearms, Goes
  <1> QED BY <1>1 DEF init, TypeInv, LoopTypes

LEMMA StepInv == Inv /\ [Next]_vars => Inv'
  BY StepTypes, StepKept, CrossedStays DEF Inv, Kept

LEMMA AlwaysInv == Spec => []Inv
  <1>1. Init => Inv
    BY InitTypes, InitCore DEF Inv
  <1> QED BY <1>1, StepInv, PTL DEF Spec

\* The members of Owners(f), one kind of owner at a time.
LEMMA OwnersMeans ==
  ASSUME TypeInv, NEW f \in Fd, NEW p \in Owners(f)
  PROVE  \/ Armed(f) /\ p = <<"epoll", interest[f]>>
         \/ \E k \in {"in", "out", "hup"} : <<f, k>> \in batch /\ p = <<"event", k>>
         \/ cur = f /\ p = <<"main", f>>
         \/ Asked(f) /\ p = <<"append", f>>
         \/ \E i \in DOMAIN queue : queue[i] = f /\ p = <<"queue", i>>
         \/ \E w \in Workers : holding[w] = f /\ p = <<"worker", w>>
  BY DEF Owners, Armed, Asked

LEMMA OwnersEmpty == ASSUME TypeInv, NEW f \in Fd PROVE Owned(f) <=> Owners(f) # {}
  <1>1. Owners(f) # {} => Owned(f)
    BY OwnersMeans DEF Owned, InBatch, Queued, Held
  <1>2. Armed(f) => <<"epoll", interest[f]>> \in Owners(f)
    BY DEF Armed, Owners
  <1>3. \A k \in {"in", "out", "hup"} : <<f, k>> \in batch => <<"event", k>> \in Owners(f)
    BY DEF Owners
  <1>4. cur = f => <<"main", f>> \in Owners(f)
    BY DEF Owners
  <1>5. Asked(f) => <<"append", f>> \in Owners(f)
    BY DEF Asked, Owners
  <1>6. \A i \in DOMAIN queue : queue[i] = f => <<"queue", i>> \in Owners(f)
    BY DEF Owners
  <1>7. \A w \in Workers : holding[w] = f => <<"worker", w>> \in Owners(f)
    BY DEF Owners
  <1> QED BY <1>1, <1>2, <1>3, <1>4, <1>5, <1>6, <1>7 DEF Owned, InBatch, Queued, Held

LEMMA CoreOneOwner == TypeInv /\ Core => \A f \in Fd : \A p, q \in Owners(f) : p = q
  <1> SUFFICES ASSUME TypeInv, Core, NEW f \in Fd, NEW p \in Owners(f), NEW q \in Owners(f)
               PROVE  p = q
    OBVIOUS
  <1>0. Apart(f) /\ Single(f) /\ Distinct
    BY DEF Core, Sound
  <1>1. CASE Armed(f)
    BY <1>0, <1>1, OwnersMeans DEF Apart, InBatch, Queued, Held
  <1>2. CASE InBatch(f)
    BY <1>0, <1>2, OwnersMeans DEF Apart, InBatch, Queued, Held, Single
  <1>3. CASE cur = f
    BY <1>0, <1>3, OwnersMeans DEF Apart, InBatch, Queued, Held
  <1>4. CASE Asked(f)
    BY <1>0, <1>4, OwnersMeans DEF Apart, InBatch, Queued, Held
  <1>5. CASE Queued(f)
    BY <1>0, <1>5, OwnersMeans DEF Apart, InBatch, Queued, Held, Distinct
  <1>6. CASE Held(f)
    BY <1>0, <1>6, OwnersMeans DEF Apart, InBatch, Queued, Held, Single
  <1> QED BY <1>1, <1>2, <1>3, <1>4, <1>5, <1>6, OwnersEmpty DEF Owned

\* A connection's object belongs to one of epoll, main, the pool and the workers
\* at every moment, as long as accept returned no descriptor that a worker was
\* still closing, for any number of connections, workers and requests.
THEOREM OneOwnerEach == Spec => []OneOwner
  <1>1. Inv => OneOwner
    BY CoreOneOwner DEF Inv, OneOwner
  <1> QED BY <1>1, AlwaysInv, PTL

\* Under the same condition each open connection has its own object, and only a
\* worker on its way out of close_conn has the object of a closed one.
THEOREM ObjectsAreCurrent == Spec => []ObjectIsCurrent
  <1>1. ASSUME TypeInv, Core, NEW f \in Fd
        PROVE  /\ f \in open => m_sockfd[f] = f
               /\ f \notin open =>
                      \A p \in Owners(f) :
                          /\ p[1] = "worker"
                          /\ at[p[2]] \in {"closed", "counting", "out"}
    <2>1. Stage(f)
      BY <1>1 DEF Core, Sound
    <2>2. ASSUME f \notin open, NEW p \in Owners(f)
          PROVE  p[1] = "worker" /\ at[p[2]] \in {"closed", "counting", "out"}
      <3>1. ~Armed(f) /\ ~InBatch(f) /\ cur # f /\ ~Asked(f) /\ ~Queued(f)
        BY <1>1, <2>1, <2>2 DEF Stage, Armed, TypeInv, KernelTypes
      <3>2. PICK w \in Workers : holding[w] = f /\ p = <<"worker", w>>
        BY <1>1, <2>2, <3>1, OwnersMeans DEF InBatch, Queued
      <3> QED BY <2>1, <2>2, <3>2 DEF Stage
    <2> QED BY <2>1, <2>2 DEF Stage
  <1>2. Inv => ObjectIsCurrent
    BY <1>1 DEF Inv, ObjectIsCurrent
  <1> QED BY <1>2, AlwaysInv, PTL

\* Whoever has an open connection passes it on: only a refused append() and the
\* write before the buffer leave one to nobody.
THEOREM ForgetsNone == Spec => ForgetsOnlyWhenFull
  <1> DEFINE A == \A f \in open \cap open' :
                    (Owners(f) # {} /\ Owners(f)' = {})
                        => crossed \/ cur' = Wild \/ (call'["main"] = "refused" /\ Len(queue) >= Capacity)
         E == \A f \in Fd : Owned(f) <=> Owners(f) # {}
  <1>1. Inv => E
    BY OwnersEmpty DEF Inv
  <1>2. Inv /\ E /\ E' /\ [Next]_vars => A
    <2> SUFFICES ASSUME Inv, E, E', [Next]_vars, ~crossed PROVE A
      OBVIOUS
    <2>1. Kept
      BY StepKept DEF Inv
    <2> QED BY <2>1 DEF Kept, Lost, Inv, TypeInv, KernelTypes
  <1>3. Inv /\ E /\ E' /\ [Next]_vars => [A]_vars
    BY <1>2
  <1> HIDE DEF E
  <1> QED BY <1>1, <1>3, AlwaysInv, PTL DEF Spec, ForgetsOnlyWhenFull
=============================================================================
