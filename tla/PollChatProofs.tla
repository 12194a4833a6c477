------------------------------ MODULE PollChatProofs ------------------------------
(***************************************************************************)
(* Proofs about PollChat: the array of connections survives the removals   *)
(* in the middle of a round, and the round reaches whom poll reported.     *)
(***************************************************************************)
EXTENDS PollChat, FiniteSetTheorems, TLAPS

EntryType == [fd : Fd \cup {listenfd}, events : SUBSET Events, revents : SUBSET Events]

\* No descriptor has two entries.
OneEach ==
    \A k, l \in 0 .. user_counter : pollfds[k].fd = pollfds[l].fd => k = l

\* A hang-up was reported for a client that did end.
SeenEnd ==
    \A k \in 1 .. user_counter :
        "POLLRDHUP" \in pollfds[k].revents => status[pollfds[k].fd] # "up"

\* The listening socket was reported for a connection that still waits.
SeenWaiting == "POLLIN" \in pollfds[0].revents => backlog > 0

\* The array, as far as it concerns the removal of entries.
ArrayInv ==
    /\ user_counter \in Nat
    /\ pollfds \in [0 .. user_counter -> EntryType]
    /\ OneEach
    /\ PollfdsAreTheConnections

Inv == TypeOK /\ ArrayInv /\ NobodySkipped /\ SeenEnd /\ SeenWaiting

LEMMA Counter ==
    ASSUME NEW n \in Nat, NEW D, D = 0 .. n
    PROVE  Cardinality(D) - 1 = n
BY FS_Interval

LEMMA OpenFinite == TypeOK => IsFiniteSet(open)
  <1>1. IsFiniteSet(Fd)
    BY FS_Interval, PollChatAssumption DEF Fd
  <1> QED
    BY <1>1, FS_Subset DEF TypeOK

LEMMA InitInv == Init => Inv
  <1> SUFFICES ASSUME Init PROVE Inv
    OBVIOUS
  <1> USE PollChatAssumption
  <1>1. DOMAIN pollfds = 0 .. 0
    BY DEF Init
  <1>2. user_counter = 0
    BY <1>1, Counter DEF user_counter
  <1>3. pollfds[0] = Entry(listenfd, {"POLLIN"}) /\ pollfds \in [0 .. 0 -> EntryType]
    BY DEF Init, Entry, EntryType, Events
  <1>4. Cardinality(open) = 0
    BY FS_EmptySet DEF Init
  <1>5. TypeOK
    BY <1>2, <1>3 DEF Init, TypeOK, EntryType, Status, Fd, listenfd
  <1>6. ArrayInv
    BY <1>2, <1>3, <1>4 DEF Init, ArrayInv, OneEach, PollfdsAreTheConnections, Entry
  <1>7. NobodySkipped /\ SeenEnd /\ SeenWaiting
    BY <1>2, <1>3 DEF Init, NobodySkipped, SeenEnd, SeenWaiting, Entry
  <1> QED
    BY <1>5, <1>6, <1>7 DEF Inv

-----------------------------------------------------------------------------
(* Steps that leave the array's descriptors alone *)

\* The array depends on the descriptors in pollfds and on open only.
LEMMA SameArray ==
    ASSUME ArrayInv, open' = open,
           pollfds' \in [0 .. user_counter -> EntryType],
           \A k \in 0 .. user_counter : pollfds'[k].fd = pollfds[k].fd
    PROVE  ArrayInv' /\ user_counter' = user_counter
  <1>1. user_counter' = user_counter
    <2>1. DOMAIN pollfds' = 0 .. user_counter
      OBVIOUS
    <2> QED
      BY <2>1, Counter DEF user_counter, ArrayInv
  <1>2. OneEach'
    BY <1>1 DEF OneEach, ArrayInv
  <1>3. PollfdsAreTheConnections'
    BY <1>1 DEF PollfdsAreTheConnections, ArrayInv
  <1> QED
    BY <1>1, <1>2, <1>3 DEF ArrayInv

\* A round that clears the entry at i and goes on to the next.
LEMMA Advance ==
    ASSUME Inv, Looking(Fd \cup {listenfd}), i' = i + 1, open' = open,
           pollfds' \in [0 .. user_counter -> EntryType],
           \A k \in 0 .. user_counter : pollfds'[k].fd = pollfds[k].fd,
           \A k \in 0 .. user_counter : k # i => pollfds'[k] = pollfds[k],
           pollfds'[i].revents = {},
           \A f \in Fd : status[f] # "up" => status'[f] # "up",
           backlog' = backlog \/ pollfds[i].fd = listenfd
    PROVE  /\ ArrayInv' /\ NobodySkipped' /\ SeenEnd' /\ SeenWaiting'
           /\ i' \in 0 .. USER_LIMIT + 1
           /\ due' \subseteq open \cup {listenfd}
           /\ pollfds' \in [0 .. user_counter' -> EntryType]
  <1>1. ArrayInv' /\ user_counter' = user_counter
    BY SameArray DEF Inv
  <1>2. i \in 0 .. user_counter /\ user_counter \in Nat /\ user_counter <= USER_LIMIT
    BY DEF Inv, TypeOK, ArrayInv, Looking, PollfdsAreTheConnections
  <1>3. NobodySkipped'
    <2>1. due = {pollfds[k].fd : k \in {k \in i .. user_counter : pollfds[k].revents # {}}}
      BY DEF Inv, NobodySkipped, Looking
    <2>2. \A k \in i + 1 .. user_counter : pollfds[k].fd # pollfds[i].fd
      BY <1>2 DEF Inv, ArrayInv, OneEach
    <2>3. due' = due \ {pollfds[i].fd} /\ pc' = pc /\ pc = "scan"
      BY DEF Looking
    <2>4. due' = {pollfds'[k].fd : k \in {k \in i + 1 .. user_counter : pollfds'[k].revents # {}}}
      <3>1. ASSUME NEW f \in due'
            PROVE  \E k \in i + 1 .. user_counter : pollfds'[k].revents # {} /\ f = pollfds'[k].fd
        <4>1. PICK k \in i .. user_counter : pollfds[k].revents # {} /\ f = pollfds[k].fd
          BY <2>1, <2>3, <3>1
        <4>2. k # i
          BY <4>1, <2>3, <3>1
        <4> QED
          BY <4>1, <4>2, <1>2
      <3>2. ASSUME NEW k \in i + 1 .. user_counter, pollfds'[k].revents # {}
            PROVE  pollfds'[k].fd \in due'
        <4>1. k \in i .. user_counter /\ pollfds'[k] = pollfds[k]
          BY <3>2, <1>2
        <4> QED
          BY <4>1, <3>2, <2>1, <2>2, <2>3
      <3> QED
        BY <3>1, <3>2
    <2> QED
      BY <1>1, <2>3, <2>4 DEF NobodySkipped
  <1>4. SeenEnd'
    <2> SUFFICES ASSUME NEW k \in 1 .. user_counter, "POLLRDHUP" \in pollfds'[k].revents
                 PROVE  status'[pollfds'[k].fd] # "up"
      BY <1>1 DEF SeenEnd
    <2>1. k # i /\ pollfds'[k] = pollfds[k]
      BY <1>2
    <2>2. pollfds[k].fd \in Fd
      BY <1>2 DEF Inv, TypeOK, ArrayInv, PollfdsAreTheConnections
    <2> QED
      BY <2>1, <2>2 DEF Inv, SeenEnd
  <1>5. i' \in 0 .. USER_LIMIT + 1
    BY <1>2, PollChatAssumption
  <1>6. due' \subseteq open \cup {listenfd}
    BY DEF Inv, TypeOK, Looking
  <1>7. SeenWaiting'
    <2>1. pollfds[i].fd = listenfd => i = 0
      BY <1>2 DEF Inv, ArrayInv, OneEach, PollfdsAreTheConnections
    <2> QED
      BY <2>1, <1>2 DEF Inv, SeenWaiting
  <1> QED
    BY <1>1, <1>3, <1>4, <1>5, <1>6, <1>7

\* Entries that only have bits changed keep their type and descriptor.
LEMMA Handled ==
    ASSUME Inv, Looking(Fd \cup {listenfd})
    PROVE  /\ handled \in [0 .. user_counter -> EntryType]
           /\ \A k \in 0 .. user_counter : handled[k].fd = pollfds[k].fd
           /\ \A k \in 0 .. user_counter : k # i => handled[k] = pollfds[k]
           /\ handled[i].revents = {}
           /\ i \in 0 .. user_counter
  <1>1. i \in 0 .. user_counter /\ pollfds \in [0 .. user_counter -> EntryType]
    BY DEF Inv, TypeOK, ArrayInv, Looking
  <1> QED
    BY <1>1 DEF handled, EntryType

LEMMA Reevented ==
    ASSUME Inv, Looking(Fd \cup {listenfd}), NEW E \in SUBSET Events,
           pollfds' = [handled EXCEPT ![i].events = E]
    PROVE  /\ pollfds' \in [0 .. user_counter -> EntryType]
           /\ \A k \in 0 .. user_counter : pollfds'[k].fd = pollfds[k].fd
           /\ \A k \in 0 .. user_counter : k # i => pollfds'[k] = pollfds[k]
           /\ pollfds'[i].revents = {}
BY Handled DEF EntryType

\* The kernel's variables of a step that opens and closes nothing.
RestTypes ==
    /\ write_buf \in [Fd -> Fd \cup {NULL}]
    /\ told \subseteq open
    /\ unread \in [Fd -> 0 .. MaxData]
    /\ status \in [Fd -> Status]
    /\ backlog \in 0 .. MaxBacklog

LEMMA AdvanceInv ==
    ASSUME Inv, Looking(Fd \cup {listenfd}), i' = i + 1, open' = open,
           pollfds' \in [0 .. user_counter -> EntryType],
           \A k \in 0 .. user_counter : pollfds'[k].fd = pollfds[k].fd,
           \A k \in 0 .. user_counter : k # i => pollfds'[k] = pollfds[k],
           pollfds'[i].revents = {},
           \A f \in Fd : status[f] # "up" => status'[f] # "up",
           backlog' = backlog \/ pollfds[i].fd = listenfd,
           RestTypes'
    PROVE  Inv'
  <1>1. /\ ArrayInv' /\ NobodySkipped' /\ SeenEnd' /\ SeenWaiting'
        /\ i' \in 0 .. USER_LIMIT + 1
        /\ due' \subseteq open \cup {listenfd}
        /\ pollfds' \in [0 .. user_counter' -> EntryType]
    BY Advance
  <1>2. TypeOK'
    BY <1>1 DEF TypeOK, RestTypes, EntryType, Looking, Inv
  <1> QED
    BY <1>1, <1>2 DEF Inv

\* What is at i when a connection is looked at.
LEMMA Here ==
    ASSUME Inv, Looking(Fd)
    PROVE  /\ i \in 1 .. user_counter
           /\ pollfds[i] \in EntryType
           /\ pollfds[i].fd \in open
           /\ Looking(Fd \cup {listenfd})
  <1>1. i \in 0 .. user_counter /\ pollfds[i].fd \in Fd
    BY DEF Inv, TypeOK, ArrayInv, Looking
  <1>2. i # 0
    BY <1>1 DEF Inv, ArrayInv, PollfdsAreTheConnections, Fd, listenfd
  <1> QED
    BY <1>1, <1>2 DEF Inv, ArrayInv, PollfdsAreTheConnections, Looking

LEMMA BacklogTaken ==
    ASSUME Inv, Looking(Fd \cup {listenfd}), pollfds[i].fd = listenfd,
           "POLLIN" \in pollfds[i].revents
    PROVE  i = 0 /\ backlog - 1 \in 0 .. MaxBacklog
  <1>1. i = 0
    BY DEF Inv, TypeOK, ArrayInv, OneEach, PollfdsAreTheConnections, Looking
  <1> QED
    BY <1>1, PollChatAssumption DEF Inv, TypeOK, SeenWaiting

LEMMA LessOne ==
    ASSUME NEW n \in 0 .. MaxData
    PROVE  Max({n - 1, 0}) \in 0 .. MaxData
  <1> USE PollChatAssumption
  <1>1. \E x \in {n - 1, 0} : \A y \in {n - 1, 0} : x >= y
    BY n - 1 >= 0 \/ 0 >= n - 1
  <1>2. Max({n - 1, 0}) \in {n - 1, 0} /\ Max({n - 1, 0}) >= 0
    BY <1>1 DEF Max
  <1> QED
    BY <1>2

LEMMA RoundInv ==
    ASSUME Inv, AcceptFails \/ Refuse \/ (\E f \in Fd : Error(f)) \/ ErrorStays \/ Receive
                \/ NothingToWrite \/ WriteOut \/ NoEvent
    PROVE  Inv'
  <1>0. RestTypes
    BY DEF Inv, TypeOK, RestTypes
  <1>1. ASSUME AcceptFails \/ Refuse PROVE Inv'
    <2>1. Looking(Fd \cup {listenfd}) /\ pollfds[i].fd = listenfd
      BY <1>1 DEF AcceptFails, Refuse, Incoming, Looking
    <2>2. "POLLIN" \in pollfds[i].revents /\ backlog' = backlog - 1
      BY <1>1 DEF AcceptFails, Refuse, Incoming
    <2>3. backlog' \in 0 .. MaxBacklog
      BY <2>1, <2>2, BacklogTaken
    <2> QED
      BY <1>0, <1>1, <2>1, <2>3, Handled, AdvanceInv DEF AcceptFails, Refuse, Incoming, RestTypes
  <1>2. ASSUME (\E f \in Fd : Error(f)) \/ ErrorStays PROVE Inv'
    <2>1. Looking(Fd) /\ pollfds' = handled /\ i' = i + 1 /\ backlog' = backlog
      BY <1>2 DEF Error, ErrorStays, Branch, clientVars
    <2>2. RestTypes' /\ \A f \in Fd : status[f] # "up" => status'[f] # "up"
      BY <1>0, <1>2 DEF Error, ErrorStays, clientVars, RestTypes, Status
    <2>3. open' = open /\ write_buf' = write_buf
      BY <1>2 DEF Error, ErrorStays, clientVars
    <2> QED
      BY <2>1, <2>2, <2>3, Here, Handled, AdvanceInv
  <1>3. ASSUME Receive PROVE Inv'
    <2> DEFINE f == pollfds[i].fd
               others == IF unread[f] = 0 THEN {}
                         ELSE {pollfds[k].fd : k \in 1 .. user_counter} \ {f}
    <2>1. Looking(Fd) /\ i' = i + 1 /\ open' = open /\ status' = status /\ backlog' = backlog
      BY <1>3 DEF Receive, Branch
    <2>2. f \in Fd /\ Looking(Fd \cup {listenfd}) /\ pollfds[i] \in EntryType
      BY <2>1, Here DEF Looking
    <2>3. /\ pollfds' \in [0 .. user_counter -> EntryType]
          /\ \A k \in 0 .. user_counter : pollfds'[k].fd = pollfds[k].fd
          /\ \A k \in 0 .. user_counter : k # i => pollfds'[k] = pollfds[k]
          /\ pollfds'[i].revents = {}
      <3>1. CASE others = {}
        <4>1. pollfds' = handled
          BY <1>3, <3>1 DEF Receive
        <4> QED
          BY <4>1, <2>2, Handled
      <3>2. CASE others # {}
        <4> DEFINE E == pollfds[i].events \cup (Events \ {"POLLIN"})
        <4>1. E \in SUBSET Events
          BY <2>2 DEF EntryType
        <4>2. handled[i].events = pollfds[i].events
          BY <2>2, Handled DEF handled, Inv, ArrayInv, EntryType
        <4>3. pollfds' = [handled EXCEPT ![i].events = E]
          BY <1>3, <3>2, <4>2 DEF Receive
        <4> HIDE DEF E
        <4> QED
          BY <4>1, <4>3, <2>2, Reevented
      <3> QED
        BY <3>1, <3>2
    <2>4. unread' \in [Fd -> 0 .. MaxData]
      <3>1. unread[f] \in 0 .. MaxData
        BY <1>0, <2>2 DEF RestTypes
      <3>2. Max({unread[f] - 1, 0}) \in 0 .. MaxData
        BY <3>1, LessOne
      <3> QED
        BY <1>0, <1>3, <2>2, <3>2 DEF Receive, RestTypes
    <2>5. write_buf' \in [Fd -> Fd \cup {NULL}]
      BY <1>0, <1>3, <2>2 DEF Receive, RestTypes
    <2>6. RestTypes'
      BY <1>0, <1>3, <2>4, <2>5 DEF Receive, RestTypes
    <2> QED
      BY <2>1, <2>2, <2>3, <2>6, AdvanceInv
  <1>4. ASSUME NothingToWrite \/ NoEvent PROVE Inv'
    <2>1. Looking(Fd \cup {listenfd}) /\ pollfds' = handled /\ i' = i + 1
      BY <1>4 DEF NothingToWrite, NoEvent, Branch, Looking
    <2>2. RestTypes' /\ open' = open /\ status' = status /\ backlog' = backlog
      BY <1>0, <1>4 DEF NothingToWrite, NoEvent, RestTypes, clientVars
    <2> QED
      BY <2>1, <2>2, Handled, AdvanceInv
  <1>5. ASSUME WriteOut PROVE Inv'
    <2> DEFINE E == pollfds[i].events \cup (Events \ {"POLLOUT"}) \cup {"POLLIN"}
    <2>1. Looking(Fd) /\ i' = i + 1 /\ open' = open /\ backlog' = backlog
      BY <1>5 DEF WriteOut, Branch
    <2>2. pollfds[i].fd \in open /\ Looking(Fd \cup {listenfd}) /\ pollfds[i] \in EntryType
      BY <2>1, Here
    <2>3. E \in SUBSET Events
      BY <2>2 DEF EntryType, Events
    <2>4. handled[i].events = pollfds[i].events
      BY <2>2, Handled DEF handled, Inv, ArrayInv, EntryType
    <2>5. pollfds' = [handled EXCEPT ![i].events = E]
      BY <1>5, <2>4 DEF WriteOut
    <2>6. RestTypes' /\ \A f \in Fd : status[f] # "up" => status'[f] # "up"
      BY <1>0, <1>5, <2>2 DEF WriteOut, RestTypes, Status
    <2> HIDE DEF E
    <2> QED
      BY <2>1, <2>2, <2>3, <2>5, <2>6, Reevented, AdvanceInv
  <1> QED
    BY <1>1, <1>2, <1>3, <1>4, <1>5

-----------------------------------------------------------------------------
(* Steps that open or close a connection *)

LEMMA AcceptInv ==
    ASSUME Inv, Accept
    PROVE  Inv'
  <1>1. PICK f \in Fd \ open :
            /\ open' = open \cup {f}
            /\ \E s \in {"up", "fin", "reset"}, n \in 0 .. MaxData :
                  /\ status' = [status EXCEPT ![f] = s]
                  /\ unread' = [unread EXCEPT ![f] = n]
            /\ pollfds' = [k \in 0 .. user_counter + 1 |->
                             IF k \in DOMAIN pollfds THEN handled[k]
                             ELSE Entry(f, {"POLLIN", "POLLRDHUP", "POLLERR"})]
    BY DEF Accept
  <1> DEFINE uc == user_counter
             new == Entry(f, {"POLLIN", "POLLRDHUP", "POLLERR"})
  <1>2. /\ Looking(Fd \cup {listenfd}) /\ pollfds[i].fd = listenfd
        /\ "POLLIN" \in pollfds[i].revents
        /\ backlog' = backlog - 1 /\ i' = i + 1
        /\ uc < USER_LIMIT /\ UNCHANGED <<write_buf, told, pc>>
        /\ due' = due \ {pollfds[i].fd} /\ pc = "scan"
    BY DEF Accept, Incoming, Looking
  <1>3. i = 0 /\ backlog' \in 0 .. MaxBacklog
    BY <1>2, BacklogTaken
  <1>4. /\ handled \in [0 .. uc -> EntryType]
        /\ \A k \in 0 .. uc : handled[k].fd = pollfds[k].fd
        /\ \A k \in 0 .. uc : k # 0 => handled[k] = pollfds[k]
        /\ handled[0].revents = {}
    BY <1>2, <1>3, Handled
  <1>5. uc \in Nat /\ DOMAIN pollfds = 0 .. uc /\ uc = Cardinality(open)
    BY DEF Inv, ArrayInv, PollfdsAreTheConnections
  <1>6. new \in EntryType /\ new.fd = f /\ new.revents = {}
    BY DEF Entry, EntryType, Events
  <1> HIDE DEF new
  <1>7. /\ pollfds' \in [0 .. uc + 1 -> EntryType]
        /\ \A k \in 0 .. uc : pollfds'[k] = handled[k]
        /\ pollfds'[uc + 1] = new
    BY <1>1, <1>4, <1>5, <1>6 DEF new
  <1>8. user_counter' = uc + 1
    <2>1. DOMAIN pollfds' = 0 .. uc + 1
      BY <1>7
    <2> QED
      BY <2>1, <1>5, Counter DEF user_counter
  <1> HIDE DEF uc
  <1>9. {pollfds[k].fd : k \in 1 .. uc} = open /\ uc <= USER_LIMIT
    BY DEF Inv, ArrayInv, PollfdsAreTheConnections, uc
  <1>10. \A k, l \in 0 .. uc : pollfds[k].fd = pollfds[l].fd => k = l
    BY DEF Inv, ArrayInv, OneEach, uc
  <1>11. Cardinality(open') = uc + 1
    BY <1>1, <1>5, OpenFinite, FS_AddElement DEF Inv
  <1>12. PollfdsAreTheConnections'
    <2>1. \A k \in 1 .. uc : pollfds'[k].fd = pollfds[k].fd
      BY <1>4, <1>5, <1>7
    <2>2. {pollfds'[k].fd : k \in 1 .. uc + 1} = {pollfds[k].fd : k \in 1 .. uc} \cup {f}
      <3>1. 1 .. uc + 1 = (1 .. uc) \cup {uc + 1}
        BY <1>5
      <3> QED
        BY <3>1, <2>1, <1>6, <1>7
    <2>3. pollfds'[0].fd = listenfd
      BY <1>2, <1>3, <1>4, <1>5, <1>7
    <2>4. uc + 1 <= USER_LIMIT
      BY <1>2, <1>5, PollChatAssumption DEF uc
    <2> QED
      BY <2>2, <2>3, <2>4, <1>1, <1>8, <1>9, <1>11 DEF PollfdsAreTheConnections
  <1>13. OneEach'
    <2>1. \A k \in 0 .. uc : pollfds'[k].fd = pollfds[k].fd /\ pollfds[k].fd # f
      <3>1. pollfds[0].fd # f
        BY <1>2, <1>3 DEF Fd, listenfd
      <3>2. \A k \in 1 .. uc : pollfds[k].fd \in open
        BY <1>9
      <3>3. \A k \in 0 .. uc : k = 0 \/ k \in 1 .. uc
        BY <1>5
      <3>4. \A k \in 0 .. uc : pollfds[k].fd # f
        BY <3>1, <3>2, <3>3, <1>1
      <3>5. \A k \in 0 .. uc : pollfds'[k].fd = pollfds[k].fd
        BY <1>4, <1>7
      <3> QED
        BY <3>4, <3>5
    <2> SUFFICES ASSUME NEW k \in 0 .. uc + 1, NEW l \in 0 .. uc + 1,
                        pollfds'[k].fd = pollfds'[l].fd
                 PROVE  k = l
      BY <1>8 DEF OneEach
    <2>2. (k \in 0 .. uc \/ k = uc + 1) /\ (l \in 0 .. uc \/ l = uc + 1)
      BY <1>5
    <2> QED
      BY <2>1, <2>2, <1>6, <1>7, <1>10
  <1>14. ArrayInv'
    BY <1>5, <1>7, <1>8, <1>12, <1>13 DEF ArrayInv
  <1>15. NobodySkipped'
    <2>1. due = {pollfds[k].fd : k \in {k \in 0 .. uc : pollfds[k].revents # {}}}
      BY <1>2, <1>3 DEF Inv, NobodySkipped, uc
    <2>2. due' = {pollfds'[k].fd : k \in {k \in 1 .. uc + 1 : pollfds'[k].revents # {}}}
      <3>1. ASSUME NEW g \in due'
            PROVE  \E k \in 1 .. uc + 1 : pollfds'[k].revents # {} /\ g = pollfds'[k].fd
        <4>1. PICK k \in 0 .. uc : pollfds[k].revents # {} /\ g = pollfds[k].fd
          BY <2>1, <1>2, <3>1
        <4>2. k # 0
          BY <4>1, <1>2, <1>3, <3>1
        <4> QED
          BY <4>1, <4>2, <1>4, <1>5, <1>7
      <3>2. ASSUME NEW k \in 1 .. uc + 1, pollfds'[k].revents # {}
            PROVE  pollfds'[k].fd \in due'
        <4>1. k \in 1 .. uc
          BY <3>2, <1>5, <1>6, <1>7
        <4>2. pollfds'[k] = pollfds[k] /\ k \in 0 .. uc /\ k # 0
          BY <4>1, <1>4, <1>5, <1>7
        <4>3. pollfds[k].fd # pollfds[0].fd
          BY <4>2, <1>5, <1>10
        <4> QED
          BY <4>2, <4>3, <3>2, <2>1, <1>2, <1>3
      <3> QED
        BY <3>1, <3>2
    <2> QED
      BY <2>2, <1>2, <1>3, <1>8 DEF NobodySkipped
  <1>16. SeenEnd' /\ SeenWaiting'
    <2>1. \A k \in 1 .. uc : pollfds'[k] = pollfds[k] /\ pollfds[k].fd \in open
      BY <1>4, <1>5, <1>7, <1>9
    <2>2. \A g \in open : status'[g] = status[g]
      BY <1>1 DEF Inv, TypeOK
    <2>3. \A k \in 1 .. uc : "POLLRDHUP" \in pollfds[k].revents => status[pollfds[k].fd] # "up"
      BY DEF Inv, SeenEnd, uc
    <2>4. SeenEnd'
      <3> SUFFICES ASSUME NEW k \in 1 .. uc + 1, "POLLRDHUP" \in pollfds'[k].revents
                   PROVE  status'[pollfds'[k].fd] # "up"
        BY <1>8 DEF SeenEnd
      <3>1. k \in 1 .. uc
        BY <1>5, <1>6, <1>7
      <3> QED
        BY <3>1, <2>1, <2>2, <2>3
    <2>5. SeenWaiting'
      BY <1>4, <1>5, <1>7 DEF SeenWaiting
    <2> QED
      BY <2>4, <2>5
  <1>17. TypeOK'
    <2>1. i' \in 0 .. USER_LIMIT + 1 /\ pc' = pc
      BY <1>2, <1>3, PollChatAssumption
    <2>2. open' \subseteq Fd /\ told' \subseteq open' /\ due' \subseteq open' \cup {listenfd}
      BY <1>1, <1>2 DEF Inv, TypeOK
    <2>3. status' \in [Fd -> Status] /\ unread' \in [Fd -> 0 .. MaxData]
      BY <1>1 DEF Inv, TypeOK, Status
    <2> QED
      BY <2>1, <2>2, <2>3, <1>2, <1>3, <1>7, <1>8 DEF Inv, TypeOK, EntryType
  <1> QED
    BY <1>14, <1>15, <1>16, <1>17 DEF Inv

LEMMA RemoveInv ==
    ASSUME Inv, Looking(Fd), Remove
    PROVE  Inv'
  <1> DEFINE uc == user_counter
             f == pollfds[i].fd
             last == pollfds[uc]
  <1>1. /\ i \in 1 .. uc /\ f \in open /\ uc \in Nat
        /\ DOMAIN pollfds = 0 .. uc /\ uc = Cardinality(open)
        /\ uc <= USER_LIMIT /\ f \in Fd
    BY Here DEF Inv, ArrayInv, PollfdsAreTheConnections, Looking
  <1>2. /\ open' = open \ {f} /\ told' = told \ {f} /\ due' = due \ {f}
        /\ pc' = pc /\ pc = "scan" /\ i' = i /\ backlog' = backlog
        /\ write_buf' = [write_buf EXCEPT ![f] = write_buf[last.fd]]
        /\ status' = [status EXCEPT ![f] = "up"]
        /\ unread' = [unread EXCEPT ![f] = 0]
        /\ pollfds' = [k \in 0 .. uc - 1 |-> IF k = i THEN last ELSE pollfds[k]]
    BY DEF Remove, Looking
  <1>3. user_counter' = uc - 1
    <2>1. DOMAIN pollfds' = 0 .. uc - 1 /\ uc - 1 \in Nat
      BY <1>1, <1>2
    <2> QED
      BY <2>1, Counter DEF user_counter
  <1>4. pollfds \in [0 .. uc -> EntryType]
    BY DEF Inv, ArrayInv
  <1>5. /\ pollfds[0].fd = listenfd /\ {pollfds[k].fd : k \in 1 .. uc} = open
        /\ \A k, l \in 0 .. uc : pollfds[k].fd = pollfds[l].fd => k = l
    BY DEF Inv, ArrayInv, OneEach, PollfdsAreTheConnections
  <1>6. Cardinality(open') = uc - 1
    BY <1>1, <1>2, OpenFinite, FS_RemoveElement DEF Inv
  <1> HIDE DEF uc, f
  <1>7. pollfds' \in [0 .. uc - 1 -> EntryType]
    BY <1>1, <1>2, <1>4
  <1>8. \* Where an entry of the new array comes from.
        \A k \in 0 .. uc - 1 :
            /\ k # i => pollfds'[k] = pollfds[k]
            /\ k = i => pollfds'[k] = pollfds[uc]
    BY <1>1, <1>2
  <1>9. \A k \in 0 .. uc : pollfds[k].fd = f <=> k = i
    BY <1>1, <1>5 DEF f
  <1>10. PollfdsAreTheConnections'
    <2>1. pollfds'[0].fd = listenfd
      BY <1>1, <1>5, <1>8
    <2>2. ASSUME NEW k \in 1 .. uc - 1 PROVE pollfds'[k].fd \in open'
      <3>1. k # i => pollfds[k].fd \in open /\ pollfds[k].fd # f
        BY <1>1, <1>5, <1>9
      <3>2. k = i => pollfds[uc].fd \in open /\ pollfds[uc].fd # f
        BY <1>1, <1>5, <1>9
      <3> QED
        BY <3>1, <3>2, <1>1, <1>2, <1>8
    <2>3. ASSUME NEW g \in open' PROVE \E k \in 1 .. uc - 1 : pollfds'[k].fd = g
      <3>1. PICK k \in 1 .. uc : pollfds[k].fd = g
        BY <1>2, <1>5, <2>3
      <3>2. k # i
        BY <3>1, <1>1, <1>2, <1>9, <2>3
      <3>3. CASE k = uc
        <4>1. i \in 1 .. uc - 1
          BY <3>2, <3>3, <1>1
        <4> QED
          BY <4>1, <3>1, <3>3, <1>1, <1>8
      <3>4. CASE k # uc
        <4>1. k \in 1 .. uc - 1
          BY <3>1, <3>4, <1>1
        <4> QED
          BY <4>1, <3>1, <3>2, <1>1, <1>8
      <3> QED
        BY <3>3, <3>4
    <2>4. {pollfds'[k].fd : k \in 1 .. uc - 1} = open'
      BY <2>2, <2>3
    <2>5. uc - 1 <= USER_LIMIT
      BY <1>1, PollChatAssumption
    <2> QED
      BY <2>1, <2>4, <2>5, <1>3, <1>6 DEF PollfdsAreTheConnections
  <1>11. OneEach'
    <2> SUFFICES ASSUME NEW k \in 0 .. uc - 1, NEW l \in 0 .. uc - 1,
                        pollfds'[k].fd = pollfds'[l].fd
                 PROVE  k = l
      BY <1>3 DEF OneEach
    <2>1. k \in 0 .. uc /\ l \in 0 .. uc /\ uc \in 0 .. uc /\ k # uc /\ l # uc
      BY <1>1
    <2> DEFINE from(j) == IF j = i THEN uc ELSE j
    <2>2. from(k) \in 0 .. uc /\ from(l) \in 0 .. uc
      BY <2>1
    <2>3. pollfds'[k] = pollfds[from(k)] /\ pollfds'[l] = pollfds[from(l)]
      BY <1>8
    <2>4. from(k) = from(l)
      <3> HIDE DEF from
      <3> QED
        BY <2>2, <2>3, <1>5
    <2> QED
      BY <2>1, <2>4
  <1>12. ArrayInv'
    <2>1. uc - 1 \in Nat
      BY <1>1
    <2> QED
      BY <2>1, <1>3, <1>7, <1>10, <1>11 DEF ArrayInv
  <1>13. NobodySkipped'
    <2>1. due = {pollfds[k].fd : k \in {k \in i .. uc : pollfds[k].revents # {}}}
      BY <1>2 DEF Inv, NobodySkipped, uc
    <2>2. due' = {pollfds'[k].fd : k \in {k \in i .. uc - 1 : pollfds'[k].revents # {}}}
      <3>1. ASSUME NEW g \in due'
            PROVE  \E k \in i .. uc - 1 : pollfds'[k].revents # {} /\ g = pollfds'[k].fd
        <4>1. PICK k \in i .. uc : pollfds[k].revents # {} /\ g = pollfds[k].fd
          BY <2>1, <1>2, <3>1
        <4>2. k # i /\ k \in 0 .. uc
          BY <4>1, <3>1, <1>1, <1>2, <1>9
        <4>3. CASE k = uc
          <5>1. i \in i .. uc - 1 /\ i \in 0 .. uc - 1
            BY <4>2, <4>3, <1>1
          <5>2. pollfds'[i] = pollfds[uc]
            BY <5>1, <1>8
          <5> QED
            BY <5>1, <5>2, <4>1, <4>3
        <4>4. CASE k # uc
          <5>1. k \in i .. uc - 1 /\ k \in 0 .. uc - 1
            BY <4>1, <4>2, <4>4, <1>1
          <5>2. pollfds'[k] = pollfds[k]
            BY <5>1, <4>2, <1>8
          <5> QED
            BY <5>1, <5>2, <4>1
        <4> QED
          BY <4>3, <4>4
      <3>2. ASSUME NEW k \in i .. uc - 1, pollfds'[k].revents # {}
            PROVE  pollfds'[k].fd \in due'
        <4> DEFINE from == IF k = i THEN uc ELSE k
        <4>1. from \in i .. uc /\ from \in 0 .. uc /\ from # i /\ k \in 0 .. uc - 1
          BY <1>1
        <4>2. pollfds'[k] = pollfds[from]
          BY <4>1, <1>8
        <4> HIDE DEF from
        <4>3. pollfds[from].fd # f
          BY <4>1, <1>9
        <4> QED
          BY <4>1, <4>2, <4>3, <3>2, <2>1, <1>2
      <3> QED
        BY <3>1, <3>2
    <2> QED
      BY <2>2, <1>2, <1>3 DEF NobodySkipped
  <1>14. SeenEnd' /\ SeenWaiting'
    <2>1. SeenEnd'
      <3> SUFFICES ASSUME NEW k \in 1 .. uc - 1, "POLLRDHUP" \in pollfds'[k].revents
                   PROVE  status'[pollfds'[k].fd] # "up"
        BY <1>3 DEF SeenEnd
      <3> DEFINE from == IF k = i THEN uc ELSE k
      <3>1. from \in 1 .. uc /\ from \in 0 .. uc /\ from # i /\ k \in 0 .. uc - 1
        BY <1>1
      <3>2. pollfds'[k] = pollfds[from]
        BY <3>1, <1>8
      <3> HIDE DEF from
      <3>3. pollfds[from].fd # f /\ status[pollfds[from].fd] # "up" /\ pollfds[from].fd \in open
        BY <3>1, <3>2, <1>5, <1>9 DEF Inv, SeenEnd, uc
      <3> QED
        BY <3>2, <3>3, <1>2 DEF Inv, TypeOK
    <2>2. pollfds'[0] = pollfds[0]
      BY <1>1, <1>8
    <2> QED
      BY <2>1, <2>2, <1>2 DEF Inv, SeenWaiting
  <1>15. TypeOK'
    <2>1. open' \subseteq Fd /\ told' \subseteq open' /\ due' \subseteq open' \cup {listenfd}
      BY <1>2 DEF Inv, TypeOK
    <2>2. last.fd \in Fd
      BY <1>1, <1>5 DEF Inv, TypeOK
    <2>3. write_buf' \in [Fd -> Fd \cup {NULL}]
      BY <2>2, <1>2 DEF Inv, TypeOK
    <2>4. status' \in [Fd -> Status]
      BY <1>2 DEF Inv, TypeOK, Status
    <2>5. unread' \in [Fd -> 0 .. MaxData]
      <3>1. 0 \in 0 .. MaxData
        BY PollChatAssumption
      <3> QED
        BY <3>1, <1>2 DEF Inv, TypeOK
    <2>6. pollfds' \in [0 .. user_counter' -> EntryType]
      BY <1>3, <1>7
    <2>7. pc' \in {"poll", "scan", "killed"} /\ i' \in 0 .. USER_LIMIT + 1
          /\ backlog' \in 0 .. MaxBacklog
      BY <1>2 DEF Inv, TypeOK
    <2> QED
      BY <2>1, <2>3, <2>4, <2>5, <2>6, <2>7 DEF TypeOK, EntryType
  <1> QED
    BY <1>12, <1>13, <1>14, <1>15 DEF Inv

\* A branch is taken for what was reported.
LEMMA BranchHangup == Branch("hangup") => "POLLRDHUP" \in pollfds[i].revents
BY DEF Branch

\* Both removals: a client that did not end is never closed.
LEMMA RemovesTheEnded ==
    ASSUME Inv, Hangup \/ ReceiveFails
    PROVE  Looking(Fd) /\ Remove /\ status[pollfds[i].fd] # "up"
  <1>1. Looking(Fd) /\ Remove
    BY DEF Hangup, ReceiveFails, Branch
  <1>2. ASSUME Hangup PROVE status[pollfds[i].fd] # "up"
    BY <1>1, <1>2, BranchHangup, Here DEF Hangup, Inv, SeenEnd
  <1>3. ASSUME ReceiveFails PROVE status[pollfds[i].fd] # "up"
    BY <1>3 DEF ReceiveFails
  <1> QED
    BY <1>1, <1>2, <1>3

-----------------------------------------------------------------------------
(* The other steps *)

LEMMA PollInv ==
    ASSUME Inv, Poll
    PROVE  Inv'
  <1>1. PICK writable \in SUBSET open : pollfds' = Polled(writable)
    BY DEF Poll
  <1>2. /\ pc' = "scan" /\ i' = 0
        /\ UNCHANGED <<write_buf, open, unread, status, told, backlog>>
    BY DEF Poll, clientVars
  <1>3. user_counter \in Nat /\ pollfds \in [0 .. user_counter -> EntryType]
    BY DEF Inv, ArrayInv
  <1>4. \A e \in EntryType : Revents(e, writable) \subseteq Events
    BY DEF Revents, EntryType, Events
  <1>5. \A k \in 0 .. user_counter :
            /\ pollfds'[k] = [pollfds[k] EXCEPT !.revents = Revents(pollfds[k], writable)]
            /\ pollfds'[k].fd = pollfds[k].fd
            /\ pollfds'[k].revents = Revents(pollfds[k], writable)
            /\ pollfds'[k] \in EntryType
    BY <1>1, <1>3, <1>4 DEF EntryType, Polled
  <1>6. pollfds' \in [0 .. user_counter -> EntryType]
    BY <1>1, <1>3, <1>5 DEF Polled
  <1>7. ArrayInv' /\ user_counter' = user_counter
    BY <1>2, <1>5, <1>6, SameArray DEF Inv
  <1>8. NobodySkipped'
    BY <1>2, <1>6, <1>7 DEF NobodySkipped, Poll, Reported
  <1>9. SeenEnd'
    <2> SUFFICES ASSUME NEW k \in 1 .. user_counter, "POLLRDHUP" \in pollfds'[k].revents
                 PROVE  status'[pollfds'[k].fd] # "up"
      BY <1>7 DEF SeenEnd
    <2> k \in 0 .. user_counter
      BY <1>3
    <2>1. pollfds[k].fd \in Fd
      BY DEF Inv, TypeOK, ArrayInv, PollfdsAreTheConnections
    <2>2. "POLLRDHUP" \in Revents(pollfds[k], writable)
      BY <1>5
    <2>3. pollfds[k].fd # listenfd
      BY <2>1 DEF Fd, listenfd
    <2>4. status[pollfds[k].fd] # "up"
      BY <2>2, <2>3 DEF Revents
    <2> QED
      BY <2>4, <1>2, <1>5
  <1>10. SeenWaiting'
    <2>1. pollfds'[0].revents = Revents(pollfds[0], writable) /\ pollfds[0].fd = listenfd
      <3>1. 0 \in 0 .. user_counter
        BY <1>3
      <3> QED
        BY <3>1, <1>5 DEF Inv, ArrayInv, PollfdsAreTheConnections
    <2> QED
      BY <2>1, <1>2 DEF SeenWaiting, Revents, Inv, TypeOK
  <1>11. due' \subseteq open' \cup {listenfd}
    <2>1. \A k \in 0 .. user_counter : pollfds[k].fd \in open \cup {listenfd}
      BY <1>3 DEF Inv, ArrayInv, PollfdsAreTheConnections
    <2> QED
      BY <2>1, <1>2, <1>5, <1>6 DEF Poll, Reported
  <1>12. TypeOK'
    <2>1. i' \in 0 .. USER_LIMIT + 1
      BY <1>2, PollChatAssumption
    <2> QED
      BY <2>1, <1>2, <1>6, <1>7, <1>11 DEF Inv, TypeOK, EntryType
  <1> QED
    BY <1>7, <1>8, <1>9, <1>10, <1>12 DEF Inv

LEMMA EndInv ==
    ASSUME Inv, RoundEnds \/ Sigpipe \/ UNCHANGED vars
    PROVE  Inv'
  <1>1. UNCHANGED <<pollfds, write_buf, due, open, unread, status, told, backlog>>
    BY DEF RoundEnds, Sigpipe, vars, serverVars, clientVars
  <1>2. user_counter' = user_counter
    BY <1>1 DEF user_counter
  <1>3. ArrayInv' /\ SeenEnd' /\ SeenWaiting'
    BY <1>1, <1>2 DEF Inv, ArrayInv, OneEach, PollfdsAreTheConnections, SeenEnd, SeenWaiting
  <1>4. NobodySkipped'
    <2>1. CASE RoundEnds
      <3>1. i \in Int /\ user_counter \in Int /\ i > user_counter
        BY <2>1 DEF RoundEnds, Inv, TypeOK, ArrayInv
      <3>2. i .. user_counter = {}
        BY <3>1
      <3>3. due = {}
        BY <2>1, <3>2 DEF RoundEnds, Inv, NobodySkipped
      <3> QED
        BY <2>1, <3>3 DEF RoundEnds, NobodySkipped
    <2>2. CASE Sigpipe
      BY <2>2 DEF Sigpipe, NobodySkipped
    <2>3. CASE UNCHANGED vars
      BY <2>3, <1>2 DEF vars, serverVars, Inv, NobodySkipped
    <2> QED
      BY <2>1, <2>2, <2>3
  <1>5. pc' \in {"poll", "scan", "killed"} /\ i' \in 0 .. USER_LIMIT + 1
    BY PollChatAssumption DEF RoundEnds, Sigpipe, vars, serverVars, Inv, TypeOK
  <1>6. TypeOK'
    BY <1>1, <1>2, <1>5 DEF Inv, TypeOK
  <1> QED
    BY <1>3, <1>4, <1>6 DEF Inv

LEMMA ClientsInv ==
    ASSUME Inv, Clients
    PROVE  Inv'
  <1>1. UNCHANGED serverVars /\ open' = open /\ told' = told
    BY DEF Clients, ClientConnects, ClientSends, ClientEnds, LateReset
  <1>2. user_counter' = user_counter
    BY <1>1 DEF user_counter, serverVars
  <1>3. backlog' \in 0 .. MaxBacklog /\ backlog' >= backlog
    BY PollChatAssumption
    DEF Clients, ClientConnects, ClientSends, ClientEnds, LateReset, Inv, TypeOK
  <1>4. unread' \in [Fd -> 0 .. MaxData]
    BY PollChatAssumption
    DEF Clients, ClientConnects, ClientSends, ClientEnds, LateReset, Inv, TypeOK
  <1>5. status' \in [Fd -> Status] /\ \A f \in Fd : status[f] # "up" => status'[f] # "up"
    BY DEF Clients, ClientConnects, ClientSends, ClientEnds, LateReset, Inv, TypeOK, Status
  <1>6. ArrayInv'
    BY <1>1, <1>2 DEF serverVars, Inv, ArrayInv, OneEach, PollfdsAreTheConnections
  <1>7. NobodySkipped' /\ SeenWaiting'
    <2>1. backlog > 0 => backlog' > 0
      BY <1>3 DEF Inv, TypeOK
    <2> QED
      BY <2>1, <1>1, <1>2 DEF serverVars, Inv, NobodySkipped, SeenWaiting
  <1>8. SeenEnd'
    <2>1. \A k \in 1 .. user_counter : pollfds[k].fd \in Fd
      BY DEF Inv, TypeOK, ArrayInv, PollfdsAreTheConnections
    <2> QED
      BY <2>1, <1>1, <1>2, <1>5 DEF serverVars, Inv, SeenEnd
  <1>9. TypeOK'
    BY <1>1, <1>2, <1>3, <1>4, <1>5 DEF serverVars, Inv, TypeOK
  <1> QED
    BY <1>6, <1>7, <1>8, <1>9 DEF Inv

LEMMA StepInv == Inv /\ [Next]_vars => Inv'
  <1> SUFFICES ASSUME Inv, [Next]_vars PROVE Inv'
    OBVIOUS
  <1>1. ASSUME Poll PROVE Inv'
    BY <1>1, PollInv
  <1>2. ASSUME AcceptFails \/ Refuse \/ (\E f \in Fd : Error(f)) \/ ErrorStays \/ Receive
               \/ NothingToWrite \/ WriteOut \/ NoEvent
        PROVE Inv'
    BY <1>2, RoundInv
  <1>3. ASSUME Accept PROVE Inv'
    BY <1>3, AcceptInv
  <1>4. ASSUME Hangup \/ ReceiveFails PROVE Inv'
    BY <1>4, RemovesTheEnded, RemoveInv
  <1>5. ASSUME RoundEnds \/ Sigpipe \/ UNCHANGED vars PROVE Inv'
    BY <1>5, EndInv
  <1>6. ASSUME Clients PROVE Inv'
    BY <1>6, ClientsInv
  <1> QED
    BY <1>1, <1>2, <1>3, <1>4, <1>5, <1>6 DEF Next, Server

\* The invariant the theorems below rest on holds always.
THEOREM InvAlways == Spec => []Inv
  <1> QED
    BY InitInv, StepInv, PTL DEF Spec

\* The array holds the listening socket and every connection once, whatever
\* was removed in the middle of a round (9-7:119-126).
THEOREM ArrayHoldsAll == Spec => []PollfdsAreTheConnections
  <1>1. Inv => PollfdsAreTheConnections
    BY DEF Inv, ArrayInv
  <1> QED
    BY <1>1, InvAlways, PTL

\* What poll reported lies ahead of the loop's index until it is looked at.
THEOREM NobodyMissed == Spec => []NobodySkipped
  <1>1. Inv => NobodySkipped
    BY DEF Inv
  <1> QED
    BY <1>1, InvAlways, PTL

\* Whoever is closed did end, though poll told the loop so some rounds ago.
THEOREM PollClosesOnlyTheEnded == Spec => ClosesOnlyTheEnded
  <1>1. Inv /\ [Next]_vars => [\A f \in open \ open' : status[f] # "up"]_vars
    <2> SUFFICES ASSUME Inv, Next, NEW f \in open \ open' PROVE status[f] # "up"
      OBVIOUS
    <2>1. ASSUME Hangup \/ ReceiveFails PROVE status[f] # "up"
      BY <2>1, RemovesTheEnded DEF Remove
    <2>2. ASSUME Accept PROVE FALSE
      BY <2>2 DEF Accept
    <2>3. ASSUME Poll \/ AcceptFails \/ Refuse \/ (\E g \in Fd : Error(g)) \/ ErrorStays
                 \/ Receive \/ NothingToWrite \/ WriteOut \/ Sigpipe \/ NoEvent \/ RoundEnds
          PROVE FALSE
      BY <2>3 DEF Poll, AcceptFails, Refuse, Error, ErrorStays, Receive, NothingToWrite,
                  WriteOut, Sigpipe, NoEvent, RoundEnds, clientVars
    <2>4. ASSUME Clients PROVE FALSE
      BY <2>4 DEF Clients, ClientConnects, ClientSends, ClientEnds, LateReset
    <2> QED
      BY <2>1, <2>2, <2>3, <2>4 DEF Next, Server
  <1> QED
    BY <1>1, InvAlways, PTL DEF Spec, ClosesOnlyTheEnded
=============================================================================
