-------------------------------- MODULE PollChat --------------------------------
(***************************************************************************)
(* 9-7_chater_server.cpp: a chat server in one thread around poll, which   *)
(* is level triggered, and the clients of 9-6_chater_client.cpp.  The      *)
(* server keeps the connections at the front of pollfds, fills the gap     *)
(* that a closed one leaves with the last, and tells the others what one   *)
(* of them posted by letting their write_buf point to its buffer.          *)
(*                                                                         *)
(* One action is one round of the loop over pollfds; clients act between   *)
(* poll and the rounds that handle what it returned.                       *)
(***************************************************************************)
EXTENDS Integers, FiniteSets, FiniteSetsExt

CONSTANTS
    NULL,
    USER_LIMIT,
    MaxBacklog,     \* bound: connections nobody has accepted
    MaxData         \* bound: unread messages of a connection

\* accept returns the lowest descriptor that is free.
listenfd == 0
Fd == 1 .. USER_LIMIT + 1

ASSUME PollChatAssumption ==
    /\ USER_LIMIT \in Nat \ {0}
    /\ NULL \notin Fd
    /\ MaxBacklog \in Nat /\ MaxData \in Nat

VARIABLES
    pc,             \* "poll", "scan", or "killed" by SIGPIPE
    i,              \* the index of the loop over pollfds
    pollfds,        \* pollfds[0 .. user_counter]
    write_buf,      \* write_buf[f]: whose buf users[f].write_buf points to
    due,            \* history: reported by this poll, not handled yet
    open,           \* the descriptors that are connections
    unread,         \* unread[f]: messages the kernel holds for f
    status,         \* status[f]: what the kernel knows of the other side
    told,           \* connections the server has sent something
    backlog         \* connections nobody has accepted

serverVars == <<pc, i, pollfds, write_buf, due>>
clientVars == <<open, unread, status, told, backlog>>
vars == <<serverVars, clientVars>>

Events == {"POLLIN", "POLLOUT", "POLLRDHUP", "POLLERR"}

\* fin: the client closed; reset: an RST came; broken: an RST came after a
\* FIN; dead: an RST came and its error was read.
Status == {"up", "fin", "reset", "broken", "dead"}

user_counter == Cardinality(DOMAIN pollfds) - 1

Entry(f, events) == [fd |-> f, events |-> events, revents |-> {}]

Init ==
    /\ pc = "poll"
    /\ i = 0
    /\ pollfds = [k \in {0} |-> Entry(listenfd, {"POLLIN"})]
    /\ write_buf = [f \in Fd |-> NULL]
    /\ due = {}
    /\ open = {}
    /\ unread = [f \in Fd |-> 0]
    /\ status = [f \in Fd |-> "up"]
    /\ told = {}
    /\ backlog = 0

-----------------------------------------------------------------------------
(* The clients *)

ClientConnects ==
    /\ backlog < MaxBacklog
    /\ backlog' = backlog + 1
    /\ UNCHANGED <<serverVars, open, unread, status, told>>

ClientSends(f) ==
    /\ f \in open
    /\ status[f] = "up"
    /\ unread[f] < MaxData
    /\ unread' = [unread EXCEPT ![f] = @ + 1]
    /\ UNCHANGED <<serverVars, open, status, told, backlog>>

\* close sends an RST instead of a FIN when unread data or linger ask for it.
ClientEnds(f, how) ==
    /\ f \in open
    /\ status[f] = "up"
    /\ status' = [status EXCEPT ![f] = how]
    /\ UNCHANGED <<serverVars, open, unread, told, backlog>>

\* What the server sent meets a closed socket and is answered with an RST.
LateReset(f) ==
    /\ f \in told
    /\ status[f] = "fin"
    /\ status' = [status EXCEPT ![f] = "broken"]
    /\ UNCHANGED <<serverVars, open, unread, told, backlog>>

-----------------------------------------------------------------------------
(* poll *)

\* What the kernel reports of an entry; POLLERR needs no request.
Revents(e, writable) ==
    IF e.fd = listenfd
    THEN IF backlog > 0 THEN {"POLLIN"} ELSE {}
    ELSE (e.events \cup {"POLLERR"}) \cap
            {x \in Events :
                \/ x = "POLLIN" /\ (unread[e.fd] > 0 \/ status[e.fd] # "up")
                \/ x = "POLLRDHUP" /\ status[e.fd] # "up"
                \/ x = "POLLERR" /\ status[e.fd] \in {"reset", "broken"}
                \/ x = "POLLOUT" /\ e.fd \in writable}

\* A client that does not read fills its connection, which is not writable.
Polled(writable) ==
    [k \in DOMAIN pollfds |->
        [pollfds[k] EXCEPT !.revents = Revents(pollfds[k], writable)]]

Reported(fds) == {fds[k].fd : k \in {k \in DOMAIN fds : fds[k].revents # {}}}

Poll ==
    /\ pc = "poll"
    /\ \E writable \in SUBSET open : pollfds' = Polled(writable)
    /\ due' = Reported(pollfds')
    /\ due' # {}
    /\ pc' = "scan"
    /\ i' = 0
    /\ UNCHANGED <<write_buf, clientVars>>

-----------------------------------------------------------------------------
(* The loop over pollfds *)

\* The entry at i is done with: its revents are not read again before poll
\* sets them.
handled == [pollfds EXCEPT ![i].revents = {}]

Looking(fds) ==
    /\ pc = "scan"
    /\ i <= user_counter
    /\ pollfds[i].fd \in fds
    /\ due' = due \ {pollfds[i].fd}
    /\ UNCHANGED pc

\* The branch the loop takes for a connection: the first that applies.
Branch(b) ==
    /\ Looking(Fd)
    /\ b = CASE "POLLERR" \in pollfds[i].revents -> "error"
             [] "POLLRDHUP" \in pollfds[i].revents -> "hangup"
             [] "POLLIN" \in pollfds[i].revents -> "input"
             [] "POLLOUT" \in pollfds[i].revents -> "output"
             [] OTHER -> "nothing"

Incoming ==
    /\ Looking({listenfd})
    /\ "POLLIN" \in pollfds[i].revents
    /\ backlog' = backlog - 1
    /\ i' = i + 1

\* The connection was given up before accept could return it.
AcceptFails ==
    /\ Incoming
    /\ pollfds' = handled
    /\ UNCHANGED <<write_buf, open, unread, status, told>>

\* Too many users: accept, send a line, close.
Refuse ==
    /\ Incoming
    /\ user_counter >= USER_LIMIT
    /\ pollfds' = handled
    /\ UNCHANGED <<write_buf, open, unread, status, told>>

\* Mutant: a hang-up is not asked for.
Mut_AcceptNoHangup ==
    /\ Incoming
    /\ user_counter < USER_LIMIT
    /\ \E f \in Fd \ open :
           /\ f = Min(Fd \ open)
           /\ open' = open \cup {f}
           /\ \E s \in {"up", "fin", "reset"}, n \in 0 .. MaxData :
                  /\ status' = [status EXCEPT ![f] = s]
                  /\ unread' = [unread EXCEPT ![f] = n]
           /\ pollfds' = [k \in 0 .. user_counter + 1 |->
                            IF k \in DOMAIN pollfds THEN handled[k]
                            ELSE Entry(f, {"POLLIN", "POLLERR"})]
    /\ UNCHANGED <<write_buf, told>>

\* A client may have sent or ended before it is accepted.  users[f] keeps the
\* write_buf that an earlier connection left in it.
Accept ==
    /\ Incoming
    /\ user_counter < USER_LIMIT
    /\ \E f \in Fd \ open :
           /\ f = Min(Fd \ open)
           /\ open' = open \cup {f}
           /\ \E s \in {"up", "fin", "reset"}, n \in 0 .. MaxData :
                  /\ status' = [status EXCEPT ![f] = s]
                  /\ unread' = [unread EXCEPT ![f] = n]
           /\ pollfds' = [k \in 0 .. user_counter + 1 |->
                            IF k \in DOMAIN pollfds THEN handled[k]
                            ELSE Entry(f, {"POLLIN", "POLLRDHUP", "POLLERR"})]
    /\ UNCHANGED <<write_buf, told>>

\* getsockopt returns the pending error and clears it.
Error(f) ==
    /\ Branch("error")
    /\ pollfds[i].fd = f
    /\ status' = [status EXCEPT ![f] = "dead"]
    /\ pollfds' = handled
    /\ i' = i + 1
    /\ UNCHANGED <<write_buf, open, unread, told, backlog>>

\* getsockopt fails, and the error stays for the next poll.
ErrorStays ==
    /\ Branch("error")
    /\ pollfds' = handled
    /\ i' = i + 1
    /\ UNCHANGED <<write_buf, clientVars>>

\* Mutants: i-- is left out; the entry is overwritten before it is closed.
Mut_RemoveSkips ==
    LET f == pollfds[i].fd
        last == pollfds[user_counter]
    IN  /\ write_buf' = [write_buf EXCEPT ![f] = write_buf[last.fd]]
        /\ pollfds' = [k \in 0 .. user_counter - 1 |->
                         IF k = i THEN last ELSE pollfds[k]]
        /\ open' = open \ {f}
        /\ unread' = [unread EXCEPT ![f] = 0]
        /\ status' = [status EXCEPT ![f] = "up"]
        /\ told' = told \ {f}
        /\ i' = i + 1
        /\ UNCHANGED backlog

Mut_RemoveMoved ==
    LET last == pollfds[user_counter]
        f == last.fd
    IN  /\ UNCHANGED write_buf
        /\ pollfds' = [k \in 0 .. user_counter - 1 |->
                         IF k = i THEN last ELSE pollfds[k]]
        /\ open' = open \ {f}
        /\ unread' = [unread EXCEPT ![f] = 0]
        /\ status' = [status EXCEPT ![f] = "up"]
        /\ told' = told \ {f}
        /\ UNCHANGED <<i, backlog>>

\* The last entry moves into the gap, and its user over that of the closed
\* descriptor; i-- and the ++i of the loop look at the moved entry next.
Remove ==
    LET f == pollfds[i].fd
        last == pollfds[user_counter]
    IN  /\ write_buf' = [write_buf EXCEPT ![f] = write_buf[last.fd]]
        /\ pollfds' = [k \in 0 .. user_counter - 1 |->
                         IF k = i THEN last ELSE pollfds[k]]
        /\ open' = open \ {f}
        /\ unread' = [unread EXCEPT ![f] = 0]
        /\ status' = [status EXCEPT ![f] = "up"]
        /\ told' = told \ {f}
        /\ UNCHANGED <<i, backlog>>

Hangup ==
    /\ Branch("hangup")
    /\ Remove

\* recv fails; the test of errno (9-7:134) holds for every value.
ReceiveFails ==
    /\ Branch("input")
    /\ status[pollfds[i].fd] \in {"reset", "broken"}
    /\ Remove

\* recv returns 0, and the loop does nothing, when all was read.  Otherwise
\* bits are cleared and set as the code does it: events |= ~POLLIN asks for all
\* the others on the poster's entry, and the line meant for the other entry
\* (9-7:152) is a comparison.
Receive ==
    LET f == pollfds[i].fd
        others == IF unread[f] = 0 THEN {}
                  ELSE {pollfds[k].fd : k \in 1 .. user_counter} \ {f}
    IN  /\ Branch("input")
        /\ unread' = [unread EXCEPT ![f] = Max({@ - 1, 0})]
        /\ write_buf' = [g \in Fd |-> IF g \in others THEN f ELSE write_buf[g]]
        /\ pollfds' = IF others = {} THEN handled
                      ELSE [handled EXCEPT ![i].events =
                                @ \cup (Events \ {"POLLIN"})]
        /\ i' = i + 1
        /\ UNCHANGED <<open, status, told, backlog>>

NothingToWrite ==
    /\ Branch("output")
    /\ write_buf[pollfds[i].fd] = NULL
    /\ pollfds' = handled
    /\ i' = i + 1
    /\ UNCHANGED <<write_buf, clientVars>>

\* send reports, and clears, the error of a connection that was reset.
WriteOut ==
    LET f == pollfds[i].fd
    IN  /\ Branch("output")
        /\ write_buf[f] # NULL
        /\ status[f] \in {"up", "fin", "reset"}
        /\ told' = told \cup {f}
        /\ status' = [status EXCEPT ![f] = IF @ = "reset" THEN "dead" ELSE @]
        /\ write_buf' = [write_buf EXCEPT ![f] = NULL]
        /\ pollfds' = [handled EXCEPT ![i].events =
                          @ \cup (Events \ {"POLLOUT"}) \cup {"POLLIN"}]
        /\ i' = i + 1
        /\ UNCHANGED <<open, unread, backlog>>

\* send after a FIN and an RST: EPIPE, and SIGPIPE ends the process.
Sigpipe ==
    /\ pc = "scan" /\ i <= user_counter
    /\ pollfds[i].revents \cap {"POLLERR", "POLLRDHUP", "POLLIN"} = {}
    /\ "POLLOUT" \in pollfds[i].revents
    /\ write_buf[pollfds[i].fd] # NULL
    /\ status[pollfds[i].fd] \in {"broken", "dead"}
    /\ pc' = "killed"
    /\ UNCHANGED <<i, pollfds, write_buf, due, clientVars>>

NoEvent ==
    /\ Looking(Fd \cup {listenfd})
    /\ pollfds[i].revents = {}
    /\ pollfds' = handled
    /\ i' = i + 1
    /\ UNCHANGED <<write_buf, clientVars>>

RoundEnds ==
    /\ pc = "scan"
    /\ i > user_counter
    /\ pc' = "poll"
    /\ i' = 0
    /\ UNCHANGED <<pollfds, write_buf, due, clientVars>>

Server ==
    \/ Poll
    \/ AcceptFails
    \/ Refuse
    \/ Accept
    \/ \E f \in Fd : Error(f)
    \/ ErrorStays
    \/ Hangup
    \/ ReceiveFails
    \/ Receive
    \/ NothingToWrite
    \/ WriteOut
    \/ Sigpipe
    \/ NoEvent
    \/ RoundEnds

Clients ==
    \/ ClientConnects
    \/ \E f \in Fd :
           \/ ClientSends(f)
           \/ ClientEnds(f, "fin")
           \/ ClientEnds(f, "reset")
           \/ LateReset(f)

Next == Server \/ Clients

Spec == Init /\ [][Next]_vars

\* The server's thread runs whenever poll has something to return, and
\* getsockopt does not fail for one connection each time it is called (the
\* descriptor USER_LIMIT + 1 is for one that is refused).
FairSpec ==
    /\ Spec
    /\ WF_vars(Server)
    /\ \A f \in 1 .. USER_LIMIT : SF_vars(Error(f))

-----------------------------------------------------------------------------
(* Properties *)

TypeOK ==
    /\ pc \in {"poll", "scan", "killed"}
    /\ i \in 0 .. USER_LIMIT + 1
    /\ pollfds \in [0 .. user_counter ->
                       [fd : Fd \cup {listenfd},
                        events : SUBSET Events, revents : SUBSET Events]]
    /\ write_buf \in [Fd -> Fd \cup {NULL}]
    /\ open \subseteq Fd /\ told \subseteq open
    /\ due \subseteq open \cup {listenfd}
    /\ unread \in [Fd -> 0 .. MaxData]
    /\ status \in [Fd -> Status]
    /\ backlog \in 0 .. MaxBacklog

\* The array holds the listening socket first and then every connection
\* exactly once, and never outgrows its USER_LIMIT + 1 entries.
PollfdsAreTheConnections ==
    /\ pollfds[0].fd = listenfd
    /\ {pollfds[k].fd : k \in 1 .. user_counter} = open
    /\ user_counter = Cardinality(open)
    /\ user_counter <= USER_LIMIT

\* Closing a connection in the middle of a round moves another one: what poll
\* reported and the loop has not looked at is exactly what lies ahead of i, so
\* nobody is skipped and nobody is handled twice.
NobodySkipped ==
    /\ pc = "scan" =>
           due = {pollfds[k].fd : k \in {k \in i .. user_counter :
                                            pollfds[k].revents # {}}}
    /\ pc = "poll" => due = {}

\* Only a connection whose client has ended is closed.
ClosesOnlyTheEnded ==
    [][\A f \in open \ open' : status[f] # "up"]_vars

\* A connection whose client has ended is closed, whatever the others do,
\* unless SIGPIPE kills the server first.
EndedIsClosed ==
    \A f \in Fd :
        (f \in open /\ status[f] # "up") ~> (f \notin open \/ pc = "killed")
=============================================================================
