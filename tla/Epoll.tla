---------------------------------- MODULE Epoll ----------------------------------
(***************************************************************************)
(* What the kernel keeps for a server with a listening socket and an epoll *)
(* set, and what clients do to it.  The server takes data in units of one  *)
(* buffer.                                                                 *)
(***************************************************************************)
EXTENDS Integers, FiniteSets, FiniteSetsExt

CONSTANTS
    MaxFd,          \* bound: connections at a time
    MaxBacklog,     \* bound: connections nobody has accepted
    MaxData         \* bound: unread buffers of a connection

ASSUME EpollAssumption ==
    /\ MaxFd \in Nat \ {0}
    /\ MaxBacklog \in Nat \ {0}
    /\ MaxData \in Nat

listenfd == 0
Fd == 1 .. MaxFd

VARIABLES
    open,           \* the descriptors that are connections
    inbox,          \* inbox[f]: unread buffers of f
    peer,           \* peer[f]: "up", or how the other side ended: fin, rst
    backlog,        \* connections nobody has accepted
    interest,       \* interest[f]: level, edge; once: in, out, off when reported
    edges           \* edge-triggered descriptors with an unreported edge

kernelVars == <<open, inbox, peer, backlog, interest, edges>>

EpollInit ==
    /\ open = {}
    /\ inbox = [f \in Fd |-> 0]
    /\ peer = [f \in Fd |-> "up"]
    /\ backlog = 0
    /\ interest = [f \in Fd |-> "none"]
    /\ edges = {}

Readable(f) ==
    IF f = listenfd THEN backlog > 0 ELSE inbox[f] > 0 \/ peer[f] # "up"

Edge(f) == IF interest[f] = "edge" THEN edges \cup {f} ELSE edges

\* What epoll_wait returns: an edge counts only if it is still readable.  With
\* EPOLLONESHOT the descriptor is then out of use until EPOLL_CTL_MOD.
Reported ==
    {f \in edges \cup {g \in open : interest[g] \in {"level", "in"}} : Readable(f)}
        \cup {g \in open : interest[g] = "out" /\ peer[g] # "up"}

Armed(f) == interest[f] \in {"in", "out"}

Disarmed(S) ==
    [f \in Fd |-> IF f \in S /\ Armed(f) THEN "off" ELSE interest[f]]

\* accept returns a free descriptor; its client may have sent or ended before.
\* EPOLL_CTL_ADD finds what is readable already.
Opened(f, mode) ==
    /\ backlog' = backlog - 1
    /\ open' = open \cup {f}
    /\ interest' = [interest EXCEPT ![f] = mode]
    /\ \E n \in 0 .. MaxData, p \in {"up", "fin", "rst"} :
           /\ inbox' = [inbox EXCEPT ![f] = n]
           /\ peer' = [peer EXCEPT ![f] = p]
           /\ edges' = IF mode = "edge" /\ (n > 0 \/ p # "up")
                       THEN edges \cup {f} ELSE edges

Aborted ==
    /\ backlog' = backlog - 1
    /\ UNCHANGED <<open, inbox, peer, interest, edges>>

\* recv takes a buffer; what recv returns is the caller's guard.
Taken(f) ==
    /\ inbox' = [inbox EXCEPT ![f] = @ - 1]
    /\ UNCHANGED <<open, peer, backlog, interest, edges>>

\* close of the last reference to a socket takes it out of the epoll set, and no
\* server here makes a second one: none of them calls dup or fork.  The comment
\* at 9-3:15 doubts it, because the code never says EPOLL_CTL_DEL.
Closed(f) ==
    /\ open' = open \ {f}
    /\ inbox' = [inbox EXCEPT ![f] = 0]
    /\ peer' = [peer EXCEPT ![f] = "up"]
    /\ interest' = [interest EXCEPT ![f] = "none"]
    /\ edges' = edges \ {f}
    /\ UNCHANGED backlog

\* The descriptor of the listening socket is always edge triggered.
ClientConnects ==
    /\ backlog < MaxBacklog
    /\ backlog' = backlog + 1
    /\ edges' = edges \cup {listenfd}
    /\ UNCHANGED <<open, inbox, peer, interest>>

ClientSends(f) ==
    /\ f \in open
    /\ peer[f] = "up"
    /\ inbox[f] < MaxData
    /\ inbox' = [inbox EXCEPT ![f] = @ + 1]
    /\ edges' = Edge(f)
    /\ UNCHANGED <<open, peer, backlog, interest>>

ClientEnds(f, how) ==
    /\ f \in open
    /\ peer[f] = "up"
    /\ peer' = [peer EXCEPT ![f] = how]
    /\ edges' = Edge(f)
    /\ UNCHANGED <<open, inbox, backlog, interest>>

ClientNext ==
    \/ ClientConnects
    \/ \E f \in Fd :
           \/ ClientSends(f)
           \/ ClientEnds(f, "fin")
           \/ ClientEnds(f, "rst")

KernelTypes ==
    /\ open \subseteq Fd
    /\ inbox \in [Fd -> 0 .. MaxData]
    /\ peer \in [Fd -> {"up", "fin", "rst"}]
    /\ backlog \in 0 .. MaxBacklog
    /\ interest \in [Fd -> {"none", "level", "edge", "in", "out", "off"}]
    /\ edges \subseteq open \cup {listenfd}
    /\ \A f \in Fd : interest[f] = "none" <=> f \notin open
=============================================================================
