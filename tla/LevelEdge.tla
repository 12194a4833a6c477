-------------------------------- MODULE LevelEdge --------------------------------
(***************************************************************************)
(* 9-3_LT_ET_mode.cpp: a server that reads its connections level triggered *)
(* (one recv for an event, lt) or edge triggered (recv until nothing is    *)
(* left, et), as the user chose at the start.  The listening socket is     *)
(* edge triggered in both.  Clients act between any two calls.             *)
(***************************************************************************)
EXTENDS Epoll

NoFd == -1

VARIABLES
    mode,           \* "lt", "et", or "invalid"
    batch,          \* events of this epoll_wait that are not handled yet
    cur             \* the connection et() is reading in its inner loop

vars == <<kernelVars, mode, batch, cur>>

Init ==
    /\ EpollInit
    /\ mode \in {"lt", "et", "invalid"}
    /\ batch = {}
    /\ cur = NoFd

epoll_wait ==
    /\ batch = {} /\ cur = NoFd
    /\ Reported # {}
    /\ batch' = Reported
    /\ edges' = {}
    /\ UNCHANGED <<open, inbox, peer, backlog, interest, mode, cur>>

\* The default branch prints and forgets the events.
InvalidMode ==
    /\ mode = "invalid"
    /\ batch # {}
    /\ batch' = {}
    /\ UNCHANGED <<kernelVars, mode, cur>>

\* The event of f is next.
Event(f) ==
    /\ mode \in {"lt", "et"}
    /\ cur = NoFd
    /\ f \in batch
    /\ batch' = batch \ {f}
    /\ UNCHANGED mode

\* One accept for each event, which returns the lowest descriptor that is free;
\* addfd adds the connection in the mode chosen.
Accept ==
    /\ Event(listenfd)
    /\ \E f \in Fd \ open :
           /\ f = Min(Fd \ open)
           /\ Opened(f, IF mode = "et" THEN "edge" ELSE "level")
    /\ UNCHANGED cur

\* accept returns -1: out of descriptors, which leaves the connection in the
\* backlog, or it was given up.  addfd(-1) does nothing.
AcceptFails ==
    /\ Event(listenfd)
    /\ IF open = Fd THEN UNCHANGED kernelVars ELSE Aborted
    /\ UNCHANGED cur

LtReceive(f) ==
    /\ mode = "lt" /\ Event(f)
    /\ inbox[f] > 0
    /\ Taken(f)
    /\ UNCHANGED cur

\* Mutant: only an error closes, not the 0 of an end.
Mut_LtClose(f) ==
    /\ mode = "lt" /\ Event(f)
    /\ inbox[f] = 0 \/ peer[f] = "rst"
    /\ IF peer[f] = "rst" THEN Closed(f) ELSE UNCHANGED kernelVars
    /\ UNCHANGED cur

\* recv returns 0 or -1; the code does not ask which error it was.
LtClose(f) ==
    /\ mode = "lt" /\ Event(f)
    /\ inbox[f] = 0 \/ peer[f] = "rst"
    /\ Closed(f)
    /\ UNCHANGED cur

EtBegins(f) ==
    /\ mode = "et" /\ Event(f)
    /\ cur' = f
    /\ UNCHANGED kernelVars

\* Mutant: one recv for an edge.
Mut_EtReceive(f) ==
    /\ cur = f
    /\ inbox[f] > 0
    /\ Taken(f)
    /\ cur' = NoFd
    /\ UNCHANGED <<mode, batch>>

EtReceive(f) ==
    /\ cur = f
    /\ inbox[f] > 0
    /\ Taken(f)
    /\ UNCHANGED <<mode, batch, cur>>

\* Mutants: EAGAIN is an error like the others; the break after close, which
\* 9-3:102 has its doubts about, is left out.
Mut_EtClose(f) ==
    /\ cur = f
    /\ peer[f] = "rst" \/ inbox[f] = 0
    /\ Closed(f)
    /\ cur' = NoFd
    /\ UNCHANGED <<mode, batch>>

Mut_EtCloseStays(f) ==
    /\ cur = f
    /\ peer[f] = "rst" \/ (peer[f] = "fin" /\ inbox[f] = 0)
    /\ Closed(f)
    /\ UNCHANGED <<mode, batch, cur>>

\* recv returns 0, or an error other than EAGAIN.
EtClose(f) ==
    /\ cur = f
    /\ peer[f] = "rst" \/ (peer[f] = "fin" /\ inbox[f] = 0)
    /\ Closed(f)
    /\ cur' = NoFd
    /\ UNCHANGED <<mode, batch>>

\* recv returns EAGAIN.
EtLater(f) ==
    /\ cur = f
    /\ peer[f] = "up" /\ inbox[f] = 0
    /\ cur' = NoFd
    /\ UNCHANGED <<kernelVars, mode, batch>>

Server ==
    \/ epoll_wait
    \/ InvalidMode
    \/ Accept
    \/ AcceptFails
    \/ \E f \in Fd :
           \/ LtReceive(f)
           \/ LtClose(f)
           \/ EtBegins(f)
           \/ EtReceive(f)
           \/ EtClose(f)
           \/ EtLater(f)

Clients == ClientNext /\ UNCHANGED <<mode, batch, cur>>

Next == Server \/ Clients

Spec == Init /\ [][Next]_vars

\* The server's thread runs whenever epoll_wait has something to return.
FairSpec == Spec /\ WF_vars(Server)

-----------------------------------------------------------------------------
(* Properties *)

TypeOK ==
    /\ KernelTypes
    /\ mode \in {"lt", "et", "invalid"}
    /\ batch \subseteq Fd \cup {listenfd}
    /\ cur \in Fd \cup {NoFd}

\* An event is for a connection that is still open and still has something to
\* read: descriptors closed and reused in the same batch never meet an old one,
\* and in lt() recv is never told EAGAIN, which it would take for the end.
EventsAreCurrent ==
    /\ batch \cap Fd \subseteq open
    /\ cur # NoFd => cur \in open
    /\ \A f \in batch : Readable(f)

\* Edge triggering loses nothing because et() reads until EAGAIN: whatever is
\* there to read has an edge of its own, or an event not handled yet, or is
\* being read.
NothingUnseen ==
    mode = "et" =>
        \A f \in open : Readable(f) => f \in edges \cup batch \cup {cur}

\* Only a connection whose client has ended is closed.
ClosesOnlyTheEnded == [][\A f \in open \ open' : peer[f] # "up"]_vars

\* In both modes what an ended client has sent is read to its end and the
\* connection is closed, though edges merge.  A client that sends as fast as it
\* is read keeps et() in its inner loop and everybody else waiting (9-3:83), so
\* this is promised only if that loop comes to an end each time.
EndedIsClosed ==
    mode # "invalid" /\ []<>(cur = NoFd) =>
        \A f \in Fd : (f \in open /\ peer[f] # "up") ~> f \notin open
=============================================================================
