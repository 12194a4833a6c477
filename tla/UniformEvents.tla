------------------------------ MODULE UniformEvents ------------------------------
(***************************************************************************)
(* 10-1_uniform_events.cpp: signals as events.  The handler writes a byte  *)
(* into a pipe that the loop watches, edge triggered, beside the listening *)
(* socket and its connections, which the loop accepts and never reads.     *)
(* SIGINT is as SIGTERM; SIGCHLD and SIGQUIT are as SIGHUP.                *)
(***************************************************************************)
EXTENDS Epoll, Sequences

CONSTANTS
    UniformFd,      \* bound: the descriptors that accept can return
    MaxSignals,     \* bound: signals that are sent
    PipeCap         \* bytes the pipe holds; recv takes as many and more

ASSUME UniformAssumption ==
    /\ UniformFd \subseteq Fd
    /\ MaxSignals \in Nat
    /\ PipeCap \in Nat \ {0}

Signals == {"HUP", "TERM"}
pipefd == -1

VARIABLES
    reported,       \* events of this epoll_wait that are not handled yet
    pipe,           \* bytes in the pipe
    pipe_edge,      \* it has an edge that no epoll_wait has returned
    pending,        \* signals whose handler has not run
    sent,           \* how many were sent
    lost,           \* history: the pipe was full when the handler ran
    stop_server,
    running         \* main is in its loop

uniformVars == <<reported, pipe, pipe_edge, pending, sent, lost, stop_server, running>>

\* Of the variables of the program.
UniformRest ==
    /\ reported = {} /\ pipe = <<>> /\ pipe_edge = FALSE
    /\ pending = {} /\ sent = 0 /\ lost = {}
    /\ stop_server = FALSE /\ running = TRUE

UniformInit == EpollInit /\ UniformRest

\* A signal that is pending already is merged.
Raise(s) ==
    /\ running
    /\ sent < MaxSignals
    /\ sent' = sent + 1
    /\ pending' = pending \cup {s}
    /\ UNCHANGED <<kernelVars, reported, pipe, pipe_edge, lost, stop_server, running>>

\* sig_handler, with all signals blocked, on main's thread between two calls.
sig_handler(s) ==
    /\ running
    /\ s \in pending
    /\ pending' = pending \ {s}
    /\ IF Len(pipe) < PipeCap
       THEN pipe' = Append(pipe, s) /\ pipe_edge' = TRUE /\ lost' = lost
       ELSE lost' = lost \cup {s} /\ UNCHANGED <<pipe, pipe_edge>>
    /\ UNCHANGED <<kernelVars, reported, sent, stop_server, running>>

UniformWait ==
    /\ running /\ ~stop_server
    /\ reported = {}
    /\ reported' = Reported \cup (IF pipe_edge /\ pipe # <<>> THEN {pipefd} ELSE {})
    /\ reported' # {}
    /\ edges' = {} /\ pipe_edge' = FALSE
    /\ UNCHANGED <<open, inbox, peer, backlog, interest, pipe, pending, sent, lost,
                   stop_server, running>>

Dispatched(f) ==
    /\ running
    /\ f \in reported
    /\ reported' = reported \ {f}

Accepts ==
    /\ Dispatched(listenfd)
    /\ \E f \in UniformFd \ open : f = Min(UniformFd \ open) /\ Opened(f, "edge")
    /\ UNCHANGED <<pipe, pipe_edge, pending, sent, lost, stop_server, running>>

AcceptsNothing ==
    /\ Dispatched(listenfd)
    /\ IF UniformFd \subseteq open THEN UNCHANGED kernelVars ELSE Aborted
    /\ UNCHANGED <<pipe, pipe_edge, pending, sent, lost, stop_server, running>>

\* "server processing it's socket things (maybe)"
LooksAway(f) ==
    /\ Dispatched(f)
    /\ UNCHANGED <<kernelVars, pipe, pipe_edge, pending, sent, lost, stop_server, running>>

\* Mutant: one signal for an event.
Mut_ReadsSignals ==
    /\ Dispatched(pipefd)
    /\ pipe' = Tail(pipe)
    /\ stop_server' = (stop_server \/ Head(pipe) = "TERM")
    /\ UNCHANGED <<kernelVars, pipe_edge, pending, sent, lost, running>>

ReadsSignals ==
    /\ Dispatched(pipefd)
    /\ pipe' = <<>>
    /\ stop_server' = (stop_server \/ \E i \in DOMAIN pipe : pipe[i] = "TERM")
    /\ UNCHANGED <<kernelVars, pipe_edge, pending, sent, lost, running>>

\* The loop tests stop_server when it has handled the whole batch.
LeavesLoop ==
    /\ running /\ stop_server
    /\ reported = {}
    /\ running' = FALSE
    /\ UNCHANGED <<kernelVars, reported, pipe, pipe_edge, pending, sent, lost, stop_server>>

UniformLoop ==
    \/ UniformWait
    \/ Accepts
    \/ AcceptsNothing
    \/ \E f \in Fd : LooksAway(f)
    \/ ReadsSignals
    \/ LeavesLoop

UniformNext ==
    \/ UniformLoop
    \/ \E s \in Signals : Raise(s) \/ sig_handler(s)
    \/ ClientNext /\ UNCHANGED uniformVars

UniformSpec == UniformInit /\ [][UniformNext]_<<kernelVars, uniformVars>>

\* 10-1:137, "how to end the main loop of the server safely": a SIGTERM ends the
\* loop, whatever comes with it, unless its byte found the pipe full.
TermStops == "TERM" \in pending ~> (~running \/ "TERM" \in lost)
=============================================================================
