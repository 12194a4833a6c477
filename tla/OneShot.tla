---------------------------------- MODULE OneShot ----------------------------------
(***************************************************************************)
(* 9-4_epolloneshot.cpp: a thread for each event.  A descriptor is         *)
(* registered with EPOLLONESHOT and armed again by the thread that has     *)
(* read it to EAGAIN.  What the thread is told, fds_for_new_worker, is a   *)
(* variable of the loop: the thread reads it when it gets to run, and then *)
(* it may hold the descriptor of a later event.                            *)
(***************************************************************************)
EXTENDS Epoll

CONSTANTS
    Threads,        \* bound: worker threads at a time
    OneShotFd       \* bound: the descriptors that accept can return

ASSUME OneShotAssumption ==
    /\ IsFiniteSet(Threads)
    /\ OneShotFd \subseteq Fd

Nothing == -1

VARIABLES
    fired,          \* events of this epoll_wait that are not handled yet
    argument,       \* fds_for_new_worker.sockfd
    meant,          \* meant[t]: the event that thread t was started for
    sockfd,         \* sockfd[t]: what t has read of the argument
    again,          \* threads that recv has told EAGAIN
    mixed,          \* history: some thread has read what was not meant for it
    dropped         \* history: connections whose pthread_create failed

oneShotVars == <<fired, argument, meant, sockfd, again, mixed, dropped>>

OneShotInit ==
    /\ EpollInit
    /\ fired = {} /\ argument = Nothing
    /\ meant = [t \in Threads |-> Nothing]
    /\ sockfd = [t \in Threads |-> Nothing]
    /\ again = {}
    /\ mixed = FALSE /\ dropped = {}

-----------------------------------------------------------------------------
(* The loop of main *)

OneShotWait ==
    /\ fired = {}
    /\ Reported # {}
    /\ fired' = Reported
    /\ interest' = Disarmed(Reported)
    /\ edges' = {}
    /\ UNCHANGED <<open, inbox, peer, backlog, argument, meant, sockfd, again, mixed,
                   dropped>>

Handled(f) ==
    /\ f \in fired
    /\ fired' = fired \ {f}

\* One accept for an edge; addfd( , , true ).
AddsConnection ==
    /\ Handled(listenfd)
    /\ \E f \in OneShotFd \ open :
           /\ f = Min(OneShotFd \ open)
           /\ Opened(f, "in")
           /\ dropped' = dropped \ {f}
    /\ UNCHANGED <<argument, meant, sockfd, again, mixed>>

\* accept returns -1, and so does addfd.
AddsNothing ==
    /\ Handled(listenfd)
    /\ IF OneShotFd \subseteq open THEN UNCHANGED kernelVars ELSE Aborted
    /\ UNCHANGED <<argument, meant, sockfd, again, mixed, dropped>>

StartsWorker(f) ==
    /\ Handled(f)
    /\ \E t \in Threads :
           /\ meant[t] = Nothing
           /\ meant' = [meant EXCEPT ![t] = f]
    /\ argument' = f
    /\ UNCHANGED <<kernelVars, sockfd, again, mixed, dropped>>

\* What pthread_create returns is not looked at.
StartFails(f) ==
    /\ Handled(f)
    /\ argument' = f
    /\ dropped' = dropped \cup {f}
    /\ UNCHANGED <<kernelVars, meant, sockfd, again, mixed>>

-----------------------------------------------------------------------------
(* worker *)

ReadsArgument(t) ==
    /\ meant[t] # Nothing /\ sockfd[t] = Nothing
    /\ sockfd' = [sockfd EXCEPT ![t] = argument]
    /\ mixed' = (mixed \/ argument # meant[t])
    /\ UNCHANGED <<kernelVars, fired, argument, meant, again, dropped>>

Receiving(t, f) == sockfd[t] = f /\ t \notin again

Returns(t) ==
    /\ sockfd' = [sockfd EXCEPT ![t] = Nothing]
    /\ meant' = [meant EXCEPT ![t] = Nothing]
    /\ again' = again \ {t}
    /\ UNCHANGED <<fired, argument, mixed, dropped>>

WorkerReceives(t, f) ==
    /\ Receiving(t, f)
    /\ inbox[f] > 0
    /\ Taken(f)
    /\ UNCHANGED oneShotVars

\* An error other than EAGAIN is passed over: ECONNRESET, after which recv
\* returns 0, or EBADF for as long as nobody opens the descriptor again.
WorkerFails(t, f) ==
    /\ Receiving(t, f)
    /\ peer[f] = "rst"
    /\ peer' = [peer EXCEPT ![f] = "fin"]
    /\ UNCHANGED <<open, inbox, backlog, interest, edges, oneShotVars>>

\* Mutant: the end of the connection is an error to pass over.
Mut_WorkerCloses(t, f) ==
    /\ Receiving(t, f)
    /\ peer[f] = "fin" /\ inbox[f] = 0
    /\ UNCHANGED <<kernelVars, oneShotVars>>

WorkerCloses(t, f) ==
    /\ Receiving(t, f)
    /\ peer[f] = "fin" /\ inbox[f] = 0
    /\ Closed(f)
    /\ Returns(t)

\* Mutant: reset_oneshot is left out.
Mut_reset_oneshot(f) == UNCHANGED kernelVars

\* EPOLL_CTL_MOD fails if another thread has closed the descriptor.
reset_oneshot(f) ==
    /\ interest' = IF f \in open THEN [interest EXCEPT ![f] = "in"] ELSE interest
    /\ UNCHANGED <<open, inbox, peer, backlog, edges>>

\* EAGAIN.  What arrives between this recv and EPOLL_CTL_MOD finds the
\* descriptor switched off.
WorkerLater(t, f) ==
    /\ Receiving(t, f)
    /\ f \in open /\ peer[f] = "up" /\ inbox[f] = 0
    /\ again' = again \cup {t}
    /\ UNCHANGED <<kernelVars, fired, argument, meant, sockfd, mixed, dropped>>

WorkerRearms(t, f) ==
    /\ sockfd[t] = f /\ t \in again
    /\ reset_oneshot(f)
    /\ Returns(t)

-----------------------------------------------------------------------------

OneShotLoop ==
    \/ OneShotWait
    \/ AddsConnection
    \/ AddsNothing
    \/ \E f \in Fd : StartsWorker(f) \/ StartFails(f)

OneShotWorker(t) ==
    \/ ReadsArgument(t)
    \/ \E f \in Fd :
           \/ WorkerReceives(t, f)
           \/ WorkerFails(t, f)
           \/ WorkerCloses(t, f)
           \/ WorkerLater(t, f)
           \/ WorkerRearms(t, f)

OneShotNext ==
    \/ OneShotLoop
    \/ \E t \in Threads : OneShotWorker(t)
    \/ ClientNext /\ UNCHANGED oneShotVars

OneShotSpec == OneShotInit /\ [][OneShotNext]_<<kernelVars, oneShotVars>>

-----------------------------------------------------------------------------
(* Properties *)

\* Who is going to read f: the epoll set, the loop, or a thread.
Readers(f) ==
    {<<"epoll", g>> : g \in {f} \cap {g \in Fd : Armed(g)}}
    \cup {<<"loop", g>> : g \in {f} \cap fired}
    \cup {<<"thread", t>> : t \in {t \in Threads : meant[t] = f \/ sockfd[t] = f}}

\* EPOLLONESHOT and reset_oneshot: as long as each thread has read its argument
\* before main wrote the next, a connection has one reader at every moment,
\* neither two nor none, unless no thread could be started for it; and nobody
\* reads what was closed.
OneReader ==
    ~mixed =>
        \A f \in Fd :
            /\ f \in open \ dropped => \E r \in Readers(f) : Readers(f) = {r}
            /\ f \notin open \ dropped => Readers(f) = {}

\* Then a connection whose client has ended is read to its end and closed, also
\* when the end comes between the thread's last recv and EPOLL_CTL_MOD.
EndedGetsClosed ==
    \A f \in Fd :
        (f \in open /\ peer[f] # "up") ~> (f \notin open \/ f \in dropped \/ mixed)
=============================================================================
