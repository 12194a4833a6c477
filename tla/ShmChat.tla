-------------------------------- MODULE ShmChat --------------------------------
(***************************************************************************)
(* 13-4_shm_chater_server.cpp: a chat server that forks one child per      *)
(* client.  The parent accepts, keeps the directory users/sub_process,     *)
(* relays "slot idx has data" between the children's pipes and turns its   *)
(* signals into bytes of a pipe.  A child copies what its client sends     *)
(* into the slot of the shared memory it was given at fork.                *)
(*                                                                         *)
(* A process id stands for the child and for the client it serves.  Every  *)
(* epoll set is edge triggered: ready and conn_ready hold the edges that   *)
(* no epoll_wait has reported yet.                                         *)
(***************************************************************************)
EXTENDS Integers, Sequences, FiniteSets

CONSTANTS
    Pids,          \* bound: the connections, and the children, of a behaviour
    NoPid,         \* an entry of users never written
    listenfd, sig_pipefd,
    USER_LIMIT,
    MaxData,       \* bound: buffers of data a client sends
    MaxTerm,       \* bound: SIGTERM and SIGINT sent to the parent from outside
    PipeCap,       \* messages a socketpair holds
    SigPipeCap,    \* bytes sig_pipefd holds
    EpollMayFail   \* bound: an epoll_wait may fail

ASSUME ShmChatAssumption ==
    /\ USER_LIMIT \in Nat \ {0}
    /\ MaxData \in Nat /\ MaxTerm \in Nat
    /\ PipeCap \in Nat \ {0} /\ SigPipeCap \in Nat \ {0}
    /\ EpollMayFail \in BOOLEAN
    /\ NoPid \notin Pids
    /\ listenfd # sig_pipefd
    /\ {listenfd, sig_pipefd} \cap Pids = {}

VARIABLES
    \* the parent
    pc,            \* wait, events, signals, reap, stopped
    events,        \* the events of this epoll_wait not handled yet
    signals,       \* the signals of this recv not handled yet
    users,         \* users[i]: the pid of entry i
    sub_process,   \* sub_process[p]: the entry of child p, or -1
    user_count, terminate, stop_server,
    \* what the kernel keeps for the parent
    ready,         \* edges of the parent's epoll set, oldest first
    backlog,       \* connections not accepted yet
    sigpipe,       \* bytes in sig_pipefd
    pending,       \* signals whose handler has not run yet
    terms,         \* how many times the parent was told to terminate
    \* the clients
    client,        \* none, backlog, open, aborted, refused
    fin,           \* fin[p]: client p closed or reset its connection
    inbox,         \* inbox[p]: buffers of client p's data not received yet
    sent,          \* sent[p]: buffers client p sent so far
    \* the children
    cpc,           \* none, forked, closed, check, enter, wait, send, exited, reaped
    idx,           \* idx[p]: run_child's parameter
    stop_child,
    conn_ready,    \* conn_ready[p]: an edge of connfd in p's epoll set
    term_pending,  \* children with a SIGTERM not delivered yet
    to_parent,     \* to_parent[p]: messages in the pipe from p to the parent
    to_child       \* to_child[p]: slots in the pipe from the parent to p

directory == <<users, sub_process, user_count>>
parentVars == <<pc, events, signals, directory, terminate, stop_server>>
kernelVars == <<ready, backlog, sigpipe, pending, terms>>
clientVars == <<client, fin, inbox, sent>>
childVars == <<cpc, idx, stop_child, conn_ready, term_pending>>
pipeVars == <<to_parent, to_child>>
vars == <<parentVars, kernelVars, clientVars, childVars, pipeVars>>

Entries == 0..USER_LIMIT
Watched == Pids \cup {listenfd, sig_pipefd}
Recorded == {users[i] : i \in 0..(user_count - 1)}
Unreaped == {p \in Pids : cpc[p] \notin {"none", "reaped"}}
Running == {p \in Pids : cpc[p] \notin {"none", "exited", "reaped"}}

Init ==
    /\ pc = "wait" /\ events = <<>> /\ signals = <<>>
    /\ users = [i \in Entries |-> NoPid]
    /\ sub_process = [p \in Pids |-> -1]
    /\ user_count = 0 /\ terminate = FALSE /\ stop_server = FALSE
    /\ ready = <<>> /\ backlog = <<>> /\ sigpipe = <<>>
    /\ pending = {} /\ terms = 0
    /\ client = [p \in Pids |-> "none"]
    /\ fin = [p \in Pids |-> FALSE]
    /\ inbox = [p \in Pids |-> 0]
    /\ sent = [p \in Pids |-> 0]
    /\ cpc = [p \in Pids |-> "none"]
    /\ idx = [p \in Pids |-> 0]
    /\ stop_child = [p \in Pids |-> FALSE]
    /\ conn_ready = [p \in Pids |-> FALSE]
    /\ term_pending = {}
    /\ to_parent = [p \in Pids |-> 0]
    /\ to_child = [p \in Pids |-> <<>>]

-----------------------------------------------------------------------------
(***************************************************************************)
(* The kernel: edges, and signals.                                         *)
(***************************************************************************)
Contains(s, x) == \E i \in 1..Len(s) : s[i] = x

\* The members of s that are in S, in the order of s.
Kept(s, S) ==
    LET kept[i \in 0..Len(s)] ==
          IF i = 0 THEN <<>>
          ELSE IF s[i] \in S THEN Append(kept[i - 1], s[i]) ELSE kept[i - 1]
    IN  kept[Len(s)]

\* An edge joins the tail of the ready list unless it is on it.
Edge(fd) == ready' = IF Contains(ready, fd) THEN ready ELSE Append(ready, fd)

\* sig_handler: one byte into the non-blocking sig_pipefd, lost when full.
RunHandler(s) ==
    /\ pc # "stopped"
    /\ s \in pending
    /\ pending' = pending \ {s}
    /\ sigpipe' = IF Len(sigpipe) < SigPipeCap THEN Append(sigpipe, s) ELSE sigpipe
    /\ Edge(sig_pipefd)
    /\ UNCHANGED <<parentVars, backlog, terms, clientVars, childVars, pipeVars>>

\* kill(1) or the terminal: SIGTERM and SIGINT have the same case.
RaiseTerm ==
    /\ pc # "stopped"
    /\ terms < MaxTerm
    /\ terms' = terms + 1
    /\ pending' = pending \cup {"TERM"}
    /\ UNCHANGED <<parentVars, ready, backlog, sigpipe, clientVars, childVars,
                   pipeVars>>

-----------------------------------------------------------------------------
(***************************************************************************)
(* The clients.                                                            *)
(***************************************************************************)
Connect(p) ==
    /\ pc # "stopped"
    /\ client[p] = "none"
    /\ client' = [client EXCEPT ![p] = "backlog"]
    /\ backlog' = Append(backlog, p)
    /\ Edge(listenfd)
    /\ UNCHANGED <<parentVars, sigpipe, pending, terms, fin, inbox, sent,
                   childVars, pipeVars>>

\* One buffer of data, from the moment the kernel has the connection.  Each
\* arrival is an edge, which waits until the child adds connfd.
ClientSend(p) ==
    /\ client[p] \in {"backlog", "open"} /\ ~ fin[p]
    /\ sent[p] < MaxData
    /\ sent' = [sent EXCEPT ![p] = @ + 1]
    /\ inbox' = [inbox EXCEPT ![p] = @ + 1]
    /\ conn_ready' = [conn_ready EXCEPT ![p] = TRUE]
    /\ UNCHANGED <<parentVars, kernelVars, client, fin, cpc, idx, stop_child,
                   term_pending, pipeVars>>

ClientClose(p) ==
    /\ client[p] \in {"backlog", "open"} /\ ~ fin[p]
    /\ fin' = [fin EXCEPT ![p] = TRUE]
    /\ conn_ready' = [conn_ready EXCEPT ![p] = TRUE]
    /\ UNCHANGED <<parentVars, kernelVars, client, inbox, sent, cpc, idx,
                   stop_child, term_pending, pipeVars>>

-----------------------------------------------------------------------------
(***************************************************************************)
(* The parent's loop.                                                      *)
(***************************************************************************)

\* What poll says of a descriptor that has an edge.
Readable(fd) ==
    \/ fd = listenfd /\ backlog # <<>>
    \/ fd = sig_pipefd /\ sigpipe # <<>>
    \/ fd \in Recorded /\ (to_parent[fd] > 0 \/ cpc[fd] = "exited")

EpollWait ==
    /\ pc = "wait"
    /\ events' = Kept(ready, {fd \in Watched : Readable(fd)})
    /\ events' # <<>>
    /\ ready' = <<>>
    /\ pc' = "events"
    /\ UNCHANGED <<signals, directory, terminate, stop_server, backlog, sigpipe,
                   pending, terms, clientVars, childVars, pipeVars>>

\* "epoll failure": the loop ends, and the children go on without a parent.
EpollFails ==
    /\ EpollMayFail
    /\ pc = "wait"
    /\ pc' = "stopped"
    /\ UNCHANGED <<events, signals, directory, terminate, stop_server,
                   kernelVars, clientVars, childVars, pipeVars>>

\* while ( !stop_server ), tested only when the batch is done
EventsDone ==
    /\ pc = "events"
    /\ events = <<>>
    /\ pc' = IF stop_server THEN "stopped" ELSE "wait"
    /\ UNCHANGED <<events, signals, directory, terminate, stop_server,
                   kernelVars, clientVars, childVars, pipeVars>>

NextEvent(fd) ==
    /\ pc = "events"
    /\ events # <<>>
    /\ Head(events) = fd
    /\ events' = Tail(events)

UserLimitReached == user_count >= USER_LIMIT

\* The connection accept takes; state is what becomes of it.
TakeConnection(p, state) ==
    /\ backlog # <<>>
    /\ p = Head(backlog)
    /\ backlog' = Tail(backlog)
    /\ client' = [client EXCEPT ![p] = state]

\* "too many users": one accept per event, whatever else is in the backlog
RefuseClient(p) ==
    /\ NextEvent(listenfd)
    /\ UserLimitReached
    /\ TakeConnection(p, "refused")
    /\ UNCHANGED <<pc, signals, directory, terminate, stop_server, ready,
                   sigpipe, pending, terms, fin, inbox, sent, childVars,
                   pipeVars>>

\* fork returns in the parent and in the new child.  An accept that failed is
\* only logged: the child is forked for connfd -1.
Fork(p, state) ==
    /\ NextEvent(listenfd)
    /\ ~ UserLimitReached
    /\ TakeConnection(p, state)
    /\ users' = [users EXCEPT ![user_count] = p]
    /\ sub_process' = [sub_process EXCEPT ![p] = user_count]
    /\ user_count' = user_count + 1
    /\ cpc' = [cpc EXCEPT ![p] = "forked"]
    /\ idx' = [idx EXCEPT ![p] = user_count]
    /\ UNCHANGED <<pc, signals, terminate, stop_server, ready, sigpipe, pending,
                   terms, fin, inbox, sent, stop_child, conn_ready,
                   term_pending, pipeVars>>

AcceptClient(p) == Fork(p, "open") \/ Fork(p, "aborted")

\* fork fails: connfd is closed, and the next client takes over the entry
ForkFails(p) ==
    /\ NextEvent(listenfd)
    /\ ~ UserLimitReached
    /\ TakeConnection(p, "refused")
    /\ UNCHANGED <<pc, signals, directory, terminate, stop_server, ready,
                   sigpipe, pending, terms, fin, inbox, sent, childVars,
                   pipeVars>>

\* recv on sig_pipefd takes all the bytes there are.
ReadSignals ==
    /\ NextEvent(sig_pipefd)
    /\ signals' = sigpipe
    /\ sigpipe' = <<>>
    /\ pc' = "signals"
    /\ UNCHANGED <<directory, terminate, stop_server, ready, backlog, pending,
                   terms, clientVars, childVars, pipeVars>>

SignalsDone ==
    /\ pc = "signals"
    /\ signals = <<>>
    /\ pc' = "events"
    /\ UNCHANGED <<events, signals, directory, terminate, stop_server,
                   kernelVars, clientVars, childVars, pipeVars>>

NextSignal(s) ==
    /\ pc = "signals"
    /\ signals # <<>>
    /\ Head(signals) = s
    /\ signals' = Tail(signals)

\* case SIGCHLD: the waitpid loop begins
SigChld ==
    /\ NextSignal("CHLD")
    /\ pc' = "reap"
    /\ UNCHANGED <<events, directory, terminate, stop_server, kernelVars,
                   clientVars, childVars, pipeVars>>

Mut_ReapOnce(p) ==
    LET del_user == sub_process[p]
        last == user_count - 1
    IN  /\ pc = "reap"
        /\ cpc[p] = "exited"
        /\ pc' = "signals"
        /\ cpc' = [cpc EXCEPT ![p] = "reaped"]
        /\ users' = [users EXCEPT ![del_user] = users[last]]
        /\ user_count' = last
        /\ sub_process' = [sub_process EXCEPT ![p] = -1, ![users[last]] = del_user]
        /\ ready' = Kept(ready, Watched \ {users[del_user]})
        /\ UNCHANGED <<events, signals, terminate, stop_server, backlog,
                       sigpipe, pending, terms, clientVars, idx, stop_child,
                       conn_ready, term_pending, pipeVars>>

Mut_ReapTwice(p) ==
    /\ pc = "reap"
    /\ cpc[p] = "exited"
    /\ cpc' = [cpc EXCEPT ![p] = "reaped"]
    /\ user_count' = user_count - 2
    /\ UNCHANGED <<pc, events, signals, users, sub_process, terminate,
                   stop_server, kernelVars, clientVars, idx, stop_child,
                   conn_ready, term_pending, pipeVars>>

Mut_ReapUnmapped(p) ==
    LET del_user == sub_process[p]
    IN  /\ pc = "reap"
        /\ cpc[p] = "exited"
        /\ cpc' = [cpc EXCEPT ![p] = "reaped"]
        /\ users' = [users EXCEPT ![del_user] = users[user_count - 1]]
        /\ user_count' = user_count - 1
        /\ sub_process' = [sub_process EXCEPT ![p] = -1]
        /\ ready' = Kept(ready, Watched \ {users[del_user]})
        /\ UNCHANGED <<pc, events, signals, terminate, stop_server, backlog,
                       sigpipe, pending, terms, clientVars, idx, stop_child,
                       conn_ready, term_pending, pipeVars>>

Mut_ReapInPlace(p) ==
    /\ pc = "reap"
    /\ cpc[p] = "exited"
    /\ cpc' = [cpc EXCEPT ![p] = "reaped"]
    /\ user_count' = user_count - 1
    /\ sub_process' = [sub_process EXCEPT ![p] = -1]
    /\ UNCHANGED <<pc, events, signals, users, terminate, stop_server,
                   kernelVars, clientVars, idx, stop_child, conn_ready,
                   term_pending, pipeVars>>

\* One turn of the loop: waitpid returns p, whose entry is filled with the
\* last one.  sub_process is written twice, in this order.
Reap(p) ==
    LET del_user == sub_process[p]
        last == user_count - 1
    IN  /\ pc = "reap"
        /\ cpc[p] = "exited"
        /\ cpc' = [cpc EXCEPT ![p] = "reaped"]
        /\ IF del_user < 0 \/ del_user > USER_LIMIT
             THEN /\ sub_process' = [sub_process EXCEPT ![p] = -1]
                  /\ UNCHANGED <<users, user_count, ready>>
             ELSE /\ users' = [users EXCEPT ![del_user] = users[last]]
                  /\ user_count' = last
                  /\ sub_process' = [sub_process EXCEPT ![p] = -1,
                                                        ![users[last]] = del_user]
                  /\ ready' = Kept(ready, Watched \ {users[del_user]})
        /\ UNCHANGED <<pc, events, signals, terminate, stop_server, backlog,
                       sigpipe, pending, terms, clientVars, idx, stop_child,
                       conn_ready, term_pending, pipeVars>>

\* waitpid returns 0
ReapDone ==
    /\ pc = "reap"
    /\ \A p \in Pids : cpc[p] # "exited"
    /\ stop_server' = (stop_server \/ (terminate /\ user_count = 0))
    /\ pc' = "signals"
    /\ UNCHANGED <<events, signals, directory, terminate, kernelVars,
                   clientVars, childVars, pipeVars>>

Mut_SigTerm ==
    /\ NextSignal("TERM")
    /\ terminate' = TRUE
    /\ term_pending' = term_pending
                         \cup ({users[i] : i \in 0..user_count} \cap Pids)
    /\ UNCHANGED <<pc, events, directory, stop_server, kernelVars, clientVars,
                   cpc, idx, stop_child, conn_ready, pipeVars>>

\* case SIGTERM and SIGINT: "kill all the child now"
SigTerm ==
    /\ NextSignal("TERM")
    /\ IF user_count = 0
         THEN /\ stop_server' = TRUE
              /\ UNCHANGED <<terminate, term_pending>>
         ELSE /\ terminate' = TRUE
              /\ term_pending' = term_pending
                                   \cup {p \in Recorded : cpc[p] # "exited"}
              /\ UNCHANGED stop_server
    /\ UNCHANGED <<pc, events, directory, kernelVars, clientVars, cpc, idx,
                   stop_child, conn_ready, pipeVars>>

\* One message of the pipe from child p is read and passed to the pipes of the
\* others; a pipe that is full drops it.  A pipe closed earlier in the batch,
\* or at its end, yields nothing.
RelayMessage(p) ==
    /\ NextEvent(p)
    /\ IF p \in Recorded /\ to_parent[p] > 0
         THEN /\ to_parent' = [to_parent EXCEPT ![p] = @ - 1]
              /\ to_child' = [q \in Pids |->
                    IF q \in Recorded \ {p} /\ Len(to_child[q]) < PipeCap
                      THEN Append(to_child[q], idx[p]) ELSE to_child[q]]
         ELSE UNCHANGED pipeVars
    /\ UNCHANGED <<pc, signals, directory, terminate, stop_server, kernelVars,
                   clientVars, childVars>>

-----------------------------------------------------------------------------
(***************************************************************************)
(* run_child.  Only connfd is in the child's epoll set: the branch that    *)
(* would read the pipe from the parent is never reached.                   *)
(***************************************************************************)
CGoto(p, from, to) == cpc[p] = from /\ cpc' = [cpc EXCEPT ![p] = to]

\* close of sig_pipefd and the other descriptors of the parent
CloseInherited(p) ==
    /\ CGoto(p, "forked", "closed")
    /\ UNCHANGED <<parentVars, kernelVars, clientVars, idx, stop_child,
                   conn_ready, term_pending, pipeVars>>

Mut_InstallHandler(p) ==
    /\ CGoto(p, "closed", "check")
    /\ conn_ready' = [conn_ready EXCEPT ![p] = FALSE]
    /\ UNCHANGED <<parentVars, kernelVars, clientVars, idx, stop_child,
                   term_pending, pipeVars>>

\* addfd and addsig: from here on SIGTERM runs child_term_handler
InstallHandler(p) ==
    /\ CGoto(p, "closed", "check")
    /\ UNCHANGED <<parentVars, kernelVars, clientVars, idx, stop_child,
                   conn_ready, term_pending, pipeVars>>

\* while ( !stop_child )
TestStop(p) ==
    /\ ~ stop_child[p]
    /\ CGoto(p, "check", "enter")
    /\ UNCHANGED <<parentVars, kernelVars, clientVars, idx, stop_child,
                   conn_ready, term_pending, pipeVars>>

\* the call of epoll_wait: until here a signal does not interrupt it
EnterWait(p) ==
    /\ CGoto(p, "enter", "wait")
    /\ UNCHANGED <<parentVars, kernelVars, clientVars, idx, stop_child,
                   conn_ready, term_pending, pipeVars>>

\* One recv for the edge that epoll_wait reports takes some of what is there.
RecvData(p) ==
    /\ CGoto(p, "wait", "send")
    /\ conn_ready[p] /\ client[p] = "open"
    /\ conn_ready' = [conn_ready EXCEPT ![p] = FALSE]
    /\ \E n \in 1..inbox[p] : inbox' = [inbox EXCEPT ![p] = @ - n]
    /\ UNCHANGED <<parentVars, kernelVars, client, fin, sent, idx, stop_child,
                   term_pending, pipeVars>>

\* recv = 0, or an error other than EAGAIN
RecvEnd(p) ==
    /\ CGoto(p, "wait", "check")
    /\ conn_ready[p] /\ client[p] = "open"
    /\ inbox[p] = 0 /\ fin[p]
    /\ conn_ready' = [conn_ready EXCEPT ![p] = FALSE]
    /\ stop_child' = [stop_child EXCEPT ![p] = TRUE]
    /\ UNCHANGED <<parentVars, kernelVars, clientVars, idx, term_pending,
                   pipeVars>>

\* The blocking send of idx to the parent; nobody reads it any more once the
\* parent is gone.
NotifyParent(p) ==
    /\ CGoto(p, "send", "check")
    /\ IF pc = "stopped"
         THEN UNCHANGED <<to_parent, ready>>
         ELSE /\ to_parent[p] < PipeCap
              /\ to_parent' = [to_parent EXCEPT ![p] = @ + 1]
              /\ Edge(p)
    /\ UNCHANGED <<parentVars, backlog, sigpipe, pending, terms, clientVars,
                   idx, stop_child, conn_ready, term_pending, to_child>>

\* The loop ends: exit closes the pipe, which is an edge for the parent, and
\* raises SIGCHLD.
Exits(p, from) ==
    /\ CGoto(p, from, "exited")
    /\ IF pc = "stopped"
         THEN UNCHANGED <<ready, pending>>
         ELSE Edge(p) /\ pending' = pending \cup {"CHLD"}
    /\ term_pending' = term_pending \ {p}
    /\ UNCHANGED <<parentVars, backlog, sigpipe, terms, clientVars, idx,
                   stop_child, conn_ready, pipeVars>>

ChildExit(p) == stop_child[p] /\ Exits(p, "check")

\* "child epoll failure"
ChildEpollFails(p) == EpollMayFail /\ Exits(p, "wait")

\* SIGTERM under the parent's handler: before its close the child writes into
\* the parent's own sig_pipefd, after it into a closed descriptor.
TermBeforeHandler(p) ==
    /\ p \in term_pending
    /\ cpc[p] \in {"forked", "closed"}
    /\ term_pending' = term_pending \ {p}
    /\ IF cpc[p] = "forked" /\ pc # "stopped" /\ Len(sigpipe) < SigPipeCap
         THEN sigpipe' = Append(sigpipe, "TERM") /\ Edge(sig_pipefd)
         ELSE UNCHANGED <<sigpipe, ready>>
    /\ UNCHANGED <<parentVars, backlog, pending, terms, clientVars, cpc, idx,
                   stop_child, conn_ready, pipeVars>>

\* child_term_handler: it interrupts an epoll_wait, or a send that blocks,
\* only if the child is inside it.
TermInChild(p) ==
    /\ p \in term_pending
    /\ cpc[p] \in {"check", "enter", "wait", "send"}
    /\ term_pending' = term_pending \ {p}
    /\ stop_child' = [stop_child EXCEPT ![p] = TRUE]
    /\ cpc' = IF cpc[p] = "wait" \/ (cpc[p] = "send" /\ to_parent[p] = PipeCap)
                THEN [cpc EXCEPT ![p] = "check"] ELSE cpc
    /\ UNCHANGED <<parentVars, kernelVars, clientVars, idx, conn_ready, pipeVars>>

-----------------------------------------------------------------------------
ParentNext ==
    \/ EpollWait \/ EventsDone
    \/ \E p \in Pids : RefuseClient(p) \/ AcceptClient(p) \/ ForkFails(p)
                         \/ Reap(p) \/ RelayMessage(p)
    \/ ReadSignals \/ SignalsDone \/ SigChld \/ ReapDone \/ SigTerm

ChildNext(p) ==
    \/ CloseInherited(p) \/ InstallHandler(p) \/ TestStop(p) \/ EnterWait(p)
    \/ RecvData(p) \/ RecvEnd(p) \/ NotifyParent(p)
    \/ ChildExit(p)

SignalNext ==
    \/ \E s \in {"CHLD", "TERM"} : RunHandler(s)
    \/ \E p \in Pids : TermBeforeHandler(p) \/ TermInChild(p)

ClientNext(p) == Connect(p) \/ ClientSend(p) \/ ClientClose(p)

\* Nothing says that epoll_wait ever fails.
Failures == EpollFails \/ \E p \in Pids : ChildEpollFails(p)

Next ==
    \/ ParentNext
    \/ SignalNext
    \/ RaiseTerm
    \/ Failures
    \/ \E p \in Pids : ChildNext(p) \/ ClientNext(p)

Spec == Init /\ [][Next]_vars

(***************************************************************************)
(* Processes that can run do, and signals are delivered.  Nothing is       *)
(* promised of the clients or of who sends SIGTERM.                        *)
(***************************************************************************)
Fairness ==
    /\ WF_vars(ParentNext)
    /\ \A p \in Pids : WF_vars(ChildNext(p))
    /\ \A s \in {"CHLD", "TERM"} : WF_vars(RunHandler(s))
    /\ \A p \in Pids : WF_vars(TermBeforeHandler(p) \/ TermInChild(p))

FairSpec == Spec /\ Fairness

-----------------------------------------------------------------------------
(***************************************************************************)
(* Properties.                                                             *)
(***************************************************************************)

\* The types of the variables.
TypeOK ==
    /\ pc \in {"wait", "events", "signals", "reap", "stopped"}
    /\ events \in Seq(Watched) /\ ready \in Seq(Watched)
    /\ signals \in Seq({"CHLD", "TERM"}) /\ sigpipe \in Seq({"CHLD", "TERM"})
    /\ users \in [Entries -> Pids \cup {NoPid}]
    /\ sub_process \in [Pids -> Entries \cup {-1}]
    /\ user_count \in Entries
    /\ terminate \in BOOLEAN /\ stop_server \in BOOLEAN
    /\ backlog \in Seq(Pids)
    /\ pending \subseteq {"CHLD", "TERM"} /\ terms \in 0..MaxTerm
    /\ client \in [Pids -> {"none", "backlog", "open", "aborted", "refused"}]
    /\ fin \in [Pids -> BOOLEAN]
    /\ inbox \in [Pids -> 0..MaxData] /\ sent \in [Pids -> 0..MaxData]
    /\ cpc \in [Pids -> {"none", "forked", "closed", "check", "enter", "wait",
                         "send", "exited", "reaped"}]
    /\ idx \in [Pids -> Entries]
    /\ stop_child \in [Pids -> BOOLEAN]
    /\ conn_ready \in [Pids -> BOOLEAN]
    /\ term_pending \subseteq Pids
    /\ to_parent \in [Pids -> 0..PipeCap]
    /\ to_child \in [Pids -> Seq(Entries)]

\* The two tables agree in both directions after every accept and every
\* compaction: entry i belongs to the child whose sub_process is i.
DirectoryConsistent ==
    \A i \in 0..(user_count - 1) :
        /\ users[i] \in Pids
        /\ sub_process[users[i]] = i

\* The directory holds exactly the children not waited for yet, whatever the
\* order in which they die and signals arrive: none is forgotten, so each can
\* be reaped and killed, and no entry names a process that is gone.
NoChildForgotten == Recorded = Unreaped

\* A child writes only inside the shared memory, which has USER_LIMIT slots.
WithinLimit ==
    /\ user_count <= USER_LIMIT
    /\ \A p \in Unreaped : idx[p] < USER_LIMIT

\* kill() is only ever sent to a child that was not reaped: a pid the kernel
\* may have given to somebody else is never signalled.
KillsOnlyOwnChildren ==
    [][\A p \in term_pending' \ term_pending : p \in Unreaped]_vars

\* A child that exits is reaped and its entry freed, even when SIGCHLDs merge,
\* unless the server stops first.
ExitedIsReaped ==
    \A p \in Pids : cpc[p] = "exited" ~> (cpc[p] = "reaped" \/ pc = "stopped")

\* What a client sends before its child adds connfd to an epoll set is not
\* missed: edge triggering still reports it, and the child's first recv takes
\* of it, unless the child is told to stop or its epoll_wait fails.
FirstDataIsReceived ==
    \A p \in Pids :
        (client[p] = "open" /\ sent[p] > 0 /\ inbox[p] = sent[p])
            ~> (inbox[p] < sent[p] \/ stop_child[p] \/ cpc[p] \in {"exited", "reaped"})

\* 13-4:95 says that run_child's idx is the number of the client connection
\* the child handles, which is what sub_process holds for its pid.
IndexCurrent ==
    \A p \in Running : pc # "stopped" => idx[p] = sub_process[p]

\* 13-4:329 says that SIGTERM ends the server.
TermEndsServer == terminate ~> pc = "stopped"
=============================================================================
