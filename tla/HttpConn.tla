-------------------------------- MODULE HttpConn --------------------------------
(***************************************************************************)
(* The HTTP server: the loop of server_main.cpp and the http_conn objects, *)
(* one for each descriptor, that it shares with the workers of the thread  *)
(* pool.  A descriptor is registered with EPOLLONESHOT, so whoever has     *)
(* been told of it owns its object until it is registered again.  The pool *)
(* is TaskPool, which ThreadPool implements.                               *)
(*                                                                         *)
(* What a request says is left out: the parser gives any result it can     *)
(* give.  So are the mapped file and how much of an answer one writev      *)
(* takes.                                                                  *)
(***************************************************************************)
EXTENDS Epoll, Sequences

CONSTANTS
    Workers,            \* the threads of the pool
    Capacity,           \* of the pool: m_max_requests + 1
    MaxDrift,           \* bound: races for m_user_count, and its excess over MAX_FD
    Reuse               \* bound: accept may return what a worker is closing

ASSUME HttpAssumption ==
    /\ Capacity \in Nat \ {0}
    /\ MaxDrift \in Nat /\ Reuse \in BOOLEAN

NoFd == -1
Wild == -2
MAX_FD == MaxFd

VARIABLES
    m_sockfd,       \* m_sockfd[f] and so on: fields of users[f]
    m_read_idx,     \* "in" the buffer, at its "end", or "before" it
    answer,         \* m_write_idx # 0: there is something to write
    m_user_count,
    storing,        \* {n}: main has loaded m_user_count and is to store n
    races,          \* history: loads while another thread was to store
    batch,          \* events to handle: a descriptor with "in", "out" or "hup"
    cur,            \* the connection that main is reading, NoFd, or Wild
    again,          \* errno is EAGAIN in read()
    queue, holding, call, offered,      \* the pool
    at,             \* at[w]: where worker w is in process()
    tmp,            \* tmp[w]: m_user_count as w has loaded it
    crossed         \* history: init() ran on an object that a worker held

count == <<m_user_count, storing, races>>
object == <<m_sockfd, m_read_idx, answer, count>>
loop == <<batch, cur, again>>
pool == <<queue, holding, call, offered>>
worker == <<at, tmp>>
vars == <<kernelVars, object, loop, pool, worker, crossed>>

Pool == INSTANCE TaskPool
            WITH Clients <- {"main"}, Items <- Fd, NoItem <- NoFd

\* The constructor of an object sets nothing (http_conn.h:56).
Init ==
    /\ EpollInit
    /\ m_sockfd \in [Fd -> Fd \cup {NoFd}]
    /\ m_read_idx = [f \in Fd |-> "in"]
    /\ answer = [f \in Fd |-> FALSE]
    /\ m_user_count = 0 /\ storing = {} /\ races = 0
    /\ batch = {} /\ cur = NoFd /\ again = FALSE
    /\ Pool!Init
    /\ at = [w \in Workers |-> "idle"]
    /\ tmp = [w \in Workers |-> 0]
    /\ crossed = FALSE

-----------------------------------------------------------------------------
(* Calls that main and the workers share *)

\* ++ and -- of m_user_count are a load and a store, without a lock: what another
\* thread stores in between is lost.
Racing == storing # {} \/ \E w \in Workers : at[w] = "counting"

Loads ==
    /\ Racing => races < MaxDrift
    /\ races' = IF Racing THEN races + 1 ELSE races

\* In main, which stores before it does anything else.
Adds(n) ==
    /\ Loads
    /\ storing' = {m_user_count + n}
    /\ UNCHANGED m_user_count

\* The object has a descriptor, and it is open.
Connected(f) == m_sockfd[f] # NoFd /\ f \in open

\* addfd( , , true ): EPOLLONESHOT.  Mutants: without it; init() without addfd.
Mut_addfd == "level"
Mut_addfdNone == "none"
addfd == "in"

\* EPOLL_CTL_MOD with m_sockfd, which is -1 after close_conn.
modfd(f, ev) ==
    /\ interest' = IF Connected(f) THEN [interest EXCEPT ![f] = ev] ELSE interest
    /\ UNCHANGED <<open, inbox, peer, backlog, edges>>

removefd(f) == IF f \in open THEN Closed(f) ELSE UNCHANGED kernelVars

\* In main, which does nothing else meanwhile.
close_conn(f) ==
    /\ IF m_sockfd[f] = NoFd
       THEN UNCHANGED <<kernelVars, m_sockfd, count>>
       ELSE /\ removefd(f)
            /\ m_sockfd' = [m_sockfd EXCEPT ![f] = NoFd]
            /\ Adds(-1)
    /\ UNCHANGED <<m_read_idx, answer>>

\* The private init().
Reset(f) ==
    /\ m_read_idx' = [m_read_idx EXCEPT ![f] = "in"]
    /\ answer' = [answer EXCEPT ![f] = FALSE]

\* Mutant: the private one is called in its place.
Mut_init(f) == Reset(f) /\ UNCHANGED <<m_sockfd, count, crossed>>

\* The public one, less the registration.
init(f) ==
    /\ m_sockfd' = [m_sockfd EXCEPT ![f] = f]
    /\ Adds(1)
    /\ Reset(f)
    /\ LET held == \E w \in Workers : holding[w] = f IN
           (held => Reuse) /\ crossed' = (crossed \/ held)

-----------------------------------------------------------------------------
(* The loop of main *)

AtLoop == cur = NoFd /\ call["main"] = "none" /\ storing = {}

MainStores ==
    /\ m_user_count' \in storing
    /\ storing' = {}
    /\ UNCHANGED <<kernelVars, m_sockfd, m_read_idx, answer, races, loop, pool, worker, crossed>>

Kind(f) ==
    IF f = listenfd THEN "in"
    ELSE IF peer[f] # "up" THEN "hup"
    ELSE IF interest[f] = "out" THEN "out" ELSE "in"

\* A socket that waits for EPOLLOUT may or may not have room.
epoll_wait ==
    /\ AtLoop /\ batch = {}
    /\ \E room \in SUBSET {f \in open : interest[f] = "out"} :
           /\ Reported \cup room # {}
           /\ batch' = {<<f, Kind(f)>> : f \in Reported \cup room}
           /\ interest' = Disarmed(Reported \cup room)
    /\ edges' = {}
    /\ UNCHANGED <<open, inbox, peer, backlog, object, cur, again, pool, worker, crossed>>

\* "epoll failure": main leaves the loop and deletes users and the pool under the
\* workers.  What becomes of them is not modelled.
EpollFails ==
    /\ AtLoop /\ batch = {}
    /\ cur' = Wild
    /\ UNCHANGED <<kernelVars, object, batch, again, pool, worker, crossed>>

Event(f, kind) ==
    /\ AtLoop
    /\ <<f, kind>> \in batch
    /\ batch' = batch \ {<<f, kind>>}
    /\ UNCHANGED worker

\* One accept for an edge.  A server that is full (or miscounts) closes the
\* connection and goes on to init(), whose registration then fails.
Accept ==
    /\ Event(listenfd, "in")
    /\ m_user_count < MAX_FD + MaxDrift
    /\ \E f \in Fd \ open :
           /\ IF m_user_count >= MAX_FD THEN Aborted ELSE Opened(f, addfd)
           /\ init(f)
    /\ UNCHANGED <<cur, again, pool>>

AcceptFails ==
    /\ Event(listenfd, "in")
    /\ IF open = Fd THEN UNCHANGED kernelVars ELSE Aborted
    /\ UNCHANGED <<object, cur, again, pool, crossed>>

\* Mutant: the event is left alone.
Mut_Hangup(f) == Event(f, "hup") /\ UNCHANGED <<kernelVars, object, cur, again, pool, crossed>>

Hangup(f) ==
    /\ Event(f, "hup")
    /\ close_conn(f)
    /\ UNCHANGED <<cur, again, pool, crossed>>

\* A full buffer ends read() at once; else errno is what an earlier call left.
ReadBegins(f) ==
    /\ Event(f, "in")
    /\ IF m_read_idx[f] = "end"
       THEN close_conn(f) /\ UNCHANGED <<cur, again>>
       ELSE cur' = f /\ again' \in BOOLEAN /\ UNCHANGED <<kernelVars, object>>
    /\ UNCHANGED <<pool, crossed>>

\* Between two reads errno may become anything, and is FALSE here.
ReadEnds(c) == cur' = c /\ again' = FALSE

\* recv finds data and there is room for it.
Arrived(f) ==
    /\ cur = f
    /\ Connected(f) /\ inbox[f] > 0
    /\ m_read_idx[f] = "in"

ReadMore(f) ==
    /\ Arrived(f)
    /\ Taken(f)
    /\ \E i \in {"in", "end"} : m_read_idx' = [m_read_idx EXCEPT ![f] = i]
    /\ UNCHANGED <<m_sockfd, answer, count, loop, pool, worker, crossed>>

\* "bytes_read == 1": one byte with errno at EAGAIN is what ends the loop well.
\* The byte is not counted, and the object is offered to the pool.
ReadReturnsTrue(f) ==
    /\ Arrived(f)
    /\ again
    /\ Taken(f)
    /\ Pool!Offer("main", f)
    /\ ReadEnds(NoFd)
    /\ UNCHANGED <<object, batch, worker, crossed>>

\* One byte with another errno; the end of the connection; or data and a
\* buffer that is full, when recv is asked for nothing.
ReadReturnsFalse(f) ==
    /\ cur = f
    /\ \/ Arrived(f) /\ ~again
       \/ Connected(f) /\ inbox[f] > 0 /\ m_read_idx[f] = "end"
       \/ Connected(f) /\ inbox[f] = 0 /\ peer[f] = "fin"
    /\ close_conn(f)
    /\ ReadEnds(NoFd)
    /\ UNCHANGED <<batch, pool, worker, crossed>>

\* recv returns -1 (EAGAIN, ECONNRESET once, EBADF), which is added to
\* m_read_idx, and the loop goes on.
ReadFails(f) ==
    /\ cur = f
    /\ Connected(f) => peer[f] = "rst" \/ (peer[f] = "up" /\ inbox[f] = 0)
    /\ again' = (Connected(f) /\ peer[f] = "up")
    /\ peer' = IF Connected(f) /\ peer[f] = "rst" THEN [peer EXCEPT ![f] = "fin"] ELSE peer
    /\ \E i \in IF m_read_idx[f] = "end" THEN {"in"} ELSE {m_read_idx[f], "before"} :
           m_read_idx' = [m_read_idx EXCEPT ![f] = i]
    /\ UNCHANGED <<open, inbox, backlog, interest, edges, m_sockfd, answer, count,
                   batch, cur, pool, worker, crossed>>

\* Data is written before the buffer.  What becomes of main is not modelled.
ReadWild(f) ==
    /\ cur = f
    /\ Connected(f) /\ inbox[f] > 0 /\ m_read_idx[f] = "before"
    /\ ReadEnds(Wild)
    /\ UNCHANGED <<kernelVars, object, batch, pool, worker, crossed>>

\* append: the object is queued, or refused and then owned by nobody.
append ==
    /\ \/ Pool!Accept("main") \/ Pool!Refuse("main") \/ Pool!Answer("main")
    /\ UNCHANGED <<kernelVars, object, loop, worker, crossed>>

\* Mutant: EAGAIN without registering for EPOLLOUT.
Mut_WriteStays(f) ==
    /\ Event(f, "out")
    /\ answer[f] /\ Connected(f)
    /\ UNCHANGED <<kernelVars, object, cur, again, pool, crossed>>

\* write() returns true: there was nothing to write, or EAGAIN.
WriteStays(f) ==
    /\ Event(f, "out")
    /\ answer[f] => Connected(f)
    /\ modfd(f, IF answer[f] THEN "out" ELSE "in")
    /\ IF answer[f] THEN UNCHANGED <<m_read_idx, answer>> ELSE Reset(f)
    /\ UNCHANGED <<m_sockfd, count, cur, again, pool, crossed>>

\* All written, or an error: write() registers the descriptor and main closes it.
WriteEnds(f) ==
    /\ Event(f, "out")
    /\ answer[f]
    /\ close_conn(f)
    /\ UNCHANGED <<cur, again, pool, crossed>>

-----------------------------------------------------------------------------
(* The workers *)

\* Worker w, in process() for users[f], goes from one place to the next.
Goes(w, f, from, to) ==
    /\ holding[w] = f
    /\ at[w] = from
    /\ at' = [at EXCEPT ![w] = to]
    /\ UNCHANGED <<loop, crossed>>

\* Mutant: run() calls process() with the queue still locked.
Mut_Take(w) ==
    /\ Pool!Take(w)
    /\ \A v \in Workers : at[v] = "idle"
    /\ Goes(w, NoFd, "idle", "parse")
    /\ UNCHANGED <<kernelVars, object, tmp>>

Take(w) ==
    /\ Pool!Take(w)
    /\ Goes(w, NoFd, "idle", "parse")
    /\ UNCHANGED <<kernelVars, object, tmp>>

\* What the parser may find in a request.  Each is the set of what the function
\* of that name returns, whatever the buffer holds.
parse_line == {"LINE_OK", "LINE_OPEN", "LINE_BAD"}
parse_request_line == {"NO_REQUEST", "BAD_REQUEST"}

\* After the request line nothing has moved on: an open line is empty, or the
\* '\r' of one; a bad one is what made it bad, an unknown header.
parse_headers(line) ==
    IF line = "LINE_OPEN" THEN {"NO_REQUEST", "GET_REQUEST"} ELSE {"NO_REQUEST"}

\* "FILE_REQUEST" is for a file that is not empty.
do_request ==
    {"NO_RESOURCE", "FORBIDDEN_REQUEST", "BAD_REQUEST", "FILE_REQUEST", "EMPTY_FILE"}

\* "line_status == parse_line()" turns the loop around: a line that is complete
\* ends it, and one that is not is the request.  A header changes nothing, so
\* the loop meets it again for ever.
process_read ==
    UNION {
        IF line = "LINE_OK" THEN {"NO_REQUEST"}
        ELSE (parse_request_line \ {"NO_REQUEST"})
             \cup {"forever" : h \in parse_headers(line) \ {"GET_REQUEST"}}
             \cup UNION {do_request : h \in parse_headers(line) \ {"NO_REQUEST"}}
        : line \in parse_line}

\* The buffer has room for one answer.
add_response(f) == IF answer[f] THEN BOOLEAN ELSE {TRUE}

\* There is no case for NO_RESOURCE, and the one for an empty file runs on into
\* the default.
process_write(f, code) ==
    IF code \in {"NO_RESOURCE", "EMPTY_FILE"} THEN {FALSE}
    ELSE IF code = "FILE_REQUEST" THEN {TRUE}
    ELSE add_response(f)

Incomplete(w, f) ==
    /\ "NO_REQUEST" \in process_read
    /\ Goes(w, f, "parse", "in")
    /\ UNCHANGED <<kernelVars, object, pool, tmp>>

ParsesForEver(w, f) ==
    /\ "forever" \in process_read
    /\ Goes(w, f, "parse", "forever")
    /\ UNCHANGED <<kernelVars, object, pool, tmp>>

\* What process_write may return ok for, and what it then leaves to write.
Responds(f, ok) ==
    \E code \in process_read \ {"NO_REQUEST", "forever"} :
        /\ ok \in process_write(f, code)
        /\ answer' = [answer EXCEPT ![f] = @ \/ code # "NO_RESOURCE"]

Answers(w, f) ==
    /\ Goes(w, f, "parse", "out")
    /\ Responds(f, TRUE)
    /\ UNCHANGED <<kernelVars, m_sockfd, m_read_idx, count, pool, tmp>>

NoAnswer(w, f) ==
    /\ Goes(w, f, "parse", IF m_sockfd[f] = NoFd THEN "out" ELSE "close")
    /\ Responds(f, FALSE)
    /\ UNCHANGED <<kernelVars, m_sockfd, m_read_idx, count, pool, tmp>>

\* close_conn in a worker: from here accept may return the descriptor again,
\* and main has the object to itself, it believes.
Closes(w, f) ==
    /\ Goes(w, f, "close", "closed")
    /\ removefd(f)
    /\ UNCHANGED <<object, pool, tmp>>

Forgets(w, f) ==
    /\ Goes(w, f, "closed", "counting")
    /\ m_sockfd' = [m_sockfd EXCEPT ![f] = NoFd]
    /\ Loads
    /\ tmp' = [tmp EXCEPT ![w] = m_user_count]
    /\ UNCHANGED <<kernelVars, m_read_idx, answer, m_user_count, storing, pool>>

Counts(w, f) ==
    /\ Goes(w, f, "counting", "out")
    /\ m_user_count' = tmp[w] - 1
    /\ tmp' = [tmp EXCEPT ![w] = 0]
    /\ UNCHANGED <<kernelVars, m_sockfd, m_read_idx, answer, storing, races, pool>>

\* The modfd at the end of process(), after close_conn too.
Rearms(w, f) ==
    /\ \E ev \in {"in", "out"} : Goes(w, f, ev, "idle") /\ modfd(f, ev)
    /\ Pool!Finish(w)
    /\ UNCHANGED <<object, tmp>>

-----------------------------------------------------------------------------

Main ==
    \/ epoll_wait
    \/ Accept
    \/ AcceptFails
    \/ MainStores
    \/ append
    \/ \E f \in Fd :
           \/ Hangup(f)
           \/ ReadBegins(f)
           \/ ReadMore(f)
           \/ ReadReturnsTrue(f)
           \/ ReadReturnsFalse(f)
           \/ ReadFails(f)
           \/ ReadWild(f)
           \/ WriteStays(f)
           \/ WriteEnds(f)

Process(w) ==
    \E f \in Fd :
        \/ Incomplete(w, f)
        \/ ParsesForEver(w, f)
        \/ Answers(w, f)
        \/ NoAnswer(w, f)
        \/ Closes(w, f)
        \/ Forgets(w, f)
        \/ Counts(w, f)
        \/ Rearms(w, f)

Clients == ClientNext /\ UNCHANGED <<object, loop, pool, worker, crossed>>

Next ==
    \/ Main
    \/ EpollFails
    \/ \E w \in Workers : Take(w) \/ Process(w)
    \/ Clients

Spec == Init /\ [][Next]_vars

\* Threads run, and nothing says that epoll_wait fails; no worker is promised
\* that it is the one to take a request.
FairSpec ==
    /\ Spec
    /\ WF_vars(Main)
    /\ WF_vars(\E w \in Workers : Take(w))
    /\ \A w \in Workers : WF_vars(Process(w))

-----------------------------------------------------------------------------
(* Properties *)

TypeOK ==
    /\ KernelTypes
    /\ m_sockfd \in [Fd -> Fd \cup {NoFd}]
    /\ m_read_idx \in [Fd -> {"before", "in", "end"}]
    /\ answer \in [Fd -> BOOLEAN]
    /\ m_user_count \in Int /\ storing \subseteq Int /\ races \in 0 .. MaxDrift
    /\ batch \subseteq (Fd \X {"in", "out", "hup"}) \cup {<<listenfd, "in">>}
    /\ cur \in Fd \cup {NoFd, Wild}
    /\ again \in BOOLEAN
    /\ queue \in Seq(Fd)
    /\ holding \in [Workers -> Fd \cup {NoFd}]
    /\ at \in [Workers -> {"idle", "parse", "forever", "in", "out", "close", "closed", "counting"}]
    /\ tmp \in [Workers -> Int]
    /\ crossed \in BOOLEAN

\* Who may touch users[f], or is going to be told of it.
Owners(f) ==
    {<<"epoll", k>> : k \in {interest[f]} \cap {"in", "out"}}
    \cup {<<"event", k>> : k \in {k \in {"in", "out", "hup"} : <<f, k>> \in batch}}
    \cup {<<"main", g>> : g \in {f} \cap {cur}}
    \cup {<<"append", g>> : g \in {f} \cap {g \in {offered["main"]} : call["main"] = "asking"}}
    \cup {<<"queue", i>> : i \in {i \in DOMAIN queue : queue[i] = f}}
    \cup {<<"worker", w>> : w \in {w \in Workers : holding[w] = f}}

\* EPOLLONESHOT gives an object one owner at a time, among the epoll set, the
\* events, main, the pool and the workers, as long as no descriptor was used
\* again under a worker that is still closing it.
OneOwner ==
    ~crossed => \A f \in Fd : \A p, q \in Owners(f) : p = q

\* Then also each open connection has its own object, and what anybody owns is
\* open, except for the worker that has just closed it.
ObjectIsCurrent ==
    ~crossed =>
        \A f \in Fd :
            /\ f \in open => m_sockfd[f] = f
            /\ f \notin open =>
                   \A p \in Owners(f) :
                       /\ p[1] = "worker"
                       /\ at[p[2]] \in {"closed", "counting", "out"}

\* No step leaves an open connection without an owner, except append() when the
\* queue is full (server_main.cpp:138): nobody hears of that one again.
ForgetsOnlyWhenFull ==
    [][\A f \in open \cap open' :
           (Owners(f) # {} /\ Owners(f)' = {})
               => crossed \/ cur' = Wild \/ (call'["main"] = "refused" /\ Len(queue) >= Capacity)]_vars

\* What is queued is taken, unless the parser's endless loop has all workers or
\* main has left them.
QueuedIsTaken ==
    (\A f \in Fd :
        (\E i \in DOMAIN queue : queue[i] = f)
            ~> \/ \A i \in DOMAIN queue : queue[i] # f
               \/ \A w \in Workers : at[w] = "forever"
               \/ cur = Wild)

\* A connection that epoll watches and whose client has ended is closed, if
\* read() always comes back, which the code does not see to.
EndedIsClosed ==
    []<>AtLoop =>
        \A f \in Fd :
            (f \in open /\ Armed(f) /\ peer[f] # "up") ~> (f \notin open \/ crossed)

\* http_conn.cpp:72: EPOLLONESHOT is there for the safety of the threads.
OneThread ==
    \A f \in Fd :
        Cardinality({w \in Workers : holding[w] = f}) + (IF cur = f THEN 1 ELSE 0) <= 1
=============================================================================
