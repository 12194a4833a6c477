# Formal models of unp_practice

The repository is a collection of network programs that follow a textbook on Linux server programming: each file, named
by the section it belongs to, is a program or a class of its own. This directory keeps TLA+ models of the parts that
carry protocol, concurrency or data-structure logic, the TLC configurations that check them, and proofs for TLAPS.

    tlasany ThreadPool.tla                                  # parse a module
    tlc -config ThreadPool.cfg MCThreadPool                 # model-check (a module M is run through MCM)
    tlapm ThreadPoolProofs.tla                              # check the proofs

`PROJECT.json` lists the components, runs, mutants (a small change of the code that each property must notice), the lines
of the code that each definition translates, the findings and the hazards.

## 1. Inventory

| part | files | state | operations | hard behaviours |
|---|---|---|---|---|
| thread pool | 15-3, 14-2, server_main | list, mutex, semaphore, m_stop | constructor, append, run, destructor | threads between two accesses; interrupted waits; partly failed construction; destruction under running workers |
| shared-memory chat server | 13-4 | users, sub_process, user_count, shared slots, pipes | accept, fork, reap, relay, terminate; the child's receive and notify | merged and dropped signals, edge triggering, indices that move, process exit at any time |
| sorted timer list | 11-2 | head, tail, next, prev, expire | add, adjust, delete, tick | pointer surgery at the ends; addresses that come back |
| time heap | 11-6 | array, capacity, cur_size, tombstones | add, cancel, pop, tick, resize | index arithmetic, cancelled timers at the top |
| time wheel | 11-5 | slots, cur_slot, rotation, time_slot, next, prev | add, delete, tick | wrap of the wheel, rounds still to go; a list that loses timers while it is walked |
| inactive-connection server | 11-3 on 11-2 | users[].timer, epoll, signal pipe | accept, data, end, signals | batches of events that go stale, descriptors reused |
| poll chat server and client | 9-7, 9-6 | pollfds, users[].write_buf | accept, refuse, receive, write, close | compaction inside the loop, clients that end after poll returned |
| HTTP server | http_conn, server_main | one http_conn for each descriptor, m_user_count, epoll with EPOLLONESHOT | init, read, append, process, write, close | main loop and workers on one object, a descriptor reused while a worker still holds it, a full queue, loops that never come back |
| process pool and CGI server | 15-1, 15-2 | sub-processes, pipes, round-robin counter | dispatch, run_child, run_parent | merged signals, partial failure of fork, edge triggering |
| level and edge triggered reader | 9-3 | epoll set, batch of events, the connection being read | accept, read once, read to the end, close | events that go stale, edges that merge, edges that come while one is handled |
| EPOLLONESHOT demo | 9-4 | epoll registration, thread argument on the stack | accept, start a thread, receive, re-arm, close | argument overwritten before the thread reads it; data that comes while a thread reads |
| uniform event source | 10-1 | signal pipe, stop_server | handler, accept, read the pipe, leave the loop | signals that merge or share an edge, a full pipe, a batch that goes on after the stop |
| the rest | 5-*, 7-4, 8-3, 9-1, 9-5, 10-3, 11-1, 11-4, 13-3, 13-5, 14-5, 16-4 | none that outlives an event | | |

How they interact. The *server* programs are loops around `epoll_wait` or `poll`; signal handlers talk to them through
a socketpair. `server_main` is a producer of the thread pool, whose workers call `http_conn::process`. 11-3 owns a
`sort_timer_lst`, and each connection holds a pointer into it. 13-4 shares memory with its children, tells them about
it through socketpairs and learns of their death by SIGCHLD. The three timer containers have the same interface and no
other connection.

What makes each part correct:

* pool: the list is touched under the lock only; nothing in it is stranded; each accepted request runs once, in order;
* shared-memory chat: directory and processes agree, all children are reaped, only own children are killed, a child
  writes only the slot that is its own, SIGTERM ends the server;
* timers: the structure survives every sequence of calls, and a tick runs exactly the timers that are due;
* inactive-connection server: one timer for each open connection, events are never for something closed, idle
  connections are closed;
* poll chat: `pollfds` is the set of connections, a round looks once at whoever poll reported, the ended are closed, the
  others are told what one posts;
* level and edge triggered reader: no event for something closed, data that arrived has an edge or an event or is being
  read, the ended are closed;
* EPOLLONESHOT demo: a connection has one reader at a time, and never none; the ended are closed;
* uniform event source: a SIGTERM ends the loop;
* HTTP server: a connection object has one owner at a time, and an open connection is never left to nobody; an open
  connection has its own object; what is queued is taken; the ended are closed.

## 2. Modules

| module | models | composes |
|---|---|---|
| `TaskPool` | abstract: a bounded FIFO whose accepted items are taken once and in order | |
| `ThreadPool` | `threadpoll<T>` of 15-3 with `sem` and `locker` of 14-2 | `TaskPool` by refinement |
| `ThreadPoolProofs` | theorems about the pool | |
| `ShmChat`, `ShmChatProofs` | 13-4 | |
| `TimerService` | abstract: what any container of timers promises | |
| `Timers` | what the containers share: clock, timer objects, `ticking` | |
| `TimerList`, `TimerHeap`, `TimerWheel` | 11-2, 11-6, 11-5 | `TimerService` by refinement |
| `TimerListProofs` | theorems about the list, and the walk along its pointers | |
| `ArrayTimerProofs` | theorems about the heap and the wheel | |
| `NonactiveServer`, `NonactiveProofs` | 11-3 | extends `TimerList`: its actions conjoin the list's pointer operations, and its proofs use the list's |
| `PollChat`, `PollChatProofs` | 9-7 and the client side of 9-6 | |
| `Epoll` | external: the kernel's epoll set and backlog, and what clients do to them | |
| `LevelEdge` | 9-3 in its three modes | extends `Epoll` |
| `OneShot` | 9-4 | extends `Epoll` |
| `EpollLoopProofs` | theorems about 9-3, 9-4 and 10-1 | |
| `UniformEvents` | 10-1 | extends `Epoll` |
| `HttpConn`, `HttpConnProofs` | http_conn and the loop of server_main | extends `Epoll`; its pool is an instance of `TaskPool` |
| `MC*` | instances for TLC; `MCEventLoops` puts 9-3, 9-4 and 10-1 behind one first state, `MCTimers` the three containers and 11-3 | |

Names follow the code (`m_workqueue`, `sub_process`, `cur_slot`, ...); where one action stands for a stretch of a
function the map in `PROJECT.json` gives its lines.

### ThreadPool

A step is one access to shared state: lock, unlock, post, wait, or one operation of the list under the lock. `wpc` and
`ppc` say where a worker is in `run` and a producer in `append`; `request` and `arg` are their local variables. `phase`
is the life of the object: the constructor starts the workers one by one, so a worker may run while later iterations
still may fail; a failure destroys the members under the workers that exist, and so does the destructor. Workers that
touch the object after that are collected in `undefined` and then do nothing that is modelled. A wait that ends early
(`MaxInterrupts`) continues without a permit because `run` ignores the result of `wait` (15-3:106). The capacity of
`TaskPool` is `MostQueued`, m_max_requests + 1, because the test at 15-3:83 lets in one request more than the comment at
15-3:29 allows. The comment's own bound is `WithinMaximum`, which `pool_bound` refutes.

### ShmChat

The parent's loop is split at its system calls and handles one event in a step; a child is split between `epoll_wait`,
`recv` and `send`. `ready` and `conn_ready` are edges nobody has been told of, which is what edge triggering keeps.
Signals stay in `pending` until their handler runs, where they merge. A process id stands for the child and for its
connection. `epoll_wait` may fail on either side (13-4:112, 13-4:234) and ends that loop; a parent that ends so leaves
its children behind. Simplifications: SIGINT is merged with SIGTERM (same handler, same branch); the parent's ready
list is FIFO; data comes in units of one buffer; a socketpair that cannot be created (an assert) is not modelled;
notifications of children after the parent stopped are dropped. The branch of the child for the parent's pipe is
unreachable because the child registers `connfd` twice (13-4:99,103) and never its pipe.

### The timer containers

`allocated` is the set of timers the container owns; an address outside it may come back from `new`. `tick()` is
split into begin, one step for each timer that runs, and end, because the abstract `TimerService` tells them apart:
inside a tick the earliest due timer runs, and the tick ends only when none is due. `TimerList` works on
head, tail, next and prev as the code does, stale fields included. `TimerHeap` makes one step for each round of the sift
loops, `resize` included; a cancelled timer keeps its place with a null callback, so the abstract timers are
`allocated \ cancelled`. `TimerWheel` works on the heads of the slots, next and prev, and `tmp` is where the walk of a tick
has got to; a timer is put before the head of its slot, so the lists are in no order. Its
`expire` is a history variable (a `tw_timer` has none) that records the turn promised by `add_timer`.
Assumed of the program around them: one thread; callbacks do not call back into the container (11-3's does not);
a timer is only put off by `adjust_timer` (11-2:73 says the time grows); the capacity of the heap is at least 1 (0 makes
`add_timer` write outside the array). A negative timeout of the wheel changes nothing and is not called.

### NonactiveServer

One action for one event of the `epoll_wait` batch, and for each list operation it calls the list's own definition.
The events of a batch are handled in any order. `users[f]` is the timer of the connection on descriptor f, and both
descriptors and addresses are used again. `if ( ret = -1 )` (11-3:154) makes the rest of the signal branch
unreachable, so `timer_handler` and `tick()` are not in this model; their code is in `TimerList`.

### PollChat

One action is one round of the `for` loop over `pollfds`; between `poll` and any round the clients may send, close or
reset. `pollfds` is an array with domain 0..user_counter; `write_buf[f]` says whose `buf` the pointer aims at. `due` is
a history variable: whom this poll reported and the loop has not looked at. `status` follows what Linux keeps of a
connection: an RST leaves an error that `getsockopt` or `send` takes away, and `send` after FIN and RST raises SIGPIPE,
which ends the process (`pc = "killed"`). `recv` on a reset connection may fail or still return data. accept returns
the lowest free descriptor. What is handled has its `revents` cleared, which the code leaves to the next poll.
`new client_data[]` leaves `write_buf` uninitialized; an array of this size comes from fresh pages, so it starts as NULL.

### Epoll and LevelEdge

`Epoll` is not code of the repository: it is the part of Linux that 9-3 relies on, written from its calls. `interest`
says how a descriptor is registered; `edges` holds the edge-triggered descriptors with an edge no `epoll_wait` has
returned. `epoll_wait` looks again whether they are readable, and drops the edge if they are not. A client may have
sent, ended or reset before it is accepted. `close` takes a descriptor out of the set (`Closed`). The comment at
9-3:15 suspects that it does not, since the code never says EPOLL_CTL_DEL. The kernel drops a descriptor from an epoll
set when the last reference to its socket is closed; 9-3 has no `dup` and no `fork`, so each `close` is of the last
one, and the suspicion is not modelled. `EventsAreCurrent` rests on this, and it is an assumption about the kernel.
`LevelEdge` handles one event in a step, in any order; in `et` the inner loop is one step for each `recv`, with `cur`
the connection it is at, so that clients act in between. `mode` is chosen in the first state; the third value is the
`default` of the switch, which forgets what it is told. `accept` may fail, because the descriptors ran out or the
connection was given up; `addfd( -1 )` then changes nothing. Data is counted in buffers; in level mode `recv` is asked
only for what `epoll_wait` reported, and that it is never told EAGAIN, which `lt` would take for the end, is the
property `EventsAreCurrent`.

### OneShot and UniformEvents

`OneShot` is the loop of 9-4 and its threads. `meant[t]` is the event a thread was started for and `sockfd[t]` what it
has read of its argument, which is a local of the loop (9-4:136) that the next event overwrites. When some thread has
read what was meant for another, the history variable `mixed` says so and the properties promise nothing more: two
threads may then read one connection while nobody reads the other. `dropped` holds the connections for which
`pthread_create` failed. The `recv` that is told EAGAIN and the EPOLL_CTL_MOD after it are two steps (`again` is in
between), so that data or the end of the connection may come while the descriptor is off. A thread that meets an error
other than EAGAIN goes round again (9-4:69), which for EBADF lasts until somebody opens the descriptor: this is a
state without a step of that thread. The printing and the `sleep` are left out, and the variable of the loop is taken
to keep its place from one event to the next.

`UniformEvents` has the signals of 10-1 in two classes, those that stop the server and those that do not. A handler
runs between two calls of the loop, with all signals blocked; a signal sent while it is pending is merged.
Connections are accepted and their events looked at, never read. `lost` records the signals whose handler found the
pipe full.

### HttpConn

The object of descriptor f is `users[f]`, and the variables `m_sockfd`, `m_read_idx` and `answer` (m_write_idx is not 0)
are its fields. Main makes one step for an event, except that `read()` is one step for each `recv`, and `append` is the
call of `TaskPool`. A worker in `process()` makes a step for the parser and the answer together, one each for the
accesses of `close_conn` (close; m_sockfd and the load of m_user_count; its store), because main runs beside it then, and one for
the final `modfd`, with which `run` returns to the queue. That `process_read` and
`process_write` are one step rests on `OneOwner`: nobody else touches the object meanwhile, and when a descriptor was
crossed the properties promise nothing.

Using `TaskPool` for the pool is what its refinement by `ThreadPool` pays for; the pool's constructor, destructor and
interrupted waits stay in `ThreadPool`.

What a request says is left out, and what the parser functions may return for any buffer is kept: `parse_line`,
`parse_request_line`, `parse_headers`, `do_request` are sets of results, and `process_read` follows from them as written.
`line_status == parse_line()` (http_conn.cpp:277) compares a line status of 0 with the result, and the comparison
with LINE_OK, also 0, turns it round: the loop body runs while the line is *not* complete. So a complete line ends the
parser with NO_REQUEST, an incomplete one is parsed as a request line, and then the position does not move any more: an
empty line is taken for the end of the headers, anything else is parsed again for ever. Header fields, message bodies
and keep-alive are therefore never reached. The mapped file, the amount one `writev` takes and the text of an answer are
left out; `add_response` may run out of room only when an answer is in the buffer already.

`bytes_read == 1` (http_conn.cpp:145) is kept as written: an error is added to `m_read_idx` and the loop goes on; one byte
ends it, well if errno is EAGAIN. errno is whatever an earlier call left, so the first test of a call may go either way.
`m_read_idx` may so be before the buffer; when data comes then, it is written there, `cur` is `Wild`, and what main does
afterwards is not modelled. `cur` is also `Wild` after an `epoll_wait` that failed (server_main.cpp:101), since main then
deletes the objects and the pool under the workers.

m_user_count is loaded and stored without a lock by main (`Adds`, `MainStores`; `storing` is what it is about to
store) and by workers (`Forgets`, `Counts`; `tmp[w]`), so that one thread's store may undo another's. Nothing keeps
the count in a range: it is an integer, and lost updates leave it too high or below 0. `races` counts the loads while
another thread was about to store and is bounded by `MaxDrift`, and main accepts while the count is below MAX_FD +
`MaxDrift`. `m_sockfd` of an object starts as anything, because the constructor (http_conn.h:56) does not set it.
`Reuse` says whether accept may return what a worker is closing; `crossed` records that it did. `Capacity` is
m_max_requests + 1.

Some files do not compile as committed. Slips that only concern the compiler are read as what they evidently mean
(`itn`, `boid`, `procolate_down`, a missing `;` after a class, default arguments repeated, `user+ sockfd`, `case:`,
`m_iv[0]_iov_len`, `GET_REQUSET`). Whatever
compiles is modelled as written, assignments in conditions and comparisons used as statements included.

## 3. Runs

| run | instance | shows |
|---|---|---|
| `pool` | 2 workers, 2 producers, maximum 1, 1 interrupted wait | lock, permits and list agree in every interleaving; refinement of `TaskPool`; an accepted request reaches a worker |
| `pool_bound` (violated) | 1 worker, 1 producer, maximum 1 | 15-3:29: at most m_max_requests are in the list; 15-3:83 lets in one more |
| `chat_safety` | 3 clients, limit 2, 1 SIGTERM | directory and children agree; only own children are killed |
| `chat_liveness` | 2 clients, 1 buffer each, `epoll_wait` may fail | dead children are reaped, early data is not missed |
| `chat_index` (violated) | 3 clients, limit 2 | 13-4:95: idx is the child's number; compaction moves the entry, not the idx |
| `chat_term` (violated) | 1 client, 1 SIGTERM | 13-4:329: SIGTERM ends the server; it may hang on a child that missed it |
| `timers` | one program of four: containers with 4 timers (wheel: 3 of 4 addresses, 3 slots, 6 turns; heaps of capacity 1 and 4, clock to 1; list, clock to 2); 11-3 with 2 descriptors, 4 addresses, clock to 1 | structure and refinement of `TimerService` for all three containers; one timer for each connection of 11-3, events never stale |
| `idle_close` (violated) | 1 descriptor | 11-3:145: closed after three idle periods; never |
| `poll_chat` | limit 2, 1 waiting connection, 1 unread message each | compaction, limit, nobody skipped, the ended are closed |
| `event_loops` | 3 descriptors (9-4: 2, 10-1: 1), 2 waiting, 1 unread buffer each, 2 threads, 3 signals, a pipe of 2 bytes | 9-3: events are current, no data without an edge, only the ended are closed, and they are; 9-4: one reader for each connection, the ended are closed; 10-1: SIGTERM ends the loop |
| `http` | 2 connections, 2 workers, a queue of 1, no crossing | one owner for each object, each connection its own object, only a refused append loses one, what is queued is taken, the ended are closed |
| `http_oneshot` (violated) | 1 descriptor, 2 workers, crossing allowed | http_conn.cpp:72: EPOLLONESHOT is there for the safety of the threads; a worker that closes and main or another worker are in one object |

Why the bounds are enough. Pool: two producers race for the last place and two workers for the lock while the
producers hold it in turn; two places (the test is off by one, so a maximum of 1 gives two) are filled and drained;
one interrupted wait reaches the branch for the empty list. Shared-memory chat: two live children and a third that is
refused or takes a freed entry is the smallest case in which an entry moves under a live child;
`EpollMayFail` is TRUE in `chat_liveness` only, and the proofs hold for both values. List: four timers give
a head, a tail and two inner nodes, so every case of add and adjust is met. Heap: four elements have two levels and a
node with one child; capacity 1 resizes twice; equal and unequal times suffice for each comparison (`HeapDelay`).
Wheel: three slots and timeouts of 0, 3 and 5 cover the current slot, a whole round and a wrap; six turns are two
rounds; three timers in one slot give a head, an inner node and a last one, and `Addresses` bounds how many addresses
`new` returns, each of which may come back. Inactive-connection server: two descriptors are in one batch with the
listening socket and are closed and opened again between its events; the list below it is checked with four timers by
itself; `LastNow` is where its clock and that of the heap stop; idle_close needs the clock to pass three periods. Poll
chat: with two users the closed entry is the last or the other; a third connection is refused. Event loops: 9-3 has a
batch of two connections and the listening socket, with a third descriptor to be opened or reused between them, and
data may come while a buffer is being read; 9-4 has two connections and two threads, the fewest with which an argument
can be mixed up or both threads have work; in 10-1 three signals fill a pipe of two bytes. HTTP: two connections are
needed for one to fill the queue of one place and the other to be refused, two workers for one to close beside the
other; one unread buffer and one waiting client suffice for data and accept to come at any moment; a `MaxDrift` of 1
lets one update of the count be lost, in either direction. Larger values multiply the states and add no new case; for
the safety properties the proofs cover them.

Deadlock checking is off where the model may stop: the pool is destroyed, a server stopped or was killed, or bounded
clients and clocks are used up.

Fairness. Pool: each thread takes the steps that stay enabled (weak), and the workers together are not locked out of
the mutex for ever (strong, on "some worker gets the lock": POSIX promises no single thread its turn, and none is
assumed). No fairness for calls of `append` or the destructor. Shared-memory chat: the parent, each child, and
delivery of pending signals are weakly fair: they are processes of one kernel. The clients need do nothing, and
nothing says that `epoll_wait` fails. Inactive-connection server: its loop, the clock and the alarm. Poll chat: the
server's thread runs while `poll` has something to return, and `getsockopt` does not fail every time it is called for
one connection (strong, on `Error`: with the `continue` at 9-7:115 the error stays and `poll` reports it again);
clients are free to do nothing, so `EndedIsClosed` owes nothing to them, but it ends where SIGPIPE kills the server.
Level and edge triggering: likewise, but there a client that sends as fast as it is read keeps `et` in its inner loop
(9-3:83) for ever, so `EndedIsClosed` is promised only for behaviours in which that loop ends each time. 9-4: the loop
and each thread run, and `EndedGetsClosed` is promised until an argument is mixed up (`mixed`) and not for a
connection without a thread (`dropped`). 10-1: the loop runs and pending signals are delivered; a SIGTERM that finds
the pipe full (`lost`) is excepted. HTTP: main runs, each worker in `process` runs, and while something is queued some
worker takes it (none is promised that it is the one). `EndedIsClosed` of `HttpConn` is promised only if `read()`
always comes back, which http_conn.cpp:145 does not see to, and `QueuedIsTaken` only while the parser's endless loop
has not got all workers.

What these exceptions take away is listed with the hazards in `PROJECT.json`, so that a hazard is not counted as
covered where its property makes an exception of it: SIGPIPE in 9-7, the overwritten argument and the failed
pthread_create of 9-4, the full pipe of 10-1, the refused `append` and the `read()` that does not return of the HTTP
server, and the end of all its workers. Each is a step of its model, and section 5 names the line.

## 4. Proofs

| module | theorem | statement |
|---|---|---|
| `ThreadPoolProofs` | TypeCorrect, ConsistentPop, NothingLost, NothingSpurious | the invariants of `pool` |
| | Exclusive, Bounded | mutual exclusion, and the list's bound, on which these rest |
| | Refinement | `Spec => ImplementsTaskPool` |
| `ShmChatProofs` | TablesAgree, NoneForgotten, KillsOwn | the directory's invariants and the action property of `chat_safety` |
| | ChatTypes | `TypeOK` of `chat_safety` |
| | SlotsInside | no child has a slot outside the shared memory |
| | SignalsAreSeen, ExitsAreAnnounced | bytes in the signal pipe have an edge; a dead child has a SIGCHLD on its way |
| `EpollLoopProofs` | NoStaleEvent, NoDataStranded, ClosesNobodyElse | `EventsAreCurrent`, `NothingUnseen` and the action property of `event_loops`, for 9-3 |
| | OneReaderEach | `OneReader` of `event_loops`, for 9-4 |
| | NoByteStranded, TermNeverForgotten | bytes in the pipe of 10-1 have an edge; a SIGTERM is on its way or done |
| `HttpConnProofs` | TypeCorrect, OneOwnerEach, ObjectsAreCurrent, ForgetsNone | the invariants and the action property of `http` |
| `PollChatProofs` | ArrayHoldsAll, NobodyMissed, PollClosesOnlyTheEnded | the array's invariants and the action property of `poll_chat` |
| `TimerListProofs` | ListKeepsAll, ListRefinement | the list's invariant and `ListSpec => ListImplementsService` |
| `ArrayTimerProofs` | PlacesHoldEach, ParentsFirst, HeapRefinement | the heap's invariants and `HeapSpec => HeapImplementsService` |
| | SlotsHoldEach, TurnsAddUp, WheelRefinement | the wheel's invariants and `WheelSpec => WheelImplementsService` |
| `NonactiveProofs` | ServerTypes, OneTimerForEach, EventsStayCurrent | the invariants of `timers` for 11-3 |
| | ServerUsesList | `Spec => ListSpec`: every step of 11-3 is a call of the list, or leaves it alone |
| | ServerListWellFormed, ServerListService | what `timers` says of the list, for the list inside 11-3 |

They hold for every value of the constants that the named assumptions (`ThreadPoolAssumption`, `ShmChatAssumption`,
`TimersAssumption`, `DelayAssumption`, `HeapAssumption`, `WheelAssumption`, `ServerAssumption`, `EpollAssumption`,
`OneShotAssumption`, `UniformAssumption`, `HttpAssumption`, `PollChatAssumption`) allow; the run of each component evaluates
them.

*Pool.* Three layers. `LockInv` joins the types with mutual exclusion: whoever is between lock and unlock owns the
mutex. Given it, `ListInv` says what a worker at `front` or `pop` sees, and that a producer at `push` found the list
within the maximum: neither is inductive without the lock, since another thread could change the list in between.
`PermitInv` counts: permits, awake workers and posting producers on one side, requests on the other; each step
moves at most one unit, and the library's facts on cardinality carry the counting. The refinement follows step by step:
a push is the abstract offer, a pop the abstract take, everything else stutters.

*Shared-memory chat.* `DirInv` is the conjunction of the types it needs, of `Fresh` (a pid that was not forked is in no
table) and of the directory itself: entries below user_count are exactly the unreaped children, each once, with
sub_process as inverse. The two tables agree only together with "each once": compaction overwrites an entry, and without
injectivity a second copy would be left behind.

`ChatInv` adds the types of all the rest. Two of them are more than types: what a child has still to
receive is bounded only because it is never more than its client sent, and a notification names an entry of the table
only because `idx` does. `Kept`, by which
`epoll_wait` picks from the ready list, is a recursive function; `KeptRecursion` shows that it has a value and
`KeptMembers` that it keeps exactly the members asked for. On top of the types are two chains that a signal goes along.
`PipeSeen`: whatever is in the signal pipe has an edge or an event, because the pipe is read out by one `recv` and each
byte after that makes an edge of its own. `ExitAnnounced`: a child that has exited leaves the table only in the loop of
`waitpid`, which goes on until there is none, so that one SIGCHLD stands for any number of dead children; it is pending,
in the pipe, among the bytes read, or that loop is running. This one holds only while the signal pipe has room
(`[]PipeHasRoom`, a hypothesis of the theorem): a handler that finds it full drops its byte (13-4:64). It is the safety
half of `ExitedIsReaped`, whose run likewise sends too few signals to fill the pipe.

*List.* `ListInv` says that there is an order of the timers, a sequence without repetition, along which next and prev
lead from head to tail (`Chain`), and in which nothing expires before what precedes it (`InOrder`). Each operation is
one lemma about what it makes of that sequence: `add_timer` and `adjust_timer` put a timer in (`Inserted`),
`del_timer` and `tick` drop one (`Dropped`), and the case distinctions of the code fall to its ends and its inside.
tail may dangle only when the sequence is empty. The helper's walk is a recursive function on addresses, not on
numbers, so that it has a value has to be shown: `WalkDefined` exhibits one, the node that every set closed under the
step from the start must contain, and `WalkStops` finds it on a sorted chain by the least place whose successor
expires later. What would be an induction is there, as elsewhere, an appeal to a least counterexample (`Least`, from
the library's well-founded sets). That `adjust_timer` looks to the tail only needs the new time not to be before the
old.

*Wheel.* What a head reaches is the least set that is closed under next (`Closed`, `Reached`); `ReachedNext` takes its
first timer off, and `ReachedFrame` says that pointers of timers outside it do not matter. `ListOf` says of one slot
what `WheelHoldsEach` says of all: the set it reaches, `Mirrored` and the NULL before the head. `Pushed` and
`Unlinked` are what an insertion at the head and a removal anywhere make of such a list, and that a removal misses
nothing needs that whoever is not the head has a previous timer (`HasPrevious`). `WheelInv` adds to the two properties
the types and `WalkIsCurrent`: the walk of a tick is at a timer of the current slot or at its end, so what it has
still to visit is in that slot. A visited timer with rounds to go has had its rotation decremented while the wheel has
not turned yet, hence `Rounds`. From `RotationAddsUp` follows `DueNow`, that a timer in the current slot has rotation
0 exactly if its turn is now, and with it that every step implements the service.

*Heap.* `HeapOrdered` says nothing while a loop runs, so `HeapInv` says what holds then. `UpOrder`: the tree is in order but
for the hole, whose children fit both the timer that rises and the hole's parent. `DownOrder`: the same from `floor` on,
and the timer that sinks fits what is above it; `floor` is 0 except in the constructor that takes an array, which puts
one subtree after the other in order. `Held` counts the moving timer in the hole, so that a round of a loop exchanges
two elements and loses none. Two places with room for a mistake are part of it: percolate_down on a heap that was just
emptied writes to place 0, and a heap of one has no child to compare. That a tick stops only when nothing is due needs
the top to be the earliest of all (`TopIsLeast`), which follows for the least place with an earlier timer, since its
parent would be earlier still. A tick that removes a cancelled top is a stutter of the service.

*Inactive-connection server.* `ServerInv` needs nothing of the list but which timers exist. `OwnTimer` (no two
connections share one) makes the deletion of one timer leave the others; `Queued` counts the edges of the listening
socket, reported or not, against who waits, so that one `accept` for an edge never finds nobody; `Room` bounds the
backlog. `Lawful` is what the list relies on: no timer expires later than three periods from now, so that data can only
put it off. With it each step of the server is a step of `ListSpec`, whose `Delay` here has the one value the code uses,
and all that is proved of the list holds of the server's.

*Level and edge triggering.* `Inv` adds to the two invariants the types, `Registered` (each connection is in the set in
the mode of the server) and `Reading` (only `et` is ever inside a connection). The two need each other: that nothing is
closed under an event of the batch follows because a connection has one event at most and its own is taken out before
it is closed; that an edge need not be kept once `epoll_wait` has returned it follows because the event is in
the batch until the connection is `cur`, and `cur` is left only at EAGAIN or by closing.

*Poll chat.* `Inv` adds to the two invariants the types, `OneEach` (no descriptor has two entries), `SeenEnd` (where
POLLRDHUP was reported the client did end, however many rounds ago) and `SeenWaiting` (the listening socket was
reported for somebody who still waits, so `accept` does not meet an empty backlog). `OneEach` carries the removal: the
entry moved into the gap differs from the one closed, so what is left ahead of `i` is what was ahead of it without the
closed one. `SeenEnd` is what makes closing on an old report right.

*EPOLLONESHOT.* While no argument was mixed up, `OneShotInv` says who has a connection: `AtMostOne` of the epoll
set, the loop and the threads, and `Had`, that exactly the connections not dropped are had by one. `AsMeant` ties what a
thread reads to what it was started for. Each step takes a connection from one of them and gives it to the next.

*Uniform events.* `UniformSeen` is as `PipeSeen`, with the converse for events: a byte of the batch is still there
when its turn comes, which makes the `recv` at 10-1:127 return something. `TermAccounted` follows a SIGTERM from the
kernel to the pipe to `stop_server`, past the signals that share its batch; it is not an invariant but holds from when
the signal is raised, so the theorem is `[](TermOnItsWay => []TermAccounted)`. The one way out is a full pipe,
recorded in `lost`.

*HTTP.* `TypeInv` joins the types with `Once` (all connections are registered with EPOLLONESHOT) and `Waiting` (the
listening socket is reported only for somebody who waits). On top of it `Core` holds while nothing was crossed:
`Apart` (the epoll set, the batch, main, the call of append, the queue and the workers exclude each other), `Single`
and `Distinct` (none of them has a connection twice), and `Stage`, which ties how far a worker is to whether the
descriptor is open: this is what makes the last `modfd` of a worker that closed harmless, and what the other parts are
not inductive without. `Core` is a conjunction over the descriptors, and every step is about one of them (`About`) and
leaves the others as they are (`Same`), so that each action is proved for its descriptor only. The same steps give
`Kept`: an owner that lets go of an open connection hands it on. The proofs hold with and without `Reuse`, for any
number of workers.

Only model-checked: liveness (`AcceptedIsServed`, `ExitedIsReaped`, `FirstDataIsReceived`, `EndedIsClosed`,
`EndedGetsClosed`, `TermStops`, `QueuedIsTaken`), since fairness is out of the prover's reach. Every invariant, every
refinement and every action property of a passing run has a theorem. `PipeSeen`, `ExitAnnounced`, `UniformSeen`,
`TermAccounted`, `Lawful` and `ServerUsesList`, which no run states, were tried with TLC on the instances of
`chat_safety` (with a signal pipe of 3 and behaviours that do not fill it), `event_loops` and the server of `timers`
as well.

## 5. Known divergences without a run of their own

* 15-3:34 says m_stop tells whether the threads end; 15-3:75 sets it and posts nothing, so a worker that waits never reads
  it, and the object is destroyed under the others.
* 13-4:234: when `epoll_wait` fails the parent leaves its loop and its children go on without it.
* 13-4:321: after stop_server is set the loop goes on with its batch, and a connection accepted in it is served by a
  child nobody kills.
* 13-4:318: sub_process of the child that was last in the table is not reset.
* 13-4:64: a SIGCHLD whose byte does not fit into the pipe is made up for only by the next one.
* 13-4:264: when `fork` fails both ends of the socketpair stay open.
* 13-4:137 and 13-4:352: one `recv` for each edge; notifications that share an edge wait for the next one. 13-4:124: an end
  of connection that shares its edge with data is not seen, and the child waits for ever.
* 13-4:245, 9-3:77, 9-4:129, 10-1:119 and server_main.cpp:114: one `accept` for each edge of the listening socket;
  connections that share an edge wait for the next client.
* 11-2:22-23: the comments on prev and next are swapped.
* 11-3:175: SIGTERM is ignored for the same reason as SIGALRM; 11-3:184: an end of connection that shares its edge with
  data is never seen; 11-3:136: after a failing `accept` users[-1] is written.
* 11-6:187: a heap of capacity 0 never grows, and `add_timer` writes outside the array.
* 9-7:162: `send` to a connection that was reset after it was closed raises SIGPIPE, which ends the server.
* 9-7:146 says the other clients are told to expect a message; 9-7:151 changes the poster's own entry instead and 9-7:152
  is a comparison, so who never posted is never sent anything.
* 9-7:120: `users` of the closed descriptor is overwritten and `accept` does not reset `write_buf`: the next connection
  on this descriptor starts with a message for somebody else, or its own. 9-7:134: the test of errno is always true.
* 9-4:139: the thread's argument lives in the loop; the next event overwrites it. 9-4:69: an error other than EAGAIN is
  asked for again without end. 9-4:140: when `pthread_create` fails nobody reads the connection again.
* 10-1:42: a SIGTERM whose byte finds the pipe full is lost.
* http_conn.cpp:133 says `read()` stops when nothing is left or the other side has closed; :145 tests for one byte
  where an error is meant, so that it does not return at EAGAIN.
* http_conn.cpp:61: m_user_count is changed without a lock; server_main.cpp:120-126: a connection for which the
  server is too busy is closed and goes on to `init`, which counts it, and nothing takes it off again.
* server_main.cpp:138: when `append` fails, only a message is printed, and the connection stays open and unwatched.
* http_conn.cpp:395-397: `writev` starts from the beginning again after a part was written, and the test stops at half of
  the bytes.
* http_conn.cpp:351: `open` is not looked at, and `mmap` may fail.

## 6. Not modelled, and why

A failing `epoll_wait` or `poll` of 9-3, 9-4, 9-7, 10-1 and 11-3: one process and one loop, which then simply ends (in
9-4 its threads with it). Where somebody goes on after it, in 13-4 and the HTTP server, it is a step.

Socket, shared-memory and pipe set-up before a loop starts (straight-line code that asserts); contents of messages and
requests; printing. The programs in the last row of the inventory make a few system calls in a row; 8-3's `parse_line`
rejects every ordinary character, so its parser never gets further; 11-4 is a fragment without a program.

The process pool of 15-1 and its CGI user 15-2 do not compile (15-1:100 dereferences the int `msg`, 15-1:106 clears
the function `sigaction` in place of the structure, 15-1:329 `pid _t`, 15-2:102). Neither does `http_conn`, but its
slips are of spelling; here reading them literally leaves little that is defined. Each iteration of the constructor
makes the pipe of m_sub_process[0] (15-1:127), so that with the default of 8 processes the other children watch a
descriptor that was never written (15-1:184) and the parent sends to one (15-1:313); the SIGTERM loop counts `i` where
`j` is tested and runs past the array (15-1:355); SIGCHLD marks the entry of the event's number, not the child's
(15-1:335); and `process()` turns for ever at EAGAIN (15-2:47). A model would be of a program that somebody still has
to write.

## 7. Plan

Done: the pool, its abstract specification and proofs; shared-memory chat and proofs; the timer containers, their
service and proofs of all three; inactive-connection server, proofs and its use of the list; poll chat, the three
epoll loops and the HTTP server, with proofs of the types and of who owns what.

Left: the amount one `writev` takes, and the mapped file, in `HttpConn`; `HttpConn` on
`ThreadPool` itself, with interrupted waits.
