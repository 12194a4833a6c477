------------------------------- MODULE ThreadPool -------------------------------
(***************************************************************************)
(* class threadpoll of 15-3_threadpoll.h with the sem and locker wrappers  *)
(* of 14-2_locker.h: the constructor that starts the workers one by one,   *)
(* append() called by any number of threads, run() in every worker, and    *)
(* the destructor.  A step is one access to shared state: a lock, an       *)
(* unlock, a post, a wait, or one operation of the list under the lock.    *)
(***************************************************************************)
EXTENDS Integers, Sequences, FiniteSets

CONSTANTS
    Workers,         \* the m_thread_number threads of the pool
    Producers,       \* the threads that call append (server_main has one)
    Requests,        \* the non-null T* that are appended
    Null,            \* the null T*, which run() skips
    NoRequest,       \* no request in a local variable
    NoThread,        \* nobody owns the mutex
    m_max_requests,
    MaxInterrupts    \* bound: how often sem_wait returns early with EINTR

ASSUME ThreadPoolAssumption ==
    /\ IsFiniteSet(Workers) /\ Workers # {}
    /\ IsFiniteSet(Producers)
    /\ Workers \cap Producers = {}
    /\ NoThread \notin Workers \cup Producers
    /\ Null \notin Requests
    /\ NoRequest \notin Requests \cup {Null}
    /\ m_max_requests \in Nat \ {0}
    /\ MaxInterrupts \in Nat

VARIABLES
    m_workqueue,     \* the std::list<T*>, front first
    m_queuelocker,   \* the thread that holds the mutex, or NoThread
    m_queuestat,     \* the value of the semaphore
    m_stop,
    phase,           \* the life of the object: ctor, ready, stopping, destroyed
    wpc,             \* where worker w is in run()
    request,         \* run()'s local variable of worker w
    ppc,             \* where producer p is in append()
    arg,             \* append()'s argument in producer p
    interrupts,      \* how many waits ended early so far
    undefined        \* workers that touched the object after its destruction

poolVars == <<m_stop, phase>>
workerVars == <<wpc, request>>
producerVars == <<ppc, arg>>
vars == <<m_workqueue, m_queuelocker, m_queuestat, poolVars, workerVars,
          producerVars, interrupts, undefined>>

Threads == Workers \cup Producers

WorkerPC == {"unborn", "loop", "wait", "lock", "empty", "skip", "front",
             "pop", "unlock", "process", "exited"}
ProducerPC == {"idle", "lock", "size", "reject", "push", "unlock", "post"}

Init ==
    /\ m_workqueue = <<>>
    /\ m_queuelocker = NoThread
    /\ m_queuestat = 0
    /\ m_stop = FALSE
    /\ phase = "ctor"
    /\ wpc = [w \in Workers |-> "unborn"]
    /\ request = [w \in Workers |-> NoRequest]
    /\ ppc = [p \in Producers |-> "idle"]
    /\ arg = [p \in Producers |-> NoRequest]
    /\ interrupts = 0
    /\ undefined = {}

-----------------------------------------------------------------------------
(***************************************************************************)
(* 14-2_locker.h: locker::lock and unlock, sem::post and wait.             *)
(***************************************************************************)
Lock(t) == m_queuelocker = NoThread /\ m_queuelocker' = t
Unlock(t) == m_queuelocker = t /\ m_queuelocker' = NoThread
Post == m_queuestat' = m_queuestat + 1
Wait == m_queuestat > 0 /\ m_queuestat' = m_queuestat - 1

WGoto(w, from, to) == wpc[w] = from /\ wpc' = [wpc EXCEPT ![w] = to]
PGoto(p, from, to) == ppc[p] = from /\ ppc' = [ppc EXCEPT ![p] = to]

-----------------------------------------------------------------------------
(***************************************************************************)
(* The life of the object.                                                 *)
(***************************************************************************)

\* One iteration of the constructor's loop: the new thread runs at once.
CreateWorker(w) ==
    /\ phase = "ctor"
    /\ WGoto(w, "unborn", "loop")
    /\ UNCHANGED <<m_workqueue, m_queuelocker, m_queuestat, poolVars, request,
                   producerVars, interrupts, undefined>>

CtorReturns ==
    /\ phase = "ctor"
    /\ \A w \in Workers : wpc[w] # "unborn"
    /\ phase' = "ready"
    /\ UNCHANGED <<m_workqueue, m_queuelocker, m_queuestat, m_stop, workerVars,
                   producerVars, interrupts, undefined>>

\* pthread_create or pthread_detach fails: the exception destroys the object
\* and the workers started so far are not told.
CtorThrows ==
    /\ phase = "ctor"
    /\ phase' = "destroyed"
    /\ UNCHANGED <<m_workqueue, m_queuelocker, m_queuestat, m_stop, workerVars,
                   producerVars, interrupts, undefined>>

\* The destructor's body.  No caller may be inside append by then.
Dtor ==
    /\ phase = "ready"
    /\ \A p \in Producers : ppc[p] = "idle"
    /\ m_stop' = TRUE
    /\ phase' = "stopping"
    /\ UNCHANGED <<m_workqueue, m_queuelocker, m_queuestat, workerVars,
                   producerVars, interrupts, undefined>>

\* The members are destroyed after the body, whatever the workers are doing.
DestroyMembers ==
    /\ phase = "stopping"
    /\ phase' = "destroyed"
    /\ UNCHANGED <<m_workqueue, m_queuelocker, m_queuestat, m_stop, workerVars,
                   producerVars, interrupts, undefined>>

\* A worker that reads a member of the destroyed object: anything may follow,
\* so the worker leaves the model.
UseAfterDestroy(w) ==
    /\ phase = "destroyed"
    /\ wpc[w] \notin {"unborn", "process", "exited"}
    /\ w \notin undefined
    /\ undefined' = undefined \cup {w}
    /\ UNCHANGED <<m_workqueue, m_queuelocker, m_queuestat, poolVars,
                   workerVars, producerVars, interrupts>>

-----------------------------------------------------------------------------
(***************************************************************************)
(* threadpoll::append.                                                     *)
(***************************************************************************)
CallAppend(p, r) ==
    /\ phase = "ready"
    /\ PGoto(p, "idle", "lock")
    /\ arg' = [arg EXCEPT ![p] = r]
    /\ UNCHANGED <<m_workqueue, m_queuelocker, m_queuestat, poolVars,
                   workerVars, interrupts, undefined>>

AppendLock(p) ==
    /\ Lock(p)
    /\ PGoto(p, "lock", "size")
    /\ UNCHANGED <<m_workqueue, m_queuestat, poolVars, workerVars, arg,
                   interrupts, undefined>>

\* The test is size > max, so a queue of max requests takes one more.
QueueFull == Len(m_workqueue) > m_max_requests

AppendSize(p) ==
    /\ PGoto(p, "size", IF QueueFull THEN "reject" ELSE "push")
    /\ UNCHANGED <<m_workqueue, m_queuelocker, m_queuestat, poolVars,
                   workerVars, arg, interrupts, undefined>>

Mut_AppendReject(p) ==
    /\ PGoto(p, "reject", "idle")
    /\ Unlock(p)
    /\ Post
    /\ arg' = [arg EXCEPT ![p] = NoRequest]
    /\ UNCHANGED <<m_workqueue, poolVars, workerVars, interrupts, undefined>>

\* unlock, return false
AppendReject(p) ==
    /\ PGoto(p, "reject", "idle")
    /\ Unlock(p)
    /\ arg' = [arg EXCEPT ![p] = NoRequest]
    /\ UNCHANGED <<m_workqueue, m_queuestat, poolVars, workerVars,
                   interrupts, undefined>>

AppendPush(p) ==
    /\ PGoto(p, "push", "unlock")
    /\ m_workqueue' = Append(m_workqueue, arg[p])
    /\ UNCHANGED <<m_queuelocker, m_queuestat, poolVars, workerVars, arg,
                   interrupts, undefined>>

AppendUnlock(p) ==
    /\ PGoto(p, "unlock", "post")
    /\ Unlock(p)
    /\ UNCHANGED <<m_workqueue, m_queuestat, poolVars, workerVars, arg,
                   interrupts, undefined>>

Mut_AppendPost(p) ==
    /\ PGoto(p, "post", "idle")
    /\ arg' = [arg EXCEPT ![p] = NoRequest]
    /\ UNCHANGED <<m_workqueue, m_queuelocker, m_queuestat, poolVars,
                   workerVars, interrupts, undefined>>

\* The semaphore is posted after the unlock; return true.
AppendPost(p) ==
    /\ PGoto(p, "post", "idle")
    /\ Post
    /\ arg' = [arg EXCEPT ![p] = NoRequest]
    /\ UNCHANGED <<m_workqueue, m_queuelocker, poolVars, workerVars,
                   interrupts, undefined>>

-----------------------------------------------------------------------------
(***************************************************************************)
(* threadpoll::run.  Every step but process() touches the object.          *)
(***************************************************************************)
Alive == phase # "destroyed"

RunTest(w) ==
    /\ Alive
    /\ WGoto(w, "loop", IF m_stop THEN "exited" ELSE "wait")
    /\ UNCHANGED <<m_workqueue, m_queuelocker, m_queuestat, poolVars, request,
                   producerVars, interrupts, undefined>>

RunWait(w) ==
    /\ Alive
    /\ WGoto(w, "wait", "lock")
    /\ Wait
    /\ UNCHANGED <<m_workqueue, m_queuelocker, poolVars, request,
                   producerVars, interrupts, undefined>>

\* sem_wait fails with EINTR; run() ignores what wait() returns.
RunWaitInterrupted(w) ==
    /\ Alive
    /\ interrupts < MaxInterrupts
    /\ WGoto(w, "wait", "lock")
    /\ interrupts' = interrupts + 1
    /\ UNCHANGED <<m_workqueue, m_queuelocker, m_queuestat, poolVars, request,
                   producerVars, undefined>>

Mut_RunLock(w) ==
    /\ Alive
    /\ WGoto(w, "lock", "empty")
    /\ m_queuelocker' = w
    /\ UNCHANGED <<m_workqueue, m_queuestat, poolVars, request,
                   producerVars, interrupts, undefined>>

RunLock(w) ==
    /\ Alive
    /\ WGoto(w, "lock", "empty")
    /\ Lock(w)
    /\ UNCHANGED <<m_workqueue, m_queuestat, poolVars, request,
                   producerVars, interrupts, undefined>>

\* Mutant: the test is left out.
Mut_RunEmpty(w) ==
    /\ Alive
    /\ WGoto(w, "empty", "front")
    /\ UNCHANGED <<m_workqueue, m_queuelocker, m_queuestat, poolVars, request,
                   producerVars, interrupts, undefined>>

RunEmpty(w) ==
    /\ Alive
    /\ WGoto(w, "empty", IF m_workqueue = <<>> THEN "skip" ELSE "front")
    /\ UNCHANGED <<m_workqueue, m_queuelocker, m_queuestat, poolVars, request,
                   producerVars, interrupts, undefined>>

\* unlock, continue
RunSkip(w) ==
    /\ Alive
    /\ WGoto(w, "skip", "loop")
    /\ Unlock(w)
    /\ UNCHANGED <<m_workqueue, m_queuestat, poolVars, request,
                   producerVars, interrupts, undefined>>

\* front() of an empty list is no request.
First == IF m_workqueue = <<>> THEN NoRequest ELSE Head(m_workqueue)

RunFront(w) ==
    /\ Alive
    /\ WGoto(w, "front", "pop")
    /\ request' = [request EXCEPT ![w] = First]
    /\ UNCHANGED <<m_workqueue, m_queuelocker, m_queuestat, poolVars,
                   producerVars, interrupts, undefined>>

Mut_RunPop(w) ==
    /\ Alive
    /\ WGoto(w, "pop", "unlock")
    /\ m_workqueue # <<>>
    /\ m_workqueue' = SubSeq(m_workqueue, 1, Len(m_workqueue) - 1)
    /\ UNCHANGED <<m_queuelocker, m_queuestat, poolVars, request,
                   producerVars, interrupts, undefined>>

RunPop(w) ==
    /\ Alive
    /\ WGoto(w, "pop", "unlock")
    /\ m_workqueue # <<>>
    /\ m_workqueue' = Tail(m_workqueue)
    /\ UNCHANGED <<m_queuelocker, m_queuestat, poolVars, request,
                   producerVars, interrupts, undefined>>

Mut_RunUnlock(w) ==
    /\ Alive
    /\ WGoto(w, "unlock", IF request[w] = Null THEN "loop" ELSE "process")
    /\ m_queuelocker' = IF request[w] = Null THEN w ELSE NoThread
    /\ request' = IF request[w] = Null
                    THEN [request EXCEPT ![w] = NoRequest] ELSE request
    /\ UNCHANGED <<m_workqueue, m_queuestat, poolVars, producerVars,
                   interrupts, undefined>>

\* unlock; a null request goes back to the loop, any other is processed
RunUnlock(w) ==
    /\ Alive
    /\ WGoto(w, "unlock", IF request[w] = Null THEN "loop" ELSE "process")
    /\ Unlock(w)
    /\ request' = IF request[w] = Null
                    THEN [request EXCEPT ![w] = NoRequest] ELSE request
    /\ UNCHANGED <<m_workqueue, m_queuestat, poolVars, producerVars,
                   interrupts, undefined>>

\* request->process() returns
RunProcess(w) ==
    /\ WGoto(w, "process", "loop")
    /\ request' = [request EXCEPT ![w] = NoRequest]
    /\ UNCHANGED <<m_workqueue, m_queuelocker, m_queuestat, poolVars,
                   producerVars, interrupts, undefined>>

-----------------------------------------------------------------------------
AppendNext(p) ==
    \/ \E r \in Requests \cup {Null} : CallAppend(p, r)
    \/ AppendLock(p) \/ AppendSize(p) \/ AppendReject(p)
    \/ AppendPush(p) \/ AppendUnlock(p) \/ AppendPost(p)

RunNext(w) ==
    \/ RunTest(w) \/ RunWait(w) \/ RunWaitInterrupted(w) \/ RunLock(w)
    \/ RunEmpty(w) \/ RunSkip(w) \/ RunFront(w) \/ RunPop(w)
    \/ RunUnlock(w) \/ RunProcess(w) \/ UseAfterDestroy(w)

LifeNext ==
    \/ \E w \in Workers : CreateWorker(w)
    \/ CtorReturns \/ CtorThrows \/ Dtor \/ DestroyMembers

Next ==
    \/ LifeNext
    \/ \E p \in Producers : AppendNext(p)
    \/ \E w \in Workers : RunNext(w)

Spec == Init /\ [][Next]_vars

(***************************************************************************)
(* The scheduler lets a thread that can run take its next step.  A mutex   *)
(* is not a queue, so no single worker is promised the lock; the promise   *)
(* is that the workers together are not locked out for ever while the lock *)
(* keeps becoming free.  Producers may stay away, and process() returns.   *)
(***************************************************************************)
Fairness ==
    /\ \A w \in Workers :
         /\ WF_vars(RunTest(w) \/ RunEmpty(w) \/ RunSkip(w) \/ RunFront(w)
                    \/ RunPop(w) \/ RunUnlock(w) \/ RunProcess(w))
         /\ WF_vars(RunWait(w))
    /\ SF_vars(\E w \in Workers : RunLock(w))
    /\ \A p \in Producers :
         WF_vars(AppendSize(p) \/ AppendReject(p) \/ AppendPush(p)
                 \/ AppendUnlock(p) \/ AppendPost(p))
    /\ WF_vars(DestroyMembers)

FairSpec == Spec /\ Fairness

-----------------------------------------------------------------------------
(***************************************************************************)
(* Properties.                                                             *)
(***************************************************************************)

\* The types of the variables; a local variable holds a request exactly while
\* append or run() uses it.
TypeOK ==
    /\ m_workqueue \in Seq(Requests \cup {Null})
    /\ m_queuelocker \in Threads \cup {NoThread}
    /\ m_queuestat \in Nat
    /\ m_stop \in BOOLEAN
    /\ phase \in {"ctor", "ready", "stopping", "destroyed"}
    /\ wpc \in [Workers -> WorkerPC]
    /\ request \in [Workers -> Requests \cup {Null, NoRequest}]
    /\ ppc \in [Producers -> ProducerPC]
    /\ arg \in [Producers -> Requests \cup {Null, NoRequest}]
    /\ interrupts \in 0..MaxInterrupts
    /\ undefined \subseteq Workers
    /\ \A p \in Producers : arg[p] = NoRequest <=> ppc[p] = "idle"
    /\ \A w \in Workers :
         request[w] # NoRequest <=> wpc[w] \in {"pop", "unlock", "process"}

\* Where a thread is between lock() and unlock().
WorkerInside(w) == wpc[w] \in {"empty", "skip", "front", "pop", "unlock"}
ProducerInside(p) == ppc[p] \in {"size", "reject", "push", "unlock"}

\* The list is touched by at most one thread at a time: a thread between
\* lock() and unlock() in append or run is the owner of m_queuelocker.
MutualExclusion ==
    /\ \A w \in Workers : WorkerInside(w) => m_queuelocker = w
    /\ \A p \in Producers : ProducerInside(p) => m_queuelocker = p

\* The comment on m_max_requests (15-3:29): the largest number of requests that
\* the list may hold.
WithinMaximum == Len(m_workqueue) <= m_max_requests

\* What the test in append lets in: one request more than the comment says.
MostQueued == m_max_requests + 1

\* The list never outgrows that: the pushes that race for the last place are
\* ordered by the lock.
QueueBound == Len(m_workqueue) <= MostQueued

\* Workers that took a permit (or were interrupted) and popped nothing yet,
\* and producers that pushed and did not post yet.
Awake == {w \in Workers : wpc[w] \in {"lock", "empty", "front", "pop"}}
Posting == {p \in Producers : ppc[p] \in {"unlock", "post"}}

\* No request is ever stranded: each one in the list has a permit in the
\* semaphore, a worker on its way to it, or a producer about to post, though
\* append posts outside the lock and run ignores a failed wait.
NoLostRequest ==
    Len(m_workqueue) <= m_queuestat + Cardinality(Awake) + Cardinality(Posting)

\* There are no more wake-ups than requests, but for the interrupted waits:
\* so run() finds the list empty only after a wait that was interrupted.
NoSpuriousWakeup ==
    /\ m_queuestat + Cardinality(Awake) + Cardinality(Posting)
         <= Len(m_workqueue) + interrupts
    /\ (\E w \in Workers : wpc[w] = "skip") => interrupts > 0

\* The list is consistent when run() reads it: a worker between empty() and
\* pop_front() sees a non-empty list, and what it pops is what it read.
PopsWhatItRead ==
    \A w \in Workers :
        /\ wpc[w] = "front" => m_workqueue # <<>>
        /\ wpc[w] = "pop" => /\ m_workqueue # <<>>
                             /\ request[w] = Head(m_workqueue)

\* append and run implement an atomic bounded FIFO: each accepted request is
\* taken once, in order, by one worker, and append refuses exactly when the list
\* holds MostQueued.  That is the bound of the code; the one of its comment
\* does not hold (WithinMaximum).
Holding == [w \in Workers |->
              IF wpc[w] \in {"unlock", "process"} THEN request[w] ELSE NoRequest]
CallState == [p \in Producers |->
                IF ppc[p] = "idle" THEN "none"
                ELSE IF ppc[p] = "reject" THEN "refused"
                ELSE IF ppc[p] \in {"unlock", "post"} THEN "accepted"
                ELSE "asking"]

Pool == INSTANCE TaskPool WITH
    Clients <- Producers,
    Items <- Requests \cup {Null},
    NoItem <- NoRequest,
    Capacity <- MostQueued,
    queue <- m_workqueue,
    holding <- Holding,
    call <- CallState,
    offered <- arg

ImplementsTaskPool == Pool!Spec

\* A request in the list is given to a worker in the end, unless the pool is
\* torn down: no lost wake-up and no deadlock keeps it there.
AcceptedIsServed ==
    \A r \in Requests :
        (\E i \in 1..Len(m_workqueue) : m_workqueue[i] = r)
            ~> \/ \E w \in Workers : wpc[w] = "process" /\ request[w] = r
               \/ phase # "ready"
=============================================================================
