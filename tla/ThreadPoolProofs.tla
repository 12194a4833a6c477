---------------------------- MODULE ThreadPoolProofs ----------------------------
(***************************************************************************)
(* Theorems about ThreadPool, for every number of workers and producers    *)
(* and every m_max_requests.                                               *)
(***************************************************************************)
EXTENDS ThreadPool, FiniteSetTheorems, SequenceTheorems, TLAPS

(***************************************************************************)
(* Types and mutual exclusion.  Together they are inductive: a thread gets *)
(* inside only from a free mutex, and only the owner releases it.  The     *)
(* type of what front() reads needs that the list is not empty by then.    *)
(***************************************************************************)
SomethingInFront == \A w \in Workers : wpc[w] = "front" => m_workqueue # <<>>

LockInv == TypeOK /\ MutualExclusion /\ SomethingInFront

LEMMA LockInit == Init => LockInv
<1> SUFFICES ASSUME Init PROVE LockInv
  OBVIOUS
<1>1. TypeOK
  <2>1. /\ m_workqueue \in Seq(Requests \cup {Null})
        /\ m_queuestat \in Nat
    BY EmptySeq DEF Init
  <2>2. /\ m_queuelocker \in Threads \cup {NoThread}
        /\ phase \in {"ctor", "ready", "stopping", "destroyed"}
        /\ undefined \subseteq Workers
    BY DEF Init
  <2>3. m_stop \in BOOLEAN
    BY DEF Init
  <2>4. interrupts \in 0..MaxInterrupts
    BY ThreadPoolAssumption DEF Init
  <2>5. /\ wpc \in [Workers -> WorkerPC]
        /\ request \in [Workers -> Requests \cup {Null, NoRequest}]
        /\ \A w \in Workers :
             request[w] # NoRequest <=> wpc[w] \in {"pop", "unlock", "process"}
    BY DEF Init, WorkerPC
  <2>6. /\ ppc \in [Producers -> ProducerPC]
        /\ arg \in [Producers -> Requests \cup {Null, NoRequest}]
        /\ \A p \in Producers : arg[p] = NoRequest <=> ppc[p] = "idle"
    BY DEF Init, ProducerPC
  <2> QED
    BY <2>1, <2>2, <2>3, <2>4, <2>5, <2>6 DEF TypeOK
<1>2. MutualExclusion
  BY DEF Init, MutualExclusion, WorkerInside, ProducerInside
<1>3. SomethingInFront
  BY DEF Init, SomethingInFront
<1> QED
  BY <1>1, <1>2, <1>3 DEF LockInv

\* The steps of the object's life leave the mutex and the list alone.
LEMMA LockLife == LockInv /\ LifeNext => LockInv'
<1> USE DEF LockInv, TypeOK, MutualExclusion, SomethingInFront, WorkerInside,
            ProducerInside, Threads, WorkerPC, ProducerPC, poolVars, workerVars, producerVars
<1> SUFFICES ASSUME LockInv, LifeNext PROVE LockInv'
  OBVIOUS
<1>1. ASSUME NEW w \in Workers, CreateWorker(w) PROVE LockInv'
  BY <1>1 DEF CreateWorker, WGoto
<1>2. CASE CtorReturns
  BY <1>2 DEF CtorReturns
<1>3. CASE CtorThrows
  BY <1>3 DEF CtorThrows
<1>4. CASE Dtor
  BY <1>4 DEF Dtor
<1>5. CASE DestroyMembers
  BY <1>5 DEF DestroyMembers
<1> QED
  BY <1>1, <1>2, <1>3, <1>4, <1>5 DEF LifeNext

\* The steps of append.
LEMMA LockAppend ==
  ASSUME LockInv, NEW p \in Producers, AppendNext(p)
  PROVE  LockInv'
<1> USE ThreadPoolAssumption
    DEF LockInv, TypeOK, MutualExclusion, SomethingInFront, WorkerInside,
        ProducerInside, Threads, WorkerPC, ProducerPC, poolVars, workerVars, producerVars,
        PGoto
<1>1. ASSUME NEW r \in Requests \cup {Null}, CallAppend(p, r) PROVE LockInv'
  BY <1>1 DEF CallAppend
<1>2. CASE AppendLock(p)
  BY <1>2 DEF AppendLock, Lock
<1>3. CASE AppendSize(p)
  BY <1>3 DEF AppendSize
<1>4. CASE AppendReject(p)
  BY <1>4 DEF AppendReject, Unlock
<1>5. CASE AppendPush(p)
  <2>1. arg[p] \in Requests \cup {Null}
    BY <1>5 DEF AppendPush
  <2>2. m_workqueue' # <<>>
    BY <1>5, <2>1, AppendProperties DEF AppendPush
  <2> QED
    BY <1>5, <2>1, <2>2 DEF AppendPush
<1>6. CASE AppendUnlock(p)
  BY <1>6 DEF AppendUnlock, Unlock
<1>7. CASE AppendPost(p)
  BY <1>7 DEF AppendPost, Post
<1> QED
  BY <1>1, <1>2, <1>3, <1>4, <1>5, <1>6, <1>7 DEF AppendNext

\* The steps of run.
LEMMA LockRun ==
  ASSUME LockInv, NEW w \in Workers, RunNext(w)
  PROVE  LockInv'
<1> USE ThreadPoolAssumption
    DEF LockInv, TypeOK, MutualExclusion, SomethingInFront, WorkerInside,
        ProducerInside, Threads, WorkerPC, ProducerPC, poolVars, workerVars, producerVars,
        WGoto
<1>1. CASE RunTest(w)
  BY <1>1 DEF RunTest
<1>2. CASE RunWait(w)
  BY <1>2 DEF RunWait, Wait
<1>3. CASE RunWaitInterrupted(w)
  BY <1>3 DEF RunWaitInterrupted
<1>4. CASE RunLock(w)
  BY <1>4 DEF RunLock, Lock
<1>5. CASE RunEmpty(w)
  BY <1>5 DEF RunEmpty
<1>6. CASE RunSkip(w)
  BY <1>6 DEF RunSkip, Unlock
<1>7. CASE RunFront(w)
  <2>1. First \in Requests \cup {Null}
    BY <1>7, HeadTailProperties DEF RunFront, First
  <2> QED
    BY <1>7, <2>1 DEF RunFront
<1>8. CASE RunPop(w)
  <2>1. Tail(m_workqueue) \in Seq(Requests \cup {Null})
    BY <1>8, HeadTailProperties DEF RunPop
  <2>2. \A v \in Workers : v # w => wpc[v] # "front"
    BY <1>8 DEF RunPop
  <2> QED
    BY <1>8, <2>1, <2>2 DEF RunPop
<1>9. CASE RunUnlock(w)
  BY <1>9 DEF RunUnlock, Unlock
<1>10. CASE RunProcess(w)
  BY <1>10 DEF RunProcess
<1>11. CASE UseAfterDestroy(w)
  BY <1>11 DEF UseAfterDestroy
<1> QED
  BY <1>1, <1>2, <1>3, <1>4, <1>5, <1>6, <1>7, <1>8, <1>9, <1>10, <1>11
     DEF RunNext

LEMMA LockStutter == LockInv /\ UNCHANGED vars => LockInv'
BY DEF LockInv, TypeOK, MutualExclusion, SomethingInFront, WorkerInside,
       ProducerInside, vars, poolVars, workerVars, producerVars

LEMMA LockStep == LockInv /\ [Next]_vars => LockInv'
BY LockLife, LockAppend, LockRun, LockStutter DEF Next

\* The variables keep their types in every behaviour of the pool.
THEOREM TypeCorrect == Spec => []TypeOK
<1>1. LockInv => TypeOK
  BY DEF LockInv
<1> QED
  BY <1>1, LockInit, LockStep, PTL DEF Spec

\* Between lock() and unlock() a thread of append or run owns the mutex, so
\* the std::list is never touched by two threads at once.
THEOREM Exclusive == Spec => []MutualExclusion
<1>1. LockInv => MutualExclusion
  BY DEF LockInv
<1> QED
  BY <1>1, LockInit, LockStep, PTL DEF Spec

-----------------------------------------------------------------------------
(***************************************************************************)
(* The list.  Only the owner of the mutex changes it, so what a thread     *)
(* has read inside still holds at its next step inside.                    *)
(***************************************************************************)
RoomToPush == \A p \in Producers : ppc[p] = "push" => Len(m_workqueue) <= m_max_requests

ListInv == LockInv /\ QueueBound /\ RoomToPush /\ PopsWhatItRead

LEMMA ListInit == Init => ListInv
<1> SUFFICES ASSUME Init PROVE ListInv
  OBVIOUS
<1>1. LockInv
  BY LockInit
<1>2. QueueBound /\ RoomToPush
  BY ThreadPoolAssumption DEF Init, QueueBound, MostQueued, RoomToPush
<1>3. PopsWhatItRead
  BY DEF Init, PopsWhatItRead
<1> QED
  BY <1>1, <1>2, <1>3 DEF ListInv

\* A step that leaves the list alone, and moves nobody to a step that relies
\* on what it holds, keeps the invariant.
LEMMA ListUntouched ==
  ASSUME ListInv, LockInv', m_workqueue' = m_workqueue,
         \A p \in Producers : ppc'[p] = "push" => ppc[p] = "push",
         \A w \in Workers :
            /\ wpc'[w] = "front" => wpc[w] = "front"
            /\ wpc'[w] = "pop" => wpc[w] = "pop" /\ request'[w] = request[w]
  PROVE  ListInv'
BY DEF ListInv, QueueBound, RoomToPush, PopsWhatItRead

LEMMA ListLife == ListInv /\ LifeNext => ListInv'
<1> SUFFICES ASSUME ListInv, LifeNext PROVE ListInv'
  OBVIOUS
<1>1. LockInv'
  BY LockLife DEF ListInv
<1>2. ASSUME NEW v \in Workers, CreateWorker(v)
      PROVE  \A w \in Workers : wpc'[w] \in {"front", "pop"} => wpc'[w] = wpc[w]
  BY <1>2 DEF CreateWorker, WGoto, ListInv, LockInv, TypeOK
<1>3. /\ m_workqueue' = m_workqueue /\ ppc' = ppc /\ request' = request
      /\ \A w \in Workers : wpc'[w] \in {"front", "pop"} => wpc'[w] = wpc[w]
  BY <1>2 DEF LifeNext, CreateWorker, CtorReturns, CtorThrows, Dtor,
              DestroyMembers, workerVars, producerVars
<1> QED
  BY <1>1, <1>3, ListUntouched

LEMMA ListAppend ==
  ASSUME ListInv, NEW p \in Producers, AppendNext(p)
  PROVE  ListInv'
<1>1. LockInv /\ LockInv'
  BY LockAppend DEF ListInv
<1> USE ThreadPoolAssumption DEF PGoto, poolVars, workerVars, producerVars
<1>2. CASE ~ AppendPush(p) /\ ~ AppendSize(p)
  <2>1. /\ m_workqueue' = m_workqueue /\ wpc' = wpc /\ request' = request
        /\ \A q \in Producers : ppc'[q] = "push" => ppc[q] = "push"
    BY <1>1, <1>2 DEF AppendNext, CallAppend, AppendLock, AppendReject,
                      AppendUnlock, AppendPost, LockInv, TypeOK
  <2> QED
    BY <1>1, <2>1, ListUntouched
<1>3. CASE AppendSize(p)
  <2>1. RoomToPush'
    BY <1>1, <1>3 DEF AppendSize, QueueFull, RoomToPush, ListInv, LockInv, TypeOK
  <2> QED
    BY <1>1, <1>3, <2>1 DEF AppendSize, ListInv, QueueBound, PopsWhatItRead
<1>4. CASE AppendPush(p)
  <2>1. /\ arg[p] \in Requests \cup {Null}
        /\ m_workqueue \in Seq(Requests \cup {Null})
    BY <1>1, <1>4 DEF AppendPush, LockInv, TypeOK
  <2>2. Len(m_workqueue') = Len(m_workqueue) + 1
    BY <1>4, <2>1, AppendProperties DEF AppendPush
  <2>3. \A q \in Producers : q # p => ppc[q] # "push"
    BY <1>1, <1>4 DEF AppendPush, LockInv, MutualExclusion, ProducerInside
  <2>4. \A w \in Workers : wpc[w] \notin {"front", "pop"}
    BY <1>1, <1>4 DEF AppendPush, LockInv, MutualExclusion, ProducerInside,
                      WorkerInside
  <2>5. QueueBound'
    BY <1>4, <2>1, <2>2 DEF AppendPush, QueueBound, MostQueued, ListInv, RoomToPush
  <2>6. RoomToPush'
    BY <1>1, <1>4, <2>3 DEF AppendPush, RoomToPush, LockInv, TypeOK
  <2>7. PopsWhatItRead'
    BY <1>4, <2>4 DEF AppendPush, PopsWhatItRead
  <2> QED
    BY <1>1, <2>5, <2>6, <2>7 DEF ListInv
<1> QED
  BY <1>2, <1>3, <1>4

LEMMA ListRun ==
  ASSUME ListInv, NEW w \in Workers, RunNext(w)
  PROVE  ListInv'
<1>1. LockInv /\ LockInv'
  BY LockRun DEF ListInv
<1> USE DEF WGoto, poolVars, workerVars, producerVars
<1>2. CASE ~ RunEmpty(w) /\ ~ RunFront(w) /\ ~ RunPop(w)
  <2>1. /\ m_workqueue' = m_workqueue /\ ppc' = ppc
        /\ \A v \in Workers :
             /\ wpc'[v] = "front" => wpc[v] = "front"
             /\ wpc'[v] = "pop" => wpc[v] = "pop" /\ request'[v] = request[v]
    BY <1>1, <1>2 DEF RunNext, RunTest, RunWait, RunWaitInterrupted, RunLock,
                      RunSkip, RunUnlock, RunProcess, UseAfterDestroy,
                      LockInv, TypeOK
  <2> QED
    BY <1>1, <2>1, ListUntouched
<1>3. CASE RunEmpty(w)
  <2>1. PopsWhatItRead'
    BY <1>1, <1>3 DEF RunEmpty, PopsWhatItRead, ListInv, LockInv, TypeOK
  <2> QED
    BY <1>1, <1>3, <2>1 DEF RunEmpty, ListInv, QueueBound, RoomToPush
<1>4. CASE RunFront(w)
  <2>1. PopsWhatItRead'
    BY <1>1, <1>4 DEF RunFront, First, PopsWhatItRead, ListInv, LockInv, TypeOK
  <2> QED
    BY <1>1, <1>4, <2>1 DEF RunFront, ListInv, QueueBound, RoomToPush
<1>5. CASE RunPop(w)
  <2>1. m_workqueue \in Seq(Requests \cup {Null}) /\ m_workqueue # <<>>
    BY <1>1, <1>5 DEF RunPop, LockInv, TypeOK
  <2>2. Len(m_workqueue') = Len(m_workqueue) - 1
    BY <1>5, <2>1, HeadTailProperties DEF RunPop
  <2>3. \A v \in Workers : v # w => wpc[v] \notin {"front", "pop"}
    BY <1>1, <1>5 DEF RunPop, LockInv, MutualExclusion, WorkerInside
  <2>4. \A q \in Producers : ppc[q] # "push"
    BY <1>1, <1>5, ThreadPoolAssumption
       DEF RunPop, LockInv, MutualExclusion, WorkerInside, ProducerInside
  <2>5. QueueBound'
    BY <2>1, <2>2, ThreadPoolAssumption DEF QueueBound, MostQueued, ListInv
  <2>6. RoomToPush'
    BY <1>5, <2>4 DEF RunPop, RoomToPush
  <2>7. PopsWhatItRead'
    BY <1>1, <1>5, <2>3 DEF RunPop, PopsWhatItRead, LockInv, TypeOK
  <2> QED
    BY <1>1, <2>5, <2>6, <2>7 DEF ListInv
<1> QED
  BY <1>2, <1>3, <1>4, <1>5

LEMMA ListStep == ListInv /\ [Next]_vars => ListInv'
<1>1. ASSUME ListInv, UNCHANGED vars PROVE ListInv'
  BY <1>1, LockStutter
     DEF ListInv, QueueBound, RoomToPush, PopsWhatItRead, vars, workerVars,
         producerVars
<1> QED
  BY <1>1, ListLife, ListAppend, ListRun DEF Next

\* The list holds at most m_max_requests + 1 requests, for any number of
\* threads racing in append.
THEOREM Bounded == Spec => []QueueBound
<1>1. ListInv => QueueBound
  BY DEF ListInv
<1> QED
  BY <1>1, ListInit, ListStep, PTL DEF Spec

\* run() never takes front() or pop_front() of an empty list and never pops a
\* request other than the one it read.
THEOREM ConsistentPop == Spec => []PopsWhatItRead
<1>1. ListInv => PopsWhatItRead
  BY DEF ListInv
<1> QED
  BY <1>1, ListInit, ListStep, PTL DEF Spec

-----------------------------------------------------------------------------
(***************************************************************************)
(* Permits.  A permit is created by a push (its producer will post), moves *)
(* to the semaphore, then to a worker, and ends with a pop; an interrupted *)
(* wait adds a worker without a permit.                                    *)
(***************************************************************************)
CountInv == NoLostRequest /\ NoSpuriousWakeup

PermitInv == ListInv /\ CountInv

\* Adding an element to, or taking one from, a finite set.
LEMMA CardinalityMoves ==
  ASSUME NEW S, IsFiniteSet(S), NEW x
  PROVE  /\ Cardinality(S) \in Nat
         /\ x \notin S => Cardinality(S \cup {x}) = Cardinality(S) + 1
         /\ x \in S => /\ Cardinality(S \ {x}) = Cardinality(S) - 1
                       /\ Cardinality(S) > 0
<1>1. Cardinality(S) \in Nat
  BY FS_CardinalityType
<1>2. x \notin S => Cardinality(S \cup {x}) = Cardinality(S) + 1
  BY FS_AddElement
<1>3. x \in S => Cardinality(S \ {x}) = Cardinality(S) - 1
  BY FS_RemoveElement
<1>4. x \in S => Cardinality(S \ {x}) \in Nat
  BY FS_RemoveElement, FS_CardinalityType
<1> QED
  BY <1>1, <1>2, <1>3, <1>4

LEMMA FiniteCounts == IsFiniteSet(Awake) /\ IsFiniteSet(Posting)
BY ThreadPoolAssumption, FS_Subset DEF Awake, Posting

\* The counts are numbers and the list's length is one.
LEMMA CountTypes ==
  ASSUME LockInv
  PROVE  /\ Cardinality(Awake) \in Nat /\ Cardinality(Posting) \in Nat
         /\ Len(m_workqueue) \in Nat /\ m_queuestat \in Nat
         /\ interrupts \in Nat
<1>1. Cardinality(Awake) \in Nat /\ Cardinality(Posting) \in Nat
  BY FiniteCounts, FS_CardinalityType
<1>2. Len(m_workqueue) \in Nat
  BY LenProperties DEF LockInv, TypeOK
<1> QED
  BY <1>1, <1>2, ThreadPoolAssumption DEF LockInv, TypeOK

LEMMA PermitInit == Init => PermitInv
<1> SUFFICES ASSUME Init PROVE PermitInv
  OBVIOUS
<1>1. Awake = {} /\ Posting = {}
  BY DEF Init, Awake, Posting
<1>2. Cardinality(Awake) = 0 /\ Cardinality(Posting) = 0
  BY <1>1, FS_EmptySet
<1>3. Len(m_workqueue) = 0 /\ m_queuestat = 0 /\ interrupts = 0
  BY DEF Init
<1>4. \A w \in Workers : wpc[w] # "skip"
  BY DEF Init
<1>5. CountInv
  BY <1>2, <1>3, <1>4 DEF CountInv, NoLostRequest, NoSpuriousWakeup
<1> QED
  BY <1>5, ListInit DEF PermitInv

\* A step that moves no permit and starts no skip keeps the counts.
LEMMA CountUntouched ==
  ASSUME CountInv,
         Awake' = Awake, Posting' = Posting, m_queuestat' = m_queuestat,
         m_workqueue' = m_workqueue, interrupts' = interrupts,
         \A w \in Workers : wpc'[w] = "skip" => wpc[w] = "skip"
  PROVE  CountInv'
BY DEF CountInv, NoLostRequest, NoSpuriousWakeup

LEMMA CountLife == LockInv /\ CountInv /\ LifeNext => CountInv'
<1> SUFFICES ASSUME LockInv, CountInv, LifeNext PROVE CountInv'
  OBVIOUS
<1>1. /\ Awake' = Awake /\ Posting' = Posting
      /\ \A w \in Workers : wpc'[w] = "skip" => wpc[w] = "skip"
  BY DEF LifeNext, CreateWorker, CtorReturns, CtorThrows, Dtor,
         DestroyMembers, WGoto, Awake, Posting, LockInv, TypeOK,
         workerVars, producerVars
<1>2. /\ m_queuestat' = m_queuestat /\ m_workqueue' = m_workqueue
      /\ interrupts' = interrupts
  BY DEF LifeNext, CreateWorker, CtorReturns, CtorThrows, Dtor, DestroyMembers
<1> QED
  BY <1>1, <1>2, CountUntouched

LEMMA CountAppend ==
  ASSUME LockInv, CountInv, NEW p \in Producers, AppendNext(p)
  PROVE  CountInv'
<1> USE DEF PGoto, poolVars, workerVars, producerVars
<1>1. CASE ~ AppendPush(p) /\ ~ AppendPost(p)
  <2>1. /\ m_queuestat' = m_queuestat /\ m_workqueue' = m_workqueue
        /\ interrupts' = interrupts /\ wpc' = wpc
    BY <1>1 DEF AppendNext, CallAppend, AppendLock, AppendSize, AppendReject,
                AppendUnlock
  <2>2. Posting' = Posting
    BY <1>1 DEF AppendNext, CallAppend, AppendLock, AppendSize, AppendReject,
                AppendUnlock, Posting, LockInv, TypeOK
  <2> QED
    BY <2>1, <2>2, CountUntouched DEF Awake
<1>2. CASE AppendPush(p)
  <2>1. p \notin Posting /\ Posting' = Posting \cup {p} /\ Awake' = Awake
    BY <1>2 DEF AppendPush, Posting, Awake, LockInv, TypeOK
  <2>2. Cardinality(Posting') = Cardinality(Posting) + 1
    BY <2>1, FiniteCounts, CardinalityMoves
  <2>3. Len(m_workqueue') = Len(m_workqueue) + 1
    BY <1>2, AppendProperties DEF AppendPush, LockInv, TypeOK
  <2> QED
    BY <1>2, <2>1, <2>2, <2>3, CountTypes
       DEF AppendPush, CountInv, NoLostRequest, NoSpuriousWakeup
<1>3. CASE AppendPost(p)
  <2>1. p \in Posting /\ Posting' = Posting \ {p} /\ Awake' = Awake
    BY <1>3 DEF AppendPost, Posting, Awake, LockInv, TypeOK
  <2>2. Cardinality(Posting') = Cardinality(Posting) - 1
    BY <2>1, FiniteCounts, CardinalityMoves
  <2> QED
    BY <1>3, <2>1, <2>2, CountTypes
       DEF AppendPost, Post, CountInv, NoLostRequest, NoSpuriousWakeup
<1> QED
  BY <1>1, <1>2, <1>3

LEMMA CountRun ==
  ASSUME LockInv, CountInv, NEW w \in Workers, RunNext(w)
  PROVE  CountInv'
<1> USE DEF WGoto, poolVars, workerVars, producerVars
<1> DEFINE Quiet == RunTest(w) \/ RunLock(w) \/ RunSkip(w) \/ RunFront(w)
                      \/ RunUnlock(w) \/ RunProcess(w) \/ UseAfterDestroy(w)
<1>1. CASE Quiet
  <2>1. /\ m_queuestat' = m_queuestat /\ m_workqueue' = m_workqueue
        /\ interrupts' = interrupts /\ ppc' = ppc
    BY <1>1 DEF RunTest, RunLock, RunSkip, RunFront, RunUnlock, RunProcess,
                UseAfterDestroy
  <2>2. /\ Awake' = Awake
        /\ \A v \in Workers : wpc'[v] = "skip" => wpc[v] = "skip"
    BY <1>1 DEF RunTest, RunLock, RunSkip, RunFront, RunUnlock, RunProcess,
                UseAfterDestroy, Awake, LockInv, TypeOK
  <2> QED
    BY <2>1, <2>2, CountUntouched DEF Posting
<1>2. CASE RunWait(w) \/ RunWaitInterrupted(w)
  <2>1. /\ w \notin Awake /\ Awake' = Awake \cup {w} /\ Posting' = Posting
        /\ \A v \in Workers : wpc'[v] = "skip" => wpc[v] = "skip"
    BY <1>2 DEF RunWait, RunWaitInterrupted, Posting, Awake, LockInv, TypeOK
  <2>2. Cardinality(Awake') = Cardinality(Awake) + 1
    BY <2>1, FiniteCounts, CardinalityMoves
  <2>3. /\ m_workqueue' = m_workqueue
        /\ \/ m_queuestat' = m_queuestat - 1 /\ interrupts' = interrupts
           \/ m_queuestat' = m_queuestat /\ interrupts' = interrupts + 1
    BY <1>2 DEF RunWait, RunWaitInterrupted, Wait
  <2> QED
    BY <2>1, <2>2, <2>3, CountTypes
       DEF CountInv, NoLostRequest, NoSpuriousWakeup
<1>3. CASE RunEmpty(w) /\ m_workqueue # <<>>
  <2>1. /\ Awake' = Awake /\ Posting' = Posting
        /\ \A v \in Workers : wpc'[v] = "skip" => wpc[v] = "skip"
    BY <1>3 DEF RunEmpty, Posting, Awake, LockInv, TypeOK
  <2> QED
    BY <1>3, <2>1, CountUntouched DEF RunEmpty
<1>4. CASE RunEmpty(w) /\ m_workqueue = <<>>
  <2>1. w \in Awake /\ Awake' = Awake \ {w} /\ Posting' = Posting
    BY <1>4 DEF RunEmpty, Posting, Awake, LockInv, TypeOK
  <2>2. /\ Cardinality(Awake') = Cardinality(Awake) - 1
        /\ Cardinality(Awake) > 0
    BY <2>1, FiniteCounts, CardinalityMoves
  <2>3. Len(m_workqueue) = 0
    BY <1>4
  <2> QED
    BY <1>4, <2>1, <2>2, <2>3, CountTypes
       DEF RunEmpty, CountInv, NoLostRequest, NoSpuriousWakeup
<1>5. CASE RunPop(w)
  <2>1. /\ w \in Awake /\ Awake' = Awake \ {w} /\ Posting' = Posting
        /\ \A v \in Workers : wpc'[v] = "skip" => wpc[v] = "skip"
    BY <1>5 DEF RunPop, Posting, Awake, LockInv, TypeOK
  <2>2. Cardinality(Awake') = Cardinality(Awake) - 1
    BY <2>1, FiniteCounts, CardinalityMoves
  <2>3. Len(m_workqueue') = Len(m_workqueue) - 1
    BY <1>5, HeadTailProperties DEF RunPop, LockInv, TypeOK
  <2> QED
    BY <1>5, <2>1, <2>2, <2>3, CountTypes
       DEF RunPop, CountInv, NoLostRequest, NoSpuriousWakeup
<1> QED
  BY <1>1, <1>2, <1>3, <1>4, <1>5 DEF RunNext

LEMMA PermitStep == PermitInv /\ [Next]_vars => PermitInv'
<1> SUFFICES ASSUME PermitInv, [Next]_vars PROVE PermitInv'
  OBVIOUS
<1>1. ListInv' /\ LockInv
  BY ListStep DEF PermitInv, ListInv
<1>2. CASE UNCHANGED vars
  <2>1. CountInv'
    BY <1>2, CountUntouched
       DEF PermitInv, vars, workerVars, producerVars, Awake, Posting
  <2> QED
    BY <1>1, <2>1 DEF PermitInv
<1>3. CASE Next
  <2>1. CountInv'
    BY <1>1, <1>3, CountLife, CountAppend, CountRun DEF Next, PermitInv
  <2> QED
    BY <1>1, <2>1 DEF PermitInv
<1> QED
  BY <1>2, <1>3

\* No wake-up is lost: every request in the list has a permit, an awake
\* worker or a producer about to post, although append posts after unlock.
THEOREM NothingLost == Spec => []NoLostRequest
<1>1. PermitInv => NoLostRequest
  BY DEF PermitInv, CountInv
<1> QED
  BY <1>1, PermitInit, PermitStep, PTL DEF Spec

\* Wake-ups exceed the requests only by the interrupted waits, so the branch
\* for an empty list in run() is reached only because of one of them.
THEOREM NothingSpurious == Spec => []NoSpuriousWakeup
<1>1. PermitInv => NoSpuriousWakeup
  BY DEF PermitInv, CountInv
<1> QED
  BY <1>1, PermitInit, PermitStep, PTL DEF Spec

-----------------------------------------------------------------------------
(***************************************************************************)
(* The pool implements TaskPool: a push is the instant of acceptance, the  *)
(* size test of a refusal, and pop_front() the instant a request is taken. *)
(***************************************************************************)
LEMMA PoolInit == Init => Pool!Init
BY DEF Init, Pool!Init, Holding, CallState

LEMMA PoolAppend ==
  ASSUME ListInv, NEW p \in Producers, AppendNext(p)
  PROVE  [Pool!Next]_(Pool!vars)
<1>1. LockInv
  BY DEF ListInv
<1> USE DEF PGoto, poolVars, workerVars, producerVars, LockInv, TypeOK,
            Pool!vars
<1>2. ASSUME NEW r \in Requests \cup {Null}, CallAppend(p, r)
      PROVE  Pool!Offer(p, r)
  BY <1>1, <1>2 DEF CallAppend, Pool!Offer, Holding, CallState
<1>3. CASE AppendLock(p) \/ AppendUnlock(p)
  <2>1. CallState' = CallState
    BY <1>1, <1>3 DEF AppendLock, AppendUnlock, CallState
  <2> QED
    BY <1>3, <2>1 DEF AppendLock, AppendUnlock, Holding
<1>4. CASE AppendSize(p) /\ QueueFull
  <2>1. Len(m_workqueue) >= MostQueued
    BY <1>1, <1>4, LenProperties, ThreadPoolAssumption DEF QueueFull, MostQueued
  <2>2. CallState[p] = "asking"
    BY <1>4 DEF AppendSize, CallState
  <2>3. CallState' = [CallState EXCEPT ![p] = "refused"]
    BY <1>1, <1>4 DEF AppendSize, CallState
  <2>4. Pool!Refuse(p)
    BY <1>4, <2>1, <2>2, <2>3 DEF AppendSize, Pool!Refuse, Holding
  <2> QED
    BY <2>4 DEF Pool!Next
<1>5. CASE AppendSize(p) /\ ~ QueueFull
  <2>1. CallState' = CallState
    BY <1>1, <1>5 DEF AppendSize, CallState
  <2> QED
    BY <1>5, <2>1 DEF AppendSize, Holding
<1>6. CASE AppendPush(p)
  <2>1. Len(m_workqueue) < MostQueued
    BY <1>1, <1>6, LenProperties, ThreadPoolAssumption
       DEF AppendPush, ListInv, RoomToPush, MostQueued
  <2>2. CallState[p] = "asking"
    BY <1>6 DEF AppendPush, CallState
  <2>3. CallState' = [CallState EXCEPT ![p] = "accepted"]
    BY <1>1, <1>6 DEF AppendPush, CallState
  <2>4. Pool!Accept(p)
    BY <1>6, <2>1, <2>2, <2>3 DEF AppendPush, Pool!Accept, Holding
  <2> QED
    BY <2>4 DEF Pool!Next
<1>7. CASE AppendReject(p) \/ AppendPost(p)
  <2>1. CallState[p] \in {"accepted", "refused"}
    BY <1>7 DEF AppendReject, AppendPost, CallState
  <2>2. CallState' = [CallState EXCEPT ![p] = "none"]
    BY <1>1, <1>7 DEF AppendReject, AppendPost, CallState
  <2>3. Pool!Answer(p)
    BY <1>7, <2>1, <2>2 DEF AppendReject, AppendPost, Pool!Answer, Holding
  <2> QED
    BY <2>3 DEF Pool!Next
<1> QED
  BY <1>2, <1>3, <1>4, <1>5, <1>6, <1>7 DEF AppendNext, Pool!Next

LEMMA PoolRun ==
  ASSUME ListInv, NEW w \in Workers, RunNext(w)
  PROVE  [Pool!Next]_(Pool!vars)
<1>1. LockInv
  BY DEF ListInv
<1> USE DEF WGoto, poolVars, workerVars, producerVars, LockInv, TypeOK,
            Pool!vars
<1>2. CASE RunTest(w) \/ RunWait(w) \/ RunWaitInterrupted(w) \/ RunLock(w)
           \/ RunEmpty(w) \/ RunSkip(w) \/ RunFront(w) \/ UseAfterDestroy(w)
  <2>1. Holding' = Holding
    BY <1>1, <1>2 DEF RunTest, RunWait, RunWaitInterrupted, RunLock, RunEmpty,
                      RunSkip, RunFront, UseAfterDestroy, Holding
  <2>2. UNCHANGED <<m_workqueue, ppc, arg>>
    BY <1>2 DEF RunTest, RunWait, RunWaitInterrupted, RunLock, RunEmpty,
                RunSkip, RunFront, UseAfterDestroy
  <2> QED
    BY <2>1, <2>2 DEF CallState
<1>3. CASE RunPop(w)
  <2>1. Holding[w] = NoRequest
    BY <1>3 DEF RunPop, Holding
  <2>2. Holding' = [Holding EXCEPT ![w] = Head(m_workqueue)]
    BY <1>1, <1>3 DEF RunPop, Holding, ListInv, PopsWhatItRead
  <2>3. Pool!Take(w)
    BY <1>3, <2>1, <2>2 DEF RunPop, Pool!Take, CallState
  <2> QED
    BY <2>3 DEF Pool!Next
<1>4. CASE RunProcess(w) \/ (RunUnlock(w) /\ request[w] = Null)
  <2>1. Holding[w] # NoRequest
    BY <1>1, <1>4 DEF RunProcess, RunUnlock, Holding
  <2>2. Holding' = [Holding EXCEPT ![w] = NoRequest]
    BY <1>1, <1>4 DEF RunProcess, RunUnlock, Holding
  <2>3. UNCHANGED <<m_workqueue, ppc, arg>>
    BY <1>4 DEF RunProcess, RunUnlock
  <2>4. Pool!Finish(w)
    BY <2>1, <2>2, <2>3 DEF Pool!Finish, CallState
  <2> QED
    BY <2>4 DEF Pool!Next
<1>5. CASE RunUnlock(w) /\ request[w] # Null
  <2>1. Holding' = Holding
    BY <1>1, <1>5 DEF RunUnlock, Holding
  <2> QED
    BY <1>5, <2>1 DEF RunUnlock, CallState
<1> QED
  BY <1>2, <1>3, <1>4, <1>5 DEF RunNext

LEMMA PoolLife == LockInv /\ LifeNext => UNCHANGED Pool!vars
<1> SUFFICES ASSUME LockInv, LifeNext PROVE UNCHANGED Pool!vars
  OBVIOUS
<1>1. Holding' = Holding
  BY DEF LifeNext, CreateWorker, CtorReturns, CtorThrows, Dtor,
         DestroyMembers, WGoto, Holding, LockInv, TypeOK, workerVars
<1>2. UNCHANGED <<m_workqueue, ppc, arg>>
  BY DEF LifeNext, CreateWorker, CtorReturns, CtorThrows, Dtor,
         DestroyMembers, producerVars
<1> QED
  BY <1>1, <1>2 DEF Pool!vars, CallState

LEMMA PoolStep == ListInv /\ [Next]_vars => [Pool!Next]_(Pool!vars)
<1>1. ASSUME UNCHANGED vars PROVE UNCHANGED Pool!vars
  BY <1>1 DEF vars, workerVars, producerVars, Pool!vars, Holding, CallState
<1> QED
  BY <1>1, PoolAppend, PoolRun, PoolLife DEF Next, ListInv

\* append and run implement the atomic bounded FIFO of TaskPool: an accepted
\* request is taken exactly once and in order, a refusal meets a full list.
THEOREM Refinement == Spec => ImplementsTaskPool
<1>1. Spec => []ListInv
  BY ListInit, ListStep, PTL DEF Spec
<1> QED
  BY <1>1, PoolInit, PoolStep, PTL DEF Spec, ImplementsTaskPool, Pool!Spec
=============================================================================
