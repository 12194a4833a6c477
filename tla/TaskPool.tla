-------------------------------- MODULE TaskPool --------------------------------
(***************************************************************************)
(* What a thread pool promises to the threads that use it, with no lock,   *)
(* no semaphore and no program counter: a bounded FIFO of requests, calls  *)
(* of append that are accepted or refused in one step, and workers that    *)
(* hold one request at a time.  ThreadPool implements this specification.  *)
(***************************************************************************)
EXTENDS Naturals, Sequences

CONSTANTS
    Workers,    \* the threads that execute requests
    Clients,    \* the threads that call append
    Items,      \* what may be appended
    NoItem,     \* the worker holds nothing, the client appends nothing
    Capacity    \* the most requests the queue ever holds

VARIABLES
    queue,      \* accepted requests that no worker has taken, oldest first
    holding,    \* holding[w]: the request worker w has taken
    call,       \* call[c]: where c's current call of append is
    offered     \* offered[c]: the request c offers

vars == <<queue, holding, call, offered>>

Init ==
    /\ queue = <<>>
    /\ holding = [w \in Workers |-> NoItem]
    /\ call = [c \in Clients |-> "none"]
    /\ offered = [c \in Clients |-> NoItem]

Offer(c, r) ==
    /\ call[c] = "none"
    /\ call' = [call EXCEPT ![c] = "asking"]
    /\ offered' = [offered EXCEPT ![c] = r]
    /\ UNCHANGED <<queue, holding>>

\* The one instant at which a request enters the pool.
Accept(c) ==
    /\ call[c] = "asking"
    /\ Len(queue) < Capacity
    /\ queue' = Append(queue, offered[c])
    /\ call' = [call EXCEPT ![c] = "accepted"]
    /\ UNCHANGED <<holding, offered>>

\* A request is refused only at an instant when the queue is full.
Refuse(c) ==
    /\ call[c] = "asking"
    /\ Len(queue) >= Capacity
    /\ call' = [call EXCEPT ![c] = "refused"]
    /\ UNCHANGED <<queue, holding, offered>>

Answer(c) ==
    /\ call[c] \in {"accepted", "refused"}
    /\ call' = [call EXCEPT ![c] = "none"]
    /\ offered' = [offered EXCEPT ![c] = NoItem]
    /\ UNCHANGED <<queue, holding>>

\* A free worker takes the oldest request, which leaves the queue with it.
Take(w) ==
    /\ holding[w] = NoItem
    /\ queue # <<>>
    /\ holding' = [holding EXCEPT ![w] = Head(queue)]
    /\ queue' = Tail(queue)
    /\ UNCHANGED <<call, offered>>

Finish(w) ==
    /\ holding[w] # NoItem
    /\ holding' = [holding EXCEPT ![w] = NoItem]
    /\ UNCHANGED <<queue, call, offered>>

Next ==
    \/ \E c \in Clients : \E r \in Items : Offer(c, r)
    \/ \E c \in Clients : Accept(c) \/ Refuse(c) \/ Answer(c)
    \/ \E w \in Workers : Take(w) \/ Finish(w)

Spec == Init /\ [][Next]_vars
=============================================================================
