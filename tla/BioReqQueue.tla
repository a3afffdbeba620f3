---------------------------- MODULE BioReqQueue ----------------------------
(***************************************************************************)
(* BioReqQueue: a queue of block I/O requests under a lock, with a counter *)
(* beside it, used by threads that enqueue and threads that dequeue and    *)
(* complete requests.                                                      *)
(***************************************************************************)
EXTENDS Integers, Sequences, Functions, FiniteSets

CONSTANTS
  Req,          \* requests
  Enqueuer,     \* threads in enqueue
  Dequeuer,     \* threads in dequeue and complete
  NoReq,        \* no request, and no dequeuer
  UsizeRange    \* number of values of a usize

ASSUME UsizeAssumption ==
  /\ UsizeRange \in Nat \ {0} /\ UsizeRange > Cardinality(Req)
  /\ NoReq \notin Req \cup Dequeuer /\ IsFiniteSet(Enqueuer)

VARIABLES
  queue,        \* BioReqQueue::queue
  popper,       \* the dequeuer that popped and still holds the lock, or NoReq
  num_reqs,     \* BioReqQueue::num_reqs
  req,          \* per request its status and the calls of on_complete
  pushing,      \* per enqueuer the request it has pushed and not counted
  popped,       \* per dequeuer the request that it has to complete
  debug,        \* whether the build has debug assertions
  asserted      \* FALSE once dequeue's debug_assert_eq failed

bioVars == <<queue, popper, num_reqs, req, pushing, popped, debug, asserted>>

\* BioReqBuilder::build.
Build == [status |-> "Init", called |-> 0]

BioInit ==
  /\ queue = <<>> /\ popper = NoReq /\ num_reqs = 0 /\ debug \in BOOLEAN /\ asserted = TRUE
  /\ req = [r \in Req |-> Build]
  /\ pushing = [e \in Enqueuer |-> NoReq] /\ popped = [d \in Dequeuer |-> NoReq]

\* The lock of the queue, and a build whose assertion failed, which has panicked.
QueueFree == popper = NoReq
Panicked == debug /\ ~asserted

\* enqueue until the lock is released: submit and push.
EnqueuePush(e, r) ==
  /\ QueueFree /\ pushing[e] = NoReq /\ req[r].status = "Init"
  /\ req' = [req EXCEPT ![r].status = "Submitted"]
  /\ queue' = Append(queue, r) /\ pushing' = [pushing EXCEPT ![e] = r]
  /\ UNCHANGED <<popper, num_reqs, popped, debug, asserted>>

\* The rest of enqueue, without the lock.
EnqueueCount(e) ==
  /\ pushing[e] # NoReq
  /\ num_reqs' = (num_reqs + 1) % UsizeRange /\ pushing' = [pushing EXCEPT ![e] = NoReq]
  /\ UNCHANGED <<queue, popper, req, popped, debug, asserted>>

\* dequeue takes the lock and pops; the guard of `if let` lives to the end of both branches.
DequeuePop(d) ==
  /\ QueueFree /\ popped[d] = NoReq /\ queue # <<>>
  /\ queue' = Tail(queue) /\ popped' = [popped EXCEPT ![d] = Head(queue)] /\ popper' = d
  /\ UNCHANGED <<num_reqs, req, pushing, debug, asserted>>

\* num_reqs is counted down, and the lock released.
DequeueCount(d) ==
  /\ popper = d
  /\ num_reqs' = (num_reqs - 1) % UsizeRange /\ popper' = NoReq
  /\ UNCHANGED <<queue, req, pushing, popped, debug, asserted>>


\* dequeue of an empty queue: debug_assert_eq!(num_reqs, 0).
DequeueEmpty(d) ==
  /\ QueueFree /\ popped[d] = NoReq /\ queue = <<>>
  /\ asserted' = (asserted /\ num_reqs = 0)
  /\ UNCHANGED <<queue, popper, num_reqs, req, pushing, popped, debug>>

Complete(d) ==
  /\ popped[d] # NoReq /\ popper # d /\ req[popped[d]].status = "Submitted"
  /\ req' = [req EXCEPT ![popped[d]].status = "Completed", ![popped[d]].called = @ + 1]
  /\ popped' = [popped EXCEPT ![d] = NoReq]
  /\ UNCHANGED <<queue, popper, num_reqs, pushing, debug, asserted>>

BioNext ==
  /\ ~Panicked
  /\ \/ \E e \in Enqueuer : EnqueueCount(e) \/ \E r \in Req : EnqueuePush(e, r)
     \/ \E d \in Dequeuer : DequeuePop(d) \/ DequeueCount(d) \/ DequeueEmpty(d) \/ Complete(d)

BioSpec == BioInit /\ [][BioNext]_bioVars

-----------------------------------------------------------------------------
(* Properties *)


\* A submitted request is at one place, the queue or a dequeuer, and one that was
\* completed had its callback called once.
ServedOnce ==
  \A r \in Req :
    /\ req[r].status = "Submitted" <=>
         ((r \in Range(queue)) /= (\E d \in Dequeuer : popped[d] = r))
    /\ req[r].called = IF req[r].status = "Completed" THEN 1 ELSE 0

\* debug_assert_eq!(self.num_reqs.load(Ordering::Acquire), 0) of dequeue, in a build that
\* has it: a queue that is empty counts no request.
EmptyCountsZero == debug => asserted
=============================================================================
