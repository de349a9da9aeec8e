---------------------------- MODULE BoundedFifo ----------------------------
(***************************************************************************)
(* What a job queue of the daemon promises its caller: a FIFO of at most   *)
(* Capacity jobs that refuses a job when it is full and returns the oldest *)
(* one on request.  ArtifactQueue implements it with a circular array; the *)
(* Supervisor module uses the two queues of the daemon at this level.      *)
(***************************************************************************)
EXTENDS Naturals, Sequences

CONSTANTS
    Capacity,   \* the number of jobs the queue holds
    Items       \* the jobs: artifacts or LLM responses

VARIABLES
    queue,      \* the jobs that wait, oldest first
    result      \* what the last call returned

vars == <<queue, result>>

Accepted == [ret |-> 1, job |-> {}]
Refused == [ret |-> 0, job |-> {}]
Returned(x) == [ret |-> 1, job |-> {x}]

Init == queue = <<>> /\ result = Refused

Enqueue(x) ==
    \/ /\ Len(queue) < Capacity
       /\ queue' = Append(queue, x)
       /\ result' = Accepted
    \/ /\ Len(queue) = Capacity
       /\ result' = Refused
       /\ UNCHANGED queue

Dequeue ==
    \/ /\ queue # <<>>
       /\ queue' = Tail(queue)
       /\ result' = Returned(Head(queue))
    \/ /\ queue = <<>>
       /\ result' = Refused
       /\ UNCHANGED queue

Next == Dequeue \/ \E x \in Items : Enqueue(x)

Spec == Init /\ [][Next]_vars
=============================================================================
