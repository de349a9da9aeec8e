--------------------------- MODULE ArtifactQueue ---------------------------
(***************************************************************************)
(* The circular job queue of utilities/artifact_queue.c.  The file holds   *)
(* the same code twice, for the WAV artifacts that wait for STT and for    *)
(* the LLM responses that wait for TTS; Items is either kind of job.  The  *)
(* indices wrap at Capacity, a vacated slot is zeroed, and emptiness is    *)
(* told from fullness by size alone.                                       *)
(***************************************************************************)
EXTENDS Naturals, Sequences

CONSTANTS
    Capacity,   \* ASSISTANTD_SUPERVISOR_{ARTIFACT,LLM_RESPONSE}_QUEUE_CAPACITY
    Items,      \* the jobs
    Zeroed      \* the value memset leaves in a slot

ASSUME CapacityAssumption == Capacity \in Nat \ {0}
ASSUME ZeroedAssumption == Zeroed \notin Items

VARIABLES
    items,      \* the slots
    head,       \* the slot of the oldest job
    tail,       \* the slot the next job goes to
    size,       \* the number of jobs
    result      \* what the last call returned, and the job it handed out

vars == <<items, head, tail, size, result>>

Accepted == [ret |-> 1, job |-> {}]
Refused == [ret |-> 0, job |-> {}]
Returned(x) == [ret |-> 1, job |-> {x}]

Slots == 0 .. Capacity - 1

Init ==
    /\ items = [s \in Slots |-> Zeroed]
    /\ head = 0
    /\ tail = 0
    /\ size = 0
    /\ result = Refused

Advance(index) == (index + 1) % Capacity

\* Slips: the slot that is not cleared, and the job taken from the wrong end.
DequeueNotCleared ==
    /\ size # 0
    /\ result' = Returned(items[head])
    /\ head' = Advance(head)
    /\ size' = size - 1
    /\ UNCHANGED <<items, tail>>
DequeueFromTail ==
    /\ size # 0
    /\ LET last == (tail + Capacity - 1) % Capacity
       IN  /\ result' = Returned(items[last])
           /\ items' = [items EXCEPT ![last] = Zeroed]
           /\ tail' = last
    /\ size' = size - 1
    /\ UNCHANGED head

Enqueue(x) ==
    \/ /\ size < Capacity
       /\ items' = [items EXCEPT ![tail] = x]
       /\ tail' = Advance(tail)
       /\ size' = size + 1
       /\ result' = Accepted
       /\ UNCHANGED head
    \/ /\ size >= Capacity
       /\ result' = Refused
       /\ UNCHANGED <<items, head, tail, size>>

Dequeue ==
    \/ /\ size # 0
       /\ result' = Returned(items[head])
       /\ items' = [items EXCEPT ![head] = Zeroed]
       /\ head' = Advance(head)
       /\ size' = size - 1
       /\ UNCHANGED tail
    \/ /\ size = 0
       /\ result' = Refused
       /\ UNCHANGED <<items, head, tail, size>>

Next == Dequeue \/ \E x \in Items : Enqueue(x)

Spec == Init /\ [][Next]_vars

-----------------------------------------------------------------------------
\* The indices stay inside the array and a call answers 0 or 1, whatever the
\* sequence of calls on artifact_queue.c.
TypeOK ==
    /\ items \in [Slots -> Items \cup {Zeroed}]
    /\ head \in Slots
    /\ tail \in Slots
    /\ size \in 0 .. Capacity
    /\ result.ret \in {0, 1}

Slot(k) == (head + k) % Capacity

\* The three fields that describe the same window agree: size jobs lie in the
\* slots from head up to tail, and a slot outside the window holds no job that
\* was handed out before (artifact_queue.c zeroes the slot it vacates).
WindowInv ==
    /\ tail = Slot(size)
    /\ \A k \in 0 .. Capacity - 1 : (items[Slot(k)] \in Items) <=> (k < size)

\* The jobs of the window, oldest first.
Waiting == [k \in 1 .. size |-> items[Slot(k - 1)]]

\* The circular array is a bounded FIFO: every call does what the abstract
\* queue does and returns what it returns.
Fifo == INSTANCE BoundedFifo WITH queue <- Waiting
FifoSpec == Fifo!Spec
=============================================================================
