------------------------ MODULE ArtifactQueueProofs ------------------------
(***************************************************************************)
(* For every capacity and every set of jobs: the circular array of         *)
(* ArtifactQueue keeps its window and implements BoundedFifo.              *)
(*                                                                         *)
(* TypeOK /\ WindowInv is inductive.  The only arithmetic is that an index *)
(* below 2 * Capacity wraps by one subtraction (ModuloWraps), so that the  *)
(* slots of the window are pairwise different (SlotInjective).             *)
(***************************************************************************)
EXTENDS ArtifactQueue, SequenceTheorems, TLAPS

\* An index that is not yet two turns ahead wraps by subtracting one turn.
LEMMA ModuloWraps ==
    ASSUME NEW n \in 0 .. 2 * Capacity - 1
    PROVE  n % Capacity = IF n < Capacity THEN n ELSE n - Capacity
BY CapacityAssumption, SMT

\* The slots of the window's positions, computed without the remainder.
LEMMA SlotValue ==
    ASSUME head \in Slots, NEW k \in 0 .. Capacity
    PROVE  Slot(k) = IF head + k < Capacity THEN head + k ELSE head + k - Capacity
BY ModuloWraps, CapacityAssumption DEF Slots, Slot

\* Different positions of the window are different slots.
LEMMA SlotInjective ==
    ASSUME head \in Slots,
           NEW j \in 0 .. Capacity - 1, NEW k \in 0 .. Capacity - 1,
           Slot(j) = Slot(k)
    PROVE  j = k
BY SlotValue, CapacityAssumption DEF Slots

\* Advancing head by one moves every position of the window down by one.
LEMMA SlotAfterAdvance ==
    ASSUME head \in Slots, head' = Advance(head), NEW k \in 0 .. Capacity - 1
    PROVE  (head' + k) % Capacity = Slot(k + 1)
<1>1. Advance(head) = IF head + 1 < Capacity THEN head + 1 ELSE 0
  BY ModuloWraps, CapacityAssumption DEF Slots, Advance
<1>2. (head' + k) % Capacity = IF head' + k < Capacity THEN head' + k ELSE head' + k - Capacity
  BY <1>1, ModuloWraps, CapacityAssumption DEF Slots
<1>3. Slot(k + 1) = IF head + (k + 1) < Capacity THEN head + (k + 1) ELSE head + (k + 1) - Capacity
  BY SlotValue, CapacityAssumption
<1> QED BY <1>1, <1>2, <1>3, CapacityAssumption DEF Slots

-----------------------------------------------------------------------------
Inv == TypeOK /\ WindowInv

LEMMA InitInv == Init => Inv
<1> SUFFICES ASSUME Init PROVE Inv
  OBVIOUS
<1>1. TypeOK
  BY CapacityAssumption DEF Init, TypeOK, Slots, Refused
<1>2. \A k \in 0 .. Capacity - 1 : Slot(k) \in Slots
  BY SlotValue, CapacityAssumption DEF Init, Slots
<1>3. tail = Slot(size)
  BY SlotValue, CapacityAssumption DEF Init, Slots
<1> QED BY <1>1, <1>2, <1>3, ZeroedAssumption DEF Inv, WindowInv, Init

LEMMA EnqueueInv ==
    ASSUME Inv, NEW x \in Items, Enqueue(x)
    PROVE  Inv'
<1>1. CASE size < Capacity /\ items' = [items EXCEPT ![tail] = x]
           /\ tail' = Advance(tail) /\ size' = size + 1 /\ result' = Accepted /\ head' = head
  <2>1. size \in 0 .. Capacity - 1 /\ size' \in 0 .. Capacity /\ tail \in Slots /\ head \in Slots
    BY <1>1, CapacityAssumption DEF Inv, TypeOK
  <2>2. tail' = Slot(size + 1) /\ tail' \in Slots
    <3>1. tail = IF head + size < Capacity THEN head + size ELSE head + size - Capacity
      BY <2>1, SlotValue, CapacityAssumption DEF Inv, WindowInv
    <3>2. tail' = IF tail + 1 < Capacity THEN tail + 1 ELSE 0
      BY <1>1, <2>1, ModuloWraps, CapacityAssumption DEF Advance, Slots
    <3>3. Slot(size + 1) = IF head + (size + 1) < Capacity THEN head + (size + 1)
                           ELSE head + (size + 1) - Capacity
      BY <2>1, SlotValue, CapacityAssumption
    <3> QED BY <3>1, <3>2, <3>3, <2>1, CapacityAssumption DEF Slots
  <2>3. TypeOK'
    BY <1>1, <2>1, <2>2 DEF Inv, TypeOK, Accepted
  <2>4. ASSUME NEW k \in 0 .. Capacity - 1
        PROVE  (items'[Slot(k)] \in Items) <=> (k < size + 1)
    <3>1. Slot(k) \in Slots
      BY <2>1, SlotValue, CapacityAssumption DEF Slots
    <3>2. CASE k = size
      BY <1>1, <2>1, <3>1, <3>2 DEF Inv, WindowInv, TypeOK
    <3>3. CASE k # size
      <4>1. Slot(k) # tail
        BY <2>1, <3>3, SlotInjective DEF Inv, WindowInv
      <4> QED BY <1>1, <2>1, <3>1, <3>3, <4>1 DEF Inv, WindowInv, TypeOK
    <3> QED BY <3>2, <3>3
  <2>5. WindowInv'
    BY <1>1, <2>2, <2>4 DEF WindowInv, Slot
  <2> QED BY <2>3, <2>5 DEF Inv
<1>2. CASE result' = Refused /\ UNCHANGED <<items, head, tail, size>>
  BY <1>2 DEF Inv, TypeOK, WindowInv, Refused, Slot
<1> QED BY <1>1, <1>2 DEF Enqueue

LEMMA DequeueInv ==
    ASSUME Inv, Dequeue
    PROVE  Inv'
<1>1. CASE size # 0 /\ result' = Returned(items[head]) /\ items' = [items EXCEPT ![head] = Zeroed]
           /\ head' = Advance(head) /\ size' = size - 1 /\ tail' = tail
  <2>1. size \in 1 .. Capacity /\ size' \in 0 .. Capacity - 1 /\ head \in Slots
    BY <1>1, CapacityAssumption DEF Inv, TypeOK
  <2>2. head' \in Slots
    BY <1>1, <2>1, ModuloWraps, CapacityAssumption DEF Advance, Slots
  <2>3. TypeOK'
    BY <1>1, <2>1, <2>2, CapacityAssumption, ZeroedAssumption DEF Inv, TypeOK, Returned
  <2>4. \A k \in 0 .. Capacity - 1 : Slot(k)' = Slot(k + 1)
    BY <1>1, <2>1, SlotAfterAdvance DEF Slot
  <2>5. tail' = Slot(size)'
    <3>1. size' + 1 = size
      BY <1>1, <2>1
    <3>2. (head' + size') % Capacity = Slot(size' + 1)
      BY <1>1, <2>1, SlotAfterAdvance
    <3> QED BY <1>1, <3>1, <3>2 DEF Inv, WindowInv, Slot
  <2>6. head = Slot(0) /\ head = Slot(Capacity)
    BY <2>1, SlotValue, CapacityAssumption DEF Slots
  <2>7. ASSUME NEW k \in 0 .. Capacity - 1
        PROVE  (items'[Slot(k + 1)] \in Items) <=> (k < size')
    <3>1. CASE k = Capacity - 1
      <4>1. k + 1 = Capacity /\ ~(k < size')
        BY <3>1, <2>1, CapacityAssumption
      <4>2. items'[head] = Zeroed
        BY <1>1, <2>1 DEF Inv, TypeOK
      <4> QED BY <4>1, <4>2, <2>6, ZeroedAssumption
    <3>2. CASE k # Capacity - 1
      <4>1. k + 1 \in 1 .. Capacity - 1
        BY <3>2, CapacityAssumption
      <4>2. Slot(k + 1) \in Slots
        BY <4>1, <2>1, SlotValue, CapacityAssumption DEF Slots
      <4>3. Slot(k + 1) # head
        BY <4>1, <2>1, <2>6, SlotInjective, CapacityAssumption
      <4>4. items'[Slot(k + 1)] = items[Slot(k + 1)]
        BY <1>1, <4>2, <4>3 DEF Inv, TypeOK
      <4>5. (items[Slot(k + 1)] \in Items) <=> (k + 1 < size)
        BY <4>1 DEF Inv, WindowInv
      <4> QED BY <1>1, <4>4, <4>5, <2>1
    <3> QED BY <3>1, <3>2
  <2>8. WindowInv'
    BY <2>4, <2>5, <2>7 DEF WindowInv
  <2> QED BY <2>3, <2>8 DEF Inv
<1>2. CASE result' = Refused /\ UNCHANGED <<items, head, tail, size>>
  BY <1>2 DEF Inv, TypeOK, WindowInv, Refused, Slot
<1> QED BY <1>1, <1>2 DEF Dequeue

\* artifact_queue.c keeps its indices in the array and its window consistent,
\* for every capacity.
THEOREM QueueInvariant == Spec => [](TypeOK /\ WindowInv)
<1>1. Init => Inv
  BY InitInv
<1>2. Inv /\ [Next]_vars => Inv'
  <2> SUFFICES ASSUME Inv, [Next]_vars PROVE Inv'
    OBVIOUS
  <2>1. CASE Next
    BY <2>1, EnqueueInv, DequeueInv DEF Next
  <2>2. CASE UNCHANGED vars
    BY <2>2 DEF vars, Inv, TypeOK, WindowInv, Slot
  <2> QED BY <2>1, <2>2
<1> QED BY <1>1, <1>2, PTL DEF Spec, Inv

-----------------------------------------------------------------------------
\* Each call on the array is the same call on the FIFO of the waiting jobs.
LEMMA InitRefines == Init => Fifo!Init
BY CapacityAssumption DEF Init, Fifo!Init, Waiting, Refused, Fifo!Refused

LEMMA EnqueueRefines ==
    ASSUME Inv, NEW x \in Items, Enqueue(x)
    PROVE  Fifo!Enqueue(x)
<1> DEFINE q == Waiting
<1>0. size \in 0 .. Capacity /\ Len(q) = size /\ q \in Seq(Items)
  <2>1. size \in 0 .. Capacity
    BY DEF Inv, TypeOK
  <2>2. \A k \in 1 .. size : items[Slot(k - 1)] \in Items
    BY <2>1, CapacityAssumption DEF Inv, WindowInv
  <2> QED BY <2>1, <2>2, CapacityAssumption DEF Waiting
<1>1. CASE size < Capacity /\ items' = [items EXCEPT ![tail] = x]
           /\ tail' = Advance(tail) /\ size' = size + 1 /\ result' = Accepted /\ head' = head
  <2>1. \A k \in 0 .. Capacity - 1 : Slot(k) \in Slots
    BY SlotValue, CapacityAssumption DEF Slots, Inv, TypeOK
  <2>2. items'[Slot(size)] = x
    BY <1>1, <1>0, <2>1 DEF Inv, TypeOK, WindowInv
  <2>3. \A k \in 1 .. size : items'[Slot(k - 1)] = items[Slot(k - 1)]
    <3> SUFFICES ASSUME NEW k \in 1 .. size PROVE items'[Slot(k - 1)] = items[Slot(k - 1)]
      OBVIOUS
    <3>1. k - 1 \in 0 .. Capacity - 1 /\ size \in 0 .. Capacity - 1 /\ k - 1 # size
      BY <1>0, <1>1, CapacityAssumption
    <3>2. Slot(k - 1) # tail
      BY <3>1, SlotInjective DEF Inv, TypeOK, WindowInv
    <3> QED BY <1>1, <2>1, <3>1, <3>2 DEF Inv, TypeOK
  <2>4. Waiting' = Append(q, x)
    <3>1. Waiting' = [k \in 1 .. size + 1 |-> items'[Slot(k - 1)]]
      BY <1>1 DEF Waiting, Slot
    <3>2. Append(q, x) = [k \in 1 .. size + 1 |-> IF k = size + 1 THEN x ELSE q[k]]
      <4> DEFINE a == Append(q, x)
      <4>1. /\ a \in Seq(Items) /\ Len(a) = size + 1 /\ a[size + 1] = x
            /\ \A k \in 1 .. size : a[k] = q[k]
        BY <1>0, AppendProperties
      <4>2. a = [k \in 1 .. size + 1 |-> a[k]]
        BY <4>1, LenProperties
      <4>3. \A k \in 1 .. size + 1 : a[k] = IF k = size + 1 THEN x ELSE q[k]
        BY <4>1, <1>0
      <4> HIDE DEF a
      <4> QED BY <4>2, <4>3 DEF a
    <3>3. \A k \in 1 .. size + 1 :
             items'[Slot(k - 1)] = IF k = size + 1 THEN x ELSE q[k]
      BY <1>0, <2>2, <2>3 DEF Waiting
    <3> QED BY <3>1, <3>2, <3>3
  <2> QED BY <1>0, <1>1, <2>4 DEF Fifo!Enqueue, Accepted, Fifo!Accepted
<1>2. CASE size >= Capacity /\ result' = Refused /\ UNCHANGED <<items, head, tail, size>>
  <2>1. Waiting' = q
    BY <1>2 DEF Waiting, Slot
  <2> QED BY <1>0, <1>2, <2>1, CapacityAssumption DEF Fifo!Enqueue, Refused, Fifo!Refused
<1> QED BY <1>1, <1>2 DEF Enqueue

LEMMA DequeueRefines ==
    ASSUME Inv, Dequeue
    PROVE  Fifo!Dequeue
<1> DEFINE q == Waiting
<1>0. size \in 0 .. Capacity /\ Len(q) = size /\ q \in Seq(Items)
  <2>1. size \in 0 .. Capacity
    BY DEF Inv, TypeOK
  <2>2. \A k \in 1 .. size : items[Slot(k - 1)] \in Items
    BY <2>1, CapacityAssumption DEF Inv, WindowInv
  <2> QED BY <2>1, <2>2, CapacityAssumption DEF Waiting
<1>1. CASE size # 0 /\ result' = Returned(items[head]) /\ items' = [items EXCEPT ![head] = Zeroed]
           /\ head' = Advance(head) /\ size' = size - 1 /\ tail' = tail
  <2>1. head \in Slots /\ size \in 1 .. Capacity
    BY <1>0, <1>1 DEF Inv, TypeOK
  <2>2. head = Slot(0)
    BY <2>1, SlotValue, CapacityAssumption DEF Slots
  <2>3. \A k \in 1 .. size - 1 : items'[Slot(k - 1)'] = items[Slot(k)]
    <3> SUFFICES ASSUME NEW k \in 1 .. size - 1 PROVE items'[Slot(k - 1)'] = items[Slot(k)]
      OBVIOUS
    <3>1. k \in 1 .. Capacity - 1 /\ k - 1 \in 0 .. Capacity - 1 /\ (k - 1) + 1 = k
      BY <2>1, CapacityAssumption
    <3>2. Slot(k - 1)' = Slot(k)
      <4>1. (head' + (k - 1)) % Capacity = Slot((k - 1) + 1)
        BY <1>1, <2>1, <3>1, SlotAfterAdvance
      <4> QED BY <4>1, <3>1 DEF Slot
    <3>3. Slot(k) \in Slots /\ Slot(k) # head
      BY <2>1, <2>2, <3>1, SlotValue, SlotInjective, CapacityAssumption DEF Slots
    <3> QED BY <1>1, <3>2, <3>3 DEF Inv, TypeOK
  <2>4. Waiting' = Tail(q)
    <3>1. Waiting' = [k \in 1 .. size - 1 |-> items'[Slot(k - 1)']]
      BY <1>1 DEF Waiting
    <3>2. Tail(q) = [k \in 1 .. size - 1 |-> items[Slot(k)]]
      BY <1>0, <2>1 DEF Waiting
    <3> QED BY <3>1, <3>2, <2>3
  <2>5. Head(q) = items[head] /\ q # <<>>
    BY <1>0, <2>1, <2>2 DEF Waiting
  <2> QED BY <1>1, <2>4, <2>5 DEF Fifo!Dequeue, Returned, Fifo!Returned
<1>2. CASE size = 0 /\ result' = Refused /\ UNCHANGED <<items, head, tail, size>>
  <2>1. Waiting' = q /\ q = <<>>
    BY <1>0, <1>2 DEF Waiting, Slot
  <2> QED BY <1>2, <2>1 DEF Fifo!Dequeue, Refused, Fifo!Refused
<1> QED BY <1>1, <1>2 DEF Dequeue

\* artifact_queue.c is a bounded FIFO of its jobs, for every capacity: jobs
\* leave in the order they came, none is lost, doubled or invented, and one is
\* refused only when Capacity of them wait.
THEOREM QueueIsFifo == Spec => FifoSpec
<1>1. Init => Fifo!Init
  BY InitRefines
<1>2. Inv /\ [Next]_vars => [Fifo!Next]_(Fifo!vars)
  <2> SUFFICES ASSUME Inv, [Next]_vars PROVE [Fifo!Next]_(Fifo!vars)
    OBVIOUS
  <2>1. CASE Next
    BY <2>1, EnqueueRefines, DequeueRefines DEF Next, Fifo!Next
  <2>2. CASE UNCHANGED vars
    BY <2>2 DEF vars, Fifo!vars, Waiting, Slot
  <2> QED BY <2>1, <2>2
<1>3. Spec => []Inv
  BY QueueInvariant DEF Inv
<1> QED BY <1>1, <1>2, <1>3, PTL DEF Spec, FifoSpec, Fifo!Spec
=============================================================================
