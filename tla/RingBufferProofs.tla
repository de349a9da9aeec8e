-------------------------- MODULE RingBufferProofs --------------------------
(***************************************************************************)
(* For every capacity, every length of calls and both ways to run the two  *)
(* sides: the ring of RingBuffer has no data race, keeps the stream in     *)
(* order, honours what it promised and implements ByteFifo, as long as the *)
(* totals stay below SizeModulus (NoWrap; beyond it InOrder is false).     *)
(*                                                                         *)
(* Inv is inductive.  ViewInv is its heart: all that a load may still      *)
(* return is at least what the thread is synchronized with (pKnown,        *)
(* cKnown), and a call's count is bounded from what it is synchronized     *)
(* with, never from the other side's present counter.  So no slot of a     *)
(* running copy is in the other side's reach, which DataInv turns into the *)
(* contents of the array: byte i + 1 is in slot i % Capacity.              *)
(***************************************************************************)
EXTENDS RingBuffer, SequenceTheorems, TLAPS

-----------------------------------------------------------------------------
(* Arithmetic of the slots.                                                *)

\* The remainder is determined by the division.
LEMMA ModuloUnique ==
    ASSUME NEW q \in Nat, NEW r \in 0 .. Capacity - 1
    PROVE  (Capacity * q + r) % Capacity = r
BY RingAssumption

\* Slots i bytes apart, for less than one turn.
LEMMA ModuloAdd ==
    ASSUME NEW c \in Nat, NEW i \in 0 .. Capacity - 1
    PROVE  (c + i) % Capacity = IF (c % Capacity) + i < Capacity THEN (c % Capacity) + i
                                ELSE (c % Capacity) + i - Capacity
<1> DEFINE q == c \div Capacity
           p == c % Capacity
<1>1. q \in Nat /\ p \in 0 .. Capacity - 1 /\ c = Capacity * q + p
  BY RingAssumption
<1> HIDE DEF q, p
<1>2. CASE p + i < Capacity
  <2>1. c + i = Capacity * q + (p + i)
    BY <1>1, RingAssumption
  <2>2. (Capacity * q + (p + i)) % Capacity = p + i
    BY <1>1, <1>2, ModuloUnique, RingAssumption
  <2> QED BY <1>2, <2>1, <2>2 DEF p
<1>3. CASE p + i >= Capacity
  <2>1. c + i = Capacity * (q + 1) + (p + i - Capacity)
    BY <1>1, RingAssumption
  <2>2. (Capacity * (q + 1) + (p + i - Capacity)) % Capacity = p + i - Capacity
    <3>1. q + 1 \in Nat /\ p + i - Capacity \in 0 .. Capacity - 1
      BY <1>1, <1>3, RingAssumption
    <3> QED BY ONLY <3>1, ModuloUnique
  <2> QED BY <1>1, <1>3, <2>1, <2>2, RingAssumption DEF p
<1> QED BY <1>1, <1>2, <1>3, RingAssumption

LEMMA SlotRange ==
    ASSUME NEW c \in Nat
    PROVE  c % Capacity \in Slots
BY RingAssumption DEF Slots

\* Two bytes less than one turn apart have different slots.
LEMMA SlotsDiffer ==
    ASSUME NEW a \in Nat, NEW b \in Nat, a < b, b < a + Capacity
    PROVE  a % Capacity # b % Capacity
<1>1. b - a \in 1 .. Capacity - 1 /\ a + (b - a) = b
  BY RingAssumption
<1>2. (a + (b - a)) % Capacity = IF (a % Capacity) + (b - a) < Capacity THEN (a % Capacity) + (b - a)
                                 ELSE (a % Capacity) + (b - a) - Capacity
  BY <1>1, ModuloAdd
<1>3. a % Capacity \in 0 .. Capacity - 1
  BY RingAssumption
<1> QED BY <1>1, <1>2, <1>3, RingAssumption

\* The two memcpys of a call go round the ring as a copy byte by byte would.
LEMMA CopySlotIsModulo ==
    ASSUME NEW c \in Nat, NEW count \in 0 .. Capacity, NEW i \in 0 .. count - 1
    PROVE  CopySlot(c, count, i) = (c + i) % Capacity
<1> DEFINE p == c % Capacity
<1>1. p \in 0 .. Capacity - 1
  BY RingAssumption
<1>2. i \in 0 .. Capacity - 1
  BY RingAssumption
<1>3. (c + i) % Capacity = IF p + i < Capacity THEN p + i ELSE p + i - Capacity
  BY <1>2, ModuloAdd
<1> HIDE DEF p
<1>4. CopySlot(c, count, i) = LET firstChunk == MinSize(count, Capacity - p)
                              IN  IF i < firstChunk THEN p + i ELSE i - firstChunk
  BY DEF CopySlot, p
<1> QED BY <1>1, <1>2, <1>3, <1>4, RingAssumption DEF MinSize

\* No counter wraps at SizeModulus: size_t outlasts the stream.
NoWrap == MaxTotal < SizeModulus

\* Then a counter is the total it stands for.
LEMMA CounterExact ==
    ASSUME NoWrap, NEW c \in 0 .. MaxTotal
    PROVE  Counter(c) = c
BY RingAssumption DEF Counter, NoWrap

\* The snapshot of two counters is the distance of their totals.
LEMMA UsedExact ==
    ASSUME NoWrap, NEW h \in 0 .. MaxTotal, NEW t \in 0 .. MaxTotal,
           t <= h, h <= t + Capacity
    PROVE  UsedSnapshot(Counter(h), Counter(t)) = h - t
BY CounterExact, RingAssumption DEF UsedSnapshot, MinSize

-----------------------------------------------------------------------------
(* The inductive invariant.                                                *)

\* A call has a length, no call has none; nothing offered or asked for goes
\* beyond the bound.
CallInv ==
    /\ written + overflow + pLength <= MaxTotal
    /\ taken + underflow + cLength <= MaxTotal
    /\ IF pPc = "idle" THEN pLength = 0 ELSE pLength > 0
    /\ IF cPc = "idle" THEN cLength = 0 ELSE cLength > 0

\* What a load may return, and what the two sides may therefore touch.
ViewInv ==
    /\ taken \in tails /\ \A t \in tails : pKnown <= t /\ t <= taken
    /\ written \in heads /\ \A h \in heads : cKnown <= h /\ h <= written
    /\ written + pCount <= pKnown + Capacity
    /\ taken + cCount <= cKnown

\* A promise is bounded by what its side was synchronized with.
PromiseInv ==
    /\ written + pSpace <= pKnown + Capacity
    /\ taken + cAvailable <= cKnown
    /\ PromisesHonored

\* Every byte of the stream that is in the ring, or just copied into it, is in
\* its slot.
DataInv == \A i \in taken .. written + pDone - 1 : data[i % Capacity] = i + 1

\* What was copied out so far is the stream from taken on.
BufferInv == cBuffer \in Seq(Nat) /\ InOrder

\* One thread: loads are exact, and only one call runs at a time.
ExactInv ==
    singleThread =>
        /\ heads = {written} /\ tails = {taken}
        /\ pPc = "idle" \/ cPc = "idle"
        /\ pPc = "copy" => pCount = MinSize(pLength, Capacity - (written - taken))
        /\ cPc = "copy" => cCount = MinSize(cLength, written - taken)

Inv ==
    /\ TypeOK /\ CallInv /\ ViewInv /\ PromiseInv /\ DataInv /\ BufferInv /\ ExactInv

-----------------------------------------------------------------------------
(* Every action preserves it.                                              *)

\* A ring that was just zeroed satisfies it.
LEMMA FreshInv ==
    ASSUME written' = 0, taken' = 0, overflow' = 0, underflow' = 0,
           heads' = {0}, tails' = {0}, data' = [s \in Slots |-> 0], live' \in BOOLEAN,
           pPc' = "idle", pLength' = 0, pCount' = 0, pDone' = 0, pKnown' = 0, pSpace' = 0,
           cPc' = "idle", cLength' = 0, cCount' = 0, cBuffer' = <<>>, cKnown' = 0,
           cAvailable' = 0, singleThread' \in BOOLEAN
    PROVE  Inv'
BY RingAssumption DEF Inv, TypeOK, CallInv, ViewInv, PromiseInv, PromisesHonored, DataInv,
   BufferInv, InOrder, ExactInv, Slots, MinSize

\* The initial state satisfies the invariant.
LEMMA InitInv == Init => Inv
BY RingAssumption DEF Init, Inv, TypeOK, CallInv, ViewInv, PromiseInv, PromisesHonored, DataInv,
   BufferInv, InOrder, ExactInv, Slots, MinSize

\* The load of tail that sizes a write.
LEMMA WriteBeginInv ==
    ASSUME NoWrap, Inv, NEW length \in 1 .. MaxCall, WriteBegin(length), UNCHANGED singleThread
    PROVE  Inv'
<1>1. PICK total \in tails :
        /\ LoadTail(total)
        /\ pCount' = MinSize(length, Capacity - UsedSnapshot(Counter(written), Counter(total)))
  BY DEF WriteBegin
<1>2. /\ total \in 0 .. MaxTotal /\ written \in 0 .. MaxTotal /\ pKnown <= total /\ total <= taken
      /\ written <= pKnown + Capacity /\ pKnown \in 0 .. MaxTotal /\ taken \in 0 .. MaxTotal
      /\ taken <= written /\ pCount = 0 /\ pDone = 0
  BY RingAssumption DEF Inv, TypeOK, ViewInv, CallInv, WriteBegin, ProducerMayCall, MinSize
<1>3. pCount' = MinSize(length, Capacity - (written - total))
  BY <1>1, <1>2, UsedExact, RingAssumption
<1>4. pKnown' = total /\ tails' = {t \in tails : t >= total}
  BY <1>1, <1>2 DEF LoadTail, Synchronizes, TailStoreOrder, TailLoadOrder
<1>5. /\ pPc = "idle" /\ pPc' = "copy" /\ pLength' = length /\ pDone' = 0
      /\ written + overflow + length <= MaxTotal
      /\ UNCHANGED <<live, data, written, taken, overflow, underflow, heads, pSpace, consumer>>
      /\ (singleThread => cPc = "idle")
  BY DEF WriteBegin, ProducerMayCall
<1> USE <1>2, <1>3, <1>4, <1>5, RingAssumption
<1>6. TypeOK'
  <2>1. tails' \subseteq 0 .. MaxTotal
    BY DEF Inv, TypeOK
  <2>2. pCount' \in 0 .. MinSize(length, Capacity) /\ 0 \in 0 .. pCount'
    BY DEF MinSize
  <2>3. pKnown' \in 0 .. MaxTotal
    OBVIOUS
  <2> QED BY <2>1, <2>2, <2>3 DEF Inv, TypeOK, consumer
<1>7. CallInv'
  BY DEF Inv, CallInv, consumer
<1>8. ViewInv'
  BY DEF Inv, ViewInv, TypeOK, MinSize, consumer
<1>9. PromiseInv'
  BY DEF Inv, PromiseInv, PromisesHonored, TypeOK, MinSize, consumer
<1>10. DataInv'
  BY DEF Inv, DataInv
<1>11. BufferInv'
  BY DEF Inv, BufferInv, InOrder, consumer
<1>12. ExactInv'
  BY DEF Inv, ExactInv, TypeOK, consumer
<1> QED BY <1>6, <1>7, <1>8, <1>9, <1>10, <1>11, <1>12 DEF Inv

\* A byte copied in overwrites no byte of the window.
LEMMA WriteByteInv ==
    ASSUME NoWrap, Inv, WriteByte, UNCHANGED singleThread
    PROVE  Inv'
<1>1. /\ written \in 0 .. MaxTotal /\ taken \in 0 .. MaxTotal /\ pCount \in 0 .. Capacity
      /\ pDone \in 0 .. pCount - 1 /\ pKnown <= taken /\ pKnown \in 0 .. MaxTotal
      /\ written + pCount <= pKnown + Capacity /\ written + pCount <= MaxTotal
      /\ pLength \in 0 .. MaxCall /\ pCount <= pLength /\ overflow \in 0 .. MaxTotal
  BY RingAssumption DEF Inv, TypeOK, ViewInv, CallInv, WriteByte, MinSize
<1> DEFINE slot == (written + pDone) % Capacity
<1>2. /\ slot \in Slots
      /\ data' = [data EXCEPT ![slot] = written + pDone + 1]
      /\ data \in [Slots -> 0 .. MaxTotal]
  <2>1. slot \in Slots
    BY <1>1, SlotRange
  <2>2. CopySlot(Counter(written), pCount, pDone) = slot
    BY <1>1, CounterExact, CopySlotIsModulo
  <2>3. data' = [data EXCEPT ![slot] = written + pDone + 1]
    BY <2>2 DEF WriteByte, SourceIndex
  <2> QED BY <2>1, <2>3 DEF Inv, TypeOK
<1>3. ASSUME NEW i \in taken .. written + pDone
      PROVE  data'[i % Capacity] = i + 1
  <2>1. i \in Nat /\ i % Capacity \in Slots
    BY <1>1, SlotRange
  <2>2. CASE i = written + pDone
    BY <1>2, <2>1, <2>2
  <2>3. CASE i # written + pDone
    <3>1. i \in taken .. written + pDone - 1
      BY <1>1, <2>3
    <3>2. i % Capacity # slot
      <4>1. /\ i \in Nat /\ written + pDone \in Nat
            /\ i < written + pDone /\ written + pDone < i + Capacity
        BY <1>1, <3>1, RingAssumption
      <4> QED BY ONLY <4>1, SlotsDiffer DEF slot
    <3>3. data[i % Capacity] = i + 1
      BY <3>1 DEF Inv, DataInv
    <3> QED BY <1>2, <2>1, <3>2, <3>3
  <2> QED BY <2>2, <2>3
<1> HIDE DEF slot
<1>4. /\ pDone' = pDone + 1
      /\ UNCHANGED <<live, written, taken, overflow, underflow, heads, tails,
                     pPc, pLength, pCount, pKnown, pSpace, consumer>>
  BY DEF WriteByte
<1>5. TypeOK'
  BY <1>1, <1>2, <1>4, RingAssumption DEF Inv, TypeOK, consumer
<1>6. CallInv' /\ ViewInv' /\ PromiseInv' /\ BufferInv' /\ ExactInv'
  BY <1>4 DEF Inv, CallInv, ViewInv, PromiseInv, PromisesHonored, BufferInv, InOrder, ExactInv,
     consumer
<1>7. DataInv'
  BY <1>1, <1>3, <1>4 DEF DataInv
<1> QED BY <1>5, <1>6, <1>7 DEF Inv

\* The store of head publishes the copied bytes.
LEMMA WriteEndInv ==
    ASSUME Inv, WriteEnd, UNCHANGED singleThread
    PROVE  Inv'
<1>1. /\ written \in 0 .. MaxTotal /\ taken \in 0 .. MaxTotal /\ pCount \in 0 .. Capacity
      /\ pDone = pCount /\ pKnown \in 0 .. MaxTotal /\ cKnown \in 0 .. MaxTotal
      /\ written + pCount <= MaxTotal /\ overflow \in 0 .. MaxTotal
      /\ pLength \in 0 .. MaxCall /\ pCount <= pLength
  BY RingAssumption DEF Inv, TypeOK, CallInv, WriteEnd, MinSize
<1>2. /\ written' = written + pCount
      /\ heads' = IF singleThread THEN {written'} ELSE heads \cup {written'}
      /\ overflow' = overflow + (pLength - pCount) /\ pPc = "copy"
      /\ pPc' = "idle" /\ pLength' = 0 /\ pCount' = 0 /\ pDone' = 0 /\ pSpace' = 0
      /\ UNCHANGED <<live, data, taken, underflow, tails, pKnown, consumer>>
  BY DEF WriteEnd
<1> USE <1>1, <1>2, RingAssumption
<1>3. TypeOK'
  BY DEF Inv, TypeOK, CallInv, MinSize, consumer
<1>4. CallInv'
  BY DEF Inv, CallInv, consumer
<1>5. ViewInv'
  BY DEF Inv, TypeOK, ViewInv, consumer
<1>6. PromiseInv'
  BY DEF Inv, TypeOK, ViewInv, PromiseInv, PromisesHonored, MinSize, consumer
<1>7. DataInv'
  <2>1. \A i \in taken .. written + pDone - 1 : data[i % Capacity] = i + 1
    BY DEF Inv, DataInv
  <2>2. taken' .. written' + pDone' - 1 = taken .. written + pDone - 1 /\ data' = data
    <3>1. written' + pDone' - 1 = written + pDone - 1
      BY ONLY <1>1, <1>2
    <3> QED BY <3>1
  <2> QED BY ONLY <2>1, <2>2 DEF DataInv
<1>8. BufferInv'
  BY DEF Inv, BufferInv, InOrder, consumer
<1>9. ExactInv'
  BY DEF Inv, ExactInv, consumer
<1> QED BY <1>3, <1>4, <1>5, <1>6, <1>7, <1>8, <1>9 DEF Inv

\* The producer asks for the free space.
LEMMA SpaceInv ==
    ASSUME NoWrap, Inv, Space, UNCHANGED singleThread
    PROVE  Inv'
<1>1. PICK total \in tails :
        /\ LoadTail(total)
        /\ pSpace' = Capacity - UsedSnapshot(Counter(written), Counter(total))
  BY DEF Space
<1>2. /\ total \in 0 .. MaxTotal /\ written \in 0 .. MaxTotal /\ pKnown <= total /\ total <= taken
      /\ written <= pKnown + Capacity /\ pKnown \in 0 .. MaxTotal /\ taken \in 0 .. MaxTotal
      /\ taken <= written /\ pCount = 0 /\ pPc = "idle" /\ cKnown <= written
  BY RingAssumption DEF Inv, TypeOK, ViewInv, CallInv, Space, ProducerMayCall, MinSize
<1>3. pSpace' = Capacity - (written - total)
  BY <1>1, <1>2, UsedExact, RingAssumption
<1>4. pKnown' = total /\ tails' = {t \in tails : t >= total}
  BY <1>1, <1>2 DEF LoadTail, Synchronizes, TailStoreOrder, TailLoadOrder
<1>5. UNCHANGED <<live, data, written, taken, overflow, underflow, heads,
                  pPc, pLength, pCount, pDone, consumer>>
  BY DEF Space
<1> USE <1>2, <1>3, <1>4, <1>5, RingAssumption
<1>6. TypeOK'
  <2>1. tails' \subseteq 0 .. MaxTotal
    BY DEF Inv, TypeOK
  <2>2. pSpace' \in 0 .. Capacity /\ pKnown' \in 0 .. MaxTotal
    OBVIOUS
  <2> QED BY <2>1, <2>2 DEF Inv, TypeOK, consumer
<1>7. CallInv' /\ DataInv' /\ BufferInv'
  BY DEF Inv, CallInv, DataInv, BufferInv, InOrder, consumer
<1>8. ViewInv'
  BY DEF Inv, ViewInv, TypeOK, consumer
<1>9. PromiseInv'
  BY DEF Inv, PromiseInv, PromisesHonored, TypeOK, consumer
<1>10. ExactInv'
  BY DEF Inv, ExactInv, TypeOK, consumer
<1> QED BY <1>6, <1>7, <1>8, <1>9, <1>10 DEF Inv

\* The load of head that sizes a read.
LEMMA ReadBeginInv ==
    ASSUME NoWrap, Inv, NEW length \in 1 .. MaxCall, ReadBegin(length), UNCHANGED singleThread
    PROVE  Inv'
<1>1. PICK total \in heads :
        /\ LoadHead(total)
        /\ cCount' = MinSize(length, UsedSnapshot(Counter(total), Counter(taken)))
  BY DEF ReadBegin
<1>2. /\ total \in 0 .. MaxTotal /\ written \in 0 .. MaxTotal /\ cKnown <= total /\ total <= written
      /\ written <= taken + Capacity /\ cKnown \in 0 .. MaxTotal /\ taken \in 0 .. MaxTotal
      /\ taken <= cKnown /\ cCount = 0 /\ pCount \in 0 .. Capacity
  BY RingAssumption DEF Inv, TypeOK, ViewInv, CallInv, ReadBegin, ConsumerMayCall, MinSize
<1>3. cCount' = MinSize(length, total - taken)
  BY <1>1, <1>2, UsedExact, RingAssumption
<1>4. cKnown' = total /\ heads' = {h \in heads : h >= total}
  BY <1>1, <1>2 DEF LoadHead, Synchronizes, HeadStoreOrder, HeadLoadOrder
<1>5. /\ cPc = "idle" /\ cPc' = "copy" /\ cLength' = length /\ cBuffer' = <<>>
      /\ taken + underflow + length <= MaxTotal
      /\ UNCHANGED <<live, data, written, taken, overflow, underflow, tails, producer, cAvailable, got>>
      /\ (singleThread => pPc = "idle")
  BY DEF ReadBegin, ConsumerMayCall
<1> USE <1>2, <1>3, <1>4, <1>5, RingAssumption
<1>6. TypeOK'
  <2>1. heads' \subseteq 0 .. MaxTotal
    BY DEF Inv, TypeOK
  <2>2. cCount' \in 0 .. MinSize(length, Capacity) /\ Len(cBuffer') \in 0 .. cCount'
    BY DEF MinSize
  <2>3. cKnown' \in 0 .. MaxTotal
    OBVIOUS
  <2> QED BY <2>1, <2>2, <2>3 DEF Inv, TypeOK, producer
<1>7. CallInv' /\ DataInv'
  BY DEF Inv, CallInv, DataInv, producer
<1>8. ViewInv'
  BY DEF Inv, ViewInv, TypeOK, MinSize, producer
<1>9. PromiseInv'
  BY DEF Inv, PromiseInv, PromisesHonored, TypeOK, MinSize, producer
<1>10. BufferInv'
  BY DEF BufferInv, InOrder
<1>11. ExactInv'
  BY DEF Inv, ExactInv, TypeOK, producer
<1> QED BY <1>6, <1>7, <1>8, <1>9, <1>10, <1>11 DEF Inv

\* A byte copied out is the next of the stream.
LEMMA ReadByteInv ==
    ASSUME NoWrap, Inv, ReadByte, UNCHANGED singleThread
    PROVE  Inv'
<1> DEFINE n == Len(cBuffer)
<1>1. /\ written \in 0 .. MaxTotal /\ taken \in 0 .. MaxTotal /\ cCount \in 0 .. Capacity
      /\ n \in 0 .. cCount - 1 /\ taken + cCount <= cKnown /\ cKnown <= written
      /\ cKnown \in 0 .. MaxTotal /\ pDone \in Nat
  BY RingAssumption DEF Inv, TypeOK, ViewInv, ReadByte, MinSize
<1>2. cBuffer' = Append(cBuffer, taken + n + 1)
  <2>1. CopySlot(Counter(taken), cCount, n) = (taken + n) % Capacity
    BY <1>1, CounterExact, CopySlotIsModulo
  <2>2. data[(taken + n) % Capacity] = taken + n + 1
    BY <1>1 DEF Inv, DataInv
  <2> QED BY <2>1, <2>2 DEF ReadByte
<1>3. /\ cBuffer' \in Seq(Nat) /\ Len(cBuffer') = n + 1
      /\ \A k \in 1 .. n + 1 : cBuffer'[k] = taken + k
  <2>1. cBuffer \in Seq(Nat) /\ \A k \in 1 .. n : cBuffer[k] = taken + k
    BY DEF Inv, BufferInv, InOrder
  <2>2. taken + n + 1 \in Nat
    BY <1>1
  <2>3. /\ cBuffer' \in Seq(Nat) /\ Len(cBuffer') = n + 1
        /\ cBuffer'[n + 1] = taken + n + 1
        /\ \A k \in 1 .. n : cBuffer'[k] = cBuffer[k]
    BY <1>2, <2>1, <2>2, AppendProperties
  <2>4. n \in Nat
    BY <1>1
  <2> HIDE DEF n
  <2>5. ASSUME NEW k \in 1 .. n + 1
        PROVE  cBuffer'[k] = taken + k
    <3>1. CASE k = n + 1
      BY <3>1, <2>3, <2>4, <1>1
    <3>2. CASE k # n + 1
      <4>1. k \in 1 .. n
        BY <3>2, <2>4
      <4> QED BY <4>1, <2>1, <2>3
    <3> QED BY <3>1, <3>2
  <2> QED BY <2>3, <2>5
<1>4. UNCHANGED <<ring, producer, cPc, cLength, cCount, cKnown, cAvailable, got>>
  BY DEF ReadByte
<1>5. TypeOK'
  BY <1>1, <1>3, <1>4 DEF Inv, TypeOK, ring, producer
<1>6. CallInv' /\ ViewInv' /\ PromiseInv' /\ DataInv' /\ ExactInv'
  BY <1>4 DEF Inv, CallInv, ViewInv, PromiseInv, PromisesHonored, DataInv, ExactInv, ring, producer
<1>7. BufferInv'
  BY <1>3, <1>4 DEF BufferInv, InOrder, ring
<1> QED BY <1>5, <1>6, <1>7 DEF Inv

\* The store of tail gives the read slots back.
LEMMA ReadEndInv ==
    ASSUME Inv, ReadEnd, UNCHANGED singleThread
    PROVE  Inv'
<1>1. /\ written \in 0 .. MaxTotal /\ taken \in 0 .. MaxTotal /\ cCount \in 0 .. Capacity
      /\ taken + cCount <= MaxTotal /\ underflow \in 0 .. MaxTotal /\ pDone \in Nat
      /\ cLength \in 0 .. MaxCall /\ cCount <= cLength /\ cKnown \in 0 .. MaxTotal
      /\ pKnown \in 0 .. MaxTotal /\ pKnown <= taken /\ pCount \in 0 .. Capacity
  BY RingAssumption DEF Inv, TypeOK, CallInv, ViewInv, ReadEnd, MinSize
<1>2. /\ taken' = taken + cCount
      /\ tails' = IF singleThread THEN {taken'} ELSE tails \cup {taken'}
      /\ underflow' = underflow + (cLength - cCount) /\ cPc = "copy"
      /\ cPc' = "idle" /\ cLength' = 0 /\ cCount' = 0 /\ cBuffer' = <<>> /\ cAvailable' = 0
      /\ UNCHANGED <<live, data, written, overflow, heads, producer, cKnown>>
  BY DEF ReadEnd
<1> USE <1>1, <1>2, RingAssumption
<1>3. TypeOK'
  BY DEF Inv, TypeOK, CallInv, MinSize, producer
<1>4. CallInv'
  BY DEF Inv, CallInv, producer
<1>5. ViewInv'
  BY DEF Inv, TypeOK, ViewInv, producer
<1>6. PromiseInv'
  BY DEF Inv, TypeOK, ViewInv, PromiseInv, PromisesHonored, MinSize, producer
<1>7. DataInv'
  <2>1. \A i \in taken' .. written + pDone - 1 : i \in taken .. written + pDone - 1
    OBVIOUS
  <2> QED BY <2>1 DEF Inv, DataInv, producer
<1>8. BufferInv'
  BY DEF BufferInv, InOrder
<1>9. ExactInv'
  BY DEF Inv, ExactInv, producer
<1> QED BY <1>3, <1>4, <1>5, <1>6, <1>7, <1>8, <1>9 DEF Inv

\* The consumer asks for what is available.
LEMMA AvailableInv ==
    ASSUME NoWrap, Inv, Available, UNCHANGED singleThread
    PROVE  Inv'
<1>1. PICK total \in heads :
        /\ LoadHead(total)
        /\ cAvailable' = UsedSnapshot(Counter(total), Counter(taken))
  BY DEF Available
<1>2. /\ total \in 0 .. MaxTotal /\ written \in 0 .. MaxTotal /\ cKnown <= total /\ total <= written
      /\ written <= taken + Capacity /\ cKnown \in 0 .. MaxTotal /\ taken \in 0 .. MaxTotal
      /\ taken <= cKnown /\ cCount = 0 /\ pCount \in 0 .. Capacity /\ cPc = "idle"
  BY RingAssumption DEF Inv, TypeOK, ViewInv, CallInv, Available, ConsumerMayCall, MinSize
<1>3. cAvailable' = total - taken
  BY <1>1, <1>2, UsedExact, RingAssumption
<1>4. cKnown' = total /\ heads' = {h \in heads : h >= total}
  BY <1>1, <1>2 DEF LoadHead, Synchronizes, HeadStoreOrder, HeadLoadOrder
<1>5. UNCHANGED <<live, data, written, taken, overflow, underflow, tails,
                  producer, cPc, cLength, cCount, cBuffer, got>>
  BY DEF Available
<1> USE <1>2, <1>3, <1>4, <1>5, RingAssumption
<1>6. TypeOK'
  <2>1. heads' \subseteq 0 .. MaxTotal
    BY DEF Inv, TypeOK
  <2>2. cAvailable' \in 0 .. Capacity /\ cKnown' \in 0 .. MaxTotal
    OBVIOUS
  <2> QED BY <2>1, <2>2 DEF Inv, TypeOK, producer
<1>7. CallInv' /\ DataInv' /\ BufferInv'
  BY DEF Inv, CallInv, DataInv, BufferInv, InOrder, producer
<1>8. ViewInv'
  BY DEF Inv, ViewInv, TypeOK, producer
<1>9. PromiseInv'
  BY DEF Inv, PromiseInv, PromisesHonored, TypeOK, producer
<1>10. ExactInv'
  BY DEF Inv, ExactInv, TypeOK, producer
<1> QED BY <1>6, <1>7, <1>8, <1>9, <1>10 DEF Inv

\* Opening changes nothing the invariant speaks of but live.
LEMMA OpenInv ==
    ASSUME Inv, Open, UNCHANGED singleThread
    PROVE  Inv'
BY DEF Open, Inv, TypeOK, CallInv, ViewInv, PromiseInv, PromisesHonored, DataInv, BufferInv,
       InOrder, ExactInv, producer, consumer

\* Every step of ring_buffer.c preserves the invariant.
LEMMA StepInv ==
    ASSUME NoWrap, Inv, [Next]_vars
    PROVE  Inv'
<1>1. CASE Next
  <2>1. CASE Free
    <3>1. singleThread' \in BOOLEAN
      BY <1>1 DEF Next, Inv, TypeOK
    <3> QED BY ONLY <2>1, <3>1, FreshInv DEF Free
  <2> QED BY <1>1, <2>1, OpenInv, WriteBeginInv, WriteByteInv, WriteEndInv, SpaceInv,
             ReadBeginInv, ReadByteInv, ReadEndInv, AvailableInv DEF Next
<1>2. CASE UNCHANGED vars
  BY <1>2 DEF vars, ring, producer, consumer, Inv, TypeOK, CallInv, ViewInv, PromiseInv,
              PromisesHonored, DataInv, BufferInv, InOrder, ExactInv
<1> QED BY <1>1, <1>2

\* The invariant contains the properties.
LEMMA InvImplies == Inv => TypeOK /\ NoDataRace /\ InOrder /\ PromisesHonored
BY RingAssumption DEF Inv, NoDataRace, TypeOK, ViewInv, PromiseInv, BufferInv, MinSize

\* The invariant holds throughout.
LEMMA RingInvariant == NoWrap => (Spec => []Inv)
<1> SUFFICES ASSUME NoWrap PROVE Spec => []Inv
  OBVIOUS
<1>1. Init => Inv
  BY InitInv
<1>2. Inv /\ [Next]_vars => Inv'
  BY StepInv
<1> QED BY <1>1, <1>2, PTL DEF Spec

\* Counters, counts and indices of ring_buffer.c stay in range: neither memcpy
\* reaches beyond the array, used never exceeds the capacity.
THEOREM RingTypes == NoWrap => (Spec => []TypeOK)
BY RingInvariant, InvImplies, PTL

\* With one producer and one consumer thread no byte of the array is accessed
\* by both without synchronization: the acquire/release pairs of
\* ring_buffer.c:85, 98, 117 and 129 suffice for every capacity.
THEOREM RingHasNoDataRace == NoWrap => (Spec => []NoDataRace)
BY RingInvariant, InvImplies, PTL

\* ring_buffer_read hands out the accepted stream in order, wraps included.
THEOREM RingKeepsOrder == NoWrap => (Spec => []InOrder)
BY RingInvariant, InvImplies, PTL

\* A later call moves at least what available or space promised before it.
THEOREM RingHonorsPromises == NoWrap => (Spec => []PromisesHonored)
BY RingInvariant, InvImplies, PTL

-----------------------------------------------------------------------------
(* The refinement.                                                         *)

\* The bytes t+1 .. t+n of the stream.
Stream(t, n) == [k \in 1 .. n |-> t + k]

\* Such a piece of the stream is a sequence.
LEMMA StreamIsSeq ==
    ASSUME NEW t \in Nat, NEW n \in Nat
    PROVE  Stream(t, n) \in Seq(Nat) /\ Len(Stream(t, n)) = n
BY DEF Stream

\* Two adjacent pieces make one.
LEMMA StreamConcat ==
    ASSUME NEW t \in Nat, NEW m \in Nat, NEW n \in Nat
    PROVE  Stream(t, m) \o [k \in 1 .. n |-> (t + m) + k] = Stream(t, m + n)
BY DEF Stream

\* A piece falls into its first n bytes and the rest.
LEMMA StreamSplit ==
    ASSUME NEW t \in Nat, NEW m \in Nat, NEW n \in 0 .. m
    PROVE  /\ SubSeq(Stream(t, m), 1, n) = Stream(t, n)
           /\ SubSeq(Stream(t, m), n + 1, Len(Stream(t, m))) = Stream(t + n, m - n)
BY DEF Stream

\* Slots that hold their bytes, read as a window, are a piece of the stream.
LEMMA WindowIsStream ==
    ASSUME NoWrap, NEW t \in 0 .. MaxTotal, NEW w \in 0 .. MaxTotal, NEW d \in Nat, NEW a,
           \A i \in t .. w + d - 1 : a[i % Capacity] = i + 1
    PROVE  [k \in 1 .. w - t |-> a[(Counter(t) + k - 1) % Capacity]] = Stream(t, w - t)
<1>1. Counter(t) = t
  BY CounterExact
<1>2. ASSUME NEW k \in 1 .. w - t
      PROVE  a[(t + k - 1) % Capacity] = t + k
  <2>1. t + k - 1 \in t .. w + d - 1 /\ (t + k - 1) + 1 = t + k
    OBVIOUS
  <2> QED BY <2>1
<1> QED BY <1>1, <1>2 DEF Stream

\* What the ring holds is the stream from taken to written.
LEMMA Contents ==
    ASSUME NoWrap, Inv
    PROVE  /\ Window = Stream(taken, written - taken) /\ Len(Window) = written - taken
           /\ taken \in 0 .. MaxTotal /\ written \in 0 .. MaxTotal
           /\ taken <= written /\ written <= taken + Capacity
<1>1. /\ taken \in 0 .. MaxTotal /\ written \in 0 .. MaxTotal /\ pDone \in Nat
      /\ taken <= written /\ written <= taken + Capacity
  BY RingAssumption DEF Inv, TypeOK, ViewInv, MinSize
<1>2. Window = Stream(taken, written - taken)
  BY <1>1, WindowIsStream DEF Window, Inv, DataInv
<1>3. taken \in Nat /\ written - taken \in Nat
  BY <1>1
<1>4. Len(Stream(taken, written - taken)) = written - taken
  BY ONLY <1>3, StreamIsSeq
<1> QED BY <1>1, <1>2, <1>4

\* The same after a step.
LEMMA ContentsAfter ==
    ASSUME NoWrap, Inv'
    PROVE  Window' = Stream(taken', written' - taken')
<1>1. /\ taken' \in 0 .. MaxTotal /\ written' \in 0 .. MaxTotal /\ pDone' \in Nat
  BY RingAssumption DEF Inv, TypeOK, MinSize
<1>2. \A i \in taken' .. written' + pDone' - 1 : data'[i % Capacity] = i + 1
  BY DEF Inv, DataInv
<1> QED BY <1>1, <1>2, WindowIsStream DEF Window

\* A step that stores no counter is a stutter of the FIFO.
LEMMA QuietRefines ==
    ASSUME NoWrap, Inv, Inv', UNCHANGED <<written, taken, got, overflow, underflow, singleThread>>
    PROVE  UNCHANGED Fifo!vars
BY Contents, ContentsAfter DEF Fifo!vars

\* The store of head is the write.
LEMMA WriteRefines ==
    ASSUME NoWrap, Inv, Inv', WriteEnd
    PROVE  Fifo!Write(pLength) /\ pLength \in 1 .. MaxCall
<1>1. /\ pLength \in 1 .. MaxCall /\ pCount \in 0 .. pLength /\ pPc = "copy"
      /\ pCount <= Capacity - (written - taken)
      /\ singleThread => pCount = MinSize(pLength, Capacity - (written - taken))
      /\ written' = written + pCount /\ taken' = taken /\ got' = got
      /\ overflow' = overflow + (pLength - pCount) /\ underflow' = underflow
  <2>1. /\ pPc = "copy" /\ written' = written + pCount /\ taken' = taken /\ got' = got
        /\ overflow' = overflow + (pLength - pCount) /\ underflow' = underflow
    BY DEF WriteEnd, consumer
  <2>2. pLength \in 1 .. MaxCall /\ pCount \in 0 .. pLength
    BY <2>1, RingAssumption DEF Inv, TypeOK, CallInv, MinSize
  <2>3. pCount <= Capacity - (written - taken)
    BY <2>2, Contents, RingAssumption DEF Inv, TypeOK, ViewInv
  <2> QED BY <2>1, <2>2, <2>3 DEF Inv, ExactInv
<1>2. /\ Window = Stream(taken, written - taken) /\ Len(Window) = written - taken
      /\ taken \in Nat /\ written - taken \in Nat
  BY Contents
<1>3. Window' = Window \o [k \in 1 .. pCount |-> written + k]
  <2>1. Window' = Stream(taken, (written - taken) + pCount)
    BY <1>1, Contents, ContentsAfter
  <2>2. Stream(taken, written - taken) \o [k \in 1 .. pCount |-> (taken + (written - taken)) + k]
          = Stream(taken, (written - taken) + pCount)
    <3>1. pCount \in Nat
      BY <1>1
    <3> QED BY ONLY <1>2, <3>1, StreamConcat
  <2>3. taken + (written - taken) = written
    BY Contents
  <2> QED BY <1>2, <2>1, <2>2, <2>3
<1>4. Fifo!Moves(pCount, pLength, Capacity - Len(Window))
  BY <1>1, <1>2 DEF Fifo!Moves, MinSize
<1> QED BY <1>1, <1>3, <1>4 DEF Fifo!Write

\* The store of tail is the read.
LEMMA ReadRefines ==
    ASSUME NoWrap, Inv, Inv', ReadEnd
    PROVE  Fifo!Read(cLength) /\ cLength \in 1 .. MaxCall
<1>1. /\ cLength \in 1 .. MaxCall /\ cCount \in 0 .. cLength /\ cPc = "copy"
      /\ cCount <= written - taken /\ Len(cBuffer) = cCount
      /\ singleThread => cCount = MinSize(cLength, written - taken)
      /\ taken' = taken + cCount /\ written' = written /\ got' = cBuffer
      /\ underflow' = underflow + (cLength - cCount) /\ overflow' = overflow
  <2>1. /\ cPc = "copy" /\ taken' = taken + cCount /\ written' = written /\ got' = cBuffer
        /\ underflow' = underflow + (cLength - cCount) /\ overflow' = overflow
        /\ Len(cBuffer) = cCount
    BY DEF ReadEnd
  <2>2. cLength \in 1 .. MaxCall /\ cCount \in 0 .. cLength
    BY <2>1, RingAssumption DEF Inv, TypeOK, CallInv, MinSize
  <2>3. cCount <= written - taken
    BY <2>2, Contents, RingAssumption DEF Inv, TypeOK, ViewInv
  <2> QED BY <2>1, <2>2, <2>3 DEF Inv, ExactInv
<1>2. /\ Window = Stream(taken, written - taken) /\ Len(Window) = written - taken
      /\ taken \in Nat /\ written - taken \in Nat
  BY Contents
<1>3. cCount \in 0 .. (written - taken)
  BY <1>1, Contents
<1>4. /\ SubSeq(Window, 1, cCount) = Stream(taken, cCount)
      /\ SubSeq(Window, cCount + 1, Len(Window)) = Stream(taken + cCount, (written - taken) - cCount)
  BY ONLY <1>2, <1>3, StreamSplit
<1>5. got' = SubSeq(Window, 1, cCount)
  <2>2. cBuffer \in Seq(Nat) /\ \A k \in 1 .. Len(cBuffer) : cBuffer[k] = taken + k
    BY DEF Inv, BufferInv, InOrder
  <2>3. cBuffer = [k \in 1 .. cCount |-> cBuffer[k]]
    BY <1>1, <2>2, LenProperties
  <2>4. cBuffer = Stream(taken, cCount)
    BY <1>1, <2>2, <2>3 DEF Stream
  <2> QED BY <1>1, <1>4, <2>4
<1>6. Window' = SubSeq(Window, cCount + 1, Len(Window))
  <2>1. Window' = Stream(taken + cCount, (written - taken) - cCount)
    <3>1. written' - taken' = (written - taken) - cCount
      BY <1>1, Contents
    <3> QED BY <1>1, <3>1, ContentsAfter
  <2> QED BY <1>4, <2>1
<1>7. Fifo!Moves(cCount, cLength, Len(Window))
  BY <1>1, <1>2 DEF Fifo!Moves, MinSize
<1> QED BY <1>1, <1>5, <1>6, <1>7 DEF Fifo!Read

\* Freeing the ring empties the FIFO.
LEMMA FreeRefines ==
    ASSUME Free
    PROVE  Fifo!Free
BY DEF Free, Fifo!Free, Window

\* The initial ring is the empty FIFO.
LEMMA InitRefines == Init => Fifo!Init
BY DEF Init, Fifo!Init, Window

\* Every step is a step of the FIFO or a stutter.
LEMMA StepRefines ==
    ASSUME NoWrap, Inv, Inv', [Next]_vars
    PROVE  [Fifo!Next]_(Fifo!vars)
<1>0. UNCHANGED singleThread
  BY DEF Next, vars
<1>1. CASE WriteEnd
  BY <1>0, <1>1, WriteRefines DEF Fifo!Next
<1>2. CASE ReadEnd
  BY <1>0, <1>2, ReadRefines DEF Fifo!Next
<1>3. CASE Free
  BY <1>0, <1>3, FreeRefines DEF Fifo!Next
<1>4. CASE ~(WriteEnd \/ ReadEnd \/ Free)
  <2>1. UNCHANGED <<written, taken, got, overflow, underflow, singleThread>>
    BY <1>4 DEF Next, vars, ring, producer, consumer, Open, WriteBegin, WriteByte, Space,
                ReadBegin, ReadByte, Available
  <2> QED BY <2>1, QuietRefines
<1> QED BY <1>1, <1>2, <1>3, <1>4

\* ring_buffer.c is a bounded FIFO of bytes, concurrent or not, and with one
\* thread an exact one, for every capacity.
THEOREM RingIsByteFifo == NoWrap => (Spec => FifoSpec)
<1> SUFFICES ASSUME NoWrap PROVE Spec => FifoSpec
  OBVIOUS
<1>1. Init => Fifo!Init
  BY InitRefines
<1>2. Inv /\ Inv' /\ [Next]_vars => [Fifo!Next]_(Fifo!vars)
  BY StepRefines
<1>3. Spec => []Inv
  BY RingInvariant
<1> QED BY <1>1, <1>2, <1>3, PTL DEF Spec, FifoSpec, Fifo!Spec
=============================================================================
