----------------------------- MODULE RingBuffer -----------------------------
(***************************************************************************)
(* The single-producer single-consumer byte ring of ring_buffer.c, one     *)
(* step per access another thread can observe.                             *)
(*                                                                         *)
(* The bytes of the accepted stream are numbered from 1, so the array      *)
(* shows which byte a slot holds; 0 is a slot calloc zeroed.  head and     *)
(* tail are size_t counters that never wrap at the capacity: written and   *)
(* taken are the true totals, head and tail their residues modulo          *)
(* SizeModulus (2^32 or 2^64).                                             *)
(*                                                                         *)
(* The C11 memory model.  A load of the other thread's counter returns any *)
(* value stored since the one this thread last read (heads, tails); a      *)
(* release store read by an acquire load orders everything before the      *)
(* store before everything after the load, which is what pKnown and cKnown *)
(* record.  A memcpy of a byte that is not ordered after the other         *)
(* thread's last access to its slot is a data race.                        *)
(*                                                                         *)
(* singleThread is the daemon as it runs today: run_once calls write,      *)
(* available and read from one thread, so a call runs alone and loads see  *)
(* the last store.                                                         *)
(***************************************************************************)
EXTENDS Naturals, Sequences

CONSTANTS
    Capacity,       \* bytes in the ring
    SizeModulus,    \* 2^w for a size_t of w bits
    MaxCall,        \* the largest length a caller passes
    MaxTotal        \* bound: bytes offered, and bytes asked for, per opening

ASSUME RingAssumption ==
    /\ Capacity \in Nat \ {0}
    /\ SizeModulus \in Nat \ {0}
    /\ MaxCall \in Nat \ {0}
    /\ MaxTotal \in Nat

VARIABLES
    live,       \* data # NULL
    data,       \* the array: the byte each slot holds
    written,    \* the total the producer has stored in head
    taken,      \* the total the consumer has stored in tail
    overflow,   \* bytes refused by write
    underflow,  \* bytes read did not have
    heads,      \* the stored totals a load of head by the consumer may return
    tails,      \* the stored totals a load of tail by the producer may return
    pPc, pLength, pCount, pDone,  \* the write call: length, to_write, copied
    pKnown,     \* every read of a byte below this is ordered before the producer
    pSpace,     \* what the producer was last told is free
    cPc, cLength, cCount, cBuffer,  \* the read call: length, to_read, output
    cKnown,     \* every write of a byte below this is ordered before the consumer
    cAvailable, \* what the consumer was last told is available
    got,        \* the output of the last completed read
    singleThread \* TRUE: the daemon's loop; FALSE: one thread per side

ring == <<live, data, written, taken, overflow, underflow, heads, tails>>
producer == <<pPc, pLength, pCount, pDone, pKnown, pSpace>>
consumer == <<cPc, cLength, cCount, cBuffer, cKnown, cAvailable, got>>
vars == <<ring, producer, consumer, singleThread>>

Slots == 0 .. Capacity - 1

MaxSize(a, b) == IF a > b THEN a ELSE b     \* the comparison the wrong way round
MinSize(a, b) == IF a < b THEN a ELSE b
Counter(total) == total % SizeModulus

\* Bytes between the two counters, as the code computes them from two loads.
UsedSnapshot(head, tail) ==
    IF head < tail THEN 0 ELSE MinSize(head - tail, Capacity)

\* The memory orders the code passes to C11's atomics; HeadStoreRelaxed is the
\* slip that no single-threaded test notices.
HeadStoreRelaxed == "relaxed"
HeadStoreOrder == "release"
TailStoreOrder == "release"
HeadLoadOrder == "acquire"
TailLoadOrder == "acquire"
Synchronizes(store, load) == singleThread \/ (store = "release" /\ load = "acquire")

\* Where a copy of count bytes that starts at counter puts, or finds, its i-th
\* byte: two chunks, the second from slot 0 on.
CopySlot(counter, count, i) ==
    LET position == counter % Capacity
        firstChunk == MinSize(count, Capacity - position)
    IN  IF i < firstChunk THEN position + i ELSE i - firstChunk

\* The input byte a copy takes as its i-th.  A slip in the chunk arithmetic:
\* the second chunk is copied from the start of the input.
SourceIndexNoOffset(counter, count, i) ==
    LET firstChunk == MinSize(count, Capacity - (counter % Capacity))
    IN  IF i < firstChunk THEN i ELSE i - firstChunk
SourceIndex(counter, count, i) == i

-----------------------------------------------------------------------------
Init ==
    /\ live = FALSE
    /\ data = [s \in Slots |-> 0]
    /\ written = 0 /\ taken = 0 /\ overflow = 0 /\ underflow = 0
    /\ heads = {0} /\ tails = {0}
    /\ pPc = "idle" /\ pLength = 0 /\ pCount = 0 /\ pDone = 0 /\ pKnown = 0 /\ pSpace = 0
    /\ cPc = "idle" /\ cLength = 0 /\ cCount = 0 /\ cBuffer = <<>> /\ cKnown = 0
    /\ cAvailable = 0 /\ got = <<>>
    /\ singleThread \in BOOLEAN

\* ring_buffer_init: before any other thread has the ring.
Open ==
    /\ ~live
    /\ live' = TRUE
    /\ UNCHANGED <<data, written, taken, overflow, underflow, heads, tails, producer, consumer>>

\* ring_buffer_free: the owner has joined both sides, so no call is running.
Free ==
    /\ live /\ pPc = "idle" /\ cPc = "idle"
    /\ live' = FALSE
    /\ data' = [s \in Slots |-> 0]
    /\ written' = 0 /\ taken' = 0 /\ overflow' = 0 /\ underflow' = 0
    /\ heads' = {0} /\ tails' = {0}
    /\ pPc' = "idle" /\ pLength' = 0 /\ pCount' = 0 /\ pDone' = 0 /\ pKnown' = 0 /\ pSpace' = 0
    /\ cPc' = "idle" /\ cLength' = 0 /\ cCount' = 0 /\ cBuffer' = <<>> /\ cKnown' = 0
    /\ cAvailable' = 0 /\ got' = <<>>

-----------------------------------------------------------------------------
(* The producer.  Its relaxed load of head returns what it stored itself.  *)

ProducerMayCall == live /\ pPc = "idle" /\ (singleThread => cPc = "idle")

LoadTail(total) ==
    /\ total \in tails
    /\ tails' = {t \in tails : t >= total}
    /\ pKnown' = IF Synchronizes(TailStoreOrder, TailLoadOrder) /\ total > pKnown
                 THEN total ELSE pKnown

\* A slip: one slot is kept free, as rings that tell full from empty by the
\* indices alone must.
WriteBeginKeepsSlot(length) ==
    /\ ProducerMayCall
    /\ written + overflow + length <= MaxTotal
    /\ \E total \in tails :
        /\ LoadTail(total)
        /\ LET used == UsedSnapshot(Counter(written), Counter(total))
           IN  pCount' = MinSize(length, IF used < Capacity THEN Capacity - 1 - used ELSE 0)
    /\ pPc' = "copy" /\ pLength' = length /\ pDone' = 0
    /\ UNCHANGED <<live, data, written, taken, overflow, underflow, heads, pSpace, consumer>>

WriteBegin(length) ==
    /\ ProducerMayCall
    /\ written + overflow + length <= MaxTotal
    /\ \E total \in tails :
        /\ LoadTail(total)
        /\ pCount' = MinSize(length, Capacity - UsedSnapshot(Counter(written), Counter(total)))
    /\ pPc' = "copy"
    /\ pLength' = length
    /\ pDone' = 0
    /\ UNCHANGED <<live, data, written, taken, overflow, underflow, heads, pSpace, consumer>>

WriteByte ==
    /\ pPc = "copy" /\ pDone < pCount
    /\ data' = [data EXCEPT ![CopySlot(Counter(written), pCount, pDone)] =
                                written + SourceIndex(Counter(written), pCount, pDone) + 1]
    /\ pDone' = pDone + 1
    /\ UNCHANGED <<live, written, taken, overflow, underflow, heads, tails,
                   pPc, pLength, pCount, pKnown, pSpace, consumer>>

WriteEnd ==
    /\ pPc = "copy" /\ pDone = pCount
    /\ written' = written + pCount
    /\ heads' = IF singleThread THEN {written'} ELSE heads \cup {written'}
    /\ overflow' = overflow + (pLength - pCount)
    /\ pPc' = "idle" /\ pLength' = 0 /\ pCount' = 0 /\ pDone' = 0
    /\ pSpace' = 0
    /\ UNCHANGED <<live, data, taken, underflow, tails, pKnown, consumer>>

\* ring_buffer_space, and through it ring_buffer_available, from the producer.
Space ==
    /\ ProducerMayCall
    /\ \E total \in tails :
        /\ LoadTail(total)
        /\ pSpace' = Capacity - UsedSnapshot(Counter(written), Counter(total))
    /\ UNCHANGED <<live, data, written, taken, overflow, underflow, heads,
                   pPc, pLength, pCount, pDone, consumer>>

-----------------------------------------------------------------------------
(* The consumer.  Its relaxed load of tail returns what it stored itself.  *)

ConsumerMayCall == live /\ cPc = "idle" /\ (singleThread => pPc = "idle")

LoadHead(total) ==
    /\ total \in heads
    /\ heads' = {h \in heads : h >= total}
    /\ cKnown' = IF Synchronizes(HeadStoreOrder, HeadLoadOrder) /\ total > cKnown
                 THEN total ELSE cKnown

ReadBegin(length) ==
    /\ ConsumerMayCall
    /\ taken + underflow + length <= MaxTotal
    /\ \E total \in heads :
        /\ LoadHead(total)
        /\ cCount' = MinSize(length, UsedSnapshot(Counter(total), Counter(taken)))
    /\ cPc' = "copy"
    /\ cLength' = length
    /\ cBuffer' = <<>>
    /\ UNCHANGED <<live, data, written, taken, overflow, underflow, tails,
                   producer, cAvailable, got>>

ReadByte ==
    /\ cPc = "copy" /\ Len(cBuffer) < cCount
    /\ cBuffer' = Append(cBuffer, data[CopySlot(Counter(taken), cCount, Len(cBuffer))])
    /\ UNCHANGED <<ring, producer, cPc, cLength, cCount, cKnown, cAvailable, got>>

ReadEnd ==
    /\ cPc = "copy" /\ Len(cBuffer) = cCount
    /\ taken' = taken + cCount
    /\ tails' = IF singleThread THEN {taken'} ELSE tails \cup {taken'}
    /\ underflow' = underflow + (cLength - cCount)
    /\ got' = cBuffer
    /\ cPc' = "idle" /\ cLength' = 0 /\ cCount' = 0 /\ cBuffer' = <<>>
    /\ cAvailable' = 0
    /\ UNCHANGED <<live, data, written, overflow, heads, producer, cKnown>>

\* ring_buffer_available from the consumer.
AvailableFromHead ==    \* a slip: the bytes already read are not subtracted
    /\ ConsumerMayCall
    /\ \E total \in heads : LoadHead(total) /\ cAvailable' = MinSize(total, Capacity)
    /\ UNCHANGED <<live, data, written, taken, overflow, underflow, tails,
                   producer, cPc, cLength, cCount, cBuffer, got>>

Available ==
    /\ ConsumerMayCall
    /\ \E total \in heads :
        /\ LoadHead(total)
        /\ cAvailable' = UsedSnapshot(Counter(total), Counter(taken))
    /\ UNCHANGED <<live, data, written, taken, overflow, underflow, tails,
                   producer, cPc, cLength, cCount, cBuffer, got>>

-----------------------------------------------------------------------------
Next ==
    /\ \/ Open \/ Free
       \/ \E length \in 1 .. MaxCall : WriteBegin(length) \/ ReadBegin(length)
       \/ WriteByte \/ WriteEnd \/ Space
       \/ ReadByte \/ ReadEnd \/ Available
    /\ UNCHANGED singleThread

Spec == Init /\ [][Next]_vars

-----------------------------------------------------------------------------
TypeOK ==
    /\ live \in BOOLEAN /\ singleThread \in BOOLEAN
    /\ data \in [Slots -> 0 .. MaxTotal]
    /\ written \in 0 .. MaxTotal /\ overflow \in 0 .. MaxTotal
    /\ taken \in 0 .. MaxTotal /\ underflow \in 0 .. MaxTotal
    /\ heads \subseteq 0 .. MaxTotal /\ tails \subseteq 0 .. MaxTotal
    /\ pPc \in {"idle", "copy"} /\ cPc \in {"idle", "copy"}
    /\ pLength \in 0 .. MaxCall /\ cLength \in 0 .. MaxCall
    /\ pCount \in 0 .. MinSize(pLength, Capacity) /\ pDone \in 0 .. pCount
    /\ cCount \in 0 .. MinSize(cLength, Capacity) /\ Len(cBuffer) \in 0 .. cCount
    /\ pKnown \in 0 .. MaxTotal /\ cKnown \in 0 .. MaxTotal
    /\ pSpace \in 0 .. Capacity /\ cAvailable \in 0 .. Capacity

\* No memcpy of one thread touches a slot that the other may be copying
\* (ring_buffer.c:18, "acquire/release ordering for SPSC safety"): a byte is
\* overwritten only when the read of the byte before it in its slot is ordered
\* first, and read only when its own write is.
NoDataRace ==
    /\ (pPc = "copy" /\ pDone < pCount) => written + pDone < pKnown + Capacity
    /\ (cPc = "copy" /\ Len(cBuffer) < cCount) => taken + Len(cBuffer) < cKnown

\* Frames reach the VAD "without dropped ordering" (ring_buffer.c:14): the
\* bytes a read copies out are the next ones of the accepted stream, none
\* skipped, repeated or torn by a wrap.
InOrder == \A k \in 1 .. Len(cBuffer) : cBuffer[k] = taken + k

\* A count a side was told stays good until it uses it, whatever the other
\* side does meanwhile: the drain loop treats a read shorter than available()
\* promised as a fatal error (supervisor.c:286-292).
PromisesHonored ==
    /\ cPc = "copy" => cCount >= MinSize(cLength, cAvailable)
    /\ pPc = "copy" => pCount >= MinSize(pLength, pSpace)

\* The ring is a bounded byte FIFO: its window of the array is the queue, a
\* write takes effect at the store of head and a read at the store of tail.
\* With one thread every call moves as many bytes as it could; what it did not
\* move is counted.
Window == [k \in 1 .. written - taken |-> data[(Counter(taken) + k - 1) % Capacity]]
Fifo == INSTANCE ByteFifo WITH queue <- Window, exact <- singleThread
FifoSpec == Fifo!Spec
=============================================================================
