------------------------ MODULE SupervisorDataProofs ------------------------
(***************************************************************************)
(* The bytes on their way from arecord to the VAD, the files on the disk   *)
(* and the order of the answers, for every size, any number of samples and *)
(* of starts:                                                              *)
(*   - with the proportions of supervisor.c:15-28 and frames of whole      *)
(*     samples every frame is made of whole samples in stream order.  The  *)
(*     invariant is about the bytes of the ring followed by those of the   *)
(*     pipe, which a read does not change (StreamInv);                     *)
(*   - while nothing failed, the directory holds the files of the          *)
(*     utterances that wait and no other (KeptInv), and while unlinks work *)
(*     a run leaves no more files than it can have in flight (BoundInv);   *)
(*   - whatever the queues drop, the utterances stay in line, and each is  *)
(*     answered, dropped or still there (LineInv);                         *)
(*   - the utterances are the frames of the segments the detector's        *)
(*     reference finds in all it heard, and no other (SegmentInv: what is  *)
(*     assembled is the frames since the last start, and what the detector *)
(*     knows is that reference, by the proofs of VadDetectorProofs).       *)
(***************************************************************************)
EXTENDS SupervisorProofs, FiniteSetTheorems

\* supervisor.c:17-19: a frame is 20 ms of 16 bit samples.
WholeFrames == FrameBytes % SampleBytes = 0

-----------------------------------------------------------------------------
(* Byte streams cut at even places.                                        *)

\* Whole samples: an odd byte number at every odd place, and its partner after it.
Paired(s) ==
    /\ Len(s) % 2 = 0
    /\ \A i \in 1 .. Len(s) : i % 2 = 1 => s[i] % 2 = 1 /\ s[i + 1] = s[i] + 1

\* In the order in which they were recorded, up to the last one so far.
Ordered(s, last) ==
    /\ \A i \in 1 .. Len(s) : s[i] <= last
    /\ \A i, j \in 1 .. Len(s) : i < j => s[i] < s[j]

\* Even and odd.
LEMMA Parity ==
    /\ \A a, b \in Nat : a % 2 = 0 => (a + b) % 2 = b % 2
    /\ \A a \in Nat : \A b \in 0 .. a : a % 2 = 0 /\ b % 2 = 0 => (a - b) % 2 = 0
    /\ \A a \in Nat : (2 * a) % 2 = 0 /\ (2 * a + 1) % 2 = 1
    /\ \A a \in Nat : a % 2 = 0 => \A i \in 1 .. a : i % 2 = 1 => i + 1 \in 1 .. a
<1>1. \A a, b \in Nat : a % 2 = 0 => (a + b) % 2 = b % 2 OBVIOUS
<1>2. \A a \in Nat : \A b \in 0 .. a : a % 2 = 0 /\ b % 2 = 0 => (a - b) % 2 = 0 OBVIOUS
<1>3. \A a \in Nat : (2 * a) % 2 = 0 /\ (2 * a + 1) % 2 = 1 OBVIOUS
<1>4. \A a \in Nat : a % 2 = 0 => \A i \in 1 .. a : i % 2 = 1 => i + 1 \in 1 .. a OBVIOUS
<1> QED BY <1>1, <1>2, <1>3, <1>4

\* What ring_buffer_read takes is whole samples, and so is what it leaves.
LEMMA CutWhole ==
    ASSUME NEW s \in Seq(Bytes), NEW n \in 0 .. Len(s), n % 2 = 0, NEW last \in Nat,
           Paired(s), Ordered(s, last),
           NEW head, head = SubSeq(s, 1, n),
           NEW tail, tail = SubSeq(s, n + 1, Len(s))
    PROVE  /\ Paired(head) /\ Ordered(head, last)
           /\ Paired(tail) /\ Ordered(tail, last)
           /\ \A i \in 1 .. Len(head), j \in 1 .. Len(tail) : head[i] < tail[j]
<1>1. Len(s) \in Nat /\ n \in Nat /\ n <= Len(s) /\ Len(s) % 2 = 0 /\ Len(s) - n \in Nat
  BY LenProperties DEF Paired
<1>2. /\ Len(head) = n /\ Len(tail) = Len(s) - n
      /\ \A i \in 1 .. n : head[i] = s[i]
      /\ \A i \in 1 .. Len(s) - n : tail[i] = s[n + i]
  BY TakeDrop
<1>3. /\ \A i \in 1 .. Len(s) : i % 2 = 1 => s[i] % 2 = 1 /\ s[i + 1] = s[i] + 1
      /\ \A i \in 1 .. Len(s) : s[i] <= last
      /\ \A i, j \in 1 .. Len(s) : i < j => s[i] < s[j]
  BY DEF Paired, Ordered
<1>4. Paired(head)
  <2> SUFFICES ASSUME NEW i \in 1 .. n, i % 2 = 1
               PROVE  head[i] % 2 = 1 /\ head[i + 1] = head[i] + 1
    BY <1>2 DEF Paired
  <2>1. i + 1 \in 1 .. n
    BY <1>1, Parity
  <2>2. i \in 1 .. Len(s)
    BY <1>1
  <2>3. s[i] % 2 = 1 /\ s[i + 1] = s[i] + 1
    BY <1>3, <2>2
  <2>4. head[i] = s[i] /\ head[i + 1] = s[i + 1]
    BY <1>2, <2>1
  <2> QED BY <2>3, <2>4
<1>5. Paired(tail)
  <2>1. (Len(s) - n) % 2 = 0
    BY <1>1, Parity
  <2> SUFFICES ASSUME NEW i \in 1 .. Len(s) - n, i % 2 = 1
               PROVE  tail[i] % 2 = 1 /\ tail[i + 1] = tail[i] + 1
    BY <1>2, <2>1 DEF Paired
  <2>2. i + 1 \in 1 .. Len(s) - n
    BY <1>1, <2>1, Parity
  <2>3. (n + i) % 2 = 1
    <3>1. i \in Nat OBVIOUS
    <3> QED BY <1>1, <3>1, Parity
  <2>4. n + i \in 1 .. Len(s) /\ n + (i + 1) = (n + i) + 1
    BY <1>1
  <2>5. s[n + i] % 2 = 1 /\ s[(n + i) + 1] = s[n + i] + 1
    BY <1>3, <2>3, <2>4
  <2>6. tail[i] = s[n + i] /\ tail[i + 1] = s[(n + i) + 1]
    BY <1>2, <2>2, <2>4
  <2> QED BY <2>5, <2>6
<1>6. Ordered(head, last) /\ Ordered(tail, last)
  <2>1. /\ \A i \in 1 .. n : i \in 1 .. Len(s)
        /\ \A i \in 1 .. Len(s) - n : n + i \in 1 .. Len(s)
        /\ \A i, j \in 1 .. Len(s) - n : i < j => n + i < n + j
    BY ONLY <1>1
  <2>2. Ordered(head, last)
    BY ONLY <1>2, <1>3, <2>1 DEF Ordered
  <2>3. ASSUME NEW i \in 1 .. Len(s) - n
        PROVE  tail[i] <= last
    <3>1. tail[i] = s[n + i] /\ n + i \in 1 .. Len(s)
      BY ONLY <1>2, <2>1, i \in 1 .. Len(s) - n
    <3> QED BY ONLY <1>3, <3>1
  <2>4. ASSUME NEW i \in 1 .. Len(s) - n, NEW j \in 1 .. Len(s) - n, i < j
        PROVE  tail[i] < tail[j]
    <3>1. /\ tail[i] = s[n + i] /\ n + i \in 1 .. Len(s)
          /\ tail[j] = s[n + j] /\ n + j \in 1 .. Len(s)
          /\ n + i < n + j
      BY ONLY <1>2, <2>1, <2>4
    <3> QED BY ONLY <1>3, <3>1
  <2>5. Ordered(tail, last)
    BY ONLY <1>2, <2>3, <2>4 DEF Ordered
  <2> QED BY <2>2, <2>5
<1>7. \A i \in 1 .. Len(head), j \in 1 .. Len(tail) : head[i] < tail[j]
  <2>1. ASSUME NEW i \in 1 .. n, NEW j \in 1 .. Len(s) - n
        PROVE  s[i] < s[n + j]
    <3>1. i \in 1 .. Len(s) /\ n + j \in 1 .. Len(s) /\ i < n + j
      BY ONLY <1>1, i \in 1 .. n, j \in 1 .. Len(s) - n
    <3> QED BY ONLY <1>3, <3>1
  <2> QED BY ONLY <1>2, <2>1
<1> QED BY <1>4, <1>5, <1>6, <1>7

\* A sample recorded now goes behind all that were recorded before.
LEMMA AppendWhole ==
    ASSUME NEW s \in Seq(Bytes), NEW e \in Nat, Paired(s), Ordered(s, 2 * e),
           NEW t, t = s \o <<2 * (e + 1) - 1, 2 * (e + 1)>>
    PROVE  /\ Paired(t) /\ Ordered(t, 2 * (e + 1)) /\ Len(t) = Len(s) + 2
           /\ \A i \in 1 .. Len(s) : t[i] = s[i]
           /\ \A i \in 1 .. Len(t) : i \notin 1 .. Len(s) => t[i] > 2 * e
<1> DEFINE sample == <<2 * (e + 1) - 1, 2 * (e + 1)>>
<1>1. /\ sample \in Seq(Bytes) /\ Len(sample) = 2
      /\ sample[1] = 2 * e + 1 /\ sample[2] = 2 * e + 2
  <2>1. e + 1 \in Nat \ {0}
    OBVIOUS
  <2>2. sample \in Seq(Bytes)
    BY <2>1, SampleType
  <2> QED BY <2>2
<1>2. t = s \o sample
  OBVIOUS
<1> HIDE DEF sample
<1>3. Len(s) \in Nat
  BY LenProperties
<1>4. /\ Len(t) = Len(s) + 2
      /\ \A i \in 1 .. Len(s) : t[i] = s[i]
      /\ t[Len(s) + 1] = 2 * e + 1 /\ t[Len(s) + 2] = 2 * e + 2
  <2>1. /\ Len(t) = Len(s) + 2
        /\ \A i \in 1 .. Len(s) + 2 : t[i] = IF i <= Len(s) THEN s[i] ELSE sample[i - Len(s)]
    <3>1. Len(sample) = 2
      BY DEF sample
    <3>2. /\ Len(s \o sample) = Len(s) + Len(sample)
          /\ \A i \in 1 .. Len(s) + Len(sample) :
                (s \o sample)[i] = IF i <= Len(s) THEN s[i] ELSE sample[i - Len(s)]
      BY <1>1, ConcatProperties, Zenon
    <3> QED BY ONLY <1>2, <3>1, <3>2
  <2>2. /\ Len(s) + 1 \in 1 .. Len(s) + 2 /\ ~(Len(s) + 1 <= Len(s)) /\ (Len(s) + 1) - Len(s) = 1
        /\ Len(s) + 2 \in 1 .. Len(s) + 2 /\ ~(Len(s) + 2 <= Len(s)) /\ (Len(s) + 2) - Len(s) = 2
    BY ONLY <1>3
  <2>3. \A i \in 1 .. Len(s) : i \in 1 .. Len(s) + 2 /\ i <= Len(s)
    BY ONLY <1>3
  <2> QED BY <1>1, <2>1, <2>2, <2>3
<1>5. \A i \in 1 .. Len(t) : i \in 1 .. Len(s) \/ i = Len(s) + 1 \/ i = Len(s) + 2
  BY ONLY <1>3, <1>4
<1>6. /\ \A i \in 1 .. Len(s) : i % 2 = 1 => s[i] % 2 = 1 /\ s[i + 1] = s[i] + 1
      /\ \A i, j \in 1 .. Len(s) : i < j => s[i] < s[j]
  BY DEF Paired, Ordered
<1>7. \A i \in 1 .. Len(s) : s[i] <= 2 * e /\ s[i] \in Nat
  BY ElementOfSeq DEF Ordered, Bytes
<1>8. Paired(t)
  <2>1. (Len(s) + 2) % 2 = 0
    <3>1. Len(s) % 2 = 0
      BY DEF Paired
    <3> QED BY ONLY <1>3, <3>1
  <2> SUFFICES ASSUME NEW i \in 1 .. Len(t), i % 2 = 1
               PROVE  t[i] % 2 = 1 /\ t[i + 1] = t[i] + 1
    BY <1>4, <2>1 DEF Paired
  <2>2. CASE i \in 1 .. Len(s)
    <3>1. i + 1 \in 1 .. Len(s)
      BY <1>3, <2>2, Parity DEF Paired
    <3> QED BY <1>4, <1>6, <2>2, <3>1
  <2>3. CASE i = Len(s) + 1
    <3>1. (2 * e + 1) % 2 = 1
      BY Parity
    <3>2. i + 1 = Len(s) + 2
      BY <1>3, <2>3
    <3> QED BY <1>4, <2>3, <3>1, <3>2
  <2>4. i # Len(s) + 2
    <3>1. ASSUME i = Len(s) + 2 PROVE i % 2 = 0
      BY ONLY <2>1, <3>1
    <3> QED BY <3>1
  <2> QED BY <1>5, <2>2, <2>3, <2>4
<1>9. Ordered(t, 2 * (e + 1))
  <2>1. \A i \in 1 .. Len(t) : t[i] <= 2 * (e + 1)
    BY <1>4, <1>5, <1>7
  <2>2. ASSUME NEW i \in 1 .. Len(t), NEW j \in 1 .. Len(t), i < j PROVE t[i] < t[j]
    <3>1. CASE j \in 1 .. Len(s)
      <4>1. i \in 1 .. Len(s) BY ONLY <1>3, <2>2, <3>1
      <4> QED BY <1>4, <1>6, <2>2, <3>1, <4>1
    <3>2. CASE j = Len(s) + 1
      <4>1. i \in 1 .. Len(s) BY ONLY <1>3, <2>2, <3>2
      <4> QED BY <1>4, <1>7, <3>2, <4>1
    <3>3. CASE j = Len(s) + 2
      <4>1. i \in 1 .. Len(s) \/ i = Len(s) + 1 BY ONLY <1>3, <1>5, <2>2, <3>3
      <4> QED BY <1>4, <1>7, <3>3, <4>1
    <3> QED BY <1>5, <3>1, <3>2, <3>3
  <2> QED BY <2>1, <2>2 DEF Ordered
<1>10. \A i \in 1 .. Len(t) : i \notin 1 .. Len(s) => t[i] > 2 * e
  BY <1>4, <1>5
<1> QED BY <1>4, <1>8, <1>9, <1>10

\* What was recorded up to some sample was recorded up to a later one.
LEMMA OrderedLater ==
    ASSUME NEW s \in Seq(Bytes), NEW e \in Nat, Ordered(s, 2 * e)
    PROVE  Ordered(s, 2 * (e + 1))
<1>1. \A i \in 1 .. Len(s) : s[i] \in Nat /\ s[i] <= 2 * e
  BY ElementOfSeq DEF Ordered, Bytes
<1>2. \A i \in 1 .. Len(s) : s[i] <= 2 * (e + 1)
  BY <1>1
<1> QED BY <1>2 DEF Ordered

\* An empty stream is in order.
LEMMA EmptyWhole ==
    ASSUME NEW s, Len(s) = 0, NEW last PROVE Paired(s) /\ Ordered(s, last)
BY DEF Paired, Ordered

-----------------------------------------------------------------------------
(* The frames and the bytes that are not yet frames.                       *)

\* The frames fs and the bytes s behind them are whole samples in order.
Sampled(s, fs, last) ==
    /\ Paired(s) /\ Ordered(s, last)
    /\ \A f \in 1 .. Len(fs) : Len(fs[f]) = FrameBytes /\ Paired(fs[f]) /\ Ordered(fs[f], last)
    /\ \A f \in 2 .. Len(fs) : fs[f - 1][FrameBytes] < fs[f][1]
    /\ Len(fs) > 0 => \A i \in 1 .. Len(s) : fs[Len(fs)][FrameBytes] < s[i]

\* The bytes may be thrown away all at once, as Stop does.
LEMMA SampledEmptied ==
    ASSUME NEW s, NEW fs, NEW last, Sampled(s, fs, last), NEW t, Len(t) = 0
    PROVE  Sampled(t, fs, last)
BY EmptyWhole DEF Sampled

\* A sample is recorded: it gets into the pipe, or the pipe is full.
LEMMA SampledEmit ==
    ASSUME NEW s \in Seq(Bytes), NEW fs \in Seq(Seq(Bytes)), NEW e \in Nat, Sampled(s, fs, 2 * e),
           NEW t, t = s \/ t = s \o <<2 * (e + 1) - 1, 2 * (e + 1)>>
    PROVE  Sampled(t, fs, 2 * (e + 1))
<1> USE Assumptions
<1>1. Len(fs) \in Nat /\ \A f \in 1 .. Len(fs) : fs[f] \in Seq(Bytes)
  BY ElementOfSeq, LenProperties
<1>2. \A f \in 1 .. Len(fs) :
        Len(fs[f]) = FrameBytes /\ Paired(fs[f]) /\ Ordered(fs[f], 2 * (e + 1))
  BY <1>1, OrderedLater DEF Sampled
<1>3. \A f \in 2 .. Len(fs) : fs[f - 1][FrameBytes] < fs[f][1]
  BY DEF Sampled
<1>4. Paired(t) /\ Ordered(t, 2 * (e + 1))
  BY OrderedLater, AppendWhole DEF Sampled
<1>5. ASSUME Len(fs) > 0, NEW i \in 1 .. Len(t)
      PROVE  fs[Len(fs)][FrameBytes] < t[i]
  <2> DEFINE b == fs[Len(fs)][FrameBytes]
  <2>1. /\ \A k \in 1 .. Len(s) : b < s[k]
        /\ \A k \in 1 .. FrameBytes : fs[Len(fs)][k] <= 2 * e
        /\ fs[Len(fs)] \in Seq(Bytes) /\ Len(fs[Len(fs)]) = FrameBytes
    <3>1. Len(fs) \in 1 .. Len(fs)
      BY ONLY <1>1, <1>5
    <3> QED BY <1>1, <1>5, <3>1 DEF Sampled, Ordered
  <2>2. b <= 2 * e /\ b \in Nat
    <3>1. FrameBytes \in 1 .. FrameBytes
      OBVIOUS
    <3> QED BY <2>1, <3>1, ElementOfSeq DEF Bytes
  <2> SUFFICES b < t[i]
    OBVIOUS
  <2> HIDE DEF b
  <2>3. CASE t = s BY <1>5, <2>1, <2>3
  <2>4. CASE t = s \o <<2 * (e + 1) - 1, 2 * (e + 1)>>
    <3>1. Paired(s) /\ Ordered(s, 2 * e)
      BY DEF Sampled
    <3>2. CASE i \in 1 .. Len(s) BY <1>5, <2>1, <2>4, <3>1, <3>2, AppendWhole
    <3>3. CASE i \notin 1 .. Len(s)
      <4>1. t[i] > 2 * e
        BY <1>5, <2>4, <3>1, <3>3, AppendWhole
      <4>2. Len(t) = Len(s) + 2 /\ t[i] \in Nat
        <5>1. <<2 * (e + 1) - 1, 2 * (e + 1)>> \in Seq(Bytes)
          <6>1. e + 1 \in Nat \ {0}
            OBVIOUS
          <6> QED BY <6>1, SampleType
        <5>2. t \in Seq(Bytes)
          BY <2>4, <5>1, ConcatProperties
        <5> QED BY <1>5, <2>4, <3>1, <5>2, AppendWhole, ElementOfSeq DEF Bytes
      <4> QED BY ONLY <2>2, <4>1, <4>2
    <3> QED BY <3>2, <3>3
  <2> QED BY <2>3, <2>4
<1> QED BY <1>2, <1>3, <1>4, <1>5 DEF Sampled

\* A frame leaves the ring, and is classified or lost with the process.
LEMMA SampledDrain ==
    ASSUME WholeFrames, NEW s \in Seq(Bytes), NEW fs \in Seq(Seq(Bytes)), NEW last \in Nat,
           Sampled(s, fs, last), FrameBytes <= Len(s),
           NEW head, head = SubSeq(s, 1, FrameBytes),
           NEW tail, tail = SubSeq(s, FrameBytes + 1, Len(s))
    PROVE  Sampled(tail, fs, last) /\ Sampled(tail, Append(fs, head), last)
<1> USE Assumptions
<1>1. Len(s) \in Nat /\ Len(fs) \in Nat /\ FrameBytes \in 0 .. Len(s) /\ FrameBytes % 2 = 0
  BY LenProperties DEF WholeFrames, SampleBytes
<1>2. /\ head \in Seq(Bytes) /\ Len(head) = FrameBytes
      /\ \A i \in 1 .. FrameBytes : head[i] = s[i]
      /\ Len(tail) = Len(s) - FrameBytes
      /\ \A i \in 1 .. Len(s) - FrameBytes : tail[i] = s[FrameBytes + i]
  BY <1>1, TakeDrop
<1>3. /\ Paired(head) /\ Ordered(head, last) /\ Paired(tail) /\ Ordered(tail, last)
      /\ \A i \in 1 .. Len(head), j \in 1 .. Len(tail) : head[i] < tail[j]
  BY <1>1, CutWhole DEF Sampled
<1> DEFINE gs == Append(fs, head)
<1>4. /\ Len(gs) = Len(fs) + 1 /\ gs[Len(fs) + 1] = head
      /\ \A f \in 1 .. Len(fs) : gs[f] = fs[f]
  BY <1>2, AppendProperties
<1> HIDE DEF gs
<1>5. /\ \A f \in 1 .. Len(fs) : Len(fs[f]) = FrameBytes /\ Paired(fs[f]) /\ Ordered(fs[f], last)
      /\ \A f \in 2 .. Len(fs) : fs[f - 1][FrameBytes] < fs[f][1]
      /\ Len(fs) > 0 => \A i \in 1 .. Len(s) : fs[Len(fs)][FrameBytes] < s[i]
  BY DEF Sampled
<1>6. Sampled(tail, fs, last)
  <2>1. \A i \in 1 .. Len(tail) : FrameBytes + i \in 1 .. Len(s) /\ tail[i] = s[FrameBytes + i]
    <3>1. \A i \in 1 .. Len(s) - FrameBytes : FrameBytes + i \in 1 .. Len(s)
      BY ONLY <1>1
    <3> QED BY <1>2, <3>1
  <2> QED BY <1>3, <1>5, <2>1 DEF Sampled
<1>7. Sampled(tail, gs, last)
  <2>1. \A f \in 1 .. Len(gs) : f \in 1 .. Len(fs) \/ f = Len(fs) + 1
    BY ONLY <1>1, <1>4
  <2>2. \A f \in 1 .. Len(gs) : Len(gs[f]) = FrameBytes /\ Paired(gs[f]) /\ Ordered(gs[f], last)
    BY <1>2, <1>3, <1>4, <1>5, <2>1
  <2>3. ASSUME NEW f \in 2 .. Len(gs) PROVE gs[f - 1][FrameBytes] < gs[f][1]
    <3>1. CASE f \in 2 .. Len(fs)
      <4>1. f \in 1 .. Len(fs) /\ f - 1 \in 1 .. Len(fs)
        BY ONLY <1>1, <3>1
      <4> QED BY <1>4, <1>5, <3>1, <4>1
    <3>2. CASE f = Len(fs) + 1
      <4>1. Len(fs) \in 1 .. Len(fs) /\ Len(fs) > 0 /\ f - 1 = Len(fs)
        BY ONLY <1>1, <1>4, <2>3, <3>2
      <4>2. 1 \in 1 .. Len(s) /\ 1 \in 1 .. FrameBytes
        BY <1>1
      <4>3. gs[f - 1] = fs[Len(fs)] /\ gs[f] = head
        BY <1>4, <3>2, <4>1
      <4>4. fs[Len(fs)][FrameBytes] < s[1] /\ head[1] = s[1]
        BY <1>2, <1>5, <4>1, <4>2
      <4> QED BY <4>3, <4>4
    <3>3. f \in 2 .. Len(fs) \/ f = Len(fs) + 1
      BY ONLY <1>1, <1>4, <2>3
    <3> QED BY <3>1, <3>2, <3>3
  <2>4. \A i \in 1 .. Len(tail) : gs[Len(gs)][FrameBytes] < tail[i]
    <3>1. FrameBytes \in 1 .. Len(head)
      BY <1>2
    <3> QED BY <1>3, <1>4, <3>1
  <2> QED BY <1>3, <2>2, <2>3, <2>4 DEF Sampled
<1> QED BY <1>6, <1>7 DEF gs

-----------------------------------------------------------------------------
(* Every step.                                                             *)

Stream == ring \o pipe

\* Only a process with a child has bytes in a pipe; what stop reaps, it empties.
PipeOfChild ==
    /\ pc \in {"off", "start", "discard"} => child = "none"
    /\ child = "none" /\ pc # "stop" => Len(pipe) = 0

StreamInv ==
    /\ RoomInv
    /\ PipeOfChild
    /\ frames \in Seq(Seq(Bytes))
    /\ Sampled(Stream, frames, 2 * emitted)

\* Before the first start there are neither bytes nor frames.
LEMMA StreamInit == Init => StreamInv
<1> SUFFICES ASSUME Init PROVE StreamInv
  OBVIOUS
<1>1. /\ pc = "off" /\ child = "none" /\ frames \in Seq(Seq(Bytes))
      /\ Len(pipe) = 0 /\ Len(frames) = 0
  BY EmptySeq, Zenon DEF Init
<1>2. Len(Stream) = 0
  <2>1. ring = <<>> /\ pipe = <<>> /\ <<>> \in Seq(Bytes) /\ Len(<<>>) = 0
    BY EmptySeq, Zenon DEF Init
  <2> QED BY <2>1, ConcatEmptySeq DEF Stream
<1>3. Sampled(Stream, frames, 2 * emitted)
  BY <1>1, <1>2, EmptyWhole DEF Sampled
<1> QED BY <1>1, <1>3, RoomInit DEF StreamInv, PipeOfChild

\* Only a child writes to the pipe, and what has none has an empty one.
LEMMA PipeStep ==
    ASSUME TypeOK, PipeOfChild, [Next]_vars
    PROVE  PipeOfChild'
<1> USE DEF PipeOfChild, environment, memory, record
<1>1. CASE Launch \/ Exit BY <1>1 DEF Launch, Exit
<1>2. CASE Start \/ Loop BY <1>2 DEF Start, Loop, RunOnce
<1>3. CASE Read
  <2>1. CASE ReadBytes
    <3>1. PICK n \in 1 .. Least(ChunkBytes, Len(pipe)) : pipe' = SubSeq(pipe, n + 1, Len(pipe))
      BY <2>1 DEF ReadBytes
    <3>2. Len(pipe) # 0
      BY <3>1, Assumptions DEF Least
    <3> QED BY <1>3, <2>1, <3>2 DEF Read, ReadBytes
  <2>2. CASE ReadNothing \/ ReadFails BY <1>3, <2>2 DEF Read, ReadNothing, ReadFails
  <2> QED BY <1>3, <2>1, <2>2 DEF Read
<1>4. CASE DrainFrame
  <2>1. pc = "drain" /\ pc' \in {"drain", "stop"} /\ UNCHANGED <<child, pipe>>
    BY <1>4 DEF DrainFrame, ClassifyFrame, ClassifyFails, Finalize, Keep
  <2> QED BY <2>1
<1>5. CASE DrainDone \/ SttIdle \/ SttPost \/ Transcribed \/ TranscribeFails \/ Generate \/ Respond
  BY <1>5 DEF DrainDone, SttIdle, SttPost, Transcribed, TranscribeFails, Generate, Respond
<1>6. CASE Stop \/ Crash
  <2>1. child' = "none" /\ Len(pipe') = 0
    BY <1>6, EmptyTyped, Zenon DEF Stop, Crash
  <2> QED BY <2>1
<1>7. CASE Discard BY <1>7 DEF Discard
<1>8. CASE Emit \/ ChildDies BY <1>8 DEF Emit, ChildDies, TypeOK
<1>9. CASE Signal \/ UNCHANGED vars BY <1>9 DEF Signal, vars
<1> QED BY <1>1, <1>2, <1>3, <1>4, <1>5, <1>6, <1>7, <1>8, <1>9 DEF Next, Main, Environment

\* A read moves bytes from the front of the pipe to the end of the ring.
LEMMA ReadKeepsStream ==
    ASSUME Proportions, RoomInv, pc = "read", ReadBytes
    PROVE  Stream' = Stream
<1> USE Assumptions
<1>1. /\ ring \in Seq(Bytes) /\ pipe \in Seq(Bytes)
      /\ Len(ring) \in Nat /\ Len(pipe) \in Nat /\ Len(ring) < FrameBytes
  BY LenProperties DEF RoomInv, RingRoom, TypeOK
<1>2. PICK n \in 1 .. Least(ChunkBytes, Len(pipe)) :
        /\ ring' = ring \o SubSeq(pipe, 1, Least(n, RingCapacity - Len(ring)))
        /\ pipe' = SubSeq(pipe, n + 1, Len(pipe))
  BY DEF ReadBytes
<1>3. n \in 0 .. Len(pipe) /\ Least(n, RingCapacity - Len(ring)) = n
  BY <1>1 DEF Least, Proportions
<1> DEFINE moved == SubSeq(pipe, 1, n)
           left == SubSeq(pipe, n + 1, Len(pipe))
<1>4. moved \in Seq(Bytes) /\ left \in Seq(Bytes)
  BY <1>1, <1>3, TakeDrop
<1>5. moved \o left = pipe
  <2>1. moved \o left = SubSeq(pipe, 1, Len(pipe))
    <3>1. 1 \in 1 .. Len(pipe) + 1 /\ n \in 1 - 1 .. Len(pipe) /\ Len(pipe) \in n .. Len(pipe)
      BY <1>1, <1>3
    <3> QED BY <1>1, <3>1, ConcatAdjacentSubSeq
  <2> QED BY <1>1, <2>1, SubSeqFull
<1>6. (ring \o moved) \o left = ring \o (moved \o left)
  <2> HIDE DEF moved, left
  <2>1. ring \in Seq(Bytes) /\ moved \in Seq(Bytes) /\ left \in Seq(Bytes)
    BY <1>1, <1>4
  <2> QED BY ONLY <2>1, ConcatAssociative
<1> QED BY <1>2, <1>3, <1>5, <1>6 DEF Stream

\* Every step keeps the stream in whole samples.
LEMMA StreamStep ==
    ASSUME Proportions, WholeFrames, StreamInv, [Next]_vars
    PROVE  StreamInv'
<1> USE DEF environment, memory, record
<1>1. /\ RoomInv' /\ PipeOfChild' /\ RoomInv /\ PipeOfChild /\ TypeOK
      /\ frames \in Seq(Seq(Bytes)) /\ Sampled(Stream, frames, 2 * emitted)
  BY RoomStep, PipeStep DEF StreamInv, RoomInv, Proportions
<1>2. /\ ring \in Seq(Bytes) /\ pipe \in Seq(Bytes) /\ emitted \in Nat
      /\ Stream \in Seq(Bytes) /\ Len(Stream) = Len(ring) + Len(pipe)
      /\ Len(ring) \in Nat /\ Len(pipe) \in Nat
  BY <1>1, ConcatProperties, LenProperties DEF TypeOK, Stream
<1> SUFFICES frames' \in Seq(Seq(Bytes)) /\ Sampled(Stream', frames', 2 * emitted')
  BY <1>1 DEF StreamInv
<1>3. ASSUME UNCHANGED <<ring, pipe, frames, emitted>>
      PROVE  frames' \in Seq(Seq(Bytes)) /\ Sampled(Stream', frames', 2 * emitted')
  BY <1>1, <1>3 DEF Stream
<1>4. ASSUME Len(ring') = 0, Len(pipe') = 0, ring' \in Seq(Bytes), pipe' \in Seq(Bytes),
             UNCHANGED emitted, UNCHANGED frames \/ frames' = <<>>
      PROVE  frames' \in Seq(Seq(Bytes)) /\ Sampled(Stream', frames', 2 * emitted')
  <2>1. Len(Stream') = 0
    BY <1>4, ConcatProperties DEF Stream
  <2>2. CASE UNCHANGED frames BY <1>1, <1>4, <2>1, <2>2, SampledEmptied
  <2>3. CASE frames' = <<>>
    <3>1. frames' \in Seq(Seq(Bytes)) /\ Len(frames') = 0
      BY <2>3, EmptySeq, Zenon
    <3> QED BY <2>1, <3>1, EmptyWhole DEF Sampled
  <2> QED BY <1>4, <2>2, <2>3
<1>5. CASE Launch \/ Exit
  <2>1. Len(ring') = 0 /\ ring' \in Seq(Bytes)
    BY <1>5, NoMemoryType DEF Launch, Exit
  <2>2. UNCHANGED <<pipe, emitted>> /\ Len(pipe) = 0
    BY <1>1, <1>5 DEF Launch, Exit, PipeOfChild
  <2>3. UNCHANGED frames \/ frames' = <<>>
    BY <1>5 DEF Launch, Exit, NoRecord
  <2> QED BY <1>2, <1>4, <2>1, <2>2, <2>3
<1>6. CASE Stop \/ Crash
  <2>1. ring' = <<>> /\ pipe' = <<>> /\ UNCHANGED <<emitted, frames>>
    BY <1>6 DEF Stop, Crash, NoMemory
  <2>2. Len(ring') = 0 /\ Len(pipe') = 0 /\ ring' \in Seq(Bytes) /\ pipe' \in Seq(Bytes)
    BY <2>1, EmptyTyped, Zenon
  <2> QED BY <1>4, <2>1, <2>2
<1>7. CASE Read
  <2>1. CASE ReadBytes
    <3>1. Stream' = Stream /\ UNCHANGED <<frames, emitted>>
      BY <1>1, <1>7, <2>1, ReadKeepsStream DEF Read
    <3> QED BY <1>1, <3>1
  <2>2. CASE ReadNothing \/ ReadFails BY <1>3, <1>7, <2>2 DEF Read, ReadNothing, ReadFails
  <2> QED BY <1>7, <2>1, <2>2 DEF Read
<1>8. CASE DrainFrame
  <2> DEFINE frame == SubSeq(ring, 1, FrameBytes)
  <2>1. /\ FrameBytes \in 0 .. Len(ring) /\ FrameBytes \in Nat \ {0}
        /\ ring' = SubSeq(ring, FrameBytes + 1, Len(ring)) /\ UNCHANGED <<pipe, emitted>>
    BY <1>2, <1>8, Assumptions DEF DrainFrame, FrameReady
  <2>2. frame = SubSeq(Stream, 1, FrameBytes) /\ frame \in Seq(Bytes)
    <3>1. FrameBytes \in 1 .. Len(ring) /\ 1 \in 1 .. Len(ring)
      BY <1>2, <2>1
    <3> QED BY <1>2, <2>1, <3>1, SubSeqOfConcat1, TakeDrop DEF Stream
  <2>3. Stream' = SubSeq(Stream, FrameBytes + 1, Len(Stream))
    <3> DEFINE t == SubSeq(Stream, FrameBytes + 1, Len(Stream))
    <3>1. FrameBytes \in 0 .. Len(Stream)
      BY <1>2, <2>1
    <3>2. /\ t \in Seq(Bytes) /\ Len(t) = Len(Stream) - FrameBytes
          /\ \A i \in 1 .. Len(Stream) - FrameBytes : t[i] = Stream[FrameBytes + i]
      BY <1>2, <3>1, TakeDrop
    <3>3. /\ ring' \in Seq(Bytes) /\ Len(ring') = Len(ring) - FrameBytes
          /\ \A i \in 1 .. Len(ring) - FrameBytes : ring'[i] = ring[FrameBytes + i]
      BY <1>2, <2>1, TakeDrop
    <3>4. /\ Stream' \in Seq(Bytes) /\ Len(Stream') = Len(ring') + Len(pipe)
          /\ \A i \in 1 .. Len(ring') + Len(pipe) :
                Stream'[i] = IF i <= Len(ring') THEN ring'[i] ELSE pipe[i - Len(ring')]
      BY <1>2, <2>1, <3>3, ConcatProperties DEF Stream
    <3>5. \A i \in 1 .. Len(ring) + Len(pipe) :
                Stream[i] = IF i <= Len(ring) THEN ring[i] ELSE pipe[i - Len(ring)]
      BY <1>2, ConcatProperties DEF Stream
    <3> HIDE DEF t
    <3>6. ASSUME NEW i \in 1 .. Len(Stream') PROVE Stream'[i] = t[i]
      <4>1. /\ i \in 1 .. Len(Stream) - FrameBytes /\ i \in 1 .. Len(ring') + Len(pipe)
            /\ FrameBytes + i \in 1 .. Len(ring) + Len(pipe)
        BY ONLY <1>2, <2>1, <3>3, <3>4, <3>6
      <4>2. t[i] = Stream[FrameBytes + i]
        BY <3>2, <4>1
      <4>3. CASE i <= Len(ring')
        <5>1. i \in 1 .. Len(ring) - FrameBytes /\ FrameBytes + i <= Len(ring)
          BY ONLY <1>2, <2>1, <3>3, <4>1, <4>3
        <5> QED BY <3>3, <3>4, <3>5, <4>1, <4>2, <4>3, <5>1
      <4>4. CASE ~(i <= Len(ring'))
        <5>1. ~(FrameBytes + i <= Len(ring)) /\ (FrameBytes + i) - Len(ring) = i - Len(ring')
          <6>1. /\ FrameBytes \in Nat /\ Len(ring) \in Nat /\ i \in Nat
                /\ Len(ring') = Len(ring) - FrameBytes
            BY <1>2, <2>1, <3>3, <4>1
          <6> QED BY ONLY <4>4, <6>1
        <5> QED BY <3>4, <3>5, <4>1, <4>2, <4>4, <5>1
      <4> QED BY <4>3, <4>4
    <3>7. Len(Stream') = Len(t)
      BY ONLY <1>2, <2>1, <3>2, <3>3, <3>4
    <3> QED BY <3>2, <3>4, <3>6, <3>7, SeqEqual DEF t
  <2>4. frames' = frames \/ frames' = Append(frames, frame)
    BY <1>8 DEF DrainFrame, ClassifyFrame, ClassifyFails
  <2>5. Sampled(Stream', frames, 2 * emitted) /\ Sampled(Stream', Append(frames, frame), 2 * emitted)
    <3>1. FrameBytes <= Len(Stream) /\ 2 * emitted \in Nat
      BY <1>2, <2>1
    <3> HIDE DEF frame
    <3> QED BY <1>1, <1>2, <2>2, <2>3, <3>1, SampledDrain
  <2>6. Append(frames, frame) \in Seq(Seq(Bytes))
    BY <1>1, <2>2, AppendProperties
  <2> QED BY <1>1, <2>1, <2>4, <2>5, <2>6
<1>9. CASE Emit
  <2> DEFINE sample == <<2 * (emitted + 1) - 1, 2 * (emitted + 1)>>
  <2>1. emitted' = emitted + 1 /\ UNCHANGED <<ring, frames>> /\ pipe' \in {pipe, pipe \o sample}
    BY <1>9 DEF Emit
  <2>2. Stream' = Stream \/ Stream' = Stream \o sample
    <3>1. sample \in Seq(Bytes)
      <4>1. emitted + 1 \in Nat \ {0}
        BY <1>2
      <4> QED BY <4>1, SampleType
    <3> HIDE DEF sample
    <3>2. ring \in Seq(Bytes) /\ pipe \in Seq(Bytes)
      BY <1>2
    <3>3. ring \o (pipe \o sample) = (ring \o pipe) \o sample
      BY ONLY <3>1, <3>2, ConcatAssociative
    <3> QED BY <2>1, <3>3 DEF Stream
  <2>3. Sampled(Stream', frames, 2 * (emitted + 1))
    BY <1>1, <1>2, <2>2, SampledEmit
  <2> QED BY <1>1, <2>1, <2>3
<1>10. CASE Start \/ Loop \/ DrainDone \/ SttIdle \/ SttPost \/ Transcribed \/ TranscribeFails
            \/ Generate \/ Respond \/ Discard
  BY <1>3, <1>10 DEF Start, Loop, RunOnce, DrainDone, SttIdle, SttPost, Transcribed,
                     TranscribeFails, Generate, Respond, Discard
<1>11. CASE ChildDies \/ Signal \/ UNCHANGED vars BY <1>3, <1>11 DEF ChildDies, Signal, vars
<1> QED BY <1>5, <1>6, <1>7, <1>8, <1>9, <1>10, <1>11 DEF Next, Main, Environment

\* However the reads cut the stream, whatever the pipe lost before them, and over
\* any number of starts, a frame the VAD hears is whole samples in the order of
\* the recording (supervisor.c:166-210), where a chunk fits the ring.
THEOREM FramesWhole ==
    ASSUME Proportions, WholeFrames
    PROVE  Spec => []FramesAreWholeSamples
<1>1. ASSUME StreamInv PROVE FramesAreWholeSamples
  <2>1. Sampled(Stream, frames, 2 * emitted)
    BY <1>1 DEF StreamInv
  <2> SUFFICES ASSUME NEW f \in 1 .. Len(frames)
               PROVE  /\ Len(frames[f]) = FrameBytes
                      /\ \A b \in 1 .. FrameBytes :
                            (b % 2 = 1) => (frames[f][b] % 2 = 1 /\ frames[f][b + 1] = frames[f][b] + 1)
                      /\ f > 1 => frames[f][1] > frames[f - 1][FrameBytes]
    BY DEF FramesAreWholeSamples
  <2>2. Len(frames[f]) = FrameBytes /\ Paired(frames[f])
    BY <2>1 DEF Sampled
  <2>3. ASSUME f > 1 PROVE frames[f][1] > frames[f - 1][FrameBytes]
    <3>1. f \in 2 .. Len(frames)
      <4>1. Len(frames) \in Nat
        BY <1>1, LenProperties DEF StreamInv
      <4> QED BY <2>3, <4>1
    <3>2. frames[f - 1][FrameBytes] < frames[f][1]
      BY <2>1, <3>1 DEF Sampled
    <3> QED BY ONLY <3>2
  <2> QED BY <2>2, <2>3 DEF Paired
<1>2. Init => StreamInv BY StreamInit
<1>3. StreamInv /\ [Next]_vars => StreamInv' BY StreamStep
<1> QED BY <1>1, <1>2, <1>3, PTL DEF Spec

-----------------------------------------------------------------------------
(* The files on the disk.                                                  *)

Names(files) == {f.id : f \in files}
Waiting(queue) == {queue[i] : i \in 1 .. Len(queue)}
Working == IF pc = "transcribe" THEN {artifact} ELSE {}

\* Between two runs nothing waits, and a file is there for what waits only.
KeptInv ==
    /\ FileInv
    /\ pc = "off" => Len(artifactQueue) = 0
    /\ failures = {} => Names(disk) = Waiting(artifactQueue) \cup Working

\* A write adds its name to the directory, an unlink takes it away.
LEMMA NamesSaved ==
    ASSUME NEW files, NEW id, NEW pcm
    PROVE  /\ Names(Saved(files, id, pcm)) = Names(files) \cup {id}
           /\ Names(Unlinked(files, id)) = Names(files) \ {id}
<1> DEFINE new == [id |-> id, pcm |-> pcm]
<1>1. new.id = id
  OBVIOUS
<1>2. Saved(files, id, pcm) = {f \in files : f.id # id} \cup {new}
  BY Zenon DEF Saved
<1> HIDE DEF new
<1> QED BY <1>1, <1>2 DEF Names, Unlinked

\* An enqueued id waits with the others.
LEMMA WaitingAppend ==
    ASSUME NEW q \in Seq(Ids), NEW id \in Ids
    PROVE  Waiting(Append(q, id)) = Waiting(q) \cup {id}
<1> DEFINE r == Append(q, id)
<1>1. /\ Len(q) \in Nat /\ Len(r) = Len(q) + 1
      /\ \A i \in 1 .. Len(q) : r[i] = q[i]
      /\ r[Len(q) + 1] = id
  BY AppendProperties, LenProperties
<1> HIDE DEF r
<1>2. \A i : i \in 1 .. Len(r) <=> i \in 1 .. Len(q) \/ i = Len(q) + 1
  BY ONLY <1>1
<1>3. \A i \in 1 .. Len(q) : i \in 1 .. Len(r)
  BY <1>2
<1> QED BY <1>1, <1>2, <1>3 DEF Waiting, r

\* The head is the smallest of what waits; the others stay.
LEMMA WaitingTail ==
    ASSUME NEW q \in Seq(Ids), q # <<>>,
           \A i, j \in 1 .. Len(q) : i < j => q[i] < q[j]
    PROVE  /\ Waiting(Tail(q)) = Waiting(q) \ {Head(q)} /\ Head(q) \in Waiting(q)
           /\ \A x \in Waiting(Tail(q)) : Head(q) < x
<1> DEFINE r == Tail(q)
<1>1. /\ Len(q) \in Nat /\ Len(r) = Len(q) - 1 /\ Len(q) >= 1
      /\ \A i \in 1 .. Len(r) : r[i] = q[i + 1]
      /\ Head(q) = q[1]
  BY HeadTailProperties, LenProperties, EmptySeq
<1> HIDE DEF r
<1>2. /\ 1 \in 1 .. Len(q)
      /\ \A i \in 1 .. Len(r) : i + 1 \in 1 .. Len(q) /\ 1 < i + 1
      /\ \A i \in 1 .. Len(q) : i # 1 => i - 1 \in 1 .. Len(r) /\ (i - 1) + 1 = i
  BY ONLY <1>1
<1>3. \A i \in 1 .. Len(q) : q[i] \in Ids
  BY ElementOfSeq
<1>4. \A i \in 1 .. Len(r) : r[i] \in Waiting(q) /\ r[i] # q[1] /\ q[1] < r[i]
  BY <1>1, <1>2, <1>3 DEF Waiting, Ids
<1>5. \A i \in 1 .. Len(q) : q[i] # q[1] => q[i] \in Waiting(r)
  <2> SUFFICES ASSUME NEW i \in 1 .. Len(q), q[i] # q[1]
               PROVE  q[i] \in Waiting(r)
    OBVIOUS
  <2>1. i - 1 \in 1 .. Len(r) /\ (i - 1) + 1 = i
    BY <1>2
  <2>2. r[i - 1] = q[i]
    BY <1>1, <2>1
  <2> QED BY <2>1, <2>2 DEF Waiting
<1>6. q[1] \in Waiting(q)
  BY <1>2 DEF Waiting
<1>7. \A x \in Waiting(r) : x \in Waiting(q) /\ x # q[1] /\ q[1] < x
  BY <1>4 DEF Waiting
<1>8. \A x \in Waiting(q) : x # q[1] => x \in Waiting(r)
  BY <1>5 DEF Waiting
<1>9. Waiting(r) = Waiting(q) \ {q[1]}
  BY <1>7, <1>8
<1> QED BY <1>1, <1>6, <1>7, <1>9 DEF r

\* Before the first start the directory is empty.
LEMMA KeptInit == Init => KeptInv
<1> SUFFICES ASSUME Init PROVE KeptInv
  OBVIOUS
<1>1. pc = "off" /\ Len(artifactQueue) = 0 /\ disk = {}
  BY EmptyTyped, Zenon DEF Init
<1> QED BY <1>1, FileInit DEF KeptInv, Names, Waiting, Working

\* Every step keeps the two in agreement, or something failed.
LEMMA KeptStep == ASSUME KeptInv, [Next]_vars PROVE KeptInv'
<1> USE DEF environment, memory, record
<1>1. FileInv /\ FileInv'
  BY FileStep DEF KeptInv
<1>2. /\ artifactQueue \in Seq(Ids) /\ nextId \in Ids /\ Len(artifactQueue) \in Nat
      /\ \A i, j \in 1 .. Len(artifactQueue) : i < j => artifactQueue[i] < artifactQueue[j]
  BY <1>1, LenProperties DEF FileInv, TypeOK, Queued
<1>3. /\ pc = "off" => Len(artifactQueue) = 0
      /\ failures = {} => Names(disk) = Waiting(artifactQueue) \cup Working
  BY DEF KeptInv
<1> SUFFICES /\ pc' = "off" => Len(artifactQueue') = 0
             /\ failures' = {} => Names(disk') = Waiting(artifactQueue') \cup Working'
  BY <1>1 DEF KeptInv
\* The steps that leave the directory, the queue and the work alone.
<1>4. ASSUME UNCHANGED <<artifactQueue, disk, failures>>, pc # "transcribe", pc' # "transcribe",
             pc' # "off"
      PROVE  /\ pc' = "off" => Len(artifactQueue') = 0
             /\ failures' = {} => Names(disk') = Waiting(artifactQueue') \cup Working'
  BY <1>3, <1>4 DEF Working
<1>5. CASE Launch
  <2>1. pc = "off" /\ pc' = "start" /\ UNCHANGED <<disk, failures>> /\ Len(artifactQueue') = 0
    BY <1>5, NoMemoryType DEF Launch
  <2>2. Waiting(artifactQueue') = {} /\ Waiting(artifactQueue) = {}
    BY <1>3, <2>1 DEF Waiting
  <2> QED BY <1>3, <2>1, <2>2 DEF Working
<1>6. CASE Start \/ Loop \/ Read \/ DrainDone \/ SttIdle \/ Generate \/ Respond \/ Stop
  BY <1>4, <1>6 DEF Start, Loop, RunOnce, Read, ReadBytes, ReadNothing, ReadFails, DrainDone,
                    SttIdle, Generate, Respond, Stop
<1>7. CASE DrainFrame
  <2>1. CASE ClassifyFails BY <1>4, <1>7, <2>1 DEF DrainFrame, ClassifyFails
  <2>2. CASE ClassifyFrame
    <3>1. PICK pcm : Finalize(pcm) \/ Keep(pcm)
      BY <2>2 DEF ClassifyFrame
    <3>2. pc = "drain" /\ pc' \in {"drain", "stop"}
      BY <1>7, <3>1 DEF DrainFrame, Finalize, Keep
    <3>3. CASE Keep(pcm) BY <1>4, <3>2, <3>3 DEF Keep
    <3>4. CASE Finalize(pcm)
      <4>1. nextId \notin Waiting(artifactQueue)
        <5>1. \A i \in 1 .. Len(artifactQueue) : artifactQueue[i] \in Ids /\ artifactQueue[i] < nextId
          BY <1>1, <1>2, <3>2, ElementOfSeq DEF FileInv, Queued, Counted
        <5> QED BY <1>2, <5>1 DEF Waiting, Ids
      <4>2. \/ /\ \E p : disk' = Saved(disk, nextId, p)
               /\ artifactQueue' = Append(artifactQueue, nextId) /\ UNCHANGED failures
            \/ disk' = Unlinked(disk, nextId) /\ UNCHANGED <<artifactQueue, failures>>
            \/ failures' # {}
        BY <3>4 DEF Finalize, WriteFails, Written
      <4>3. Working = {} /\ Working' = {}
        BY <3>2 DEF Working
      <4>4. CASE /\ \E p : disk' = Saved(disk, nextId, p)
                 /\ artifactQueue' = Append(artifactQueue, nextId) /\ UNCHANGED failures
        <5>1. Names(disk') = Names(disk) \cup {nextId}
          BY <4>4, NamesSaved
        <5>2. Waiting(artifactQueue') = Waiting(artifactQueue) \cup {nextId}
          BY <1>2, <4>4, WaitingAppend
        <5> QED BY <1>3, <3>2, <4>3, <4>4, <5>1, <5>2
      <4>5. CASE disk' = Unlinked(disk, nextId) /\ UNCHANGED <<artifactQueue, failures>>
        <5>1. Names(disk') = Names(disk) \ {nextId}
          BY <4>5, NamesSaved
        <5> QED BY <1>3, <3>2, <4>1, <4>3, <4>5, <5>1
      <4> QED BY <3>2, <4>2, <4>4, <4>5
    <3> QED BY <3>1, <3>3, <3>4
  <2> QED BY <1>7, <2>1, <2>2 DEF DrainFrame
<1>8. CASE SttPost
  <2>1. /\ artifactQueue # <<>> /\ artifact' = Head(artifactQueue)
        /\ artifactQueue' = Tail(artifactQueue)
        /\ pc = "stt" /\ pc' = "transcribe" /\ UNCHANGED <<disk, failures>>
    BY <1>8 DEF SttPost
  <2>2. Working = {} /\ Working' = {Head(artifactQueue)}
    BY <2>1 DEF Working
  <2> QED BY <1>2, <1>3, <2>1, <2>2, WaitingTail
<1>9. CASE Transcribed
  <2>1. pc = "transcribe" /\ pc' = "generate" /\ UNCHANGED <<artifact, artifactQueue>>
    BY <1>9 DEF Transcribed
  <2>2. (disk' = Unlinked(disk, artifact) /\ UNCHANGED failures) \/ failures' # {}
    BY <1>9 DEF Transcribed, Unlink
  <2>3. artifact \notin Waiting(artifactQueue)
    <3>1. \A i \in 1 .. Len(artifactQueue) : artifact < artifactQueue[i] /\ artifactQueue[i] \in Ids
      BY <1>1, <1>2, <2>1, ElementOfSeq DEF FileInv, Taken
    <3>2. artifact \in Ids
      BY <1>1 DEF FileInv, TypeOK
    <3> QED BY <3>1, <3>2 DEF Waiting, Ids
  <2>4. Working = {artifact} /\ Working' = {}
    BY <2>1 DEF Working
  <2>5. CASE disk' = Unlinked(disk, artifact) /\ UNCHANGED failures
    <3>1. Names(disk') = Names(disk) \ {artifact}
      BY <2>5, NamesSaved
    <3> QED BY <1>3, <2>1, <2>3, <2>4, <2>5, <3>1
  <2> QED BY <2>1, <2>2, <2>5
<1>10. CASE Discard
  <2>1. /\ artifactQueue # <<>> /\ artifactQueue' = Tail(artifactQueue)
        /\ pc = "discard" /\ UNCHANGED pc
    BY <1>10 DEF Discard
  <2>2. (disk' = Unlinked(disk, Head(artifactQueue)) /\ UNCHANGED failures) \/ failures' # {}
    BY <1>10 DEF Discard, Unlink
  <2>3. Working = {} /\ Working' = {}
    BY <2>1 DEF Working
  <2>4. CASE disk' = Unlinked(disk, Head(artifactQueue)) /\ UNCHANGED failures
    <3>1. Names(disk') = Names(disk) \ {Head(artifactQueue)}
      BY <2>4, NamesSaved
    <3>2. Waiting(artifactQueue') = Waiting(artifactQueue) \ {Head(artifactQueue)}
      BY <1>2, <2>1, WaitingTail
    <3> QED BY <1>3, <2>1, <2>3, <2>4, <3>1, <3>2
  <2> QED BY <2>1, <2>2, <2>4
<1>11. CASE Exit
  <2>1. /\ pc = "discard" /\ pc' = "off" /\ artifactQueue = <<>> /\ Len(artifactQueue') = 0
        /\ UNCHANGED <<disk, failures>>
    BY <1>11, NoMemoryType DEF Exit
  <2>2. Waiting(artifactQueue') = {} /\ Waiting(artifactQueue) = {}
    <3>1. Len(artifactQueue) = 0
      BY <2>1, EmptyTyped, Zenon
    <3> QED BY <2>1, <3>1 DEF Waiting
  <2> QED BY <1>3, <2>1, <2>2 DEF Working
<1>12. CASE TranscribeFails \/ Crash
  <2>1. failures' # {} /\ (pc' = "off" => Len(artifactQueue') = 0)
    BY <1>12, NoMemoryType DEF TranscribeFails, Crash
  <2> QED BY <2>1
<1>13. CASE Emit \/ ChildDies \/ Signal \/ UNCHANGED vars
  <2>1. UNCHANGED <<pc, artifact, artifactQueue, disk, failures>>
    BY <1>13 DEF Emit, ChildDies, Signal, vars
  <2> QED BY <1>3, <2>1 DEF Working
<1> QED BY <1>5, <1>6, <1>7, <1>8, <1>9, <1>10, <1>11, <1>12, <1>13 DEF Next, Main, Environment

\* While every call works, the directory holds the files of the utterances that
\* wait or are being transcribed and no other; so each of the paths that end a
\* job, the transcription, the full queue and the stop, unlinks its file.
THEOREM FilesKept == Spec => []NoLeftover
<1>1. KeptInv => NoLeftover
  BY DEF KeptInv, NoLeftover, Names, Waiting, Working
<1>2. Init => KeptInv BY KeptInit
<1>3. KeptInv /\ [Next]_vars => KeptInv' BY KeptStep
<1> QED BY <1>1, <1>2, <1>3, PTL DEF Spec

-----------------------------------------------------------------------------
(* How many files a run leaves.                                            *)

Short == ChunkBytes <= FrameBytes

\* What this run has on the disk, the one file of a failure included.
Held ==
    Len(artifactQueue) + (IF pc \in {"transcribe", "stop", "discard"} THEN 1 ELSE 0)

\* The files of the runs before this one.
Before == (runs - 1) * InFlight

BoundInv ==
    /\ FileInv
    /\ Short => RoomInv /\ (pc \in {"stop", "discard"} => Len(artifactQueue) = 0)
    /\ pc = "transcribe" => Len(artifactQueue) < QueueCapacity /\ artifact \in Names(disk)
    /\ IsFiniteSet(disk)
    /\ "unlink" \notin failures =>
          Cardinality(disk) <= IF pc = "off" THEN runs * InFlight ELSE Before + Held

\* A write adds a file at the most, an unlink of a file that is there takes one away.
LEMMA FilesCounted ==
    ASSUME NEW files, NEW id, NEW pcm, IsFiniteSet(files)
    PROVE  /\ IsFiniteSet(Saved(files, id, pcm))
           /\ Cardinality(Saved(files, id, pcm)) <= Cardinality(files) + 1
           /\ IsFiniteSet(Unlinked(files, id))
           /\ Cardinality(Unlinked(files, id)) <= Cardinality(files)
           /\ id \in Names(files) => Cardinality(Unlinked(files, id)) <= Cardinality(files) - 1
<1> DEFINE rest == {f \in files : f.id # id}
           new == [id |-> id, pcm |-> pcm]
<1>1. Saved(files, id, pcm) = rest \cup {new} /\ Unlinked(files, id) = rest
  BY Zenon DEF Saved, Unlinked
<1> HIDE DEF new
<1>2. /\ IsFiniteSet(rest) /\ Cardinality(rest) <= Cardinality(files)
      /\ Cardinality(files) = Cardinality(rest) => files = rest
      /\ Cardinality(rest) \in Nat /\ Cardinality(files) \in Nat
  BY FS_Subset, FS_CardinalityType
<1>3. id \in Names(files) => rest # files
  BY DEF Names
<1> HIDE DEF rest
<1>4. /\ IsFiniteSet(rest \cup {new}) /\ Cardinality(rest \cup {new}) \in Nat
      /\ Cardinality(rest \cup {new}) <= Cardinality(rest) + 1
  <2>1. /\ IsFiniteSet(rest \cup {new})
        /\ Cardinality(rest \cup {new}) = IF new \in rest THEN Cardinality(rest) ELSE Cardinality(rest) + 1
    BY <1>2, FS_AddElement
  <2> QED BY <1>2, <2>1
<1>5. /\ Cardinality(rest \cup {new}) <= Cardinality(files) + 1
      /\ rest # files => Cardinality(rest) <= Cardinality(files) - 1
  BY <1>2, <1>4
<1> QED BY <1>1, <1>2, <1>3, <1>4, <1>5

\* What is held at any place is no more than what one run may leave.
LEMMA HeldInFlight == ASSUME BoundInv PROVE InFlight \in Nat /\ (pc # "off" => Held <= InFlight)
<1> USE Assumptions
<1>1. /\ Len(artifactQueue) \in Nat /\ Len(artifactQueue) <= QueueCapacity
      /\ QueueCapacity \in Nat \ {0}
  BY LenProperties DEF BoundInv, FileInv, TypeOK
<1>2. CASE Short
  <2>1. /\ Len(artifactQueue) <= 1
        /\ pc \in {"transcribe", "stop", "discard"} => Len(artifactQueue) = 0
    BY <1>2 DEF BoundInv, RoomInv, QueuesServed
  <2> QED BY <1>1, <1>2, <2>1 DEF Held, InFlight, Short
<1>3. CASE ~Short
  BY <1>1, <1>3 DEF Held, InFlight, Short
<1> QED BY <1>2, <1>3

\* Before the first start there are no files.
LEMMA BoundInit == Init => BoundInv
<1> SUFFICES ASSUME Init PROVE BoundInv
  OBVIOUS
<1>1. pc = "off" /\ disk = {} /\ runs = 0
  BY DEF Init
<1>2. InFlight \in Nat
  BY Assumptions DEF InFlight
<1>3. IsFiniteSet(disk) /\ Cardinality(disk) = 0
  BY <1>1, FS_EmptySet
<1> QED BY <1>1, <1>2, <1>3, FileInit, RoomInit DEF BoundInv

\* In a run files and what is held go up and down together; between runs what
\* was held stays.
LEMMA BoundStep == ASSUME BoundInv, [Next]_vars PROVE BoundInv'
<1> USE DEF environment, memory, record
<1>1. FileInv /\ FileInv' /\ (Short => RoomInv /\ RoomInv') /\ TypeOK
  BY FileStep, RoomStep DEF BoundInv, FileInv, Short
<1>2. /\ artifactQueue \in Seq(Ids) /\ Len(artifactQueue) \in Nat /\ Len(artifactQueue') \in Nat
      /\ Len(artifactQueue) <= QueueCapacity /\ runs \in Nat /\ QueueCapacity \in Nat
      /\ InFlight \in Nat /\ (pc # "off" => Held <= InFlight)
  BY <1>1, LenProperties, HeldInFlight, Assumptions DEF FileInv, TypeOK
<1>3. /\ Short /\ pc \in {"stop", "discard"} => Len(artifactQueue) = 0
      /\ pc = "transcribe" => Len(artifactQueue) < QueueCapacity /\ artifact \in Names(disk)
      /\ IsFiniteSet(disk) /\ Cardinality(disk) \in Nat
      /\ "unlink" \notin failures =>
            Cardinality(disk) <= IF pc = "off" THEN runs * InFlight ELSE Before + Held
  BY FS_CardinalityType DEF BoundInv
<1>4. /\ Before \in Int /\ (runs + 1 - 1) * InFlight = runs * InFlight
      /\ runs * InFlight = Before + InFlight
  BY <1>2 DEF Before
<1>5. Short /\ (pc \in {"off", "start", "loop", "read", "transcribe"} \/ (pc = "drain" /\ FrameReady))
         => Len(artifactQueue) = 0
  BY <1>1 DEF RoomInv, QueuesServed
<1>50. UNCHANGED runs => Before' = Before /\ runs' * InFlight' = Before + InFlight
  BY <1>4 DEF Before, InFlight
<1> DEFINE Shown ==
      /\ Short /\ pc' \in {"stop", "discard"} => Len(artifactQueue') = 0
      /\ pc' = "transcribe" => Len(artifactQueue') < QueueCapacity /\ artifact' \in Names(disk')
      /\ IsFiniteSet(disk')
      /\ "unlink" \notin failures' =>
            Cardinality(disk') <= IF pc' = "off" THEN runs' * InFlight ELSE Before' + Held'
<1> SUFFICES Shown
  BY <1>1 DEF BoundInv, InFlight, Short
\* The steps that leave the directory and the queue alone.
<1>6. ASSUME UNCHANGED <<artifactQueue, disk, runs>>, failures \subseteq failures',
             pc # "off", pc' # "off", pc' # "transcribe",
             \/ pc = "drain" /\ FrameReady /\ pc' = "stop"
             \/ pc \in {"start", "loop", "read", "transcribe"} /\ pc' = "stop"
             \/ pc = "stop" /\ pc' = "discard"
             \/ pc \notin {"transcribe", "stop", "discard"} /\ pc' \notin {"stop", "discard"}
      PROVE  Shown
  <2>1. Held' >= Held /\ Held \in Nat /\ Held' \in Nat
    BY <1>2, <1>6 DEF Held
  <2>2. Short /\ pc' \in {"stop", "discard"} => Len(artifactQueue') = 0
    BY <1>3, <1>5, <1>6
  <2>3. "unlink" \notin failures' => Cardinality(disk') <= Before' + Held'
    BY <1>3, <1>4, <1>50, <1>6, <2>1
  <2> QED BY <1>3, <1>6, <2>2, <2>3
<1>7. CASE Launch
  <2>1. /\ pc = "off" /\ pc' = "start" /\ runs' = runs + 1 /\ UNCHANGED <<disk, failures>>
        /\ Len(artifactQueue') = 0
    BY <1>7, NoMemoryType DEF Launch
  <2>2. Before' = runs * InFlight /\ Held' = 0
    <3>1. Before' = (runs + 1 - 1) * InFlight
      BY <1>2, <2>1 DEF Before, InFlight
    <3> QED BY <1>4, <2>1, <3>1 DEF Held
  <2> QED BY <1>3, <2>1, <2>2, <1>2
<1>8. CASE Start \/ Loop \/ Read
  <2>1. /\ UNCHANGED <<artifactQueue, disk, runs, failures>> /\ pc \in {"start", "loop", "read"}
        /\ pc' \in {"loop", "read", "drain", "stop"}
    BY <1>8 DEF Start, Loop, RunOnce, Read, ReadBytes, ReadNothing, ReadFails
  <2> HIDE DEF Shown
  <2> QED BY <1>6, <2>1
<1>9. CASE DrainDone \/ SttIdle \/ Generate \/ Respond
  BY <1>6, <1>9 DEF DrainDone, SttIdle, Generate, Respond
<1>10. CASE TranscribeFails \/ Stop
  <2>1. /\ UNCHANGED <<artifactQueue, disk, runs>> /\ failures \subseteq failures'
        /\ \/ pc = "transcribe" /\ pc' = "stop"
           \/ pc = "stop" /\ pc' = "discard"
    BY <1>10 DEF TranscribeFails, Stop
  <2> HIDE DEF Shown
  <2> QED BY <1>6, <2>1
<1>11. CASE DrainFrame
  <2>1. pc = "drain" /\ FrameReady /\ UNCHANGED runs
    BY <1>11 DEF DrainFrame
  <2>2. CASE ClassifyFails BY <1>6, <1>11, <2>1, <2>2 DEF DrainFrame, ClassifyFails
  <2>3. CASE ClassifyFrame
    <3>1. PICK pcm : Finalize(pcm) \/ Keep(pcm)
      BY <2>3 DEF ClassifyFrame
    <3>2. CASE Keep(pcm) BY <1>6, <2>1, <3>2 DEF Keep
    <3>3. CASE Finalize(pcm)
      <4>1. \/ /\ \E p : disk' = Saved(disk, nextId, p)
               /\ artifactQueue' = Append(artifactQueue, nextId)
               /\ pc' = "drain" /\ UNCHANGED failures
            \/ /\ disk' = Unlinked(disk, nextId) /\ UNCHANGED <<artifactQueue, failures>>
               /\ pc' = "drain"
            \/ /\ \E p : disk' = Saved(disk, nextId, p)
               /\ "unlink" \in failures' /\ pc' = "drain"
            \/ /\ disk' \in {disk, Unlinked(disk, nextId)} \/ \E p : disk' = Saved(disk, nextId, p)
               /\ UNCHANGED artifactQueue /\ failures \subseteq failures' /\ pc' = "stop"
        BY <3>3 DEF Finalize, WriteFails, Written
      <4>2. /\ IsFiniteSet(disk') /\ Cardinality(disk') \in Nat
            /\ Cardinality(disk') <= Cardinality(disk) + 1
            /\ disk' = Unlinked(disk, nextId) => Cardinality(disk') <= Cardinality(disk)
        BY <1>3, <4>1, FilesCounted, FS_CardinalityType
      <4>3. Len(Append(artifactQueue, nextId)) = Len(artifactQueue) + 1
        BY <1>1, <1>2, AppendProperties DEF TypeOK
      <4> QED BY <1>2, <1>3, <1>4, <1>5, <1>50, <2>1, <4>1, <4>2, <4>3 DEF Held
    <3> QED BY <3>1, <3>2, <3>3
  <2> QED BY <1>11, <2>2, <2>3 DEF DrainFrame
<1>12. CASE SttPost
  <2>1. /\ pc = "stt" /\ pc' = "transcribe" /\ artifactQueue # <<>>
        /\ artifact' = Head(artifactQueue) /\ artifactQueue' = Tail(artifactQueue)
        /\ UNCHANGED <<disk, failures, runs>>
    BY <1>12 DEF SttPost
  <2>2. Len(artifactQueue') = Len(artifactQueue) - 1 /\ Head(artifactQueue) = artifactQueue[1]
        /\ 1 \in 1 .. Len(artifactQueue)
    BY <1>2, <2>1, HeadTailProperties, EmptySeq
  <2>3. artifact' \in Names(disk')
    BY <1>1, <2>1, <2>2 DEF FileInv, Queued, Holds, Names
  <2> QED BY <1>2, <1>3, <1>4, <1>50, <2>1, <2>2, <2>3 DEF Held
<1>13. CASE Transcribed \/ Discard
  <2>1. /\ UNCHANGED runs
        /\ \/ pc = "transcribe" /\ pc' = "generate" /\ UNCHANGED artifactQueue /\ Unlink(artifact)
           \/ /\ pc = "discard" /\ pc' = "discard" /\ artifactQueue # <<>>
              /\ artifactQueue' = Tail(artifactQueue) /\ Unlink(Head(artifactQueue))
    BY <1>13 DEF Transcribed, Discard
  <2>2. artifactQueue # <<>> => /\ Head(artifactQueue) = artifactQueue[1]
                                /\ 1 \in 1 .. Len(artifactQueue)
    BY <1>2, <2>1, HeadTailProperties, EmptySeq
  <2>3. artifactQueue # <<>> => Head(artifactQueue) \in Names(disk)
    BY <1>1, <2>2 DEF FileInv, Queued, Holds, Names
  <2>4. PICK id \in Names(disk) : Unlink(id)
    BY <1>3, <2>1, <2>3
  <2>5. \/ /\ disk' = Unlinked(disk, id) /\ UNCHANGED failures /\ IsFiniteSet(disk')
           /\ Cardinality(disk') <= Cardinality(disk) - 1 /\ Cardinality(disk') \in Nat
        \/ UNCHANGED disk /\ "unlink" \in failures'
    BY <1>3, <2>4, FilesCounted, FS_CardinalityType DEF Unlink
  <2>6. CASE pc = "transcribe" BY <1>2, <1>3, <1>4, <1>50, <2>1, <2>5, <2>6 DEF Held
  <2>7. CASE pc = "discard"
    <3>1. Len(artifactQueue') = Len(artifactQueue) - 1 /\ Len(artifactQueue) >= 1
      BY <1>2, <2>1, <2>7, HeadTailProperties, EmptySeq
    <3> QED BY <1>2, <1>3, <1>4, <1>50, <2>1, <2>5, <2>7, <3>1 DEF Held
  <2> QED BY <2>1, <2>6, <2>7
<1>14. CASE Exit \/ Crash
  <2>1. pc # "off" /\ pc' = "off" /\ UNCHANGED <<disk, runs>> /\ failures \subseteq failures'
    BY <1>14 DEF Exit, Crash
  <2>2. Held \in Nat
    BY <1>2 DEF Held
  <2> QED BY <1>2, <1>3, <1>4, <1>50, <2>1, <2>2
<1>15. CASE Emit \/ ChildDies \/ Signal \/ UNCHANGED vars
  <2>1. UNCHANGED <<pc, artifactQueue, artifact, disk, runs, failures>>
    BY <1>15 DEF Emit, ChildDies, Signal, vars
  <2>2. UNCHANGED <<Held, Before>>
    BY <2>1 DEF Held, Before, InFlight
  <2> QED BY <1>3, <2>1, <2>2
<1> QED BY <1>7, <1>8, <1>9, <1>10, <1>11, <1>12, <1>13, <1>14, <1>15 DEF Next, Main, Environment

\* As long as unlinks work, a run leaves one file at the most where a chunk is no
\* longer than a frame, and never more than its queue holds and one, whatever
\* calls fail and however often the process is killed and started again.
THEOREM LeftoversFew == Spec => []LeftoversBounded
<1>1. ASSUME BoundInv PROVE LeftoversBounded
  <2>1. InFlight \in Nat /\ (pc # "off" => Held <= InFlight) /\ runs \in Nat
        /\ Cardinality(disk) \in Nat /\ Held \in Int
    <3>1. IsFiniteSet(disk) /\ runs \in Nat /\ Len(artifactQueue) \in Nat
      BY <1>1, LenProperties, Assumptions DEF BoundInv, FileInv, TypeOK
    <3> QED BY <1>1, <3>1, HeldInFlight, FS_CardinalityType DEF Held
  <2>2. runs * InFlight = Before + InFlight /\ Before \in Int
    BY <2>1 DEF Before
  <2> QED BY <1>1, <2>1, <2>2 DEF BoundInv, LeftoversBounded
<1>2. Init => BoundInv BY BoundInit
<1>3. BoundInv /\ [Next]_vars => BoundInv' BY BoundStep
<1> QED BY <1>1, <1>2, <1>3, PTL DEF Spec

-----------------------------------------------------------------------------
(* The order of the answers, with drops.                                   *)

IdsOf(responses) == {responses[i].id : i \in 1 .. Len(responses)}
Rising(responses) == \A i, j \in 1 .. Len(responses) : i < j => responses[i].id < responses[j].id
Below(S, T) == \A x \in S, y \in T : x < y

\* The utterance the tick works on.
Task == IF pc \in {"transcribe", "generate"} THEN {artifact} ELSE {}

\* What was answered, what waits for TTS, what is worked on and what waits for
\* STT follow each other, and where no job is lost they are all that was not
\* dropped.
InLine ==
    /\ Below(IdsOf(answered), IdsOf(responseQueue))
    /\ Below(IdsOf(answered) \cup IdsOf(responseQueue), Task)
    /\ Below(IdsOf(answered) \cup IdsOf(responseQueue) \cup Task, Waiting(artifactQueue))

NoneLost ==
    {id \in 0 .. Len(utterances) - 1 : id \notin dropped} =
        IdsOf(answered) \cup IdsOf(responseQueue) \cup Task \cup Waiting(artifactQueue)

LineInv ==
    /\ FileInv
    /\ answered \in Seq(Responses)
    /\ Rising(answered) /\ Rising(responseQueue)
    /\ pc # "off" => InLine /\ dropped \subseteq 0 .. Len(utterances) - 1
    /\ pc \notin {"off", "stop", "discard"} => NoneLost

\* A response goes to the end of the line.
LEMMA RisingAppend ==
    ASSUME NEW q \in Seq(Responses), NEW r \in Responses, Rising(q),
           \A x \in IdsOf(q) : x < r.id
    PROVE  /\ Append(q, r) \in Seq(Responses) /\ Rising(Append(q, r))
           /\ IdsOf(Append(q, r)) = IdsOf(q) \cup {r.id}
<1> DEFINE t == Append(q, r)
<1>1. /\ Len(q) \in Nat /\ Len(t) = Len(q) + 1 /\ t \in Seq(Responses)
      /\ \A i \in 1 .. Len(q) : t[i] = q[i]
      /\ t[Len(q) + 1] = r
  BY AppendProperties, LenProperties
<1> HIDE DEF t
<1>2. \A i : i \in 1 .. Len(t) <=> i \in 1 .. Len(q) \/ i = Len(q) + 1
  BY ONLY <1>1
<1>3. IdsOf(t) = IdsOf(q) \cup {r.id}
  <2>1. \A x \in IdsOf(t) : x \in IdsOf(q) \/ x = r.id
    BY <1>1, <1>2 DEF IdsOf
  <2>2. \A x \in IdsOf(q) : x \in IdsOf(t)
    BY <1>1, <1>2 DEF IdsOf
  <2>3. r.id \in IdsOf(t)
    BY <1>1, <1>2 DEF IdsOf
  <2> QED BY <2>1, <2>2, <2>3
<1>4. Rising(t)
  <2> SUFFICES ASSUME NEW i \in 1 .. Len(t), NEW j \in 1 .. Len(t), i < j
               PROVE  t[i].id < t[j].id
    BY DEF Rising
  <2>1. i \in 1 .. Len(q)
    BY <1>1
  <2>2. CASE j \in 1 .. Len(q) BY <1>1, <2>1, <2>2 DEF Rising
  <2>3. CASE j = Len(q) + 1 BY <1>1, <2>1, <2>3 DEF IdsOf
  <2> QED BY <1>2, <2>2, <2>3
<1> QED BY <1>1, <1>3, <1>4 DEF t

\* A response leaves the front of the line.
LEMMA RisingTail ==
    ASSUME NEW q \in Seq(Responses), q # <<>>, Rising(q)
    PROVE  /\ Head(q) \in Responses /\ Head(q).id \in IdsOf(q)
           /\ Rising(Tail(q))
           /\ IdsOf(Tail(q)) = IdsOf(q) \ {Head(q).id}
           /\ \A x \in IdsOf(Tail(q)) : Head(q).id < x
<1> DEFINE t == Tail(q)
<1>1. /\ Len(q) \in Nat /\ Len(t) = Len(q) - 1 /\ Len(q) >= 1
      /\ \A i \in 1 .. Len(t) : t[i] = q[i + 1]
      /\ Head(q) = q[1] /\ Head(q) \in Responses
  BY HeadTailProperties, LenProperties, EmptySeq
<1> HIDE DEF t
<1>2. /\ 1 \in 1 .. Len(q)
      /\ \A i \in 1 .. Len(t) : i + 1 \in 1 .. Len(q) /\ 1 < i + 1
      /\ \A i \in 1 .. Len(q) : i # 1 => i - 1 \in 1 .. Len(t) /\ (i - 1) + 1 = i
      /\ \A i, j \in 1 .. Len(t) : i < j => i + 1 < j + 1
  BY ONLY <1>1
<1>3. \A i \in 1 .. Len(q) : q[i].id \in Nat
  <2>1. \A i \in 1 .. Len(q) : q[i] \in Responses
    BY ElementOfSeq
  <2> QED BY <2>1 DEF Responses, Ids
<1>4. \A i \in 1 .. Len(t) : t[i].id \in IdsOf(q) /\ t[i].id # q[1].id /\ q[1].id < t[i].id
  <2> SUFFICES ASSUME NEW i \in 1 .. Len(t)
               PROVE  q[i + 1].id \in IdsOf(q) /\ q[i + 1].id # q[1].id /\ q[1].id < q[i + 1].id
    BY <1>1
  <2>1. q[1].id < q[i + 1].id
    BY <1>2 DEF Rising
  <2> QED BY <1>2, <1>3, <2>1 DEF IdsOf
<1>5. \A i \in 1 .. Len(q) : q[i].id # q[1].id => q[i].id \in IdsOf(t)
  <2> SUFFICES ASSUME NEW i \in 1 .. Len(q), q[i].id # q[1].id
               PROVE  q[i].id \in IdsOf(t)
    OBVIOUS
  <2>1. i - 1 \in 1 .. Len(t) /\ (i - 1) + 1 = i
    BY <1>2
  <2>2. t[i - 1].id = q[i].id
    BY <1>1, <2>1
  <2> QED BY <2>1, <2>2 DEF IdsOf
<1>6. q[1].id \in IdsOf(q)
  BY <1>2 DEF IdsOf
<1>7. \A x \in IdsOf(t) : x \in IdsOf(q) /\ x # q[1].id /\ q[1].id < x
  BY <1>4 DEF IdsOf
<1>8. \A x \in IdsOf(q) : x # q[1].id => x \in IdsOf(t)
  BY <1>5 DEF IdsOf
<1>9. IdsOf(t) = IdsOf(q) \ {q[1].id}
  BY <1>7, <1>8
<1>10. Rising(t)
  <2> SUFFICES ASSUME NEW i \in 1 .. Len(t), NEW j \in 1 .. Len(t), i < j
               PROVE  q[i + 1].id < q[j + 1].id
    BY <1>1 DEF Rising
  <2> QED BY <1>2 DEF Rising
<1> QED BY <1>1, <1>6, <1>7, <1>9, <1>10 DEF t

\* Ids are numbers.
LEMMA IdsAreNat ==
    ASSUME LineInv
    PROVE  /\ IdsOf(answered) \subseteq Nat /\ IdsOf(responseQueue) \subseteq Nat
           /\ Task \subseteq Nat /\ Waiting(artifactQueue) \subseteq Nat
<1>1. /\ \A i \in 1 .. Len(answered) : answered[i] \in Responses
      /\ \A i \in 1 .. Len(responseQueue) : responseQueue[i] \in Responses
      /\ \A i \in 1 .. Len(artifactQueue) : artifactQueue[i] \in Ids
      /\ artifact \in Ids
  BY ElementOfSeq DEF LineInv, FileInv, TypeOK
<1> QED BY <1>1 DEF IdsOf, Task, Waiting, Responses, Ids

\* Before the first start there is no line.
LEMMA LineInit == Init => LineInv
<1> SUFFICES ASSUME Init PROVE LineInv
  OBVIOUS
<1>1. /\ pc = "off" /\ Len(answered) = 0 /\ Len(responseQueue) = 0 /\ answered \in Seq(Responses)
  BY EmptyTyped, Zenon DEF Init
<1> QED BY <1>1, FileInit DEF LineInv, Rising

\* No step lets an utterance pass another or forgets one.
LEMMA LineStep == ASSUME LineInv, [Next]_vars PROVE LineInv'
<1> USE DEF environment, memory, record
<1>1. FileInv /\ FileInv'
  BY FileStep DEF LineInv
<1>2. /\ artifactQueue \in Seq(Ids) /\ responseQueue \in Seq(Responses) /\ answered \in Seq(Responses)
      /\ artifact \in Ids /\ nextId \in Nat
      /\ \A i, j \in 1 .. Len(artifactQueue) : i < j => artifactQueue[i] < artifactQueue[j]
  BY <1>1 DEF FileInv, TypeOK, Queued, LineInv, Ids
<1>3. /\ Rising(answered) /\ Rising(responseQueue)
      /\ pc # "off" => InLine /\ dropped \subseteq 0 .. Len(utterances) - 1
      /\ pc \notin {"off", "stop", "discard"} => NoneLost
      /\ pc # "off" => Len(utterances) = nextId
  BY <1>1 DEF LineInv, FileInv, Counted
<1>4. /\ IdsOf(answered) \subseteq Nat /\ IdsOf(responseQueue) \subseteq Nat
      /\ Task \subseteq Nat /\ Waiting(artifactQueue) \subseteq Nat
  BY IdsAreNat
<1> DEFINE Shown ==
      /\ answered' \in Seq(Responses)
      /\ Rising(answered') /\ Rising(responseQueue')
      /\ pc' # "off" => InLine' /\ dropped' \subseteq 0 .. Len(utterances') - 1
      /\ pc' \notin {"off", "stop", "discard"} => NoneLost'
<1> SUFFICES Shown
  BY <1>1 DEF LineInv
<1> HIDE DEF Shown
\* The steps that move nothing.
<1>5. ASSUME UNCHANGED <<answered, responseQueue, artifactQueue, artifact, utterances, dropped>>,
             pc # "off" \/ pc' = "off",
             pc \in {"stop", "discard"} => pc' \in {"off", "stop", "discard"},
             \/ pc' \in {"transcribe", "generate"} /\ pc \in {"transcribe", "generate"}
             \/ pc' \in {"off", "stop", "discard"}
             \/ pc' \notin {"transcribe", "generate"} /\ pc \notin {"transcribe", "generate"}
      PROVE  Shown
  <2>1. Task' = Task \/ (Task' = {} /\ pc' \in {"off", "stop", "discard"})
    BY <1>5 DEF Task
  <2>2. pc' # "off" => InLine'
    BY <1>3, <1>5, <2>1 DEF InLine, Below
  <2>3. pc' \notin {"off", "stop", "discard"} => NoneLost'
    BY <1>3, <1>5, <2>1 DEF NoneLost
  <2> QED BY <1>2, <1>3, <1>5, <2>2, <2>3 DEF Shown
<1>6. ASSUME pc' = "off", UNCHANGED answered, Len(responseQueue') = 0
      PROVE  Shown
  BY <1>2, <1>3, <1>6 DEF Shown, Rising
<1>7. CASE Launch
  <2>1. /\ Len(answered') = 0 /\ Len(responseQueue') = 0 /\ Len(artifactQueue') = 0
        /\ Len(utterances') = 0 /\ dropped' = {} /\ pc' = "start"
        /\ answered' \in Seq(Responses)
    BY <1>7, EmptyTyped, Zenon DEF Launch, NoMemory, NoRecord
  <2>2. IdsOf(answered') = {} /\ IdsOf(responseQueue') = {} /\ Waiting(artifactQueue') = {} /\ Task' = {}
    BY <2>1 DEF IdsOf, Waiting, Task
  <2>3. InLine' /\ NoneLost'
    BY <2>1, <2>2 DEF InLine, NoneLost, Below
  <2> QED BY <2>1, <2>3 DEF Shown, Rising
<1>8. CASE Start \/ Loop \/ Read \/ DrainDone \/ SttIdle \/ Transcribed \/ TranscribeFails \/ Stop
  BY <1>5, <1>8 DEF Start, Loop, RunOnce, Read, ReadBytes, ReadNothing, ReadFails, DrainDone,
                    SttIdle, Transcribed, TranscribeFails, Stop
<1>9. CASE DrainFrame
  <2>1. pc = "drain" /\ UNCHANGED <<artifact, responseQueue, answered>>
    BY <1>9 DEF DrainFrame
  <2>2. CASE ClassifyFails BY <1>5, <2>1, <2>2 DEF ClassifyFails
  <2>3. CASE ClassifyFrame
    <3>1. PICK pcm : Finalize(pcm) \/ Keep(pcm)
      BY <2>3 DEF ClassifyFrame
    <3>2. CASE Keep(pcm) BY <1>5, <2>1, <3>2 DEF Keep
    <3>3. CASE Finalize(pcm)
      <4>1. /\ pc' \in {"drain", "stop"} /\ nextId' = nextId + 1
            /\ \/ artifactQueue' = Append(artifactQueue, nextId) /\ UNCHANGED dropped
               \/ UNCHANGED artifactQueue /\ dropped' = dropped \cup {nextId}
               \/ UNCHANGED <<artifactQueue, dropped>> /\ pc' = "stop"
        BY <3>3 DEF Finalize
      <4>2. Len(utterances) = nextId /\ Len(utterances') = nextId + 1
        BY <1>1, <1>3, <2>1, <4>1 DEF FileInv, Counted
      <4>3. Task = {} /\ Task' = {}
        BY <2>1, <4>1 DEF Task
      <4>4. dropped' \subseteq 0 .. Len(utterances') - 1
        BY <1>2, <1>3, <2>1, <4>1, <4>2
      <4>5. Waiting(Append(artifactQueue, nextId)) = Waiting(artifactQueue) \cup {nextId}
        BY <1>1, <1>2, WaitingAppend DEF FileInv, TypeOK
      <4>6. \A x \in IdsOf(answered) \cup IdsOf(responseQueue) \cup Waiting(artifactQueue) : x < nextId
        BY <1>2, <1>3, <2>1, <4>2 DEF NoneLost
      <4>7. InLine'
        BY <1>3, <2>1, <4>1, <4>3, <4>5, <4>6 DEF InLine, Below
      <4>8. {id \in 0 .. Len(utterances') - 1 : id \notin dropped'} =
              ({id \in 0 .. Len(utterances) - 1 : id \notin dropped} \cup {nextId})
                 \ (dropped' \ dropped)
        BY <1>2, <1>3, <2>1, <4>1, <4>2
      <4>9. pc' \notin {"off", "stop", "discard"} => NoneLost'
        <5> DEFINE here == {id \in 0 .. Len(utterances) - 1 : id \notin dropped}
                   next == {id \in 0 .. Len(utterances') - 1 : id \notin dropped'}
                   line == IdsOf(answered) \cup IdsOf(responseQueue) \cup Waiting(artifactQueue)
        <5>1. here = line /\ next = (here \cup {nextId}) \ (dropped' \ dropped)
          BY <1>3, <2>1, <4>3, <4>8 DEF NoneLost
        <5>2. nextId \notin line /\ nextId \notin dropped
          BY <1>2, <1>3, <2>1, <4>2, <4>6
        <5> HIDE DEF here, next
        <5>3. CASE artifactQueue' = Append(artifactQueue, nextId) /\ UNCHANGED dropped
          <6>1. next = line \cup {nextId}
            BY <5>1, <5>3
          <6> QED BY <2>1, <4>3, <4>5, <5>3, <6>1 DEF NoneLost, next
        <5>4. CASE UNCHANGED artifactQueue /\ dropped' = dropped \cup {nextId}
          <6>1. next = line
            BY <5>1, <5>2, <5>4
          <6> QED BY <2>1, <4>3, <5>4, <6>1 DEF NoneLost, next
        <5> QED BY <4>1, <5>3, <5>4
      <4> QED BY <1>2, <1>3, <2>1, <4>4, <4>7, <4>9 DEF Shown
    <3> QED BY <3>1, <3>2, <3>3
  <2> QED BY <1>9, <2>2, <2>3 DEF DrainFrame
<1>10. CASE SttPost
  <2> DEFINE id == Head(artifactQueue)
             rest == Waiting(artifactQueue')
  <2>1. /\ pc = "stt" /\ pc' = "transcribe" /\ artifactQueue # <<>> /\ artifact' = id
        /\ artifactQueue' = Tail(artifactQueue)
        /\ UNCHANGED <<answered, responseQueue, utterances, dropped>>
    BY <1>10 DEF SttPost
  <2>2. /\ rest = Waiting(artifactQueue) \ {id} /\ id \in Waiting(artifactQueue)
        /\ \A x \in rest : id < x
    BY <1>2, <2>1, WaitingTail
  <2>3. Task = {} /\ Task' = {id}
    BY <2>1 DEF Task
  <2> HIDE DEF id, rest
  <2>4. InLine'
    BY <1>3, <2>1, <2>2, <2>3 DEF InLine, Below, rest
  <2>5. NoneLost'
    BY <1>3, <2>1, <2>2, <2>3 DEF NoneLost, rest
  <2> QED BY <1>2, <1>3, <2>1, <2>4, <2>5 DEF Shown
<1>11. CASE Generate
  <2>1. /\ pc = "generate" /\ pc' = "respond" /\ UNCHANGED <<answered, artifactQueue, utterances>>
    BY <1>11 DEF Generate
  <2>2. PICK fallback \in BOOLEAN :
          responseQueue' = SoftEnqueued(responseQueue, [id |-> artifact, fallback |-> fallback])
    BY <1>11 DEF Generate
  <2>3. Task = {artifact} /\ Task' = {}
    BY <2>1 DEF Task
  <2>4. [id |-> artifact, fallback |-> fallback] \in Responses
    BY <1>2 DEF Responses
  <2>5. \A x \in IdsOf(responseQueue) : x < artifact
    BY <1>3, <2>1, <2>3 DEF InLine, Below
  <2>6. \/ /\ Rising(responseQueue') /\ IdsOf(responseQueue') = IdsOf(responseQueue) \cup {artifact}
           /\ UNCHANGED dropped
        \/ UNCHANGED responseQueue /\ dropped' = dropped \cup {artifact}
    <3>1. CASE Len(responseQueue) < QueueCapacity
      BY <1>2, <1>3, <1>11, <2>2, <2>4, <2>5, <3>1, RisingAppend DEF Generate, SoftEnqueued
    <3>2. CASE ~(Len(responseQueue) < QueueCapacity)
      BY <1>11, <2>2, <3>2 DEF Generate, SoftEnqueued
    <3> QED BY <3>1, <3>2
  <2>7. artifact \in 0 .. Len(utterances) - 1
    BY <1>3, <2>1, <2>3 DEF NoneLost
  <2>8. /\ artifact \notin IdsOf(answered) /\ artifact \notin IdsOf(responseQueue)
        /\ artifact \notin Waiting(artifactQueue)
    BY <1>2, <1>3, <2>1, <2>3 DEF InLine, Below, Ids
  <2>9. InLine'
    BY <1>3, <2>1, <2>3, <2>6 DEF InLine, Below
  <2>10. NoneLost'
    BY <1>3, <2>1, <2>3, <2>6, <2>8 DEF NoneLost
  <2>11. dropped' \subseteq 0 .. Len(utterances') - 1
    BY <1>3, <2>1, <2>6, <2>7
  <2> QED BY <1>2, <1>3, <2>1, <2>6, <2>9, <2>10, <2>11 DEF Shown
<1>12. CASE Respond
  <2>1. pc = "respond" /\ pc' = "loop" /\ UNCHANGED <<artifact, artifactQueue, utterances, dropped>>
    BY <1>12 DEF Respond
  <2>2. CASE UNCHANGED <<answered, responseQueue>> BY <1>5, <2>1, <2>2
  <2>3. CASE /\ responseQueue # <<>> /\ responseQueue' = Tail(responseQueue)
             /\ answered' = Append(answered, Head(responseQueue))
    <3> DEFINE id == Head(responseQueue).id
    <3>1. /\ Head(responseQueue) \in Responses /\ id \in IdsOf(responseQueue)
          /\ Rising(responseQueue') /\ IdsOf(responseQueue') = IdsOf(responseQueue) \ {id}
          /\ \A x \in IdsOf(responseQueue') : id < x
      BY <1>2, <1>3, <2>3, RisingTail
    <3>2. \A x \in IdsOf(answered) : x < id
      BY <1>3, <2>1, <3>1 DEF InLine, Below
    <3>3. /\ answered' \in Seq(Responses) /\ Rising(answered')
          /\ IdsOf(answered') = IdsOf(answered) \cup {id}
      BY <1>2, <1>3, <2>3, <3>1, <3>2, RisingAppend
    <3>4. Task = {} /\ Task' = {}
      BY <2>1 DEF Task
    <3> HIDE DEF id
    <3>5. InLine'
      BY <1>3, <2>1, <3>1, <3>2, <3>3, <3>4 DEF InLine, Below
    <3>6. NoneLost'
      BY <1>3, <2>1, <3>1, <3>3, <3>4 DEF NoneLost
    <3> QED BY <1>3, <2>1, <3>1, <3>3, <3>5, <3>6 DEF Shown
  <2> QED BY <1>12, <2>2, <2>3 DEF Respond
<1>13. CASE Discard
  <2>1. /\ pc = "discard" /\ UNCHANGED <<pc, answered, responseQueue, artifact, utterances, dropped>>
        /\ artifactQueue # <<>> /\ artifactQueue' = Tail(artifactQueue)
    BY <1>13 DEF Discard
  <2>2. Waiting(artifactQueue') \subseteq Waiting(artifactQueue) /\ Task' = Task
    BY <1>2, <2>1, WaitingTail DEF Task
  <2>3. InLine'
    BY <1>3, <2>1, <2>2 DEF InLine, Below
  <2> QED BY <1>2, <1>3, <2>1, <2>3 DEF Shown
<1>14. CASE Exit \/ Crash
  <2>1. pc' = "off" /\ UNCHANGED answered /\ Len(responseQueue') = 0
    BY <1>14, NoMemoryType DEF Exit, Crash
  <2> QED BY <1>6, <2>1
<1>15. CASE Emit \/ ChildDies \/ Signal \/ UNCHANGED vars
  <2>1. UNCHANGED <<pc, answered, responseQueue, artifactQueue, artifact, utterances, dropped>>
    BY <1>15 DEF Emit, ChildDies, Signal, vars
  <2>2. UNCHANGED <<InLine, NoneLost>>
    BY <2>1 DEF InLine, NoneLost, Task, Below
  <2> QED BY <1>2, <1>3, <2>1, <2>2 DEF Shown
<1> QED BY <1>7, <1>8, <1>9, <1>10, <1>11, <1>12, <1>13, <1>14, <1>15 DEF Next, Main, Environment

\* Whatever is dropped, the answers come in the order of the utterances, none
\* twice, and at the end of a tick every utterance of the run is answered,
\* dropped with its queue full, or still waits (supervisor.c:149-157, 260-264).
THEOREM AnswersInLine == Spec => []InOrderOrDropped
<1>1. ASSUME LineInv PROVE InOrderOrDropped
  <2>1. Rising(answered) /\ (pc = "loop" => NoneLost)
    BY <1>1 DEF LineInv
  <2>2. pc = "loop" => Task = {}
    BY DEF Task
  <2>3. pc = "loop" =>
          {id \in 0 .. Len(utterances) - 1 : id \notin dropped} =
             IdsOf(answered) \cup Waiting(artifactQueue) \cup IdsOf(responseQueue)
    BY <2>1, <2>2 DEF NoneLost
  <2> QED BY <2>1, <2>3 DEF InOrderOrDropped, IdsOf, Waiting, Rising
<1>2. Init => LineInv BY LineInit
<1>3. LineInv /\ [Next]_vars => LineInv' BY LineStep
<1> QED BY <1>1, <1>2, <1>3, PTL DEF Spec

-----------------------------------------------------------------------------
(* The utterances are the segments of the stream.                          *)

\* The detector's proofs, for what VadStep does to any history: none of the
\* lemmas taken from there is about the variables of VadDetector.
Detector == INSTANCE VadDetectorProofs
                WITH Durations <- {FrameMs}, MaxFrames <- MaxSamples, backend <- TRUE,
                     status <- "OK", events <- <<>>

\* The operators of the two copies of VadFrames are the same.
LEMMA SameFrames ==
    /\ \A h, k : Detector!InUtterance(h, k) <=> InUtterance(h, k)
    /\ \A h, speech, duration : Detector!Heard(h, speech, duration) = Heard(h, speech, duration)
    /\ \A v, speech, duration : Detector!VadStep(v, speech, duration) = VadStep(v, speech, duration)
    /\ \A h, k : Detector!ReferenceEvent(h, k) = ReferenceEvent(h, k)
<1>1. \A h, k : Detector!InUtterance(h, k) <=> InUtterance(h, k)
  BY DEF Detector!InUtterance, InUtterance
<1>2. \A h, speech, duration : Detector!Heard(h, speech, duration) = Heard(h, speech, duration)
  BY DEF Detector!Heard, Heard, Detector!EndTime, EndTime
<1>3. \A v, speech, duration : Detector!VadStep(v, speech, duration) = VadStep(v, speech, duration)
  BY DEF Detector!VadStep, VadStep, Detector!VadIdle, VadIdle
<1>4. \A h, k : Detector!ReferenceEvent(h, k) = ReferenceEvent(h, k)
  BY <1>1 DEF Detector!ReferenceEvent, ReferenceEvent
<1> QED BY <1>1, <1>2, <1>3, <1>4

Heards == Seq(Detector!Frames)

\* An utterance began at the s-th frame and is not over.
Open(h, s) ==
    /\ s \in 1 .. Len(h)
    /\ s > 1 => ~InUtterance(h, s - 1)
    /\ \A m \in s .. Len(h) : InUtterance(h, m)

\* The places of a process that hears frames, or may.
Listening == pc \in {"start", "loop", "read", "drain", "stt", "transcribe", "generate", "respond"}

\* What the detector knows is the history, and what is assembled is its open
\* utterance, if it has one.
Assembling ==
    /\ Detector!Knows(vad, history)
    /\ vad.active => \E s \in 1 .. Len(history) :
           Open(history, s) /\ utterance = SubSeq(frames, s, Len(frames))

SegmentInv ==
    /\ FileInv
    /\ history \in Heards
    /\ frames \in Pcms /\ Len(frames) = Len(history)
    /\ SegmentationCorrect
    /\ Listening => Assembling

\* What the events of the reference say.
LEMMA EventMeans ==
    ASSUME NEW h, NEW k \in Nat
    PROVE  /\ ReferenceEvent(h, k) = "SPEECH_START" <=>
                ~(k > 1 /\ InUtterance(h, k - 1)) /\ InUtterance(h, k)
           /\ ReferenceEvent(h, k) = "SPEECH_END" <=>
                k > 1 /\ InUtterance(h, k - 1) /\ ~InUtterance(h, k)
           /\ ReferenceEvent(h, k) = "SPEECH_CONTINUE" <=>
                k > 1 /\ InUtterance(h, k - 1) /\ InUtterance(h, k)
<1> DEFINE before == k > 1 /\ InUtterance(h, k - 1)
           after == InUtterance(h, k)
<1>1. ReferenceEvent(h, k) = CASE ~before /\ after -> "SPEECH_START"
                               [] before /\ after -> "SPEECH_CONTINUE"
                               [] before /\ ~after -> "SPEECH_END"
                               [] OTHER -> "NONE"
  BY DEF ReferenceEvent
<1>2. before \in BOOLEAN /\ after \in BOOLEAN
  BY DEF InUtterance
<1> HIDE DEF before, after
<1>3. /\ ReferenceEvent(h, k) = "SPEECH_START" <=> ~before /\ after
      /\ ReferenceEvent(h, k) = "SPEECH_END" <=> before /\ ~after
      /\ ReferenceEvent(h, k) = "SPEECH_CONTINUE" <=> before /\ after
  BY <1>1, <1>2
<1> QED BY <1>3 DEF before, after

\* The places of a segment.
LEMMA SegmentMeans ==
    ASSUME NEW h, Len(h) \in Nat, NEW a, NEW b
    PROVE  <<a, b>> \in Segments(h) <=>
              /\ a \in 1 .. Len(h) /\ b \in 1 .. Len(h) /\ a < b
              /\ ReferenceEvent(h, a) = "SPEECH_START" /\ ReferenceEvent(h, b) = "SPEECH_END"
              /\ \A m \in a .. b - 1 : InUtterance(h, m)
BY DEF Segments

\* A frame more leaves the events before it as they were.
LEMMA EventsStay ==
    ASSUME NEW h, NEW g, NEW n \in Nat, \A k \in 1 .. n : InUtterance(g, k) <=> InUtterance(h, k),
           NEW k \in 1 .. n
    PROVE  ReferenceEvent(g, k) = ReferenceEvent(h, k)
<1>1. InUtterance(g, k) <=> InUtterance(h, k)
  OBVIOUS
<1>2. k > 1 => (InUtterance(g, k - 1) <=> InUtterance(h, k - 1))
  <2>1. k > 1 => k - 1 \in 1 .. n
    OBVIOUS
  <2> QED BY <2>1
<1> QED BY <1>1, <1>2 DEF ReferenceEvent

\* The segments that end before the last frame are those before it.
LEMMA SegmentsStay ==
    ASSUME NEW h, NEW g, NEW n \in Nat, Len(h) = n, Len(g) = n + 1,
           \A k \in 1 .. n : InUtterance(g, k) <=> InUtterance(h, k),
           NEW a, NEW b, b # n + 1
    PROVE  <<a, b>> \in Segments(g) <=> <<a, b>> \in Segments(h)
<1>1. /\ <<a, b>> \in Segments(g) <=>
              /\ a \in 1 .. n + 1 /\ b \in 1 .. n + 1 /\ a < b
              /\ ReferenceEvent(g, a) = "SPEECH_START" /\ ReferenceEvent(g, b) = "SPEECH_END"
              /\ \A m \in a .. b - 1 : InUtterance(g, m)
      /\ <<a, b>> \in Segments(h) <=>
              /\ a \in 1 .. n /\ b \in 1 .. n /\ a < b
              /\ ReferenceEvent(h, a) = "SPEECH_START" /\ ReferenceEvent(h, b) = "SPEECH_END"
              /\ \A m \in a .. b - 1 : InUtterance(h, m)
  BY SegmentMeans
<1>2. (a \in 1 .. n + 1 /\ b \in 1 .. n + 1 /\ a < b) <=> (a \in 1 .. n /\ b \in 1 .. n /\ a < b)
  OBVIOUS
<1>3. ASSUME a \in 1 .. n, b \in 1 .. n
      PROVE  /\ ReferenceEvent(g, a) = ReferenceEvent(h, a)
             /\ ReferenceEvent(g, b) = ReferenceEvent(h, b)
             /\ \A m \in a .. b - 1 : InUtterance(g, m) <=> InUtterance(h, m)
  <2>1. \A m \in a .. b - 1 : m \in 1 .. n
    BY <1>3
  <2> QED BY <1>3, <2>1, EventsStay
<1> QED BY <1>1, <1>2, <1>3

\* So a frame that ends no utterance adds no segment.
LEMMA SegmentsSame ==
    ASSUME NEW h, NEW g, NEW n \in Nat, Len(h) = n, Len(g) = n + 1,
           \A k \in 1 .. n : InUtterance(g, k) <=> InUtterance(h, k),
           ReferenceEvent(g, n + 1) # "SPEECH_END"
    PROVE  Segments(g) = Segments(h)
<1>1. ASSUME NEW a, NEW b PROVE <<a, b>> \in Segments(g) <=> <<a, b>> \in Segments(h)
  <2>1. CASE b # n + 1 BY <2>1, SegmentsStay
  <2>2. CASE b = n + 1
    <3>1. <<a, b>> \notin Segments(g)
      BY <2>2, SegmentMeans
    <3>2. <<a, b>> \notin Segments(h)
      <4>1. b \notin 1 .. n
        BY <2>2
      <4> QED BY <4>1, SegmentMeans
    <3> QED BY <3>1, <3>2
  <2> QED BY <2>1, <2>2
<1>2. /\ \A t \in Segments(g) : t = <<t[1], t[2]>>
      /\ \A t \in Segments(h) : t = <<t[1], t[2]>>
  BY DEF Segments
<1>3. ASSUME NEW t \in Segments(g) PROVE t \in Segments(h)
  <2>1. t = <<t[1], t[2]>>
    BY <1>2
  <2>2. <<t[1], t[2]>> \in Segments(h)
    BY <1>1, <2>1
  <2> QED BY <2>1, <2>2
<1>4. ASSUME NEW t \in Segments(h) PROVE t \in Segments(g)
  <2>1. t = <<t[1], t[2]>>
    BY <1>2
  <2>2. <<t[1], t[2]>> \in Segments(g)
    BY <1>1, <2>1
  <2> QED BY <2>1, <2>2
<1> QED BY <1>3, <1>4

\* And one that ends the open utterance adds that, the last of all.
LEMMA SegmentsGrow ==
    ASSUME NEW h, NEW g, NEW n \in Nat, Len(h) = n, Len(g) = n + 1,
           \A k \in 1 .. n : InUtterance(g, k) <=> InUtterance(h, k),
           ReferenceEvent(g, n + 1) = "SPEECH_END", NEW s, Open(h, s)
    PROVE  /\ Segments(g) = Segments(h) \cup {<<s, n + 1>>}
           /\ \A t \in Segments(h) :
                 t[1] \in 1 .. n /\ t[2] \in 1 .. n /\ t[1] <= t[2] /\ t[1] < s
<1>1. /\ s \in 1 .. n /\ (s > 1 => ~InUtterance(h, s - 1))
      /\ \A m \in s .. n : InUtterance(h, m)
  BY DEF Open
<1>2. ASSUME NEW a, NEW b, <<a, b>> \in Segments(h)
      PROVE  a \in 1 .. n /\ b \in 1 .. n /\ a <= b /\ a < s
  <2>1. /\ a \in 1 .. n /\ b \in 1 .. n /\ a < b /\ ~InUtterance(h, b)
    BY <1>2, SegmentMeans, EventMeans
  <2>2. ~(b \in s .. n)
    BY <1>1, <2>1
  <2> QED BY <1>1, <2>1, <2>2
<1>3. ASSUME NEW a PROVE <<a, n + 1>> \in Segments(g) <=> a = s
  <2>1. ASSUME <<a, n + 1>> \in Segments(g) PROVE a = s
    <3>1. /\ a \in 1 .. n /\ (a > 1 => ~InUtterance(g, a - 1))
          /\ \A m \in a .. n : InUtterance(g, m)
      <4>1. /\ a \in 1 .. n + 1 /\ a < n + 1 /\ ReferenceEvent(g, a) = "SPEECH_START"
            /\ \A m \in a .. (n + 1) - 1 : InUtterance(g, m)
        BY <2>1, SegmentMeans
      <4>2. (n + 1) - 1 = n /\ a \in 1 .. n
        BY <4>1
      <4> QED BY <4>1, <4>2, EventMeans
    <3>2. ~(a < s)
      <4>1. ASSUME a < s PROVE FALSE
        <5>1. s - 1 \in a .. n /\ s - 1 \in 1 .. n /\ s > 1
          BY <1>1, <3>1, <4>1
        <5> QED BY <1>1, <3>1, <5>1
      <4> QED BY <4>1
    <3>3. ~(s < a)
      <4>1. ASSUME s < a PROVE FALSE
        <5>1. a - 1 \in s .. n /\ a - 1 \in 1 .. n /\ a > 1
          BY <1>1, <3>1, <4>1
        <5> QED BY <1>1, <3>1, <5>1
      <4> QED BY <4>1
    <3> QED BY <1>1, <3>1, <3>2, <3>3
  <2>2. <<s, n + 1>> \in Segments(g)
    <3>1. s \in 1 .. n + 1 /\ n + 1 \in 1 .. n + 1 /\ s < n + 1 /\ (n + 1) - 1 = n
      BY <1>1
    <3>2. \A m \in s .. n : m \in 1 .. n
      BY <1>1
    <3>3. \A m \in s .. n : InUtterance(g, m)
      BY <1>1, <3>2
    <3>4. ReferenceEvent(g, s) = "SPEECH_START"
      <4>1. s > 1 => s - 1 \in 1 .. n
        BY <1>1
      <4>2. s \in s .. n
        BY <1>1
      <4>3. InUtterance(g, s) /\ ~(s > 1 /\ InUtterance(g, s - 1))
        BY <1>1, <3>3, <4>1, <4>2
      <4> QED BY <1>1, <4>3, EventMeans
    <3> QED BY <3>1, <3>3, <3>4, SegmentMeans
  <2> QED BY <2>1, <2>2
<1>4. /\ \A t \in Segments(g) : t = <<t[1], t[2]>>
      /\ \A t \in Segments(h) : t = <<t[1], t[2]>>
  BY DEF Segments
<1> DEFINE last == <<s, n + 1>>
<1>5. ASSUME NEW a, NEW b
      PROVE  <<a, b>> \in Segments(g) <=> <<a, b>> \in Segments(h) \/ <<a, b>> = last
  <2>1. CASE b # n + 1 BY <2>1, SegmentsStay
  <2>2. CASE b = n + 1
    <3>1. <<a, b>> \notin Segments(h)
      <4>1. b \notin 1 .. n
        BY <2>2
      <4> QED BY <4>1, <1>2
    <3> QED BY <1>3, <2>2, <3>1
  <2> QED BY <2>1, <2>2
<1> HIDE DEF last
<1>6. Segments(g) = Segments(h) \cup {last}
  <2>1. last = <<last[1], last[2]>>
    BY DEF last
  <2>2. ASSUME NEW t \in Segments(g) PROVE t \in Segments(h) \/ t = last
    BY <1>4, <1>5, Zenon
  <2>3. ASSUME NEW t, t \in Segments(h) \/ t = last PROVE t \in Segments(g)
    <3>1. t = <<t[1], t[2]>>
      BY <1>4, <2>1, <2>3, Zenon
    <3> QED BY <1>5, <2>3, <3>1, Zenon
  <2> QED BY <2>2, <2>3
<1>7. \A t \in Segments(h) : t[1] \in 1 .. n /\ t[2] \in 1 .. n /\ t[1] <= t[2] /\ t[1] < s
  BY <1>2, <1>4
<1> QED BY <1>6, <1>7 DEF last

\* There are finitely many.
LEMMA SegmentsFinite == ASSUME NEW h, Len(h) \in Nat PROVE IsFiniteSet(Segments(h))
<1>1. IsFiniteSet((1 .. Len(h)) \X (1 .. Len(h)))
  <2>1. IsFiniteSet(1 .. Len(h))
    BY FS_Interval
  <2> QED BY <2>1, FS_Product
<1>2. Segments(h) \in SUBSET ((1 .. Len(h)) \X (1 .. Len(h)))
  BY DEF Segments
<1> QED BY <1>1, <1>2, FS_Subset

\* SegmentationCorrect of any utterances, segments and frames.
Rank(segments, s) == Cardinality({t \in segments : t[1] <= s[1]})
Cut(pcms, segments, fs) ==
    /\ Len(pcms) = Cardinality(segments)
    /\ \A s \in segments : pcms[Rank(segments, s)] = SubSeq(fs, s[1], s[2])

\* A frame more: what was cut out stays, and what reached the end is one longer.
LEMMA SubSeqGrow ==
    ASSUME NEW S, NEW fs \in Seq(S), NEW f \in S
    PROVE  /\ \A a, b \in 1 .. Len(fs) : SubSeq(Append(fs, f), a, b) = SubSeq(fs, a, b)
           /\ \A a \in 1 .. Len(fs) :
                 SubSeq(Append(fs, f), a, Len(fs) + 1) = Append(SubSeq(fs, a, Len(fs)), f)
           /\ SubSeq(Append(fs, f), Len(fs) + 1, Len(fs) + 1) = <<f>>
<1> DEFINE n == Len(fs)
           g == Append(fs, f)
<1>1. /\ n \in Nat /\ g = fs \o <<f>> /\ <<f>> \in Seq(S) /\ g \in Seq(S)
      /\ Len(g) = n + 1 /\ g[n + 1] = f
  BY LenProperties, AppendProperties, AppendIsConcat
<1>2. \A a, b \in 1 .. n : SubSeq(g, a, b) = SubSeq(fs, a, b)
  BY <1>1, SubSeqOfConcat1
<1> HIDE DEF n, g
<1>3. \A a \in 1 .. n : SubSeq(g, a, n + 1) = Append(SubSeq(fs, a, n), f)
  <2>1. SUFFICES ASSUME NEW a \in 1 .. n
                 PROVE  SubSeq(g, a, n + 1) = Append(SubSeq(fs, a, n), f)
    OBVIOUS
  <2>2. a \in 1 .. Len(g) /\ n + 1 \in a .. Len(g) /\ (n + 1) - 1 = n /\ n \in 1 .. n
    BY <1>1
  <2>3. SubSeq(g, a, n + 1) = SubSeq(g, a, n) \o <<f>>
    BY <1>1, <2>2, SubSeqRecursiveSecond
  <2>4. SubSeq(g, a, n) = SubSeq(fs, a, n)
    BY <1>2, <2>2
  <2>5. SubSeq(fs, a, n) \in Seq(S)
    <3>1. \A i \in a .. n : fs[i] \in S
      <4>1. \A i \in a .. n : i \in 1 .. n
        BY <1>1
      <4> QED BY <4>1, ElementOfSeq DEF n
    <3> QED BY <1>1, <3>1, SubSeqProperties
  <2> QED BY <2>3, <2>4, <2>5, AppendIsConcat
<1>4. SubSeq(g, n + 1, n + 1) = <<f>>
  <2>1. n + 1 \in 1 .. Len(g) /\ n + 1 \in n + 1 .. Len(g) /\ (n + 1) - 1 < n + 1
        /\ n + 1 \in Int /\ (n + 1) - 1 \in Int
    BY <1>1
  <2>2. SubSeq(g, n + 1, n + 1) = SubSeq(g, n + 1, (n + 1) - 1) \o <<g[n + 1]>>
    BY <1>1, <2>1, SubSeqRecursiveSecond
  <2>3. SubSeq(g, n + 1, (n + 1) - 1) = <<>>
    BY <2>1, SubSeqEmpty
  <2> QED BY <1>1, <2>2, <2>3, ConcatEmptySeq
<1> QED BY <1>2, <1>3, <1>4 DEF g, n

\* A frame that ends nothing leaves what was cut.
LEMMA CutSame ==
    ASSUME NEW S, NEW fs \in Seq(S), NEW f \in S, NEW pcms, NEW T,
           \A t \in T : t[1] \in 1 .. Len(fs) /\ t[2] \in 1 .. Len(fs), Cut(pcms, T, fs)
    PROVE  Cut(pcms, T, Append(fs, f))
<1>1. \A t \in T : SubSeq(Append(fs, f), t[1], t[2]) = SubSeq(fs, t[1], t[2])
  BY SubSeqGrow
<1> QED BY <1>1 DEF Cut

\* One that ends the last utterance adds it, after all others.
LEMMA CutGrow ==
    ASSUME NEW S, NEW fs \in Seq(S), NEW f \in S, NEW pcms \in Seq(Seq(S)), NEW T, IsFiniteSet(T),
           NEW s \in 1 .. Len(fs),
           \A t \in T : t[1] \in 1 .. Len(fs) /\ t[2] \in 1 .. Len(fs) /\ t[1] < s,
           Cut(pcms, T, fs),
           NEW pcm \in Seq(S), pcm = Append(SubSeq(fs, s, Len(fs)), f)
    PROVE  Cut(Append(pcms, pcm), T \cup {<<s, Len(fs) + 1>>}, Append(fs, f))
<1> DEFINE last == <<s, Len(fs) + 1>>
           U == T \cup {last}
           us == Append(pcms, pcm)
<1>1. last[1] = s /\ last[2] = Len(fs) + 1 /\ s \in Nat /\ Len(fs) \in Nat
  BY LenProperties
<1> HIDE DEF last
<1>2. last \notin T
  <2>1. ~(s < s)
    BY <1>1
  <2> QED BY <1>1, <2>1
<1>3. /\ Cardinality(T) \in Nat /\ Cardinality(U) = Cardinality(T) + 1 /\ IsFiniteSet(U)
  BY <1>2, FS_AddElement, FS_CardinalityType
<1>4. /\ Len(us) = Cardinality(U) /\ us[Cardinality(U)] = pcm
      /\ \A i \in 1 .. Cardinality(T) : us[i] = pcms[i]
  <2>1. Len(pcms) = Cardinality(T)
    BY DEF Cut
  <2>2. /\ Len(us) = Len(pcms) + 1 /\ us[Len(pcms) + 1] = pcm
        /\ \A i \in 1 .. Len(pcms) : us[i] = pcms[i]
    BY AppendProperties
  <2> HIDE DEF us, U
  <2> QED BY <1>3, <2>1, <2>2
<1>5. ASSUME NEW t \in T
      PROVE  us[Rank(U, t)] = SubSeq(Append(fs, f), t[1], t[2])
  <2> DEFINE R == {r \in T : r[1] <= t[1]}
  <2>1. {r \in U : r[1] <= t[1]} = R
    <3>1. t[1] \in Nat /\ t[1] < s /\ ~(s <= t[1])
      BY <1>1
    <3> QED BY <1>1, <3>1
  <2>2. t \in R
    <3>1. t[1] \in Nat /\ t[1] <= t[1]
      OBVIOUS
    <3> QED BY <3>1
  <2>3. R \in SUBSET T
    OBVIOUS
  <2> HIDE DEF R
  <2>4. Cardinality(R) \in 1 .. Cardinality(T)
    <3>1. IsFiniteSet(R) /\ Cardinality(R) <= Cardinality(T)
      BY <2>3, FS_Subset
    <3>2. Cardinality(R) \in Nat /\ Cardinality(R) # 0
      BY <2>2, <3>1, FS_CardinalityType, FS_EmptySet
    <3> QED BY <1>3, <3>1, <3>2
  <2>5. Rank(U, t) = Cardinality(R) /\ Rank(T, t) = Cardinality(R)
    BY <2>1 DEF Rank, R
  <2>6. pcms[Rank(T, t)] = SubSeq(fs, t[1], t[2])
    BY DEF Cut
  <2>7. SubSeq(Append(fs, f), t[1], t[2]) = SubSeq(fs, t[1], t[2])
    BY SubSeqGrow
  <2> QED BY <1>4, <2>4, <2>5, <2>6, <2>7
<1>6. us[Rank(U, last)] = SubSeq(Append(fs, f), last[1], last[2])
  <2>1. {r \in U : r[1] <= last[1]} = U
    <3>1. \A r \in T : r[1] <= s
      BY <1>1
    <3>2. s <= s
      BY <1>1
    <3> QED BY <1>1, <3>1, <3>2
  <2>2. Rank(U, last) = Cardinality(U)
    BY <2>1 DEF Rank
  <2>3. SubSeq(Append(fs, f), s, Len(fs) + 1) = pcm
    BY SubSeqGrow
  <2> QED BY <1>1, <1>4, <2>2, <2>3
<1> HIDE DEF us
<1>7. \A t \in U : t \in T \/ t = last
  OBVIOUS
<1> QED BY <1>4, <1>5, <1>6, <1>7 DEF Cut, last, us

\* An open utterance goes on with a frame inside it, and one begins with it when
\* there was none.
LEMMA OpenLater ==
    ASSUME NEW h, NEW g, NEW n \in Nat, Len(h) = n, Len(g) = n + 1,
           \A k \in 1 .. n : InUtterance(g, k) <=> InUtterance(h, k),
           InUtterance(g, n + 1)
    PROVE  /\ \A s : Open(h, s) => Open(g, s)
           /\ ~(n > 0 /\ InUtterance(h, n)) => Open(g, n + 1)
<1>1. ASSUME NEW s, Open(h, s) PROVE Open(g, s)
  <2>1. /\ s \in 1 .. n /\ (s > 1 => ~InUtterance(h, s - 1))
        /\ \A m \in s .. n : InUtterance(h, m)
    BY <1>1 DEF Open
  <2>2. \A m \in s .. n + 1 : m = n + 1 \/ (m \in 1 .. n /\ m \in s .. n)
    BY <2>1
  <2>3. s \in 1 .. n + 1 /\ (s > 1 => s - 1 \in 1 .. n)
    BY <2>1
  <2> QED BY <2>1, <2>2, <2>3 DEF Open
<1>2. ASSUME ~(n > 0 /\ InUtterance(h, n)) PROVE Open(g, n + 1)
  <2>1. /\ n + 1 \in 1 .. n + 1 /\ (n + 1) - 1 = n /\ (n + 1 > 1 <=> n > 0)
        /\ (n > 0 => n \in 1 .. n)
        /\ \A m \in n + 1 .. n + 1 : m = n + 1
    OBVIOUS
  <2> QED BY <1>2, <2>1 DEF Open
<1> QED BY <1>1, <1>2

\* The invariant in the words of the lemmas.
LEMMA SegmentationIsCut == SegmentationCorrect <=> Cut(utterances, Segments(history), frames)
BY DEF SegmentationCorrect, Cut, Rank

\* A detector that was cleared knows the empty history.
LEMMA NothingHeard ==
    /\ <<>> \in Heards /\ <<>> \in Pcms /\ <<>> \in Seq(Pcms) /\ Len(<<>>) = 0
    /\ Detector!Knows(VadIdle, <<>>) /\ ~VadIdle.active
    /\ Cut(<<>>, Segments(<<>>), <<>>)
<1>1. <<>> \in Heards /\ <<>> \in Pcms /\ <<>> \in Seq(Pcms) /\ Len(<<>>) = 0
  BY EmptySeq, Zenon DEF Heards, Pcms
<1>2. VadIdle \in [active : BOOLEAN, silence : 0 .. SilenceMs - 1] /\ ~VadIdle.active
      /\ VadIdle.silence = 0
  BY SilenceAssumption DEF VadIdle
<1>3. Detector!Knows(VadIdle, <<>>)
  BY <1>1, <1>2 DEF Detector!Knows, Detector!Fields
<1>4. Segments(<<>>) = {}
  BY <1>1 DEF Segments
<1>5. Cut(<<>>, Segments(<<>>), <<>>)
  BY <1>1, <1>4, FS_EmptySet DEF Cut
<1> QED BY <1>1, <1>2, <1>3, <1>5

\* The frame that leaves the ring keeps all of it (drain_capture_ring_into_vad).
LEMMA ClassifySegments ==
    ASSUME SegmentInv, Assembling, ClassifyFrame, FrameReady
    PROVE  /\ history' \in Heards /\ frames' \in Pcms /\ Len(frames') = Len(history')
           /\ SegmentationCorrect' /\ Assembling'
<1> DEFINE frame == SubSeq(ring, 1, FrameBytes)
           h == history
           n == Len(h)
<1>1. PICK speech \in BOOLEAN :
          /\ vad' = VadStep(vad, speech, FrameMs).vad
          /\ frames' = Append(frames, frame)
          /\ history' = Heard(h, speech, FrameMs)
          /\ IF VadStep(vad, speech, FrameMs).event = "SPEECH_END"
             THEN Finalize(Appended(VadStep(vad, speech, FrameMs).event, vad.active, frame))
             ELSE Keep(Appended(VadStep(vad, speech, FrameMs).event, vad.active, frame))
  BY DEF ClassifyFrame
<1> DEFINE event == VadStep(vad, speech, FrameMs).event
           pcm == Appended(event, vad.active, frame)
<1>2. /\ h \in Heards /\ n \in Nat /\ frames \in Pcms /\ Len(frames) = n
      /\ utterance \in Pcms /\ utterances \in Seq(Pcms) /\ Cut(utterances, Segments(h), frames)
  BY LenProperties, SegmentationIsCut DEF SegmentInv, FileInv, DataTyped, Heards
<1>3. frame \in Seq(Bytes)
  <2>1. ring \in Seq(Bytes) /\ FrameBytes \in 0 .. Len(ring)
    BY LenProperties, Assumptions DEF SegmentInv, FileInv, TypeOK, FrameReady
  <2> QED BY <2>1, TakeDrop
<1>4. /\ history' \in Heards /\ Len(history') = n + 1 /\ Detector!Knows(vad', history')
      /\ \A k \in 1 .. n : InUtterance(history', k) <=> InUtterance(h, k)
      /\ event = ReferenceEvent(history', n + 1)
  <2>1. Detector!Knows(vad, h) /\ h \in Seq(Detector!Frames) /\ FrameMs \in Nat
    BY <1>2 DEF Assembling, Heards, FrameMs
  <2>2. /\ history' = Detector!Heard(h, speech, FrameMs)
        /\ vad' = Detector!VadStep(vad, speech, FrameMs).vad
        /\ event = Detector!VadStep(vad, speech, FrameMs).event
    BY <1>1, SameFrames
  <2> HIDE DEF event, h
  <2>3. /\ history' \in Seq(Detector!Frames) /\ Len(history') = Len(h) + 1
        /\ Detector!Knows(vad', history')
        /\ \A k \in 1 .. Len(h) :
              Detector!InUtterance(history', k) <=> Detector!InUtterance(h, k)
        /\ Detector!VadStep(vad, speech, FrameMs).event
              = Detector!ReferenceEvent(history', Len(h) + 1)
    BY <2>1, <2>2, SilenceAssumption, Detector!StepRemembers
  <2> QED BY <2>2, <2>3, SameFrames DEF Heards
<1>5. /\ vad.active <=> n > 0 /\ InUtterance(h, n)
      /\ vad'.active <=> InUtterance(history', n + 1)
  <2>1. /\ vad.active <=> n > 0 /\ Detector!InUtterance(h, n)
        /\ vad'.active <=> n + 1 > 0 /\ Detector!InUtterance(history', n + 1)
    BY <1>4 DEF Assembling, Detector!Knows
  <2> QED BY <1>2, <2>1, SameFrames
<1>6. vad.active => \E s \in 1 .. n : Open(h, s) /\ utterance = SubSeq(frames, s, n)
  BY <1>2 DEF Assembling
<1>7. frames' \in Pcms /\ Len(frames') = n + 1
  BY <1>1, <1>2, <1>3, AppendProperties DEF Pcms
<1>8. /\ event = "SPEECH_START" <=> ~vad.active /\ vad'.active
      /\ event = "SPEECH_END" <=> vad.active /\ ~vad'.active
      /\ event = "SPEECH_CONTINUE" <=> vad.active /\ vad'.active
  <2>1. n + 1 \in Nat /\ (n + 1) - 1 = n /\ (n + 1 > 1 <=> n > 0) /\ (n > 0 => n \in 1 .. n)
    BY <1>2
  <2> HIDE DEF event, n, h
  <2>2. /\ event = "SPEECH_START" <=>
              ~(n + 1 > 1 /\ InUtterance(history', n)) /\ InUtterance(history', n + 1)
        /\ event = "SPEECH_END" <=>
              n + 1 > 1 /\ InUtterance(history', n) /\ ~InUtterance(history', n + 1)
        /\ event = "SPEECH_CONTINUE" <=>
              n + 1 > 1 /\ InUtterance(history', n) /\ InUtterance(history', n + 1)
    BY <1>4, <2>1, EventMeans
  <2>3. (n + 1 > 1 /\ InUtterance(history', n)) <=> vad.active
    BY <1>4, <1>5, <2>1
  <2> QED BY <1>5, <2>2, <2>3
<1>9. \A t \in Segments(h) : t[1] \in 1 .. n /\ t[2] \in 1 .. n
  BY DEF Segments
<1> HIDE DEF h, n, event, frame
<1>10. CASE event = "SPEECH_END"
  <2>1. PICK s \in 1 .. n : Open(h, s) /\ utterance = SubSeq(frames, s, n)
    BY <1>6, <1>8, <1>10
  <2>2. vad.active /\ ~vad'.active /\ pcm = Append(utterance, frame)
    BY <1>8, <1>10 DEF Appended
  <2>3. utterances' = Append(utterances, pcm)
    BY <1>1, <1>10 DEF Finalize, event, frame
  <2>4. /\ Segments(history') = Segments(h) \cup {<<s, n + 1>>}
        /\ \A t \in Segments(h) : t[1] < s
    BY <1>2, <1>4, <1>10, <2>1, SegmentsGrow DEF h, n
  <2>5. IsFiniteSet(Segments(h))
    BY <1>2, SegmentsFinite DEF h, n
  <2> HIDE DEF pcm
  <2>6. pcm = Append(SubSeq(frames, s, Len(frames)), frame) /\ pcm \in Pcms
    <3>1. Append(utterance, frame) \in Pcms
      BY <1>2, <1>3, AppendProperties DEF Pcms
    <3> QED BY <1>2, <2>1, <2>2, <3>1
  <2>7. Cut(Append(utterances, pcm), Segments(h) \cup {<<s, n + 1>>}, Append(frames, frame))
    BY <1>2, <1>3, <1>9, <2>4, <2>5, <2>6, CutGrow DEF Pcms
  <2>8. Cut(utterances', Segments(history'), frames')
    BY <1>1, <2>3, <2>4, <2>7 DEF frame
  <2>9. SegmentationCorrect'
    BY <2>8 DEF SegmentationCorrect, Cut, Rank
  <2> QED BY <1>4, <1>7, <2>2, <2>9 DEF Assembling
<1>11. CASE event # "SPEECH_END"
  <2>1. utterance' = pcm /\ utterances' = utterances
    BY <1>1, <1>11 DEF Keep, event, frame
  <2>2. Segments(history') = Segments(h)
    BY <1>2, <1>4, <1>11, SegmentsSame DEF h, n
  <2>3. Cut(utterances, Segments(h), Append(frames, frame))
    BY <1>2, <1>3, <1>9, CutSame DEF Pcms
  <2>4. SegmentationCorrect'
    <3>1. Cut(utterances', Segments(history'), frames')
      BY <1>1, <2>1, <2>2, <2>3 DEF frame
    <3> QED BY <3>1 DEF SegmentationCorrect, Cut, Rank
  <2>5. ASSUME vad'.active
        PROVE  \E s \in 1 .. n + 1 : Open(history', s) /\ utterance' = SubSeq(frames', s, n + 1)
    <3>1. /\ \A s : Open(h, s) => Open(history', s)
          /\ ~(n > 0 /\ InUtterance(h, n)) => Open(history', n + 1)
      <4>1. InUtterance(history', n + 1) /\ Len(h) = n
        BY <1>5, <2>5 DEF n
      <4> QED BY <1>2, <1>4, <4>1, OpenLater
    <3>2. /\ \A s \in 1 .. n : SubSeq(frames', s, n + 1) = Append(SubSeq(frames, s, n), frame)
          /\ SubSeq(frames', n + 1, n + 1) = <<frame>>
      BY <1>1, <1>2, <1>3, SubSeqGrow DEF Pcms, frame
    <3>3. CASE vad.active
      <4>1. PICK s \in 1 .. n : Open(h, s) /\ utterance = SubSeq(frames, s, n)
        BY <1>6, <3>3
      <4>2. pcm = Append(utterance, frame)
        BY <1>8, <2>5, <3>3 DEF Appended
      <4>3. s \in 1 .. n + 1
        BY <1>2
      <4> QED BY <2>1, <3>1, <3>2, <4>1, <4>2, <4>3
    <3>4. CASE ~vad.active
      <4>1. pcm = <<frame>>
        BY <1>8, <2>5, <3>4 DEF Appended
      <4>2. n + 1 \in 1 .. n + 1
        BY <1>2
      <4> QED BY <1>5, <2>1, <3>1, <3>2, <3>4, <4>1, <4>2
    <3> QED BY <3>3, <3>4
  <2> QED BY <1>4, <1>7, <2>4, <2>5 DEF Assembling
<1> QED BY <1>4, <1>7, <1>10, <1>11

\* Before the first start nothing was heard.
LEMMA SegmentInit == Init => SegmentInv
<1> SUFFICES ASSUME Init PROVE SegmentInv
  OBVIOUS
<1>1. /\ history = <<>> /\ frames = <<>> /\ utterances = <<>> /\ vad = VadIdle
  BY DEF Init
<1>2. SegmentationCorrect
  BY <1>1, NothingHeard, SegmentationIsCut
<1> QED BY <1>1, <1>2, NothingHeard, FileInit DEF SegmentInv, Assembling

\* Nothing but a frame of the ring moves the detector, the history and what is
\* cut out of it, while the process listens.
LEMMA SegmentStep == ASSUME SegmentInv, [Next]_vars PROVE SegmentInv'
<1> USE DEF environment, memory, record
<1>1. FileInv'
  BY FileStep DEF SegmentInv
<1> DEFINE Shown ==
      /\ history' \in Heards /\ frames' \in Pcms /\ Len(frames') = Len(history')
      /\ SegmentationCorrect' /\ (Listening' => Assembling')
<1> SUFFICES Shown
  BY <1>1 DEF SegmentInv
<1>2. ASSUME UNCHANGED <<frames, history, utterances>>,
             Listening' => Listening /\ UNCHANGED <<vad, utterance>>
      PROVE  Shown
  BY <1>2 DEF SegmentInv, SegmentationCorrect, Assembling
<1>3. CASE Launch
  <2>1. /\ history' = <<>> /\ frames' = <<>> /\ utterances' = <<>> /\ vad' = VadIdle
    BY <1>3 DEF Launch, NoMemory, NoRecord
  <2>2. SegmentationCorrect'
    <3>1. Cut(utterances', Segments(history'), frames')
      BY <2>1, NothingHeard
    <3> QED BY <3>1 DEF SegmentationCorrect, Cut, Rank
  <2> QED BY <2>1, <2>2, NothingHeard DEF Assembling
<1>4. CASE DrainFrame
  <2>1. CASE ClassifyFrame
    <3>1. Assembling /\ FrameReady
      BY <1>4 DEF DrainFrame, SegmentInv, Listening
    <3> QED BY <2>1, <3>1, ClassifySegments
  <2>2. CASE ClassifyFails
    BY <1>2, <2>2 DEF ClassifyFails, Listening
  <2> QED BY <1>4, <2>1, <2>2 DEF DrainFrame
<1>5. CASE Start \/ Loop \/ Read \/ DrainDone \/ SttIdle
  BY <1>2, <1>5 DEF Start, Loop, RunOnce, Read, ReadBytes, ReadNothing, ReadFails, DrainDone,
                    SttIdle, Listening
<1>6. CASE SttPost \/ Transcribed \/ TranscribeFails \/ Generate \/ Respond
  BY <1>2, <1>6 DEF SttPost, Transcribed, TranscribeFails, Generate, Respond, Listening
<1>7. CASE Stop \/ Discard \/ Exit \/ Crash
  BY <1>2, <1>7 DEF Stop, Discard, Exit, Crash, Listening
<1>8. CASE Emit \/ ChildDies \/ Signal \/ UNCHANGED vars
  BY <1>2, <1>8 DEF Emit, ChildDies, Signal, vars, Listening
<1> QED BY <1>3, <1>4, <1>5, <1>6, <1>7, <1>8 DEF Next, Main, Environment

\* Over any number of frames and starts, the utterances a run ended are the
\* segments of the stream its VAD heard, both ends included, each once and in
\* order (supervisor.c:166-210, vad_detector.c:104-145).
THEOREM UtterancesAreSegments == Spec => []SegmentationCorrect
<1>1. SegmentInv => SegmentationCorrect BY DEF SegmentInv
<1>2. Init => SegmentInv BY SegmentInit
<1>3. SegmentInv /\ [Next]_vars => SegmentInv' BY SegmentStep
<1> QED BY <1>1, <1>2, <1>3, PTL DEF Spec
=============================================================================
