-------------------------- MODULE SupervisorProofs --------------------------
(***************************************************************************)
(* For every size of the ring, the frames, the chunks and the queues, any  *)
(* number of samples and of starts of the process:                         *)
(*   - the daemon's memory keeps its types and capacities (TypeOK, which   *)
(*     is inductive);                                                      *)
(*   - what is posted under an id is the utterance of that id, or a part   *)
(*     of it if its file was damaged unnoticed: inductive with FileInv,    *)
(*     which says that every id that waits names a file with as much of    *)
(*     its utterance, and that no step writes or unlinks the file of an id *)
(*     that waits, because new ids are larger and the one taken is smaller *)
(*     than all of them;                                                   *)
(*   - at most one utterance is posted after a request to stop (SignalInv: *)
(*     none before the tick reaches the queue), and so the daemon is a     *)
(*     ServerCalls (CallsInOrder);                                         *)
(*   - with the proportions of supervisor.c:28 nothing is dropped          *)
(*     (RoomInv: less than a frame stays in the ring between ticks, at     *)
(*     most one job in a queue, none when the tick begins) and every       *)
(*     utterance is answered once and in order (AnswerInv: which of the    *)
(*     utterances were answered, are worked on and wait);                  *)
(*   - ticks, stops and ends are finite: what is ahead of main gets less   *)
(*     with each of its steps (TicksEnd, StopNears, EndNears).             *)
(***************************************************************************)
EXTENDS Supervisor, SequenceTheorems, TLAPS

-----------------------------------------------------------------------------
(* Sequences: what is taken from the front, and what is left.              *)

\* A sequence cut in two: what ring_buffer_read and pipe reads do to the bytes.
LEMMA TakeDrop ==
    ASSUME NEW S, NEW s \in Seq(S), NEW n \in 0 .. Len(s)
    PROVE  /\ SubSeq(s, 1, n) \in Seq(S) /\ Len(SubSeq(s, 1, n)) = n
           /\ SubSeq(s, n + 1, Len(s)) \in Seq(S)
           /\ Len(SubSeq(s, n + 1, Len(s))) = Len(s) - n
           /\ \A i \in 1 .. n : SubSeq(s, 1, n)[i] = s[i]
           /\ \A i \in 1 .. Len(s) - n : SubSeq(s, n + 1, Len(s))[i] = s[n + i]
<1>1. Len(s) \in Nat /\ \A i \in 1 .. Len(s) : s[i] \in S
  BY ElementOfSeq, LenProperties
<1>2. \A i \in 1 .. n : s[i] \in S
  BY <1>1
<1>3. \A i \in n + 1 .. Len(s) : s[i] \in S
  BY <1>1
<1>4. /\ SubSeq(s, 1, n) \in Seq(S) /\ Len(SubSeq(s, 1, n)) = n
      /\ \A i \in 1 .. n : SubSeq(s, 1, n)[i] = s[i]
  BY <1>1, <1>2, SubSeqProperties
<1>5. /\ SubSeq(s, n + 1, Len(s)) \in Seq(S)
      /\ Len(SubSeq(s, n + 1, Len(s))) = Len(s) - n
      /\ \A i \in 1 .. Len(s) - n : SubSeq(s, n + 1, Len(s))[i] = s[n + i]
  BY <1>1, <1>3, SubSeqProperties
<1> QED BY <1>4, <1>5

-----------------------------------------------------------------------------
(* Types.                                                                  *)

\* The assumptions on the constants, in one fact.
LEMMA Assumptions ==
    /\ FrameBytes \in Nat \ {0} /\ ChunkBytes \in Nat \ {0} /\ RingCapacity \in Nat
    /\ RingCapacity >= FrameBytes /\ QueueCapacity \in Nat \ {0} /\ PipeCapacity \in Nat
    /\ MaxSamples \in Nat /\ MaxRuns \in Nat /\ SilenceMs \in Nat \ {0}
BY SupervisorAssumption, SilenceAssumption

\* The detector's fields stay typed, and a frame raises a known event.
LEMMA VadStepType ==
    ASSUME NEW v \in [active : BOOLEAN, silence : Nat], NEW speech \in BOOLEAN
    PROVE  /\ VadStep(v, speech, FrameMs).vad \in [active : BOOLEAN, silence : Nat]
           /\ VadStep(v, speech, FrameMs).event \in VadEvents
<1>1. [v EXCEPT !.silence = @ + FrameMs] \in [active : BOOLEAN, silence : Nat]
  <2>1. v.silence + FrameMs \in Nat
    BY DEF FrameMs
  <2> QED BY <2>1, Zenon
<1>2. VadIdle \in [active : BOOLEAN, silence : Nat]
      /\ [active |-> TRUE, silence |-> 0] \in [active : BOOLEAN, silence : Nat]
  BY DEF VadIdle
<1> QED BY <1>1, <1>2, Zenon DEF VadStep, VadEvents

\* The empty sequence is a ring, a queue of ids and a queue of responses.
LEMMA EmptyTyped ==
    /\ <<>> \in Seq(Bytes) /\ <<>> \in Seq(Ids) /\ <<>> \in Seq(Responses)
    /\ Len(<<>>) = 0
BY EmptySeq, Zenon

\* The detector supervisor_init leaves is typed.
LEMMA VadIdleType == VadIdle \in [active : BOOLEAN, silence : Nat]
BY DEF VadIdle

\* 2 e - 1 and 2 e are byte numbers; so is the pair a sequence of them.
LEMMA SampleType ==
    ASSUME NEW e \in Nat \ {0}
    PROVE  <<2 * e - 1, 2 * e>> \in Seq(Bytes)
<1>1. 2 * e - 1 \in Bytes /\ 2 * e \in Bytes
  BY DEF Bytes
<1> QED BY ONLY <1>1

\* Before the first start everything is typed.
LEMMA TypeInit == Init => TypeOK
<1> SUFFICES ASSUME Init PROVE TypeOK
  OBVIOUS
<1>1. /\ pipe \in Seq(Bytes) /\ ring \in Seq(Bytes) /\ Len(ring) = 0
      /\ artifactQueue \in Seq(Ids) /\ Len(artifactQueue) = 0
      /\ responseQueue \in Seq(Responses) /\ Len(responseQueue) = 0
      /\ vad \in [active : BOOLEAN, silence : Nat]
  BY EmptyTyped, VadIdleType, Zenon DEF Init
<1>2. /\ pc = "off" /\ runs = 0 /\ state = "INIT" /\ shutdownRequested = FALSE
      /\ child = "none" /\ emitted = 0 /\ nextId = 0 /\ artifact = 0
  BY Zenon DEF Init
<1>3. runs \in 0 .. MaxRuns /\ emitted \in 0 .. MaxSamples
  BY <1>2, Assumptions
<1>4. Len(ring) <= RingCapacity
  BY <1>1, Assumptions
<1>5. Len(artifactQueue) <= QueueCapacity /\ Len(responseQueue) <= QueueCapacity
  BY <1>1, Assumptions
<1>6. pc \in Pcs /\ nextId \in Ids /\ artifact \in Ids
  BY <1>2 DEF Pcs, Ids
<1> QED BY <1>1, <1>2, <1>3, <1>4, <1>5, <1>6 DEF TypeOK

\* What is left of the memory of a process that is gone is typed.
LEMMA NoMemoryType ==
    ASSUME NoMemory
    PROVE  /\ ring' \in Seq(Bytes) /\ Len(ring') = 0
           /\ vad' \in [active : BOOLEAN, silence : Nat]
           /\ nextId' = 0 /\ artifact' = 0
           /\ artifactQueue' \in Seq(Ids) /\ Len(artifactQueue') = 0
           /\ responseQueue' \in Seq(Responses) /\ Len(responseQueue') = 0
BY EmptyTyped, VadIdleType, Zenon DEF NoMemory

\* Every step of the daemon and of its environment keeps the types.
LEMMA TypeStep == ASSUME TypeOK, [Next]_vars PROVE TypeOK'
<1> USE Assumptions DEF TypeOK, Pcs, Ids, environment, memory, record
<1>1. CASE Launch
  <2>1. /\ runs < MaxRuns /\ pc' = "start" /\ runs' = runs + 1 /\ state' = "READY"
        /\ shutdownRequested' = FALSE /\ NoMemory /\ UNCHANGED <<child, pipe, emitted>>
    BY <1>1 DEF Launch
  <2>2. runs' \in 0 .. MaxRuns
    BY <2>1
  <2>3. /\ Len(ring') <= RingCapacity
        /\ Len(artifactQueue') <= QueueCapacity /\ Len(responseQueue') <= QueueCapacity
    BY <2>1, NoMemoryType
  <2>4. pc' \in Pcs /\ nextId' \in Ids /\ artifact' \in Ids
    BY <2>1, NoMemoryType
  <2> QED BY <2>1, <2>2, <2>3, <2>4, NoMemoryType
<1>2. CASE Start BY <1>2 DEF Start
<1>3. CASE Loop BY <1>3 DEF Loop, RunOnce
<1>4. CASE Read
  <2>1. CASE ReadBytes
    <3>1. PICK n \in 1 .. Least(ChunkBytes, Len(pipe)) :
            /\ ring' = ring \o SubSeq(pipe, 1, Least(n, RingCapacity - Len(ring)))
            /\ pipe' = SubSeq(pipe, n + 1, Len(pipe))
            /\ pc' = "drain" /\ UNCHANGED child
      BY <2>1 DEF ReadBytes
    <3> DEFINE k == Least(n, RingCapacity - Len(ring))
    <3>2. Len(pipe) \in Nat /\ Len(ring) \in Nat
      BY LenProperties
    <3>3. n \in 0 .. Len(pipe) /\ k \in 0 .. Len(pipe) /\ k <= RingCapacity - Len(ring)
      BY <3>2 DEF Least
    <3> HIDE DEF k
    <3>4. SubSeq(pipe, 1, k) \in Seq(Bytes) /\ Len(SubSeq(pipe, 1, k)) = k
      BY <3>3, TakeDrop
    <3>5. pipe' \in Seq(Bytes)
      BY <3>1, <3>3, TakeDrop
    <3>6. ring' \in Seq(Bytes) /\ Len(ring') = Len(ring) + k
      <4>1. ring' = ring \o SubSeq(pipe, 1, k) /\ ring \in Seq(Bytes)
        BY <3>1 DEF k
      <4>2. /\ ring \o SubSeq(pipe, 1, k) \in Seq(Bytes)
            /\ Len(ring \o SubSeq(pipe, 1, k)) = Len(ring) + Len(SubSeq(pipe, 1, k))
        BY ONLY <3>4, <4>1, ConcatProperties, Zenon
      <4>3. ring' \in Seq(Bytes)
        BY ONLY <4>1, <4>2, Zenon
      <4>4. Len(ring') = Len(ring) + k
        BY ONLY <3>4, <4>1, <4>2
      <4> QED BY ONLY <4>3, <4>4
    <3>7. Len(ring') <= RingCapacity
      BY ONLY <3>2, <3>3, <3>6, Assumptions
    <3>8. pc' \in Pcs /\ UNCHANGED <<child, emitted, vad, utterance, nextId, artifactQueue, artifact,
                                   responseQueue, state, shutdownRequested, runs, disk, record,
                                   failures>>
      BY <1>4, <3>1 DEF Read
    <3> QED BY <3>5, <3>6, <3>7, <3>8
  <2>2. CASE ReadNothing BY <1>4, <2>2 DEF Read, ReadNothing
  <2>3. CASE ReadFails BY <1>4, <2>3 DEF Read, ReadFails
  <2> QED BY <1>4, <2>1, <2>2, <2>3 DEF Read
<1>5. CASE DrainFrame
  <2>1. Len(ring) \in Nat /\ FrameBytes <= Len(ring)
    BY <1>5, LenProperties DEF DrainFrame, FrameReady
  <2>2. ring' \in Seq(Bytes) /\ Len(ring') <= RingCapacity
    BY <1>5, <2>1, TakeDrop DEF DrainFrame
  <2>3. CASE ClassifyFrame
    <3>1. PICK speech \in BOOLEAN :
            /\ vad' = VadStep(vad, speech, FrameMs).vad
            /\ \/ \E pcm : Finalize(pcm)
               \/ \E pcm : Keep(pcm)
      BY <2>3, Zenon DEF ClassifyFrame
    <3>2. vad' \in [active : BOOLEAN, silence : Nat]
      BY <3>1, VadStepType
    <3>3. /\ nextId' \in Ids /\ artifactQueue' \in Seq(Ids)
          /\ Len(artifactQueue') <= QueueCapacity /\ pc' \in Pcs
      <4>1. CASE \E pcm : Keep(pcm) BY <4>1 DEF Keep
      <4>2. CASE \E pcm : Finalize(pcm)
        <5>1. Append(artifactQueue, nextId) \in Seq(Ids)
              /\ Len(Append(artifactQueue, nextId)) = Len(artifactQueue) + 1
          BY AppendProperties
        <5>2. Len(artifactQueue) \in Nat
          BY LenProperties
        <5>3. nextId' = nextId + 1
          BY <4>2 DEF Finalize
        <5>4. pc' \in {"drain", "stop"}
          BY <4>2 DEF Finalize
        <5>5. \/ artifactQueue' = artifactQueue
              \/ Len(artifactQueue) < QueueCapacity /\ artifactQueue' = Append(artifactQueue, nextId)
          <6>1. PICK pcm : Finalize(pcm) BY <4>2
          <6>2. \/ Len(artifactQueue) < QueueCapacity /\ artifactQueue' = Append(artifactQueue, nextId)
                \/ UNCHANGED <<artifactQueue, dropped>>
                \/ UNCHANGED artifactQueue
            BY <6>1 DEF Finalize
          <6> QED BY <6>2
        <5>6. artifactQueue' \in Seq(Ids)
          BY <5>1, <5>5, Zenon
        <5>8. Len(artifactQueue') <= QueueCapacity
          <6>1. CASE artifactQueue' = artifactQueue BY <6>1
          <6>2. CASE /\ Len(artifactQueue) < QueueCapacity
                     /\ Len(artifactQueue') = Len(artifactQueue) + 1
            BY <6>2, <5>2
          <6> QED BY <5>1, <5>5, <6>1, <6>2
        <5>7. nextId' \in Ids
          BY <5>3
        <5> QED BY <5>4, <5>6, <5>7, <5>8
      <4> QED BY <3>1, <4>1, <4>2
    <3> QED BY <1>5, <2>2, <3>2, <3>3 DEF DrainFrame
  <2>4. CASE ClassifyFails
    <3>1. vad' \in [active : BOOLEAN, silence : Nat]
      BY <2>4, VadStepType DEF ClassifyFails
    <3> QED BY <1>5, <2>2, <2>4, <3>1 DEF DrainFrame, ClassifyFails
  <2> QED BY <1>5, <2>3, <2>4 DEF DrainFrame
<1>6. CASE DrainDone BY <1>6 DEF DrainDone
<1>7. CASE SttIdle BY <1>7 DEF SttIdle
<1>8. CASE SttPost
  <2>1. /\ artifact' \in Ids /\ artifactQueue' \in Seq(Ids)
        /\ Len(artifactQueue') = Len(artifactQueue) - 1 /\ Len(artifactQueue) \in Nat
    BY <1>8, HeadTailProperties, LenProperties DEF SttPost
  <2> QED BY <1>8, <2>1 DEF SttPost
<1>9. CASE Transcribed BY <1>9 DEF Transcribed
<1>10. CASE TranscribeFails BY <1>10 DEF TranscribeFails
<1>11. CASE Generate
  <2>1. PICK fallback \in BOOLEAN :
          responseQueue' = SoftEnqueued(responseQueue, [id |-> artifact, fallback |-> fallback])
    BY <1>11 DEF Generate
  <2>2. /\ [id |-> artifact, fallback |-> fallback] \in Responses
        /\ Len(responseQueue) \in Nat
    BY LenProperties DEF Responses
  <2>3. /\ responseQueue' \in Seq(Responses)
        /\ Len(responseQueue') <= QueueCapacity
    BY <2>1, <2>2, AppendProperties DEF SoftEnqueued
  <2> QED BY <1>11, <2>3 DEF Generate
<1>12. CASE Respond
  <2>1. CASE responseQueue # <<>>
    <3>1. /\ Tail(responseQueue) \in Seq(Responses) /\ Len(responseQueue) \in Nat
          /\ Len(Tail(responseQueue)) = Len(responseQueue) - 1
      BY <2>1, HeadTailProperties, LenProperties
    <3>2. responseQueue' = Tail(responseQueue) /\ pc' = "loop"
      BY <1>12, <2>1 DEF Respond
    <3>3. responseQueue' \in Seq(Responses) /\ Len(responseQueue') <= QueueCapacity
      BY <3>1, <3>2
    <3>4. UNCHANGED <<runs, state, shutdownRequested, child, pipe, emitted, ring, vad, nextId,
                      artifactQueue, artifact>>
      BY <1>12 DEF Respond
    <3> QED BY <3>2, <3>3, <3>4
  <2>2. CASE responseQueue = <<>> BY <1>12, <2>2 DEF Respond
  <2> QED BY <2>1, <2>2
<1>13. CASE Stop
  <2>1. /\ state' = "STOPPING" /\ child' = "none" /\ pc' = "discard"
        /\ pipe' = <<>> /\ ring' = <<>>
    BY <1>13, Zenon DEF Stop
  <2>2. UNCHANGED <<runs, shutdownRequested, emitted, vad, nextId, artifactQueue, artifact,
                    responseQueue>>
    BY <1>13 DEF Stop
  <2>3. pipe' \in Seq(Bytes) /\ ring' \in Seq(Bytes) /\ Len(ring') = 0
    BY <2>1, EmptyTyped, Zenon
  <2> QED BY <2>1, <2>2, <2>3
<1>14. CASE Discard
  <2>1. /\ artifactQueue' \in Seq(Ids) /\ Len(artifactQueue) \in Nat
        /\ Len(artifactQueue') = Len(artifactQueue) - 1
    BY <1>14, HeadTailProperties, LenProperties DEF Discard
  <2> QED BY <1>14, <2>1 DEF Discard
<1>15. CASE Exit BY <1>15, NoMemoryType DEF Exit
<1>16. CASE Emit
  <2>1. emitted' \in 0 .. MaxSamples /\ emitted' >= 1
    BY <1>16 DEF Emit
  <2>2. <<2 * emitted' - 1, 2 * emitted'>> \in Seq(Bytes)
    <3>1. emitted' \in Nat \ {0}
      BY <2>1
    <3> QED BY ONLY <3>1, SampleType
  <2>3. pipe' \in Seq(Bytes)
    BY <1>16, <2>2, ConcatProperties DEF Emit
  <2> QED BY <1>16, <2>1, <2>3 DEF Emit
<1>17. CASE ChildDies BY <1>17 DEF ChildDies
<1>18. CASE Signal BY <1>18 DEF Signal
<1>19. CASE Crash
  <2>1. pipe' \in Seq(Bytes)
    BY <1>19, EmptyTyped, Zenon DEF Crash
  <2> QED BY <1>19, <2>1, NoMemoryType DEF Crash
<1>20. CASE UNCHANGED vars BY <1>20 DEF vars
<1> QED BY <1>1, <1>2, <1>3, <1>4, <1>5, <1>6, <1>7, <1>8, <1>9, <1>10, <1>11, <1>12,
           <1>13, <1>14, <1>15, <1>16, <1>17, <1>18, <1>19, <1>20 DEF Next, Main, Environment

\* The daemon's queues, ring and counters keep their types and never exceed
\* their capacities (supervisor.c), whatever sizes the constants have.
THEOREM DaemonTypes == Spec => []TypeOK
<1>1. Init => TypeOK BY TypeInit
<1>2. TypeOK /\ [Next]_vars => TypeOK' BY TypeStep
<1> QED BY <1>1, <1>2, PTL DEF Spec

-----------------------------------------------------------------------------
(* What is sent is the utterance.                                          *)

Pcms == Seq(Seq(Bytes))
Files == [id : Ids, pcm : Pcms]

\* The directory holds one of these contents, and no other, under this id.
Holds(files, id, pcms) ==
    /\ \E f \in files : f.id = id
    /\ \A f \in files : f.id = id => f.pcm \in pcms

\* The types of the data FileInv speaks about.
DataTyped ==
    /\ utterance \in Pcms
    /\ utterances \in Seq(Pcms)
    /\ disk \in SUBSET Files
    /\ posted \in Seq(Files)
    /\ damaged \in SUBSET Ids

\* Ids are given out in the order of the utterances, in one run; no file is damaged
\* before it is written.
Counted ==
    pc # "off" => Len(utterances) = nextId /\ \A id \in damaged : id < nextId

\* An id in the queue is the name of a file with the utterance of that id, or with
\* a part of it where the close lost data; the queue is in the order of the ids.
Queued ==
    /\ \A i \in 1 .. Len(artifactQueue) :
          /\ artifactQueue[i] < Len(utterances)
          /\ LET id == artifactQueue[i]
             IN  Holds(disk, id, Uploadable(utterances[id + 1], id \in damaged))
    /\ \A i, j \in 1 .. Len(artifactQueue) : i < j => artifactQueue[i] < artifactQueue[j]

\* So the file that goes after a transcription is none of those that wait.
Taken == pc = "transcribe" => \A i \in 1 .. Len(artifactQueue) : artifact < artifactQueue[i]

PostedOfRun == \A i \in 1 .. Len(posted) : posted[i].id < Len(utterances)

FileInv ==
    TypeOK /\ DataTyped /\ Counted /\ Queued /\ Taken /\ PostedOfRun /\ PostedIsUtterance

\* A write or an unlink of one name leaves the file of another alone.
LEMMA HoldsOthers ==
    ASSUME NEW files, NEW a, NEW b, NEW p, NEW q, a # b, Holds(files, a, p)
    PROVE  Holds(Saved(files, b, q), a, p) /\ Holds(Unlinked(files, b), a, p)
BY DEF Holds, Saved, Unlinked

\* A write that succeeds leaves that content, whatever the file held before.
LEMMA HoldsSaved ==
    ASSUME NEW files, NEW id, NEW pcm, NEW pcms, pcm \in pcms
    PROVE  Holds(Saved(files, id, pcm), id, pcms)
<1> DEFINE new == [id |-> id, pcm |-> pcm]
<1>1. new.id = id /\ new.pcm = pcm
  OBVIOUS
<1>2. Saved(files, id, pcm) = {f \in files : f.id # id} \cup {new}
  BY Zenon DEF Saved
<1> HIDE DEF new
<1> QED BY <1>1, <1>2, Zenon DEF Holds

\* What is uploaded is what the directory holds.
LEMMA HoldsContent ==
    ASSUME NEW files, NEW id, NEW pcms, Holds(files, id, pcms)
    PROVE  Content(files, id) \in pcms
BY DEF Holds, Content

\* A write and an unlink leave files of the known shape.
LEMMA SavedTyped ==
    ASSUME NEW files \in SUBSET Files, NEW id \in Ids, NEW pcm \in Pcms
    PROVE  Saved(files, id, pcm) \in SUBSET Files /\ Unlinked(files, id) \in SUBSET Files
BY DEF Saved, Unlinked, Files

\* A part of an utterance is made of frames.
LEMMA PartsTyped ==
    ASSUME NEW pcm \in Pcms
    PROVE  Parts(pcm) \subseteq Pcms
<1>1. ASSUME NEW n \in 0 .. Len(pcm) - 1
      PROVE  SubSeq(pcm, 1, n) \in Pcms
  <2>1. n \in 0 .. Len(pcm)
    BY LenProperties DEF Pcms
  <2> QED BY <2>1, TakeDrop DEF Pcms
<1> QED BY <1>1 DEF Parts

\* A file that was written is what may be uploaded for its utterance.
LEMMA WrittenHolds ==
    ASSUME NEW pcm, Written(pcm), nextId \notin damaged
    PROVE  /\ Holds(disk', nextId, Uploadable(pcm, nextId \in damaged'))
           /\ \A id : id # nextId => (id \in damaged' <=> id \in damaged)
<1>1. CASE disk' = Saved(disk, nextId, pcm) /\ UNCHANGED damaged
  BY <1>1, HoldsSaved DEF Uploadable
<1>2. CASE /\ \E part \in Parts(pcm) : disk' = Saved(disk, nextId, part)
           /\ damaged' = damaged \cup {nextId}
  BY <1>2, HoldsSaved DEF Uploadable
<1> QED BY <1>1, <1>2 DEF Written

\* The empty utterance, and the empty records.
LEMMA EmptyData == <<>> \in Pcms /\ <<>> \in Seq(Pcms) /\ <<>> \in Seq(Files)
BY EmptySeq, Zenon DEF Pcms

\* Before the first start nothing is queued or posted.
LEMMA FileInit == Init => FileInv
<1> SUFFICES ASSUME Init PROVE FileInv
  OBVIOUS
<1>1. /\ DataTyped /\ Len(artifactQueue) = 0 /\ Len(posted) = 0 /\ pc = "off"
  <2>1. disk \in SUBSET Files
    BY DEF Init
  <2> QED BY <2>1, EmptyData, EmptyTyped, Zenon DEF Init, DataTyped
<1>2. Queued /\ Taken /\ Counted /\ PostedOfRun /\ PostedIsUtterance
  BY <1>1 DEF Queued, Taken, Counted, PostedOfRun, PostedIsUtterance
<1> QED BY <1>1, <1>2, TypeInit DEF FileInv

\* A step that leaves the files, the queue and the record of the run alone, and
\* neither starts the process nor an upload.
LEMMA FileStutter ==
    ASSUME FileInv, pc' # "transcribe" \/ UNCHANGED <<pc, artifact>>,
           pc # "off" \/ pc' = "off",
           UNCHANGED <<utterance, nextId, artifactQueue, disk, utterances, damaged, posted>>
    PROVE  (DataTyped /\ Counted /\ Queued /\ Taken /\ PostedOfRun /\ PostedIsUtterance)'
BY DEF FileInv, DataTyped, Counted, Queued, Taken, PostedOfRun, PostedIsUtterance

\* Without a change of the utterances, only the files under other ids change:
\* the queue, or what is left of it, still names files that hold its utterances.
LEMMA FilesOfOthers ==
    ASSUME FileInv, NEW b \in Ids, UNCHANGED <<utterances, damaged>>,
           \/ UNCHANGED disk
           \/ disk' = Unlinked(disk, b),
           \/ /\ UNCHANGED artifactQueue
              /\ \A i \in 1 .. Len(artifactQueue) : b < artifactQueue[i]
           \/ /\ artifactQueue # <<>> /\ b = Head(artifactQueue)
              /\ artifactQueue' = Tail(artifactQueue)
    PROVE  /\ Queued'
           /\ disk' \in SUBSET Files
           /\ \A i \in 1 .. Len(artifactQueue') : b < artifactQueue'[i]
<1> DEFINE q == artifactQueue
           r == artifactQueue'
<1>1. q \in Seq(Ids) /\ Len(q) \in Nat
  BY LenProperties DEF FileInv, TypeOK
<1>2. \A i \in 1 .. Len(q) : q[i] \in Ids
  BY <1>1, ElementOfSeq
<1>3. PICK d \in {0, 1} :
        /\ Len(r) = Len(q) - d
        /\ \A i \in 1 .. Len(r) : r[i] = q[i + d] /\ i + d \in 1 .. Len(q)
        /\ \A i \in 1 .. Len(r) : b < r[i]
  <2>1. CASE UNCHANGED artifactQueue /\ \A i \in 1 .. Len(artifactQueue) : b < artifactQueue[i]
    <3>1. Len(r) = Len(q) - 0 /\ \A i \in 1 .. Len(r) : r[i] = q[i + 0] /\ i + 0 \in 1 .. Len(q)
      BY <1>1, <2>1
    <3> QED BY <2>1, <3>1
  <2>2. CASE artifactQueue # <<>> /\ b = Head(artifactQueue) /\ artifactQueue' = Tail(artifactQueue)
    <3>1. /\ Len(r) = Len(q) - 1 /\ Len(q) >= 1
          /\ \A i \in 1 .. Len(r) : r[i] = q[i + 1] /\ i + 1 \in 1 .. Len(q)
          /\ b = q[1]
      BY <1>1, <2>2, HeadTailProperties
    <3>2. \A i \in 1 .. Len(r) : b < r[i]
      BY <1>1, <3>1 DEF FileInv, Queued
    <3> QED BY <3>1, <3>2
  <2> QED BY <2>1, <2>2
<1> DEFINE kept(id) == Uploadable(utterances[id + 1], id \in damaged)
<1>4. \A i \in 1 .. Len(r) : Holds(disk', r[i], kept(r[i])) /\ r[i] < Len(utterances')
  <2> SUFFICES ASSUME NEW i \in 1 .. Len(r)
               PROVE  Holds(disk', r[i], kept(r[i])) /\ r[i] < Len(utterances')
    OBVIOUS
  <2>1. PICK j \in 1 .. Len(q) : r[i] = q[j]
    BY <1>3
  <2>2. Holds(disk, r[i], kept(r[i])) /\ r[i] < Len(utterances)
    BY <2>1 DEF FileInv, Queued
  <2>3. b # r[i]
    BY <1>2, <1>3, <2>1 DEF Ids
  <2> HIDE DEF kept
  <2> QED BY <2>2, <2>3, HoldsOthers
<1>5. \A i, j \in 1 .. Len(r) : i < j => r[i] < r[j]
  <2> SUFFICES ASSUME NEW i \in 1 .. Len(r), NEW j \in 1 .. Len(r), i < j
               PROVE  r[i] < r[j]
    OBVIOUS
  <2>1. i + d \in 1 .. Len(q) /\ j + d \in 1 .. Len(q) /\ i + d < j + d
    BY <1>1, <1>3
  <2>2. \A k, l \in 1 .. Len(q) : k < l => q[k] < q[l]
    BY DEF FileInv, Queued
  <2> HIDE DEF q, r
  <2> QED BY <1>3, <2>1, <2>2
<1>6. disk' \in SUBSET Files
  BY DEF FileInv, DataTyped, Unlinked
<1> QED BY <1>3, <1>4, <1>5, <1>6 DEF Queued

\* Utterance assembly yields a sequence of frames.
LEMMA AppendedTyped ==
    ASSUME NEW frame \in Seq(Bytes), utterance \in Pcms, NEW event, NEW wasActive
    PROVE  Appended(event, wasActive, frame) \in Pcms
<1>1. Append(utterance, frame) \in Pcms
  BY AppendProperties DEF Pcms
<1>2. <<frame>> \in Pcms
  BY DEF Pcms
<1> QED BY <1>1, <1>2, Zenon DEF Appended

\* An utterance ends: its file, if there is one, goes under a new id.
LEMMA FinalizeStep ==
    ASSUME FileInv, NEW pcm \in Pcms, Finalize(pcm), pc = "drain", UNCHANGED posted
    PROVE  (DataTyped /\ Counted /\ Queued /\ Taken /\ PostedOfRun /\ PostedIsUtterance)'
<1> DEFINE q == artifactQueue
<1>1. /\ utterances \in Seq(Pcms) /\ disk \in SUBSET Files /\ q \in Seq(Ids)
      /\ nextId \in Ids /\ Len(utterances) = nextId /\ Len(q) \in Nat
  BY LenProperties DEF FileInv, DataTyped, TypeOK, Counted
<1>2. /\ nextId' = nextId + 1 /\ utterances' = Append(utterances, pcm) /\ utterance' = <<>>
      /\ pc' \in {"drain", "stop"}
  BY DEF Finalize
<1>3. /\ utterances' \in Seq(Pcms) /\ Len(utterances') = nextId + 1
      /\ \A i \in 1 .. nextId : utterances'[i] = utterances[i]
      /\ utterances'[nextId + 1] = pcm
  BY <1>1, <1>2, AppendProperties
<1>4. \A i \in 1 .. Len(q) : q[i] \in Ids /\ q[i] < nextId
  BY <1>1, ElementOfSeq DEF FileInv, Queued
<1>5. \/ disk' = disk
      \/ \E p \in Pcms : disk' = Saved(disk, nextId, p)
      \/ disk' = Unlinked(disk, nextId)
  <2>1. pcm \in Pcms /\ Parts(pcm) \subseteq Pcms
    BY PartsTyped
  <2> QED BY <2>1 DEF Finalize, WriteFails, Written
<1>5a. \A id \in 0 .. nextId - 1 : id \in damaged' <=> id \in damaged
  <2>1. damaged' \in {damaged, damaged \cup {nextId}}
    BY DEF Finalize, Written
  <2> QED BY <1>1, <2>1 DEF Ids
<1>5b. \A id \in damaged' : id < nextId'
  <2>1. damaged' \in {damaged, damaged \cup {nextId}}
    BY DEF Finalize, Written
  <2>2. \A id \in damaged : id < nextId /\ id \in Ids
    BY DEF FileInv, Counted, DataTyped
  <2> QED BY <1>1, <1>2, <2>1, <2>2 DEF Ids
<1> DEFINE kept(id) == Uploadable(utterances[id + 1], id \in damaged)
           keptNow(id) == Uploadable(utterances'[id + 1], id \in damaged')
<1>5c. \A id \in 0 .. nextId - 1 : keptNow(id) = kept(id)
  <2> SUFFICES ASSUME NEW id \in 0 .. nextId - 1 PROVE keptNow(id) = kept(id)
    OBVIOUS
  <2>1. utterances'[id + 1] = utterances[id + 1]
    BY <1>1, <1>3 DEF Ids
  <2>2. id \in damaged' <=> id \in damaged
    BY <1>5a
  <2> QED BY <2>1, <2>2 DEF Uploadable
<1>6. disk' \in SUBSET Files
  BY <1>1, <1>5, SavedTyped
<1>7. \A i \in 1 .. Len(q) : Holds(disk', q[i], keptNow(q[i]))
  <2> SUFFICES ASSUME NEW i \in 1 .. Len(q)
               PROVE  Holds(disk', q[i], keptNow(q[i]))
    OBVIOUS
  <2>1. Holds(disk, q[i], kept(q[i]))
    BY DEF FileInv, Queued
  <2> HIDE DEF kept, keptNow
  <2>2. q[i] # nextId /\ q[i] \in 0 .. nextId - 1
    BY <1>1, <1>4 DEF Ids
  <2>3. keptNow(q[i]) = kept(q[i])
    BY <1>5c, <2>2
  <2> QED BY <1>5, <2>1, <2>2, <2>3, HoldsOthers
<1>8. Queued'
  <2>1. CASE UNCHANGED artifactQueue
    <3>1. \A i \in 1 .. Len(q) : q[i] < Len(utterances')
      BY <1>1, <1>3, <1>4 DEF Ids
    <3>2. \A i, j \in 1 .. Len(q) : i < j => q[i] < q[j]
      BY DEF FileInv, Queued
    <3> QED BY <1>7, <2>1, <3>1, <3>2 DEF Queued
  <2>2. CASE Written(pcm) /\ artifactQueue' = Append(artifactQueue, nextId)
    <3> DEFINE r == artifactQueue'
    <3>1. /\ Len(r) = Len(q) + 1
          /\ \A i \in 1 .. Len(q) : r[i] = q[i]
          /\ r[Len(q) + 1] = nextId
      BY <1>1, <2>2, AppendProperties
    <3>2. Holds(disk', nextId, keptNow(nextId))
      <4>1. nextId \notin damaged
        BY <1>1 DEF FileInv, Counted, DataTyped, Ids
      <4>2. Holds(disk', nextId, Uploadable(pcm, nextId \in damaged'))
        BY <2>2, <4>1, WrittenHolds
      <4> QED BY <1>3, <4>2
    <3> HIDE DEF r
    <3>3. \A i \in 1 .. Len(r) : i \in 1 .. Len(q) \/ i = Len(q) + 1
      BY <1>1, <3>1
    <3>4. \A i \in 1 .. Len(r) : r[i] < Len(utterances')
      BY <1>1, <1>3, <1>4, <3>1, <3>3 DEF Ids
    <3>5. \A i \in 1 .. Len(r) : Holds(disk', r[i], keptNow(r[i]))
      <4> HIDE DEF keptNow
      <4> QED BY <1>7, <3>1, <3>2, <3>3
    <3>6. \A i, j \in 1 .. Len(r) : i < j => r[i] < r[j]
      <4> SUFFICES ASSUME NEW i \in 1 .. Len(r), NEW j \in 1 .. Len(r), i < j
                   PROVE  r[i] < r[j]
        OBVIOUS
      <4>1. CASE j \in 1 .. Len(q)
        <5>1. i \in 1 .. Len(q)
          BY <1>1, <4>1
        <5> QED BY <3>1, <4>1, <5>1 DEF FileInv, Queued
      <4>2. CASE j = Len(q) + 1
        <5>1. i \in 1 .. Len(q)
          BY <1>1, <4>2
        <5> QED BY <1>4, <3>1, <4>2, <5>1
      <4> QED BY <3>3, <4>1, <4>2
    <3> QED BY <3>4, <3>5, <3>6 DEF Queued, r
  <2> QED BY <2>1, <2>2 DEF Finalize
<1>9. PostedOfRun' /\ PostedIsUtterance'
  <2> SUFFICES ASSUME NEW i \in 1 .. Len(posted)
               PROVE  /\ posted[i].id < Len(utterances')
                      /\ posted[i].pcm \in keptNow(posted[i].id)
    BY DEF PostedOfRun, PostedIsUtterance
  <2>1. posted[i].id \in Ids
    <3>1. posted[i] \in Files
      BY ElementOfSeq DEF FileInv, DataTyped
    <3> QED BY <3>1 DEF Files
  <2>2. posted[i].id < Len(utterances) /\ posted[i].pcm \in kept(posted[i].id)
    BY DEF FileInv, PostedOfRun, PostedIsUtterance
  <2> HIDE DEF kept, keptNow
  <2>3. posted[i].id \in 0 .. nextId - 1
    BY <1>1, <2>1, <2>2 DEF Ids
  <2>4. keptNow(posted[i].id) = kept(posted[i].id)
    BY <1>5c, <2>3
  <2>5. posted[i].id < Len(utterances')
    BY <1>1, <1>3, <2>3 DEF Ids
  <2> QED BY <2>2, <2>4, <2>5
<1>10. DataTyped'
  <2>1. damaged' \in SUBSET Ids
    BY <1>1 DEF Finalize, Written, FileInv, DataTyped
  <2> QED BY <1>2, <1>3, <1>6, <2>1, EmptyData DEF FileInv, DataTyped
<1>11. Counted' /\ Taken'
  BY <1>2, <1>3, <1>5b DEF Counted, Taken
<1> QED BY <1>8, <1>9, <1>10, <1>11

\* The upload of the head of the queue.
LEMMA PostStep ==
    ASSUME FileInv, SttPost
    PROVE  /\ Len(posted') = Len(posted) + 1
           /\ \A i \in 1 .. Len(posted) : posted'[i] = posted[i]
           /\ posted'[Len(posted) + 1].id = artifact'
           /\ (DataTyped /\ Counted /\ Queued /\ Taken /\ PostedOfRun /\ PostedIsUtterance)'
<1> DEFINE id == Head(artifactQueue)
<1>1. /\ artifactQueue # <<>> /\ artifact' = id /\ artifactQueue' = Tail(artifactQueue)
      /\ posted' = Append(posted, [id |-> artifact', pcm |-> Content(disk, artifact')])
      /\ pc = "stt" /\ pc' = "transcribe"
      /\ UNCHANGED <<utterance, utterances, damaged, disk, nextId>>
  BY DEF SttPost
<1>2. artifactQueue \in Seq(Ids) /\ posted \in Seq(Files) /\ utterances \in Seq(Pcms)
  BY DEF FileInv, TypeOK, DataTyped
<1>3. 1 \in 1 .. Len(artifactQueue) /\ id = artifactQueue[1] /\ id \in Ids
  BY <1>1, <1>2, HeadTailProperties, LenProperties
<1> DEFINE kept(k) == Uploadable(utterances[k + 1], k \in damaged)
<1>4. id < Len(utterances) /\ Holds(disk, id, kept(id))
  BY <1>3 DEF FileInv, Queued
<1>5. Content(disk, id) \in kept(id) /\ Content(disk, id) \in Pcms
  <2>1. id + 1 \in 1 .. Len(utterances)
    BY <1>2, <1>3, <1>4, LenProperties DEF Ids
  <2>2. utterances[id + 1] \in Pcms
    BY <1>2, <2>1, ElementOfSeq
  <2>3. kept(id) \subseteq Pcms
    BY <2>2, PartsTyped DEF Uploadable
  <2>4. Content(disk, id) \in kept(id)
    <3> HIDE DEF kept, id
    <3> QED BY <1>4, HoldsContent
  <2> QED BY <2>3, <2>4
<1> DEFINE post == [id |-> id, pcm |-> Content(disk, id)]
<1>6. post \in Files /\ post.id = id /\ post.pcm \in kept(id)
  BY <1>3, <1>5 DEF Files
<1>7. /\ posted' \in Seq(Files) /\ Len(posted') = Len(posted) + 1 /\ Len(posted) \in Nat
      /\ \A i \in 1 .. Len(posted) : posted'[i] = posted[i]
      /\ posted'[Len(posted) + 1] = post
  <2>1. posted' = Append(posted, post)
    BY <1>1, Zenon
  <2> HIDE DEF post
  <2> QED BY <1>2, <1>6, <2>1, AppendProperties, LenProperties
<1>8. PostedOfRun' /\ PostedIsUtterance'
  <2> HIDE DEF post, id
  <2> SUFFICES ASSUME NEW i \in 1 .. Len(posted')
               PROVE  /\ posted'[i].id < Len(utterances)
                      /\ posted'[i].pcm \in kept(posted'[i].id)
    BY <1>1 DEF PostedOfRun, PostedIsUtterance
  <2>1. CASE i \in 1 .. Len(posted)
    BY <1>7, <2>1 DEF FileInv, PostedOfRun, PostedIsUtterance
  <2> HIDE DEF kept
  <2>2. CASE i = Len(posted) + 1
    BY <1>4, <1>6, <1>7, <2>2
  <2> QED BY <1>7, <2>1, <2>2
<1>9. Queued' /\ Taken'
  BY <1>1, <1>3, FilesOfOthers DEF Taken
<1>10. DataTyped' /\ Counted'
  BY <1>1, <1>7 DEF FileInv, DataTyped, Counted
<1> QED BY <1>1, <1>6, <1>7, <1>8, <1>9, <1>10

\* Every step keeps FileInv: the writes and unlinks touch no file that is needed.
LEMMA FileStep == ASSUME FileInv, [Next]_vars PROVE FileInv'
<1> USE DEF environment, memory, record
<1>1. TypeOK'
  BY TypeStep DEF FileInv
<1> SUFFICES (DataTyped /\ Counted /\ Queued /\ Taken /\ PostedOfRun /\ PostedIsUtterance)'
  BY <1>1 DEF FileInv
<1>2. CASE Launch
  <2>1. /\ Len(artifactQueue') = 0 /\ Len(posted') = 0 /\ Len(utterances') = 0
        /\ nextId' = 0 /\ pc' = "start" /\ UNCHANGED disk
        /\ utterance' \in Pcms /\ utterances' \in Seq(Pcms) /\ posted' \in Seq(Files)
        /\ damaged' = {}
    BY <1>2, EmptyData, EmptyTyped, Zenon DEF Launch, NoMemory, NoRecord
  <2>2. DataTyped' /\ Counted' /\ Taken'
    BY <2>1 DEF FileInv, DataTyped, Counted, Taken
  <2>3. Queued' /\ PostedOfRun' /\ PostedIsUtterance'
    BY <2>1 DEF Queued, PostedOfRun, PostedIsUtterance
  <2> QED BY <2>2, <2>3
<1>3. CASE Start BY <1>3, FileStutter DEF Start
<1>4. CASE Loop BY <1>4, FileStutter DEF Loop, RunOnce
<1>5. CASE Read BY <1>5, FileStutter DEF Read, ReadBytes, ReadNothing, ReadFails
<1>6. CASE DrainFrame
  <2>1. pc = "drain" /\ UNCHANGED posted /\ Len(ring) \in Nat /\ FrameBytes \in 0 .. Len(ring)
    BY <1>6, Assumptions, LenProperties DEF DrainFrame, FrameReady, FileInv, TypeOK
  <2>2. CASE ClassifyFrame
    <3> DEFINE frame == SubSeq(ring, 1, FrameBytes)
    <3>1. frame \in Seq(Bytes)
      BY <2>1, TakeDrop DEF FileInv, TypeOK
    <3>2. PICK speech \in BOOLEAN :
            LET step == VadStep(vad, speech, FrameMs)
                pcm == Appended(step.event, vad.active, frame)
            IN  IF step.event = "SPEECH_END" THEN Finalize(pcm) ELSE Keep(pcm)
      BY <2>2, Zenon DEF ClassifyFrame
    <3> DEFINE pcm == Appended(VadStep(vad, speech, FrameMs).event, vad.active, frame)
    <3>3. pcm \in Pcms
      BY <3>1, AppendedTyped, Zenon DEF FileInv, DataTyped
    <3> HIDE DEF frame
    <3>4. Finalize(pcm) \/ Keep(pcm)
      BY <3>2, Zenon
    <3> HIDE DEF pcm
    <3>5. CASE Finalize(pcm) BY <2>1, <3>3, <3>5, FinalizeStep
    <3>6. CASE Keep(pcm)
      BY <2>1, <3>3, <3>6
         DEF Keep, FileInv, DataTyped, Counted, Queued, Taken, PostedOfRun, PostedIsUtterance
    <3> QED BY <3>4, <3>5, <3>6
  <2>3. CASE ClassifyFails BY <2>1, <2>3, FileStutter DEF ClassifyFails
  <2> QED BY <1>6, <2>2, <2>3 DEF DrainFrame
<1>7. CASE DrainDone BY <1>7, FileStutter DEF DrainDone
<1>8. CASE SttIdle BY <1>8, FileStutter DEF SttIdle
<1>9. CASE SttPost BY <1>9, PostStep
<1>10. CASE Transcribed
  <2>1. /\ pc = "transcribe" /\ pc' = "generate" /\ artifact \in Ids
        /\ UNCHANGED <<utterance, nextId, artifactQueue, utterances, damaged, posted>>
        /\ UNCHANGED disk \/ disk' = Unlinked(disk, artifact)
    BY <1>10 DEF Transcribed, Unlink, FileInv, TypeOK
  <2>2. Queued' /\ disk' \in SUBSET Files
    BY <2>1, FilesOfOthers DEF FileInv, Taken
  <2> QED BY <2>1, <2>2
          DEF FileInv, DataTyped, Counted, Taken, PostedOfRun, PostedIsUtterance
<1>11. CASE TranscribeFails BY <1>11, FileStutter DEF TranscribeFails
<1>12. CASE Generate BY <1>12, FileStutter DEF Generate
<1>13. CASE Respond BY <1>13, FileStutter DEF Respond
<1>14. CASE Stop BY <1>14, FileStutter DEF Stop
<1>15. CASE Discard
  <2>1. /\ pc = "discard" /\ UNCHANGED <<pc, utterance, nextId, utterances, damaged, posted>>
        /\ artifactQueue # <<>> /\ artifactQueue' = Tail(artifactQueue)
        /\ UNCHANGED disk \/ disk' = Unlinked(disk, Head(artifactQueue))
    BY <1>15 DEF Discard, Unlink
  <2>2. Head(artifactQueue) \in Ids
    BY <2>1, HeadTailProperties DEF FileInv, TypeOK
  <2>3. Queued' /\ disk' \in SUBSET Files
    BY <2>1, <2>2, FilesOfOthers
  <2> QED BY <2>1, <2>3
          DEF FileInv, DataTyped, Counted, Taken, PostedOfRun, PostedIsUtterance
<1>16. CASE Exit \/ Crash
  <2>1. /\ pc' = "off" /\ UNCHANGED <<utterances, disk, damaged, posted>>
        /\ Len(artifactQueue') = 0 /\ utterance' \in Pcms
    BY <1>16, EmptyData, EmptyTyped, Zenon DEF Exit, Crash, NoMemory
  <2> QED BY <2>1
          DEF FileInv, DataTyped, Counted, Queued, Taken, PostedOfRun, PostedIsUtterance
<1>17. CASE Emit BY <1>17, FileStutter DEF Emit
<1>18. CASE ChildDies BY <1>18, FileStutter DEF ChildDies
<1>19. CASE Signal BY <1>19, FileStutter DEF Signal
<1>20. CASE UNCHANGED vars BY <1>20, FileStutter DEF vars
<1> QED
  BY <1>2, <1>3, <1>4, <1>5, <1>6, <1>7, <1>8, <1>9, <1>10, <1>11, <1>12, <1>13, <1>14, <1>15,
     <1>16, <1>17, <1>18, <1>19, <1>20 DEF Next, Main, Environment

\* What the STT server is sent under an id is the utterance that got the id in
\* this run (finalize_utterance, process_stt_queue), whole unless its own file was
\* damaged unnoticed when it was closed, and then a part of that utterance; through
\* crashes, failed writes, failed unlinks and files of earlier runs under the same
\* names.
THEOREM PostedUtterances == Spec => []PostedIsUtterance
<1>1. FileInv => PostedIsUtterance
  BY DEF FileInv
<1> QED BY <1>1, FileInit, FileStep, PTL DEF Spec

-----------------------------------------------------------------------------
(* A request to stop.                                                      *)

\* Until the tick has looked at the queue nothing more was sent.
SignalInv ==
    /\ FileInv
    /\ postsAtSignal \in Nat
    /\ OnePostAfterSignal
    /\ pc \in {"read", "drain", "stt"} /\ shutdownRequested => Len(posted) <= postsAtSignal

\* There is no request before the first start.
LEMMA SignalInit == Init => SignalInv
<1> SUFFICES ASSUME Init PROVE SignalInv
  OBVIOUS
<1>1. pc = "off" /\ shutdownRequested = FALSE /\ postsAtSignal = 0
  BY Zenon DEF Init
<1> QED BY <1>1, FileInit DEF SignalInv, OnePostAfterSignal

\* Only SttPost posts, and the loop ends before another tick begins.
LEMMA SignalStep == ASSUME SignalInv, [Next]_vars PROVE SignalInv'
<1> USE DEF environment, memory, record
<1>1. FileInv' /\ Len(posted) \in Nat
  BY FileStep, LenProperties DEF SignalInv, FileInv, DataTyped
<1> SUFFICES /\ postsAtSignal' \in Nat
             /\ OnePostAfterSignal'
             /\ (pc \in {"read", "drain", "stt"} /\ shutdownRequested
                    => Len(posted) <= postsAtSignal)'
  BY <1>1 DEF SignalInv
<1> USE DEF SignalInv, OnePostAfterSignal
<1>2. CASE Launch
  <2>1. shutdownRequested' = FALSE /\ postsAtSignal' = 0
    BY <1>2 DEF Launch, NoRecord
  <2> QED BY <2>1
<1>3. CASE SttPost
  <2>1. Len(posted') = Len(posted) + 1
    BY <1>3, PostStep
  <2> QED BY <1>1, <1>3, <2>1 DEF SttPost
<1>4. CASE Signal BY <1>1, <1>4 DEF Signal
<1>5. CASE Start \/ Loop BY <1>5 DEF Start, Loop, RunOnce
<1>6. CASE Read \/ DrainFrame \/ DrainDone
  <2>1. pc \in {"read", "drain"} /\ UNCHANGED <<shutdownRequested, posted, postsAtSignal>>
    BY <1>6 DEF Read, DrainFrame, DrainDone
  <2> QED BY <2>1
<1>7. CASE \/ SttIdle \/ Transcribed \/ TranscribeFails \/ Generate \/ Respond
           \/ Stop \/ Discard \/ Exit \/ Crash
  <2>1. /\ pc' \in {"respond", "generate", "stop", "loop", "discard", "off"}
        /\ UNCHANGED <<shutdownRequested, posted, postsAtSignal>>
    BY <1>7 DEF SttIdle, Transcribed, TranscribeFails, Generate, Respond, Stop, Discard, Exit, Crash
  <2> QED BY <2>1
<1>8. CASE Emit \/ ChildDies \/ UNCHANGED vars BY <1>8 DEF Emit, ChildDies, vars
<1> QED BY <1>2, <1>3, <1>4, <1>5, <1>6, <1>7, <1>8 DEF Next, Main, Environment

\* After SIGINT or SIGTERM at most one more utterance goes to the servers,
\* wherever in the tick the signal came (main.c:78).
THEOREM StopsPosting == Spec => []OnePostAfterSignal
<1>1. SignalInv => OnePostAfterSignal
  BY DEF SignalInv
<1> QED BY <1>1, SignalInit, SignalStep, PTL DEF Spec

-----------------------------------------------------------------------------
(* The two calls.                                                          *)

\* A step that neither posts nor is a signal is a move between two stages.
LEMMA MoveStep ==
    ASSUME UNCHANGED <<shutdownRequested, posted, postsAtSignal>>,
           NEW from, NEW to, Stage = from, Stage' = to,
           from = to \/ <<from, to>> \in {<<"starting", "idle">>, <<"starting", "stopping">>,
                           <<"transcribing", "answering">>, <<"transcribing", "stopping">>,
                           <<"answering", "idle">>, <<"idle", "stopping">>, <<"stopping", "off">>}
    PROVE  [Calls!Next]_Calls!vars
<1>1. Uploads' = Uploads
  BY DEF Uploads
<1>2. from = to => UNCHANGED <<Stage, shutdownRequested, Uploads>>
  BY <1>1
<1>3. from # to => Calls!Started \/ Calls!Transcribed \/ Calls!Answered \/ Calls!StopBegins
                   \/ Calls!Stopped
  BY <1>1 DEF Calls!Started, Calls!Transcribed, Calls!Answered, Calls!StopBegins,
              Calls!Stopped, Calls!Move
<1> QED BY <1>2, <1>3 DEF Calls!Next, Calls!vars

\* Every step of the daemon is a step of ServerCalls, or none.
LEMMA CallsStep == ASSUME SignalInv, SignalInv', [Next]_vars PROVE [Calls!Next]_Calls!vars
<1>0. Len(posted) \in Nat /\ Len(posted') \in Nat /\ postsAtSignal \in Nat
  BY LenProperties DEF SignalInv, FileInv, DataTyped
<1> USE DEF Stage
<1>1. CASE Launch
  <2>1. Stage = "off" /\ Stage' = "starting" /\ shutdownRequested' = FALSE /\ Uploads' = 0
    BY <1>1 DEF Launch, Uploads
  <2> QED BY <2>1 DEF Calls!Next, Calls!Launch
<1>2. CASE SttPost
  <2>1. Len(posted') = Len(posted) + 1 /\ UNCHANGED <<shutdownRequested, postsAtSignal>>
    BY <1>2, PostStep DEF SignalInv, SttPost
  <2>2. Uploads' = IF shutdownRequested THEN Uploads + 1 ELSE Uploads
    BY <1>0, <2>1 DEF Uploads
  <2>3. Uploads' <= 1
    BY <1>0, <2>1 DEF Uploads, SignalInv, OnePostAfterSignal
  <2>4. Stage = "idle" /\ Stage' = "transcribing"
    BY <1>2 DEF SttPost
  <2> QED BY <2>1, <2>2, <2>3, <2>4 DEF Calls!Next, Calls!Upload
<1>3. CASE Signal
  <2>1. Stage # "off" /\ UNCHANGED Stage /\ ~shutdownRequested /\ shutdownRequested' = TRUE
    BY <1>3 DEF Signal
  <2>2. Uploads = 0 /\ Uploads' = 0
    BY <1>0, <1>3, <2>1 DEF Signal, Uploads, record
  <2> QED BY <2>1, <2>2 DEF Calls!Next, Calls!Ask
<1>4. CASE Crash
  <2>1. Stage # "off" /\ Stage' = "off" /\ UNCHANGED <<shutdownRequested, posted, postsAtSignal>>
    BY <1>4 DEF Crash, record, SignalInv, FileInv, TypeOK, Pcs
  <2> QED BY <2>1 DEF Calls!Next, Calls!Crash, Uploads
<1>5. CASE Start \/ Loop
  <2>1. /\ \/ (pc = "start" /\ pc' \in {"loop", "stop"})
           \/ (pc = "loop" /\ pc' \in {"read", "stop"})
        /\ UNCHANGED <<shutdownRequested, posted, postsAtSignal>>
    BY <1>5 DEF Start, Loop, RunOnce, record
  <2> QED BY <2>1, MoveStep
<1>6. CASE Read \/ DrainFrame \/ DrainDone
  <2>1. /\ pc \in {"read", "drain"} /\ pc' \in {"drain", "stt", "stop"}
        /\ UNCHANGED <<shutdownRequested, posted, postsAtSignal>>
    BY <1>6 DEF Read, ReadBytes, ReadNothing, ReadFails, DrainFrame, ClassifyFrame,
                ClassifyFails, Finalize, Keep, DrainDone, record
  <2> QED BY <2>1, MoveStep
<1>7. CASE SttIdle \/ Transcribed \/ TranscribeFails \/ Generate \/ Respond
  <2>1. /\ \/ (pc = "stt" /\ pc' = "respond")
           \/ (pc = "transcribe" /\ pc' \in {"generate", "stop"})
           \/ (pc = "generate" /\ pc' = "respond")
           \/ (pc = "respond" /\ pc' = "loop")
        /\ UNCHANGED <<shutdownRequested, posted, postsAtSignal>>
    BY <1>7 DEF SttIdle, Transcribed, TranscribeFails, Generate, Respond, record
  <2> QED BY <2>1, MoveStep
<1>8. CASE Stop \/ Discard \/ Exit
  <2>1. /\ \/ pc = "stop" /\ pc' = "discard"
           \/ pc = "discard" /\ pc' \in {"discard", "off"}
        /\ UNCHANGED <<shutdownRequested, posted, postsAtSignal>>
    BY <1>8 DEF Stop, Discard, Exit, record
  <2> QED BY <2>1, MoveStep
<1>9. CASE Emit \/ ChildDies \/ UNCHANGED vars
  <2>1. UNCHANGED <<pc, shutdownRequested, posted, postsAtSignal>>
    BY <1>9 DEF Emit, ChildDies, vars, record
  <2> QED BY <2>1, MoveStep
<1> QED BY <1>1, <1>2, <1>3, <1>4, <1>5, <1>6, <1>7, <1>8, <1>9 DEF Next, Main, Environment

\* The safety part of CallsSpec: the daemon makes its two calls as ServerCalls
\* says (supervisor.c:330-390), which Services, where the calls have an inside,
\* implements too.
THEOREM CallsInOrder == Spec => Calls!SafeSpec
<1>1. Init => Calls!Init
  BY DEF Init, Calls!Init, Stage, Uploads
<1> QED BY <1>1, SignalInit, SignalStep, CallsStep, PTL DEF Spec, Calls!SafeSpec

-----------------------------------------------------------------------------
(* Nothing is dropped.                                                     *)

\* The proportions of supervisor.c:15-28: a chunk is no longer than a frame (the
\* static assert makes them equal), and the ring has room for it beside what is
\* left of a frame.
Proportions ==
    /\ ChunkBytes <= FrameBytes
    /\ FrameBytes - 1 + ChunkBytes <= RingCapacity

\* Between two drains less than a frame stays in the ring; so a drain finds at
\* most one frame, and after it none.
RingRoom ==
    /\ pc \notin {"drain", "stop"} => Len(ring) < FrameBytes
    /\ pc = "drain" => Len(ring) < FrameBytes + ChunkBytes

\* An utterance that frame ended is taken from its queue in the same tick, and
\* so is the response.
QueuesServed ==
    /\ pc \in {"off", "start", "loop", "read", "transcribe", "generate", "respond"}
          => Len(artifactQueue) = 0
    /\ pc = "drain" /\ FrameReady => Len(artifactQueue) = 0
    /\ Len(artifactQueue) <= 1
    /\ pc # "respond" => Len(responseQueue) = 0
    /\ Len(responseQueue) <= 1

RoomInv == TypeOK /\ RingRoom /\ QueuesServed

\* The ring and the queues start empty.
LEMMA RoomInit == Init => RoomInv
<1> SUFFICES ASSUME Init PROVE RoomInv
  OBVIOUS
<1>1. pc = "off" /\ Len(ring) = 0 /\ Len(artifactQueue) = 0 /\ Len(responseQueue) = 0
  BY EmptyTyped, Zenon DEF Init
<1>2. RingRoom /\ QueuesServed
  BY <1>1, Assumptions DEF RingRoom, QueuesServed
<1> QED BY <1>2, TypeInit DEF RoomInv

\* A tick takes from the ring and from the queues what it put there; that is so
\* whether the ring has room for the chunk or cuts it.
LEMMA RoomStep == ASSUME ChunkBytes <= FrameBytes, RoomInv, [Next]_vars PROVE RoomInv'
<1> USE Assumptions DEF environment, memory, record
<1>1. /\ TypeOK' /\ pc \in Pcs
      /\ Len(ring) \in Nat /\ Len(ring') \in Nat
      /\ artifactQueue \in Seq(Ids) /\ responseQueue \in Seq(Responses)
      /\ Len(artifactQueue) \in Nat /\ Len(artifactQueue') \in Nat
      /\ Len(responseQueue) \in Nat /\ Len(responseQueue') \in Nat
  BY TypeStep, LenProperties DEF RoomInv, TypeOK
<1> SUFFICES RingRoom' /\ QueuesServed'
  BY <1>1 DEF RoomInv
<1> USE <1>1 DEF RoomInv, RingRoom, QueuesServed, FrameReady
\* The steps that leave the ring and the queues alone, by where they lead.
<1>2. ASSUME UNCHANGED <<ring, artifactQueue, responseQueue>>,
             \/ UNCHANGED pc
             \/ pc \in {"start", "loop", "read", "transcribe", "generate"} /\ pc' = "stop"
             \/ pc = "start" /\ pc' = "loop"
             \/ pc = "loop" /\ pc' = "read"
             \/ pc = "read" /\ pc' = "drain"
             \/ pc = "drain" /\ ~FrameReady /\ pc' = "stt"
             \/ pc = "stt" /\ Len(artifactQueue) = 0 /\ pc' = "respond"
             \/ pc = "transcribe" /\ pc' = "generate"
      PROVE  RingRoom' /\ QueuesServed'
  BY <1>2
<1>3. CASE Launch \/ Exit \/ Crash
  <2>1. /\ Len(ring') = 0 /\ Len(artifactQueue') = 0 /\ Len(responseQueue') = 0
        /\ pc' \in {"off", "start"}
    BY <1>3, NoMemoryType DEF Launch, Exit, Crash
  <2> QED BY <2>1
<1>4. CASE Start \/ Loop BY <1>2, <1>4 DEF Start, Loop, RunOnce
<1>5. CASE Read
  <2>1. CASE ReadBytes
    <3>1. PICK n \in 1 .. Least(ChunkBytes, Len(pipe)) :
            ring' = ring \o SubSeq(pipe, 1, Least(n, RingCapacity - Len(ring)))
      BY <2>1 DEF ReadBytes
    <3> DEFINE k == Least(n, RingCapacity - Len(ring))
    <3>2. Len(pipe) \in Nat /\ pipe \in Seq(Bytes) /\ ring \in Seq(Bytes) /\ Len(ring) <= RingCapacity
      BY LenProperties DEF TypeOK
    <3>3. k \in 0 .. Len(pipe) /\ k <= ChunkBytes
      BY <3>2 DEF Least
    <3> HIDE DEF k
    <3>4. Len(ring') = Len(ring) + k
      BY <3>1, <3>2, <3>3, TakeDrop, ConcatProperties DEF k
    <3>5. /\ pc = "read" /\ pc' = "drain" /\ UNCHANGED <<artifactQueue, responseQueue>>
      BY <1>5, <2>1 DEF Read, ReadBytes
    <3> QED BY <3>3, <3>4, <3>5
  <2>2. CASE ReadNothing \/ ReadFails BY <1>2, <1>5, <2>2 DEF Read, ReadNothing, ReadFails
  <2> QED BY <1>5, <2>1, <2>2 DEF Read
<1>6. CASE DrainFrame
  <2>1. Len(ring') = Len(ring) - FrameBytes /\ Len(ring') < FrameBytes
    <3>1. FrameBytes \in 0 .. Len(ring) /\ pc = "drain" /\ ring \in Seq(Bytes)
      BY <1>6 DEF DrainFrame, TypeOK
    <3>2. ring' = SubSeq(ring, FrameBytes + 1, Len(ring))
      BY <1>6 DEF DrainFrame
    <3> QED BY <3>1, <3>2, TakeDrop
  <2>2. Len(artifactQueue) = 0 /\ Len(responseQueue) = 0 /\ UNCHANGED responseQueue
    BY <1>6 DEF DrainFrame
  <2>3. pc' \in {"drain", "stop"} /\ Len(artifactQueue') <= 1
    <3>1. CASE ClassifyFails BY <2>2, <3>1 DEF ClassifyFails
    <3>2. CASE ClassifyFrame
      <4>1. PICK pcm : Finalize(pcm) \/ Keep(pcm)
        BY <3>2 DEF ClassifyFrame
      <4>2. pc' \in {"drain", "stop"}
        BY <4>1 DEF Finalize, Keep
      <4>3. artifactQueue' = artifactQueue \/ artifactQueue' = Append(artifactQueue, nextId)
        BY <4>1 DEF Finalize, Keep
      <4>4. Len(Append(artifactQueue, nextId)) = Len(artifactQueue) + 1
        BY AppendProperties DEF TypeOK
      <4> QED BY <2>2, <4>2, <4>3, <4>4
    <3> QED BY <1>6, <3>1, <3>2 DEF DrainFrame
  <2> QED BY <2>1, <2>2, <2>3
<1>7. CASE DrainDone BY <1>2, <1>7 DEF DrainDone
<1>8. CASE SttIdle
  <2>1. Len(artifactQueue) = 0
    BY <1>8, EmptyTyped, Zenon DEF SttIdle
  <2> QED BY <1>2, <1>8, <2>1 DEF SttIdle
<1>9. CASE SttPost
  <2>1. Len(artifactQueue') = Len(artifactQueue) - 1
    BY <1>9, HeadTailProperties DEF SttPost
  <2> QED BY <1>9, <2>1 DEF SttPost
<1>10. CASE Transcribed \/ TranscribeFails BY <1>2, <1>10 DEF Transcribed, TranscribeFails
<1>11. CASE Generate
  <2>1. PICK fallback \in BOOLEAN :
          responseQueue' = SoftEnqueued(responseQueue, [id |-> artifact, fallback |-> fallback])
    BY <1>11 DEF Generate
  <2>2. [id |-> artifact, fallback |-> fallback] \in Responses
    BY DEF Responses, TypeOK
  <2>3. Len(responseQueue') <= Len(responseQueue) + 1
    BY <2>1, <2>2, AppendProperties DEF SoftEnqueued
  <2>4. pc = "generate" /\ pc' = "respond" /\ UNCHANGED <<ring, artifactQueue>>
    BY <1>11 DEF Generate
  <2> QED BY <2>3, <2>4
<1>12. CASE Respond
  <2>1. Len(responseQueue') = 0
    <3>1. CASE responseQueue # <<>>
      <4>1. Len(responseQueue') = Len(responseQueue) - 1
        BY <1>12, <3>1, HeadTailProperties DEF Respond
      <4>2. Len(responseQueue) <= 1 /\ Len(responseQueue) \in Nat /\ Len(responseQueue') \in Nat
        OBVIOUS
      <4> QED BY ONLY <4>1, <4>2
    <3>2. CASE responseQueue = <<>>
      BY <1>12, <3>2, EmptyTyped, Zenon DEF Respond
    <3> QED BY <3>1, <3>2
  <2>2. pc = "respond" /\ pc' = "loop" /\ UNCHANGED <<ring, artifactQueue>>
    BY <1>12 DEF Respond
  <2> QED BY <2>1, <2>2
<1>13. CASE Stop
  <2>1. Len(ring') = 0
    BY <1>13, EmptyTyped, Zenon DEF Stop
  <2> QED BY <1>13, <2>1 DEF Stop
<1>14. CASE Discard
  <2>1. Len(artifactQueue') = Len(artifactQueue) - 1
    BY <1>14, HeadTailProperties DEF Discard
  <2> QED BY <1>14, <2>1 DEF Discard
<1>15. CASE Emit \/ ChildDies \/ Signal \/ UNCHANGED vars
  BY <1>2, <1>15 DEF Emit, ChildDies, Signal, vars
<1> QED BY <1>3, <1>4, <1>5, <1>6, <1>7, <1>8, <1>9, <1>10, <1>11, <1>12, <1>13, <1>14, <1>15
        DEF Next, Main, Environment

\* With those proportions a chunk always fits the ring, and both queues are
\* empty when a job for them comes: neither the ring nor the queues, of any
\* capacity, ever drop anything (supervisor.c:16, 28, 149, 260).
THEOREM NothingDropped == ASSUME Proportions PROVE Spec => []NoOverflow
<1>1. ASSUME RoomInv PROVE NoOverflow
  <2>1. pc = "read" => Len(ring) + ChunkBytes <= RingCapacity
    <3>1. Len(ring) \in Nat
      BY <1>1, LenProperties DEF RoomInv, TypeOK
    <3> QED BY <1>1, <3>1, Assumptions DEF Proportions, RoomInv, RingRoom
  <2>2. pc = "drain" /\ FrameReady => artifactQueue = <<>>
    BY <1>1, EmptySeq DEF RoomInv, QueuesServed, TypeOK
  <2>3. pc = "generate" => responseQueue = <<>>
    BY <1>1, EmptySeq DEF RoomInv, QueuesServed, TypeOK
  <2> QED BY <2>1, <2>2, <2>3 DEF NoOverflow
<1>2. RoomInv => NoOverflow
  BY <1>1
<1>3. RoomInv /\ [Next]_vars => RoomInv'
  BY RoomStep DEF Proportions
<1> QED BY <1>2, <1>3, RoomInit, PTL DEF Spec

-----------------------------------------------------------------------------
(* Every utterance is answered, in order.                                  *)

\* Of the utterances of this run that ended, the first ones were posted and the
\* next one waits; of those posted the first ones were answered, the next one
\* is being worked on or its response waits.
Numbered ==
    pc \notin {"off", "stop", "discard"} =>
        /\ Len(utterances) = Len(posted) + Len(artifactQueue)
        /\ Len(posted) = Len(answered) + Len(responseQueue)
                         + (IF pc \in {"transcribe", "generate"} THEN 1 ELSE 0)
        /\ \A i \in 1 .. Len(posted) : posted[i].id = i - 1
        /\ \A i \in 1 .. Len(answered) : answered[i].id = i - 1
        /\ Len(artifactQueue) = 1 => artifactQueue[1] = Len(posted)
        /\ Len(responseQueue) = 1 => responseQueue[1].id = Len(answered)
        /\ pc \in {"transcribe", "generate"} => artifact = Len(answered)

AnswerInv == FileInv /\ RoomInv /\ answered \in Seq(Responses) /\ Numbered

\* Nothing was heard before the first start.
LEMMA AnswerInit == Init => AnswerInv
<1> SUFFICES ASSUME Init PROVE AnswerInv
  OBVIOUS
<1>1. answered \in Seq(Responses)
  BY EmptyTyped, Zenon DEF Init
<1>2. Numbered
  BY DEF Init, Numbered
<1> QED BY <1>1, <1>2, FileInit, RoomInit DEF AnswerInv

\* An utterance moves on from queue to server to queue to answer, never passed.
LEMMA AnswerStep == ASSUME Proportions, AnswerInv, [Next]_vars PROVE AnswerInv'
<1> USE DEF environment, memory, record
<1>1. FileInv' /\ RoomInv'
  BY FileStep, RoomStep DEF AnswerInv, Proportions
<1>2. /\ artifactQueue \in Seq(Ids) /\ responseQueue \in Seq(Responses)
      /\ answered \in Seq(Responses) /\ posted \in Seq(Files) /\ utterances \in Seq(Pcms)
      /\ artifact \in Ids
  BY DEF AnswerInv, FileInv, TypeOK, DataTyped
<1>3. /\ Len(artifactQueue) \in Nat /\ Len(responseQueue) \in Nat /\ Len(answered) \in Nat
      /\ Len(posted) \in Nat /\ Len(utterances) \in Nat
  BY <1>2, LenProperties
<1>4. QueuesServed
  BY DEF AnswerInv, RoomInv
<1> SUFFICES answered' \in Seq(Responses) /\ Numbered'
  BY <1>1 DEF AnswerInv
<1> USE <1>2, <1>3, <1>4 DEF AnswerInv
<1>5. ASSUME UNCHANGED <<utterances, posted, answered, artifactQueue, artifact, responseQueue>>,
             \/ UNCHANGED pc
             \/ pc' \in {"off", "stop", "discard"}
             \/ /\ pc \in {"start", "loop", "read", "drain", "stt"}
                /\ pc' \notin {"transcribe", "generate"}
             \/ pc = "transcribe" /\ pc' = "generate"
      PROVE  answered' \in Seq(Responses) /\ Numbered'
  BY <1>5 DEF Numbered
<1>6. ASSUME UNCHANGED answered, pc' \in {"off", "stop", "discard"}
      PROVE  answered' \in Seq(Responses) /\ Numbered'
  BY <1>6 DEF Numbered
<1>7. CASE Launch
  <2>1. /\ Len(utterances') = 0 /\ Len(posted') = 0 /\ Len(answered') = 0
        /\ Len(artifactQueue') = 0 /\ Len(responseQueue') = 0 /\ pc' = "start"
        /\ answered' \in Seq(Responses)
    BY <1>7, EmptyTyped, Zenon DEF Launch, NoMemory, NoRecord
  <2> QED BY <2>1 DEF Numbered
<1>8. CASE Start \/ Loop BY <1>5, <1>8 DEF Start, Loop, RunOnce
<1>9. CASE Read BY <1>5, <1>9 DEF Read, ReadBytes, ReadNothing, ReadFails
<1>10. CASE DrainFrame
  <2>1. /\ pc = "drain" /\ UNCHANGED <<posted, answered, artifact, responseQueue>>
        /\ Len(artifactQueue) = 0
    BY <1>10 DEF DrainFrame, QueuesServed
  <2>2. CASE ClassifyFails BY <1>6, <2>1, <2>2 DEF ClassifyFails
  <2>3. CASE ClassifyFrame
    <3>1. PICK pcm : Finalize(pcm) \/ Keep(pcm)
      BY <2>3 DEF ClassifyFrame
    <3>2. CASE Keep(pcm) BY <1>5, <2>1, <3>2 DEF Keep
    <3>3. CASE Finalize(pcm) /\ pc' = "stop" BY <1>6, <2>1, <3>3
    <3>4. CASE Finalize(pcm) /\ pc' # "stop"
      <4>1. pc' = "drain" /\ nextId' = nextId + 1 /\ artifactQueue' = Append(artifactQueue, nextId)
        BY <2>1, <3>4, Assumptions DEF Finalize
      <4>2. /\ Len(utterances') = nextId' /\ Len(utterances) = nextId
        BY <1>1, <2>1, <4>1 DEF FileInv, Counted
      <4>3. Len(artifactQueue') = 1 /\ artifactQueue'[1] = nextId
        BY <2>1, <4>1, AppendProperties DEF FileInv, TypeOK
      <4>4. Len(utterances') = Len(utterances) + 1
        BY <4>1, <4>2
      <4> QED BY <2>1, <4>1, <4>2, <4>3, <4>4 DEF Numbered
    <3> QED BY <3>1, <3>2, <3>3, <3>4
  <2> QED BY <1>10, <2>2, <2>3 DEF DrainFrame
<1>11. CASE DrainDone \/ SttIdle
  <2>1. pc \in {"drain", "stt"} /\ pc' \in {"stt", "respond"}
    BY <1>11 DEF DrainDone, SttIdle
  <2> QED BY <1>5, <1>11, <2>1 DEF DrainDone, SttIdle
<1>12. CASE SttPost
  <2>1. /\ pc = "stt" /\ pc' = "transcribe" /\ UNCHANGED <<utterances, answered, responseQueue>>
        /\ artifact' = artifactQueue[1] /\ Len(artifactQueue) >= 1
        /\ Len(artifactQueue') = Len(artifactQueue) - 1
    BY <1>12, HeadTailProperties DEF SttPost
  <2>2. /\ Len(artifactQueue) = 1 /\ Len(artifactQueue') = 0 /\ Len(responseQueue) = 0
        /\ artifact' = Len(posted) /\ Len(posted) = Len(answered)
    BY <2>1 DEF QueuesServed, Numbered
  <2>3. /\ Len(posted') = Len(posted) + 1
        /\ \A i \in 1 .. Len(posted) : posted'[i] = posted[i]
        /\ posted'[Len(posted) + 1].id = artifact'
    BY <1>12, PostStep
  <2>4. \A i \in 1 .. Len(posted') : posted'[i].id = i - 1
    <3> SUFFICES ASSUME NEW i \in 1 .. Len(posted')
                 PROVE  posted'[i].id = i - 1
      OBVIOUS
    <3>1. CASE i \in 1 .. Len(posted) BY <2>1, <2>3, <3>1 DEF Numbered
    <3>2. CASE i = Len(posted) + 1 BY <2>2, <2>3, <3>2
    <3> QED BY <2>3, <3>1, <3>2
  <2> QED BY <2>1, <2>2, <2>3, <2>4 DEF Numbered
<1>13. CASE Transcribed BY <1>5, <1>13 DEF Transcribed
<1>14. CASE TranscribeFails BY <1>6, <1>14 DEF TranscribeFails
<1>15. CASE Generate
  <2>1. /\ pc = "generate" /\ pc' = "respond" /\ UNCHANGED <<utterances, posted, answered, artifactQueue>>
        /\ Len(responseQueue) = 0
    BY <1>15 DEF Generate, QueuesServed
  <2>2. PICK fallback \in BOOLEAN :
          responseQueue' = SoftEnqueued(responseQueue, [id |-> artifact, fallback |-> fallback])
    BY <1>15 DEF Generate
  <2> DEFINE response == [id |-> artifact, fallback |-> fallback]
  <2>3. response \in Responses /\ response.id = artifact
    BY DEF Responses
  <2>4. responseQueue' = Append(responseQueue, response)
    BY <2>1, <2>2, Assumptions DEF SoftEnqueued
  <2> HIDE DEF response
  <2>5. Len(responseQueue') = 1 /\ responseQueue'[1] = response
    BY <2>1, <2>3, <2>4, AppendProperties
  <2> QED BY <2>1, <2>3, <2>5 DEF Numbered
<1>16. CASE Respond
  <2>1. pc = "respond" /\ pc' = "loop" /\ UNCHANGED <<utterances, posted, artifactQueue, artifact>>
    BY <1>16 DEF Respond
  <2>2. CASE responseQueue = <<>> /\ UNCHANGED <<answered, responseQueue>>
    BY <2>1, <2>2 DEF Numbered
  <2>3. CASE /\ responseQueue # <<>> /\ responseQueue' = Tail(responseQueue)
             /\ answered' = Append(answered, Head(responseQueue))
    <3>1. /\ Head(responseQueue) = responseQueue[1] /\ Head(responseQueue) \in Responses
          /\ Len(responseQueue') = Len(responseQueue) - 1 /\ Len(responseQueue) >= 1
      BY <2>3, HeadTailProperties
    <3>2. Len(responseQueue) = 1 /\ Len(responseQueue') = 0
      BY <3>1 DEF QueuesServed
    <3>3. /\ answered' \in Seq(Responses) /\ Len(answered') = Len(answered) + 1
          /\ \A i \in 1 .. Len(answered) : answered'[i] = answered[i]
          /\ answered'[Len(answered) + 1] = responseQueue[1]
      BY <2>3, <3>1, AppendProperties
    <3>4. \A i \in 1 .. Len(answered') : answered'[i].id = i - 1
      <4> SUFFICES ASSUME NEW i \in 1 .. Len(answered')
                   PROVE  answered'[i].id = i - 1
        OBVIOUS
      <4>1. CASE i \in 1 .. Len(answered) BY <2>1, <3>3, <4>1 DEF Numbered
      <4>2. CASE i = Len(answered) + 1 BY <2>1, <3>2, <3>3, <4>2 DEF Numbered
      <4> QED BY <3>3, <4>1, <4>2
    <3> QED BY <2>1, <3>2, <3>3, <3>4 DEF Numbered
  <2> QED BY <1>16, <2>2, <2>3 DEF Respond
<1>17. CASE Stop \/ Discard \/ Exit \/ Crash
  <2>1. pc' \in {"discard", "off"} /\ UNCHANGED answered
    BY <1>17 DEF Stop, Discard, Exit, Crash
  <2> QED BY <1>6, <2>1
<1>18. CASE Emit \/ ChildDies \/ Signal \/ UNCHANGED vars
  BY <1>5, <1>18 DEF Emit, ChildDies, Signal, vars
<1> QED BY <1>7, <1>8, <1>9, <1>10, <1>11, <1>12, <1>13, <1>14, <1>15, <1>16, <1>17, <1>18
        DEF Next, Main, Environment

\* With those proportions every utterance that ended was, when the tick is over,
\* posted once and answered once, in order (process_stt_queue,
\* drain_llm_response_queue).
THEOREM AllAnswered == ASSUME Proportions PROVE Spec => []AnsweredInOrder
<1>1. ASSUME AnswerInv PROVE AnsweredInOrder
  <2> SUFFICES ASSUME pc = "loop"
               PROVE  /\ Len(posted) = Len(utterances) /\ Len(answered) = Len(utterances)
                      /\ \A i \in 1 .. Len(utterances) :
                            posted[i].id = i - 1 /\ answered[i].id = i - 1
    BY DEF AnsweredInOrder
  <2>1. Len(artifactQueue) = 0 /\ Len(responseQueue) = 0
    BY <1>1 DEF AnswerInv, RoomInv, QueuesServed
  <2>2. Len(posted) \in Nat /\ Len(answered) \in Nat
    BY <1>1, LenProperties DEF AnswerInv, FileInv, DataTyped
  <2> QED BY <1>1, <2>1, <2>2 DEF AnswerInv, Numbered
<1>2. AnswerInv => AnsweredInOrder
  BY <1>1
<1>3. AnswerInv /\ [Next]_vars => AnswerInv'
  BY AnswerStep
<1> QED BY <1>2, <1>3, AnswerInit, PTL DEF Spec
-----------------------------------------------------------------------------
(* How far the end is.  That the daemon stops, and that a tick ends, needs *)
(* fairness; that no path there is endless does not.  Each step of main    *)
(* but the read takes it nearer to the end of its tick, by a measure that  *)
(* nobody else raises (TicksEnd).  After a request there is one read at    *)
(* the most (StopNears); after the child's death every read takes a byte   *)
(* off the pipe or is the last one (EndNears).                             *)

\* The places of main, in the order in which it comes to them after a read.
Place ==
    CASE pc = "off" -> 0
      [] pc = "discard" -> 1
      [] pc = "stop" -> 2
      [] pc = "read" -> 3
      [] pc = "loop" -> 4
      [] pc \in {"start", "respond"} -> 5
      [] pc = "generate" -> 6
      [] pc = "transcribe" -> 7
      [] pc = "stt" -> 8
      [] pc = "drain" -> 9

\* No fewer than the steps main can take before it reads again or is off: jobs may
\* have to be discarded, and a frame is one step and may add a job.
Ahead == Place + Len(artifactQueue) + (IF pc = "drain" THEN 2 * Len(ring) ELSE 0)
Tick == 9 + 2 * RingCapacity + QueueCapacity

TicksEnd ==
    pc # "off" => \/ pc = "read" /\ Main
                  \/ Ahead' <= Ahead /\ (Main => Ahead' < Ahead)

ToStop == Ahead + (IF pc = "read" THEN Tick ELSE 0)
StopNears ==
    shutdownRequested /\ pc # "off" =>
        shutdownRequested' /\ ToStop' <= ToStop /\ (Main => ToStop' < ToStop)

Ending == {"stop", "discard", "off"}
Doomed == child = "dead" \/ pc \in Ending
ToEnd == Ahead + (IF pc \in Ending THEN 0 ELSE Tick * Len(pipe))
EndNears ==
    Doomed /\ pc # "off" => Doomed' /\ ToEnd' <= ToEnd /\ (Main => ToEnd' < ToEnd)

\* The parts of the measure, and its bound; and the same of the next state.
LEMMA Lengths ==
    ASSUME TypeOK
    PROVE  /\ Len(artifactQueue) \in Nat /\ Len(artifactQueue) <= QueueCapacity
           /\ Len(ring) \in Nat /\ Len(ring) <= RingCapacity
           /\ Len(pipe) \in Nat /\ Tick \in Nat /\ Place \in 0 .. 9
           /\ Ahead \in Nat /\ Ahead <= Tick
           /\ Ahead = Place + Len(artifactQueue) + (IF pc = "drain" THEN 2 * Len(ring) ELSE 0)
<1>1. Len(artifactQueue) \in Nat /\ Len(ring) \in Nat /\ Len(pipe) \in Nat
  BY LenProperties DEF TypeOK
<1>2. Len(artifactQueue) <= QueueCapacity /\ Len(ring) <= RingCapacity
  BY DEF TypeOK
<1>3. Place \in 0 .. 9
  BY DEF TypeOK, Place, Pcs
<1>4. Ahead = Place + Len(artifactQueue) + (IF pc = "drain" THEN 2 * Len(ring) ELSE 0)
  BY DEF Ahead
<1> DEFINE due == IF pc = "drain" THEN 2 * Len(ring) ELSE 0
<1>5. due \in Nat /\ due <= 2 * RingCapacity
  BY <1>1, <1>2, Assumptions
<1>6. Ahead \in Nat /\ Ahead <= Tick
  <2>1. Ahead = Place + Len(artifactQueue) + due
    BY <1>4
  <2>2. RingCapacity \in Nat /\ QueueCapacity \in Nat
    BY Assumptions
  <2> HIDE DEF due
  <2> QED BY <1>1, <1>2, <1>3, <1>5, <2>1, <2>2 DEF Tick
<1>7. Tick \in Nat
  BY Assumptions DEF Tick
<1> QED BY <1>1, <1>2, <1>3, <1>4, <1>6, <1>7

LEMMA LengthsNext ==
    ASSUME TypeOK'
    PROVE  /\ Len(artifactQueue') \in Nat /\ Len(artifactQueue') <= QueueCapacity
           /\ Len(ring') \in Nat /\ Len(ring') <= RingCapacity
           /\ Len(pipe') \in Nat /\ Tick \in Nat /\ Place' \in 0 .. 9
           /\ Ahead' \in Nat /\ Ahead' <= Tick
           /\ Ahead' = Place' + Len(artifactQueue') + (IF pc' = "drain" THEN 2 * Len(ring') ELSE 0)
<1>1. Len(artifactQueue') \in Nat /\ Len(ring') \in Nat /\ Len(pipe') \in Nat
  BY LenProperties DEF TypeOK
<1>2. Len(artifactQueue') <= QueueCapacity /\ Len(ring') <= RingCapacity
  BY DEF TypeOK
<1>3. Place' \in 0 .. 9
  BY DEF TypeOK, Place, Pcs
<1>4. Ahead' = Place' + Len(artifactQueue') + (IF pc' = "drain" THEN 2 * Len(ring') ELSE 0)
  BY DEF Ahead
<1> DEFINE due == IF pc' = "drain" THEN 2 * Len(ring') ELSE 0
<1>5. due \in Nat /\ due <= 2 * RingCapacity
  BY <1>1, <1>2, Assumptions
<1>6. Ahead' \in Nat /\ Ahead' <= Tick
  <2>1. Ahead' = Place' + Len(artifactQueue') + due
    BY <1>4
  <2>2. RingCapacity \in Nat /\ QueueCapacity \in Nat
    BY Assumptions
  <2> HIDE DEF due
  <2> QED BY <1>1, <1>2, <1>3, <1>5, <2>1, <2>2 DEF Tick
<1>7. Tick \in Nat
  BY Assumptions DEF Tick
<1> QED BY <1>1, <1>2, <1>3, <1>4, <1>6, <1>7

\* A step of main that only goes on, or takes a job.
LEMMA GoesOn ==
    ASSUME TypeOK, TypeOK', pc \notin {"read", "drain"}, pc' # "drain", Place' <= Place,
           \/ Place' < Place /\ artifactQueue' = artifactQueue
           \/ artifactQueue # <<>> /\ artifactQueue' = Tail(artifactQueue)
           \/ Place' < Place /\ artifactQueue' = <<>>
    PROVE  Ahead' < Ahead
<1>1. Len(artifactQueue) \in Nat /\ Place \in 0 .. 9 /\ Place' \in 0 .. 9
  BY Lengths, LengthsNext
<1>2. Len(artifactQueue') \in Nat /\ Len(artifactQueue') <= Len(artifactQueue)
      /\ (artifactQueue # <<>> /\ artifactQueue' = Tail(artifactQueue)
            => Len(artifactQueue') < Len(artifactQueue))
  <2>1. artifactQueue # <<>> => Len(Tail(artifactQueue)) = Len(artifactQueue) - 1
    BY HeadTailProperties DEF TypeOK
  <2>2. Len(<<>>) = 0
    OBVIOUS
  <2> QED BY <1>1, <2>1, <2>2, LengthsNext
<1>3. Ahead = Place + Len(artifactQueue) /\ Ahead' = Place' + Len(artifactQueue')
  <2>1. pc # "drain" /\ pc' # "drain"
    OBVIOUS
  <2> QED BY <1>1, <1>2, <2>1 DEF Ahead
<1> QED BY <1>1, <1>2, <1>3

\* Main's steps, one by one.
LEMMA MainNears == ASSUME TypeOK, TypeOK', Main, pc # "read" PROVE Ahead' < Ahead
<1> USE DEF memory
<1>1. CASE Start BY <1>1, GoesOn DEF Start, Place
<1>2. CASE Loop BY <1>2, GoesOn DEF Loop, RunOnce, Place
<1>3. CASE Read BY <1>3 DEF Read
<1>4. CASE DrainFrame
  <2>1. /\ pc = "drain" /\ pc' \in {"drain", "stop"} /\ Len(ring) >= FrameBytes
        /\ ring' = SubSeq(ring, FrameBytes + 1, Len(ring))
    BY <1>4 DEF DrainFrame, FrameReady, ClassifyFrame, ClassifyFails, Finalize, Keep
  <2>2. Len(ring') = Len(ring) - FrameBytes
    BY <2>1, TakeDrop, Assumptions, Lengths DEF TypeOK
  <2>3. \/ artifactQueue' = artifactQueue
        \/ artifactQueue' = Append(artifactQueue, nextId)
    BY <1>4 DEF DrainFrame, ClassifyFrame, ClassifyFails, Finalize, Keep
  <2>4. Len(artifactQueue') <= Len(artifactQueue) + 1
    <3>1. artifactQueue \in Seq(Ids) /\ nextId \in Ids /\ Len(artifactQueue) \in Nat
      BY Lengths DEF TypeOK
    <3> QED BY ONLY <2>3, <3>1, AppendProperties
  <2>5. Place = 9 /\ Place' <= 9 /\ Ahead = 9 + Len(artifactQueue) + 2 * Len(ring)
    BY <2>1 DEF Place, Ahead
  <2>6. Ahead' <= 9 + Len(artifactQueue') + 2 * Len(ring')
    <3>1. /\ Ahead' = Place' + Len(artifactQueue') + (IF pc' = "drain" THEN 2 * Len(ring') ELSE 0)
          /\ Place' \in Nat /\ Place' <= 9 /\ Len(artifactQueue') \in Nat /\ Len(ring') \in Nat
      BY <2>5, LengthsNext
    <3> QED BY ONLY <3>1
  <2>7. /\ Len(artifactQueue') \in Nat /\ Len(artifactQueue) \in Nat /\ Len(ring) \in Nat
        /\ Len(ring') \in Nat /\ FrameBytes \in Nat \ {0} /\ Ahead' \in Nat
    BY Lengths, LengthsNext, Assumptions
  <2> QED BY ONLY <2>2, <2>4, <2>5, <2>6, <2>7
<1>5. CASE DrainDone
  <2>1. pc = "drain" /\ pc' = "stt" /\ artifactQueue' = artifactQueue
    BY <1>5 DEF DrainDone
  <2> QED BY <2>1, Lengths DEF Ahead, Place
<1>6. CASE SttIdle BY <1>6, GoesOn DEF SttIdle, Place
<1>7. CASE SttPost BY <1>7, GoesOn DEF SttPost, Place
<1>8. CASE Transcribed \/ TranscribeFails BY <1>8, GoesOn DEF Transcribed, TranscribeFails, Place
<1>9. CASE Generate BY <1>9, GoesOn DEF Generate, Place
<1>10. CASE Respond BY <1>10, GoesOn DEF Respond, Place
<1>11. CASE Stop BY <1>11, GoesOn DEF Stop, Place
<1>12. CASE Discard BY <1>12, GoesOn DEF Discard, Place
<1>13. CASE Exit BY <1>13, GoesOn DEF Exit, NoMemory, Place
<1> QED BY <1>1, <1>2, <1>3, <1>4, <1>5, <1>6, <1>7, <1>8, <1>9, <1>10, <1>11, <1>12, <1>13
        DEF Main

\* No step of the others takes main back; a crash ends it.
LEMMA OthersNear ==
    ASSUME TypeOK, TypeOK', Environment \/ UNCHANGED vars, pc # "off"
    PROVE  /\ Ahead' <= Ahead
           /\ \/ UNCHANGED <<pc, artifactQueue, ring>>
              \/ pc' = "off" /\ Ahead' = 0
<1> USE DEF memory
<1>1. CASE Emit \/ ChildDies \/ Signal \/ UNCHANGED vars
  <2>1. UNCHANGED <<pc, artifactQueue, ring>>
    BY <1>1 DEF Emit, ChildDies, Signal, vars
  <2>2. Ahead' = Ahead
    BY <2>1 DEF Ahead, Place
  <2> QED BY <2>1, <2>2, Lengths
<1>2. CASE Crash
  <2>1. pc' = "off" /\ artifactQueue' = <<>>
    BY <1>2 DEF Crash, NoMemory
  <2>2. Ahead' = 0
    BY <2>1 DEF Ahead, Place
  <2> QED BY <2>1, <2>2, Lengths
<1>3. CASE Launch BY <1>3 DEF Launch
<1> QED BY <1>1, <1>2, <1>3 DEF Environment

\* Both together.
LEMMA TicksStep == ASSUME TypeOK, TypeOK', [Next]_vars PROVE TicksEnd
<1> SUFFICES ASSUME pc # "off", ~ (pc = "read" /\ Main)
             PROVE  Ahead' <= Ahead /\ (Main => Ahead' < Ahead)
  BY DEF TicksEnd
<1>1. CASE Main
  BY <1>1, MainNears, Lengths, LengthsNext
<1>2. CASE ~ Main
  BY <1>2, OthersNear DEF Next
<1> QED BY <1>1, <1>2

\* Wherever it is, whatever fails: main reads again or has ended after Tick of its
\* own steps at the most, for all sizes (supervisor_run_once, supervisor_stop).
\* What ends a tick is no step that others can hold up or undo.
THEOREM TicksAreFinite ==
    Spec => [](Ahead \in 0 .. Tick /\ (Ahead = 0 => pc = "off")) /\ [][TicksEnd]_vars
<1>1. ASSUME TypeOK PROVE Ahead \in 0 .. Tick /\ (Ahead = 0 => pc = "off")
  <2>1. Ahead \in Nat /\ Ahead <= Tick /\ Tick \in Nat
    BY <1>1, Lengths
  <2>2. ASSUME pc # "off" PROVE Ahead # 0
    <3>1. Place \in 1 .. 9
      BY <1>1, <2>2 DEF TypeOK, Pcs, Place
    <3>2. CASE pc = "drain" BY <1>1, <3>1, <3>2, Lengths DEF Ahead
    <3>3. CASE pc # "drain" BY <1>1, <3>1, <3>3, Lengths DEF Ahead
    <3> QED BY <3>2, <3>3
  <2> QED BY <2>1, <2>2
<1>2. TypeOK => Ahead \in 0 .. Tick /\ (Ahead = 0 => pc = "off")
  BY <1>1
<1>3. TypeOK /\ TypeOK' /\ [Next]_vars => [TicksEnd]_vars
  BY TicksStep
<1> QED BY <1>2, <1>3, DaemonTypes, PTL DEF Spec

\* The flag stays up, and the loop that sees it does not read.
LEMMA StopStep == ASSUME TypeOK, TypeOK', [Next]_vars PROVE StopNears
<1> SUFFICES ASSUME shutdownRequested, pc # "off"
             PROVE  shutdownRequested' /\ ToStop' <= ToStop /\ (Main => ToStop' < ToStop)
  BY DEF StopNears
<1>1. shutdownRequested'
  <2>1. CASE Main
    BY <2>1 DEF Main, Start, Loop, Read, DrainFrame, DrainDone, SttIdle, SttPost, Transcribed,
                TranscribeFails, Generate, Respond, Stop, Discard, Exit
  <2>2. CASE Environment \/ UNCHANGED vars
    BY <2>2 DEF Environment, Launch, Emit, ChildDies, Signal, Crash, vars
  <2> QED BY <2>1, <2>2 DEF Next
<1>2. CASE Main /\ pc = "read"
  <2>1. pc' # "read"
    BY <1>2 DEF Main, Start, Loop, Read, ReadBytes, ReadNothing, ReadFails, DrainFrame, DrainDone,
         SttIdle, SttPost, Transcribed, TranscribeFails, Generate, Respond, Stop, Discard, Exit
  <2>2. ToStop' = Ahead' /\ ToStop = Ahead + Tick
    BY <1>2, <2>1, Lengths, LengthsNext DEF ToStop
  <2>3. Place = 3 /\ Ahead = 3 + Len(artifactQueue)
    BY <1>2, Lengths DEF Ahead, Place
  <2> QED BY <1>1, <2>2, <2>3, Lengths, LengthsNext
<1>3. CASE Main /\ pc # "read"
  <2>1. pc' # "read"
    BY <1>3 DEF Main, Start, Loop, Read, DrainFrame, ClassifyFrame, ClassifyFails, Finalize, Keep,
         DrainDone, SttIdle, SttPost, Transcribed, TranscribeFails, Generate, Respond, Stop,
         Discard, Exit
  <2>2. Ahead' < Ahead
    BY <1>3, MainNears
  <2> QED BY <1>1, <1>3, <2>1, <2>2, Lengths, LengthsNext DEF ToStop
<1>4. CASE ~ Main
  <2>1. Ahead' <= Ahead /\ (pc' = pc \/ pc' = "off")
    BY <1>4, OthersNear DEF Next
  <2> QED BY <1>1, <1>4, <2>1, Lengths, LengthsNext DEF ToStop
<1> QED BY <1>2, <1>3, <1>4

\* After SIGINT or SIGTERM main is off after twice Tick of its own steps at the most,
\* wherever it was: "in bounded time" (shutdown.c:23), but for the time of a step.
THEOREM StopIsFinite == Spec => [][StopNears]_vars
<1>1. TypeOK /\ TypeOK' /\ [Next]_vars => [StopNears]_vars
  BY StopStep
<1> QED BY <1>1, DaemonTypes, PTL DEF Spec

\* A round less.
LEMMA Rounds ==
    ASSUME NEW t \in Nat, NEW a \in Nat
    PROVE  /\ t * a \in Nat
           /\ \A b \in Nat : b < a => t * b + t <= t * a
<1>1. ASSUME NEW b \in Nat, b < a
      PROVE  t * b + t <= t * a
  <2>1. PICK d \in Nat : a = b + 1 + d
    <3>1. a - b - 1 \in Nat /\ a = b + 1 + (a - b - 1)
      BY <1>1
    <3> QED BY <3>1
  <2>2. t * a = t * b + t + t * d /\ t * d \in Nat /\ t * b \in Nat
    BY <2>1
  <2> QED BY <2>2
<1> QED BY <1>1

\* A round is over: of one round less, all that is left.
LEMMA RoundOver ==
    ASSUME NEW t \in Nat, NEW p \in Nat, NEW q \in Nat, NEW x \in Nat, NEW y \in Nat,
           q + t <= p, x > 0, y <= t
    PROVE  y + q < x + p
OBVIOUS

\* What is added to both sides changes nothing.
LEMMA SameOnTop ==
    ASSUME NEW a \in Nat, NEW b \in Nat, NEW c \in Nat
    PROVE  (a <= b => a + c <= b + c) /\ (a < b => a + c < b + c)
OBVIOUS

\* A dead child writes no more and is there until a read sees it.
LEMMA EndStep == ASSUME TypeOK, TypeOK', [Next]_vars PROVE EndNears
<1> USE DEF environment, memory
<1> SUFFICES ASSUME Doomed, pc # "off"
             PROVE  Doomed' /\ ToEnd' <= ToEnd /\ (Main => ToEnd' < ToEnd)
  BY DEF EndNears
<1> DEFINE left == IF pc \in Ending THEN 0 ELSE Tick * Len(pipe)
<1>0. Ahead \in Nat /\ Ahead' \in Nat /\ Tick \in Nat
  BY Lengths, LengthsNext
<1>1. Tick * Len(pipe) \in Nat /\ Tick * Len(pipe') \in Nat
  BY Lengths, LengthsNext, Rounds
<1>2. ASSUME pc' \in Ending, Ahead' <= Ahead, Main => Ahead' < Ahead
      PROVE  Doomed' /\ ToEnd' <= ToEnd /\ (Main => ToEnd' < ToEnd)
  <2>1. Doomed' /\ ToEnd' = Ahead'
    BY <1>2, LengthsNext DEF Doomed, ToEnd
  <2>2. ToEnd = Ahead + left /\ left \in Nat
    BY <1>1 DEF ToEnd
  <2> HIDE DEF left
  <2> QED BY <1>0, <1>2, <2>1, <2>2
<1>3. ASSUME pc \notin Ending, pc' \notin Ending, child' = "dead", pipe' = pipe,
             Ahead' <= Ahead, Main => Ahead' < Ahead
      PROVE  Doomed' /\ ToEnd' <= ToEnd /\ (Main => ToEnd' < ToEnd)
  <2>1. ToEnd' = Ahead' + Tick * Len(pipe) /\ ToEnd = Ahead + Tick * Len(pipe)
    BY <1>3 DEF ToEnd, Tick
  <2>2. PICK rounds \in Nat : ToEnd' = Ahead' + rounds /\ ToEnd = Ahead + rounds
    BY <1>1, <2>1
  <2>3. ToEnd' <= ToEnd /\ (Main => ToEnd' < ToEnd)
    BY <1>0, <1>3, <2>2, SameOnTop, Zenon
  <2> QED BY <1>3, <2>3 DEF Doomed
<1>4. CASE Main /\ pc = "read"
  <2>1. child = "dead" /\ Read /\ pc \notin Ending
    BY <1>4 DEF Doomed, Ending, Main, Start, Loop, Read, DrainFrame, DrainDone, SttIdle, SttPost,
         Transcribed, TranscribeFails, Generate, Respond, Stop, Discard, Exit
  <2>2. Place = 3 /\ Ahead = 3 + Len(artifactQueue)
    BY <1>4, Lengths DEF Ahead, Place
  <2>3. CASE ReadBytes
    <3>1. PICK n \in 1 .. Least(ChunkBytes, Len(pipe)) : pipe' = SubSeq(pipe, n + 1, Len(pipe))
      BY <2>3 DEF ReadBytes
    <3>2. n \in 0 .. Len(pipe) /\ n >= 1
      BY <3>1, Assumptions, Lengths DEF Least
    <3>3. Len(pipe') = Len(pipe) - n
      <4>1. pipe \in Seq(Bytes)
        BY DEF TypeOK
      <4> QED BY ONLY <3>1, <3>2, <4>1, TakeDrop
    <3>4. Tick * Len(pipe') + Tick <= Tick * Len(pipe)
      <4>1. Tick \in Nat /\ Len(pipe) \in Nat /\ Len(pipe') \in Nat /\ Len(pipe') < Len(pipe)
        BY <3>2, <3>3, Lengths, LengthsNext
      <4> QED BY ONLY <4>1, Rounds
    <3>5. pc' = "drain" /\ child' = "dead"
      BY <2>1, <2>3 DEF ReadBytes
    <3>6. ToEnd' = Ahead' + Tick * Len(pipe') /\ ToEnd = Ahead + Tick * Len(pipe)
      BY <2>1, <3>5 DEF ToEnd, Tick, Ending
    <3> DEFINE p == Tick * Len(pipe)
               q == Tick * Len(pipe')
               x == Ahead
               y == Ahead'
    <3>7. /\ p \in Nat /\ q \in Nat /\ Tick \in Nat /\ x \in Nat /\ y \in Nat
          /\ q + Tick <= p /\ x > 0 /\ y <= Tick
      BY <1>1, <2>2, <3>4, Lengths, LengthsNext
    <3>8. y + q < x + p /\ y + q <= x + p
      <4> HIDE DEF p, q, x, y
      <4>1. y + q < x + p
        BY ONLY <3>7, RoundOver
      <4>2. y + q \in Nat /\ x + p \in Nat
        BY ONLY <3>7
      <4> QED BY ONLY <4>1, <4>2
    <3>9. ToEnd' = y + q /\ ToEnd = x + p
      BY <3>6
    <3>10. ToEnd' < ToEnd /\ ToEnd' <= ToEnd
      <4> HIDE DEF p, q, x, y
      <4> QED BY ONLY <3>8, <3>9
    <3> QED BY <3>5, <3>10 DEF Doomed
  <2>4. CASE ReadFails
    <3>1. pc' = "stop" /\ artifactQueue' = artifactQueue
      BY <2>1, <2>4 DEF Read, ReadFails
    <3>2. Ahead' = 2 + Len(artifactQueue)
      BY <3>1, Lengths DEF Ahead, Place
    <3> QED BY <1>2, <2>2, <3>1, <3>2, Lengths DEF Ending
  <2> QED BY <2>1, <2>3, <2>4 DEF Read, ReadNothing
<1>5. CASE Main /\ pc # "read"
  <2>1. Ahead' < Ahead
    BY <1>5, MainNears
  <2>2. \/ pc' \in Ending
        \/ pc \notin Ending /\ child' = child /\ pipe' = pipe
    BY <1>5 DEF Doomed, Ending, Main, Start, Loop, RunOnce, Read, DrainFrame, DrainDone, SttIdle,
       SttPost,
         Transcribed, TranscribeFails, Generate, Respond, Stop, Discard, Exit
  <2> QED BY <1>2, <1>3, <2>1, <2>2, Lengths, LengthsNext DEF Doomed
<1>6. CASE ~ Main
  <2>1. Ahead' <= Ahead
    BY <1>6, OthersNear DEF Next
  <2>2. \/ pc' \in Ending
        \/ pc \notin Ending /\ pc' \notin Ending /\ child' = "dead" /\ pipe' = pipe
    BY <1>6 DEF Next, Doomed, Ending, Environment, Launch, Emit, ChildDies, Signal, Crash, vars
  <2> QED BY <1>2, <1>3, <1>6, <2>1, <2>2
<1> QED BY <1>4, <1>5, <1>6

\* After the death of arecord main is off after a bounded number of its own steps:
\* a tick for each byte that is left in the pipe, and one more ("fail-fast",
\* supervisor.c:53).
THEOREM EndIsFinite == Spec => [][EndNears]_vars
<1>1. TypeOK /\ TypeOK' /\ [Next]_vars => [EndNears]_vars
  BY EndStep
<1> QED BY <1>1, DaemonTypes, PTL DEF Spec
=============================================================================
