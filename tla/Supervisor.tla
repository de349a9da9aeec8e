----------------------------- MODULE Supervisor -----------------------------
(***************************************************************************)
(* The daemon's main loop (main.c, supervisor.c): one thread that moves    *)
(* PCM bytes from the arecord child through the capture ring and the VAD   *)
(* into an utterance, writes a finished utterance to a WAV file, has it    *)
(* transcribed and answered, and hands the response on.                    *)
(*                                                                         *)
(* The parts it drives appear at the level of their contracts: the ring is *)
(* the exact byte FIFO RingBuffer implements with one thread, the two job  *)
(* queues are the FIFOs ArtifactQueue implements, the detector is VadStep, *)
(* the child is alive, dead or not there.  STT and LLM calls return within *)
(* their curl timeouts with success or failure.                            *)
(*                                                                         *)
(* The environment: arecord emits whole samples into a pipe of bounded     *)
(* size (and loses them while the pipe is full), dies at any time; SIGINT  *)
(* or SIGTERM arrives; the process is killed and started again on the same *)
(* RUNTIME_DIR.  Any library or system call that can fail may fail.        *)
(*                                                                         *)
(* The bytes of the capture stream are numbered from 1, over all runs, so  *)
(* a file shows which run it is from; sample n is bytes 2n-1 and 2n.       *)
(***************************************************************************)
EXTENDS VadFrames, FiniteSets

CONSTANTS
    FrameBytes,     \* ASSISTANTD_SUPERVISOR_VAD_FRAME_BYTES
    ChunkBytes,     \* ASSISTANTD_SUPERVISOR_CAPTURE_CHUNK_BYTES
    RingCapacity,   \* ASSISTANTD_SUPERVISOR_RING_CAPACITY_BYTES
    QueueCapacity,  \* slots of each of the two job queues
    PipeCapacity,   \* bytes the pipe from arecord holds
    MaxSamples,     \* bound: samples recorded, over all runs
    MaxRuns         \* bound: starts of the process

ASSUME SupervisorAssumption ==
    /\ FrameBytes \in Nat \ {0}
    /\ ChunkBytes \in Nat \ {0}
    /\ RingCapacity \in Nat /\ RingCapacity >= FrameBytes
    /\ QueueCapacity \in Nat \ {0}
    /\ PipeCapacity \in Nat
    /\ MaxSamples \in Nat /\ MaxRuns \in Nat

VARIABLES
    pc,             \* where main stands; "off" when there is no process
    runs,           \* times the process was started
    state,          \* supervisor->state
    shutdownRequested,  \* g_shutdown_requested
    child,          \* the arecord child: "none", "alive" or "dead" and not reaped
    pipe,           \* the bytes in its pipe
    emitted,        \* the samples arecord recorded so far
    ring,           \* the bytes in capture_ring
    vad,            \* the detector
    utterance,      \* utterance_metadata: the frames appended so far
    nextId,         \* next_artifact_sequence_id
    artifactQueue,  \* the ids of the artifacts that wait for STT
    artifact,       \* the id process_stt_queue works on
    responseQueue,  \* the responses that wait for TTS
    disk,           \* the WAV files in RUNTIME_DIR
    \* What happened in this run, for the properties only.
    frames,         \* the frames the VAD classified
    history,        \* its verdicts on them
    utterances,     \* the utterances it ended
    dropped,        \* the ids of those the full queues dropped
    damaged,        \* the ids whose file lost data without anybody noticing
    posted,         \* what was sent to the STT server
    answered,       \* the responses that left the queue
    postsAtSignal,  \* Len(posted) when shutdown was requested
    failures        \* what went wrong, over all runs

environment == <<child, pipe, emitted>>
memory == <<ring, vad, utterance, nextId, artifactQueue, artifact, responseQueue>>
record == <<frames, history, utterances, dropped, damaged, posted, answered, postsAtSignal>>
vars == <<pc, runs, state, shutdownRequested, environment, memory, disk, record, failures>>

FrameMs == 20   \* ASSISTANTD_SUPERVISOR_VAD_FRAME_DURATION_MS
SampleBytes == 2

Least(a, b) == IF a < b THEN a ELSE b

\* A file: its sequence id (the name) and what a reader finds in it.
Saved(files, id, pcm) == {f \in files : f.id # id} \cup {[id |-> id, pcm |-> pcm]}
Unlinked(files, id) == {f \in files : f.id # id}
Content(files, id) == (CHOOSE f \in files : f.id = id).pcm

\* unlink(2): it works, or it fails and the failure is only logged, if at all.
Unlink(id) ==
    \/ disk' = Unlinked(disk, id) /\ UNCHANGED failures
    \/ UNCHANGED disk /\ failures' = failures \cup {"unlink"}

-----------------------------------------------------------------------------
NoRecord ==
    /\ frames' = <<>> /\ history' = <<>> /\ utterances' = <<>> /\ dropped' = {}
    /\ damaged' = {} /\ posted' = <<>> /\ answered' = <<>> /\ postsAtSignal' = 0

\* supervisor_init's memset, and what a process that is gone leaves of it.
NoMemory ==
    /\ ring' = <<>> /\ vad' = VadIdle /\ utterance' = <<>> /\ nextId' = 0
    /\ artifactQueue' = <<>> /\ artifact' = 0 /\ responseQueue' = <<>>

Init ==
    /\ pc = "off" /\ runs = 0 /\ state = "INIT" /\ shutdownRequested = FALSE
    /\ child = "none" /\ pipe = <<>> /\ emitted = 0
    /\ ring = <<>> /\ vad = VadIdle /\ utterance = <<>> /\ nextId = 0
    /\ artifactQueue = <<>> /\ artifact = 0 /\ responseQueue = <<>>
    /\ disk = {}
    /\ frames = <<>> /\ history = <<>> /\ utterances = <<>> /\ dropped = {}
    /\ damaged = {} /\ posted = <<>> /\ answered = <<>> /\ postsAtSignal = 0
    /\ failures = {}

\* The process starts: handlers installed, supervisor_init done.
Launch ==
    /\ pc = "off" /\ runs < MaxRuns
    /\ pc' = "start" /\ runs' = runs + 1 /\ state' = "READY"
    /\ shutdownRequested' = FALSE
    /\ NoMemory /\ NoRecord
    /\ UNCHANGED <<environment, disk, failures>>

\* supervisor_start: a module that fails to initialise ends the run.  (It shuts
\* the modules down, with nothing to release yet but handles; main's stop then
\* does so again.)
Start ==
    /\ pc = "start"
    /\ \/ pc' = "loop" /\ state' = "RUNNING"
       \/ pc' = "stop" /\ UNCHANGED state
    /\ UNCHANGED <<runs, shutdownRequested, environment, memory, disk, record, failures>>

-----------------------------------------------------------------------------
(* The loop of main.c and, up to Respond, supervisor_run_once.             *)

RunOnce ==
    \/ /\ child # "none" /\ pc' = "read" /\ UNCHANGED child
    \/ /\ child = "none" /\ pc' = "read" /\ child' = "alive"
    \/ /\ child = "none" /\ pc' = "stop" /\ UNCHANGED child

\* A slip: the flag is looked at only when the capture child is gone.
LoopUntilError ==
    /\ pc = "loop"
    /\ \/ shutdownRequested /\ child = "none" /\ pc' = "stop" /\ UNCHANGED child
       \/ RunOnce
    /\ UNCHANGED <<runs, state, shutdownRequested, pipe, emitted, memory, disk, record, failures>>

Loop ==
    /\ pc = "loop"
    /\ \/ shutdownRequested /\ pc' = "stop" /\ UNCHANGED child
       \/ ~shutdownRequested /\ RunOnce
    /\ UNCHANGED <<runs, state, shutdownRequested, pipe, emitted, memory, disk, record, failures>>

\* A slip: the ring is written without regard to its free space.
ReadBytesUnclamped ==
    \E n \in 1 .. Least(ChunkBytes, Len(pipe)) :
        /\ ring' = ring \o SubSeq(pipe, 1, n)
        /\ pipe' = SubSeq(pipe, n + 1, Len(pipe))
        /\ pc' = "drain"
        /\ UNCHANGED child

\* A slip: a short read is not passed on.
ReadBytesWholeChunks ==
    \E n \in 1 .. Least(ChunkBytes, Len(pipe)) :
        /\ ring' = IF n = ChunkBytes THEN ring \o SubSeq(pipe, 1, n) ELSE ring
        /\ pipe' = SubSeq(pipe, n + 1, Len(pipe))
        /\ pc' = "drain"
        /\ UNCHANGED child

\* audio_capture_read, and ring_buffer_write of what it returned.
ReadBytes ==
    \E n \in 1 .. Least(ChunkBytes, Len(pipe)) :
        /\ ring' = ring \o SubSeq(pipe, 1, Least(n, RingCapacity - Len(ring)))
        /\ pipe' = SubSeq(pipe, n + 1, Len(pipe))
        /\ pc' = "drain"
        /\ UNCHANGED child

ReadNothingAtEof ==     \* a slip: end of file is taken for EAGAIN
    /\ pipe = <<>>
    /\ pc' = "drain"
    /\ UNCHANGED <<child, pipe, ring>>

\* EAGAIN: the child lives and has nothing to say.
ReadNothing ==
    /\ pipe = <<>> /\ child = "alive"
    /\ pc' = "drain"
    /\ UNCHANGED <<child, pipe, ring>>

\* The child is gone (the read may see that before the pipe is empty, when it
\* exits between the read that returned EAGAIN and the waitpid that follows),
\* and is reaped now or by stop; or the read fails.
ReadFails ==
    /\ pc' = "stop"
    /\ \/ child = "dead" /\ child' \in {"none", "dead"}
       \/ UNCHANGED child
    /\ UNCHANGED <<pipe, ring>>

Read ==
    /\ pc = "read"
    /\ ReadBytes \/ ReadNothing \/ ReadFails
    /\ UNCHANGED <<runs, state, shutdownRequested, emitted, vad, utterance, nextId,
                   artifactQueue, artifact, responseQueue, disk, record, failures>>

-----------------------------------------------------------------------------
(* drain_capture_ring_into_vad, one frame per step.                        *)

FrameReady == Len(ring) >= FrameBytes

\* The utterance after a frame with this event; wasActive is speech_active
\* before it.  AppendedWithoutEnd forgets the frame that ends the utterance.
AppendedWithoutEnd(event, wasActive, frame) ==
    IF event = "SPEECH_START" THEN <<frame>>
    ELSE IF event = "SPEECH_CONTINUE" /\ wasActive THEN Append(utterance, frame)
    ELSE utterance
Appended(event, wasActive, frame) ==
    IF event = "SPEECH_START" THEN <<frame>>
    ELSE IF event \in {"SPEECH_CONTINUE", "SPEECH_END"} /\ wasActive
         THEN Append(utterance, frame)
         ELSE utterance

\* What is found in a file that lost data: less than all of it, or nothing behind
\* a header with no sizes.
Parts(pcm) == {SubSeq(pcm, 1, n) : n \in 0 .. Len(pcm) - 1}

\* write_wav_file is done.  drwav_uninit, whose result it looks at, rewrites the
\* sizes in the header and closes the file, which writes what stdio still buffers,
\* but does not say when the one or the other fails.
Written(pcm) ==
    \/ disk' = Saved(disk, nextId, pcm) /\ UNCHANGED damaged
    \/ /\ \E part \in Parts(pcm) : disk' = Saved(disk, nextId, part)
       /\ damaged' = damaged \cup {nextId}

\* The path is too long or write_wav_file fails, and says so: the file was not
\* opened (one of an earlier run keeps its content), was left with the header
\* alone, or was written in part and unlinked, or not even unlinked.
WriteFails(pcm) ==
    /\ \/ disk' \in {disk, Unlinked(disk, nextId)}
       \/ \E part \in Parts(pcm) : disk' = Saved(disk, nextId, part)
    /\ failures' = failures \cup {"write"}

\* A slip: the status of write_wav_file is not looked at, so that the part of the
\* file which was left is queued.
FinalizeIgnoresWrite(pcm) ==
    /\ nextId' = nextId + 1
    /\ utterances' = Append(utterances, pcm)
    /\ utterance' = <<>>
    /\ Len(artifactQueue) < QueueCapacity
    /\ \/ Written(pcm) /\ UNCHANGED failures
       \/ \E part \in Parts(pcm) :
            disk' = Saved(disk, nextId, part) /\ failures' = failures \cup {"write"} /\ UNCHANGED damaged
    /\ artifactQueue' = Append(artifactQueue, nextId)
    /\ pc' = "drain"
    /\ UNCHANGED dropped

\* finalize_utterance.  Its utterance is never empty: the frame that ends one
\* was appended, because the detector was active.
Finalize(pcm) ==
    /\ nextId' = nextId + 1
    /\ utterances' = Append(utterances, pcm)
    /\ utterance' = <<>>
    /\ \/ /\ Len(artifactQueue) < QueueCapacity
          /\ Written(pcm)
          /\ artifactQueue' = Append(artifactQueue, nextId)
          /\ pc' = "drain"
          /\ UNCHANGED <<dropped, failures>>
       \/ /\ Len(artifactQueue) >= QueueCapacity
          /\ \/ disk' = Unlinked(disk, nextId) /\ UNCHANGED <<damaged, failures>>
             \/ Written(pcm) /\ failures' = failures \cup {"unlink"}
          /\ dropped' = dropped \cup {nextId}
          /\ pc' = "drain"
          /\ UNCHANGED artifactQueue
       \/ /\ WriteFails(pcm)
          /\ pc' = "stop"
          /\ UNCHANGED <<artifactQueue, dropped, damaged>>

Keep(pcm) ==
    /\ utterance' = pcm
    /\ pc' = "drain"
    /\ UNCHANGED <<nextId, utterances, artifactQueue, disk, dropped, damaged, failures>>

\* The frame leaves the ring; libfvad judges it and it is appended.
ClassifyFrame ==
    LET frame == SubSeq(ring, 1, FrameBytes)
    IN  \E speech \in BOOLEAN :
            LET step == VadStep(vad, speech, FrameMs)
                pcm == Appended(step.event, vad.active, frame)
            IN  /\ vad' = step.vad
                /\ frames' = Append(frames, frame)
                /\ history' = Heard(history, speech, FrameMs)
                /\ IF step.event = "SPEECH_END" THEN Finalize(pcm) ELSE Keep(pcm)

\* libfvad fails, or the utterance buffer cannot grow.
ClassifyFails ==
    /\ pc' = "stop"
    /\ vad' \in {vad, VadStep(vad, TRUE, FrameMs).vad, VadStep(vad, FALSE, FrameMs).vad}
    /\ UNCHANGED <<utterance, nextId, artifactQueue, disk, frames, history, utterances,
                   dropped, damaged, failures>>

DrainFrame ==
    /\ pc = "drain" /\ FrameReady
    /\ ring' = SubSeq(ring, FrameBytes + 1, Len(ring))
    /\ ClassifyFrame \/ ClassifyFails
    /\ UNCHANGED <<runs, state, shutdownRequested, environment, artifact, responseQueue,
                   posted, answered, postsAtSignal>>

DrainDone ==
    /\ pc = "drain" /\ ~FrameReady
    /\ pc' = "stt"
    /\ UNCHANGED <<runs, state, shutdownRequested, environment, memory, disk, record, failures>>

-----------------------------------------------------------------------------
(* process_stt_queue, one artifact a tick: the upload, the answer of the   *)
(* STT server, the answer of the LLM.                                      *)

SttIdle ==
    /\ pc = "stt" /\ artifactQueue = <<>>
    /\ pc' = "respond"
    /\ UNCHANGED <<runs, state, shutdownRequested, environment, memory, disk, record, failures>>

SttPost ==
    /\ pc = "stt" /\ artifactQueue # <<>>
    /\ artifact' = Head(artifactQueue)
    /\ artifactQueue' = Tail(artifactQueue)
    /\ posted' = Append(posted, [id |-> artifact', pcm |-> Content(disk, artifact')])
    /\ pc' = "transcribe"
    /\ UNCHANGED <<runs, state, shutdownRequested, environment, ring, vad, utterance, nextId,
                   responseQueue, disk, frames, history, utterances, dropped, damaged, answered,
                   postsAtSignal, failures>>

TranscribedKeepsFile ==     \* a slip: the unlink is left to the cleanup
    /\ pc = "transcribe"
    /\ pc' = "generate"
    /\ UNCHANGED <<runs, state, shutdownRequested, environment, memory, disk, record, failures>>

Transcribed ==
    /\ pc = "transcribe"
    /\ Unlink(artifact)
    /\ pc' = "generate"
    /\ UNCHANGED <<runs, state, shutdownRequested, environment, memory, record>>

\* Any STT error, an empty transcript among them: run_once fails, the file stays.
TranscribeFails ==
    /\ pc = "transcribe"
    /\ failures' = failures \cup {"stt"}
    /\ pc' = "stop"
    /\ UNCHANGED <<runs, state, shutdownRequested, environment, memory, disk, record>>

\* enqueue_llm_response drops the response when the queue is full.
SoftEnqueued(queue, response) ==
    IF Len(queue) < QueueCapacity THEN Append(queue, response) ELSE queue

GenerateNoFallback ==       \* a slip: an LLM failure is logged and forgotten
    /\ pc = "generate"
    /\ \E fallback \in BOOLEAN :
          responseQueue' = IF fallback THEN responseQueue
                           ELSE Append(responseQueue, [id |-> artifact, fallback |-> fallback])
    /\ pc' = "respond"
    /\ UNCHANGED <<runs, state, shutdownRequested, environment, ring, vad, utterance, nextId,
                   artifactQueue, artifact, disk, record, failures>>

\* An LLM failure is answered with the fallback text.
Generate ==
    /\ pc = "generate"
    /\ \E fallback \in BOOLEAN :
          responseQueue' = SoftEnqueued(responseQueue, [id |-> artifact, fallback |-> fallback])
    /\ dropped' = IF Len(responseQueue) < QueueCapacity THEN dropped ELSE dropped \cup {artifact}
    /\ pc' = "respond"
    /\ UNCHANGED <<runs, state, shutdownRequested, environment, ring, vad, utterance, nextId,
                   artifactQueue, artifact, disk, frames, history, utterances, damaged, posted,
                   answered, postsAtSignal, failures>>

RespondKeeps ==             \* a slip: nobody takes the responses off the queue
    /\ pc = "respond"
    /\ pc' = "loop"
    /\ UNCHANGED <<runs, state, shutdownRequested, environment, memory, disk, record, failures>>

\* drain_llm_response_queue, then main's usleep.
Respond ==
    /\ pc = "respond"
    /\ \/ /\ responseQueue # <<>>
          /\ answered' = Append(answered, Head(responseQueue))
          /\ responseQueue' = Tail(responseQueue)
       \/ /\ responseQueue = <<>>
          /\ UNCHANGED <<answered, responseQueue>>
    /\ pc' = "loop"
    /\ UNCHANGED <<runs, state, shutdownRequested, environment, ring, vad, utterance, nextId,
                   artifactQueue, artifact, disk, frames, history, utterances, dropped, damaged,
                   posted, postsAtSignal, failures>>

-----------------------------------------------------------------------------
(* supervisor_stop: the child first, then the queues.                      *)

Stop ==
    /\ pc = "stop"
    /\ state' = "STOPPING"
    /\ child' = "none" /\ pipe' = <<>>
    /\ ring' = <<>>
    /\ pc' = "discard"
    /\ UNCHANGED <<runs, shutdownRequested, emitted, vad, utterance, nextId, artifactQueue,
                   artifact, responseQueue, disk, record, failures>>

Discard ==
    /\ pc = "discard" /\ artifactQueue # <<>>
    /\ artifactQueue' = Tail(artifactQueue)
    /\ Unlink(Head(artifactQueue))
    /\ UNCHANGED <<pc, runs, state, shutdownRequested, environment, ring, vad, utterance, nextId,
                   artifact, responseQueue, record>>

\* The rest of shutdown_modules, and main returns.
Exit ==
    /\ pc = "discard" /\ artifactQueue = <<>>
    /\ pc' = "off" /\ state' = "STOPPED"
    /\ NoMemory
    /\ UNCHANGED <<runs, shutdownRequested, environment, disk, record, failures>>

-----------------------------------------------------------------------------
(* The environment.                                                        *)

\* arecord writes a sample, or loses it because the pipe is full.
Emit ==
    /\ child = "alive" /\ emitted < MaxSamples
    /\ emitted' = emitted + 1
    /\ pipe' = IF Len(pipe) + SampleBytes <= PipeCapacity
               THEN pipe \o <<2 * emitted' - 1, 2 * emitted'>> ELSE pipe
    /\ UNCHANGED <<pc, runs, state, shutdownRequested, child, memory, disk, record, failures>>

ChildDies ==
    /\ child = "alive"
    /\ child' = "dead"
    /\ UNCHANGED <<pc, runs, state, shutdownRequested, pipe, emitted, memory, disk, record, failures>>

\* SIGINT or SIGTERM.
Signal ==
    /\ pc # "off" /\ ~shutdownRequested
    /\ shutdownRequested' = TRUE
    /\ postsAtSignal' = Len(posted)
    /\ UNCHANGED <<pc, runs, state, environment, memory, disk, frames, history, utterances,
                   dropped, damaged, posted, answered, failures>>

\* SIGKILL or power loss.  The orphaned arecord ends at its next write to the
\* pipe nobody reads.
Crash ==
    /\ pc # "off"
    /\ pc' = "off" /\ state' = "STOPPED"
    /\ child' = "none" /\ pipe' = <<>>
    /\ NoMemory
    /\ failures' = failures \cup {"crash"}
    /\ UNCHANGED <<runs, shutdownRequested, emitted, disk, record>>

Main ==
    \/ Start \/ Loop \/ Read \/ DrainFrame \/ DrainDone
    \/ SttIdle \/ SttPost \/ Transcribed \/ TranscribeFails \/ Generate \/ Respond
    \/ Stop \/ Discard \/ Exit

Environment == Launch \/ Emit \/ ChildDies \/ Signal \/ Crash

Next == Main \/ Environment

Spec == Init /\ [][Next]_vars

\* main's thread is never starved, and no call it makes blocks for ever: reads
\* do not block, sleeps are bounded, the STT and LLM calls have timeouts, and
\* capture stop ends in SIGKILL (AudioCapture).
FairSpec == Spec /\ WF_vars(Main)

-----------------------------------------------------------------------------
Pcs == {"off", "start", "loop", "read", "drain", "stt", "transcribe", "generate",
        "respond", "stop", "discard"}
Bytes == Nat \ {0}
Ids == Nat
Responses == [id : Ids, fallback : BOOLEAN]

TypeOK ==
    /\ pc \in Pcs
    /\ runs \in 0 .. MaxRuns
    /\ state \in {"INIT", "READY", "RUNNING", "STOPPING", "STOPPED"}
    /\ shutdownRequested \in BOOLEAN
    /\ child \in {"none", "alive", "dead"}
    /\ pipe \in Seq(Bytes)
    /\ emitted \in 0 .. MaxSamples
    /\ ring \in Seq(Bytes) /\ Len(ring) <= RingCapacity
    /\ vad \in [active : BOOLEAN, silence : Nat]
    /\ nextId \in Ids
    /\ artifactQueue \in Seq(Ids) /\ Len(artifactQueue) <= QueueCapacity
    /\ artifact \in Ids
    /\ responseQueue \in Seq(Responses) /\ Len(responseQueue) <= QueueCapacity

\* Nothing is ever dropped: when a chunk is read the ring has room for it, when
\* an utterance ends its queue is empty, and so is the other one when a
\* response comes.  It takes the chunk being no longer than a frame
\* (supervisor.c:28), so that a tick ends at most one utterance, and one job
\* of each queue being taken in every tick.
NoOverflow ==
    /\ pc = "read" => Len(ring) + ChunkBytes <= RingCapacity
    /\ pc = "drain" /\ FrameReady => artifactQueue = <<>>
    /\ pc = "generate" => responseQueue = <<>>

\* Every frame is made of whole, consecutive bytes of samples, in stream order,
\* however the reads cut the stream: a byte lost anywhere but in whole samples
\* would turn all later audio into noise.
FramesAreWholeSamples ==
    \A f \in 1 .. Len(frames) :
        /\ Len(frames[f]) = FrameBytes
        /\ \A b \in 1 .. FrameBytes :
              (b % 2 = 1) => (frames[f][b] % 2 = 1 /\ frames[f][b + 1] = frames[f][b] + 1)
        /\ f > 1 => frames[f][1] > frames[f - 1][FrameBytes]

\* The utterances are the segments of the stream between a speech start and
\* the silence that ends it, both ends included, each once and in order.
SegmentationCorrect ==
    LET segments == Segments(history)
        rank(s) == Cardinality({t \in segments : t[1] <= s[1]})
    IN  /\ Len(utterances) = Cardinality(segments)
        /\ \A s \in segments : utterances[rank(s)] = SubSeq(frames, s[1], s[2])

\* What the STT server is sent under a sequence id is the utterance that got
\* the id in this run, whole or, where closing the file lost data unnoticed, a
\* part of that very utterance; although ids start at 0 again in every run and
\* the directory may hold files of the same name, whole or truncated, from
\* before.  No file whose write is known to have failed is sent.
Uploadable(pcm, isDamaged) == IF isDamaged THEN Parts(pcm) ELSE {pcm}
PostedIsUtterance ==
    \A i \in 1 .. Len(posted) :
        LET id == posted[i].id
        IN  posted[i].pcm \in Uploadable(utterances[id + 1], id \in damaged)

\* supervisor.c:53 promises "Deterministic fail-fast behavior when any stage errors",
\* and write_wav_file checks the result of the close: what the STT server is
\* sent should be the whole utterance.
PostedIsWhole ==
    \A i \in 1 .. Len(posted) : posted[i].pcm = utterances[posted[i].id + 1]

\* When a tick is over, every utterance so far has been transcribed and
\* answered, once and in order, with the model's text or the fallback.
AnsweredInOrder ==
    pc = "loop" =>
        /\ Len(posted) = Len(utterances) /\ Len(answered) = Len(utterances)
        /\ \A i \in 1 .. Len(utterances) : posted[i].id = i - 1 /\ answered[i].id = i - 1

\* With longer chunks utterances may be dropped, but what is answered is still
\* in order, at most once, and every utterance is answered, dropped, waiting or
\* on disk under its own id.
InOrderOrDropped ==
    /\ \A i, j \in 1 .. Len(answered) : i < j => answered[i].id < answered[j].id
    /\ pc = "loop" =>
         {id \in 0 .. Len(utterances) - 1 : id \notin dropped} =
             {answered[i].id : i \in 1 .. Len(answered)}
             \cup {artifactQueue[i] : i \in 1 .. Len(artifactQueue)}
             \cup {responseQueue[i].id : i \in 1 .. Len(responseQueue)}

\* Outside the failures below, RUNTIME_DIR holds no file but those of the
\* utterances that wait or are being transcribed; so a clean stop leaves none.
NoLeftover ==
    failures = {} =>
        {f.id : f \in disk} = {artifactQueue[i] : i \in 1 .. Len(artifactQueue)}
                              \cup (IF pc = "transcribe" THEN {artifact} ELSE {})

\* A failed call, a failed transcription and a crash leave behind what was in
\* flight and no more: one file where a tick ends one utterance at the most
\* (supervisor.c:28), else what the queue holds and the one being written.  The
\* next run reuses the names; so without failing unlinks the directory grows by
\* that much in a run, and not by a file for every utterance.
InFlight == IF ChunkBytes <= FrameBytes THEN 1 ELSE QueueCapacity + 1
LeftoversBounded == "unlink" \notin failures => Cardinality(disk) <= runs * InFlight

\* A request to stop is honoured within the tick: at most one more utterance is
\* sent to the servers.
OnePostAfterSignal == shutdownRequested => Len(posted) <= postsAtSignal + 1

\* README.md:132: the directory is where WAV artifacts are written "temporarily".
\* Stopped in good order, with every write and unlink a success, none is left.
TemporaryArtifacts ==
    pc = "off" /\ failures \subseteq {"stt"} => disk = {}

-----------------------------------------------------------------------------
\* Main stops after a request, "in bounded time" and without deadlock
\* (shutdown.c:23-25), whatever the tick was doing.
ShutdownTerminates == shutdownRequested ~> pc = "off"

\* The loss of the capture child ends the daemon ("fail-fast behavior when any
\* stage errors", supervisor.c:53): it is noticed, and noticed although bytes
\* the child wrote are still in the pipe.
ChildDeathStops == child = "dead" ~> pc = "off"

\* An utterance that ended is answered, unless the daemon stops.
UtterancesAnswered ==
    \A n \in 1 .. MaxSamples : Len(utterances) >= n ~> Len(answered) >= n \/ pc = "off"

-----------------------------------------------------------------------------
\* What the module takes for granted of its two calls is what Services, which
\* follows them, keeps: both implement ServerCalls (supervisor.c:330-390).
Stage ==
    CASE pc = "off" -> "off"
      [] pc = "start" -> "starting"
      [] pc = "transcribe" -> "transcribing"
      [] pc = "generate" -> "answering"
      [] pc \in {"stop", "discard"} -> "stopping"
      [] OTHER -> "idle"

Uploads == IF shutdownRequested THEN Len(posted) - postsAtSignal ELSE 0

Calls == INSTANCE ServerCalls WITH stage <- Stage, asked <- shutdownRequested, uploads <- Uploads
CallsSpec == Calls!Spec
=============================================================================
