# Verification of assistantd

`assistantd` is a voice assistant daemon: it records PCM from an `arecord` child, cuts
the stream into utterances with a voice activity detector (VAD), writes each utterance
to a WAV file, has a local STT server transcribe it, has a local LLM server answer it,
and queues the answer for a TTS stage that is still a placeholder. This directory holds
TLA+ models of it, the TLC runs that check them on small instances, and TLAPS proofs
for all sizes. Paths are relative to the repository root; `supervisor.c:28` stands for
line 28 of `src/assistantd/supervisor.c`.

## The system

### Components, state, operations

| Component | Code | State | Operations |
|---|---|---|---|
| Main loop and supervisor | `main.c`, `supervisor.c` | lifecycle state, utterance buffer, VAD, capture handle, ring, two job queues, next sequence id | init, start, run_once (one tick), stop |
| Capture ring | `ring_buffer.c` | byte array, two atomic `size_t` counters that never wrap at the capacity, two statistics counters | init, write, read, available, space, free |
| Job queues | `utilities/artifact_queue.c` | circular array of 16 slots, head, tail, size (twice: WAV artifacts, LLM responses) | enqueue, dequeue |
| VAD | `vad_detector.c` | `speech_active`, `accumulated_silence_ms`, the libfvad handle | init, process_frame, reset, shutdown |
| Audio capture | `audio_capture.c` | active flag, pid of `arecord`, read end of its pipe | start, read, stop |
| Signals | `shutdown.c` | one `sig_atomic_t` flag | install handlers, handler, query |
| STT, LLM adapters | `stt_adapter.c`, `llm_adapter.c` | curl handle, system prompt, a cancellation flag pointer; per request a growing response buffer | init, one blocking HTTP call each (40 s timeout), shutdown |
| Configuration | `config.c` | fixed-size fields | defaults, parse, validate |
| Playback | `playback.c` | none that outlives a call; a child process during one | play (not called by the daemon yet) |
| TTS | `tts_adapter.c` | an initialized flag | a scaffold |
| Logger, status | `utilities/logger.c`, `status.c` | none | output |

### How they interact

There is one thread. `main` calls `run_once` until a signal has set the flag or a call
fails, with a 10 ms sleep between ticks; then it calls stop. A tick starts the capture
child if there is none, reads at most one chunk from the pipe into the ring, takes
every whole frame from the ring through the VAD into the utterance (an utterance that
ends is written to a file and its job queued), takes one job for STT and LLM (blocking,
then the file is unlinked and the response queued), and takes one response from the
queue. Nothing runs concurrently with that thread but other processes (`arecord`, the
servers), the signal handler, and whatever else touches the file system. The ring is
written with C11 atomics for a producer and a consumer thread, which the repository's
own test (`tests/c/test_ring_buffer_spsc.c`) uses; both ways are modelled.

### What is hard about it

- a signal, the death of the child, or a crash at any point of a tick;
- short reads that cut samples and frames in two;
- file names that start at 0 again in every run, over a directory that keeps the files
  of earlier runs;
- failures of any call half way, with a file, a job or a child process left over;
- pids that are reused once a child was reaped, and `waitpid` interrupted by a signal;
- memory ordering in the ring; index arithmetic at a full, empty or wrapping buffer;
- queues that drop when full, and the proportions that keep them from it;
- servers that fail, stall, send any status, any body, in pieces of any size, while a
  request holds memory that every error path has to free, and a signal waits;
- two child processes in one process table.

`PROJECT.json` lists each at its line under `hazards`, with the properties about it.

## The modules

| Module | Models | Built on |
|---|---|---|
| `BoundedFifo` | what a job queue promises | |
| `ArtifactQueue` | `artifact_queue.c` | implements `BoundedFifo` |
| `ByteFifo` | what the ring promises: a bounded byte FIFO that counts what it refuses | |
| `RingBuffer` | `ring_buffer.c`, one step per access another thread can see | implements `ByteFifo` |
| `VadFrames` | the decision for one frame, and a definition of utterances over the whole history | |
| `VadDetector` | `vad_detector.c` | `VadFrames` |
| `AudioCapture` | `audio_capture.c` with process table, signals and pipe | |
| `Playback` | `playback.c` in the same process table | `AudioCapture`, and implements it again |
| `ConfigFile` | `config.c`: the loaded file as a function, and what a file means | |
| `Services` | `main.c` and `supervisor.c` around `stt_adapter.c` and `llm_adapter.c`: boot, requests, stop | `ConfigFile`; implements `ServerCalls` |
| `ServerCalls` | what the daemon does with its two servers, seen from far | |
| `Supervisor` | `main.c`, `supervisor.c`, `shutdown.c`: the whole daemon and its environment | `VadFrames`, and the contracts of the others; implements `ServerCalls` |
| `MC*` | the instances TLC checks, with their bounds | |
| `*Proofs` | theorems with their proofs | |

**ArtifactQueue.** State and actions are the fields and functions of the C struct.
`result` is what the last call returned and handed out, so that the refinement compares
answers and not only contents.

**RingBuffer.** `written` and `taken` are the true totals, `head` and `tail` of the code
are these modulo `SizeModulus` (2^w). A call is a begin (the loads, which fix how many
bytes move), one step per byte, and an end (the store). A load of the other side's
counter returns any value stored since the one last read (`heads`, `tails`), and
`pKnown`/`cKnown` record up to where the other side's accesses are ordered before this
side's: a release store read by an acquire load advances them, a relaxed one would not.
`singleThread`, which an initial state chooses and no step changes, makes calls atomic with
respect to each other and loads exact, as in the daemon. Bytes are numbered in stream order, so the array shows which byte a slot holds.

**VadFrames, VadDetector.** `VadStep` is the code's decision. `ReferenceEvent` says
what it should be without the detector's fields: after a frame the stream is inside an
utterance exactly when the last speech frame is less than `vad_silence_ms` old. libfvad
may give any verdict, and may fail.

**AudioCapture.** `active`, `childPid` and `fdOpen` are the handle. `start`, `read` and
`stop` are cut at the points where the child or the system can come in between. The
process table gives a pid that was reaped to anybody. SIGTERM promises nothing: a child
before `exec` still has the daemon's handler, and `arecord` may hang. `ignored` says that
SIGCHLD was inherited as SIG_IGN: then a child that ends is gone at once with its pid, and
every `waitpid` of the code answers ECHILD, which each of them takes for an exit
(`Answered`; `audio_capture.c:82-84`, `:110`). `status` keeps what `kill` left in it. Other
children of the daemon (`Sibling`) live in the same table.

**Supervisor.** `pc` is the point of `main`/`run_once` reached: `start`, `loop`, `read`,
`drain` (one frame per step), `stt`, `transcribe`, `generate`, `respond`, `stop`,
`discard`, `off`. The ring, the queues, the detector and the child appear by their
contracts; those are what the other modules check. Environment actions come in between
any two steps: `Emit` (a sample, lost when the pipe is full), `ChildDies`, `Signal`,
`Crash` (power loss or SIGKILL) and `Launch` (the process is started again on the same
directory). Every call that can fail may fail: start of a module or the child, read,
libfvad, the growth of the buffer, the WAV write (nothing opened, any part written, unlinked
or not), unlink, STT, LLM. A WAV write may also go wrong without the code hearing of it:
`drwav_uninit` answers DRWAV_SUCCESS whatever became of the header sizes it rewrites, of
the last flush and of `fclose`. `Written` has that outcome: the file holds a part of the
samples and is queued like any other; `damaged` remembers its id. The variables from `frames` on record what happened in a
run, for the properties only; `failures` lets a property say "unless that went wrong".

**Services.** The same thread seen from the other side. `Supervisor` makes a request one
step that ends in success or failure; here it is followed: `curl` and `open` are the
handles the adapters hold and those libcurl has open, `memory` the state of each object a
request allocates (none, live, freed, freed twice), `size` and `capacity` the response
buffer, `elapsed` its seconds. The actions
are the steps of `assistantd_stt_transcribe` and `assistantd_llm_generate` in their order
(form or body, `curl_easy_perform` with its write and progress callbacks, the frees, the
parse, the copy into the array of the caller), of both inits and both shutdowns. Each error
return is a definition of its own with the frees that stand on it in the code (five ways out
after the STT transfer, eight after the LLM's), and each of the two write callbacks has its own
condition, start and loop (`SttGrows`, `LlmGrows`; `Doubles` runs a loop of doublings until
its condition fails). libcurl and the server may do anything. The rest of a tick is the one
step `Tick`. `Wire` is the call of `assistantd_llm_set_shutdown_flag` that the daemon
lacks; `MayWire` says whether somebody makes it.

**ConfigFile.** `Loaded` folds the pieces `fgets` cuts a file into over the defaults;
`Meaning` looks at whole lines. They agree on files in which every line fits the buffer,
every value its field, and every number is one (`Plain`); on others the code cuts off or
takes the number `atoi` makes of a text, in silence.

**ServerCalls** is the seam between `Supervisor` and `Services`: one upload at a time, each
answered or the end of the daemon, both calls end, one upload at most after a request to
stop. Both implement it, by their `Calls == INSTANCE ServerCalls WITH ...`, so that what
`Supervisor` takes for granted of a call is what `Services` shows of it.

**Playback** adds the `aplay` child and its calls to the variables of `AudioCapture`. To
the capture module this child is a sibling of `arecord`, and `CaptureSpec` says that this is
all it is: whatever playback signals and reaps, capture sees a behaviour of its own
specification. `ignored` goes for `aplay` too: `waitpid` then answers ECHILD, which
`playback.c:57` takes for success, so that the exit status is lost.

Definitions whose comment calls them *a slip* are not part of any specification: they
are plausible mistakes in the operator that follows them. Each property has one that
violates it (`mutants` in `PROJECT.json`), so each is known to be able to fail.

## The runs

| Run | Distinct states | Shows |
|---|---|---|
| `artifact_queue` | 318 | indices and size describe one window; every call behaves and answers as the FIFO does |
| `ring` | 835,412 | two threads: no data race, no byte out of order, `available`/`space` answers stay good, byte FIFO; one thread, as in the daemon: an *exact* FIFO, every call moves as much as it could |
| `vad` | 121,310 | the two fields give every frame the reference's event |
| `supervisor_pipeline` | 233,743 | one run: nothing is dropped, frames are whole samples in order, utterances are the reference's segments, each answered once and in order; the daemon stops after a signal and after the child's death; utterances get answered; its calls are a `ServerCalls` |
| `supervisor_restart` | 9,356,221 | three runs on one directory, crashes, failing writes and unlinks, closes that lose data, chunks of three frames, one-slot queues: what the STT server gets is never the file of another utterance or run, nor one whose write is known to have failed; without failures no leftover; without failing unlinks a bounded number per run; what is not dropped is answered in order, and drops are all accounted for |
| `services` | 169,711 | both growth loops leave room for the NUL and every other string ends inside its array; each way out of a request frees what there is, once; requests find their adapters ready; a stop waits for both timeouts at most; plain configuration files mean what they say; the daemon is a `ServerCalls` |
| `children` | 335,572 | both children: while ended children are kept, capture signals its own unreaped child only, and so does a playback that timed out; in any case no pipe and, up to interrupted waits, no child is left; OK is said of an `aplay` that ended, with status 0 where the status is not lost; both calls return; capture is undisturbed |
| `ring_size_wrap` | violation | see *Findings* |
| `supervisor_damaged` | violation | see *Findings* |
| `supervisor_temporary` | violation | see *Findings* |
| `llm_abort` | violation | see *Findings* |
| `capture_zombie` | violation | see *Findings* |

### Bounds, and why they are enough

- *Queues*: three slots. The window starts at every slot, wraps, fills, empties.
- *Ring*: three slots, calls up to four bytes (more than fit), streams of nine bytes
  per opening, so that every slot is used at least twice and copies wrap. The
  proofs remove these bounds.
- *VAD*: frames of 10, 20, 30 ms and of an invalid 15 ms, silence of 50 ms (reached
  exactly and overshot), six frames between two clears (two utterances).
- *Supervisor*: a frame of one sample, a chunk of one frame (three in `restart`), a ring
  with room for both and an odd byte, a pipe of two samples (four in `restart`), six
  samples. Reads come short and cut samples; the pipe fills; two or three utterances end
  per run; silence may be interrupted by speech (40 ms) or end at once (20 ms). Three runs
  show what a run finds of earlier ones. `supervisor.c:28` fixes a chunk to no more than a
  frame; `restart` leaves this proportion so that the artifact queue overflows, which it
  otherwise cannot (`NoOverflow`). The response queue never fills: a tick puts in one
  response at most and takes one out. `MaxSamples` and `MaxRuns` are bounds of the
  check, not of the program.
- *Services*: `FirstCapacity` stands for the 4096 bytes both callbacks make of an empty
  buffer. Bodies of up to five bytes (`MaxBody`) in pieces of any size take the buffers
  through 1, 2, 4, 8 and 2, 4, 8 bytes, with and without a byte to spare, and past the
  arrays of three and four bytes; timeouts of two seconds put a signal before, into and
  after any second of either request. Files have up to two lines of every kind, whole or
  cut by the buffer, with texts and numbers at both sides of every limit.
- *Children*: two pids, so that both children live at once and either pid can go to a
  stranger and come back; two chunks, two polls in each wait, one interrupting signal.
- `CHECK_DEADLOCK FALSE` only where the process may stay off: in the supervisor's runs
  once `MaxRuns` is used up, in those of `Services` after the stop.

### Fairness

`Supervisor!FairSpec` is weak fairness of `Main`, the daemon's own steps: its one thread
is never starved and none of its calls blocks for ever. The pipe is non-blocking, the
sleep is 10 ms, both HTTP calls have a 40 s timeout, and stopping the child ends in
SIGKILL after one second. The last two points are checked elsewhere. `Services!FairSpec`
is weak fairness of the daemon's steps and of `Wait \/ TimesOut`, the passing of time with
CURLOPT_TIMEOUT at its end; nothing is assumed of the servers, and `CallsSpec` shows that
both calls end all the same. `FairPlaySpec` of `Playback` (and `AudioCapture!FairSpec`):
a call that began goes on, a child that was sent SIGKILL ends, and one whose files are
closed becomes reapable (or is gone, where SIGCHLD is ignored). Where the pid of `arecord`
was taken over by `aplay`, the SIGKILL ends that. Nothing is assumed of `arecord` on SIGTERM, of the owner of the
handle, or of signals and samples. `aplay` may ignore SIGTERM too, and no SIGKILL
follows there, so `PlayReturns` excepts that case.

### Findings

Five runs state what the repository says and show what the code does instead; each is a
`findings` entry.

- `ring_size_wrap`: `ring_buffer.c:33` computes zero used bytes when head has wrapped
  its `size_t` and tail has not; `ring_buffer.c:14` promises frames "without dropped
  ordering". With 32 bits that is after 4 GiB, some 37 hours of capture.
- `supervisor_damaged`: `drwav_uninit` drops the results of the header rewrite
  (`dr_wav.h:5746-5755`) and of `fclose` (`dr_wav.h:5802`), so `write_wav_file`
  (`supervisor.c:217`) answers OK for a file that lost data, on a full disk for instance; it
  is posted, and the STT server hears part of an utterance or nothing. `supervisor.c:53` says
  "Deterministic fail-fast behavior when any stage errors."
- `supervisor_temporary`: a failed transcription leaves the WAV file for good
  (`supervisor.c:346` returns before the unlink, the job has left the queue);
  `README.md:132` says the files are written "temporarily".
- `llm_abort`: nothing in the daemon calls `assistantd_llm_set_shutdown_flag`, so that the
  progress callback which aborts a request is never installed and a stop waits for the
  LLM's whole timeout; `llm_adapter.c:119` says cancellation unblocks within about a second.
- `capture_zombie`: a second signal during the `waitpid` that follows SIGKILL leaves a
  zombie (`audio_capture.c:267`); `audio_capture.c:45` says there are none.

## What is proved

All theorems hold for every value of the constants that satisfies the named
`ASSUME`s (a positive capacity, a ring at least as large as a frame, and the like),
and for any length of behaviour.

- **`ArtifactQueueProofs`**: `QueueInvariant` (`TypeOK /\ WindowInv` is inductive) and
  `QueueIsFifo`, the refinement. The argument: an index below two turns wraps by one
  subtraction, so the slots of the window are pairwise different.
- **`RingBufferProofs`**, as long as the totals stay below `SizeModulus` (`NoWrap`;
  beyond it `InOrder` is false, see the finding): `RingTypes`, `RingHasNoDataRace`,
  `RingKeepsOrder`, `RingHonorsPromises` and `RingIsByteFifo`, with one thread or two.
  The properties are not inductive: what makes them hold is `ViewInv`, that every value
  a load may still return is at least what the thread is synchronized with, and that a
  call's count is bounded from there. From it follows `DataInv`, the contents of the
  array.
- **`AudioCaptureProofs`**: `SignalsOwnChild` and `InactiveIsEmpty`, for any set of pids.
  The invariant adds what a call in progress may rely on (`CallInv`) and that every
  child is the handle's, the one `start` just forked, or abandoned by an interrupted
  `waitpid` (`Accounted`). `SignalsOwnChild` takes that ended children are kept: where
  SIGCHLD is ignored nothing in the code ties the stored pid to `arecord` once it ended, and
  the model shows it signalled. `InactiveIsEmpty` holds either way. `CaptureTypes` is type correctness. `StopTakesFewSteps`: what a
  stop and its child have left to do (`StopLeft`, `ChildLeft`) only gets less, and the wait
  without a limit comes after SIGKILL, with the child still there if ended children are kept
  (`WaitsForKilled`).
- **`PlaybackProofs`**, for any set of pids and number of polls: `PlaybackCleansUp`,
  `TimeoutHitsAplay`, `OkIsPlayed`, and `CaptureUndisturbed`, the refinement, from which
  every theorem about capture carries over (`SharedTable`). The invariant says that an
  `aplay` process is a sibling to capture (`AplaySibling`) and what the call knows of
  its child at each place (`CallKnows`). `PlayTakesFewSteps`: what a call has left to do
  (`PlayLeft`) gets less with each of its steps.
- **`ServicesProofs`**, for all sizes, timeouts and configuration files: `ServicesTypes`,
  `StringsStayIn`, `NothingIsLost`, `RequestsFindAdapters`, `StopIsBounded` and `ServicesAreCalls`. Each property says something of a few places
  of main only; what makes them inductive is what holds in between: which handles there
  are as the start goes on (`Owned`, `Ready`), which objects a request has, and has freed, at
  each place (`Tidy`), and how much of which timeout has been used up when (`Delayed`). For
  `StringsFit`, `SttGrowthFits` and `LlmGrowthFits` show of the two loops as written that
  what they end with has room for the NUL, from any capacity and for any piece. Besides:
  - `RequestsAreFinite`: main has less to do (`Due`) after each of its steps and each second
    of a request, until it is in its loop again or off; once a signal is there, which stays,
    also the loop leaves it less.
  - `PlainFilesMeanTheirLines`: well-formed configuration files of any length mean what their
    lines say. `Loaded` is a fold over the lines; the proof unfolds it one line at a time
    and gets to all of them by the least number principle, which the well-foundedness of
    `<` gives (`Smallest`, `LeftStep`, `FoldIsLeft`). Its assumption on the constants is
    that the files are sequences of lines of one alphabet (`FilesAssumption`, `Pieces`).
- **`VadDetectorProofs`**, for every silence and any number of frames: `DetectorTypes`,
  `EventsAreTheReference`, `EndsAlternate`. `Remembered` makes it inductive: the detector
  is active exactly inside an utterance, and `accumulated_silence_ms` is the time since the
  last frame with speech.
- **`SupervisorProofs`**, for all sizes and any number of crashes and restarts:
  - `DaemonTypes`: ring and queues stay within their capacities.
  - `PostedUtterances`: what is posted under an id is the utterance of that id, or, if its
    file is one of the `damaged`, a part of it. Needs
    `FileInv`: ids that wait are below `nextId`, in order, and name files that hold
    their utterances or such parts; so a write (a larger id) and an unlink (a smaller one) never
    touch them.
  - `CallsInOrder`: the daemon is a `ServerCalls`, for its safety part. Together with
    `ServicesAreCalls` this is the seam between the two models.
  - `StopsPosting`: at most one upload after a signal. Needs that before the tick
    reaches the queue there was none.
  - `NothingDropped` and `AllAnswered`, under `Proportions` (a chunk is no longer than a
    frame, the ring holds both; `supervisor.c:15-28` fixes this): less than a frame stays
    in the ring between ticks, so a tick ends at most one utterance, finds the queue
    empty and takes the job out again (`RoomInv`); then every utterance is answered,
    being worked on, or the one job that waits (`AnswerInv`).
  - `TicksAreFinite`, `StopIsFinite`, `EndIsFinite`, for all sizes and whatever fails: main is
    never more than `Tick` of its own steps from its next read or its end (`Ahead`), never
    more than two of these from its end after a signal (`ToStop`), and after the death of
    `arecord` never more than one for each byte in the pipe and one more (`ToEnd`). No step
    of the child, the signals or a crash sets it back.
- **`SupervisorDataProofs`**, its second half:
  - `FramesWhole`, under `Proportions` and `WholeFrames` (a frame has an even number of
    bytes): the ring followed by the pipe is one stream that a read does not change; it
    is pairs of bytes, increasing, above the last frame (`StreamInv`). No parity is
    claimed of the ring alone, which reads may leave with half a sample.
  - `FilesKept`, for all sizes: while nothing failed, the names on the disk are those that
    wait and the one being transcribed (`KeptInv`).
  - `LeftoversFew`, for all sizes: the bound is per run and adds up over the runs; that ids
    start at 0 again in each bounds nothing, as a run need not get as far as an id left over.
    A run has on the disk what its queue and its
    transcription need, and one file more once it is stopping (`BoundInv`); with short
    chunks that is one file because the queue is empty whenever a call can fail.
  - `AnswersInLine`, for all sizes: what was answered, what waits for TTS, what is worked
    on and what waits for STT follow each other, and together they are all ids but the
    dropped ones (`LineInv`). `AllAnswered` is the case without drops.
  - `UtterancesAreSegments`, for all sizes, any silence and any number of frames: what is
    posted is cut out of the frames exactly where the reference over the whole history
    cuts. `SegmentInv` says that what the detector knows is that history (`Knows` of
    `VadDetectorProofs`, taken over by `INSTANCE`) and that what is being assembled is the
    frames since the open segment began; the rank of a segment, a cardinality in the
    reference, goes up by one where a frame closes one.

All safety invariants and action properties of the runs are proved. Only model-checked is
the liveness: `ShutdownTerminates`, `ChildDeathStops`, `UtterancesAnswered`, `StopReturns`,
`PlayReturns` and the fair part of `CallsSpec`. They need fairness and ENABLED, which are out
of the prover's reach. What is proved in their place is the part of each argument that is
about the code: the variant that its steps lower and that nothing raises (`StopIsFinite`,
`EndIsFinite`, `TicksAreFinite` with `AllAnswered`, `StopTakesFewSteps`, `PlayTakesFewSteps`,
`RequestsAreFinite`, in this order). That the step which lowers it can be taken and is taken,
as long as it is above zero, is what TLC checks, on the small instances of the runs.

The library's induction theorems take an operator as a parameter, which none of the backends
can instantiate. Where a proof needs an induction over data (`PlainFilesMeanTheirLines`) it
goes by the least counterexample instead; everywhere else the induction is the one over
behaviours.

## What is not modelled

- The TTS adapter: init and shutdown set a flag nothing reads, and synthesize is a stub.
  That its init may fail is a choice of `LlmInit`.
- The text of requests and replies, and cJSON: a body is a number of bytes, a reply a
  status, whether it is JSON with a text, and the length of that text. A text of blanks is
  an answer of the LLM's, as in the code.
- The command line, the logger, the status strings, and the dump of the configuration.
- Time in `Supervisor`: frames have durations, the rest has order only (`Services` counts
  seconds). How much audio is lost while a 40 s call blocks is not answered; that it is
  lost in whole samples is.
- The growth of the utterance buffer by doubling (`supervisor.c:80`): that it may fail is
  a step, how large noise makes it is not bounded by the code either.
- Contents of samples, transcripts, prompts and responses; log output; the fields of the WAV
  header (a header without sizes counts as a file with no samples in it).
- libfvad, dr_wav, cJSON, libcurl and the kernel, but for what the code sees of them.

## Plan

Done, in this order: queues and ring with their abstract FIFOs; the VAD and its
reference; the supervisor with its environment; audio capture; proofs of these; services
and configuration with `ServerCalls` between them and the supervisor; playback next to
capture; proofs of these and of the VAD.

Left, most important first:

1. The composition of `Supervisor` with the queue, ring and capture modules themselves
   instead of their contracts, on the smallest instances.
2. The TTS stage with playback, once the daemon has it: a playback of 10 s blocks the tick
   that empties the pipe.

Questions are grouped into few runs on purpose (one per instance of a module); a new
module joins or replaces a run rather than adding variants of one.
