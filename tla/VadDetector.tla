---------------------------- MODULE VadDetector ----------------------------
(***************************************************************************)
(* The voice activity detector of vad_detector.c: its life cycle around    *)
(* VadStep.  libfvad is external; its verdict on a frame is any of speech, *)
(* no speech and failure (it keeps noise statistics of its own, so equal   *)
(* frames need not get equal verdicts).                                    *)
(***************************************************************************)
EXTENDS VadFrames

CONSTANTS
    Durations,  \* the frame durations callers pass, in ms
    MaxFrames   \* bound: frames classified since the detector was cleared

VARIABLES
    vad,        \* speech_active and accumulated_silence_ms
    backend,    \* backend # NULL
    status,     \* what the last call returned
    history,    \* the frames classified since the detector was cleared
    events      \* the event each of them raised

vars == <<vad, backend, status, history, events>>

ValidDurations == {10, 20, 30}

Init ==
    /\ vad = VadIdle
    /\ backend = FALSE
    /\ status = "OK"
    /\ history = <<>> /\ events = <<>>

Cleared == vad' = VadIdle /\ history' = <<>> /\ events' = <<>>

\* assistantd_vad_init, with a valid configuration.  The fields are set before
\* libfvad can fail; on failure backend keeps its old value.  A second init
\* without a shutdown leaks the old backend and starts afresh like the first.
InitDetector ==
    /\ Cleared
    /\ \/ backend' = TRUE /\ status' = "OK"
       \/ UNCHANGED backend /\ status' \in {"ERR_IO", "ERR_CONFIG"}

Classify(speech, duration) ==
    /\ vad' = VadStep(vad, speech, duration).vad
    /\ history' = Heard(history, speech, duration)
    /\ events' = Append(events, VadStep(vad, speech, duration).event)

\* assistantd_vad_process_frame.  whole says whether sample_count fits duration.
ProcessFrame(duration, whole) ==
    \/ /\ duration \notin ValidDurations \/ ~whole \/ ~backend
       /\ status' = "ERR_INVALID_ARGUMENT"
       /\ UNCHANGED <<vad, backend, history, events>>
    \/ /\ duration \in ValidDurations /\ whole /\ backend
       /\ Len(history) < MaxFrames
       /\ \/ status' = "ERR_IO" /\ UNCHANGED <<vad, history, events>>
          \/ status' = "OK" /\ \E speech \in BOOLEAN : Classify(speech, duration)
       /\ UNCHANGED backend

\* assistantd_vad_shutdown, safe to repeat.
Shutdown == Cleared /\ backend' = FALSE /\ status' = "OK"

\* assistantd_vad_reset.
Reset == Cleared /\ UNCHANGED <<backend, status>>

Next ==
    \/ InitDetector \/ Shutdown \/ Reset
    \/ \E duration \in Durations, whole \in BOOLEAN : ProcessFrame(duration, whole)

Spec == Init /\ [][Next]_vars

-----------------------------------------------------------------------------
\* The silence counter runs only inside an utterance and below the threshold
\* that ends it ("monotonic silence accumulation", vad_detector.c:22).
TypeOK ==
    /\ vad \in [active : BOOLEAN, silence : 0 .. SilenceMs - 1]
    /\ ~vad.active => vad.silence = 0
    /\ backend \in BOOLEAN
    /\ ~backend => ~vad.active
    /\ Len(events) = Len(history)

\* Every event is the one the definition of an utterance gives, whatever the
\* mix of durations, failed frames and resets: the two fields of the detector
\* carry all of the history that matters.
EventsMatchReference ==
    \A k \in 1 .. Len(history) : events[k] = ReferenceEvent(history, k)

\* "No duplicate speech-end events per utterance" (vad_detector.c:31): between
\* two ends there is a start.
NoDuplicateEnd ==
    \A i, j \in 1 .. Len(events) :
        i < j /\ events[i] = "SPEECH_END" /\ events[j] = "SPEECH_END"
            => \E m \in i + 1 .. j - 1 : events[m] = "SPEECH_START"
=============================================================================
