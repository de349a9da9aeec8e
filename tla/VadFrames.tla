----------------------------- MODULE VadFrames -----------------------------
(***************************************************************************)
(* The decision vad_detector.c takes for one frame, as a function of the   *)
(* detector's two fields, and what the sequence of decisions should mean.  *)
(* VadDetector wraps it in the module's life cycle, Supervisor drives the  *)
(* utterance assembly with it.                                             *)
(***************************************************************************)
EXTENDS Naturals, Sequences

CONSTANT SilenceMs      \* vad_silence_ms: the silence that ends an utterance

ASSUME SilenceAssumption == SilenceMs \in Nat \ {0}

VadEvents == {"NONE", "SPEECH_START", "SPEECH_CONTINUE", "SPEECH_END"}
VadIdle == [active |-> FALSE, silence |-> 0]

\* Slips: silence that is counted across speech, and a threshold that has to be
\* exceeded.
VadStepNoReset(vad, speech, duration) ==
    IF speech
    THEN [vad |-> [vad EXCEPT !.active = TRUE],
          event |-> IF vad.active THEN "SPEECH_CONTINUE" ELSE "SPEECH_START"]
    ELSE IF vad.active /\ vad.silence + duration >= SilenceMs
         THEN [vad |-> VadIdle, event |-> "SPEECH_END"]
         ELSE IF vad.active
              THEN [vad |-> [vad EXCEPT !.silence = @ + duration], event |-> "SPEECH_CONTINUE"]
              ELSE [vad |-> vad, event |-> "NONE"]
VadStepLate(vad, speech, duration) ==
    IF speech
    THEN [vad |-> [active |-> TRUE, silence |-> 0],
          event |-> IF vad.active THEN "SPEECH_CONTINUE" ELSE "SPEECH_START"]
    ELSE IF vad.active /\ vad.silence + duration > SilenceMs
         THEN [vad |-> VadIdle, event |-> "SPEECH_END"]
         ELSE IF vad.active
              THEN [vad |-> [vad EXCEPT !.silence = @ + duration], event |-> "SPEECH_CONTINUE"]
              ELSE [vad |-> vad, event |-> "NONE"]

\* One frame: the detector after it and the event it raises.
VadStep(vad, speech, duration) ==
    IF speech
    THEN [vad |-> [active |-> TRUE, silence |-> 0],
          event |-> IF vad.active THEN "SPEECH_CONTINUE" ELSE "SPEECH_START"]
    ELSE IF ~vad.active
         THEN [vad |-> vad, event |-> "NONE"]
         ELSE IF vad.silence + duration >= SilenceMs
              THEN [vad |-> VadIdle, event |-> "SPEECH_END"]
              ELSE [vad |-> [vad EXCEPT !.silence = @ + duration], event |-> "SPEECH_CONTINUE"]

-----------------------------------------------------------------------------
(* The reference.  A history is the sequence of the frames since the       *)
(* detector was cleared, each with its verdict and the time it ends at.    *)

EndTime(history) == IF history = <<>> THEN 0 ELSE history[Len(history)].at

Heard(history, speech, duration) ==
    Append(history, [speech |-> speech, at |-> EndTime(history) + duration])

\* After its k-th frame a stream is inside an utterance exactly when the last
\* speech frame is less than SilenceMs old.
InUtterance(history, k) ==
    \E j \in 1 .. k :
        /\ history[j].speech
        /\ \A i \in j + 1 .. k : ~history[i].speech
        /\ history[k].at - history[j].at < SilenceMs

ReferenceEvent(history, k) ==
    LET before == k > 1 /\ InUtterance(history, k - 1)
        after == InUtterance(history, k)
    IN  CASE ~before /\ after -> "SPEECH_START"
          [] before /\ after -> "SPEECH_CONTINUE"
          [] before /\ ~after -> "SPEECH_END"
          [] OTHER -> "NONE"

\* The utterances a history contains: from the frame that starts one to the
\* frame that ends it.
Segments(history) ==
    {s \in (1 .. Len(history)) \X (1 .. Len(history)) :
        /\ s[1] < s[2]
        /\ ReferenceEvent(history, s[1]) = "SPEECH_START"
        /\ ReferenceEvent(history, s[2]) = "SPEECH_END"
        /\ \A m \in s[1] .. s[2] - 1 : InUtterance(history, m)}
=============================================================================
