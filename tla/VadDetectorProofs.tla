------------------------- MODULE VadDetectorProofs -------------------------
(***************************************************************************)
(* For every silence and any number of frames: the two fields of the       *)
(* detector carry all of the history that matters.                         *)
(*                                                                         *)
(* What makes the properties inductive is Remembered: the detector is      *)
(* active exactly inside an utterance, and accumulated_silence_ms is the   *)
(* time since the last speech frame, in whichever durations it came.       *)
(***************************************************************************)
EXTENDS VadDetector, SequenceTheorems, TLAPS

Frames == [speech : BOOLEAN, at : Nat]

\* The j-th frame is the last of h with speech.
LastSpeech(h, j) == h[j].speech /\ \A i \in j + 1 .. Len(h) : ~h[i].speech

Recorded == history \in Seq(Frames) /\ events \in Seq(VadEvents)

\* What the detector v knows of the history h.
Fields == [active : BOOLEAN, silence : 0 .. SilenceMs - 1]
Knows(v, h) ==
    /\ v \in Fields /\ (~v.active => v.silence = 0)
    /\ v.active <=> Len(h) > 0 /\ InUtterance(h, Len(h))
    /\ v.active => \E j \in 1 .. Len(h) :
           LastSpeech(h, j) /\ v.silence = EndTime(h) - h[j].at

Remembered == Knows(vad, history)

\* After every end there is a start, if the detector is active again.
Restarted ==
    vad.active => \A i \in 1 .. Len(events) : events[i] = "SPEECH_END" =>
        \E m \in i + 1 .. Len(events) : events[m] = "SPEECH_START"

VadInv ==
    /\ TypeOK /\ Recorded /\ Remembered /\ Restarted
    /\ EventsMatchReference /\ NoDuplicateEnd

\* A frame more leaves the frames before it where they are.
LEMMA Appended ==
    ASSUME NEW S, NEW h \in Seq(S), NEW f \in S
    PROVE  /\ Append(h, f) \in Seq(S) /\ Len(h) \in Nat
           /\ Len(Append(h, f)) = Len(h) + 1
           /\ Append(h, f)[Len(h) + 1] = f
           /\ \A k \in 1 .. Len(h) : Append(h, f)[k] = h[k]
BY AppendProperties

\* What the stream was inside of it stays.
LEMMA SameBefore ==
    ASSUME NEW h \in Seq(Frames), NEW f \in Frames, NEW k \in 1 .. Len(h)
    PROVE  InUtterance(Append(h, f), k) <=> InUtterance(h, k)
<1>1. \A i \in 1 .. k : Append(h, f)[i] = h[i]
  BY Appended
<1>2. \A j \in 1 .. k : \A i \in j + 1 .. k : i \in 1 .. k
  OBVIOUS
<1>3. k \in 1 .. k
  BY Appended
<1> QED BY <1>1, <1>2, <1>3 DEF InUtterance

\* A frame of speech is inside an utterance.
LEMMA Spoken ==
    ASSUME NEW h \in Seq(Frames), NEW f \in Frames, f.speech
    PROVE  /\ InUtterance(Append(h, f), Len(h) + 1)
           /\ LastSpeech(Append(h, f), Len(h) + 1)
<1>1. f.at \in Nat /\ f.at - f.at = 0 /\ 0 < SilenceMs
  BY SilenceAssumption DEF Frames
<1>2. Len(h) + 1 \in 1 .. Len(h) + 1 /\ (Len(h) + 1) + 1 .. Len(h) + 1 = {}
  BY Appended
<1> QED BY <1>1, <1>2, Appended DEF InUtterance, LastSpeech

\* A silent frame is, as long as the last speech is not too long ago.
LEMMA Silent ==
    ASSUME NEW h \in Seq(Frames), NEW f \in Frames, ~f.speech
    PROVE  /\ InUtterance(Append(h, f), Len(h) + 1) <=>
                \E j \in 1 .. Len(h) : LastSpeech(h, j) /\ f.at - h[j].at < SilenceMs
           /\ \A j \in 1 .. Len(h) : LastSpeech(h, j) => LastSpeech(Append(h, f), j)
<1> DEFINE g == Append(h, f)
           n == Len(h)
<1>1. n \in Nat /\ Len(g) = n + 1 /\ g[n + 1] = f /\ \A k \in 1 .. n : g[k] = h[k]
  BY Appended
<1> HIDE DEF g, n
<1>2. ASSUME NEW j \in 1 .. n, LastSpeech(h, j)
      PROVE  LastSpeech(g, j)
  BY <1>1, <1>2 DEF LastSpeech, n
<1>3. ASSUME NEW j \in 1 .. n + 1, g[j].speech, \A i \in j + 1 .. n + 1 : ~g[i].speech
      PROVE  j \in 1 .. n /\ LastSpeech(h, j)
  <2>1. j \in 1 .. n
    BY <1>1, <1>3
  <2>2. \A i \in j + 1 .. n : i \in 1 .. n /\ i \in j + 1 .. n + 1
    BY <1>1, <2>1
  <2> QED BY <1>1, <1>3, <2>1, <2>2 DEF LastSpeech, n
<1>4. ASSUME InUtterance(g, n + 1)
      PROVE  \E j \in 1 .. n : LastSpeech(h, j) /\ f.at - h[j].at < SilenceMs
  <2>1. PICK j \in 1 .. n + 1 : /\ g[j].speech /\ \A i \in j + 1 .. n + 1 : ~g[i].speech
                                /\ g[n + 1].at - g[j].at < SilenceMs
    BY <1>4 DEF InUtterance
  <2>2. j \in 1 .. n /\ LastSpeech(h, j)
    BY <1>3, <2>1
  <2> QED BY <1>1, <2>1, <2>2
<1>5. ASSUME NEW j \in 1 .. n, LastSpeech(h, j), f.at - h[j].at < SilenceMs
      PROVE  InUtterance(g, n + 1)
  <2>1. g[j].speech /\ \A i \in j + 1 .. n + 1 : ~g[i].speech
    BY <1>1, <1>2, <1>5 DEF LastSpeech
  <2>2. g[n + 1].at - g[j].at < SilenceMs /\ j \in 1 .. n + 1
    BY <1>1, <1>5
  <2> QED BY <2>1, <2>2 DEF InUtterance
<1> QED BY <1>2, <1>4, <1>5 DEF g, n

\* There is one last frame with speech.
LEMMA OneLastSpeech ==
    ASSUME NEW h \in Seq(Frames), NEW i \in 1 .. Len(h), NEW j \in 1 .. Len(h),
           LastSpeech(h, i), LastSpeech(h, j)
    PROVE  i = j
<1>1. Len(h) \in Nat
  BY LenProperties
<1> QED BY <1>1 DEF LastSpeech

\* An utterance has a last frame with speech, not long ago.
LEMMA InsideMeans ==
    ASSUME NEW h \in Seq(Frames), Len(h) > 0
    PROVE  InUtterance(h, Len(h)) <=>
               \E j \in 1 .. Len(h) : LastSpeech(h, j) /\ EndTime(h) - h[j].at < SilenceMs
<1>1. h # <<>>
  BY EmptySeq
<1> QED BY <1>1 DEF InUtterance, LastSpeech, EndTime

\* What VadStep does, without the names of its branches.
LEMMA StepMeans ==
    ASSUME NEW v \in [active : BOOLEAN, silence : 0 .. SilenceMs - 1],
           ~v.active => v.silence = 0, NEW speech \in BOOLEAN, NEW duration \in Nat
    PROVE  LET s == VadStep(v, speech, duration)
           IN  /\ s.vad \in [active : BOOLEAN, silence : 0 .. SilenceMs - 1]
               /\ ~s.vad.active => s.vad.silence = 0
               /\ speech => s.vad.active /\ s.vad.silence = 0
               /\ ~speech /\ v.active =>
                    /\ s.vad.active <=> v.silence + duration < SilenceMs
                    /\ s.vad.active => s.vad.silence = v.silence + duration
               /\ ~speech /\ ~v.active => ~s.vad.active
               /\ s.event = IF v.active
                            THEN IF s.vad.active THEN "SPEECH_CONTINUE" ELSE "SPEECH_END"
                            ELSE IF s.vad.active THEN "SPEECH_START" ELSE "NONE"
<1> DEFINE s == VadStep(v, speech, duration)
<1>1. v.active \in BOOLEAN /\ v.silence \in 0 .. SilenceMs - 1 /\ SilenceMs \in Nat \ {0}
      /\ v.silence \in Nat
  BY SilenceAssumption
<1>2. CASE speech
  <2>1. s = [vad |-> [active |-> TRUE, silence |-> 0],
             event |-> IF v.active THEN "SPEECH_CONTINUE" ELSE "SPEECH_START"]
    BY <1>2 DEF VadStep
  <2>2. s.vad = [active |-> TRUE, silence |-> 0]
        /\ s.event = IF v.active THEN "SPEECH_CONTINUE" ELSE "SPEECH_START"
    BY <2>1
  <2>3. s.vad.active = TRUE /\ s.vad.silence = 0
    BY <2>2
  <2>4. 0 \in 0 .. SilenceMs - 1
    BY <1>1
  <2> QED BY <1>1, <1>2, <2>2, <2>3, <2>4
<1>3. CASE ~speech /\ ~v.active
  <2>1. s = [vad |-> v, event |-> "NONE"]
    BY <1>3 DEF VadStep
  <2> QED BY <1>1, <1>3, <2>1
<1>4. CASE ~speech /\ v.active /\ v.silence + duration >= SilenceMs
  <2>1. s = [vad |-> VadIdle, event |-> "SPEECH_END"]
    BY <1>4 DEF VadStep
  <2>2. s.vad = [active |-> FALSE, silence |-> 0] /\ s.event = "SPEECH_END"
    BY <2>1 DEF VadIdle
  <2>3. s.vad.active = FALSE /\ s.vad.silence = 0
    BY <2>2
  <2>4. 0 \in 0 .. SilenceMs - 1
    BY <1>1
  <2> QED BY <1>1, <1>4, <2>2, <2>3, <2>4
<1>5. CASE ~speech /\ v.active /\ ~(v.silence + duration >= SilenceMs)
  <2>1. s = [vad |-> [v EXCEPT !.silence = v.silence + duration],
             event |-> "SPEECH_CONTINUE"]
    BY <1>5 DEF VadStep
  <2>2. s.vad.active = v.active /\ s.vad.silence = v.silence + duration
        /\ s.event = "SPEECH_CONTINUE"
    BY <2>1
  <2>3. v.silence + duration \in 0 .. SilenceMs - 1
    BY <1>1, <1>5
  <2>4. s.vad \in [active : BOOLEAN, silence : 0 .. SilenceMs - 1]
    BY <2>1, <2>3
  <2> QED BY <1>1, <1>5, <2>2, <2>3, <2>4
<1> QED BY <1>2, <1>3, <1>4, <1>5

\* One frame keeps a detector in step with its history, and raises the event of
\* the reference.
LEMMA StepRemembers ==
    ASSUME NEW h \in Seq(Frames), NEW v, Knows(v, h),
           NEW speech \in BOOLEAN, NEW duration \in Nat,
           NEW g, g = Heard(h, speech, duration),
           NEW w, w = VadStep(v, speech, duration).vad
    PROVE  /\ g \in Seq(Frames) /\ Len(g) = Len(h) + 1 /\ Knows(w, g)
           /\ \A k \in 1 .. Len(h) : InUtterance(g, k) <=> InUtterance(h, k)
           /\ VadStep(v, speech, duration).event \in VadEvents
           /\ VadStep(v, speech, duration).event = ReferenceEvent(g, Len(h) + 1)
<1> DEFINE n == Len(h)
           f == [speech |-> speech, at |-> EndTime(h) + duration]
           s == VadStep(v, speech, duration)
<1>1. h \in Seq(Frames) /\ n \in Nat
  BY LenProperties
<1>2. EndTime(h) \in Nat
  <2>1. CASE h = <<>>
    BY <2>1 DEF EndTime
  <2>2. CASE h # <<>>
    <3>1. n \in 1 .. n
      BY <1>1, <2>2, EmptySeq
    <3>2. h[n] \in Frames
      BY <1>1, <3>1, ElementOfSeq
    <3> QED BY <2>2, <3>2 DEF EndTime, Frames
  <2> QED BY <2>1, <2>2
<1>3. f \in Frames /\ f.speech = speech /\ f.at = EndTime(h) + duration
  BY <1>2 DEF Frames
<1>4. g = Append(h, f)
  BY DEF Heard
<1>5. v \in [active : BOOLEAN, silence : 0 .. SilenceMs - 1] /\ (~v.active => v.silence = 0)
  BY DEF Knows, Fields
<1>6. /\ w \in Fields /\ (~w.active => w.silence = 0)
      /\ speech => w.active /\ w.silence = 0
      /\ ~speech /\ v.active =>
           /\ w.active <=> v.silence + duration < SilenceMs
           /\ w.active => w.silence = v.silence + duration
      /\ ~speech /\ ~v.active => ~w.active
      /\ s.event = IF v.active
                   THEN IF w.active THEN "SPEECH_CONTINUE" ELSE "SPEECH_END"
                   ELSE IF w.active THEN "SPEECH_START" ELSE "NONE"
  BY <1>5, StepMeans DEF Fields
<1>7. v.active <=> n > 0 /\ InUtterance(h, n)
  BY DEF Knows
<1>8. v.active => \E j \in 1 .. n :
          LastSpeech(h, j) /\ v.silence = EndTime(h) - h[j].at
  BY DEF Knows
<1> HIDE DEF f, s, n
<1>9. g \in Seq(Frames) /\ Len(g) = n + 1 /\ g[n + 1] = f /\ (\A k \in 1 .. n : g[k] = h[k])
  BY <1>1, <1>3, <1>4, Appended DEF n
<1>10. EndTime(g) = f.at
  <2>1. g # <<>>
    BY <1>1, <1>9, EmptySeq
  <2> QED BY <1>9, <2>1 DEF EndTime
<1>11. \A k \in 1 .. n : InUtterance(g, k) <=> InUtterance(h, k)
  BY <1>1, <1>3, <1>4, SameBefore DEF n
<1>12. ASSUME speech PROVE Knows(w, g)
  <2>1. InUtterance(g, n + 1) /\ LastSpeech(g, n + 1)
    BY <1>1, <1>3, <1>4, <1>12, Spoken DEF n
  <2>2. f.at - f.at = 0 /\ n + 1 > 0 /\ n + 1 \in 1 .. n + 1
    BY <1>1, <1>2, <1>3
  <2>3. w.active /\ w.silence = EndTime(g) - g[n + 1].at
    BY <1>6, <1>9, <1>10, <1>12, <2>2
  <2> QED BY <1>6, <1>9, <2>1, <2>2, <2>3 DEF Knows
<1>13. ASSUME ~speech PROVE Knows(w, g)
  <2>1. InUtterance(g, n + 1) <=>
            \E j \in 1 .. n : LastSpeech(h, j) /\ f.at - h[j].at < SilenceMs
    BY <1>1, <1>3, <1>4, <1>13, Silent DEF n
  <2>2. \A j \in 1 .. n : LastSpeech(h, j) => LastSpeech(g, j)
    BY <1>1, <1>3, <1>4, <1>13, Silent DEF n
  <2>3. \A j \in 1 .. n : h[j].at \in Nat
    <3>1. \A j \in 1 .. n : h[j] \in Frames
      BY <1>1, ElementOfSeq DEF n
    <3> QED BY <3>1 DEF Frames
  <2>4. CASE v.active
    <3>1. PICK j \in 1 .. n : LastSpeech(h, j) /\ v.silence = EndTime(h) - h[j].at
      BY <1>8, <2>4
    <3>2. \A i \in 1 .. n : LastSpeech(h, i) => i = j
      BY <1>1, <3>1, OneLastSpeech DEF n
    <3>3. f.at - h[j].at = v.silence + duration
      <4>1. h[j].at \in Nat /\ EndTime(h) \in Nat /\ duration \in Nat
        BY <1>2, <2>3
      <4> QED BY <1>3, <3>1, <4>1
    <3>4. InUtterance(g, n + 1) <=> v.silence + duration < SilenceMs
      BY <2>1, <3>1, <3>2, <3>3
    <3>5. w.active <=> InUtterance(g, n + 1)
      BY <1>6, <1>13, <2>4, <3>4
    <3>6. w.active => w.silence = EndTime(g) - g[j].at
      BY <1>6, <1>9, <1>10, <1>13, <2>4, <3>3
    <3>7. j \in 1 .. n + 1 /\ n + 1 > 0 /\ LastSpeech(g, j)
      BY <1>1, <2>2, <3>1
    <3> QED BY <1>6, <1>9, <3>5, <3>6, <3>7 DEF Knows
  <2>5. CASE ~v.active
    <3>1. ~InUtterance(g, n + 1)
      <4>1. SUFFICES ASSUME NEW j \in 1 .. n, LastSpeech(h, j), f.at - h[j].at < SilenceMs
                     PROVE  FALSE
        BY <2>1
      <4>2. n > 0 /\ EndTime(h) - h[j].at < SilenceMs
        BY <1>1, <1>2, <1>3, <2>3, <4>1, SilenceAssumption
      <4>3. InUtterance(h, n)
        BY <1>1, <4>1, <4>2, InsideMeans DEF n
      <4> QED BY <1>7, <2>5, <4>2, <4>3
    <3>2. ~w.active
      BY <1>6, <1>13, <2>5
    <3> QED BY <1>6, <1>9, <3>1, <3>2 DEF Knows
  <2> QED BY <2>4, <2>5
<1>14. s.event \in VadEvents
  BY <1>6 DEF VadEvents
<1>15. s.event = ReferenceEvent(g, n + 1)
  <2>1. (n + 1) - 1 = n /\ (n + 1 > 1 <=> n > 0) /\ (n > 0 => n \in 1 .. n) /\ n + 1 > 0
    BY <1>1
  <2>2. (n + 1 > 1 /\ InUtterance(g, (n + 1) - 1)) <=> v.active
    BY <1>7, <1>11, <2>1
  <2>3. InUtterance(g, n + 1) <=> w.active
    BY <1>9, <1>12, <1>13, <2>1 DEF Knows
  <2> QED BY <1>6, <2>2, <2>3 DEF ReferenceEvent
<1> QED BY <1>9, <1>11, <1>12, <1>13, <1>14, <1>15 DEF n, s

\* A frame, whatever its duration and verdict, keeps the invariant.
LEMMA ClassifyInv ==
    ASSUME VadInv, backend, NEW speech \in BOOLEAN, NEW duration \in Nat,
           Classify(speech, duration), backend' = backend
    PROVE  VadInv'
<1> DEFINE n == Len(history)
           s == VadStep(vad, speech, duration)
<1>1. history \in Seq(Frames) /\ events \in Seq(VadEvents) /\ n \in Nat /\ Len(events) = n
  BY LenProperties DEF VadInv, Recorded, TypeOK
<1>2. Knows(vad, history)
  BY DEF VadInv, Remembered
<1>3. /\ vad' = s.vad /\ history' = Heard(history, speech, duration)
      /\ events' = Append(events, s.event)
  BY DEF Classify
<1>4. /\ history' \in Seq(Frames) /\ Len(history') = n + 1 /\ Knows(vad', history')
      /\ \A k \in 1 .. n : InUtterance(history', k) <=> InUtterance(history, k)
      /\ s.event \in VadEvents /\ s.event = ReferenceEvent(history', n + 1)
  BY <1>1, <1>2, <1>3, StepRemembers
<1>5. /\ vad \in Fields /\ vad' \in Fields /\ (~vad'.active => vad'.silence = 0)
      /\ s.event = IF vad.active
                   THEN IF vad'.active THEN "SPEECH_CONTINUE" ELSE "SPEECH_END"
                   ELSE IF vad'.active THEN "SPEECH_START" ELSE "NONE"
  <2>1. vad \in Fields /\ (~vad.active => vad.silence = 0)
    BY <1>2 DEF Knows
  <2> QED BY <1>3, <1>4, <2>1, StepMeans DEF Knows, Fields
<1> HIDE DEF s, n
<1>6. /\ events' \in Seq(VadEvents) /\ Len(events') = n + 1 /\ events'[n + 1] = s.event
      /\ \A k \in 1 .. n : events'[k] = events[k]
  BY <1>1, <1>3, <1>4, Appended
<1>7. TypeOK' /\ Recorded' /\ Remembered'
  BY <1>4, <1>5, <1>6 DEF TypeOK, Recorded, Remembered, Fields
<1>8. EventsMatchReference'
  <2>1. ASSUME NEW k \in 1 .. n
        PROVE  events'[k] = ReferenceEvent(history', k)
    <3>1. InUtterance(history', k) <=> InUtterance(history, k)
      BY <1>4
    <3>2. k > 1 => (InUtterance(history', k - 1) <=> InUtterance(history, k - 1))
      <4>1. k > 1 => k - 1 \in 1 .. n
        BY <1>1
      <4> QED BY <1>4, <4>1
    <3>3. ReferenceEvent(history', k) = ReferenceEvent(history, k)
      BY <3>1, <3>2 DEF ReferenceEvent
    <3> QED BY <1>6, <3>3 DEF VadInv, EventsMatchReference, n
  <2>2. \A k \in 1 .. n + 1 : k \in 1 .. n \/ k = n + 1
    BY <1>1
  <2> QED BY <1>4, <1>6, <2>1, <2>2 DEF EventsMatchReference
<1>9. \A i \in 1 .. n + 1 : i \in 1 .. n \/ i = n + 1
  BY <1>1
<1>10. Restarted'
  <2>1. SUFFICES ASSUME vad'.active, NEW i \in 1 .. n + 1, events'[i] = "SPEECH_END"
                 PROVE  \E m \in i + 1 .. n + 1 : events'[m] = "SPEECH_START"
    BY <1>6 DEF Restarted
  <2>2. i \in 1 .. n
    BY <1>4, <1>5, <1>6, <1>9, <2>1
  <2>3. CASE vad.active
    <3>1. PICK m \in i + 1 .. n : events[m] = "SPEECH_START"
      BY <1>1, <1>6, <2>1, <2>2, <2>3 DEF VadInv, Restarted
    <3>2. m \in 1 .. n /\ m \in i + 1 .. n + 1
      BY <1>1, <2>2
    <3> QED BY <1>6, <3>1, <3>2
  <2>4. CASE ~vad.active
    <3>1. events'[n + 1] = "SPEECH_START" /\ n + 1 \in i + 1 .. n + 1
      BY <1>1, <1>4, <1>5, <1>6, <2>1, <2>2, <2>4
    <3> QED BY <3>1
  <2> QED BY <2>3, <2>4
<1>11. NoDuplicateEnd'
  <2>1. SUFFICES ASSUME NEW i \in 1 .. n + 1, NEW j \in 1 .. n + 1, i < j,
                        events'[i] = "SPEECH_END", events'[j] = "SPEECH_END"
                 PROVE  \E m \in i + 1 .. j - 1 : events'[m] = "SPEECH_START"
    BY <1>6 DEF NoDuplicateEnd
  <2>2. i \in 1 .. n
    BY <1>1, <2>1
  <2>3. CASE j \in 1 .. n
    <3>1. PICK m \in i + 1 .. j - 1 : events[m] = "SPEECH_START"
      BY <1>1, <1>6, <2>1, <2>2, <2>3 DEF VadInv, NoDuplicateEnd
    <3>2. m \in 1 .. n
      BY <1>1, <2>2, <2>3
    <3> QED BY <1>6, <3>1, <3>2
  <2>4. CASE j = n + 1
    <3>1. vad.active
      BY <1>5, <1>6, <2>1, <2>4
    <3>2. PICK m \in i + 1 .. n : events[m] = "SPEECH_START"
      BY <1>1, <1>6, <2>1, <2>2, <3>1 DEF VadInv, Restarted
    <3>3. m \in 1 .. n /\ m \in i + 1 .. j - 1
      BY <1>1, <2>2, <2>4
    <3> QED BY <1>6, <3>2, <3>3
  <2> QED BY <1>9, <2>3, <2>4
<1> QED BY <1>7, <1>8, <1>10, <1>11 DEF VadInv

\* A detector that was cleared remembers nothing.
LEMMA ClearedInv ==
    ASSUME vad' = VadIdle, history' = <<>>, events' = <<>>, backend' \in BOOLEAN
    PROVE  VadInv'
<1>1. history' \in Seq(Frames) /\ events' \in Seq(VadEvents)
  BY EmptySeq, Zenon
<1>2. Len(history') = 0 /\ Len(events') = 0
  BY EmptySeq
<1>3. VadIdle \in [active : BOOLEAN, silence : 0 .. SilenceMs - 1]
      /\ ~VadIdle.active /\ VadIdle.silence = 0
  BY SilenceAssumption DEF VadIdle
<1>4. TypeOK'
  BY <1>2, <1>3 DEF TypeOK
<1>5. Recorded' /\ Remembered' /\ Restarted'
  BY <1>1, <1>2, <1>3 DEF Recorded, Remembered, Restarted, Knows, Fields
<1>6. EventsMatchReference' /\ NoDuplicateEnd'
  BY <1>2 DEF EventsMatchReference, NoDuplicateEnd
<1> QED BY <1>4, <1>5, <1>6 DEF VadInv

\* The same of a detector that starts.
LEMMA VadInit == Init => VadInv
<1> SUFFICES ASSUME Init PROVE VadInv
  OBVIOUS
<1>1. history \in Seq(Frames) /\ events \in Seq(VadEvents)
  BY EmptySeq, Zenon DEF Init
<1>2. Len(history) = 0 /\ Len(events) = 0
  BY EmptySeq DEF Init
<1>3. VadIdle \in [active : BOOLEAN, silence : 0 .. SilenceMs - 1]
      /\ ~VadIdle.active /\ VadIdle.silence = 0
  BY SilenceAssumption DEF VadIdle
<1>4. TypeOK
  BY <1>2, <1>3 DEF TypeOK, Init
<1>5. Recorded /\ Remembered /\ Restarted
  BY <1>1, <1>2, <1>3 DEF Recorded, Remembered, Restarted, Knows, Fields, Init
<1>6. EventsMatchReference /\ NoDuplicateEnd
  BY <1>2 DEF EventsMatchReference, NoDuplicateEnd
<1> QED BY <1>4, <1>5, <1>6 DEF VadInv

LEMMA VadNext == VadInv /\ [Next]_vars => VadInv'
<1> SUFFICES ASSUME VadInv, [Next]_vars PROVE VadInv'
  OBVIOUS
<1>0. backend \in BOOLEAN
  BY DEF VadInv, TypeOK
<1>1. CASE InitDetector
  BY <1>0, <1>1, ClearedInv DEF InitDetector, Cleared
<1>2. CASE Shutdown
  BY <1>2, ClearedInv DEF Shutdown, Cleared
<1>3. CASE Reset
  BY <1>0, <1>3, ClearedInv DEF Reset, Cleared
<1>4. CASE UNCHANGED <<vad, backend, history, events>>
  BY <1>4 DEF VadInv, TypeOK, Recorded, Remembered, Restarted, EventsMatchReference,
     NoDuplicateEnd
<1>5. ASSUME NEW duration \in Durations, NEW whole \in BOOLEAN, ProcessFrame(duration, whole),
             ~UNCHANGED <<vad, backend, history, events>>
      PROVE  VadInv'
  <2>1. backend /\ backend' = backend /\ duration \in Nat
        /\ \E speech \in BOOLEAN : Classify(speech, duration)
    BY <1>5 DEF ProcessFrame, ValidDurations
  <2> QED BY <2>1, ClassifyInv
<1> QED BY <1>1, <1>2, <1>3, <1>4, <1>5 DEF Next, vars

LEMMA VadInductive == Spec => []VadInv
BY VadInit, VadNext, PTL DEF Spec

\* The silence counter stays below the threshold and runs inside an utterance only.
THEOREM DetectorTypes == Spec => []TypeOK
<1>1. VadInv => TypeOK
  BY DEF VadInv
<1> QED BY <1>1, VadInductive, PTL

\* For every silence and every mix of durations, verdicts, failures, resets and
\* restarts, vad_detector.c gives each frame the event that the definition of an
\* utterance over the whole history gives it.
THEOREM EventsAreTheReference == Spec => []EventsMatchReference
<1>1. VadInv => EventsMatchReference
  BY DEF VadInv
<1> QED BY <1>1, VadInductive, PTL

\* "No duplicate speech-end events per utterance" (vad_detector.c:31).
THEOREM EndsAlternate == Spec => []NoDuplicateEnd
<1>1. VadInv => NoDuplicateEnd
  BY DEF VadInv
<1> QED BY <1>1, VadInductive, PTL
=============================================================================
