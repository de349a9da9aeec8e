---------------------------- MODULE ServerCalls ----------------------------
(***************************************************************************)
(* What main does with its two servers, seen from far: one utterance at a  *)
(* time is uploaded to be transcribed and then answered, both calls end, a *)
(* failed transcription stops the daemon and a failed answer does not, and *)
(* a request to stop is followed by one more upload at the most.           *)
(*                                                                         *)
(* Supervisor, which takes a call to be one step, and Services, which      *)
(* follows it byte by byte and second by second, both implement this: it   *)
(* is what the first assumes of the second.                                *)
(***************************************************************************)
EXTENDS Naturals

VARIABLES
    stage,      \* what main is doing
    asked,      \* it was asked to stop
    uploads     \* uploads since

vars == <<stage, asked, uploads>>

Stages == {"off", "starting", "idle", "transcribing", "answering", "stopping"}

Init == stage \in {"off", "starting"} /\ asked = FALSE /\ uploads = 0

Move(from, to) == stage = from /\ stage' = to /\ UNCHANGED <<asked, uploads>>

Launch == stage = "off" /\ stage' = "starting" /\ asked' = FALSE /\ uploads' = 0

Started == Move("starting", "idle") \/ Move("starting", "stopping") \/ Move("starting", "off")

Upload ==
    /\ stage = "idle" /\ stage' = "transcribing"
    /\ uploads' = IF asked THEN uploads + 1 ELSE uploads
    /\ uploads' <= 1
    /\ UNCHANGED asked

Transcribed == Move("transcribing", "answering") \/ Move("transcribing", "stopping")
Answered == Move("answering", "idle")
StopBegins == Move("idle", "stopping")
Stopped == Move("stopping", "off")

Ask == stage # "off" /\ ~asked /\ asked' = TRUE /\ UNCHANGED <<stage, uploads>>
Crash == stage # "off" /\ stage' = "off" /\ UNCHANGED <<asked, uploads>>

Next ==
    \/ Launch \/ Started \/ Upload \/ Transcribed \/ Answered \/ StopBegins \/ Stopped
    \/ Ask \/ Crash

SafeSpec == Init /\ [][Next]_vars

\* Both calls end, and so does the stop that a signal asks for.
Spec ==
    /\ SafeSpec
    /\ WF_vars(Started) /\ WF_vars(Transcribed) /\ WF_vars(Answered) /\ WF_vars(Stopped)
    /\ WF_vars(asked /\ StopBegins)
=============================================================================
