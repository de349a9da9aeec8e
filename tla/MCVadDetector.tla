--------------------------- MODULE MCVadDetector ---------------------------
(***************************************************************************)
(* Frames of 10, 20 and 30 ms and one of a duration libfvad does not take, *)
(* against a silence of 50 ms: an utterance ends after two to five silent  *)
(* frames, on the threshold exactly or past it, and MaxFrames leaves room  *)
(* for two utterances.                                                     *)
(***************************************************************************)
EXTENDS VadDetector

MCDurations == {10, 15, 20, 30}
=============================================================================
