----------------------------- MODULE MCPlayback -----------------------------
(***************************************************************************)
(* Two pids are enough for the arecord child and the aplay child to live   *)
(* at once, for either pid to go to a stranger and come back, and for an   *)
(* abandoned child to be in the way; two polls in each wait let a child    *)
(* end before the first, between them and after the last; one interrupted  *)
(* waitpid may hit any of the four.                                        *)
(***************************************************************************)
EXTENDS Playback
=============================================================================
