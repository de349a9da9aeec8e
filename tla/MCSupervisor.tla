---------------------------- MODULE MCSupervisor ----------------------------
(***************************************************************************)
(* The sizes keep the proportions of supervisor.c:15-28 that matter:       *)
(*   - a frame is one sample, a chunk one frame (Restart: three, what      *)
(*     the static assert of supervisor.c:28 excludes), a ring that can     *)
(*     hold a frame and an odd byte, job queues of one or two slots;       *)
(*   - the pipe holds two samples (Restart: four), so that reads can be    *)
(*     short, cut a sample in two, and find arecord stalled at a full one; *)
(*   - silence of one frame or of two ends an utterance: six samples make  *)
(*     three utterances or two, and silence that speech interrupts;        *)
(*   - three runs show what a run finds of earlier ones on the disk.       *)
(***************************************************************************)
EXTENDS Supervisor
=============================================================================
