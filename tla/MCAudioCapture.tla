--------------------------- MODULE MCAudioCapture ---------------------------
(***************************************************************************)
(* Two pids: the child's, and one for another process or for a new child   *)
(* beside one that was never reaped.  Two chunks in the pipe, two rounds   *)
(* of the wait for SIGTERM, one signal that lands in a blocking waitpid.   *)
(***************************************************************************)
EXTENDS AudioCapture
=============================================================================
