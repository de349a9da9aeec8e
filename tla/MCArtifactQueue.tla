-------------------------- MODULE MCArtifactQueue --------------------------
(***************************************************************************)
(* Three slots instead of sixteen: enough for the window to start at every *)
(* slot, wrap, fill and empty.  Three jobs can all be different.           *)
(***************************************************************************)
EXTENDS ArtifactQueue

CONSTANTS j1, j2, j3, zero

MCItems == {j1, j2, j3}
=============================================================================
