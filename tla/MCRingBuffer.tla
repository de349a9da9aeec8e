---------------------------- MODULE MCRingBuffer ----------------------------
(***************************************************************************)
(* Three slots and calls of up to four bytes: a copy wraps, fills the ring, *)
(* asks for more than the ring holds, and the window starts at every slot.  *)
(* MaxTotal lets the stream go round the ring twice.                        *)
(***************************************************************************)
EXTENDS RingBuffer
=============================================================================
