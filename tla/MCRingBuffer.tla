---------------------------- MODULE MCRingBuffer ----------------------------
(***************************************************************************)
(* Model-checking instance of RingBuffer.                                  *)
(***************************************************************************)
EXTENDS RingBuffer
=============================================================================
