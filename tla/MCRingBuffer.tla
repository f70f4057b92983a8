----------------------------- MODULE MCRingBuffer -----------------------------
(* Model values for RingBuffer: the three size constants scaled down. *)
EXTENDS RingBuffer
=============================================================================
