----------------------------- MODULE MCRingBuffer -----------------------------
(***************************************************************************)
(* The ring buffer on small instances: a capacity of 4 holds three bytes,  *)
(* so a stream of 7 wraps the array twice and every split of a copy at the *)
(* end of the array occurs.                                                *)
(***************************************************************************)
EXTENDS RingBuffer
=============================================================================
