---------------------------- MODULE MCRingBuffer ----------------------------
(* Three slots, filled, emptied and wrapped more than twice.                *)
EXTENDS RingBuffer
=============================================================================
