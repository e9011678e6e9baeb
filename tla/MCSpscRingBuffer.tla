--------------------------- MODULE MCSpscRingBuffer ---------------------------
(* Small instances of SpscRingBuffer for TLC.                               *)
EXTENDS SpscRingBuffer, TLC
=============================================================================
