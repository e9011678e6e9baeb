--------------------------- MODULE MCDecoderSource ---------------------------
(* Small instances of DecoderSource for TLC.                                *)
EXTENDS DecoderSource, TLC

(* No definition singles out a file type.                                   *)
Symmetry == Permutations(FileTypes)

(* Whether the ring buffer is kept decides on its contents, which safety is *)
(* about, and not on who waits for whom.                                    *)
LiveInit == Init /\ persistent_ring_buffer = FALSE
LiveSpec == LiveInit /\ [][Next]_vars /\ Fairness
=============================================================================
