--------------------------- MODULE TransferBuffer ---------------------------
(***************************************************************************)
(* TransferBuffer (src/src/md_transfer_buffer.cpp) on top of PlatformBuffer*)
(* (src/src/platform/memory.h): where its data start, how many bytes there *)
(* are, and the size of the storage.                                       *)
(***************************************************************************)
EXTENDS Integers

Lesser(a, b) == IF a < b THEN a ELSE b

Allocated(size) == [start |-> 0, len |-> 0, cap |-> size]

(* free(): what is left after the data; nothing is moved to the front.     *)
Free(b) == b.cap - b.start - b.len

Increased(b, n) == [b EXCEPT !.len = @ + n]

(* Fault: the sink is trusted to take no more than there is.               *)
DecreasedUnclamped(b, n) ==
  IF n = b.len THEN Allocated(b.cap)
  ELSE [b EXCEPT !.start = @ + n, !.len = @ - n]

Decreased(b, n) ==
  IF n >= b.len THEN Allocated(b.cap)
  ELSE [b EXCEPT !.start = @ + n, !.len = @ - n]

(* reallocate(): the data stay where they are.                             *)
Reallocated(b, size) == [b EXCEPT !.cap = size]
=============================================================================
