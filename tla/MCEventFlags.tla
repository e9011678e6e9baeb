---------------------------- MODULE MCEventFlags ----------------------------
(* A small instance of EventFlags for TLC: the reader's wait for a stop or  *)
(* the decoder's exit, the decoder's for the reader, and one with the       *)
(* options of wait() that the two do not use.                               *)
EXTENDS EventFlags, TLC

Wants(bits, all, clearing, timeout) ==
  [bits |-> bits, wait_all |-> all, clear_on_exit |-> clearing, timeout |-> timeout]

MCThreads == {"reader", "decoder", "other"}
MCBits == {"STOP", "READY", "STARTED", "EXITED"}
MCRequests ==
  [reader  |-> {Wants({"STOP", "EXITED"}, FALSE, FALSE, "bounded")},
   decoder |-> {Wants({"STOP", "READY"}, FALSE, FALSE, "bounded")},
   other   |-> {Wants({"STARTED", "READY"}, TRUE, FALSE, "forever"),
                Wants({"STARTED"}, FALSE, TRUE, "none")}]
=============================================================================
