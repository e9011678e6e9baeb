----------------------------- MODULE ReaderThread -----------------------------
(***************************************************************************)
(* The reader thread of a URL playback: Impl::reader_thread_func()         *)
(* (src/src/decoder_source.cpp) with the AudioReader it owns               *)
(* (src/src/audio_reader.cpp).  Each action contains at most one access to *)
(* state another thread uses.  The HTTP client answers as it likes; its    *)
(* own steps, the polling of reader_cancelled() among them, are within     *)
(* ReaderOpen and ReaderOpenFails.  A chunk is what one run() reads.       *)
(***************************************************************************)
EXTENDS PlaybackState

otherThanReader ==
  <<configVars, stateVars, decoderVars, userVars, plays, session, reports>>

(* The connection opens and Content-Type or the URL tells the file type t. *)
ReaderOpen(t) ==
  /\ rd_pc = "open"
  /\ rd_pc' = "publish"
  /\ rd_type' = t
  /\ UNCHANGED <<otherThanReader, ringVars, rd_staged, event_flags,
                 detected_file_type>>

(* start_url() returns false: no transfer buffer, no connection, cancelled,*)
(* or no file type.                                                        *)
ReaderOpenFails ==
  /\ rd_pc = "open"
  /\ rd_pc' = "error"
  /\ UNCHANGED <<otherThanReader, ringVars, rd_type, rd_staged, event_flags,
                 detected_file_type>>

(* The file type is published before the flag that announces it.           *)
ReaderPublish ==
  /\ rd_pc = "publish"
  /\ rd_pc' = "ready"
  /\ detected_file_type' = rd_type
  /\ UNCHANGED <<otherThanReader, ringVars, rd_type, rd_staged, event_flags>>

ReaderReady ==
  /\ rd_pc = "ready"
  /\ rd_pc' = "check"
  /\ event_flags' = event_flags \cup {READER_READY}
  /\ UNCHANGED <<otherThanReader, ringVars, rd_type, rd_staged,
                 detected_file_type>>

(* Fault: only FLAG_COMMAND_STOP ends the loop.                            *)
ReaderCheckIgnoresExit ==
  /\ rd_pc = "check"
  /\ rd_pc' = IF COMMAND_STOP \in event_flags THEN "done" ELSE "run"
  /\ UNCHANGED <<otherThanReader, ringVars, rd_type, rd_staged, event_flags,
                 detected_file_type>>

(* Fault: the stop command is not looked at.                               *)
ReaderCheckIgnoresStop ==
  /\ rd_pc = "check"
  /\ rd_pc' = IF DECODER_EXITED \in event_flags THEN "done" ELSE "run"
  /\ UNCHANGED <<otherThanReader, ringVars, rd_type, rd_staged, event_flags,
                 detected_file_type>>

(* The top of the loop: leave it on a stop or when the decoder is gone.    *)
ReaderCheck ==
  /\ rd_pc = "check"
  /\ rd_pc' = IF event_flags \cap ReaderStopFlags # {} THEN "done" ELSE "run"
  /\ UNCHANGED <<otherThanReader, ringVars, rd_type, rd_staged, event_flags,
                 detected_file_type>>

(* Fault: the write does not look for free space.                          *)
ReaderWriteUnbounded ==
  /\ rd_pc = "run"
  /\ rd_staged = 1
  /\ ring_data' = Append(ring_data, plays)
  /\ rd_staged' = 0
  /\ UNCHANGED <<otherThanReader, ring_allocated, rd_pc, rd_type,
                 event_flags, detected_file_type>>

(* run() first drains the transfer buffer into the ring buffer.            *)
ReaderWrite ==
  /\ rd_pc = "run"
  /\ rd_staged = 1
  /\ ~RingFull
  /\ ring_data' = Append(ring_data, plays)
  /\ rd_staged' = 0
  /\ UNCHANGED <<otherThanReader, ring_allocated, rd_pc, rd_type,
                 event_flags, detected_file_type>>

(* No space appeared within reader_write_timeout_ms: run() returns READING.*)
ReaderWriteTimesOut ==
  /\ rd_pc = "run"
  /\ rd_staged = 1
  /\ RingFull
  /\ rd_pc' = "check"
  /\ UNCHANGED <<otherThanReader, ringVars, rd_type, rd_staged, event_flags,
                 detected_file_type>>

(* With the transfer buffer empty, run() reads from the HTTP client: some  *)
(* bytes (READING), none for now (IDLE), end of the body (FINISHED), or an *)
(* error (FAILED).                                                         *)
ReaderRead ==
  /\ rd_pc = "run"
  /\ rd_staged = 0
  /\ \/ rd_staged' = 1 /\ rd_pc' = "check"
     \/ rd_pc' \in {"wait", "finished", "error"} /\ UNCHANGED rd_staged
  /\ UNCHANGED <<otherThanReader, ringVars, rd_type, event_flags,
                 detected_file_type>>

(* The wait between two reads ends, woken by a flag or timed out.          *)
ReaderWaitReturns ==
  /\ rd_pc = "wait"
  /\ rd_pc' = "check"
  /\ UNCHANGED <<otherThanReader, ringVars, rd_type, rd_staged, event_flags,
                 detected_file_type>>

ReaderFinished ==
  /\ rd_pc = "finished"
  /\ rd_pc' = "done"
  /\ event_flags' = event_flags \cup {READER_FINISHED}
  /\ UNCHANGED <<otherThanReader, ringVars, rd_type, rd_staged,
                 detected_file_type>>

ReaderError ==
  /\ rd_pc = "error"
  /\ rd_pc' = "done"
  /\ event_flags' = event_flags \cup {READER_ERROR}
  /\ UNCHANGED <<otherThanReader, ringVars, rd_type, rd_staged,
                 detected_file_type>>

ReaderStep ==
  \/ \E t \in FileTypes : ReaderOpen(t)
  \/ ReaderOpenFails \/ ReaderPublish \/ ReaderReady \/ ReaderCheck
  \/ ReaderWrite \/ ReaderWriteTimesOut \/ ReaderRead \/ ReaderWaitReturns
  \/ ReaderFinished \/ ReaderError
=============================================================================
