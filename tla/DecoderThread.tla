---------------------------- MODULE DecoderThread ----------------------------
(***************************************************************************)
(* The decoder thread: decoder_thread_func_url() and run_decoder_buffer()  *)
(* of src/src/decoder_source.cpp with the AudioDecoder they own            *)
(* (src/src/audio_decoder.cpp).  dc_url tells the two apart.               *)
(*                                                                         *)
(* A chunk is what one call of a codec consumes; the codecs answer as they *)
(* like.  dc_output is 1 while the output buffer holds PCM.  The listener  *)
(* is set throughout: set_listener() may not be called during playback.    *)
(***************************************************************************)
EXTENDS PlaybackState

otherThanDecoder ==
  <<configVars, stateVars, readerVars, userVars, detected_file_type, plays,
    reports>>

decodeVars == <<dc_url, dc_type, dc_flags, dc_acquired, dc_output, dc_eof,
                dc_left, dc_failures>>

(* Signal a flag to the user's thread and to the reader.                   *)
SetFlag(f) == event_flags' = event_flags \cup {f}

-----------------------------------------------------------------------------
(* Waiting for the reader, decode_url_stream().                            *)

(* The wait is over because a bit is set: STOP returns, READER_ERROR fails *)
(* the playback, READER_READY starts it with the published type.           *)
DecoderWaitEnds ==
  /\ dc_pc = "wait"
  /\ event_flags \cap {READER_READY, READER_ERROR, COMMAND_STOP} # {}
  /\ dc_pc' = CASE COMMAND_STOP \in event_flags -> "exit"
                [] COMMAND_STOP \notin event_flags
                     /\ READER_ERROR \in event_flags -> "fail"
                [] OTHER -> "start"
  /\ dc_type' = IF dc_pc' = "start" THEN detected_file_type ELSE dc_type
  /\ UNCHANGED <<otherThanDecoder, ringVars, dc_url, dc_flags, dc_acquired,
                 dc_output, dc_eof, dc_left, dc_failures, event_flags,
                 session>>

(* Fault: a timeout falls through to decoding with whatever type is there. *)
DecoderWaitFallsThrough ==
  /\ dc_pc = "wait"
  /\ event_flags \cap {READER_READY, READER_ERROR, COMMAND_STOP} = {}
  /\ dc_pc' = "start"
  /\ dc_type' = detected_file_type
  /\ UNCHANGED <<otherThanDecoder, ringVars, dc_url, dc_flags, dc_acquired,
                 dc_output, dc_eof, dc_left, dc_failures, event_flags,
                 session>>

(* The connect budget passed without an answer from the reader.            *)
DecoderWaitTimesOut ==
  /\ dc_pc = "wait"
  /\ event_flags \cap {READER_READY, READER_ERROR, COMMAND_STOP} = {}
  /\ dc_pc' = "fail"
  /\ UNCHANGED <<otherThanDecoder, ringVars, decodeVars, event_flags,
                 session>>

-----------------------------------------------------------------------------
(* run_decoder() and run_decoder_buffer().                                 *)

DecoderStart ==
  /\ dc_pc = "start"
  /\ dc_pc' = "loop"
  /\ SetFlag(DECODER_STARTED)
  /\ session' = "started"
  /\ UNCHANGED <<otherThanDecoder, ringVars, decodeVars>>

(* AudioDecoder::start() refuses: no output buffer, or no codec for it.    *)
DecoderStartFails ==
  /\ dc_pc = "start"
  /\ dc_pc' = "fail"
  /\ UNCHANGED <<otherThanDecoder, ringVars, decodeVars, event_flags,
                 session>>

(* The top of the loop: a stop ends it, reader_done and the reader's       *)
(* verdict are taken from this one reading of the flags.                   *)
DecoderLoop ==
  /\ dc_pc = "loop"
  /\ IF COMMAND_STOP \in event_flags
     THEN dc_pc' = "unwind" /\ UNCHANGED dc_flags
     ELSE /\ dc_pc' = "check"
          /\ dc_flags' = IF dc_url
                         THEN event_flags \cap {READER_FINISHED, READER_ERROR}
                         ELSE {}
  /\ UNCHANGED <<otherThanDecoder, ringVars, dc_url, dc_type, dc_acquired,
                 dc_output, dc_eof, dc_left, dc_failures, event_flags,
                 session>>

-----------------------------------------------------------------------------
(* AudioDecoder::decode().                                                 *)

(* The argument stop_gracefully: always for a buffer, else reader_done.    *)
StopGracefully == dc_url => dc_flags # {}

(* Fault: what is still in the ring buffer is not counted as input.        *)
InputEmptyForgetsRing ==
  IF dc_url THEN dc_acquired = 0 ELSE dc_left = 0

InputEmpty ==
  IF dc_url THEN dc_acquired = 0 /\ ring_data = <<>> ELSE dc_left = 0

Drained == StopGracefully /\ dc_output = 0 /\ (dc_eof \/ InputEmpty)

(* release_acquired(): the ring buffer takes the chunk back.               *)
Release(unread) ==
  /\ dc_acquired' = unread
  /\ ring_data' = IF dc_acquired = 1 /\ unread = 0 THEN Tail(ring_data)
                  ELSE ring_data

(* decode() returns FINISHED.                                              *)
DecodeDone ==
  /\ dc_pc = "check"
  /\ Drained
  /\ dc_pc' = "finish"
  /\ Release(0)
  /\ UNCHANGED <<otherThanDecoder, ring_allocated, dc_url, dc_type, dc_flags,
                 dc_output, dc_eof, dc_left, dc_failures, event_flags,
                 session>>

(* decode() returns FAILED after too many calls without progress.          *)
DecodeGivesUp ==
  /\ dc_pc = "check"
  /\ ~Drained
  /\ dc_failures > MaxFailures
  /\ dc_pc' = "fail"
  /\ Release(0)
  /\ UNCHANGED <<otherThanDecoder, ring_allocated, dc_url, dc_type, dc_flags,
                 dc_output, dc_eof, dc_left, dc_failures, event_flags,
                 session>>

(* Otherwise the output is flushed; the sink takes all of it or not.       *)
DecodeFlushes ==
  /\ dc_pc = "check"
  /\ ~Drained
  /\ dc_failures <= MaxFailures
  /\ dc_pc' = "first"
  /\ dc_output' \in {0, dc_output}
  /\ UNCHANGED <<otherThanDecoder, ringVars, dc_url, dc_type, dc_flags,
                 dc_acquired, dc_eof, dc_left, dc_failures, event_flags,
                 session>>

(* No space in the output buffer, and the sink takes nothing: give up this *)
(* decode() call.                                                          *)
DecodeBlocked ==
  /\ dc_pc \in {"first", "again"}
  /\ dc_output = 1
  /\ dc_pc' = "loop"
  /\ UNCHANGED <<otherThanDecoder, ringVars, decodeVars, event_flags,
                 session>>

(* There is output space, after a flush or not; get the next input.  An    *)
(* empty source ends this decode() call (state IDLE); so does a chunk      *)
(* shorter than what the last iteration consumed ("again").                *)
DecodeInput ==
  /\ dc_pc \in {"first", "again"}
  /\ dc_output' \in {0, dc_output}
  /\ dc_acquired' = IF dc_url /\ ring_data # <<>> THEN 1 ELSE 0
  /\ dc_pc' \in IF InputEmpty THEN {"loop"}
                ELSE IF dc_url /\ dc_pc = "again" THEN {"codec", "loop"}
                ELSE {"codec"}
  /\ UNCHANGED <<otherThanDecoder, ringVars, dc_url, dc_type, dc_flags,
                 dc_eof, dc_left, dc_failures, event_flags, session>>

(* The codec was called: it consumed the chunk or not.                     *)
Consume(consumed) ==
  IF dc_url
  THEN Release(IF consumed THEN 0 ELSE dc_acquired) /\ UNCHANGED dc_left
  ELSE /\ dc_left' = IF consumed THEN dc_left - 1 ELSE dc_left
       /\ UNCHANGED <<dc_acquired, ring_data>>

(* MORE_TO_PROCESS iterates, whether it comes of a decoded chunk, of a     *)
(* header, or of a need for more data or more output space: the stop       *)
(* command is not looked at, and when nothing was consumed any view will   *)
(* do ("first").  IDLE (WAV needs more data) returns.                      *)
CodecProgress(result, consumed) ==
  /\ dc_pc = "codec"
  /\ dc_pc' = CASE result = "IDLE" -> "loop"
                [] result = "MORE_TO_PROCESS" /\ consumed -> "again"
                [] OTHER -> "first"
  /\ Consume(consumed)
  /\ dc_output' \in {dc_output, 1}
  /\ dc_failures' = IF consumed THEN 0 ELSE dc_failures
  /\ UNCHANGED <<otherThanDecoder, ring_allocated, dc_url, dc_type, dc_flags,
                 dc_eof, event_flags, session>>

(* POTENTIALLY_FAILED: counted unless the codec consumed something.        *)
CodecPotentiallyFailed(consumed) ==
  /\ dc_pc = "codec"
  /\ dc_pc' = "loop"
  /\ Consume(consumed)
  /\ dc_failures' = IF consumed THEN 0 ELSE dc_failures + 1
  /\ UNCHANGED <<otherThanDecoder, ring_allocated, dc_url, dc_type, dc_flags,
                 dc_output, dc_eof, event_flags, session>>

CodecEndOfFile(consumed) ==
  /\ dc_pc = "codec"
  /\ dc_pc' = "loop"
  /\ Consume(consumed)
  /\ dc_output' \in {dc_output, 1}
  /\ dc_eof' = TRUE
  /\ UNCHANGED <<otherThanDecoder, ring_allocated, dc_url, dc_type, dc_flags,
                 dc_failures, event_flags, session>>

CodecFailed ==
  /\ dc_pc = "codec"
  /\ dc_pc' = "fail"
  /\ Release(0)
  /\ UNCHANGED <<otherThanDecoder, ring_allocated, dc_url, dc_type, dc_flags,
                 dc_output, dc_eof, dc_left, dc_failures, event_flags,
                 session>>

-----------------------------------------------------------------------------
(* The end of the thread.                                                  *)

(* Fault: every drained stream counts as finished.                         *)
DecoderFinishIgnoresError ==
  /\ dc_pc = "finish"
  /\ dc_pc' = "unwind"
  /\ SetFlag(DECODER_FINISHED)
  /\ session' = "finished"
  /\ UNCHANGED <<otherThanDecoder, ringVars, decodeVars>>

(* A stream drained after a reader error has failed.                       *)
DecoderFinish ==
  /\ dc_pc = "finish"
  /\ dc_pc' = "unwind"
  /\ IF READER_ERROR \in dc_flags
     THEN SetFlag(DECODER_FAILED) /\ session' = "failed"
     ELSE SetFlag(DECODER_FINISHED) /\ session' = "finished"
  /\ UNCHANGED <<otherThanDecoder, ringVars, decodeVars>>

DecoderFail ==
  /\ dc_pc = "fail"
  /\ dc_pc' = "unwind"
  /\ SetFlag(DECODER_FAILED)
  /\ session' = "failed"
  /\ UNCHANGED <<otherThanDecoder, ringVars, decodeVars>>

(* ~AudioDecoder() releases what is acquired.                              *)
DecoderUnwind ==
  /\ dc_pc = "unwind"
  /\ dc_pc' = IF dc_url THEN "exit" ELSE "done"
  /\ Release(0)
  /\ UNCHANGED <<otherThanDecoder, ring_allocated, dc_url, dc_type, dc_flags,
                 dc_output, dc_eof, dc_left, dc_failures, event_flags,
                 session>>

(* Whatever the reason, the reader is told that nothing drains the ring.   *)
DecoderExit ==
  /\ dc_pc = "exit"
  /\ dc_pc' = "done"
  /\ SetFlag(DECODER_EXITED)
  /\ UNCHANGED <<otherThanDecoder, ringVars, decodeVars, session>>

DecoderStep ==
  \/ DecoderWaitEnds \/ DecoderWaitTimesOut
  \/ DecoderStart \/ DecoderStartFails \/ DecoderLoop
  \/ DecodeDone \/ DecodeGivesUp \/ DecodeFlushes
  \/ DecodeBlocked \/ DecodeInput
  \/ \E consumed \in BOOLEAN :
       \/ CodecProgress("MORE_TO_PROCESS", consumed)
       \/ CodecProgress("IDLE", consumed)
       \/ CodecPotentiallyFailed(consumed)
       \/ CodecEndOfFile(consumed)
  \/ CodecFailed
  \/ DecoderFinish \/ DecoderFail \/ DecoderUnwind \/ DecoderExit
=============================================================================
