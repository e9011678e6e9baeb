---------------------------- MODULE PlaybackState ----------------------------
(***************************************************************************)
(* The state that DecoderSource::Impl (src/src/decoder_source.cpp) shares  *)
(* between the user's thread, the reader thread and the decoder thread,    *)
(* with the locals of the two worker threads and of the user's calls.      *)
(* ReaderThread, DecoderThread and DecoderSource extend this module and    *)
(* give the steps of the three threads.                                    *)
(***************************************************************************)
EXTENDS Integers, Sequences

CONSTANTS
  FileTypes,        (* the file formats a stream can have                   *)
  NoType,           (* AudioFileType::NONE                                  *)
  RingCapacity,     (* chunks the ring buffer holds                         *)
  BufferChunks,     (* chunks in a buffer handed to play_buffer()           *)
  MaxFailures,      (* MAX_POTENTIALLY_FAILED_COUNT of the audio decoder    *)
  MaxPlays,         (* bound: playbacks that are started                    *)
  MaxLoopDepth      (* bound: loop() calls nested through callbacks         *)

ASSUME ConstantsAssumption ==
  /\ NoType \notin FileTypes
  /\ FileTypes # {}
  /\ RingCapacity \in Nat \ {0}
  /\ BufferChunks \in Nat \ {0}
  /\ MaxFailures \in Nat
  /\ MaxPlays \in Nat
  /\ MaxLoopDepth \in Nat \ {0}

-----------------------------------------------------------------------------
(* The event flag bits, named as in the code without the FLAG_ prefix.     *)
READER_READY     == "READER_READY"
READER_FINISHED  == "READER_FINISHED"
READER_ERROR     == "READER_ERROR"
COMMAND_STOP     == "COMMAND_STOP"
DECODER_STARTED  == "DECODER_STARTED"
DECODER_FINISHED == "DECODER_FINISHED"
DECODER_FAILED   == "DECODER_FAILED"
DECODER_EXITED   == "DECODER_EXITED"

ALL_FLAGS == {READER_READY, READER_FINISHED, READER_ERROR, COMMAND_STOP,
              DECODER_STARTED, DECODER_FINISHED, DECODER_FAILED,
              DECODER_EXITED}

(* The bits that pump_events() consumes.                                   *)
PumpedFlags == {DECODER_STARTED, DECODER_FINISHED, DECODER_FAILED}

(* The bits that tell the reader to give up.                               *)
ReaderStopFlags == {COMMAND_STOP, DECODER_EXITED}

States == {"IDLE", "PLAYING", "FAILED"}

Ops == {"none", "stop", "play_url", "play_buffer", "destroy"}

OpSteps == {"idle", "join_reader", "join_decoder", "finish", "prepare",
            "spawn_decoder", "unwind_join"}

FrameSteps == {"none", "drained", "get", "clear", "dispatch", "playing",
               "finished", "ended"}

(* The frames in which a listener callback is on the stack.                *)
CallbackSteps == {"drained", "playing", "ended"}

ReaderSteps == {"none", "open", "publish", "ready", "check", "run", "wait",
                "finished", "error", "done"}

DecoderSteps == {"none", "wait", "start", "loop", "check", "first", "again",
                 "codec", "finish", "fail", "unwind", "exit", "done"}

Sessions == {"none", "launched", "started", "finished", "failed"}

-----------------------------------------------------------------------------
VARIABLES
  initialized_,                 (* event_flags.create() succeeded          *)
  persistent_ring_buffer,       (* config.persistent_ring_buffer           *)
  listener,                     (* a listener is set                       *)
  event_flags,                  (* the set of bits that are set            *)
  decoder_state,
  pending_state_notification_,
  detected_file_type,
  ring_allocated,               (* ring_buffer.allocated()                 *)
  ring_data,                    (* its chunks, each the number of the      *)
                                (* playback it was downloaded for          *)
  rd_pc, rd_type, rd_staged,    (* reader thread: step, file type, chunks  *)
                                (* in its transfer buffer                  *)
  dc_pc,                        (* decoder thread: step                    *)
  dc_url,                       (* it runs decoder_thread_func_url()       *)
  dc_type,                      (* the file type it decodes                *)
  dc_flags,                     (* the flags its loop read                 *)
  dc_acquired,                  (* unread chunks it holds acquired         *)
  dc_output,                    (* decoded PCM in its output buffer        *)
  dc_eof,                       (* end_of_file_                            *)
  dc_left,                      (* chunks of the play_buffer() data left   *)
  dc_failures,                  (* potentially_failed_count_               *)
  op, op_pc, op_current,        (* the user's call: which, its step, the   *)
                                (* local `current` of stop()               *)
  depth,                        (* loop() calls on the stack               *)
  frame_pc, frame_flags,        (* step and local flags of each of them    *)
  destroyed,                    (* ~DecoderSource() has returned           *)
  plays,                        (* history: playbacks prepared so far      *)
  session,                      (* history: what became of the current one *)
  reports                       (* history: transitions loop() made for it *)

configVars  == <<initialized_, persistent_ring_buffer>>
stateVars   == <<decoder_state, pending_state_notification_>>
ringVars    == <<ring_allocated, ring_data>>
readerVars  == <<rd_pc, rd_type, rd_staged>>
decoderVars == <<dc_pc, dc_url, dc_type, dc_flags, dc_acquired, dc_output,
                 dc_eof, dc_left, dc_failures>>
opVars      == <<op, op_pc, op_current>>
frameVars   == <<depth, frame_pc, frame_flags>>
userVars    == <<opVars, frameVars, listener, destroyed>>

vars == <<configVars, stateVars, ringVars, readerVars, decoderVars, userVars,
          event_flags, detected_file_type, plays, session, reports>>

-----------------------------------------------------------------------------
(* Neither worker runs: each was never started, was joined, or returned.   *)
ReaderGone  == rd_pc \in {"none", "done"}
DecoderGone == dc_pc \in {"none", "done"}

RingFull == Len(ring_data) = RingCapacity

SharedTypeOK ==
  /\ initialized_ \in BOOLEAN
  /\ persistent_ring_buffer \in BOOLEAN
  /\ listener \in BOOLEAN
  /\ event_flags \in SUBSET ALL_FLAGS
  /\ decoder_state \in States
  /\ pending_state_notification_ \in BOOLEAN
  /\ detected_file_type \in FileTypes \cup {NoType}
  /\ ring_allocated \in BOOLEAN

RingTypeOK ==
  /\ ring_data \in Seq(0..MaxPlays)
  /\ Len(ring_data) <= RingCapacity

ReaderTypeOK ==
  /\ rd_pc \in ReaderSteps
  /\ rd_type \in FileTypes \cup {NoType}
  /\ rd_staged \in 0..1

DecoderTypeOK ==
  /\ dc_pc \in DecoderSteps
  /\ dc_url \in BOOLEAN
  /\ dc_type \in FileTypes \cup {NoType}
  /\ dc_flags \in SUBSET {READER_FINISHED, READER_ERROR}
  /\ dc_acquired \in 0..1
  /\ dc_output \in 0..1
  /\ dc_eof \in BOOLEAN
  /\ dc_left \in 0..BufferChunks
  /\ dc_failures \in 0..(MaxFailures + 1)

CallTypeOK ==
  /\ op \in Ops
  /\ op_pc \in OpSteps
  /\ op_current \in States
  /\ destroyed \in BOOLEAN

FrameTypeOK ==
  /\ depth \in 0..MaxLoopDepth
  /\ frame_pc \in [1..MaxLoopDepth -> FrameSteps]
  /\ frame_flags \in [1..MaxLoopDepth -> SUBSET PumpedFlags]

HistoryTypeOK ==
  /\ plays \in 0..MaxPlays
  /\ session \in Sessions
  /\ reports \in Seq(States)

TypeOK ==
  /\ SharedTypeOK /\ RingTypeOK /\ ReaderTypeOK /\ DecoderTypeOK
  /\ CallTypeOK /\ FrameTypeOK /\ HistoryTypeOK
=============================================================================
