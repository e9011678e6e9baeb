---------------------------- MODULE AudioDecoder ----------------------------
(***************************************************************************)
(* AudioDecoder (src/src/audio_decoder.cpp) in bytes: start(), decode(),   *)
(* the adapters of the five codecs, and the output buffer, as the loops of *)
(* run_decoder() and run_decoder_buffer() run it.  The input is an         *)
(* in-memory buffer, or the ring buffer while AudioReader fills it.  A     *)
(* step contains one call into the ring buffer, into the listener or into  *)
(* the codec.                                                              *)
(*                                                                         *)
(* Input bytes are counted by their position in the stream, PCM bytes by   *)
(* their number.  A codec, external, answers whatever its adapter knows    *)
(* of; the sink takes what it likes.  READ_TIMEOUT_MS and the timeout of   *)
(* the sink are no more than an answer of nothing.                         *)
(***************************************************************************)
EXTENDS AudioReader

CONSTANTS MinOutput,     \* what the MP3 and WAV adapters need
          Required,      \* bound: what the other codecs may ask for
          MaxFailures    \* MAX_POTENTIALLY_FAILED_COUNT

ASSUME PipelineAssumption ==
  /\ \A codecs \in Builds : codecs \subseteq AllTypes
  /\ {RingSize, TransferSize, DefaultRxBufferSize, MinOutput} \cup Required
       \subseteq Nat \ {0}
  /\ {MaxBody, RxBufferSize, MaxFailures} \subseteq Nat

VARIABLES
  source_mode_,
  view,                 \* bytes of the ring buffer's outstanding view
  acquired_data_, acquired_available_,
  const_data_pos_,
  out,                  \* output_buffer_: where its data start, length, capacity
  free_buffer_required_,
  stream_info_, stream_info_sent_,   \* has a value; was reported
  end_of_file_, potentially_failed_count_,
  pc,                   \* where decode() is, "idle" between two calls, "wait"
                        \* before start()
  stop_gracefully, prev_bytes_consumed,   \* of the call in progress
  ended,                \* FLAG_DECODER_FINISHED or _FAILED, once it is set
  fed                   \* history: the bytes the codec consumed

viewVars == <<released, view, acquired_data_, acquired_available_>>
inputVars == <<viewVars, const_data_pos_, fed>>
outputVars == <<out, stream_info_sent_>>
codecVars == <<free_buffer_required_, stream_info_, end_of_file_,
               potentially_failed_count_>>
callVars == <<stop_gracefully, prev_bytes_consumed>>
decoderVars == <<source_mode_, inputVars, outputVars, codecVars, pc, callVars,
          ended>>

nullptr == -1           \* of acquired_data_
FirstIteration == -1    \* of prev_bytes_consumed

InRing == source_mode_ = "RING_BUFFER"
file_type_ == detected_file_type

(* The constructor has allocated the output buffer.                        *)
DecoderInit ==
  /\ released = 0 /\ view = 0
  /\ acquired_data_ = nullptr /\ acquired_available_ = 0
  /\ const_data_pos_ = 0 /\ fed = 0
  /\ out = Allocated(TransferSize) /\ free_buffer_required_ = 0
  /\ stream_info_ = FALSE /\ stream_info_sent_ = FALSE
  /\ end_of_file_ = FALSE /\ potentially_failed_count_ = 0
  /\ pc = "wait" /\ ended = "no"
  /\ stop_gracefully = FALSE /\ prev_bytes_consumed = FirstIteration

FixedRoom == file_type_ \in {"MP3", "WAV"}
InitialRoom == IF FixedRoom THEN MinOutput ELSE TransferSize

(* start(), once the reader has reported a type and no error.  MP3 and WAV *)
(* need some room at least, the others ask for all there is to begin with. *)
Start ==
  /\ pc = "wait" /\ ended = "no" /\ file_type_ # NONE /\ reader # "ERROR"
  /\ pc' = "idle"
  /\ free_buffer_required_' = InitialRoom
  /\ out' = IF out.cap < InitialRoom THEN Allocated(InitialRoom) ELSE out
  /\ UNCHANGED <<source_mode_, inputVars, stream_info_sent_, stream_info_,
                 end_of_file_, potentially_failed_count_, callVars, ended>>

(* The reader has failed, is not heard of in time, or start() finds no     *)
(* memory.                                                                 *)
StartFails ==
  /\ pc = "wait" /\ ended = "no"
  /\ ended' = "FAILED"
  /\ UNCHANGED <<source_mode_, inputVars, outputVars, codecVars, pc, callVars>>

-----------------------------------------------------------------------------
(* decode() up to its loop.                                                *)

(* run_decoder() reads the reader's flags and calls.                       *)
Call ==
  /\ pc = "idle" /\ ended = "no"
  /\ pc' = "enter"
  /\ stop_gracefully' = (InRing => ReaderDone)
  /\ prev_bytes_consumed' = FirstIteration
  /\ UNCHANGED <<source_mode_, inputVars, outputVars, codecVars, ended>>

ReleaseAcquired ==
  /\ released' = released + view
  /\ view' = 0
  /\ acquired_data_' = nullptr /\ acquired_available_' = 0

InputEmpty ==
  IF InRing THEN acquired_available_ = 0 /\ Arrived = released
  ELSE const_data_pos_ = Arrived

Drained == stop_gracefully /\ out.len = 0 /\ (end_of_file_ \/ InputEmpty)

(* decode() returns a result that ends the playback.                       *)
Ends(result) ==
  /\ ended' = result /\ pc' = "idle"
  /\ ReleaseAcquired
  /\ UNCHANGED <<source_mode_, const_data_pos_, fed, outputVars,
                 codecVars, callVars>>

(* decode() returns FINISHED; run_decoder() fails a broken stream.         *)
Finish ==
  /\ pc = "enter" /\ Drained
  /\ Ends(IF reader = "ERROR" THEN "FAILED" ELSE "FINISHED")

GiveUp ==
  /\ pc = "enter" /\ ~Drained
  /\ potentially_failed_count_ > MaxFailures
  /\ Ends("FAILED")

(* flush_output(), the sink taking n bytes: nothing without stream info,   *)
(* nor without a listener.                                                 *)
Flush(n) ==
  \/ /\ out.len > 0 /\ stream_info_
     /\ out' = Decreased(out, n) /\ stream_info_sent_' = TRUE
  \/ n = 0 /\ UNCHANGED outputVars

FlushFirst(n) ==
  /\ pc = "enter" /\ ~Drained
  /\ potentially_failed_count_ <= MaxFailures
  /\ Flush(n)
  /\ pc' = "room"
  /\ UNCHANGED <<source_mode_, inputVars, codecVars, callVars, ended>>

-----------------------------------------------------------------------------
(* The loop makes room, gets input and calls the codec.                    *)

(* decode() returns if a flush does not make the room.                     *)
MakeRoom(n) ==
  /\ pc = "room"
  /\ IF Free(out) < free_buffer_required_ THEN Flush(n) ELSE UNCHANGED outputVars
  /\ pc' = IF Free(out') < free_buffer_required_ THEN "idle" ELSE "input"
  /\ UNCHANGED <<source_mode_, inputVars, codecVars, callVars, ended>>

(* A view ends where the storage of the ring ends.                         *)
ViewLength ==
  Lesser(TransferSize, Lesser(Arrived - released, RingSize - (released % RingSize)))

Acquire ==
  IF InRing /\ acquired_available_ = 0 /\ ViewLength > 0
  THEN /\ view' = ViewLength /\ acquired_available_' = ViewLength
       /\ acquired_data_' = released
       /\ UNCHANGED <<released, const_data_pos_, fed>>
  ELSE UNCHANGED inputVars

InputLen == IF InRing THEN acquired_available_ ELSE Arrived - const_data_pos_

(* Nothing, or less than the codec took last, is left to another call.     *)
GetInput ==
  /\ pc = "input"
  /\ UNCHANGED <<source_mode_, outputVars, codecVars, callVars, ended>>
  /\ Acquire
  /\ pc' = IF InputLen' = 0 \/ (InRing /\ InputLen' < prev_bytes_consumed)
           THEN "idle" ELSE "codec"

-----------------------------------------------------------------------------
(* The codec's answers.  Every one consumes n bytes.                       *)

Consume(n) ==
  /\ pc = "codec" /\ n \in 0..InputLen
  /\ fed' = fed + n /\ prev_bytes_consumed' = n
  /\ const_data_pos_' = IF InRing THEN const_data_pos_ ELSE const_data_pos_ + n
  /\ UNCHANGED <<source_mode_, stream_info_sent_, stop_gracefully>>

(* Fault: the view is released as soon as some of it was consumed.         *)
AdvanceReleasing(n) ==
  IF InRing /\ n > 0 THEN ReleaseAcquired ELSE UNCHANGED viewVars

(* A view that is used up is released.                                     *)
Advance(n) ==
  IF ~InRing THEN UNCHANGED viewVars
  ELSE IF n = acquired_available_ THEN ReleaseAcquired
  ELSE /\ acquired_data_' = acquired_data_ + n
       /\ acquired_available_' = acquired_available_ - n
       /\ UNCHANGED <<released, view>>

(* Fault: whatever goes on resets the count of failures.                   *)
ContinuesResetting(n, next) ==
  /\ Consume(n) /\ Advance(n)
  /\ pc' = next /\ potentially_failed_count_' = 0
  /\ UNCHANGED <<end_of_file_, ended>>

(* MORE_TO_PROCESS or IDLE: only what was consumed counts as progress.     *)
Continues(n, next) ==
  /\ Consume(n) /\ Advance(n)
  /\ pc' = next
  /\ potentially_failed_count_' = IF n > 0 THEN 0 ELSE potentially_failed_count_
  /\ UNCHANGED <<end_of_file_, ended>>

(* FAILED: decode() releases what it holds and ends the playback.          *)
Fails(n) ==
  /\ Consume(n) /\ ReleaseAcquired
  /\ pc' = "idle" /\ ended' = "FAILED"
  /\ UNCHANGED <<out, end_of_file_, potentially_failed_count_>>

(* SUCCESS or OK.  Opus learns its format on the way; PCM without a format *)
(* is dropped.                                                             *)
Decodes(n, pcm) ==
  /\ stream_info_' \in {stream_info_, stream_info_ \/ file_type_ = "OPUS"}
  /\ out' = IF stream_info_' THEN Increased(out, pcm) ELSE out
  /\ Continues(n, "room")
  /\ UNCHANGED free_buffer_required_

(* NEED_MORE_DATA; the adapter of WAV returns IDLE.                        *)
NeedsMore(n) ==
  /\ file_type_ # "OPUS"
  /\ Continues(n, IF file_type_ = "WAV" THEN "idle" ELSE "room")
  /\ UNCHANGED <<out, stream_info_, free_buffer_required_>>

(* Fault: the codec's demand is noted and the buffer left as it is.        *)
RequiresUnmet(n, required) ==
  /\ free_buffer_required_' = required
  /\ Continues(n, "room") /\ UNCHANGED out

(* The codec asks for output space; the buffer grows if it can.            *)
Requires(n, required) ==
  /\ free_buffer_required_' = required
  /\ \/ /\ out' = IF out.cap < required THEN Reallocated(out, required) ELSE out
        /\ Continues(n, "room")
     \/ out.cap < required /\ Fails(n)

(* HEADER_READY or STREAM_INFO_READY.                                      *)
HeaderReady(n) ==
  /\ stream_info_' = TRUE
  /\ \/ /\ file_type_ \in {"FLAC", "VORBIS"}
        /\ \E required \in Required : Requires(n, required)
     \/ /\ file_type_ \in {"MP3", "WAV"}
        /\ Continues(n, "room") /\ UNCHANGED <<out, free_buffer_required_>>

OutputTooSmall(n) ==
  /\ file_type_ # "WAV"
  /\ \E required \in (IF file_type_ = "MP3" THEN {MinOutput} ELSE Required) :
       Requires(n, required)
  /\ UNCHANGED stream_info_

EndOfStream(n) ==
  /\ file_type_ \in {"FLAC", "VORBIS", "WAV"}
  /\ Consume(n) /\ Advance(n)
  /\ end_of_file_' = TRUE /\ pc' = "idle"
  /\ UNCHANGED <<out, stream_info_, free_buffer_required_,
                 potentially_failed_count_, ended>>

(* An error the codec may recover from.                                    *)
Error(n) ==
  /\ Consume(n) /\ Advance(n)
  /\ potentially_failed_count_' = IF n > 0 THEN 0 ELSE potentially_failed_count_ + 1
  /\ pc' = "idle"
  /\ UNCHANGED <<out, stream_info_, free_buffer_required_, end_of_file_, ended>>

AllocationFails(n) ==
  /\ file_type_ = "MP3"
  /\ Fails(n)
  /\ UNCHANGED <<stream_info_, free_buffer_required_>>

-----------------------------------------------------------------------------
(* What the sink takes, one byte too many included.                        *)
Taken == 0..(out.len + 1)

(* PCM may be left to decode without input until the codec has announced   *)
(* the end of the stream.                                                  *)
Decoded(n) == IF end_of_file_ /\ n = 0 THEN {0} ELSE 0..Free(out)

Codec(n) ==
  \/ \E pcm \in Decoded(n) : Decodes(n, pcm)
  \/ NeedsMore(n) \/ HeaderReady(n) \/ OutputTooSmall(n)
  \/ EndOfStream(n) \/ Error(n) \/ AllocationFails(n)

Decode ==
  \/ Call \/ Finish \/ GiveUp \/ GetInput
  \/ \E n \in Taken : FlushFirst(n) \/ MakeRoom(n)
  \/ \E n \in 0..InputLen : Codec(n)

Decoder == Start \/ StartFails \/ Decode
=============================================================================
