------------------------------ MODULE Pipeline ------------------------------
(***************************************************************************)
(* From the response of the server to the PCM: AudioReader and             *)
(* AudioDecoder on their two threads, with the ring buffer between them,   *)
(* for one playback that nobody stops.  What the core (module              *)
(* DecoderSource) treats as chunks is bytes here.                          *)
(***************************************************************************)
EXTENDS AudioDecoder

CONSTANTS
  NamedType,       \* the type a Content-Type names, by INTEGRATION.md's table
  ExtensionType    \* the type a URL's extension stands for, by the same table

vars == <<readerVars, decoderVars>>

Init ==
  /\ DecoderInit
  /\ \/ source_mode_ = "RING_BUFFER" /\ ReaderInit
     \/ source_mode_ = "CONST_BUFFER" /\ BufferInit

ReaderWorks == StartUrl \/ StartUrlFails \/ Drain \/ ReadBytes \/ ReadEnds

(* The reader looks for the decoder's exit at the top of its loop only.    *)
Reader ==
  /\ ReaderWorks \/ (ended # "no" /\ Stop)
  /\ UNCHANGED decoderVars

Ended == ended # "no" /\ UNCHANGED vars

Next == Reader \/ (UNCHANGED readerVars /\ Decoder) \/ Ended

Spec == Init /\ [][Next]_vars

(* Both threads run, and what is external is not stuck: a read of the HTTP *)
(* client brings bytes or the end in the end, the sink takes PCM again and *)
(* again, and a codec that is called again and again consumes input,       *)
(* reports an error or the end, or fails.                                  *)
SinkTakes ==
  /\ UNCHANGED readerVars
  /\ \E n \in Taken : (FlushFirst(n) \/ MakeRoom(n)) /\ out'.len < out.len

CodecAdvances ==
  /\ UNCHANGED readerVars
  /\ \/ \E n \in 0..InputLen : Codec(n) /\ (n > 0 \/ ended' # "no")
     \/ Error(0) \/ EndOfStream(0)

Fairness ==
  /\ WF_vars(Reader)
  /\ WF_vars(UNCHANGED readerVars /\ Decoder)
  /\ SF_vars(SinkTakes)
  /\ SF_vars(CodecAdvances)

FairSpec == Spec /\ Fairness

-----------------------------------------------------------------------------
Positions == 0..MaxBody

BufferTypeOK(b) == b \in [start : Nat, len : Nat, cap : Nat]

TypeOK ==
  /\ request # NoRequest =>
       request \in [codecs : Builds, content_type : ContentTypes, url : Urls]
  /\ detected_file_type \in AllTypes \cup {NONE}
  /\ reader \in {"none", "start", "run", "stopped", "FINISHED", "ERROR"}
  /\ source_mode_ \in {"RING_BUFFER", "CONST_BUFFER"}
  /\ BufferTypeOK(transfer_buffer_) /\ BufferTypeOK(out)
  /\ {downloaded, released, view, acquired_available_, const_data_pos_, fed}
       \subseteq Positions
  /\ written \in Seq(1..MaxBody)
  /\ acquired_data_ \in {nullptr} \cup Positions
  /\ free_buffer_required_ \in Nat
  /\ {stream_info_, stream_info_sent_, end_of_file_, stop_gracefully}
       \subseteq BOOLEAN
  /\ potentially_failed_count_ \in 0..(MaxFailures + 1)
  /\ pc \in {"wait", "idle", "enter", "room", "input", "codec"}
  /\ prev_bytes_consumed \in {FirstIteration} \cup Positions
  /\ ended \in {"no", "FINISHED", "FAILED"}

(* The reader hands on the body as it came, whatever the ring takes of     *)
(* each write and however much is left in the transfer buffer.             *)
WrittenInOrder ==
  /\ \A i \in 1..Arrived : written[i] = i
  /\ downloaded = Arrived + transfer_buffer_.len
  /\ transfer_buffer_.start + transfer_buffer_.len <= TransferSize
  /\ Arrived - released <= RingSize \/ ~InRing

(* The codec reads the stream byte by byte, without a gap and without      *)
(* repeating one, over the ends of views, over the wrap of the ring and    *)
(* over calls of decode(), and only what it has consumed is given back.    *)
FedInOrder ==
  IF acquired_data_ # nullptr
  THEN /\ acquired_data_ = fed
       /\ fed + acquired_available_ = released + view
       /\ acquired_available_ > 0
  ELSE /\ acquired_available_ = 0 /\ view = 0
       /\ (InRing /\ ended = "no") => released = fed
       /\ ~InRing => const_data_pos_ = fed

(* A playback is reported FINISHED only when the sink has all the PCM and  *)
(* the codec every byte that the server sent, or has seen the end of its   *)
(* stream; never when the download broke off.                              *)
FinishedMeansPlayed ==
  ended = "FINISHED" =>
    /\ out.len = 0
    /\ end_of_file_ \/ fed = downloaded
    /\ InRing => reader = "FINISHED"

(* A codec is given at least the space it asked for, within the output     *)
(* buffer, and never asks for more than the buffer could ever have free.   *)
RoomForCodec ==
  /\ out.start + out.len <= out.cap
  /\ ended = "no" => free_buffer_required_ <= out.cap
  /\ pc = "codec" => Free(out) >= free_buffer_required_

(* In every build, a URL is played as the type that its Content-Type names *)
(* if that codec is compiled in, else as the type of its extension; if     *)
(* that is not compiled in either, it is not played (INTEGRATION.md,       *)
(* "Detecting the Audio Format").                                          *)
TypeAsDocumented ==
  [][reader = "start" /\ reader' = "run" =>
       LET named == NamedType[request.content_type]
       IN  detected_file_type' =
             IF named \in request.codecs THEN named
             ELSE ExtensionType[request.url]]_vars

(* The codec has seen the end of its stream and the sink has all the PCM,  *)
(* but more follows than ring and transfer buffer hold: the reader waits   *)
(* for space, and the decoder for the reader.                              *)
Overlong ==
  /\ end_of_file_ /\ out.len = 0
  /\ reader = "run" /\ transfer_buffer_.len > 0 /\ RingSpace = 0

(* However the server portions the body, the codec errs and the sink takes *)
(* little at once, a playback ends, but for an overlong stream: the ring   *)
(* does not stay full or the decoder without input for ever.               *)
PlaybackEnds == <>[](ended # "no" \/ Overlong)
=============================================================================
