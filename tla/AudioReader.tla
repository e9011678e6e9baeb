----------------------------- MODULE AudioReader -----------------------------
(***************************************************************************)
(* AudioReader (src/src/audio_reader.cpp) in bytes, as the loop of         *)
(* reader_thread_func() runs it: start_url(), and run() with its transfer  *)
(* buffer.  Bytes of the body are numbered from 1.  The HTTP client        *)
(* answers as its interface says; the modules HostHttpClient and           *)
(* EspHttpClient look into it.  An answer of nothing is no step.           *)
(***************************************************************************)
EXTENDS TransferBuffer, FileTypeDetection

CONSTANTS Builds,        \* the sets of codecs that may be compiled in
          ContentTypes, Urls,
          NoRequest,
          MaxBody,       \* bound: the bytes of the stream
          RingSize,      \* the bytes the ring buffer holds
          TransferSize,  \* transfer_buffer_size
          RxBufferSize,  \* http_rx_buffer_size
          DefaultRxBufferSize

VARIABLES
  request,               \* build, Content-Type and URL, until start_url() is done
  detected_file_type,
  reader,                \* "start", "run", "stopped", or the flag it has set
  transfer_buffer_,
  downloaded,            \* bytes the client has handed out
  written,               \* the bytes that went into the ring, in their order
  released               \* how many of them it was given back

readerVars == <<request, detected_file_type, reader, transfer_buffer_, downloaded,
                written>>

Arrived == Len(written)
RingSpace == RingSize - (Arrived - released)

(* FLAG_READER_FINISHED or FLAG_READER_ERROR is set.                       *)
ReaderDone == reader \in {"FINISHED", "ERROR"}

MaxReadSize ==
  Lesser(IF RxBufferSize = 0 THEN DefaultRxBufferSize ELSE RxBufferSize,
         TransferSize)

ReaderInit ==
  /\ request \in [codecs : Builds, content_type : ContentTypes, url : Urls]
  /\ detected_file_type = NONE
  /\ reader = "start"
  /\ transfer_buffer_ = Allocated(TransferSize)
  /\ downloaded = 0 /\ written = <<>>

(* play_buffer(): no reader, the buffer is there, and its type is given.   *)
BufferInit ==
  /\ request = NoRequest
  /\ detected_file_type \in UNION Builds
  /\ reader = "none"
  /\ transfer_buffer_ = Allocated(TransferSize)
  /\ \E length \in 1..MaxBody : written = [i \in 1..length |-> i]
  /\ downloaded = Arrived

(* start_url() opens the connection and finds a type that can be decoded.  *)
StartUrl ==
  /\ reader = "start"
  /\ detected_file_type' =
       DetectAudioFileType(request.content_type, request.url, request.codecs)
  /\ detected_file_type' # NONE
  /\ reader' = "run" /\ request' = NoRequest
  /\ UNCHANGED <<transfer_buffer_, downloaded, written>>

(* No memory, no connection, cancelled, or no type.                        *)
StartUrlFails ==
  /\ reader = "start"
  /\ reader' = "ERROR" /\ request' = NoRequest
  /\ UNCHANGED <<detected_file_type, transfer_buffer_, downloaded, written>>

(* Byte i of what the transfer buffer holds.                               *)
Staged(i) == downloaded - transfer_buffer_.len + i

(* Fault: the bytes written are not taken out of the transfer buffer.      *)
DrainKeeping ==
  LET n == Lesser(transfer_buffer_.len, RingSpace)
  IN  /\ reader = "run" /\ n > 0
      /\ written' = written \o [i \in 1..n |-> Staged(i)]
      /\ transfer_buffer_' = IF n < transfer_buffer_.len THEN transfer_buffer_
                             ELSE Decreased(transfer_buffer_, n)
      /\ UNCHANGED <<request, detected_file_type, reader, downloaded>>

(* write(): as much as fits; if nothing does, run() is called again.       *)
Drain ==
  LET n == Lesser(transfer_buffer_.len, RingSpace)
  IN  /\ reader = "run" /\ n > 0
      /\ written' = written \o [i \in 1..n |-> Staged(i)]
      /\ transfer_buffer_' = Decreased(transfer_buffer_, n)
      /\ UNCHANGED <<request, detected_file_type, reader, downloaded>>

(* Fault: run() reads on when the ring has not taken everything.           *)
ReadUndrained == reader = "run"

MayRead == reader = "run" /\ transfer_buffer_.len = 0

ReadBytes ==
  /\ MayRead
  /\ \E n \in 1..Lesser(Free(transfer_buffer_), MaxReadSize) :
       /\ downloaded + n <= MaxBody
       /\ downloaded' = downloaded + n
       /\ transfer_buffer_' = Increased(transfer_buffer_, n)
  /\ UNCHANGED <<request, detected_file_type, reader, written>>

(* The client is closed; the loop sets FLAG_READER_FINISHED or _ERROR.     *)
ReadEnds ==
  /\ MayRead
  /\ reader' \in {"FINISHED", "ERROR"}
  /\ UNCHANGED <<request, detected_file_type, transfer_buffer_, downloaded, written>>

(* A stop command, or FLAG_DECODER_EXITED.                                 *)
Stop ==
  /\ reader = "run"
  /\ reader' = "stopped"
  /\ UNCHANGED <<request, detected_file_type, transfer_buffer_, downloaded, written>>
=============================================================================
