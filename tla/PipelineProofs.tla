---------------------------- MODULE PipelineProofs ----------------------------
(***************************************************************************)
(* The safety of Pipeline for every size of the ring, of the transfer      *)
(* buffer and of the stream, every table of Content-Types and every demand *)
(* of a codec (src/src/audio_reader.cpp, src/src/audio_decoder.cpp): no    *)
(* byte is lost or repeated between the HTTP client and the codec, a       *)
(* finished playback was played to its end, and the codec has the room it  *)
(* asked for.  The invariant has a part for each owner of state: the       *)
(* reader, the view into the ring, the output buffer, and the control of   *)
(* decode().                                                               *)
(***************************************************************************)
EXTENDS Pipeline, SequenceTheorems, TLAPS

(* The sizes and bounds of the assumption, one by one.                     *)
LEMMA Sizes ==
  /\ RingSize \in Nat \ {0} /\ TransferSize \in Nat \ {0}
  /\ DefaultRxBufferSize \in Nat \ {0} /\ MinOutput \in Nat \ {0}
  /\ Required \subseteq Nat \ {0}
  /\ MaxBody \in Nat /\ RxBufferSize \in Nat /\ MaxFailures \in Nat
  /\ UNION Builds \subseteq AllTypes
  BY PipelineAssumption DEF PipelineAssumption

(* The reader: what it has read is written, or in the transfer buffer.     *)
ReaderInv ==
  /\ request # NoRequest =>
       request \in [codecs : Builds, content_type : ContentTypes, url : Urls]
  /\ detected_file_type \in AllTypes \cup {NONE}
  /\ reader \in {"none", "start", "run", "stopped", "FINISHED", "ERROR"}
  /\ BufferTypeOK(transfer_buffer_) /\ transfer_buffer_.cap = TransferSize
  /\ transfer_buffer_.start + transfer_buffer_.len <= TransferSize
  /\ reader \notin {"run", "stopped"} => transfer_buffer_.len = 0
  /\ written \in Seq(1..MaxBody) /\ \A i \in 1..Arrived : written[i] = i
  /\ downloaded \in Nat /\ downloaded <= MaxBody
  /\ downloaded = Arrived + transfer_buffer_.len
  /\ InRing <=> reader # "none"
  /\ InRing => Arrived - released <= RingSize

(* The input of the codec: a view begins where it has read to, and is part *)
(* of what has arrived.                                                    *)
ViewInv ==
  /\ source_mode_ \in {"RING_BUFFER", "CONST_BUFFER"}
  /\ released \in Nat /\ view \in Nat /\ acquired_available_ \in Nat
  /\ const_data_pos_ \in Nat /\ fed \in Nat
  /\ released + view <= Arrived /\ const_data_pos_ <= Arrived /\ fed <= Arrived
  /\ acquired_data_ = nullptr \/ acquired_data_ \in Nat
  /\ ~InRing => acquired_data_ = nullptr
  /\ FedInOrder

(* The output buffer.                                                      *)
RoomInv ==
  /\ BufferTypeOK(out) /\ free_buffer_required_ \in Nat
  /\ RoomForCodec
  /\ pc = "input" => Free(out) >= free_buffer_required_

(* The control of decode().                                                *)
ControlInv ==
  /\ stream_info_ \in BOOLEAN /\ stream_info_sent_ \in BOOLEAN
  /\ end_of_file_ \in BOOLEAN /\ stop_gracefully \in BOOLEAN
  /\ potentially_failed_count_ \in Nat
  /\ potentially_failed_count_ <= MaxFailures + 1
  /\ pc \in {"wait", "idle", "enter", "room", "input", "codec"}
  /\ pc \in {"room", "input", "codec"} =>
       potentially_failed_count_ <= MaxFailures
  /\ prev_bytes_consumed = FirstIteration
     \/ (prev_bytes_consumed \in Nat /\ prev_bytes_consumed <= Arrived)
  /\ ended \in {"no", "FINISHED", "FAILED"}
  /\ ended # "no" => pc \in {"wait", "idle"}
  /\ stop_gracefully => (InRing => ReaderDone)
  /\ FinishedMeansPlayed

PipeInv == ReaderInv /\ ViewInv /\ RoomInv /\ ControlInv

-----------------------------------------------------------------------------
(* The operators the steps are built from.                                 *)

(* free() and the changes of a TransferBuffer, field by field.             *)
LEMMA BufferChanges ==
  ASSUME NEW b, BufferTypeOK(b), NEW n \in Nat
  PROVE  /\ Free(b) \in Int /\ Free(b) = b.cap - b.start - b.len
         /\ BufferTypeOK(Allocated(n)) /\ Allocated(n).start = 0
         /\ Allocated(n).len = 0 /\ Allocated(n).cap = n
         /\ BufferTypeOK(Increased(b, n)) /\ Increased(b, n).start = b.start
         /\ Increased(b, n).len = b.len + n /\ Increased(b, n).cap = b.cap
         /\ BufferTypeOK(Reallocated(b, n)) /\ Reallocated(b, n).start = b.start
         /\ Reallocated(b, n).len = b.len /\ Reallocated(b, n).cap = n
<1>1. b \in [start : Nat, len : Nat, cap : Nat]
  BY DEF BufferTypeOK
<1>2. Free(b) \in Int /\ Free(b) = b.cap - b.start - b.len
  BY <1>1 DEF Free
<1>3. /\ BufferTypeOK(Allocated(n)) /\ Allocated(n).start = 0
      /\ Allocated(n).len = 0 /\ Allocated(n).cap = n
  BY DEF Allocated, BufferTypeOK
<1>4. /\ BufferTypeOK(Increased(b, n)) /\ Increased(b, n).start = b.start
      /\ Increased(b, n).len = b.len + n /\ Increased(b, n).cap = b.cap
  BY <1>1 DEF Increased, BufferTypeOK
<1>5. /\ BufferTypeOK(Reallocated(b, n)) /\ Reallocated(b, n).start = b.start
      /\ Reallocated(b, n).len = b.len /\ Reallocated(b, n).cap = n
  BY <1>1 DEF Reallocated, BufferTypeOK
<1> QED
  BY <1>2, <1>3, <1>4, <1>5

(* decrease_buffer_length(): data that stay do not move, and the end of    *)
(* the data moves to the front only with the last of them.                 *)
LEMMA BufferDecrease ==
  ASSUME NEW b, BufferTypeOK(b), NEW n \in Nat
  PROVE  /\ BufferTypeOK(Decreased(b, n)) /\ Decreased(b, n).cap = b.cap
         /\ n >= b.len =>
              Decreased(b, n).start = 0 /\ Decreased(b, n).len = 0
         /\ n < b.len =>
              /\ Decreased(b, n).start = b.start + n
              /\ Decreased(b, n).len = b.len - n
<1>1. b \in [start : Nat, len : Nat, cap : Nat]
  BY DEF BufferTypeOK
<1>2. CASE n >= b.len
  <2>1. Decreased(b, n) = [start |-> 0, len |-> 0, cap |-> b.cap]
    BY <1>2 DEF Decreased, Allocated
  <2> QED
    BY <1>1, <1>2, <2>1 DEF BufferTypeOK
<1>3. CASE ~(n >= b.len)
  <2>1. n < b.len /\ b.len - n \in Nat /\ b.start + n \in Nat /\ b.cap \in Nat
    BY <1>1, <1>3
  <2>2. Decreased(b, n) =
          [start |-> b.start + n, len |-> b.len - n, cap |-> b.cap]
    BY <1>1, <1>3 DEF Decreased
  <2> QED
    BY <2>1, <2>2 DEF BufferTypeOK
<1> QED
  BY <1>2, <1>3

(* detect_audio_file_type() finds a type there is a codec for, or none.    *)
LEMMA DetectsAType ==
  ASSUME NEW text, NEW url, NEW codecs
  PROVE  DetectAudioFileType(text, url, codecs) \in AllTypes \cup {NONE}
<1>1. TypeFromContentType(text, codecs) \in AllTypes \cup {NONE}
  BY DEF TypeFromContentType, IfBuilt, AllTypes
<1>2. TypeFromUrlExtension(url, codecs) \in AllTypes \cup {NONE}
  <2>1. \A ext \in DOMAIN TypeOfExtension : TypeOfExtension[ext] \in AllTypes
    BY DEF TypeOfExtension, AllTypes
  <2> QED
    BY <2>1 DEF TypeFromUrlExtension, IfBuilt
<1> QED
  BY <1>1, <1>2 DEF DetectAudioFileType

(* What write() appends to the bytes that have arrived.                    *)
LEMMA PieceProperties ==
  ASSUME NEW s \in Seq(1..MaxBody), \A i \in 1..Len(s) : s[i] = i,
         NEW n \in Nat, Len(s) + n <= MaxBody, MaxBody \in Nat,
         NEW piece \in [1..n -> Nat], \A i \in 1..n : piece[i] = Len(s) + i
  PROVE  /\ s \o piece \in Seq(1..MaxBody) /\ Len(s \o piece) = Len(s) + n
         /\ \A i \in 1..(Len(s) + n) : (s \o piece)[i] = i
<1>1. Len(s) \in Nat
  BY LenProperties
<1>2. piece \in Seq(1..MaxBody) /\ Len(piece) = n
  <2>1. piece \in [1..n -> 1..MaxBody]
    BY <1>1
  <2> QED
    BY <2>1
<1>3. /\ s \o piece \in Seq(1..MaxBody)
      /\ Len(s \o piece) = Len(s) + Len(piece)
  BY <1>2, ConcatProperties
<1>4. ASSUME NEW i \in 1..(Len(s) + n)
      PROVE  (s \o piece)[i] = i
  <2>1. (s \o piece)[i] = IF i <= Len(s) THEN s[i] ELSE piece[i - Len(s)]
    BY <1>1, <1>2, ConcatProperties
  <2>2. i <= Len(s) => i \in 1..Len(s)
    BY <1>1
  <2>3. i > Len(s) => i - Len(s) \in 1..n /\ Len(s) + (i - Len(s)) = i
    BY <1>1
  <2> QED
    BY <1>1, <2>1, <2>2, <2>3
<1> QED
  BY <1>2, <1>3, <1>4

(* A view lies within what has arrived and was not released.               *)
LEMMA ViewLengthBound ==
  ASSUME ReaderInv, ViewInv
  PROVE  ViewLength \in Int /\ released + ViewLength <= Arrived
<1>1. Arrived \in Nat /\ released \in Nat
  BY LenProperties DEF ReaderInv, ViewInv, Arrived
<1>2. RingSize - (released % RingSize) \in Int /\ TransferSize \in Int
  BY <1>1, Sizes
<1> DEFINE rest == RingSize - (released % RingSize)
           less == Lesser(Arrived - released, rest)
<1>3. less \in Int /\ less <= Arrived - released
  <2> HIDE DEF rest
  <2> QED
    BY <1>1, <1>2 DEF Lesser, rest
<1>4. ViewLength = Lesser(TransferSize, less)
  BY DEF ViewLength
<1>5. Lesser(TransferSize, less) \in Int /\ Lesser(TransferSize, less) <= less
  <2> HIDE DEF less
  <2> QED
    BY <1>2, <1>3 DEF Lesser
<1> QED
  BY <1>1, <1>3, <1>4, <1>5

-----------------------------------------------------------------------------
(* Nothing has been read, or the buffer of play_buffer() is all there.     *)
LEMMA PInit == Init => PipeInv
<1> SUFFICES ASSUME Init PROVE PipeInv
  OBVIOUS
<1>d. DecoderInit /\ source_mode_ \in {"RING_BUFFER", "CONST_BUFFER"}
  BY DEF Init
<1>a. /\ BufferTypeOK(Allocated(TransferSize)) /\ Allocated(TransferSize).start = 0
      /\ Allocated(TransferSize).len = 0 /\ Allocated(TransferSize).cap = TransferSize
  BY Sizes DEF Allocated, BufferTypeOK
<1>1. ReaderInv
  <2>1. CASE source_mode_ = "RING_BUFFER" /\ ReaderInit
    <3>1. written = <<>> /\ Arrived = 0 /\ written \in Seq(1..MaxBody)
      BY <2>1, EmptySeq DEF ReaderInit, Arrived
    <3>2. released = 0 /\ downloaded = 0 /\ InRing /\ reader = "start"
      BY <1>d, <2>1 DEF DecoderInit, ReaderInit, InRing
    <3>3. /\ request \in [codecs : Builds, content_type : ContentTypes, url : Urls]
          /\ detected_file_type = NONE
          /\ transfer_buffer_ = Allocated(TransferSize)
      BY <2>1 DEF ReaderInit
    <3> QED
      BY <1>a, <3>1, <3>2, <3>3, Sizes DEF ReaderInv
  <2>2. CASE source_mode_ = "CONST_BUFFER" /\ BufferInit
    <3>1. PICK length \in 1..MaxBody : written = [i \in 1..length |-> i]
      BY <2>2 DEF BufferInit
    <3>2. /\ written \in Seq(1..MaxBody) /\ Arrived = length
          /\ \A i \in 1..Arrived : written[i] = i
      <4>1. written \in [1..length -> 1..MaxBody] /\ length \in Nat
        BY <3>1, Sizes
      <4>2. Arrived = length
        BY <3>1, <4>1 DEF Arrived
      <4> QED
        BY <3>1, <4>1, <4>2
    <3>3. ~InRing /\ reader = "none" /\ request = NoRequest
      BY <2>2 DEF BufferInit, InRing
    <3>4. /\ transfer_buffer_ = Allocated(TransferSize) /\ downloaded = Arrived
          /\ detected_file_type \in AllTypes
      BY <2>2, Sizes DEF BufferInit
    <3> QED
      BY <1>a, <3>1, <3>2, <3>3, <3>4, Sizes DEF ReaderInv
  <2> QED
    BY <2>1, <2>2 DEF Init
<1>2. ViewInv
  <2>1. Arrived \in Nat
    BY <1>1, LenProperties DEF ReaderInv, Arrived
  <2> QED
    BY <1>d, <2>1 DEF DecoderInit, ViewInv, FedInOrder, nullptr
<1>3. RoomInv
  BY <1>a, <1>d, Sizes DEF DecoderInit, RoomInv, RoomForCodec
<1>4. ControlInv
  <2>1. FinishedMeansPlayed
    BY <1>d DEF DecoderInit, FinishedMeansPlayed
  <2>2. potentially_failed_count_ = 0 /\ 0 <= MaxFailures + 1
    BY <1>d, Sizes DEF DecoderInit
  <2>3. /\ stream_info_ \in BOOLEAN /\ stream_info_sent_ \in BOOLEAN
        /\ end_of_file_ \in BOOLEAN /\ stop_gracefully \in BOOLEAN
        /\ ~stop_gracefully
    BY <1>d DEF DecoderInit
  <2>4. pc = "wait" /\ ended = "no" /\ prev_bytes_consumed = FirstIteration
    BY <1>d DEF DecoderInit
  <2> QED
    BY <2>1, <2>2, <2>3, <2>4 DEF ControlInv
<1> QED
  BY <1>1, <1>2, <1>3, <1>4 DEF PipeInv

-----------------------------------------------------------------------------
(* The steps of the reader.                                                *)

(* What the decoder relies on of a step of the reader: what has arrived    *)
(* stays, and a reader that is done has no more bytes to hand on.          *)
LEMMA ReaderKeepsTheRest ==
  ASSUME PipeInv, ReaderInv', UNCHANGED decoderVars,
         Arrived <= Arrived',
         ReaderDone => reader' = reader,
         reader # "run" => UNCHANGED <<downloaded, written>>
  PROVE  PipeInv'
<1> USE DEF decoderVars, inputVars, viewVars, outputVars, codecVars, callVars
<1>1. ReaderInv /\ ViewInv /\ RoomInv /\ ControlInv
  BY DEF PipeInv
<1>2. Arrived \in Nat /\ Arrived' \in Nat
  BY <1>1, LenProperties DEF ReaderInv, Arrived
<1>3. ViewInv'
  <2>1. FedInOrder'
    BY <1>1 DEF ViewInv, FedInOrder, InRing
  <2> QED
    BY <1>1, <1>2, <2>1 DEF ViewInv, InRing
<1>4. RoomInv'
  BY <1>1 DEF RoomInv, RoomForCodec, Free
<1>5. ControlInv'
  <2>1. FinishedMeansPlayed'
    <3>1. ended = "FINISHED" => reader # "run"
      BY <1>1 DEF ControlInv, FinishedMeansPlayed, ReaderInv
    <3> QED
      BY <1>1, <3>1 DEF ControlInv, FinishedMeansPlayed, InRing, ReaderDone
  <2> QED
    BY <1>1, <1>2, <2>1 DEF ControlInv, InRing, ReaderDone
<1> QED
  BY <1>3, <1>4, <1>5 DEF PipeInv

(* One step of the reader, or its stop on the decoder's exit.              *)
LEMMA ReaderKeepsPipeInv == PipeInv /\ Reader => PipeInv'
<1> SUFFICES ASSUME PipeInv, Reader PROVE PipeInv'
  OBVIOUS
<1>1. ReaderInv /\ UNCHANGED decoderVars /\ source_mode_' = source_mode_
  BY DEF PipeInv, Reader, decoderVars
<1>2. released' = released /\ (InRing' <=> InRing) /\ released \in Nat
  BY <1>1 DEF decoderVars, inputVars, viewVars, InRing, PipeInv, ViewInv
<1>3. Arrived \in Nat
  BY <1>1, LenProperties DEF ReaderInv, Arrived
<1>4. CASE StartUrl
  <2>1. detected_file_type' \in AllTypes \cup {NONE}
    BY <1>4, DetectsAType DEF StartUrl
  <2>2. ReaderInv'
    BY <1>1, <1>2, <1>4, <2>1 DEF ReaderInv, StartUrl, Arrived
  <2> QED
    BY <1>1, <1>3, <1>4, <2>2, ReaderKeepsTheRest DEF StartUrl, ReaderDone, Arrived
<1>5. CASE StartUrlFails
  <2>1. ReaderInv'
    BY <1>1, <1>2, <1>5 DEF ReaderInv, StartUrlFails, Arrived
  <2> QED
    BY <1>1, <1>3, <1>5, <2>1, ReaderKeepsTheRest
       DEF StartUrlFails, ReaderDone, Arrived
<1>6. CASE Drain
  <2> DEFINE n == Lesser(transfer_buffer_.len, RingSpace)
             piece == [i \in 1..n |-> Staged(i)]
  <2>1. /\ reader = "run" /\ n > 0 /\ written' = written \o piece
        /\ transfer_buffer_' = Decreased(transfer_buffer_, n)
        /\ UNCHANGED <<request, detected_file_type, reader, downloaded>>
    BY <1>6 DEF Drain
  <2>2. /\ BufferTypeOK(transfer_buffer_) /\ transfer_buffer_.len \in Nat
        /\ transfer_buffer_.start \in Nat /\ InRing
        /\ downloaded = Arrived + transfer_buffer_.len
        /\ downloaded \in Nat /\ downloaded <= MaxBody
    BY <1>1, <2>1 DEF ReaderInv, BufferTypeOK
  <2>3. n \in Nat /\ n <= transfer_buffer_.len /\ n <= RingSpace
    BY <1>2, <1>3, <2>1, <2>2, Sizes DEF Lesser, RingSpace
  <2>4. /\ piece \in [1..n -> Nat]
        /\ \A i \in 1..n : piece[i] = Arrived + i
    BY <1>3, <2>2, <2>3 DEF Staged
  <2> HIDE DEF n, piece
  <2>5. /\ written' \in Seq(1..MaxBody) /\ Arrived' = Arrived + n
        /\ \A i \in 1..Arrived' : written'[i] = i
    <3>1. written \in Seq(1..MaxBody) /\ \A i \in 1..Len(written) : written[i] = i
      BY <1>1 DEF ReaderInv, Arrived
    <3>2. Len(written) + n <= MaxBody /\ MaxBody \in Nat
      BY <1>3, <2>2, <2>3, Sizes DEF Arrived
    <3>3. /\ written \o piece \in Seq(1..MaxBody)
          /\ Len(written \o piece) = Len(written) + n
          /\ \A i \in 1..(Len(written) + n) : (written \o piece)[i] = i
      BY <2>3, <2>4, <3>1, <3>2, PieceProperties DEF Arrived
    <3> QED
      BY <2>1, <3>3 DEF Arrived
  <2>6. /\ BufferTypeOK(transfer_buffer_')
        /\ transfer_buffer_'.cap = transfer_buffer_.cap
        /\ transfer_buffer_'.len = transfer_buffer_.len - n
        /\ transfer_buffer_'.start + transfer_buffer_'.len <= TransferSize
    <3>1. transfer_buffer_.start + transfer_buffer_.len <= TransferSize
      BY <1>1 DEF ReaderInv
    <3> DEFINE b == Decreased(transfer_buffer_, n)
    <3>2. /\ BufferTypeOK(b) /\ b.cap = transfer_buffer_.cap
          /\ n >= transfer_buffer_.len => b.start = 0 /\ b.len = 0
          /\ n < transfer_buffer_.len =>
               /\ b.start = transfer_buffer_.start + n
               /\ b.len = transfer_buffer_.len - n
      BY <2>2, <2>3, BufferDecrease
    <3>3. b.len = transfer_buffer_.len - n /\ b.start + b.len <= TransferSize
      <4> HIDE DEF b
      <4> QED
        BY <2>2, <2>3, <3>1, <3>2, Sizes
    <3> QED
      BY <2>1, <3>2, <3>3
  <2>7. Arrived' - released' <= RingSize
    BY <1>2, <1>3, <2>3, <2>5, Sizes DEF RingSpace
  <2>8. ReaderInv'
    <3>1. downloaded' = Arrived' + transfer_buffer_'.len
      BY <1>3, <2>1, <2>2, <2>3, <2>5, <2>6
    <3>2. reader \notin {"run", "stopped"} => FALSE
      BY <2>1
    <3> QED
      BY <1>1, <1>2, <2>1, <2>2, <2>5, <2>6, <2>7, <3>1, <3>2 DEF ReaderInv
  <2> QED
    BY <1>1, <1>3, <2>1, <2>3, <2>5, <2>8, ReaderKeepsTheRest DEF ReaderDone
<1>7. CASE ReadBytes
  <2>1. PICK n \in 1..Lesser(Free(transfer_buffer_), MaxReadSize) :
          /\ downloaded + n <= MaxBody
          /\ downloaded' = downloaded + n
          /\ transfer_buffer_' = Increased(transfer_buffer_, n)
    BY <1>7 DEF ReadBytes
  <2>2. /\ reader = "run" /\ transfer_buffer_.len = 0
        /\ UNCHANGED <<request, detected_file_type, reader, written>>
    BY <1>7 DEF ReadBytes, MayRead
  <2>3. /\ BufferTypeOK(transfer_buffer_) /\ transfer_buffer_.len \in Nat
        /\ transfer_buffer_.start \in Nat /\ transfer_buffer_.cap = TransferSize
    BY <1>1 DEF ReaderInv, BufferTypeOK
  <2>4. n \in Nat /\ n <= Free(transfer_buffer_)
    <3>1. Free(transfer_buffer_) \in Int
      BY <2>3, Sizes DEF Free
    <3>2. MaxReadSize \in Int
      BY Sizes DEF MaxReadSize, Lesser
    <3>3. /\ Lesser(Free(transfer_buffer_), MaxReadSize) \in Int
          /\ Lesser(Free(transfer_buffer_), MaxReadSize) <= Free(transfer_buffer_)
      BY <3>1, <3>2 DEF Lesser
    <3> QED
      BY <3>1, <3>3
  <2>5. /\ BufferTypeOK(transfer_buffer_') /\ transfer_buffer_'.cap = TransferSize
        /\ transfer_buffer_'.start = transfer_buffer_.start
        /\ transfer_buffer_'.len = transfer_buffer_.len + n
        /\ n <= TransferSize - transfer_buffer_.start - transfer_buffer_.len
    BY <2>1, <2>3, <2>4, BufferChanges
  <2>6. ReaderInv'
    BY <1>1, <1>2, <1>3, <2>1, <2>2, <2>3, <2>4, <2>5, Sizes
       DEF ReaderInv, Arrived
  <2> QED
    BY <1>1, <1>3, <2>2, <2>6, ReaderKeepsTheRest DEF ReaderDone, Arrived
<1>8. CASE ReadEnds \/ Stop
  <2>1. /\ reader = "run" /\ reader' \in {"FINISHED", "ERROR", "stopped"}
        /\ reader' # "stopped" => transfer_buffer_.len = 0
        /\ UNCHANGED <<request, detected_file_type, transfer_buffer_, downloaded,
                       written>>
    BY <1>8 DEF ReadEnds, Stop, MayRead
  <2>2. ReaderInv'
    BY <1>1, <1>2, <2>1 DEF ReaderInv, Arrived
  <2> QED
    BY <1>1, <1>3, <2>1, <2>2, ReaderKeepsTheRest DEF ReaderDone, Arrived
<1> QED
  BY <1>4, <1>5, <1>6, <1>7, <1>8 DEF Reader, ReaderWorks

-----------------------------------------------------------------------------
(* The steps of the decoder.                                               *)

(* It leaves the reader's part alone, but that it may make space.          *)
LEMMA DecoderKeepsReader ==
  ASSUME ReaderInv, UNCHANGED <<readerVars, source_mode_>>,
         released \in Nat, released' \in Nat, released <= released'
  PROVE  ReaderInv' /\ Arrived' = Arrived /\ Arrived \in Nat
<1>1. Arrived' = Arrived /\ Arrived \in Nat
  BY LenProperties DEF ReaderInv, Arrived, readerVars
<1>2. InRing => Arrived' - released' <= RingSize
  <2>1. InRing => Arrived - released <= RingSize
    BY DEF ReaderInv
  <2>2. \A a, r, q \in Nat : r <= q /\ a - r <= RingSize => a - q <= RingSize
    BY Sizes
  <2> QED
    BY <1>1, <2>1, <2>2
<1>3. UNCHANGED <<request, detected_file_type, reader, transfer_buffer_, downloaded,
                  written, source_mode_>>
  BY DEF readerVars
<1> QED
  BY <1>1, <1>2, <1>3 DEF ReaderInv, InRing

(* No step of decode() is left once the playback has ended.                *)
LEMMA DecoderHasNotEnded ==
  ASSUME PipeInv, Decoder
  PROVE  ended = "no"
<1>1. ended # "no" => pc \in {"wait", "idle"}
  BY DEF PipeInv, ControlInv
<1>2. CASE Start \/ StartFails \/ Call
  BY <1>2 DEF Start, StartFails, Call
<1>3. CASE Finish \/ GiveUp \/ GetInput
  BY <1>1, <1>3 DEF Finish, GiveUp, GetInput
<1>4. CASE \E n \in Taken : FlushFirst(n) \/ MakeRoom(n)
  BY <1>1, <1>4 DEF FlushFirst, MakeRoom
<1>5. CASE \E n \in 0..InputLen : Codec(n)
  BY <1>1, <1>5 DEF Codec, Decodes, NeedsMore, HeaderReady, OutputTooSmall,
                    EndOfStream, Error, AllocationFails, Requires, Continues,
                    Fails, Consume
<1> QED
  BY <1>2, <1>3, <1>4, <1>5 DEF Decoder, Decode

(* What the codec may consume is there.                                    *)
LEMMA ConsumeBound ==
  ASSUME PipeInv, NEW n, Consume(n)
  PROVE  /\ n \in Nat /\ fed' = fed + n /\ fed + n <= Arrived
         /\ InRing => n <= acquired_available_ /\ const_data_pos_' = const_data_pos_
         /\ ~InRing => /\ const_data_pos_' = const_data_pos_ + n
                       /\ const_data_pos_ = fed
         /\ pc = "codec" /\ source_mode_' = source_mode_
<1>1. ReaderInv /\ ViewInv /\ ControlInv
  BY DEF PipeInv
<1>2. Arrived \in Nat
  BY <1>1, LenProperties DEF ReaderInv, Arrived
<1>3. /\ n \in 0..InputLen /\ fed' = fed + n /\ pc = "codec"
      /\ const_data_pos_' = IF InRing THEN const_data_pos_ ELSE const_data_pos_ + n
      /\ source_mode_' = source_mode_
  BY DEF Consume
<1>4. ended = "no"
  BY <1>1, <1>3 DEF ControlInv
<1>5. CASE InRing
  <2>1. n \in Nat /\ n <= acquired_available_
    BY <1>1, <1>3, <1>5 DEF InputLen, ViewInv
  <2>2. fed + acquired_available_ <= Arrived
    BY <1>1, <1>2, <1>4, <1>5 DEF ViewInv, FedInOrder
  <2> QED
    BY <1>1, <1>2, <1>3, <1>5, <2>1, <2>2 DEF ViewInv
<1>6. CASE ~InRing
  <2>1. const_data_pos_ = fed
    BY <1>1, <1>6 DEF ViewInv, FedInOrder
  <2>2. n \in Nat /\ n <= Arrived - const_data_pos_
    BY <1>1, <1>2, <1>3, <1>6 DEF InputLen, ViewInv
  <2> QED
    BY <1>1, <1>2, <1>3, <1>6, <2>1, <2>2 DEF ViewInv
<1> QED
  BY <1>5, <1>6

(* A codec that consumes, and the playback goes on.                        *)
LEMMA AdvanceKeepsView ==
  ASSUME PipeInv, NEW n, Consume(n), Advance(n), UNCHANGED <<readerVars, ended>>
  PROVE  ReaderInv' /\ ViewInv'
<1>1. ReaderInv /\ ViewInv /\ ControlInv
  BY DEF PipeInv
<1>2. /\ n \in Nat /\ fed' = fed + n /\ fed + n <= Arrived
      /\ InRing => n <= acquired_available_ /\ const_data_pos_' = const_data_pos_
      /\ ~InRing => /\ const_data_pos_' = const_data_pos_ + n
                    /\ const_data_pos_ = fed
      /\ pc = "codec" /\ source_mode_' = source_mode_
  BY ConsumeBound
<1>3. ended = "no" /\ ended' = "no"
  BY <1>1, <1>2 DEF ControlInv
<1>4. Arrived \in Nat /\ Arrived' = Arrived /\ (InRing' <=> InRing)
  BY <1>1, <1>2, LenProperties DEF ReaderInv, Arrived, readerVars, InRing
<1>5. CASE ~InRing
  <2>1. UNCHANGED <<released, view, acquired_data_, acquired_available_>>
    BY <1>5 DEF Advance, viewVars
  <2>2. acquired_data_ = nullptr
    BY <1>1, <1>5 DEF ViewInv
  <2>3. ViewInv'
    BY <1>1, <1>2, <1>4, <1>5, <2>1, <2>2 DEF ViewInv, FedInOrder
  <2> QED
    BY <1>1, <1>2, <2>1, <2>3, DecoderKeepsReader DEF ViewInv
<1>6. CASE InRing /\ n = acquired_available_
  <2>1. /\ released' = released + view /\ view' = 0
        /\ acquired_data_' = nullptr /\ acquired_available_' = 0
    BY <1>6 DEF Advance, ReleaseAcquired
  <2>2. released + view = fed + n
    BY <1>1, <1>2, <1>3, <1>6 DEF ViewInv, FedInOrder
  <2>3. ViewInv'
    BY <1>1, <1>2, <1>4, <1>6, <2>1, <2>2 DEF ViewInv, FedInOrder
  <2> QED
    BY <1>1, <1>2, <2>1, <2>3, DecoderKeepsReader DEF ViewInv
<1>7. CASE InRing /\ n # acquired_available_
  <2>1. /\ acquired_data_' = acquired_data_ + n
        /\ acquired_available_' = acquired_available_ - n
        /\ released' = released /\ view' = view
    BY <1>7 DEF Advance
  <2>2. /\ acquired_data_ # nullptr /\ acquired_data_ = fed
        /\ fed + acquired_available_ = released + view
    BY <1>1, <1>2, <1>7 DEF ViewInv, FedInOrder
  <2>3. /\ acquired_available_' \in Nat /\ acquired_available_' > 0
        /\ acquired_data_' \in Nat /\ acquired_data_' # nullptr
    BY <1>1, <1>2, <1>7, <2>1, <2>2 DEF ViewInv, nullptr
  <2>4. FedInOrder'
    BY <1>1, <1>2, <2>1, <2>2, <2>3 DEF ViewInv, FedInOrder
  <2>5. ViewInv'
    BY <1>1, <1>2, <1>4, <1>7, <2>1, <2>2, <2>3, <2>4 DEF ViewInv
  <2> QED
    BY <1>1, <1>2, <2>1, <2>5, DecoderKeepsReader DEF ViewInv
<1> QED
  BY <1>5, <1>6, <1>7

(* release_acquired() when decode() ends the playback.                     *)
LEMMA ReleaseKeepsView ==
  ASSUME PipeInv, ReleaseAcquired, UNCHANGED <<readerVars, source_mode_>>,
         ended' # "no",
         \/ UNCHANGED <<const_data_pos_, fed>>
         \/ \E n \in Nat : Consume(n)
  PROVE  ReaderInv' /\ ViewInv'
<1>1. ReaderInv /\ ViewInv
  BY DEF PipeInv
<1>2. /\ released' = released + view /\ view' = 0
      /\ acquired_data_' = nullptr /\ acquired_available_' = 0
  BY DEF ReleaseAcquired
<1>3. Arrived \in Nat /\ Arrived' = Arrived /\ (InRing' <=> InRing)
  BY <1>1, LenProperties DEF ReaderInv, Arrived, readerVars, InRing
<1>4. /\ const_data_pos_' \in Nat /\ fed' \in Nat
      /\ const_data_pos_' <= Arrived /\ fed' <= Arrived
      /\ ~InRing => const_data_pos_' = fed'
  <2>1. CASE UNCHANGED <<const_data_pos_, fed>>
    BY <1>1, <2>1 DEF ViewInv, FedInOrder
  <2>2. CASE \E n \in Nat : Consume(n)
    <3>1. PICK n \in Nat : Consume(n)
      BY <2>2
    <3>2. /\ fed' = fed + n /\ fed + n <= Arrived
          /\ InRing => const_data_pos_' = const_data_pos_
          /\ ~InRing => /\ const_data_pos_' = const_data_pos_ + n
                        /\ const_data_pos_ = fed
      BY <3>1, ConsumeBound
    <3> QED
      BY <1>1, <1>3, <3>2 DEF ViewInv
  <2> QED
    BY <2>1, <2>2
<1>5. ViewInv'
  <2>1. FedInOrder'
    BY <1>2, <1>3, <1>4 DEF FedInOrder
  <2> QED
    BY <1>1, <1>2, <1>3, <1>4, <2>1 DEF ViewInv
<1> QED
  BY <1>1, <1>2, <1>5, DecoderKeepsReader DEF ViewInv

(* A step of decode() leaves its control in order if it counts failures    *)
(* only from within the limit and does not end the playback.               *)
LEMMA ControlGoesOn ==
  ASSUME PipeInv, Arrived' = Arrived, ended' = "no",
         UNCHANGED <<reader, source_mode_>>,
         stream_info_' \in BOOLEAN, stream_info_sent_' \in BOOLEAN,
         end_of_file_' \in BOOLEAN,
         stop_gracefully' \in {stop_gracefully, InRing => ReaderDone},
         potentially_failed_count_' \in Nat,
         potentially_failed_count_' <= MaxFailures + 1,
         pc' \in {"idle", "enter", "room", "input", "codec"},
         pc' \in {"room", "input", "codec"} =>
           potentially_failed_count_' <= MaxFailures,
         \/ prev_bytes_consumed' = FirstIteration
         \/ prev_bytes_consumed' \in Nat /\ prev_bytes_consumed' <= Arrived
  PROVE  ControlInv'
<1>1. ControlInv
  BY DEF PipeInv
<1>2. FinishedMeansPlayed'
  BY DEF FinishedMeansPlayed
<1>3. /\ stop_gracefully' \in BOOLEAN
      /\ stop_gracefully' => (InRing' => ReaderDone')
  <2>1. (InRing => ReaderDone) \in BOOLEAN /\ (InRing' <=> InRing)
        /\ (ReaderDone' <=> ReaderDone)
    BY DEF InRing, ReaderDone
  <2>2. stop_gracefully \in BOOLEAN
        /\ (stop_gracefully => (InRing => ReaderDone))
    BY <1>1 DEF ControlInv
  <2> QED
    BY <2>1, <2>2
<1>4. FirstIteration' = FirstIteration
  BY DEF FirstIteration
<1> QED
  BY <1>2, <1>3, <1>4 DEF ControlInv

(* The state of decode() before a step that goes on.                       *)
LEMMA Before ==
  ASSUME PipeInv, Decoder
  PROVE  /\ ReaderInv /\ ViewInv /\ RoomInv /\ ControlInv
         /\ ended = "no" /\ Arrived \in Nat /\ released \in Nat
         /\ BufferTypeOK(out) /\ Free(out) \in Int
         /\ Free(out) = out.cap - out.start - out.len
         /\ out.start \in Nat /\ out.len \in Nat /\ out.cap \in Nat
         /\ stream_info_ \in BOOLEAN /\ stream_info_sent_ \in BOOLEAN
         /\ end_of_file_ \in BOOLEAN
<1>1. ReaderInv /\ ViewInv /\ RoomInv /\ ControlInv
  BY DEF PipeInv
<1>2. Arrived \in Nat
  BY <1>1, LenProperties DEF ReaderInv, Arrived
<1>3. /\ BufferTypeOK(out) /\ out.start \in Nat /\ out.len \in Nat
      /\ out.cap \in Nat
  BY <1>1 DEF RoomInv, BufferTypeOK
<1>4. Free(out) = out.cap - out.start - out.len
  BY DEF Free
<1> QED
  BY <1>1, <1>2, <1>3, <1>4, DecoderHasNotEnded DEF ViewInv, ControlInv

(* A step that leaves the input alone.                                     *)
LEMMA InputStays ==
  ASSUME PipeInv, Decoder, UNCHANGED <<readerVars, source_mode_, inputVars>>
  PROVE  ReaderInv' /\ Arrived' = Arrived /\ (ended' = "no" => ViewInv')
<1>1. /\ ReaderInv /\ ViewInv /\ ended = "no" /\ Arrived \in Nat
      /\ released \in Nat
  BY Before
<1>2. UNCHANGED <<released, view, acquired_data_, acquired_available_,
                  const_data_pos_, fed, source_mode_>>
  BY DEF inputVars, viewVars
<1>3. ReaderInv' /\ Arrived' = Arrived
  BY <1>1, <1>2, DecoderKeepsReader
<1>4. ended' = "no" => ViewInv'
  BY <1>1, <1>2, <1>3 DEF ViewInv, FedInOrder, InRing
<1> QED
  BY <1>3, <1>4

(* start() makes the output buffer as large as the codec needs.            *)
LEMMA StartKeepsPipeInv ==
  ASSUME PipeInv, UNCHANGED readerVars, Start
  PROVE  PipeInv'
<1>1. Decoder
  BY DEF Decoder
<1>2. /\ UNCHANGED <<source_mode_, inputVars, stream_info_sent_, stream_info_,
                     end_of_file_, potentially_failed_count_, callVars, ended>>
      /\ pc' = "idle" /\ free_buffer_required_' = InitialRoom
      /\ out' = IF out.cap < InitialRoom THEN Allocated(InitialRoom) ELSE out
  BY DEF Start
<1>3. ReaderInv' /\ ViewInv' /\ Arrived' = Arrived /\ ended' = "no"
  BY <1>1, <1>2, InputStays, Before
<1>4. InitialRoom \in Nat
  BY Sizes DEF InitialRoom
<1>5. RoomInv'
  <2>1. out.start + out.len <= out.cap
    BY DEF PipeInv, RoomInv, RoomForCodec
  <2>2. CASE out.cap < InitialRoom
    <3>1. /\ BufferTypeOK(out') /\ out'.start = 0 /\ out'.len = 0
          /\ out'.cap = InitialRoom
      BY <1>1, <1>2, <1>4, <2>2, Before, BufferChanges
    <3> QED
      BY <1>2, <1>4, <3>1 DEF RoomInv, RoomForCodec
  <2>3. CASE ~(out.cap < InitialRoom)
    <3>1. out' = out /\ InitialRoom <= out.cap /\ BufferTypeOK(out)
      BY <1>1, <1>2, <1>4, <2>3, Before
    <3> QED
      BY <1>2, <1>4, <2>1, <3>1 DEF RoomInv, RoomForCodec
  <2> QED
    BY <2>2, <2>3
<1>6. ControlInv'
  <2>1. /\ ControlInv /\ UNCHANGED <<reader, stop_gracefully, prev_bytes_consumed>>
    BY <1>2 DEF PipeInv, readerVars, callVars
  <2> QED
    BY <1>2, <1>3, <2>1, ControlGoesOn DEF ControlInv
<1> QED
  BY <1>3, <1>5, <1>6 DEF PipeInv

(* A playback that does not start.                                         *)
LEMMA StartFailsKeepsPipeInv ==
  ASSUME PipeInv, UNCHANGED readerVars, StartFails
  PROVE  PipeInv'
<1>1. /\ pc = "wait" /\ ended' = "FAILED"
      /\ UNCHANGED <<source_mode_, inputVars, outputVars, codecVars, pc, callVars>>
  BY DEF StartFails
<1> USE DEF inputVars, viewVars, outputVars, codecVars, callVars
<1>2. Decoder
  BY DEF Decoder
<1>3. ReaderInv' /\ Arrived' = Arrived
  BY <1>1, <1>2, InputStays
<1>4. ViewInv'
  BY <1>1, <1>2, <1>3, Before DEF ViewInv, FedInOrder, InRing
<1>5. RoomInv'
  BY <1>1, <1>2, Before DEF RoomInv, RoomForCodec, Free
<1>6. ControlInv'
  <2>1. FinishedMeansPlayed'
    BY <1>1 DEF FinishedMeansPlayed
  <2>2. reader' = reader
    BY DEF readerVars
  <2> QED
    BY <1>1, <1>2, <1>3, <2>1, <2>2, Before DEF ControlInv, InRing, ReaderDone
<1> QED
  BY <1>3, <1>4, <1>5, <1>6 DEF PipeInv

(* What run_decoder() saw of the reader remains true.                      *)
LEMMA CallKeepsPipeInv ==
  ASSUME PipeInv, UNCHANGED readerVars, Call
  PROVE  PipeInv'
<1>1. Decoder
  BY DEF Decoder, Decode
<1>2. /\ pc' = "enter" /\ stop_gracefully' = (InRing => ReaderDone)
      /\ prev_bytes_consumed' = FirstIteration
      /\ UNCHANGED <<source_mode_, inputVars, outputVars, codecVars, ended>>
  BY DEF Call
<1>3. ReaderInv' /\ ViewInv' /\ Arrived' = Arrived /\ ended' = "no"
  BY <1>1, <1>2, InputStays, Before
<1>4. RoomInv'
  BY <1>1, <1>2, Before DEF RoomInv, RoomForCodec, Free, outputVars, codecVars
<1>5. ControlInv'
  <2>1. /\ ControlInv /\ reader' = reader
        /\ UNCHANGED <<stream_info_sent_, stream_info_, end_of_file_,
                       potentially_failed_count_, source_mode_>>
    BY <1>2 DEF PipeInv, readerVars, outputVars, codecVars
  <2> QED
    BY <1>2, <1>3, <2>1, ControlGoesOn DEF ControlInv
<1> QED
  BY <1>3, <1>4, <1>5 DEF PipeInv

(* The two results that end a playback before the codec is called.         *)
LEMMA EndsKeepsPipeInv ==
  ASSUME PipeInv, UNCHANGED readerVars, Finish \/ GiveUp
  PROVE  PipeInv'
<1>1. Decoder
  BY DEF Decoder, Decode
<1>b. /\ ReaderInv /\ ViewInv /\ RoomInv /\ ControlInv
      /\ ended = "no" /\ Arrived \in Nat
  BY <1>1, Before
<1>2. /\ pc = "enter" /\ pc' = "idle" /\ ended' \in {"FINISHED", "FAILED"}
      /\ ReleaseAcquired
      /\ UNCHANGED <<source_mode_, const_data_pos_, fed, outputVars,
                     codecVars, callVars>>
  BY DEF Finish, GiveUp, Ends
<1> USE DEF outputVars, codecVars, callVars
<1>3. ReaderInv' /\ ViewInv'
  BY <1>2, ReleaseKeepsView
<1>4. RoomInv'
  BY <1>b, <1>2 DEF RoomInv, RoomForCodec
<1>r. reader' = reader /\ (InRing' <=> InRing) /\ (ReaderDone' <=> ReaderDone)
      /\ Arrived' = Arrived /\ downloaded' = downloaded
  BY <1>2 DEF readerVars, InRing, ReaderDone, Arrived
<1>5. FinishedMeansPlayed'
  <2>1. CASE ended' = "FAILED"
    BY <2>1 DEF FinishedMeansPlayed
  <2>2. CASE ended' = "FINISHED"
    <3>1. Drained /\ reader # "ERROR"
      BY <2>2 DEF Finish, GiveUp, Ends
    <3>2. out.len = 0 /\ (InRing => reader = "FINISHED")
      BY <1>b, <3>1 DEF Drained, ControlInv, ReaderDone
    <3>3. ASSUME InputEmpty PROVE fed = downloaded
      <4>2. CASE InRing
        <5>1. acquired_available_ = 0 /\ Arrived = released
          BY <3>3, <4>2 DEF InputEmpty
        <5>2. released = fed
          BY <1>b, <4>2, <5>1 DEF ViewInv, FedInOrder
        <5>3. downloaded = Arrived
          BY <1>b, <3>2, <4>2 DEF ReaderInv
        <5> QED
          BY <5>1, <5>2, <5>3
      <4>3. CASE ~InRing
        <5>1. const_data_pos_ = Arrived
          BY <3>3, <4>3 DEF InputEmpty
        <5>2. const_data_pos_ = fed
          BY <1>b, <4>3 DEF ViewInv, FedInOrder
        <5>3. downloaded = Arrived
          BY <1>b, <4>3 DEF ReaderInv
        <5> QED
          BY <5>1, <5>2, <5>3
      <4> QED
        BY <4>2, <4>3
    <3>4. end_of_file_ \/ fed = downloaded
      BY <3>1, <3>3 DEF Drained
    <3> QED
      BY <1>2, <1>r, <3>2, <3>4 DEF FinishedMeansPlayed
  <2> QED
    BY <1>2, <2>1, <2>2
<1>6. ControlInv'
  BY <1>b, <1>2, <1>r, <1>5 DEF ControlInv
<1> QED
  BY <1>3, <1>4, <1>5, <1>6 DEF PipeInv

(* What the sink takes leaves a sound output buffer.                       *)
LEMMA FlushKeepsBuffer ==
  ASSUME RoomInv, stream_info_sent_ \in BOOLEAN, NEW n \in Taken, Flush(n)
  PROVE  /\ BufferTypeOK(out') /\ out'.cap = out.cap /\ Free(out') \in Int
         /\ out'.start + out'.len <= out'.cap /\ stream_info_sent_' \in BOOLEAN
<1>1. /\ BufferTypeOK(out) /\ out.start \in Nat /\ out.len \in Nat
      /\ out.cap \in Nat /\ out.start + out.len <= out.cap
  BY DEF RoomInv, RoomForCodec, BufferTypeOK
<1>2. n \in Nat
  BY <1>1 DEF Taken
<1>3. CASE out' = Decreased(out, n) /\ stream_info_sent_' = TRUE
  <2> DEFINE b == Decreased(out, n)
  <2>1. /\ BufferTypeOK(b) /\ b.cap = out.cap
        /\ n >= out.len => b.start = 0 /\ b.len = 0
        /\ n < out.len => b.start = out.start + n /\ b.len = out.len - n
    BY <1>1, <1>2, BufferDecrease
  <2>2. b.start + b.len <= b.cap /\ Free(b) \in Int
    <3> HIDE DEF b
    <3>1. b.start \in Nat /\ b.len \in Nat /\ b.cap \in Nat
      BY <2>1 DEF BufferTypeOK
    <3> QED
      BY <1>1, <1>2, <2>1, <3>1 DEF Free
  <2> QED
    BY <1>3, <2>1, <2>2
<1>4. CASE UNCHANGED outputVars
  BY <1>1, <1>4 DEF outputVars, Free
<1> QED
  BY <1>3, <1>4 DEF Flush

(* The flush before the loop of decode().                                  *)
LEMMA FlushFirstKeepsPipeInv ==
  ASSUME PipeInv, UNCHANGED readerVars, NEW n \in Taken, FlushFirst(n)
  PROVE  PipeInv'
<1>1. Decoder
  BY DEF Decoder, Decode
<1>2. /\ Flush(n) /\ pc' = "room" /\ potentially_failed_count_ <= MaxFailures
      /\ UNCHANGED <<source_mode_, inputVars, codecVars, callVars, ended>>
  BY DEF FlushFirst
<1>3. /\ ReaderInv' /\ ViewInv' /\ Arrived' = Arrived /\ ended' = "no"
      /\ RoomInv /\ ControlInv /\ stream_info_sent_ \in BOOLEAN
  BY <1>1, <1>2, InputStays, Before
<1>4. /\ BufferTypeOK(out') /\ out'.cap = out.cap
      /\ out'.start + out'.len <= out'.cap /\ stream_info_sent_' \in BOOLEAN
  BY <1>2, <1>3, FlushKeepsBuffer
<1>5. RoomInv'
  BY <1>1, <1>2, <1>3, <1>4, Before DEF RoomInv, RoomForCodec, codecVars
<1>6. ControlInv'
  <2>1. /\ reader' = reader
        /\ UNCHANGED <<stream_info_, end_of_file_, potentially_failed_count_,
                       stop_gracefully, prev_bytes_consumed, source_mode_>>
    BY <1>2 DEF readerVars, codecVars, callVars
  <2> QED
    BY <1>2, <1>3, <1>4, <2>1, ControlGoesOn DEF ControlInv
<1> QED
  BY <1>3, <1>5, <1>6 DEF PipeInv

(* The loop of decode() goes on only with the room the codec asked for.    *)
LEMMA MakeRoomKeepsPipeInv ==
  ASSUME PipeInv, UNCHANGED readerVars, NEW n \in Taken, MakeRoom(n)
  PROVE  PipeInv'
<1>1. Decoder
  BY DEF Decoder, Decode
<1>2. /\ IF Free(out) < free_buffer_required_ THEN Flush(n) ELSE UNCHANGED outputVars
      /\ pc' = IF Free(out') < free_buffer_required_ THEN "idle" ELSE "input"
      /\ UNCHANGED <<source_mode_, inputVars, codecVars, callVars, ended>>
      /\ pc = "room"
  BY DEF MakeRoom
<1>3. /\ ReaderInv' /\ ViewInv' /\ Arrived' = Arrived /\ ended' = "no"
      /\ RoomInv /\ ControlInv /\ stream_info_sent_ \in BOOLEAN
  BY <1>1, <1>2, InputStays, Before
<1>4. /\ BufferTypeOK(out') /\ out'.cap = out.cap /\ Free(out') \in Int
      /\ out'.start + out'.len <= out'.cap /\ stream_info_sent_' \in BOOLEAN
  <2>1. CASE Flush(n)
    BY <1>3, <2>1, FlushKeepsBuffer
  <2>2. CASE UNCHANGED outputVars
    BY <1>1, <1>3, <2>2, Before DEF outputVars, RoomInv, RoomForCodec, Free
  <2> QED
    BY <1>2, <2>1, <2>2
<1>5. RoomInv'
  <2>1. free_buffer_required_' = free_buffer_required_
        /\ free_buffer_required_ \in Nat /\ free_buffer_required_ <= out.cap
    BY <1>1, <1>2, <1>3, Before DEF codecVars, RoomInv, RoomForCodec
  <2>2. pc' = "input" => Free(out') >= free_buffer_required_'
    BY <1>2, <1>4, <2>1
  <2>3. pc' # "codec"
    BY <1>2
  <2> QED
    BY <1>4, <2>1, <2>2, <2>3 DEF RoomInv, RoomForCodec
<1>6. ControlInv'
  <2>1. /\ reader' = reader
        /\ UNCHANGED <<stream_info_, end_of_file_, potentially_failed_count_,
                       stop_gracefully, prev_bytes_consumed, source_mode_>>
    BY <1>2 DEF readerVars, codecVars, callVars
  <2> QED
    BY <1>2, <1>3, <1>4, <2>1, ControlGoesOn DEF ControlInv
<1> QED
  BY <1>3, <1>5, <1>6 DEF PipeInv

(* A new view begins where the codec has read to.                          *)
LEMMA GetInputKeepsPipeInv ==
  ASSUME PipeInv, UNCHANGED readerVars, GetInput
  PROVE  PipeInv'
<1>1. Decoder
  BY DEF Decoder, Decode
<1>b. /\ ReaderInv /\ ViewInv /\ RoomInv /\ ControlInv
      /\ ended = "no" /\ Arrived \in Nat /\ released \in Nat
  BY <1>1, Before
<1>2. /\ pc = "input" /\ pc' \in {"idle", "codec"} /\ Acquire
      /\ UNCHANGED <<source_mode_, outputVars, codecVars, callVars, ended>>
  BY DEF GetInput
<1>3. ReaderInv' /\ ViewInv' /\ Arrived' = Arrived
  <2>1. CASE InRing /\ acquired_available_ = 0 /\ ViewLength > 0
    <3>1. /\ view' = ViewLength /\ acquired_available_' = ViewLength
          /\ acquired_data_' = released
          /\ UNCHANGED <<released, const_data_pos_, fed>>
      BY <1>2, <2>1 DEF Acquire
    <3>2. ViewLength \in Nat /\ released + ViewLength <= Arrived
      BY <1>b, <2>1, ViewLengthBound
    <3>3. acquired_data_ = nullptr /\ released = fed
      BY <1>b, <2>1 DEF ViewInv, FedInOrder
    <3>4. ReaderInv' /\ Arrived' = Arrived
      BY <1>b, <1>2, <3>1, DecoderKeepsReader
    <3>5. InRing' <=> InRing
      BY <1>2 DEF InRing
    <3>6. FedInOrder'
      <4>1. released # nullptr
        BY <1>b DEF nullptr
      <4> QED
        BY <1>b, <2>1, <3>1, <3>2, <3>3, <4>1 DEF FedInOrder, nullptr
    <3>7. ViewInv'
      BY <1>b, <1>2, <2>1, <3>1, <3>2, <3>4, <3>5, <3>6 DEF ViewInv
    <3> QED
      BY <3>4, <3>7
  <2>2. CASE UNCHANGED inputVars
    BY <1>1, <1>b, <1>2, <2>2, InputStays
  <2> QED
    BY <1>2, <2>1, <2>2 DEF Acquire
<1>4. RoomInv'
  BY <1>b, <1>2 DEF RoomInv, RoomForCodec, outputVars, codecVars, Free
<1>5. ControlInv'
  <2>1. /\ reader' = reader
        /\ UNCHANGED <<stream_info_, stream_info_sent_, end_of_file_,
                       potentially_failed_count_, stop_gracefully,
                       prev_bytes_consumed, source_mode_>>
    BY <1>2 DEF readerVars, outputVars, codecVars, callVars
  <2> QED
    BY <1>b, <1>2, <1>3, <2>1, ControlGoesOn DEF ControlInv
<1> QED
  BY <1>3, <1>4, <1>5 DEF PipeInv

-----------------------------------------------------------------------------
(* The codec's answers.                                                    *)

(* An answer with which the playback goes on.                              *)
LEMMA AnswerKeepsPipeInv ==
  ASSUME PipeInv, Decoder, UNCHANGED readerVars, NEW n, Consume(n), Advance(n),
         UNCHANGED ended, pc' \in {"room", "idle"},
         stream_info_' \in BOOLEAN, end_of_file_' \in BOOLEAN,
         potentially_failed_count_' \in Nat,
         potentially_failed_count_' <= MaxFailures + 1,
         pc' = "room" => potentially_failed_count_' <= MaxFailures,
         RoomInv'
  PROVE  PipeInv'
<1>1. /\ ReaderInv /\ ViewInv /\ RoomInv /\ ControlInv
      /\ ended = "no" /\ Arrived \in Nat /\ released \in Nat
      /\ stream_info_sent_ \in BOOLEAN
  BY Before
<1>2. /\ n \in Nat /\ fed + n <= Arrived /\ source_mode_' = source_mode_
  BY ConsumeBound
<1>3. ReaderInv' /\ ViewInv'
  BY AdvanceKeepsView
<1>4. /\ prev_bytes_consumed' = n
      /\ UNCHANGED <<stream_info_sent_, stop_gracefully>>
  BY DEF Consume
<1>5. reader' = reader /\ Arrived' = Arrived
  BY DEF readerVars, Arrived
<1>6. n <= Arrived
  BY <1>1, <1>2 DEF ViewInv
<1>7. ControlInv'
  BY <1>1, <1>2, <1>4, <1>5, <1>6, ControlGoesOn
<1> QED
  BY <1>3, <1>7 DEF PipeInv

(* MORE_TO_PROCESS or IDLE.                                                *)
LEMMA ContinuesKeepsPipeInv ==
  ASSUME PipeInv, Decoder, UNCHANGED readerVars, NEW n,
         NEW next \in {"room", "idle"}, Continues(n, next),
         stream_info_' \in BOOLEAN, RoomInv'
  PROVE  PipeInv'
<1>1. /\ Consume(n) /\ Advance(n) /\ pc' = next
      /\ potentially_failed_count_' =
           IF n > 0 THEN 0 ELSE potentially_failed_count_
      /\ UNCHANGED <<end_of_file_, ended>>
  BY DEF Continues
<1>2. pc = "codec"
  BY <1>1 DEF Consume
<1>3. /\ potentially_failed_count_ \in Nat
      /\ potentially_failed_count_ <= MaxFailures
  BY <1>2 DEF PipeInv, ControlInv
<1>4. /\ potentially_failed_count_' \in Nat
      /\ potentially_failed_count_' <= MaxFailures
      /\ potentially_failed_count_' <= MaxFailures + 1
  BY <1>1, <1>3, Sizes
<1>5. end_of_file_' \in BOOLEAN
  BY <1>1, Before
<1> QED
  BY <1>1, <1>4, <1>5, AnswerKeepsPipeInv

(* FAILED.                                                                 *)
LEMMA FailsKeepsPipeInv ==
  ASSUME PipeInv, Decoder, UNCHANGED readerVars, NEW n, Fails(n),
         stream_info_' \in BOOLEAN, free_buffer_required_' \in Nat
  PROVE  PipeInv'
<1>1. /\ Consume(n) /\ ReleaseAcquired /\ pc' = "idle" /\ ended' = "FAILED"
      /\ UNCHANGED <<out, end_of_file_, potentially_failed_count_>>
  BY DEF Fails
<1>2. /\ ReaderInv /\ ViewInv /\ RoomInv /\ ControlInv
      /\ ended = "no" /\ Arrived \in Nat
  BY Before
<1>3. /\ n \in Nat /\ fed + n <= Arrived /\ source_mode_' = source_mode_
  BY <1>1, ConsumeBound
<1>4. ReaderInv' /\ ViewInv'
  BY <1>1, <1>3, ReleaseKeepsView
<1>5. RoomInv'
  BY <1>1, <1>2 DEF RoomInv, RoomForCodec
<1>6. ControlInv'
  <2>1. /\ prev_bytes_consumed' = n
        /\ UNCHANGED <<stream_info_sent_, stop_gracefully>>
    BY <1>1 DEF Consume
  <2>2. reader' = reader /\ Arrived' = Arrived
    BY DEF readerVars, Arrived
  <2>3. n <= Arrived
    BY <1>2, <1>3 DEF ViewInv
  <2>4. FinishedMeansPlayed'
    BY <1>1 DEF FinishedMeansPlayed
  <2> QED
    BY <1>1, <1>2, <1>3, <2>1, <2>2, <2>3, <2>4
       DEF ControlInv, InRing, ReaderDone
<1> QED
  BY <1>4, <1>5, <1>6 DEF PipeInv

(* The codec asks for space: it has the buffer grown to what it needs, or  *)
(* the playback fails.                                                     *)
LEMMA RequiresKeepsPipeInv ==
  ASSUME PipeInv, Decoder, UNCHANGED readerVars, NEW n,
         NEW required \in Nat, Requires(n, required), stream_info_' \in BOOLEAN
  PROVE  PipeInv'
<1>1. free_buffer_required_' = required
  BY DEF Requires
<1>2. CASE out.cap < required /\ Fails(n)
  BY <1>1, <1>2, FailsKeepsPipeInv
<1>3. CASE /\ out' = IF out.cap < required THEN Reallocated(out, required) ELSE out
           /\ Continues(n, "room")
  <2>1. /\ BufferTypeOK(out) /\ out.start + out.len <= out.cap
        /\ out.start \in Nat /\ out.len \in Nat /\ out.cap \in Nat
    BY Before DEF RoomInv, RoomForCodec
  <2>2. /\ BufferTypeOK(out') /\ out'.start + out'.len <= out'.cap
        /\ required <= out'.cap
    <3>1. CASE out.cap < required
      <4> DEFINE b == Reallocated(out, required)
      <4>1. /\ BufferTypeOK(b) /\ b.start = out.start /\ b.len = out.len
            /\ b.cap = required /\ out' = b
        BY <1>3, <2>1, <3>1, BufferChanges
      <4> HIDE DEF b
      <4> QED
        BY <2>1, <3>1, <4>1
    <3>2. CASE ~(out.cap < required)
      BY <1>3, <2>1, <3>2
    <3> QED
      BY <3>1, <3>2
  <2>3. pc' = "room"
    BY <1>3 DEF Continues
  <2>4. RoomInv'
    BY <1>1, <2>2, <2>3 DEF RoomInv, RoomForCodec
  <2> QED
    BY <1>3, <2>4, ContinuesKeepsPipeInv
<1> QED
  BY <1>2, <1>3 DEF Requires

(* SUCCESS or OK: the PCM fits into what was free.                         *)
LEMMA DecodesKeepsPipeInv ==
  ASSUME PipeInv, Decoder, UNCHANGED readerVars, NEW n,
         NEW pcm \in Decoded(n), Decodes(n, pcm)
  PROVE  PipeInv'
<1>1. /\ stream_info_' \in {stream_info_, stream_info_ \/ file_type_ = "OPUS"}
      /\ out' = IF stream_info_' THEN Increased(out, pcm) ELSE out
      /\ Continues(n, "room") /\ free_buffer_required_' = free_buffer_required_
  BY DEF Decodes
<1>2. /\ RoomInv /\ BufferTypeOK(out) /\ Free(out) \in Int
      /\ Free(out) = out.cap - out.start - out.len /\ out.start \in Nat
      /\ out.len \in Nat /\ out.cap \in Nat /\ stream_info_ \in BOOLEAN
      /\ ended = "no"
  BY Before
<1>3. out.start + out.len <= out.cap /\ free_buffer_required_ \in Nat
      /\ free_buffer_required_ <= out.cap
  BY <1>2 DEF RoomInv, RoomForCodec
<1>4. pcm \in Nat /\ pcm <= Free(out)
  BY <1>2, <1>3 DEF Decoded
<1>5. /\ BufferTypeOK(out') /\ out'.start + out'.len <= out'.cap
      /\ out'.cap = out.cap
  <2>1. CASE out' = Increased(out, pcm)
    <3> DEFINE b == Increased(out, pcm)
    <3>1. /\ BufferTypeOK(b) /\ b.start = out.start /\ b.len = out.len + pcm
          /\ b.cap = out.cap /\ out' = b
      BY <1>2, <1>4, <2>1, BufferChanges
    <3> HIDE DEF b
    <3> QED
      BY <1>2, <1>3, <1>4, <3>1
  <2>2. CASE out' = out
    BY <1>2, <1>3, <2>2
  <2> QED
    BY <1>1, <2>1, <2>2
<1>6. RoomInv'
  <2>1. pc' = "room"
    BY <1>1 DEF Continues
  <2> QED
    BY <1>1, <1>3, <1>5, <2>1 DEF RoomInv, RoomForCodec
<1>7. stream_info_' \in BOOLEAN
  BY <1>1, <1>2
<1> QED
  BY <1>1, <1>6, <1>7, ContinuesKeepsPipeInv

(* Every answer of the codec.                                              *)
LEMMA CodecKeepsPipeInv ==
  ASSUME PipeInv, UNCHANGED readerVars, NEW n \in 0..InputLen, Codec(n)
  PROVE  PipeInv'
<1>1. Decoder
  BY DEF Decoder, Decode
<1>2. /\ RoomInv /\ ControlInv /\ stream_info_ \in BOOLEAN
      /\ end_of_file_ \in BOOLEAN /\ ended = "no"
  BY <1>1, Before
<1>r. ASSUME UNCHANGED <<out, free_buffer_required_>>, pc' \in {"room", "idle"}
      PROVE  RoomInv'
  BY <1>2, <1>r DEF RoomInv, RoomForCodec
<1>3. ASSUME NEW pcm \in Decoded(n), Decodes(n, pcm)
      PROVE  PipeInv'
  BY <1>1, <1>3, DecodesKeepsPipeInv
<1>4. CASE NeedsMore(n)
  <2> DEFINE next == IF file_type_ = "WAV" THEN "idle" ELSE "room"
  <2>1. /\ Continues(n, next) /\ next \in {"room", "idle"}
        /\ UNCHANGED <<out, stream_info_, free_buffer_required_>>
    BY <1>4 DEF NeedsMore
  <2> HIDE DEF next
  <2>2. pc' = next /\ stream_info_' \in BOOLEAN
    BY <1>2, <2>1 DEF Continues
  <2>3. RoomInv'
    BY <1>r, <2>1, <2>2
  <2> QED
    BY <1>1, <2>1, <2>2, <2>3, ContinuesKeepsPipeInv
<1>5. CASE HeaderReady(n)
  <2>1. stream_info_' \in BOOLEAN
    BY <1>5 DEF HeaderReady
  <2>2. ASSUME NEW required \in Required, Requires(n, required)
        PROVE  PipeInv'
    BY <1>1, <2>1, <2>2, Sizes, RequiresKeepsPipeInv
  <2>3. ASSUME Continues(n, "room"), UNCHANGED <<out, free_buffer_required_>>
        PROVE  PipeInv'
    <3>1. pc' = "room"
      BY <2>3 DEF Continues
    <3>2. RoomInv'
      BY <1>r, <2>3, <3>1
    <3> QED
      BY <1>1, <2>1, <2>3, <3>2, ContinuesKeepsPipeInv
  <2> QED
    BY <1>5, <2>2, <2>3 DEF HeaderReady
<1>6. CASE OutputTooSmall(n)
  <2>1. PICK required \in (IF file_type_ = "MP3" THEN {MinOutput} ELSE Required) :
          Requires(n, required)
    BY <1>6 DEF OutputTooSmall
  <2>2. required \in Nat /\ stream_info_' = stream_info_
    BY <1>6, <2>1, Sizes DEF OutputTooSmall
  <2> QED
    BY <1>1, <1>2, <2>1, <2>2, RequiresKeepsPipeInv
<1>7. CASE EndOfStream(n)
  <2>1. /\ Consume(n) /\ Advance(n) /\ end_of_file_' = TRUE /\ pc' = "idle"
        /\ UNCHANGED <<out, stream_info_, free_buffer_required_,
                       potentially_failed_count_, ended>>
    BY <1>7 DEF EndOfStream
  <2>2. RoomInv'
    BY <1>r, <2>1
  <2>3. /\ potentially_failed_count_' \in Nat
        /\ potentially_failed_count_' <= MaxFailures + 1
    BY <1>2, <2>1 DEF ControlInv
  <2> QED
    BY <1>1, <1>2, <2>1, <2>2, <2>3, AnswerKeepsPipeInv
<1>8. CASE Error(n)
  <2>1. /\ Consume(n) /\ Advance(n) /\ pc' = "idle"
        /\ potentially_failed_count_' =
             IF n > 0 THEN 0 ELSE potentially_failed_count_ + 1
        /\ UNCHANGED <<out, stream_info_, free_buffer_required_, end_of_file_,
                       ended>>
    BY <1>8 DEF Error
  <2>2. RoomInv'
    BY <1>r, <2>1
  <2>3. /\ potentially_failed_count_ \in Nat
        /\ potentially_failed_count_ <= MaxFailures
    BY <1>2, <2>1 DEF ControlInv, Consume
  <2>4. /\ potentially_failed_count_' \in Nat
        /\ potentially_failed_count_' <= MaxFailures + 1
    BY <2>1, <2>3, Sizes
  <2> QED
    BY <1>1, <1>2, <2>1, <2>2, <2>4, AnswerKeepsPipeInv
<1>9. CASE AllocationFails(n)
  <2>1. Fails(n) /\ UNCHANGED <<stream_info_, free_buffer_required_>>
    BY <1>9 DEF AllocationFails
  <2> QED
    BY <1>1, <1>2, <2>1, FailsKeepsPipeInv DEF RoomInv
<1> QED
  BY <1>3, <1>4, <1>5, <1>6, <1>7, <1>8, <1>9 DEF Codec

-----------------------------------------------------------------------------
(* A step of either thread, or none.                                       *)
LEMMA PNext == PipeInv /\ [Next]_vars => PipeInv'
<1> SUFFICES ASSUME PipeInv, [Next]_vars PROVE PipeInv'
  OBVIOUS
<1>1. CASE Reader
  BY <1>1, ReaderKeepsPipeInv
<1>2. CASE UNCHANGED readerVars /\ Decoder
  <2>1. CASE Start \/ StartFails
    BY <1>2, <2>1, StartKeepsPipeInv, StartFailsKeepsPipeInv
  <2>2. CASE Call
    BY <1>2, <2>2, CallKeepsPipeInv
  <2>3. CASE Finish \/ GiveUp
    BY <1>2, <2>3, EndsKeepsPipeInv
  <2>4. CASE GetInput
    BY <1>2, <2>4, GetInputKeepsPipeInv
  <2>5. CASE \E n \in Taken : FlushFirst(n) \/ MakeRoom(n)
    BY <1>2, <2>5, FlushFirstKeepsPipeInv, MakeRoomKeepsPipeInv
  <2>6. CASE \E n \in 0..InputLen : Codec(n)
    BY <1>2, <2>6, CodecKeepsPipeInv
  <2> QED
    BY <1>2, <2>1, <2>2, <2>3, <2>4, <2>5, <2>6 DEF Decoder, Decode
<1>3. CASE UNCHANGED vars
  <2>1. UNCHANGED decoderVars /\ ReaderInv'
    BY <1>3 DEF vars, readerVars, decoderVars, inputVars, viewVars, PipeInv,
                ReaderInv, Arrived, InRing
  <2>2. Arrived \in Nat /\ UNCHANGED <<reader, downloaded, written>>
    BY <1>3, LenProperties DEF vars, readerVars, PipeInv, ReaderInv, Arrived
  <2> QED
    BY <2>1, <2>2, ReaderKeepsTheRest DEF Arrived
<1> QED
  BY <1>1, <1>2, <1>3 DEF Next, Ended

(* The invariant, for every behaviour.                                     *)
LEMMA PInvariance == Spec => []PipeInv
<1>1. Init => PipeInv
  BY PInit
<1>2. PipeInv /\ [Next]_vars => PipeInv'
  BY PNext
<1> QED
  BY <1>1, <1>2, PTL DEF Spec

(* Every variable of the two threads has the values of its type: no        *)
(* position lies outside the stream, and no count exceeds its limit        *)
(* (src/src/audio_reader.cpp, src/src/audio_decoder.cpp).                  *)
THEOREM TypeCorrect == Spec => []TypeOK
<1>1. PipeInv => TypeOK
  <2> SUFFICES ASSUME PipeInv PROVE TypeOK
    OBVIOUS
  <2>1. ReaderInv /\ ViewInv /\ RoomInv /\ ControlInv /\ MaxBody \in Nat
        /\ MaxFailures \in Nat
    BY Sizes DEF PipeInv
  <2>2. Arrived \in Nat /\ Arrived <= MaxBody
    <3>1. transfer_buffer_.len \in Nat
      BY <2>1 DEF ReaderInv, BufferTypeOK
    <3> QED
      BY <2>1, <3>1, LenProperties DEF ReaderInv, Arrived
  <2>3. /\ downloaded \in Positions /\ const_data_pos_ \in Positions
        /\ fed \in Positions
    BY <2>1, <2>2 DEF ReaderInv, ViewInv, Positions
  <2>4. released \in Positions /\ view \in Positions
    BY <2>1, <2>2 DEF ViewInv, Positions
  <2>5. acquired_available_ \in Positions
        /\ acquired_data_ \in {nullptr} \cup Positions
    BY <2>1, <2>2, <2>3 DEF ViewInv, FedInOrder, Positions
  <2>6. prev_bytes_consumed \in {FirstIteration} \cup Positions
        /\ potentially_failed_count_ \in 0..(MaxFailures + 1)
    BY <2>1, <2>2 DEF ControlInv, Positions
  <2>7. /\ request # NoRequest =>
             request \in [codecs : Builds, content_type : ContentTypes, url : Urls]
        /\ detected_file_type \in AllTypes \cup {NONE}
        /\ reader \in {"none", "start", "run", "stopped", "FINISHED", "ERROR"}
        /\ BufferTypeOK(transfer_buffer_) /\ written \in Seq(1..MaxBody)
    BY <2>1 DEF ReaderInv
  <2>8. /\ source_mode_ \in {"RING_BUFFER", "CONST_BUFFER"}
        /\ BufferTypeOK(out) /\ free_buffer_required_ \in Nat
    BY <2>1 DEF ViewInv, RoomInv
  <2>9. /\ {stream_info_, stream_info_sent_, end_of_file_, stop_gracefully}
             \subseteq BOOLEAN
        /\ pc \in {"wait", "idle", "enter", "room", "input", "codec"}
        /\ ended \in {"no", "FINISHED", "FAILED"}
    BY <2>1 DEF ControlInv
  <2> QED
    BY <2>3, <2>4, <2>5, <2>6, <2>7, <2>8, <2>9 DEF TypeOK
<1> QED
  BY <1>1, PInvariance, PTL

(* The reader hands on the body of the response byte by byte as it came,   *)
(* whatever the ring takes of each write (AudioReader::run()).             *)
THEOREM WriteOrder == Spec => []WrittenInOrder
<1>1. PipeInv => WrittenInOrder
  BY DEF PipeInv, ReaderInv, WrittenInOrder
<1> QED
  BY <1>1, PInvariance, PTL

(* The codec reads the stream without a gap and without repeating a byte,  *)
(* over the ends of views and the wrap of the ring                         *)
(* (AudioDecoder::decode(), release_acquired()).                           *)
THEOREM FeedOrder == Spec => []FedInOrder
<1>1. PipeInv => FedInOrder
  BY DEF PipeInv, ViewInv
<1> QED
  BY <1>1, PInvariance, PTL

(* A playback that is reported FINISHED was played to its end, and its     *)
(* download did not break off (run_decoder(), AudioDecoder::decode()).     *)
THEOREM FinishedPlayback == Spec => []FinishedMeansPlayed
<1>1. PipeInv => FinishedMeansPlayed
  BY DEF PipeInv, ControlInv
<1> QED
  BY <1>1, PInvariance, PTL

(* A codec is called with the output space it has asked for, and the       *)
(* buffer is never too small for that (AudioDecoder::start(), decode(),    *)
(* and the adapters of the codecs).                                        *)
THEOREM CodecRoom == Spec => []RoomForCodec
<1>1. PipeInv => RoomForCodec
  BY DEF PipeInv, RoomInv
<1> QED
  BY <1>1, PInvariance, PTL
=============================================================================
