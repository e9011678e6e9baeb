------------------------ MODULE DecoderOutcomeProofs ------------------------
(***************************************************************************)
(* What becomes of a playback, for all values of the constants: it is      *)
(* decoded as the type its own reader found, it counts as finished only    *)
(* when all of it was decoded, its outcome reaches the user however loop() *)
(* and the callbacks nest; and, unless callbacks call loop(), every step   *)
(* is one that PlaybackLifecycle allows.                                   *)
(*                                                                         *)
(* The first two rest on what the flags of the reader say about the reader *)
(* (PInv), the others on how loop() calls are stacked and on which flags   *)
(* of the decoder are still on their way to the user (UInv; LInv when      *)
(* loop() does not nest).  All are proved on top of IInv of                *)
(* DecoderSourceProofs.                                                    *)
(***************************************************************************)
EXTENDS DecoderSourceProofs

Decoding == {"start", "loop", "check", "first", "again", "codec", "finish"}

ReaderFlags == {READER_READY, READER_FINISHED, READER_ERROR}

(* A published file type is that of the reader that published it.          *)
TypePublished ==
  /\ rd_pc \in {"publish", "ready"} => rd_type # NoType
  /\ rd_pc \in {"open", "publish", "ready"} =>
       /\ READER_READY \notin event_flags
       /\ dc_url => dc_pc \notin Decoding
  /\ rd_pc = "ready" => detected_file_type = rd_type
  /\ READER_READY \in event_flags =>
       /\ detected_file_type # NoType
       /\ rd_pc # "none" => detected_file_type = rd_type
  /\ DecodesTheStreamsType

(* How far the playback is, by the step of the decoder.                    *)
SessionOK ==
  /\ session = "none" <=> dc_pc = "none"
  /\ dc_pc \in {"wait", "start"} => session = "launched"
  /\ dc_pc \in Decoding \ {"start"} => session = "started"
  /\ dc_pc = "fail" => session \in {"launched", "started"}
  /\ session \in {"finished", "failed"} =>
       dc_pc \in {"unwind", "exit", "done"}

(* The reader gives one verdict, as its last step, and the decoder has     *)
(* read no other.                                                          *)
VerdictOK ==
  /\ READER_FINISHED \in event_flags \/ READER_ERROR \in event_flags =>
       ReaderGone
  /\ ~(READER_FINISHED \in event_flags /\ READER_ERROR \in event_flags)
  /\ rd_pc = "finished" \/ READER_FINISHED \in event_flags => rd_staged = 0
  /\ dc_pc = "none" => dc_flags = {}
  /\ dc_flags \subseteq event_flags
  /\ dc_pc # "none" /\ ~dc_url =>
       rd_pc = "none" /\ ReaderFlags \cap event_flags = {}

(* What the decoder found when it left its loop stays so.                  *)
DrainOK ==
  dc_pc = "finish" \/ session = "finished" =>
    /\ dc_output = 0
    /\ dc_url => dc_flags # {}
    /\ session = "finished" => READER_ERROR \notin dc_flags
    /\ dc_eof \/ IF dc_url THEN ring_data = <<>> ELSE dc_left = 0

PInv == TypePublished /\ SessionOK /\ VerdictOK /\ DrainOK

-----------------------------------------------------------------------------
(* Nothing that PInv is about has changed.                                 *)
PlaybackUntouched ==
  /\ UNCHANGED <<readerVars, decoderVars, ring_data, detected_file_type,
                 session>>
  /\ ReaderFlags \cap event_flags' = ReaderFlags \cap event_flags

(* A step that leaves the playback and its threads alone.                  *)
LEMMA UntouchedPreserves == IInv /\ PInv /\ PlaybackUntouched => PInv'
<1> SUFFICES ASSUME IInv, PInv, PlaybackUntouched PROVE PInv'
  OBVIOUS
<1>1. dc_flags \subseteq ReaderFlags
  BY DEF IInv, TypeOK, DecoderTypeOK, ReaderFlags
<1>2. \A f \in ReaderFlags : f \in event_flags' <=> f \in event_flags
  BY DEF PlaybackUntouched
<1>3. /\ READER_READY \in event_flags' <=> READER_READY \in event_flags
      /\ READER_FINISHED \in event_flags' <=> READER_FINISHED \in event_flags
      /\ READER_ERROR \in event_flags' <=> READER_ERROR \in event_flags
  BY <1>2 DEF ReaderFlags
<1> USE DEF PlaybackUntouched, readerVars, decoderVars
<1>4. TypePublished'
  BY <1>3 DEF PInv, TypePublished, DecodesTheStreamsType
<1>5. SessionOK' /\ DrainOK'
  BY DEF PInv, SessionOK, DrainOK
<1>6. VerdictOK'
  BY <1>1, <1>2, <1>3 DEF PInv, VerdictOK, ReaderGone
<1> QED
  BY <1>4, <1>5, <1>6 DEF PInv

(* The reader publishes its type before the flag, and its verdict last.    *)
LEMMA ReaderKeepsPlayback == IInv /\ PInv /\ ReaderStep => PInv'
<1> SUFFICES ASSUME IInv, PInv, ReaderStep PROVE PInv'
  OBVIOUS
<1> USE ConstantsAssumption DEF otherThanReader, ringVars, decoderVars,
      READER_READY, READER_FINISHED, READER_ERROR, ReaderGone
<1> USE DEF ReaderStep, ReaderOpen, ReaderOpenFails, ReaderPublish,
      ReaderReady, ReaderCheck, ReaderWrite, ReaderWriteTimesOut, ReaderRead,
      ReaderWaitReturns, ReaderFinished, ReaderError
<1>1. TypePublished'
  BY DEF PInv, TypePublished, DecodesTheStreamsType, Decoding,
         ConstantsAssumption
<1>2. SessionOK'
  BY DEF PInv, SessionOK
<1>3. VerdictOK'
  BY DEF PInv, VerdictOK, ReaderFlags
<1>4. DrainOK'
  <2>1. dc_pc = "finish" \/ session = "finished" => ReaderGone
    BY DEF PInv, DrainOK, SessionOK, VerdictOK, IInv, TypeOK, DecoderTypeOK
  <2>2. ~ReaderGone
    OBVIOUS
  <2> QED
    BY <2>1, <2>2 DEF PInv, DrainOK
<1> QED
  BY <1>1, <1>2, <1>3, <1>4 DEF PInv

(* The decoder decodes what was published, and takes its verdict from what *)
(* it has read of the reader's.                                            *)
LEMMA DecoderKeepsPlayback == IInv /\ PInv /\ DecoderStep => PInv'
<1> SUFFICES ASSUME IInv, PInv, DecoderStep PROVE PInv'
  OBVIOUS
<1> USE ConstantsAssumption DEF otherThanDecoder, decodeVars, ringVars,
      readerVars, ReaderGone, SetFlag
<1> USE DEF ALL_FLAGS, READER_READY, READER_FINISHED, READER_ERROR,
      COMMAND_STOP, DECODER_STARTED, DECODER_FINISHED, DECODER_FAILED,
      DECODER_EXITED
<1> USE DEF DecoderStep, DecoderWaitEnds, DecoderWaitTimesOut, DecoderStart,
      DecoderStartFails, DecoderLoop, DecodeDone, DecodeGivesUp,
      DecodeFlushes, DecodeBlocked, DecodeInput, CodecProgress,
      CodecPotentiallyFailed, CodecEndOfFile, CodecFailed, DecoderFinish,
      DecoderFail, DecoderUnwind, DecoderExit
<1>1. TypePublished'
  BY DEF PInv, TypePublished, DecodesTheStreamsType, Decoding
<1>2. SessionOK'
  BY DEF PInv, SessionOK, Decoding
<1>3. VerdictOK'
  BY DEF PInv, VerdictOK, ReaderFlags
<1>4. DrainOK'
  BY DEF PInv, DrainOK, SessionOK, Decoding, DecodeOK, IInv, Drained,
         StopGracefully, InputEmpty, Release
<1> QED
  BY <1>1, <1>2, <1>3, <1>4 DEF PInv

(* The calls that touch a playback touch it before or after its threads.   *)
LEMMA CallsKeepPlayback == IInv /\ PInv /\ (Call \/ CallStep) => PInv'
<1> SUFFICES ASSUME IInv, PInv, Call \/ CallStep PROVE PInv'
  OBVIOUS
<1> USE ConstantsAssumption DEF configVars, stateVars, ringVars, readerVars,
      decoderVars, userVars, opVars, frameVars, StoreState, ReleaseRing,
      NoReader, DecoderLocals, otherThanLoop
<1> USE DEF READER_READY, READER_FINISHED, READER_ERROR, COMMAND_STOP,
      DECODER_STARTED, DECODER_FINISHED, DECODER_FAILED, DECODER_EXITED
<1>1. CASE Call
  <2>1. PlaybackUntouched
    BY <1>1 DEF PlaybackUntouched, Call, SetListener, PlayUninitialized,
       DestroyUninitialized, StopBegin, LoopCall, CallbackReturn, ReaderFlags
  <2> QED
    BY <2>1, UntouchedPreserves
<1>2. CASE \/ PlayNoListener \/ PlayUrlNoDecoder \/ PumpGet \/ PumpFailed
           \/ PumpStarted \/ PumpFinished
  <2>1. PlaybackUntouched
    BY <1>2 DEF PlaybackUntouched, PlayNoListener, PlayUrlNoDecoder, PumpGet,
       PumpFailed, PumpStarted, PumpFinished, ReaderFlags
  <2> QED
    BY <2>1, UntouchedPreserves
<1>3. CASE PumpClear
  <2>1. frame_flags[depth] \subseteq PumpedFlags
    BY <1>3 DEF PumpClear, InLoop, IInv, TypeOK, FrameTypeOK
  <2>2. PlaybackUntouched
    BY <1>3, <2>1 DEF PlaybackUntouched, PumpClear, ReaderFlags, PumpedFlags
  <2> QED
    BY <2>2, UntouchedPreserves
<1>4. CASE \/ StopJoinReader \/ StopJoinDecoder \/ StopFinish
           \/ PlayUrlNoRing \/ PlayUrlStartsReader \/ PlayUrlNoReader
           \/ PlayUrlStartsDecoder \/ PlayUrlUnwind
           \/ \E t \in FileTypes :
                PlayBufferStartsDecoder(t) \/ PlayBufferNoDecoder(t)
  <2> USE <1>4 DEF StopJoinReader, StopJoinDecoder, StopFinish, PlayUrlNoRing,
        PlayUrlStartsReader, PlayUrlNoReader, PlayUrlStartsDecoder,
        PlayUrlUnwind, PlayBufferStartsDecoder, PlayBufferNoDecoder,
        ClearForPlay, EnsureRing, ReaderGone, DecoderGone
  <2>0. ThreadsOK /\ PInv
    BY DEF IInv
  <2>1. TypePublished'
    BY <2>0 DEF ThreadsOK, PInv, TypePublished, DecodesTheStreamsType, Decoding
  <2>2. SessionOK'
    BY <2>0 DEF ThreadsOK, PInv, SessionOK, Decoding
  <2>3. VerdictOK'
    BY <2>0 DEF ThreadsOK, PInv, VerdictOK, ReaderFlags
  <2>4. DrainOK'
    BY <2>0 DEF ThreadsOK, PInv, DrainOK, SessionOK, Decoding
  <2> QED
    BY <2>1, <2>2, <2>3, <2>4 DEF PInv
<1> QED
  BY <1>1, <1>2, <1>3, <1>4 DEF CallStep

(* PInv holds in every reachable state.                                    *)
LEMMA PlaybackInvariance == Spec => [](IInv /\ PInv)
<1>1. Init => PInv
  BY DEF Init, PInv, TypePublished, DecodesTheStreamsType, SessionOK,
     VerdictOK, DrainOK, ReaderGone, Decoding, ReaderFlags
<1>2. IInv /\ PInv /\ [Next]_vars => PInv'
  <2> SUFFICES ASSUME IInv, PInv, [Next]_vars PROVE PInv'
    OBVIOUS
  <2>1. CASE UNCHANGED vars
    <3>1. PlaybackUntouched
      BY <2>1 DEF vars, ringVars, PlaybackUntouched
    <3> QED
      BY <3>1, UntouchedPreserves
  <2>2. CASE Next
    BY <2>1, <2>2, ReaderKeepsPlayback, DecoderKeepsPlayback,
       CallsKeepPlayback DEF Next, Reader, Decoder, Destroyed
  <2> QED
    BY <2>1, <2>2
<1> QED
  BY <1>1, <1>2, Invariance, PTL DEF Spec

(* No decoder starts on a type that was not published by the reader of its *)
(* own playback.                                                           *)
THEOREM TypeFreshness == Spec => []DecodesTheStreamsType
<1>1. PInv => DecodesTheStreamsType
  BY DEF PInv, TypePublished
<1> QED
  BY <1>1, PlaybackInvariance, PTL

(* FINISHED is only signalled of a playback whose every chunk was decoded, *)
(* and whose reader has not failed.                                        *)
THEOREM FinishedPlayback == Spec => []FinishedMeansDrained
<1>1. IInv /\ PInv => FinishedMeansDrained
  <2> SUFFICES ASSUME IInv, PInv, session = "finished"
               PROVE  FinishedMeansDrained
    BY DEF FinishedMeansDrained
  <2>1. dc_pc # "none"
    BY DEF PInv, SessionOK
  <2>2. CASE dc_url
    <3>1. READER_FINISHED \in event_flags
      BY <2>2 DEF PInv, DrainOK, VerdictOK, IInv, TypeOK, DecoderTypeOK
    <3> QED
      BY <2>2, <3>1 DEF PInv, DrainOK, VerdictOK, FinishedMeansDrained
  <2>3. CASE ~dc_url
    BY <2>1, <2>3 DEF PInv, DrainOK, VerdictOK, FinishedMeansDrained,
       ReaderFlags
  <2> QED
    BY <2>2, <2>3
<1> QED
  BY <1>1, PlaybackInvariance, PTL

-----------------------------------------------------------------------------
(* The innermost loop() call has read events, and not acted on them yet.   *)
Acting == depth > 0 /\ frame_pc[depth] \in {"clear", "dispatch"}

Read(f) == Acting /\ f \in frame_flags[depth]

(* f is on its way to the user.                                            *)
Pending(f) == f \in event_flags \/ Read(f)

(* Only the innermost loop() call can be elsewhere than in a callback; it  *)
(* is in one too while another call runs.                                  *)
FramesOK ==
  /\ \A i \in 1..(depth - 1) : frame_pc[i] \in CallbackSteps
  /\ op # "none" /\ depth > 0 => frame_pc[depth] \in CallbackSteps

(* What is on its way is of this playback: stop() leaves nothing behind.   *)
SignalsOK ==
  op_pc # "finish" =>
    /\ Pending(DECODER_STARTED) =>
         session \in {"started", "finished", "failed"} /\ reports = <<>>
    /\ Pending(DECODER_FINISHED) => session = "finished"
    /\ Pending(DECODER_FAILED) => session = "failed"

(* The state is the last one reported, or IDLE before the first report.    *)
StateOK ==
  /\ session \in {"none", "launched"} => reports = <<>>
  /\ session # "none" =>
       /\ reports = <<>> => decoder_state = "IDLE"
       /\ Len(reports) = 1 =>
            reports = <<decoder_state>> /\ decoder_state # "IDLE"
       /\ decoder_state = "FAILED" => session = "failed"
  /\ session = "none" /\ decoder_state = "PLAYING" => op_pc = "finish"
  /\ op_pc \in {"join_reader", "join_decoder", "finish"} =>
       op_current = decoder_state
  /\ op_pc \in {"prepare", "spawn_decoder"} => decoder_state = "IDLE"

(* A loop() call that is still to act on the end of a playback.            *)
Holder(i) ==
  /\ frame_pc[i] \in {"playing", "finished"}
  /\ DECODER_FINISHED \in frame_flags[i]

(* What has not been reported is on its way, the start before the end.     *)
ReportDue ==
  /\ session \in {"started", "finished"} =>
       reports # <<>> \/ Pending(DECODER_STARTED)
  /\ Read(DECODER_FINISHED) /\ reports = <<>> => Read(DECODER_STARTED)
  /\ session = "failed" => decoder_state = "FAILED" \/ Pending(DECODER_FAILED)
  /\ session = "finished" =>
       \/ Len(reports) > 1
       \/ Pending(DECODER_FINISHED)
       \/ decoder_state = "PLAYING" /\ \E i \in 1..depth : Holder(i)

(* A loop() call that acts on events has read the start of the playback,   *)
(* or it was reported before.                                              *)
StartReadFirst ==
  Acting =>
    /\ frame_flags[depth] # {}
    /\ DECODER_STARTED \in event_flags =>
         frame_pc[depth] = "clear" /\ DECODER_STARTED \in frame_flags[depth]

UInv == FramesOK /\ SignalsOK /\ StateOK /\ ReportDue /\ StartReadFirst

(* A report more makes the first, or at least the second.                  *)
LEMMA ReportCount ==
  ASSUME reports \in Seq(States), NEW s \in States
  PROVE  /\ reports = <<>> => Append(reports, s) = <<s>>
         /\ Append(reports, s) # <<>>
         /\ reports # <<>> => Len(Append(reports, s)) > 1
         /\ Len(<<s>>) = 1
         /\ reports # <<>> /\ ~(Len(reports) > 1) => Len(reports) = 1
<1>1. Len(<<s>>) = 1 /\ <<s>> \in Seq(States) /\ <<s>>[1] = s
  OBVIOUS
<1>2. /\ Append(reports, s) \in Seq(States)
      /\ Append(reports, s) # <<>>
      /\ Len(Append(reports, s)) = Len(reports) + 1
  BY AppendProperties
<1>3. Len(reports) \in Nat /\ (reports # <<>> => Len(reports) # 0)
  BY EmptySeq, LenProperties
<1>4. reports = <<>> => Append(reports, s) = <<s>>
  OBVIOUS
<1>5. reports # <<>> => Len(Append(reports, s)) > 1
  BY <1>2, <1>3
<1>6. reports # <<>> /\ ~(Len(reports) > 1) => Len(reports) = 1
  <2>1. \A n \in Nat : n # 0 /\ ~(n > 1) => n = 1
    OBVIOUS
  <2> QED
    BY <1>3, <2>1
<1> QED
  BY <1>1, <1>2, <1>4, <1>5, <1>6

(* The decoder signals each event once, in the order in which the user is  *)
(* to hear of them; the reader signals nothing to the user.                *)
LEMMA WorkersSignal ==
  ASSUME IInv, PInv, ReaderStep \/ DecoderStep
  PROVE  /\ UNCHANGED <<frameVars, opVars, stateVars, reports>>
         /\ \/ /\ session' = session
               /\ event_flags' \cap PumpedFlags = event_flags \cap PumpedFlags
            \/ /\ session = "launched" /\ session' = "started"
               /\ event_flags' = event_flags \cup {DECODER_STARTED}
            \/ /\ session = "started" /\ session' = "finished"
               /\ event_flags' = event_flags \cup {DECODER_FINISHED}
            \/ /\ session \in {"launched", "started"} /\ session' = "failed"
               /\ event_flags' = event_flags \cup {DECODER_FAILED}
<1> USE DEF READER_READY, READER_FINISHED, READER_ERROR, COMMAND_STOP,
      DECODER_STARTED, DECODER_FINISHED, DECODER_FAILED, DECODER_EXITED
<1>1. UNCHANGED <<frameVars, opVars, stateVars, reports>>
  BY DEF ReaderStep, DecoderStep, otherThanReader, otherThanDecoder, userVars,
         ReaderOpen, ReaderOpenFails, ReaderPublish, ReaderReady, ReaderCheck,
         ReaderWrite, ReaderWriteTimesOut, ReaderRead, ReaderWaitReturns,
         ReaderFinished, ReaderError, DecoderWaitEnds, DecoderWaitTimesOut,
         DecoderStart, DecoderStartFails, DecoderLoop, DecodeDone,
         DecodeGivesUp, DecodeFlushes, DecodeBlocked, DecodeInput,
         CodecProgress, CodecPotentiallyFailed, CodecEndOfFile, CodecFailed,
         DecoderFinish, DecoderFail, DecoderUnwind, DecoderExit
<1>2. \/ /\ session' = session
         /\ event_flags' \cap PumpedFlags = event_flags \cap PumpedFlags
      \/ /\ session = "launched" /\ session' = "started"
         /\ event_flags' = event_flags \cup {DECODER_STARTED}
      \/ /\ session = "started" /\ session' = "finished"
         /\ event_flags' = event_flags \cup {DECODER_FINISHED}
      \/ /\ session \in {"launched", "started"} /\ session' = "failed"
         /\ event_flags' = event_flags \cup {DECODER_FAILED}
  BY DEF ReaderStep, DecoderStep, otherThanReader, otherThanDecoder, userVars,
         ReaderOpen, ReaderOpenFails, ReaderPublish, ReaderReady, ReaderCheck,
         ReaderWrite, ReaderWriteTimesOut, ReaderRead, ReaderWaitReturns,
         ReaderFinished, ReaderError, DecoderWaitEnds, DecoderWaitTimesOut,
         DecoderStart, DecoderStartFails, DecoderLoop, DecodeDone,
         DecodeGivesUp, DecodeFlushes, DecodeBlocked, DecodeInput,
         CodecProgress, CodecPotentiallyFailed, CodecEndOfFile, CodecFailed,
         DecoderFinish, DecoderFail, DecoderUnwind, DecoderExit,
         PInv, SessionOK, Decoding, PumpedFlags, SetFlag
<1> QED
  BY <1>1, <1>2

(* The workers' signals keep UInv.                                         *)
LEMMA WorkersKeepOutcome ==
  IInv /\ PInv /\ UInv /\ (ReaderStep \/ DecoderStep) => UInv'
<1> SUFFICES ASSUME IInv, PInv, UInv, ReaderStep \/ DecoderStep PROVE UInv'
  OBVIOUS
<1> USE DEF READER_READY, READER_FINISHED, READER_ERROR, COMMAND_STOP,
      DECODER_STARTED, DECODER_FINISHED, DECODER_FAILED, DECODER_EXITED
<1>1. UNCHANGED <<frameVars, opVars, stateVars, reports>>
  BY WorkersSignal
<1>2. \A f : Read(f)' <=> Read(f)
  BY <1>1 DEF Read, Acting, frameVars
<1>3. \/ /\ session' = session
         /\ event_flags' \cap PumpedFlags = event_flags \cap PumpedFlags
      \/ /\ session = "launched" /\ session' = "started"
         /\ event_flags' = event_flags \cup {DECODER_STARTED}
      \/ /\ session = "started" /\ session' = "finished"
         /\ event_flags' = event_flags \cup {DECODER_FINISHED}
      \/ /\ session \in {"launched", "started"} /\ session' = "failed"
         /\ event_flags' = event_flags \cup {DECODER_FAILED}
  BY WorkersSignal
<1>4. op_pc = "finish" => session = "none"
  BY DEF IInv, ThreadsOK, PInv, SessionOK
<1>5. FramesOK'
  BY <1>1 DEF UInv, FramesOK, frameVars, opVars
<1>6. SignalsOK'
  BY <1>1, <1>2, <1>3, <1>4 DEF UInv, SignalsOK, StateOK, Pending, opVars,
     PumpedFlags
<1>7. StateOK'
  BY <1>1, <1>3 DEF UInv, StateOK, opVars, stateVars
<1>8. ReportDue'
  BY <1>1, <1>2, <1>3 DEF UInv, ReportDue, Pending, Holder, frameVars,
     stateVars, PumpedFlags
<1>9. StartReadFirst'
  <2>1. CASE session = "launched"
    <3>1. \A f \in PumpedFlags : ~Read(f)
      BY <1>4, <2>1 DEF UInv, SignalsOK, Pending, PumpedFlags
    <3>2. Acting => frame_flags[depth] \subseteq PumpedFlags
      BY DEF Acting, IInv, TypeOK, FrameTypeOK
    <3>3. ~Acting
      BY <3>1, <3>2 DEF Read, UInv, StartReadFirst
    <3> QED
      BY <1>1, <3>3 DEF StartReadFirst, Acting, frameVars
  <2>2. CASE session # "launched"
    BY <1>1, <1>3, <2>2 DEF UInv, StartReadFirst, Acting, frameVars,
       PumpedFlags
  <2> QED
    BY <2>1, <2>2
<1> QED
  BY <1>5, <1>6, <1>7, <1>8, <1>9 DEF UInv

(* The calls other than loop() leave its frames alone; those that end or   *)
(* begin a playback find no event on its way when they are done.           *)
LEMMA CallsKeepOutcome ==
  ASSUME IInv, PInv, UInv,
         \/ SetListener \/ PlayUninitialized \/ DestroyUninitialized
         \/ \E call \in Ops \ {"none"} : StopBegin(call)
         \/ StopJoinReader \/ StopJoinDecoder \/ StopFinish
         \/ PlayNoListener \/ PlayUrlNoRing \/ PlayUrlStartsReader
         \/ PlayUrlNoReader \/ PlayUrlStartsDecoder \/ PlayUrlNoDecoder
         \/ PlayUrlUnwind
         \/ \E t \in FileTypes :
              PlayBufferStartsDecoder(t) \/ PlayBufferNoDecoder(t)
  PROVE  UInv'
<1> USE DEF SetListener, PlayUninitialized, DestroyUninitialized, StopBegin,
      StopJoinReader, StopJoinDecoder, StopFinish, PlayNoListener,
      PlayUrlNoRing, PlayUrlStartsReader, PlayUrlNoReader,
      PlayUrlStartsDecoder, PlayUrlNoDecoder, PlayUrlUnwind,
      PlayBufferStartsDecoder, PlayBufferNoDecoder, ClearForPlay, StoreState,
      Return, UserInControl, stateVars, opVars, frameVars, userVars
<1> USE DEF READER_READY, READER_FINISHED, READER_ERROR, COMMAND_STOP,
      DECODER_STARTED, DECODER_FINISHED, DECODER_FAILED, DECODER_EXITED
<1>1. UNCHANGED frameVars
  OBVIOUS
<1>2. /\ op = "none" <=> op_pc = "idle"
      /\ op_pc \in {"finish", "prepare", "spawn_decoder", "unwind_join"} =>
           session = "none"
      /\ ~initialized_ => session = "none"
  BY DEF IInv, CallsOK, ThreadsOK, PInv, SessionOK
<1>3. \A f : (Read(f)' <=> Read(f)) /\ (op # "none" => ~Read(f))
  BY <1>1 DEF Read, Acting, UInv, FramesOK, CallbackSteps
<1>4. FramesOK'
  BY <1>1 DEF UInv, FramesOK
<1>5. SignalsOK'
  BY <1>2, <1>3 DEF UInv, SignalsOK, Pending, StateOK
<1>6. StateOK'
  <2>1. decoder_state \in States /\ Len(<<>>) = 0
    BY DEF IInv, TypeOK, SharedTypeOK
  <2>2. session' \in {"none", "launched"} => reports' = <<>>
    BY <1>2 DEF UInv, StateOK
  <2>3. session' # "none" =>
          /\ decoder_state' = decoder_state
          /\ \/ session' = session /\ reports' = reports
             \/ reports' = <<>> /\ decoder_state = "IDLE"
    BY <1>2 DEF UInv, StateOK
  <2>4. op_pc' \in {"join_reader", "join_decoder", "finish"} =>
          op_current' = decoder_state'
    BY <1>2 DEF UInv, StateOK
  <2>5. op_pc' \in {"prepare", "spawn_decoder"} => decoder_state' = "IDLE"
    BY <1>2, <2>1 DEF UInv, StateOK, States
  <2>6. session' = "none" /\ decoder_state' = "PLAYING" => op_pc' = "finish"
    BY <1>2 DEF UInv, StateOK
  <2> QED
    BY <2>1, <2>2, <2>3, <2>4, <2>5, <2>6 DEF UInv, StateOK
<1>7. ReportDue'
  BY <1>1, <1>2, <1>3 DEF UInv, ReportDue, Pending, Holder
<1>8. StartReadFirst'
  BY <1>1, <1>2 DEF UInv, StartReadFirst, Acting, FramesOK, CallbackSteps
<1> QED
  BY <1>4, <1>5, <1>6, <1>7, <1>8 DEF UInv

(* loop() and the callbacks in it: an event leaves the flags only for a    *)
(* frame that acts on it, and a frame with one is not left before that.    *)
LEMMA LoopKeepsOutcome ==
  ASSUME IInv, PInv, UInv,
         \/ LoopCall \/ CallbackReturn
         \/ PumpGet \/ PumpClear \/ PumpFailed \/ PumpStarted \/ PumpFinished
  PROVE  UInv'
<1> USE ConstantsAssumption
    DEF ConstantsAssumption, UserInControl, InLoop, GoTo, LoopReturns,
      otherThanLoop, stateVars, opVars, CallbackSteps
<1> USE DEF DECODER_STARTED, DECODER_FINISHED, DECODER_FAILED
<1>1. /\ op_pc = "idle" /\ op = "none"
      /\ UNCHANGED <<session, op, op_pc, op_current>>
  BY DEF LoopCall, CallbackReturn, PumpGet, PumpClear, PumpFailed,
     PumpStarted, PumpFinished, IInv, CallsOK
<1>2. /\ depth \in 0..MaxLoopDepth
      /\ frame_pc \in [1..MaxLoopDepth -> FrameSteps]
      /\ frame_flags \in [1..MaxLoopDepth -> SUBSET PumpedFlags]
      /\ reports \in Seq(States) /\ decoder_state \in States
  BY DEF IInv, TypeOK, FrameTypeOK, HistoryTypeOK, SharedTypeOK
<1>3. ASSUME UNCHANGED <<decoder_state, event_flags, reports>>,
             ~Acting /\ ~Acting',
             decoder_state = "PLAYING" =>
               \A i \in 1..depth : Holder(i) => i \in 1..depth' /\ Holder(i)',
             FramesOK'
      PROVE  UInv'
  <2>1. SignalsOK' /\ StateOK'
    BY <1>1, <1>3 DEF UInv, SignalsOK, StateOK, Pending, Read
  <2>2. ReportDue'
    BY <1>1, <1>3 DEF UInv, ReportDue, Pending, Read
  <2>3. StartReadFirst'
    BY <1>3 DEF StartReadFirst
  <2> QED
    BY <1>3, <2>1, <2>2, <2>3 DEF UInv
<1>4. CASE LoopCall
  <2>1. /\ UNCHANGED <<decoder_state, event_flags, reports, frame_flags>>
        /\ depth' = depth \/ depth' = depth + 1
        /\ \A i \in 1..depth : frame_pc'[i] = frame_pc[i]
        /\ depth' = depth + 1 => frame_pc'[depth'] \in {"drained", "get"}
        /\ depth > 0 => frame_pc[depth] \in CallbackSteps
    BY <1>2, <1>4 DEF LoopCall
  <2>2. ~Acting /\ ~Acting'
    BY <1>2, <2>1 DEF Read, Acting
  <2>3. ASSUME NEW i \in 1..(depth' - 1)
        PROVE  frame_pc'[i] \in CallbackSteps
    <3>1. i \in 1..depth
      BY <1>2, <2>1
    <3>2. i = depth \/ i \in 1..(depth - 1)
      BY <1>2, <3>1
    <3> QED
      BY <2>1, <3>1, <3>2 DEF UInv, FramesOK
  <2>4. FramesOK'
    BY <1>1, <2>3 DEF FramesOK
  <2> QED
    BY <1>2, <1>3, <2>1, <2>2, <2>4 DEF Holder
<1>5. CASE CallbackReturn
  <2>1. /\ depth > 0 /\ frame_pc[depth] \in CallbackSteps
        /\ UNCHANGED <<decoder_state, event_flags, reports>>
        /\ \/ LoopReturns /\ frame_pc[depth] \in {"drained", "ended"}
           \/ GoTo("get") /\ frame_pc[depth] = "drained"
           \/ GoTo("finished") /\ frame_pc[depth] = "playing"
    <3>1. depth > 0 /\ frame_pc[depth] \in CallbackSteps
          /\ UNCHANGED <<decoder_state, event_flags, reports>>
      BY <1>5 DEF CallbackReturn
    <3>2. CASE frame_pc[depth] = "drained"
      BY <1>5, <3>1, <3>2 DEF CallbackReturn
    <3>3. CASE frame_pc[depth] = "playing"
      BY <1>5, <3>1, <3>3 DEF CallbackReturn
    <3>4. CASE frame_pc[depth] = "ended"
      BY <1>5, <3>1, <3>4 DEF CallbackReturn
    <3> QED
      BY <3>1, <3>2, <3>3, <3>4
  <2>2. ~Acting /\ ~Acting'
    BY <1>2, <2>1 DEF Acting, UInv, FramesOK
  <2>3. FramesOK'
    BY <1>1, <1>2, <2>1 DEF UInv, FramesOK
  <2> QED
    BY <1>2, <1>3, <2>1, <2>2, <2>3 DEF Holder
<1>6. ASSUME GoTo("finished") \/ GoTo("playing") \/ GoTo("ended")
               \/ GoTo("dispatch") \/ LoopReturns,
             depth > 0, frame_pc[depth] \notin CallbackSteps
      PROVE  /\ FramesOK'
             /\ \A i \in 1..depth :
                  frame_pc[i] \in {"playing"} /\ Holder(i) =>
                    i \in 1..depth' /\ Holder(i)'
  BY <1>1, <1>2, <1>6 DEF UInv, FramesOK, Holder
<1>7. ASSUME LoopReturns, depth > 0 PROVE ~Acting'
  <2>1. depth' > 0 => depth' \in 1..(depth - 1) /\ depth' \in 1..MaxLoopDepth
    BY <1>2, <1>7
  <2>2. depth' > 0 => frame_pc'[depth'] = frame_pc[depth']
    BY <1>2, <1>7, <2>1
  <2> QED
    BY <2>1, <2>2 DEF Acting, UInv, FramesOK
<1>8. CASE PumpGet
  <2>1. /\ depth > 0 /\ frame_pc[depth] = "get"
        /\ UNCHANGED <<decoder_state, event_flags, reports>>
    BY <1>8 DEF PumpGet
  <2>2. CASE event_flags \cap PumpedFlags = {}
    <3>1. LoopReturns
      BY <1>8, <2>2 DEF PumpGet
    <3>2. FramesOK'
      BY <1>6, <2>1, <3>1
    <3>3. ~Acting /\ ~Acting'
      BY <1>7, <2>1, <3>1 DEF Read, Acting
    <3> QED
      BY <1>2, <1>3, <2>1, <3>1, <3>2, <3>3 DEF Holder
  <2>3. CASE event_flags \cap PumpedFlags # {}
    <3>1. /\ frame_pc' = [frame_pc EXCEPT ![depth] = "clear"]
          /\ frame_flags' =
               [frame_flags EXCEPT ![depth] = event_flags \cap PumpedFlags]
          /\ depth' = depth
      BY <1>8, <2>3 DEF PumpGet
    <3>2. \A f : ~Read(f) /\ (Read(f)' <=> f \in event_flags \cap PumpedFlags)
      BY <1>2, <2>1, <3>1 DEF Read, Acting
    <3>3. FramesOK'
      BY <1>1, <1>2, <2>1, <3>1 DEF UInv, FramesOK
    <3>4. \A i \in 1..depth : Holder(i) => Holder(i)'
      BY <1>2, <2>1, <3>1 DEF Holder
    <3>5. SignalsOK' /\ StateOK'
      BY <1>1, <2>1, <3>2 DEF UInv, SignalsOK, StateOK, Pending, Read
    <3>6. ReportDue'
      BY <1>1, <2>1, <3>1, <3>2, <3>4 DEF UInv, SignalsOK, ReportDue, Pending,
         PumpedFlags
    <3>7. StartReadFirst'
      BY <1>2, <2>1, <2>3, <3>1 DEF StartReadFirst, Acting, PumpedFlags
    <3> QED
      BY <3>3, <3>5, <3>6, <3>7 DEF UInv
  <2> QED
    BY <2>2, <2>3
<1>9. CASE PumpClear
  <2>1. /\ depth > 0 /\ frame_pc[depth] = "clear" /\ GoTo("dispatch")
        /\ UNCHANGED <<decoder_state, reports>>
        /\ event_flags' = event_flags \ frame_flags[depth]
    BY <1>9 DEF PumpClear
  <2>2. \A f : (Pending(f)' <=> Pending(f)) /\ (Read(f)' <=> Read(f))
    BY <1>2, <2>1 DEF Read, Acting, Pending
  <2>3. FramesOK' /\ \A i \in 1..depth : Holder(i) => Holder(i)'
    BY <1>1, <1>2, <2>1 DEF UInv, FramesOK, Holder
  <2>4. SignalsOK' /\ StateOK'
    BY <1>1, <2>1, <2>2 DEF UInv, SignalsOK, StateOK
  <2>5. ReportDue'
    BY <1>1, <2>1, <2>2, <2>3 DEF UInv, ReportDue
  <2>6. StartReadFirst'
    BY <1>2, <2>1 DEF UInv, StartReadFirst, Acting
  <2> QED
    BY <2>3, <2>4, <2>5, <2>6 DEF UInv
<1>10. CASE PumpFailed
  <2>1. /\ depth > 0 /\ frame_pc[depth] = "dispatch"
        /\ Read(DECODER_FAILED)
        /\ GoTo("ended") \/ LoopReturns
        /\ decoder_state' = "FAILED" /\ reports' = Append(reports, "FAILED")
        /\ event_flags' = event_flags
    BY <1>10 DEF PumpFailed, SetState, Read, Acting
  <2>2. session = "failed"
    BY <1>1, <2>1 DEF UInv, SignalsOK, Pending
  <2>3. FramesOK'
    BY <1>6, <2>1
  <2>4. ~Acting'
    BY <1>2, <1>7, <2>1 DEF Acting
  <2>5. DECODER_STARTED \notin event_flags
    BY <2>1 DEF UInv, StartReadFirst, Read
  <2>6. SignalsOK'
    BY <1>1, <2>1, <2>2, <2>4, <2>5 DEF UInv, SignalsOK, Pending, Read
  <2>7. StateOK'
    BY <1>1, <1>2, <2>1, <2>2, ReportCount DEF UInv, StateOK, States
  <2>8. ReportDue' /\ StartReadFirst'
    BY <1>1, <2>1, <2>2, <2>4 DEF ReportDue, StartReadFirst, Read
  <2> QED
    BY <2>3, <2>6, <2>7, <2>8 DEF UInv
<1>11. CASE PumpStarted
  <2>1. /\ depth > 0 /\ frame_pc[depth] = "dispatch"
        /\ DECODER_FAILED \notin frame_flags[depth]
        /\ GoTo("playing") \/ GoTo("finished")
        /\ event_flags' = event_flags
    BY <1>11 DEF PumpStarted, SetState
  <2>2. \/ /\ Read(DECODER_STARTED) /\ decoder_state # "FAILED"
           /\ decoder_state' = "PLAYING"
           /\ reports' = Append(reports, "PLAYING")
        \/ /\ Read(DECODER_STARTED) => decoder_state = "FAILED"
           /\ UNCHANGED <<decoder_state, reports>>
    BY <1>11, <2>1 DEF PumpStarted, SetState, Read, Acting
  <2>3. FramesOK'
    BY <1>6, <2>1
  <2>4. ~Acting' /\ DECODER_STARTED \notin event_flags
    BY <1>2, <2>1 DEF Acting, UInv, StartReadFirst
  <2>5. SignalsOK'
    BY <1>1, <2>1, <2>4 DEF UInv, SignalsOK, Pending, Read
  <2>6. Read(DECODER_STARTED) => reports = <<>> /\ session # "none"
    BY <1>1 DEF UInv, SignalsOK, Pending
  <2>7. CASE UNCHANGED <<decoder_state, reports>>
    <3>1. StateOK'
      BY <1>1, <2>7 DEF UInv, StateOK
    <3>2. Read(DECODER_STARTED) => decoder_state = "FAILED"
      BY <2>2, <2>7, <2>6 DEF UInv, StateOK
    <3>3. Read(DECODER_STARTED) => session = "failed"
      BY <2>6, <3>2 DEF UInv, StateOK
    <3>4. Read(DECODER_FINISHED) => ~Read(DECODER_STARTED)
      BY <1>1, <3>3 DEF UInv, SignalsOK, Pending
    <3>5. ~Read(DECODER_FAILED)
      BY <2>1 DEF Read
    <3>6. session = "finished" =>
            \/ Len(reports) > 1 \/ DECODER_FINISHED \in event_flags
            \/ Read(DECODER_FINISHED)
            \/ decoder_state = "PLAYING" /\ \E i \in 1..depth : Holder(i)
      BY DEF UInv, ReportDue, Pending
    <3>7. \A i \in 1..depth : Holder(i) => Holder(i)' /\ i \in 1..depth'
      BY <1>2, <2>1 DEF Holder
    <3>8. Read(DECODER_FINISHED) => depth \in 1..depth' /\ Holder(depth)'
      BY <1>2, <2>1 DEF Read, Acting, Holder
    <3>9. Read(DECODER_FINISHED) /\ ~(Len(reports) > 1) =>
            decoder_state = "PLAYING"
      <4>1. Read(DECODER_FINISHED) => reports # <<>> /\ session = "finished"
        BY <1>1, <3>4 DEF UInv, ReportDue, SignalsOK, Pending
      <4>2. reports # <<>> /\ ~(Len(reports) > 1) => Len(reports) = 1
        BY <1>2, ReportCount
      <4> QED
        BY <1>2, <4>1, <4>2 DEF UInv, StateOK, States
    <3>10. session = "finished" =>
             \/ Len(reports') > 1 \/ Pending(DECODER_FINISHED)'
             \/ decoder_state' = "PLAYING" /\ \E i \in 1..depth' : Holder(i)'
      BY <2>1, <2>7, <3>6, <3>7, <3>8, <3>9 DEF Pending
    <3>11. ReportDue'
      BY <1>1, <2>1, <2>4, <2>7, <3>3, <3>5, <3>10
         DEF UInv, ReportDue, Read, Pending
    <3> QED
      BY <2>3, <2>4, <2>5, <3>1, <3>11 DEF UInv, StartReadFirst
  <2>8. CASE /\ Read(DECODER_STARTED) /\ decoder_state # "FAILED"
             /\ decoder_state' = "PLAYING"
             /\ reports' = Append(reports, "PLAYING")
    <3>1. /\ reports' = <<"PLAYING">> /\ Len(reports') = 1
          /\ reports' # <<>>
      BY <1>2, <2>6, <2>8, ReportCount DEF States
    <3>2. session \in {"started", "finished", "failed"}
      BY <1>1, <2>8 DEF UInv, SignalsOK, Pending
    <3>3. StateOK'
      BY <1>1, <2>8, <3>1, <3>2 DEF UInv, StateOK
    <3>4. session = "failed" => DECODER_FAILED \in event_flags
      BY <2>1, <2>8 DEF UInv, ReportDue, Pending, Read
    <3>5. ~(Len(reports) > 1)
      BY <2>6, <2>8
    <3>6. session = "finished" =>
            \/ DECODER_FINISHED \in event_flags
            \/ Read(DECODER_FINISHED)
            \/ \E i \in 1..depth : Holder(i)
      BY <3>5 DEF UInv, ReportDue, Pending
    <3>7. \A i \in 1..depth : Holder(i) => Holder(i)' /\ i \in 1..depth'
      BY <1>2, <2>1 DEF Holder
    <3>8. Read(DECODER_FINISHED) => depth \in 1..depth' /\ Holder(depth)'
      BY <1>2, <2>1 DEF Read, Acting, Holder
    <3>9. session = "finished" =>
            \/ Pending(DECODER_FINISHED)'
            \/ \E i \in 1..depth' : Holder(i)'
      BY <2>1, <3>6, <3>7, <3>8 DEF Pending
    <3>10. ReportDue'
      BY <1>1, <2>1, <2>4, <2>8, <3>1, <3>4, <3>9 DEF ReportDue, Read, Pending
    <3> QED
      BY <2>3, <2>4, <2>5, <3>3, <3>10 DEF UInv, StartReadFirst
  <2> QED
    BY <2>2, <2>7, <2>8
<1>12. CASE PumpFinished
  <2>1. /\ depth > 0 /\ frame_pc[depth] = "finished"
        /\ GoTo("ended") \/ LoopReturns
        /\ event_flags' = event_flags
        /\ \/ /\ DECODER_FINISHED \in frame_flags[depth]
              /\ decoder_state = "PLAYING" /\ decoder_state' = "IDLE"
              /\ reports' = Append(reports, "IDLE")
           \/ /\ DECODER_FINISHED \in frame_flags[depth] =>
                    decoder_state # "PLAYING"
              /\ LoopReturns
              /\ UNCHANGED <<decoder_state, reports>>
    BY <1>12 DEF PumpFinished, SetState
  <2>2. FramesOK'
    BY <1>6, <2>1
  <2>3. ~Acting
    BY <2>1 DEF Acting
  <2>4. ~Acting'
    BY <1>2, <1>7, <2>1 DEF Acting
  <2>5. CASE UNCHANGED <<decoder_state, reports>> /\ LoopReturns
             /\ (DECODER_FINISHED \in frame_flags[depth] =>
                   decoder_state # "PLAYING")
    <3>1. decoder_state = "PLAYING" =>
            \A i \in 1..depth : Holder(i) => i \in 1..depth' /\ Holder(i)'
      BY <1>2, <2>5 DEF Holder
    <3> QED
      BY <1>3, <2>1, <2>2, <2>3, <2>4, <2>5, <3>1
  <2>6. CASE /\ decoder_state = "PLAYING" /\ decoder_state' = "IDLE"
             /\ reports' = Append(reports, "IDLE")
    <3>1. session # "none" /\ session # "launched" /\ reports # <<>>
      BY <1>1, <2>6 DEF UInv, StateOK
    <3>2. reports' # <<>> /\ Len(reports') > 1 /\ Len(reports') # 1
      BY <1>2, <2>6, <3>1, ReportCount DEF States
    <3>3. DECODER_STARTED \notin event_flags
      BY <1>1, <3>1 DEF UInv, SignalsOK, Pending
    <3>4. SignalsOK'
      BY <1>1, <2>1, <2>4, <3>3 DEF UInv, SignalsOK, Pending, Read
    <3>5. StateOK'
      BY <1>1, <2>6, <3>1, <3>2 DEF UInv, StateOK
    <3>6. ReportDue'
      BY <1>1, <2>1, <2>3, <2>4, <2>6, <3>2
         DEF UInv, ReportDue, Pending, Read
    <3> QED
      BY <2>2, <2>4, <3>4, <3>5, <3>6 DEF UInv, StartReadFirst
  <2> QED
    BY <2>1, <2>5, <2>6
<1> QED
  BY <1>4, <1>5, <1>8, <1>9, <1>10, <1>11, <1>12

(* UInv holds in every reachable state.                                    *)
LEMMA OutcomeInvariance == Spec => [](IInv /\ PInv /\ UInv)
<1>1. Init => UInv
  BY DEF Init, UInv, FramesOK, SignalsOK, StateOK, ReportDue, StartReadFirst,
     Acting, Read, Pending, DECODER_STARTED, DECODER_FINISHED, DECODER_FAILED
<1>2. IInv /\ PInv /\ UInv /\ [Next]_vars => UInv'
  <2> SUFFICES ASSUME IInv, PInv, UInv, [Next]_vars PROVE UInv'
    OBVIOUS
  <2>1. CASE UNCHANGED vars
    BY <2>1 DEF vars, stateVars, opVars, frameVars, userVars, UInv, FramesOK,
       SignalsOK, StateOK, ReportDue, StartReadFirst, Acting, Read, Pending,
       Holder
  <2>2. CASE Next
    BY <2>1, <2>2, WorkersKeepOutcome, CallsKeepOutcome, LoopKeepsOutcome
       DEF Next, Reader, Decoder, Call, CallStep, Destroyed
  <2> QED
    BY <2>1, <2>2
<1> QED
  BY <1>1, <1>2, PlaybackInvariance, PTL DEF Spec

(* However deep loop() is nested and whatever interleaves with it, what    *)
(* became of a playback is in the flags, in the hands of a loop() call     *)
(* that will act on it, or reported (pump_events()).                       *)
THEOREM OutcomeReported == Spec => []OutcomeNotLost
<1>1. IInv /\ UInv => OutcomeNotLost
  <2> SUFFICES ASSUME IInv, UInv PROVE OutcomeNotLost
    OBVIOUS
  <2>1. depth \in 0..MaxLoopDepth
    BY DEF IInv, TypeOK, FrameTypeOK
  <2>2. ASSUME NEW f, Pending(f) PROVE Held(f, {"clear", "dispatch"})
    BY <2>1, <2>2, ConstantsAssumption
       DEF ConstantsAssumption, Pending, Read, Acting, Held
  <2>3. Held(DECODER_FINISHED, {"clear", "dispatch"}) =>
          Held(DECODER_FINISHED, {"clear", "dispatch", "playing", "finished"})
    BY DEF Held
  <2>4. (\E i \in 1..depth : Holder(i)) =>
          Held(DECODER_FINISHED, {"clear", "dispatch", "playing", "finished"})
    BY DEF Held, Holder
  <2> QED
    BY <2>2, <2>3, <2>4 DEF UInv, ReportDue, OutcomeNotLost
<1> QED
  BY <1>1, OutcomeInvariance, PTL

-----------------------------------------------------------------------------
(* One loop() call at a time.  A frame that has read an event is the only  *)
(* one with it, and one that will report IDLE does so for the playback     *)
(* that has finished.                                                      *)
ReportOrder ==
  session = "started" \/ Pending(DECODER_FINISHED) \/ Pending(DECODER_FAILED)
    => reports \in {<<>>, <<"PLAYING">>}

ReadOnce ==
  depth = 1 /\ frame_pc[1] = "dispatch" =>
    \A f \in {DECODER_FINISHED, DECODER_FAILED} :
      f \in frame_flags[1] => f \notin event_flags

EndsThisPlayback ==
  depth = 1 /\ Holder(1) /\ decoder_state = "PLAYING" /\ op_pc # "finish" =>
    /\ session = "finished" /\ reports = <<"PLAYING">>
    /\ DECODER_FINISHED \notin event_flags

LInv == ReportOrder /\ ReadOnce /\ EndsThisPlayback

(* LInv over the workers' signals.                                         *)
LEMMA WorkersKeepOrder ==
  ASSUME IInv, PInv, UInv, LInv, ReaderStep \/ DecoderStep
  PROVE  LInv'
<1> USE DEF DECODER_STARTED, DECODER_FINISHED, DECODER_FAILED
<1>1. /\ UNCHANGED <<frameVars, opVars, stateVars, reports>>
      /\ \/ /\ session' = session
            /\ event_flags' \cap PumpedFlags = event_flags \cap PumpedFlags
         \/ /\ session = "launched" /\ session' = "started"
            /\ event_flags' = event_flags \cup {DECODER_STARTED}
         \/ /\ session = "started" /\ session' = "finished"
            /\ event_flags' = event_flags \cup {DECODER_FINISHED}
         \/ /\ session \in {"launched", "started"} /\ session' = "failed"
            /\ event_flags' = event_flags \cup {DECODER_FAILED}
  BY WorkersSignal
<1>2. \A f : Read(f)' <=> Read(f)
  BY <1>1 DEF Read, Acting, frameVars
<1>3. op_pc = "finish" => session = "none"
  BY DEF IInv, ThreadsOK, PInv, SessionOK
<1>4. ReportOrder'
  BY <1>1, <1>2, <1>3 DEF LInv, ReportOrder, Pending, PumpedFlags, UInv,
     StateOK
<1>5. ReadOnce'
  <2>1. depth = 1 /\ frame_pc[1] = "dispatch" =>
          \A f : f \in frame_flags[1] => Read(f)
    BY DEF Read, Acting
  <2>2. \A f \in {DECODER_FINISHED, DECODER_FAILED} :
          Read(f) => session \in {"none", "finished", "failed"}
    BY <1>3 DEF UInv, SignalsOK, Pending
  <2>3. /\ Read(DECODER_FINISHED) => session \in {"none", "finished"}
        /\ Read(DECODER_FAILED) => session \in {"none", "failed"}
    BY <1>3 DEF UInv, SignalsOK, Pending
  <2> QED
    BY <1>1, <2>1, <2>3 DEF LInv, ReadOnce, frameVars, PumpedFlags
<1>6. EndsThisPlayback'
  BY <1>1 DEF LInv, EndsThisPlayback, Holder, frameVars, opVars, stateVars,
     PumpedFlags
<1> QED
  BY <1>4, <1>5, <1>6 DEF LInv

(* LInv over the calls other than loop().                                  *)
LEMMA CallsKeepOrder ==
  ASSUME IInv, PInv, UInv, LInv,
         \/ SetListener \/ PlayUninitialized \/ DestroyUninitialized
         \/ \E call \in Ops \ {"none"} : StopBegin(call)
         \/ StopJoinReader \/ StopJoinDecoder \/ StopFinish
         \/ PlayNoListener \/ PlayUrlNoRing \/ PlayUrlStartsReader
         \/ PlayUrlNoReader \/ PlayUrlStartsDecoder \/ PlayUrlNoDecoder
         \/ PlayUrlUnwind
         \/ \E t \in FileTypes :
              PlayBufferStartsDecoder(t) \/ PlayBufferNoDecoder(t)
  PROVE  LInv'
<1> USE DEF SetListener, PlayUninitialized, DestroyUninitialized, StopBegin,
      StopJoinReader, StopJoinDecoder, StopFinish, PlayNoListener,
      PlayUrlNoRing, PlayUrlStartsReader, PlayUrlNoReader,
      PlayUrlStartsDecoder, PlayUrlNoDecoder, PlayUrlUnwind,
      PlayBufferStartsDecoder, PlayBufferNoDecoder, ClearForPlay, StoreState,
      Return, UserInControl, stateVars, opVars, frameVars, userVars
<1> USE DEF READER_READY, READER_FINISHED, READER_ERROR, COMMAND_STOP,
      DECODER_STARTED, DECODER_FINISHED, DECODER_FAILED, DECODER_EXITED
<1>1. UNCHANGED frameVars
  OBVIOUS
<1>2. /\ op = "none" <=> op_pc = "idle"
      /\ op_pc \in {"finish", "prepare", "spawn_decoder", "unwind_join"} =>
           session = "none"
      /\ ~initialized_ => session = "none"
  BY DEF IInv, CallsOK, ThreadsOK, PInv, SessionOK
<1>3. \A f : (Read(f)' <=> Read(f)) /\ (op # "none" => ~Read(f))
  BY <1>1 DEF Read, Acting, UInv, FramesOK, CallbackSteps
<1>4. ReportOrder'
  BY <1>2, <1>3 DEF LInv, ReportOrder, Pending, UInv, StateOK
<1>5. ReadOnce'
  BY <1>1, <1>2 DEF LInv, ReadOnce
<1>6. EndsThisPlayback'
  <2> SUFFICES ASSUME decoder_state' = "PLAYING", op_pc' # "finish"
               PROVE  EndsThisPlayback'
    BY DEF EndsThisPlayback
  <2>1. decoder_state = "PLAYING" /\ op_pc # "finish"
    BY <1>2 DEF UInv, StateOK
  <2>2. session # "none"
    BY <2>1 DEF UInv, StateOK
  <2>3. /\ UNCHANGED <<session, reports>>
        /\ event_flags' \in {event_flags, event_flags \cup {COMMAND_STOP}}
    BY <1>2, <2>1, <2>2
  <2> QED
    BY <1>1, <2>1, <2>3 DEF LInv, EndsThisPlayback, Holder
<1> QED
  BY <1>4, <1>5, <1>6 DEF LInv

(* loop() called from no callback: each report is the one that is due.     *)
LEMMA LoopReportsInOrder ==
  ASSUME IInv, PInv, UInv, LInv, MaxLoopDepth = 1,
         \/ LoopCall \/ CallbackReturn
         \/ PumpGet \/ PumpClear \/ PumpFailed \/ PumpStarted \/ PumpFinished
  PROVE  /\ LInv'
         /\ \/ UNCHANGED <<session, decoder_state, reports>>
            \/ \E s \in {"PLAYING", "IDLE", "FAILED"} : Lifecycle!Report(s)
<1> USE DEF UserInControl, InLoop, GoTo, LoopReturns, otherThanLoop,
      stateVars, opVars, CallbackSteps
<1> USE DEF DECODER_STARTED, DECODER_FINISHED, DECODER_FAILED
<1>1. /\ op_pc = "idle" /\ op = "none"
      /\ UNCHANGED <<session, op, op_pc, op_current>>
  BY DEF LoopCall, CallbackReturn, PumpGet, PumpClear, PumpFailed,
     PumpStarted, PumpFinished, IInv, CallsOK
<1>2. /\ depth \in {0, 1}
      /\ frame_pc \in [1..1 -> FrameSteps]
      /\ frame_flags \in [1..1 -> SUBSET PumpedFlags]
      /\ reports \in Seq(States) /\ decoder_state \in States
  BY DEF IInv, TypeOK, FrameTypeOK, HistoryTypeOK, SharedTypeOK
<1>3. \A f : Read(f) <=> /\ depth = 1 /\ frame_pc[1] \in {"clear", "dispatch"}
                         /\ f \in frame_flags[1]
  BY <1>2 DEF Read, Acting
<1>4. CASE LoopCall
  <2>1. /\ UNCHANGED <<decoder_state, event_flags, reports, frame_flags>>
        /\ \/ depth' = depth
           \/ depth' = 1 /\ frame_pc'[1] \in {"drained", "get"}
        /\ depth = 0
    BY <1>2, <1>4 DEF LoopCall
  <2>2. \A f : ~Read(f) /\ ~Read(f)'
    BY <1>3, <2>1 DEF Read, Acting
  <2>3. LInv'
    BY <1>1, <1>2, <2>1, <2>2 DEF LInv, ReportOrder, ReadOnce,
       EndsThisPlayback, Pending, Holder
  <2> QED
    BY <1>1, <2>1, <2>3
<1>5. CASE CallbackReturn
  <2>1. /\ depth = 1 /\ frame_pc[1] \in CallbackSteps
        /\ UNCHANGED <<decoder_state, event_flags, reports>>
        /\ \/ depth' = 0
           \/ /\ depth' = 1 /\ frame_flags' = frame_flags
              /\ frame_pc'[1] = "get"
           \/ /\ depth' = 1 /\ frame_flags' = frame_flags
              /\ frame_pc'[1] = "finished" /\ frame_pc[1] = "playing"
    <3>1. depth = 1 /\ frame_pc[1] \in CallbackSteps
          /\ UNCHANGED <<decoder_state, event_flags, reports>>
      BY <1>2, <1>5 DEF CallbackReturn
    <3>2. CASE frame_pc[1] = "drained"
      BY <1>2, <1>5, <3>1, <3>2 DEF CallbackReturn
    <3>3. CASE frame_pc[1] = "playing"
      BY <1>2, <1>5, <3>1, <3>3 DEF CallbackReturn
    <3>4. CASE frame_pc[1] = "ended"
      BY <1>2, <1>5, <3>1, <3>4 DEF CallbackReturn
    <3> QED
      BY <3>1, <3>2, <3>3, <3>4
  <2>2. \A f : ~Read(f) /\ ~Read(f)'
    BY <1>3, <2>1 DEF Read, Acting
  <2>3. LInv'
    BY <1>1, <2>1, <2>2 DEF LInv, ReportOrder, ReadOnce, EndsThisPlayback,
       Pending, Holder
  <2> QED
    BY <1>1, <2>1, <2>3
<1>6. CASE PumpGet
  <2>1. /\ depth = 1 /\ frame_pc[1] = "get"
        /\ UNCHANGED <<decoder_state, event_flags, reports>>
        /\ \/ depth' = 0
           \/ /\ depth' = 1 /\ frame_pc'[1] = "clear"
              /\ frame_flags'[1] = event_flags \cap PumpedFlags
    BY <1>2, <1>6 DEF PumpGet
  <2>2. \A f : Pending(f)' => Pending(f)
    BY <2>1 DEF Pending, Read, Acting
  <2>3. LInv'
    BY <1>1, <2>1, <2>2 DEF LInv, ReportOrder, ReadOnce, EndsThisPlayback,
       Holder
  <2> QED
    BY <1>1, <2>1, <2>3
<1>7. CASE PumpClear
  <2>1. /\ depth = 1 /\ frame_pc[1] = "clear"
        /\ depth' = 1 /\ frame_pc'[1] = "dispatch"
        /\ frame_flags' = frame_flags
        /\ UNCHANGED <<decoder_state, reports>>
        /\ event_flags' = event_flags \ frame_flags[1]
    BY <1>2, <1>7 DEF PumpClear
  <2>2. \A f : Pending(f)' => Pending(f)
    BY <2>1 DEF Pending, Read, Acting
  <2>3. LInv'
    BY <1>1, <2>1, <2>2 DEF LInv, ReportOrder, ReadOnce, EndsThisPlayback,
       Holder
  <2> QED
    BY <1>1, <2>1, <2>3
<1>8. CASE PumpFailed
  <2>1. /\ depth = 1 /\ frame_pc[1] = "dispatch" /\ Read(DECODER_FAILED)
        /\ DECODER_FAILED \in frame_flags[1]
        /\ depth' = 0 \/ (depth' = 1 /\ frame_pc'[1] = "ended")
        /\ decoder_state' = "FAILED" /\ reports' = Append(reports, "FAILED")
        /\ event_flags' = event_flags
    BY <1>2, <1>3, <1>8 DEF PumpFailed, SetState
  <2>2. session = "failed"
    BY <1>1, <2>1 DEF UInv, SignalsOK, Pending
  <2>3. reports \in {<<>>, <<"PLAYING">>}
    BY <2>1 DEF LInv, ReportOrder, Pending
  <2>4. Lifecycle!Report("FAILED")
    BY <1>1, <2>1, <2>2, <2>3 DEF Lifecycle!Report, Lifecycle!Due
  <2>5. ~Pending(DECODER_FINISHED)' /\ ~Pending(DECODER_FAILED)'
    BY <1>1, <2>1, <2>2
       DEF UInv, SignalsOK, LInv, ReadOnce, Pending, Read, Acting
  <2>6. LInv'
    BY <1>1, <2>1, <2>2, <2>5
       DEF LInv, ReportOrder, ReadOnce, EndsThisPlayback, Holder
  <2> QED
    BY <2>4, <2>6
<1>9. CASE PumpStarted
  <2>1. /\ depth = 1 /\ frame_pc[1] = "dispatch"
        /\ DECODER_FAILED \notin frame_flags[1]
        /\ depth' = 1 /\ frame_pc'[1] \in {"playing", "finished"}
        /\ frame_flags' = frame_flags /\ event_flags' = event_flags
        /\ \/ /\ Read(DECODER_STARTED)
              /\ decoder_state' = "PLAYING"
              /\ reports' = Append(reports, "PLAYING")
           \/ UNCHANGED <<decoder_state, reports>>
    BY <1>2, <1>3, <1>9 DEF PumpStarted, SetState
  <2>2. Read(DECODER_STARTED) =>
          /\ reports = <<>> /\ Append(reports, "PLAYING") = <<"PLAYING">>
          /\ session \in {"started", "finished", "failed"}
    BY <1>1, <1>2, ReportCount DEF UInv, SignalsOK, Pending, States
  <2>3. \/ UNCHANGED <<session, decoder_state, reports>>
        \/ Lifecycle!Report("PLAYING") /\ reports' = <<"PLAYING">>
    BY <1>1, <2>1, <2>2 DEF Lifecycle!Report, Lifecycle!Due
  <2>4. \A f : Pending(f)' => Pending(f)
    BY <2>1 DEF Pending, Read, Acting
  <2>5. ReportOrder'
    BY <1>1, <2>1, <2>2, <2>4 DEF LInv, ReportOrder
  <2>6. DECODER_FINISHED \in frame_flags[1] =>
          /\ session = "finished" /\ Pending(DECODER_FINISHED)
          /\ DECODER_FINISHED \notin event_flags
    BY <1>1, <1>3, <2>1 DEF UInv, SignalsOK, Pending, LInv, ReadOnce
  <2>7. EndsThisPlayback'
    <3> SUFFICES ASSUME Holder(1)', decoder_state' = "PLAYING"
                 PROVE  /\ session' = "finished" /\ reports' = <<"PLAYING">>
                        /\ DECODER_FINISHED \notin event_flags'
      BY DEF EndsThisPlayback
    <3>1. DECODER_FINISHED \in frame_flags[1]
      BY <2>1 DEF Holder
    <3>2. reports # <<>> \/ reports' = <<"PLAYING">>
      BY <1>1, <2>1, <2>2, <2>6, <3>1 DEF UInv, StateOK
    <3>3. reports' = <<"PLAYING">>
      BY <2>1, <2>2, <2>6, <3>1, <3>2 DEF LInv, ReportOrder
    <3> QED
      BY <1>1, <2>1, <2>6, <3>1, <3>3
  <2>8. ReadOnce'
    BY <2>1 DEF ReadOnce
  <2> QED
    BY <2>3, <2>5, <2>7, <2>8 DEF LInv
<1>10. CASE PumpFinished
  <2>1. /\ depth = 1 /\ frame_pc[1] = "finished"
        /\ depth' = 0 \/ (depth' = 1 /\ frame_pc'[1] = "ended")
        /\ event_flags' = event_flags
        /\ \/ /\ Holder(1) /\ decoder_state = "PLAYING"
              /\ decoder_state' = "IDLE" /\ reports' = Append(reports, "IDLE")
           \/ UNCHANGED <<decoder_state, reports>>
    BY <1>2, <1>10 DEF PumpFinished, SetState, Holder
  <2>2. \A f : Pending(f)' => f \in event_flags
    BY <2>1 DEF Pending, Read, Acting
  <2>3. CASE UNCHANGED <<decoder_state, reports>>
    <3>1. LInv'
      BY <1>1, <2>1, <2>2, <2>3 DEF LInv, ReportOrder, ReadOnce,
         EndsThisPlayback, Holder, Pending
    <3> QED
      BY <1>1, <2>3, <3>1
  <2>4. CASE /\ Holder(1) /\ decoder_state = "PLAYING"
             /\ decoder_state' = "IDLE" /\ reports' = Append(reports, "IDLE")
    <3>1. /\ session = "finished" /\ reports = <<"PLAYING">>
          /\ DECODER_FINISHED \notin event_flags
      BY <1>1, <2>1, <2>4 DEF LInv, EndsThisPlayback
    <3>2. Lifecycle!Report("IDLE")
      BY <1>1, <2>4, <3>1 DEF Lifecycle!Report, Lifecycle!Due
    <3>3. DECODER_FAILED \notin event_flags
      BY <1>1, <3>1 DEF UInv, SignalsOK, Pending
    <3>4. LInv'
      BY <1>1, <2>1, <2>2, <2>4, <3>1, <3>3 DEF LInv, ReportOrder, ReadOnce,
         EndsThisPlayback, Holder
    <3> QED
      BY <3>2, <3>4
  <2> QED
    BY <2>1, <2>3, <2>4
<1> QED
  BY <1>4, <1>5, <1>6, <1>7, <1>8, <1>9, <1>10

(* Each call that ends or begins a playback is a step of the lifecycle, or *)
(* changes nothing the listener sees.                                      *)
LEMMA CallsFollowLifecycle ==
  ASSUME IInv, PInv, UInv,
         \/ SetListener \/ PlayUninitialized \/ DestroyUninitialized
         \/ \E call \in Ops \ {"none"} : StopBegin(call)
         \/ StopJoinReader \/ StopJoinDecoder \/ StopFinish
         \/ PlayNoListener \/ PlayUrlNoRing \/ PlayUrlStartsReader
         \/ PlayUrlNoReader \/ PlayUrlStartsDecoder \/ PlayUrlNoDecoder
         \/ PlayUrlUnwind
         \/ \E t \in FileTypes :
              PlayBufferStartsDecoder(t) \/ PlayBufferNoDecoder(t)
  PROVE  [Lifecycle!Next]_<<session, decoder_state, reports>>
<1> USE DEF stateVars, opVars, frameVars, userVars, StoreState
<1>1. /\ op = "none" <=> op_pc = "idle"
      /\ op_pc \in {"finish", "prepare", "spawn_decoder", "unwind_join"} =>
           session = "none"
      /\ ~initialized_ => session = "none"
  BY DEF IInv, CallsOK, ThreadsOK, PInv, SessionOK
<1>2. CASE \/ PlayUrlStartsDecoder
           \/ \E t \in FileTypes : PlayBufferStartsDecoder(t)
  <2>1. Lifecycle!Launch
    BY <1>1, <1>2 DEF PlayUrlStartsDecoder, PlayBufferStartsDecoder,
       ClearForPlay, UInv, StateOK, Lifecycle!Launch
  <2> QED
    BY <2>1 DEF Lifecycle!Next
<1>3. CASE StopJoinDecoder
  <2>1. session = "none" => reports = <<>>
    BY DEF UInv, StateOK
  <2>2. Lifecycle!Halt \/ UNCHANGED <<session, decoder_state, reports>>
    BY <1>3, <2>1 DEF StopJoinDecoder, Lifecycle!Halt
  <2> QED
    BY <2>2 DEF Lifecycle!Next
<1>4. CASE \/ PlayUninitialized \/ StopFinish \/ PlayUrlNoRing
           \/ PlayUrlNoReader \/ PlayUrlUnwind
           \/ \E t \in FileTypes : PlayBufferNoDecoder(t)
  <2>1. Lifecycle!Settle \/ UNCHANGED <<session, decoder_state, reports>>
    BY <1>1, <1>4 DEF PlayUninitialized, StopFinish, PlayUrlNoRing,
       PlayUrlNoReader, PlayUrlUnwind, PlayBufferNoDecoder, Lifecycle!Settle
  <2> QED
    BY <2>1 DEF Lifecycle!Next
<1>5. CASE \/ SetListener \/ DestroyUninitialized
           \/ \E call \in Ops \ {"none"} : StopBegin(call)
           \/ StopJoinReader \/ PlayNoListener \/ PlayUrlStartsReader
           \/ PlayUrlNoDecoder
  BY <1>5 DEF SetListener, DestroyUninitialized, StopBegin, StopJoinReader,
     PlayNoListener, PlayUrlStartsReader, PlayUrlNoDecoder, ClearForPlay
<1> QED
  BY <1>2, <1>3, <1>4, <1>5

(* A listener whose callbacks do not call loop() sees what                 *)
(* PlaybackLifecycle promises: every playback starts in the state IDLE,    *)
(* reports PLAYING, then IDLE or FAILED, each once, in this order, and     *)
(* only of the playback that is running (pump_events(), stop(), play_*()). *)
THEOREM LifecycleRefinement ==
  ASSUME MaxLoopDepth = 1
  PROVE  Spec => Lifecycle!Spec
<1>1. Init => Lifecycle!Init /\ LInv
  BY DEF Init, Lifecycle!Init, LInv, ReportOrder, ReadOnce, EndsThisPlayback,
     Pending, Read, Acting
<1>2. IInv /\ PInv /\ UInv /\ LInv /\ [Next]_vars =>
        LInv' /\ [Lifecycle!Next]_<<session, decoder_state, reports>>
  <2> SUFFICES ASSUME IInv, PInv, UInv, LInv, [Next]_vars
               PROVE  /\ LInv'
                      /\ [Lifecycle!Next]_<<session, decoder_state, reports>>
    OBVIOUS
  <2>1. CASE UNCHANGED vars
    BY <2>1 DEF vars, stateVars, opVars, frameVars, userVars, LInv,
       ReportOrder, ReadOnce, EndsThisPlayback, Acting, Read, Pending, Holder
  <2>2. CASE ReaderStep \/ DecoderStep
    <3>1. Lifecycle!Start \/ Lifecycle!Finish \/ Lifecycle!Fail
          \/ UNCHANGED <<session, decoder_state, reports>>
      BY <2>2, WorkersSignal
         DEF stateVars, Lifecycle!Start, Lifecycle!Finish, Lifecycle!Fail
    <3> QED
      BY <2>2, <3>1, WorkersKeepOrder DEF Lifecycle!Next
  <2>3. CASE \/ LoopCall \/ CallbackReturn \/ PumpGet \/ PumpClear
             \/ PumpFailed \/ PumpStarted \/ PumpFinished
    BY <2>3, LoopReportsInOrder DEF Lifecycle!Next
  <2>4. CASE Next /\ ~(ReaderStep \/ DecoderStep)
             /\ ~(\/ LoopCall \/ CallbackReturn \/ PumpGet \/ PumpClear
                  \/ PumpFailed \/ PumpStarted \/ PumpFinished)
    BY <2>1, <2>4, CallsKeepOrder, CallsFollowLifecycle
       DEF Next, Reader, Decoder, Call, CallStep, Destroyed
  <2> QED
    BY <2>1, <2>2, <2>3, <2>4
<1> QED
  BY <1>1, <1>2, OutcomeInvariance, PTL
     DEF Spec, Lifecycle!Spec, Lifecycle!lifecycleVars
=============================================================================
