------------------------- MODULE DecoderSourceProofs -------------------------
(***************************************************************************)
(* Safety of DecoderSource for every set of file types, every ring size,   *)
(* every number of playbacks and every depth of nested loop() calls.       *)
(*                                                                         *)
(* The invariants are proved together, as the inductive invariant IInv.    *)
(* None of them is inductive alone: that the ring buffer is there while a  *)
(* thread uses it rests on which threads can exist at each step of a call  *)
(* (ThreadsOK), that releasing a chunk leaves a ring buffer rests on an    *)
(* acquired chunk being in it (DecodeOK).                                  *)
(***************************************************************************)
EXTENDS DecoderSource, SequenceTheorems, TLAPS

(* The call in progress and its step fit together; a play_*() call has a   *)
(* playback left to start.                                                 *)
CallsOK ==
  /\ op = "none" <=> op_pc = "idle"
  /\ op_pc = "prepare" => op \in {"play_url", "play_buffer"}
  /\ op_pc \in {"spawn_decoder", "unwind_join"} => op = "play_url"
  /\ op \in {"play_url", "play_buffer"}
       /\ op_pc \in {"join_reader", "join_decoder", "finish", "prepare"} =>
         plays < MaxPlays

(* Which worker threads there can be at each step of a call.               *)
ThreadsOK ==
  /\ op_pc \in {"join_decoder", "finish", "prepare"} => rd_pc = "none"
  /\ op_pc \in {"finish", "prepare", "spawn_decoder", "unwind_join"} =>
       dc_pc = "none"
  /\ op_pc \in {"spawn_decoder", "unwind_join"} => rd_pc # "none"
  /\ ~initialized_ => rd_pc = "none" /\ dc_pc = "none" /\ op = "none"
  /\ destroyed => rd_pc = "none" /\ dc_pc = "none" /\ op = "none"

(* What the decoder holds while it runs.                                   *)
DecodeOK ==
  /\ dc_acquired = 1 =>
       /\ dc_url
       /\ dc_pc \in {"loop", "check", "first", "again", "codec", "unwind"}
       /\ ring_data # <<>>
  /\ dc_pc \in {"first", "again", "codec"} => dc_failures <= MaxFailures
  /\ dc_pc = "codec" => IF dc_url THEN dc_acquired = 1 ELSE dc_left > 0

(* The ring buffer from the moment the reader is started.                  *)
RingOK ==
  RingInUse \/ op_pc \in {"spawn_decoder", "unwind_join"} =>
    /\ ring_allocated
    /\ \A i \in DOMAIN ring_data : ring_data[i] = plays

IInv ==
  /\ TypeOK
  /\ CallsOK
  /\ ThreadsOK
  /\ DecodeOK
  /\ RingOK
  /\ NoStaleNotification
  /\ NoStrayStop

-----------------------------------------------------------------------------
(* The reader's steps.                                                     *)

(* No step of the reader thread disturbs the invariant: it writes only     *)
(* while the ring buffer is held, and with the number of this playback.    *)
LEMMA ReaderPreserves == IInv /\ ReaderStep => IInv'
<1> SUFFICES ASSUME IInv, ReaderStep PROVE IInv'
  OBVIOUS
<1> USE ConstantsAssumption DEF IInv, TypeOK, SharedTypeOK, RingTypeOK,
      ReaderTypeOK, DecoderTypeOK, CallTypeOK, FrameTypeOK, HistoryTypeOK, CallsOK, ThreadsOK, DecodeOK,
      RingOK, RingInUse, ReaderGone, DecoderGone, NoStaleNotification,
      NoStrayStop, ReaderSteps, DecoderSteps, otherThanReader, configVars,
      stateVars, ringVars, decoderVars, userVars, opVars, frameVars
<1> USE DEF ALL_FLAGS, READER_READY, READER_FINISHED, READER_ERROR,
      COMMAND_STOP, DECODER_STARTED, DECODER_FINISHED, DECODER_FAILED,
      DECODER_EXITED
<1>1. CASE \E t \in FileTypes : ReaderOpen(t)
  BY <1>1 DEF ReaderOpen
<1>2. CASE ReaderOpenFails
  BY <1>2 DEF ReaderOpenFails
<1>3. CASE ReaderPublish
  BY <1>3 DEF ReaderPublish
<1>4. CASE ReaderReady
  BY <1>4 DEF ReaderReady
<1>5. CASE ReaderCheck
  BY <1>5 DEF ReaderCheck
<1>6. CASE ReaderWrite
  BY <1>6 DEF ReaderWrite, RingFull
<1>7. CASE ReaderWriteTimesOut
  BY <1>7 DEF ReaderWriteTimesOut, RingFull
<1>8. CASE ReaderRead
  BY <1>8 DEF ReaderRead
<1>9. CASE ReaderWaitReturns
  BY <1>9 DEF ReaderWaitReturns
<1>10. CASE ReaderFinished
  BY <1>10 DEF ReaderFinished
<1>11. CASE ReaderError
  BY <1>11 DEF ReaderError
<1> QED
  BY <1>1, <1>2, <1>3, <1>4, <1>5, <1>6, <1>7, <1>8, <1>9, <1>10, <1>11 DEF ReaderStep

-----------------------------------------------------------------------------
(* The decoder's steps.                                                    *)

(* Releasing a chunk, acquired and therefore in the ring buffer, leaves a   *)
(* shorter ring buffer of the same playback.                               *)
LEMMA ReleaseShortens ==
  ASSUME TypeOK, DecodeOK, NEW unread \in 0..1, Release(unread)
  PROVE  /\ dc_acquired' = unread
         /\ ring_data' \in Seq(0..MaxPlays)
         /\ Len(ring_data') <= RingCapacity
         /\ unread = dc_acquired => ring_data' = ring_data
         /\ (\A i \in DOMAIN ring_data : ring_data[i] = plays) =>
              \A i \in DOMAIN ring_data' : ring_data'[i] = plays
<1> USE DEF TypeOK, SharedTypeOK, RingTypeOK,
      ReaderTypeOK, DecoderTypeOK, CallTypeOK, FrameTypeOK, HistoryTypeOK, DecodeOK, Release
<1>1. CASE dc_acquired = 1 /\ unread = 0
  <2>1. ring_data # <<>> /\ ring_data' = Tail(ring_data)
    BY <1>1
  <2>2. /\ ring_data' \in Seq(0..MaxPlays)
        /\ Len(ring_data') = Len(ring_data) - 1
        /\ \A i \in 1..Len(ring_data') : ring_data'[i] = ring_data[i + 1]
    BY <2>1, HeadTailProperties
  <2>3. DOMAIN ring_data' = 1..(Len(ring_data) - 1)
        /\ DOMAIN ring_data = 1..Len(ring_data)
    BY <2>2
  <2> QED
    BY <1>1, <2>2, <2>3, ConstantsAssumption DEF ConstantsAssumption
<1>2. CASE ~(dc_acquired = 1 /\ unread = 0)
  BY <1>2
<1> QED
  BY <1>1, <1>2

(* No step of the decoder thread disturbs the invariant: it releases only  *)
(* a chunk it holds acquired, and never sets the stop command.             *)
LEMMA DecoderPreserves == IInv /\ DecoderStep => IInv'
<1> SUFFICES ASSUME IInv, DecoderStep PROVE IInv'
  OBVIOUS
<1> USE ConstantsAssumption DEF IInv, TypeOK, SharedTypeOK, RingTypeOK,
      ReaderTypeOK, DecoderTypeOK, CallTypeOK, FrameTypeOK, HistoryTypeOK, CallsOK, ThreadsOK, DecodeOK,
      RingOK, RingInUse, ReaderGone, DecoderGone, NoStaleNotification,
      NoStrayStop, ReaderSteps, DecoderSteps, Sessions, otherThanDecoder,
      decodeVars, configVars, stateVars, ringVars, readerVars, userVars,
      opVars, frameVars
<1> USE DEF ALL_FLAGS, READER_READY, READER_FINISHED, READER_ERROR,
      COMMAND_STOP, DECODER_STARTED, DECODER_FINISHED, DECODER_FAILED,
      DECODER_EXITED, SetFlag
<1>1. CASE DecoderWaitEnds
  BY <1>1 DEF DecoderWaitEnds
<1>2. CASE DecoderWaitTimesOut
  BY <1>2 DEF DecoderWaitTimesOut
<1>3. CASE DecoderStart
  BY <1>3 DEF DecoderStart
<1>4. CASE DecoderStartFails
  BY <1>4 DEF DecoderStartFails
<1>5. CASE DecoderLoop
  <2>1. CASE COMMAND_STOP \in event_flags
    <3>1. dc_flags' = dc_flags /\ dc_pc' = "unwind"
      BY <1>5, <2>1 DEF DecoderLoop
    <3>2. TypeOK'
      BY <1>5, <3>1 DEF DecoderLoop
    <3>3. DecodeOK' /\ RingOK'
      BY <1>5, <3>1 DEF DecoderLoop
    <3> QED BY <1>5, <3>1, <3>2, <3>3 DEF DecoderLoop
  <2>2. CASE COMMAND_STOP \notin event_flags
    BY <1>5, <2>2 DEF DecoderLoop
  <2> QED
    BY <2>1, <2>2
<1>6. CASE DecodeDone
  <2>1. Release(0)
    BY <1>6 DEF DecodeDone
  <2> QED
    BY <1>6, <2>1, ReleaseShortens DEF DecodeDone
<1>7. CASE DecodeGivesUp
  <2>1. Release(0)
    BY <1>7 DEF DecodeGivesUp
  <2> QED
    BY <1>7, <2>1, ReleaseShortens DEF DecodeGivesUp
<1>8. CASE DecodeFlushes
  BY <1>8 DEF DecodeFlushes
<1>9. CASE DecodeBlocked
  BY <1>9 DEF DecodeBlocked
<1>10. CASE DecodeInput
  BY <1>10 DEF DecodeInput, InputEmpty
<1>11. ASSUME NEW consumed \in BOOLEAN, CodecProgress("MORE_TO_PROCESS", consumed)
      PROVE  IInv'
  <2>1. CASE dc_url
    <3>1. Release(IF consumed THEN 0 ELSE dc_acquired)
      BY <1>11, <2>1 DEF CodecProgress, Consume
    <3>2. CASE consumed
      BY <1>11, <2>1, <3>1, <3>2, ReleaseShortens DEF CodecProgress, Consume
    <3>3. CASE ~consumed
      <4>1. Release(dc_acquired) /\ dc_pc' = "first"
        BY <1>11, <3>1, <3>3 DEF CodecProgress
      <4> QED
        BY <1>11, <2>1, <4>1, ReleaseShortens DEF CodecProgress, Consume
    <3> QED
      BY <3>2, <3>3
  <2>2. CASE ~dc_url
    BY <1>11, <2>2 DEF CodecProgress, Consume
  <2> QED
    BY <2>1, <2>2
<1>12. ASSUME NEW consumed \in BOOLEAN, CodecProgress("IDLE", consumed)
      PROVE  IInv'
  <2>1. CASE dc_url
    <3>1. Release(IF consumed THEN 0 ELSE dc_acquired)
      BY <1>12, <2>1 DEF CodecProgress, Consume
    <3> QED
      BY <1>12, <2>1, <3>1, ReleaseShortens DEF CodecProgress, Consume
  <2>2. CASE ~dc_url
    BY <1>12, <2>2 DEF CodecProgress, Consume
  <2> QED
    BY <2>1, <2>2
<1>13. ASSUME NEW consumed \in BOOLEAN, CodecPotentiallyFailed(consumed)
      PROVE  IInv'
  <2>1. CASE dc_url
    <3>1. Release(IF consumed THEN 0 ELSE dc_acquired)
      BY <1>13, <2>1 DEF CodecPotentiallyFailed, Consume
    <3> QED
      BY <1>13, <2>1, <3>1, ReleaseShortens DEF CodecPotentiallyFailed, Consume
  <2>2. CASE ~dc_url
    BY <1>13, <2>2 DEF CodecPotentiallyFailed, Consume
  <2> QED
    BY <2>1, <2>2
<1>14. ASSUME NEW consumed \in BOOLEAN, CodecEndOfFile(consumed)
      PROVE  IInv'
  <2>1. CASE dc_url
    <3>1. Release(IF consumed THEN 0 ELSE dc_acquired)
      BY <1>14, <2>1 DEF CodecEndOfFile, Consume
    <3> QED
      BY <1>14, <2>1, <3>1, ReleaseShortens DEF CodecEndOfFile, Consume
  <2>2. CASE ~dc_url
    BY <1>14, <2>2 DEF CodecEndOfFile, Consume
  <2> QED
    BY <2>1, <2>2
<1>15. CASE CodecFailed
  <2>1. Release(0)
    BY <1>15 DEF CodecFailed
  <2> QED
    BY <1>15, <2>1, ReleaseShortens DEF CodecFailed
<1>16. CASE DecoderFinish
  <2>1. CASE READER_ERROR \in dc_flags
    <3>1. event_flags' = event_flags \cup {DECODER_FAILED} /\ session' = "failed"
      BY <1>16, <2>1 DEF DecoderFinish
    <3>2. TypeOK'
      BY <1>16, <3>1 DEF DecoderFinish
    <3> QED
      BY <1>16, <3>1, <3>2 DEF DecoderFinish
  <2>2. CASE READER_ERROR \notin dc_flags
    <3>1. event_flags' = event_flags \cup {DECODER_FINISHED} /\ session' = "finished"
      BY <1>16, <2>2 DEF DecoderFinish
    <3>2. TypeOK'
      BY <1>16, <3>1 DEF DecoderFinish
    <3> QED
      BY <1>16, <3>1, <3>2 DEF DecoderFinish
  <2> QED
    BY <2>1, <2>2
<1>17. CASE DecoderFail
  BY <1>17 DEF DecoderFail
<1>18. CASE DecoderUnwind
  <2>1. Release(0)
    BY <1>18 DEF DecoderUnwind
  <2> QED
    BY <1>18, <2>1, ReleaseShortens DEF DecoderUnwind
<1>19. CASE DecoderExit
  BY <1>19 DEF DecoderExit
<1> QED
  BY <1>1, <1>2, <1>3, <1>4, <1>5, <1>6, <1>7, <1>8, <1>9, <1>10, <1>11, <1>12, <1>13, <1>14, <1>15, <1>16, <1>17, <1>18, <1>19
  DEF DecoderStep

-----------------------------------------------------------------------------
(* The user's calls.                                                       *)

(* An empty ring buffer is a ring buffer.                                  *)
LEMMA EmptyRing ==
  /\ <<>> \in Seq(0..MaxPlays)
  /\ Len(<<>>) <= RingCapacity
BY ConstantsAssumption DEF ConstantsAssumption

(* ReleaseRing leaves the ring buffer as it is or empty.                   *)
LEMMA ReleaseTyped ==
  ASSUME SharedTypeOK, RingTypeOK, ReleaseRing
  PROVE  ring_allocated' \in BOOLEAN /\ RingTypeOK'
BY EmptyRing DEF SharedTypeOK, RingTypeOK, ReleaseRing

(* The innermost loop() call goes on, or returns.                          *)
LEMMA FramesTyped ==
  ASSUME FrameTypeOK, depth > 0, NEW step \in FrameSteps,
         GoTo(step) \/ LoopReturns
  PROVE  FrameTypeOK'
<1> USE ConstantsAssumption DEF FrameTypeOK, FrameSteps
<1>1. CASE GoTo(step)
  BY <1>1 DEF GoTo
<1>2. CASE LoopReturns
  BY <1>2 DEF LoopReturns
<1> QED
  BY <1>1, <1>2

(* A thread that has just been started, or none.                           *)
LEMMA LocalsTyped ==
  ASSUME NEW pc \in DecoderSteps, NEW url \in BOOLEAN,
         NEW type \in FileTypes \cup {NoType}, NEW left \in 0..BufferChunks,
         DecoderLocals(pc, url, type, left)
  PROVE  DecoderTypeOK'
<1>1. /\ dc_pc' \in DecoderSteps /\ dc_url' \in BOOLEAN
      /\ dc_type' \in FileTypes \cup {NoType} /\ dc_left' \in 0..BufferChunks
  BY DEF DecoderLocals
<1>2. /\ dc_flags' \in SUBSET {READER_FINISHED, READER_ERROR}
      /\ dc_acquired' \in 0..1 /\ dc_output' \in 0..1
  BY DEF DecoderLocals
<1>3. dc_failures' \in 0..(MaxFailures + 1)
  BY ConstantsAssumption DEF DecoderLocals, ConstantsAssumption
<1>4. dc_eof' \in BOOLEAN
  BY Zenon DEF DecoderLocals
<1> QED
  BY <1>1, <1>2, <1>3, <1>4 DEF DecoderTypeOK

(* The locals that StopJoinDecoder leaves.                                 *)
LEMMA JoinedTyped == DecoderLocals("none", FALSE, NoType, 0) => DecoderTypeOK'
<1>1. NoType \in FileTypes \cup {NoType} /\ 0 \in 0..BufferChunks
  BY ConstantsAssumption DEF ConstantsAssumption
<1> QED
  BY <1>1, LocalsTyped, Zenon DEF DecoderSteps

(* The locals that play_url() starts a decoder with.                       *)
LEMMA UrlTyped == DecoderLocals("wait", TRUE, NoType, 0) => DecoderTypeOK'
<1>1. NoType \in FileTypes \cup {NoType} /\ 0 \in 0..BufferChunks
  BY ConstantsAssumption DEF ConstantsAssumption
<1> QED
  BY <1>1, LocalsTyped, Zenon DEF DecoderSteps

(* The locals that play_buffer() starts a decoder with.                    *)
LEMMA BufferTyped ==
  ASSUME NEW t \in FileTypes, DecoderLocals("start", FALSE, t, BufferChunks)
  PROVE  DecoderTypeOK'
<1>1. t \in FileTypes \cup {NoType} /\ BufferChunks \in 0..BufferChunks
  BY ConstantsAssumption DEF ConstantsAssumption
<1> QED
  BY <1>1, LocalsTyped, Zenon DEF DecoderSteps

(* A report more is still a sequence of states.                            *)
LEMMA ReportsTyped ==
  ASSUME reports \in Seq(States), NEW s \in States,
         reports' \in {reports, Append(reports, s)}
  PROVE  reports' \in Seq(States)
BY AppendProperties

(* No call, wherever it is made from, disturbs the invariant.              *)
LEMMA CallPreserves == IInv /\ Call => IInv'
<1> SUFFICES ASSUME IInv, Call PROVE IInv'
  OBVIOUS
<1> USE ConstantsAssumption DEF IInv, TypeOK, SharedTypeOK, RingTypeOK,
      ReaderTypeOK, DecoderTypeOK, CallTypeOK, FrameTypeOK, HistoryTypeOK, CallsOK, ThreadsOK, DecodeOK,
      RingOK, RingInUse, ReaderGone, DecoderGone, NoStaleNotification,
      NoStrayStop, ReaderSteps, DecoderSteps, Sessions, States, Ops, OpSteps,
      FrameSteps, CallbackSteps, PumpedFlags, configVars, stateVars, ringVars,
      readerVars, decoderVars, userVars, opVars, frameVars
<1> USE DEF ALL_FLAGS, READER_READY, READER_FINISHED, READER_ERROR,
      COMMAND_STOP, DECODER_STARTED, DECODER_FINISHED, DECODER_FAILED,
      DECODER_EXITED, StoreState, ReleaseRing, NoReader, DecoderLocals,
      UserInControl, Return
<1>1. CASE SetListener
  BY <1>1 DEF SetListener
<1>2. CASE PlayUninitialized
  BY <1>2 DEF PlayUninitialized
<1>3. CASE DestroyUninitialized
  <2>1. TypeOK'
    <3>1. SharedTypeOK' /\ RingTypeOK'
        BY <1>3 DEF DestroyUninitialized
    <3>2. ReaderTypeOK' /\ DecoderTypeOK'
        BY <1>3 DEF DestroyUninitialized
    <3>3. CallTypeOK' /\ FrameTypeOK'
        BY <1>3 DEF DestroyUninitialized
    <3>4. HistoryTypeOK'
        BY <1>3 DEF DestroyUninitialized
    <3> QED
      BY <3>1, <3>2, <3>3, <3>4
  <2>2. CallsOK' /\ ThreadsOK'
    BY <1>3 DEF DestroyUninitialized
  <2>3. DecodeOK' /\ RingOK'
    BY <1>3 DEF DestroyUninitialized
  <2>4. NoStaleNotification' /\ NoStrayStop'
    BY <1>3 DEF DestroyUninitialized
  <2> QED
    BY <2>1, <2>2, <2>3, <2>4
<1>4. ASSUME NEW call \in Ops \ {"none"}, StopBegin(call)
      PROVE  IInv'
  BY <1>4 DEF StopBegin
<1>5. CASE LoopCall
  <2>1. TypeOK'
    <3>1. SharedTypeOK' /\ RingTypeOK'
        BY <1>5 DEF LoopCall, otherThanLoop, GoTo, LoopReturns
    <3>2. ReaderTypeOK' /\ DecoderTypeOK'
        BY <1>5 DEF LoopCall, otherThanLoop, GoTo, LoopReturns
    <3>3. CallTypeOK' /\ FrameTypeOK'
        BY <1>5 DEF LoopCall, otherThanLoop, GoTo, LoopReturns
    <3>4. HistoryTypeOK'
        BY <1>5 DEF LoopCall, otherThanLoop, GoTo, LoopReturns
    <3> QED
      BY <3>1, <3>2, <3>3, <3>4
  <2>2. CallsOK' /\ ThreadsOK'
    BY <1>5 DEF LoopCall, otherThanLoop, GoTo, LoopReturns
  <2>3. DecodeOK' /\ RingOK'
    BY <1>5 DEF LoopCall, otherThanLoop, GoTo, LoopReturns
  <2>4. NoStaleNotification' /\ NoStrayStop'
    BY <1>5 DEF LoopCall, otherThanLoop, GoTo, LoopReturns
  <2> QED
    BY <2>1, <2>2, <2>3, <2>4
<1>6. CASE CallbackReturn
  <2>1. TypeOK'
    <3>1. SharedTypeOK' /\ RingTypeOK'
        BY <1>6 DEF CallbackReturn, otherThanLoop, GoTo, LoopReturns
    <3>2. ReaderTypeOK' /\ DecoderTypeOK'
        BY <1>6 DEF CallbackReturn, otherThanLoop, GoTo, LoopReturns
    <3>3. CallTypeOK' /\ FrameTypeOK'
      <4>1. depth > 0 /\ (GoTo("get") \/ GoTo("finished") \/ LoopReturns)
        BY <1>6 DEF CallbackReturn
      <4>2. FrameTypeOK'
        BY <4>1, FramesTyped
      <4> QED
        BY <1>6, <4>2 DEF CallbackReturn, otherThanLoop
    <3>4. HistoryTypeOK'
        BY <1>6 DEF CallbackReturn, otherThanLoop, GoTo, LoopReturns
    <3> QED
      BY <3>1, <3>2, <3>3, <3>4
  <2>2. CallsOK' /\ ThreadsOK'
    BY <1>6 DEF CallbackReturn, otherThanLoop, GoTo, LoopReturns
  <2>3. DecodeOK' /\ RingOK'
    BY <1>6 DEF CallbackReturn, otherThanLoop, GoTo, LoopReturns
  <2>4. NoStaleNotification' /\ NoStrayStop'
    BY <1>6 DEF CallbackReturn, otherThanLoop, GoTo, LoopReturns
  <2> QED
    BY <2>1, <2>2, <2>3, <2>4
<1> QED
  BY <1>1, <1>2, <1>3, <1>4, <1>5, <1>6 DEF Call

(* Nor does any step of stop(), play_url(), play_buffer() or loop().       *)
LEMMA CallStepPreserves == IInv /\ CallStep => IInv'
<1> SUFFICES ASSUME IInv, CallStep PROVE IInv'
  OBVIOUS
<1> USE ConstantsAssumption DEF IInv, TypeOK, SharedTypeOK, RingTypeOK,
      ReaderTypeOK, DecoderTypeOK, CallTypeOK, FrameTypeOK, HistoryTypeOK, CallsOK, ThreadsOK, DecodeOK,
      RingOK, RingInUse, ReaderGone, DecoderGone, NoStaleNotification,
      NoStrayStop, ReaderSteps, DecoderSteps, Sessions, States, Ops, OpSteps,
      FrameSteps, CallbackSteps, PumpedFlags, configVars, stateVars, ringVars,
      readerVars, decoderVars, userVars, opVars, frameVars
<1> USE DEF ALL_FLAGS, READER_READY, READER_FINISHED, READER_ERROR,
      COMMAND_STOP, DECODER_STARTED, DECODER_FINISHED, DECODER_FAILED,
      DECODER_EXITED, StoreState, ReleaseRing, NoReader, DecoderLocals,
      UserInControl, Return
<1>1. CASE StopJoinReader
  BY <1>1 DEF StopJoinReader
<1>2. CASE StopJoinDecoder
  <2>1. TypeOK'
    <3>1. SharedTypeOK' /\ RingTypeOK'
        BY <1>2 DEF StopJoinDecoder
    <3>2. ReaderTypeOK' /\ DecoderTypeOK'
      <4>1. ReaderTypeOK'
        BY <1>2 DEF StopJoinDecoder
      <4>2. DecoderTypeOK'
        <5> HIDE DEF DecoderLocals, DecoderTypeOK
        <5>1. DecoderLocals("none", FALSE, NoType, 0)
          BY <1>2 DEF StopJoinDecoder
        <5> QED
          BY <5>1, JoinedTyped
      <4> QED
        BY <4>1, <4>2
    <3>3. CallTypeOK' /\ FrameTypeOK'
        BY <1>2 DEF StopJoinDecoder
    <3>4. HistoryTypeOK'
        BY <1>2 DEF StopJoinDecoder
    <3> QED
      BY <3>1, <3>2, <3>3, <3>4
  <2>2. CallsOK' /\ ThreadsOK'
    BY <1>2 DEF StopJoinDecoder
  <2>3. DecodeOK' /\ RingOK'
    BY <1>2 DEF StopJoinDecoder
  <2>4. NoStaleNotification' /\ NoStrayStop'
    BY <1>2 DEF StopJoinDecoder
  <2> QED
    BY <2>1, <2>2, <2>3, <2>4
<1>3. CASE StopFinish
  <2>1. TypeOK'
    <3>1. SharedTypeOK' /\ RingTypeOK'
      <4>1. ring_allocated' \in BOOLEAN /\ RingTypeOK'
        BY <1>3, EmptyRing, ReleaseTyped DEF StopFinish
      <4>2. SharedTypeOK'
        BY <1>3, <4>1 DEF StopFinish
      <4> QED
        BY <4>1, <4>2
    <3>2. ReaderTypeOK' /\ DecoderTypeOK'
        BY <1>3 DEF StopFinish
    <3>3. CallTypeOK' /\ FrameTypeOK'
        BY <1>3 DEF StopFinish
    <3>4. HistoryTypeOK'
        BY <1>3 DEF StopFinish
    <3> QED
      BY <3>1, <3>2, <3>3, <3>4
  <2>2. CallsOK' /\ ThreadsOK'
    BY <1>3 DEF StopFinish
  <2>3. DecodeOK' /\ RingOK'
    BY <1>3 DEF StopFinish
  <2>4. NoStaleNotification' /\ NoStrayStop'
    BY <1>3 DEF StopFinish
  <2> QED
    BY <2>1, <2>2, <2>3, <2>4
<1>4. CASE PlayNoListener
  BY <1>4 DEF PlayNoListener
<1>5. CASE PlayUrlNoRing
  <2>1. TypeOK'
    <3>1. SharedTypeOK' /\ RingTypeOK'
        BY <1>5, EmptyRing DEF PlayUrlNoRing
    <3>2. ReaderTypeOK' /\ DecoderTypeOK'
        BY <1>5 DEF PlayUrlNoRing
    <3>3. CallTypeOK' /\ FrameTypeOK'
        BY <1>5 DEF PlayUrlNoRing
    <3>4. HistoryTypeOK'
        BY <1>5 DEF PlayUrlNoRing
    <3> QED
      BY <3>1, <3>2, <3>3, <3>4
  <2>2. CallsOK' /\ ThreadsOK'
    BY <1>5 DEF PlayUrlNoRing
  <2>3. DecodeOK' /\ RingOK'
    BY <1>5 DEF PlayUrlNoRing
  <2>4. NoStaleNotification' /\ NoStrayStop'
    BY <1>5 DEF PlayUrlNoRing
  <2> QED
    BY <2>1, <2>2, <2>3, <2>4
<1>6. CASE PlayUrlStartsReader
  <2>1. TypeOK'
    <3>1. SharedTypeOK' /\ RingTypeOK'
        BY <1>6, EmptyRing DEF PlayUrlStartsReader, EnsureRing, ClearForPlay
    <3>2. ReaderTypeOK' /\ DecoderTypeOK'
        BY <1>6 DEF PlayUrlStartsReader, EnsureRing, ClearForPlay
    <3>3. CallTypeOK' /\ FrameTypeOK'
        BY <1>6 DEF PlayUrlStartsReader, EnsureRing, ClearForPlay
    <3>4. HistoryTypeOK'
        BY <1>6 DEF PlayUrlStartsReader, EnsureRing, ClearForPlay
    <3> QED
      BY <3>1, <3>2, <3>3, <3>4
  <2>2. CallsOK' /\ ThreadsOK'
    BY <1>6 DEF PlayUrlStartsReader, EnsureRing, ClearForPlay
  <2>3. DecodeOK' /\ RingOK'
    BY <1>6 DEF PlayUrlStartsReader, EnsureRing, ClearForPlay
  <2>4. NoStaleNotification' /\ NoStrayStop'
    BY <1>6 DEF PlayUrlStartsReader, EnsureRing, ClearForPlay
  <2> QED
    BY <2>1, <2>2, <2>3, <2>4
<1>7. CASE PlayUrlNoReader
  BY <1>7 DEF PlayUrlNoReader
<1>8. CASE PlayUrlStartsDecoder
  <2>1. TypeOK'
    <3>1. SharedTypeOK' /\ RingTypeOK'
        BY <1>8 DEF PlayUrlStartsDecoder
    <3>2. ReaderTypeOK' /\ DecoderTypeOK'
      <4>1. ReaderTypeOK'
        BY <1>8 DEF PlayUrlStartsDecoder
      <4>2. DecoderTypeOK'
        <5> HIDE DEF DecoderLocals, DecoderTypeOK
        <5>1. DecoderLocals("wait", TRUE, NoType, 0)
          BY <1>8 DEF PlayUrlStartsDecoder
        <5> QED
          BY <5>1, UrlTyped
      <4> QED
        BY <4>1, <4>2
    <3>3. CallTypeOK' /\ FrameTypeOK'
        BY <1>8 DEF PlayUrlStartsDecoder
    <3>4. HistoryTypeOK'
        BY <1>8 DEF PlayUrlStartsDecoder
    <3> QED
      BY <3>1, <3>2, <3>3, <3>4
  <2>2. CallsOK' /\ ThreadsOK'
    BY <1>8 DEF PlayUrlStartsDecoder
  <2>3. DecodeOK' /\ RingOK'
    BY <1>8 DEF PlayUrlStartsDecoder
  <2>4. NoStaleNotification' /\ NoStrayStop'
    BY <1>8 DEF PlayUrlStartsDecoder
  <2> QED
    BY <2>1, <2>2, <2>3, <2>4
<1>9. CASE PlayUrlNoDecoder
  BY <1>9 DEF PlayUrlNoDecoder
<1>10. CASE PlayUrlUnwind
  <2>1. TypeOK'
    <3>1. SharedTypeOK' /\ RingTypeOK'
      <4>1. ring_allocated' \in BOOLEAN /\ RingTypeOK'
        BY <1>10, EmptyRing, ReleaseTyped DEF PlayUrlUnwind
      <4>2. SharedTypeOK'
        BY <1>10, <4>1 DEF PlayUrlUnwind
      <4> QED
        BY <4>1, <4>2
    <3>2. ReaderTypeOK' /\ DecoderTypeOK'
        BY <1>10 DEF PlayUrlUnwind
    <3>3. CallTypeOK' /\ FrameTypeOK'
        BY <1>10 DEF PlayUrlUnwind
    <3>4. HistoryTypeOK'
        BY <1>10 DEF PlayUrlUnwind
    <3> QED
      BY <3>1, <3>2, <3>3, <3>4
  <2>2. CallsOK' /\ ThreadsOK'
    BY <1>10 DEF PlayUrlUnwind
  <2>3. DecodeOK' /\ RingOK'
    BY <1>10 DEF PlayUrlUnwind
  <2>4. NoStaleNotification' /\ NoStrayStop'
    BY <1>10 DEF PlayUrlUnwind
  <2> QED
    BY <2>1, <2>2, <2>3, <2>4
<1>11. ASSUME NEW t \in FileTypes, PlayBufferStartsDecoder(t)
      PROVE  IInv'
  <2>1. TypeOK'
    <3>1. SharedTypeOK' /\ RingTypeOK'
        BY <1>11 DEF PlayBufferStartsDecoder, ClearForPlay
    <3>2. ReaderTypeOK' /\ DecoderTypeOK'
      <4>1. ReaderTypeOK'
        BY <1>11 DEF PlayBufferStartsDecoder, ClearForPlay
      <4>2. DecoderTypeOK'
        <5> HIDE DEF DecoderLocals, DecoderTypeOK
        <5>1. DecoderLocals("start", FALSE, t, BufferChunks)
          BY <1>11 DEF PlayBufferStartsDecoder
        <5> QED
          BY <5>1, BufferTyped
      <4> QED
        BY <4>1, <4>2
    <3>3. CallTypeOK' /\ FrameTypeOK'
        BY <1>11 DEF PlayBufferStartsDecoder, ClearForPlay
    <3>4. HistoryTypeOK'
        BY <1>11 DEF PlayBufferStartsDecoder, ClearForPlay
    <3> QED
      BY <3>1, <3>2, <3>3, <3>4
  <2>2. CallsOK' /\ ThreadsOK'
    BY <1>11 DEF PlayBufferStartsDecoder, ClearForPlay
  <2>3. DecodeOK' /\ RingOK'
    BY <1>11 DEF PlayBufferStartsDecoder, ClearForPlay
  <2>4. NoStaleNotification' /\ NoStrayStop'
    BY <1>11 DEF PlayBufferStartsDecoder, ClearForPlay
  <2> QED
    BY <2>1, <2>2, <2>3, <2>4
<1>12. ASSUME NEW t \in FileTypes, PlayBufferNoDecoder(t)
      PROVE  IInv'
  BY <1>12 DEF PlayBufferNoDecoder
<1>13. CASE PumpGet
  <2>1. TypeOK'
    <3>1. SharedTypeOK' /\ RingTypeOK'
        BY <1>13 DEF PumpGet, InLoop, GoTo, LoopReturns, otherThanLoop
    <3>2. ReaderTypeOK' /\ DecoderTypeOK'
        BY <1>13 DEF PumpGet, InLoop, GoTo, LoopReturns, otherThanLoop
    <3>3. CallTypeOK' /\ FrameTypeOK'
        BY <1>13 DEF PumpGet, InLoop, GoTo, LoopReturns, otherThanLoop
    <3>4. HistoryTypeOK'
        BY <1>13 DEF PumpGet, InLoop, GoTo, LoopReturns, otherThanLoop
    <3> QED
      BY <3>1, <3>2, <3>3, <3>4
  <2>2. CallsOK' /\ ThreadsOK'
    BY <1>13 DEF PumpGet, InLoop, GoTo, LoopReturns, otherThanLoop
  <2>3. DecodeOK' /\ RingOK'
    BY <1>13 DEF PumpGet, InLoop, GoTo, LoopReturns, otherThanLoop
  <2>4. NoStaleNotification' /\ NoStrayStop'
    BY <1>13 DEF PumpGet, InLoop, GoTo, LoopReturns, otherThanLoop
  <2> QED
    BY <2>1, <2>2, <2>3, <2>4
<1>14. CASE PumpClear
  <2>1. TypeOK'
    <3>1. SharedTypeOK' /\ RingTypeOK'
        BY <1>14 DEF PumpClear, InLoop, GoTo, LoopReturns, otherThanLoop
    <3>2. ReaderTypeOK' /\ DecoderTypeOK'
        BY <1>14 DEF PumpClear, InLoop, GoTo, LoopReturns, otherThanLoop
    <3>3. CallTypeOK' /\ FrameTypeOK'
        BY <1>14 DEF PumpClear, InLoop, GoTo, LoopReturns, otherThanLoop
    <3>4. HistoryTypeOK'
        BY <1>14 DEF PumpClear, InLoop, GoTo, LoopReturns, otherThanLoop
    <3> QED
      BY <3>1, <3>2, <3>3, <3>4
  <2>2. CallsOK' /\ ThreadsOK'
    BY <1>14 DEF PumpClear, InLoop, GoTo, LoopReturns, otherThanLoop
  <2>3. DecodeOK' /\ RingOK'
    BY <1>14 DEF PumpClear, InLoop, GoTo, LoopReturns, otherThanLoop
  <2>4. NoStaleNotification' /\ NoStrayStop'
    BY <1>14 DEF PumpClear, InLoop, GoTo, LoopReturns, otherThanLoop
  <2> QED
    BY <2>1, <2>2, <2>3, <2>4
<1>15. CASE PumpFailed
  <2>1. TypeOK'
    <3>1. SharedTypeOK' /\ RingTypeOK'
        BY <1>15 DEF PumpFailed, InLoop, GoTo, LoopReturns, otherThanLoop, SetState
    <3>2. ReaderTypeOK' /\ DecoderTypeOK'
        BY <1>15 DEF PumpFailed, InLoop, GoTo, LoopReturns, otherThanLoop, SetState
    <3>3. CallTypeOK' /\ FrameTypeOK'
      <4>1. depth > 0 /\ (GoTo("ended") \/ LoopReturns)
        BY <1>15 DEF PumpFailed, InLoop, SetState
      <4>2. FrameTypeOK'
        BY <4>1, FramesTyped
      <4> QED
        BY <1>15, <4>2 DEF PumpFailed, otherThanLoop
    <3>4. HistoryTypeOK'
        BY <1>15 DEF PumpFailed, InLoop, GoTo, LoopReturns, otherThanLoop, SetState
    <3> QED
      BY <3>1, <3>2, <3>3, <3>4
  <2>2. CallsOK' /\ ThreadsOK'
    BY <1>15 DEF PumpFailed, InLoop, GoTo, LoopReturns, otherThanLoop, SetState
  <2>3. DecodeOK' /\ RingOK'
    BY <1>15 DEF PumpFailed, InLoop, GoTo, LoopReturns, otherThanLoop, SetState
  <2>4. NoStaleNotification' /\ NoStrayStop'
    BY <1>15 DEF PumpFailed, InLoop, GoTo, LoopReturns, otherThanLoop, SetState
  <2> QED
    BY <2>1, <2>2, <2>3, <2>4
<1>16. CASE PumpStarted
  <2>1. TypeOK'
    <3>1. SharedTypeOK' /\ RingTypeOK'
        BY <1>16 DEF PumpStarted, InLoop, GoTo, LoopReturns, otherThanLoop, SetState
    <3>2. ReaderTypeOK' /\ DecoderTypeOK'
        BY <1>16 DEF PumpStarted, InLoop, GoTo, LoopReturns, otherThanLoop, SetState
    <3>3. CallTypeOK' /\ FrameTypeOK'
        BY <1>16 DEF PumpStarted, InLoop, GoTo, LoopReturns, otherThanLoop, SetState
    <3>4. HistoryTypeOK'
      <4>1. reports' \in {reports, Append(reports, "PLAYING")}
        BY <1>16 DEF PumpStarted, SetState
      <4>2. reports' \in Seq(States)
        BY <4>1, ReportsTyped
      <4> QED
        BY <1>16, <4>2 DEF PumpStarted, otherThanLoop
    <3> QED
      BY <3>1, <3>2, <3>3, <3>4
  <2>2. CallsOK' /\ ThreadsOK'
    BY <1>16 DEF PumpStarted, InLoop, GoTo, LoopReturns, otherThanLoop, SetState
  <2>3. DecodeOK' /\ RingOK'
    BY <1>16 DEF PumpStarted, InLoop, GoTo, LoopReturns, otherThanLoop, SetState
  <2>4. NoStaleNotification' /\ NoStrayStop'
    BY <1>16 DEF PumpStarted, InLoop, GoTo, LoopReturns, otherThanLoop, SetState
  <2> QED
    BY <2>1, <2>2, <2>3, <2>4
<1>17. CASE PumpFinished
  <2>1. TypeOK'
    <3>1. SharedTypeOK' /\ RingTypeOK'
        BY <1>17 DEF PumpFinished, InLoop, GoTo, LoopReturns, otherThanLoop, SetState
    <3>2. ReaderTypeOK' /\ DecoderTypeOK'
        BY <1>17 DEF PumpFinished, InLoop, GoTo, LoopReturns, otherThanLoop, SetState
    <3>3. CallTypeOK' /\ FrameTypeOK'
      <4>1. depth > 0 /\ (GoTo("ended") \/ LoopReturns)
        BY <1>17 DEF PumpFinished, InLoop, SetState
      <4>2. FrameTypeOK'
        BY <4>1, FramesTyped
      <4> QED
        BY <1>17, <4>2 DEF PumpFinished, otherThanLoop
    <3>4. HistoryTypeOK'
      <4>1. reports' \in {reports, Append(reports, "IDLE")}
        BY <1>17 DEF PumpFinished, SetState
      <4>2. reports' \in Seq(States)
        BY <4>1, ReportsTyped
      <4> QED
        BY <1>17, <4>2 DEF PumpFinished, otherThanLoop
    <3> QED
      BY <3>1, <3>2, <3>3, <3>4
  <2>2. CallsOK' /\ ThreadsOK'
    BY <1>17 DEF PumpFinished, InLoop, GoTo, LoopReturns, otherThanLoop, SetState
  <2>3. DecodeOK' /\ RingOK'
    BY <1>17 DEF PumpFinished, InLoop, GoTo, LoopReturns, otherThanLoop, SetState
  <2>4. NoStaleNotification' /\ NoStrayStop'
    BY <1>17 DEF PumpFinished, InLoop, GoTo, LoopReturns, otherThanLoop, SetState
  <2> QED
    BY <2>1, <2>2, <2>3, <2>4
<1> QED
  BY <1>1, <1>2, <1>3, <1>4, <1>5, <1>6, <1>7, <1>8, <1>9, <1>10, <1>11, <1>12, <1>13, <1>14, <1>15, <1>16, <1>17
  DEF CallStep

-----------------------------------------------------------------------------
(* The invariant, and what follows from it.                                *)

(* A DecoderSource that has just been constructed, with or without event   *)
(* flags, with or without a ring buffer, satisfies the invariant.          *)
LEMMA InitEstablishes == Init => IInv
<1> SUFFICES ASSUME Init PROVE IInv
  OBVIOUS
<1> USE ConstantsAssumption DEF Init
<1>1. RingTypeOK
  BY EmptyRing DEF RingTypeOK
<1>2. SharedTypeOK /\ ReaderTypeOK
  <2>1. /\ initialized_ \in BOOLEAN /\ persistent_ring_buffer \in BOOLEAN
        /\ listener \in BOOLEAN /\ pending_state_notification_ \in BOOLEAN
        /\ ring_allocated \in BOOLEAN
    BY Zenon
  <2> QED
    BY <2>1 DEF SharedTypeOK, ReaderTypeOK, States, ReaderSteps
<1>3. DecoderTypeOK
  <2>1. dc_url \in BOOLEAN /\ dc_eof \in BOOLEAN
    BY Zenon
  <2>2. dc_left \in 0..BufferChunks /\ dc_failures \in 0..(MaxFailures + 1)
    OBVIOUS
  <2> QED
    BY <2>1, <2>2 DEF DecoderTypeOK, DecoderSteps
<1>4. CallTypeOK /\ FrameTypeOK /\ HistoryTypeOK
  <2>1. CallTypeOK
    BY DEF CallTypeOK, Ops, OpSteps, States
  <2>2. FrameTypeOK
    BY DEF FrameTypeOK, FrameSteps
  <2>3. HistoryTypeOK
    BY DEF HistoryTypeOK, Sessions
  <2> QED
    BY <2>1, <2>2, <2>3
<1>5. CallsOK /\ ThreadsOK /\ DecodeOK /\ RingOK
  BY DEF CallsOK, ThreadsOK, DecodeOK, RingOK, RingInUse, ReaderGone
<1>6. NoStaleNotification /\ NoStrayStop
  BY DEF NoStaleNotification, NoStrayStop
<1> QED
  BY <1>1, <1>2, <1>3, <1>4, <1>5, <1>6 DEF IInv, TypeOK

(* Every step of every thread keeps the invariant, and so does standing    *)
(* still.                                                                  *)
LEMMA StepPreserves == IInv /\ [Next]_vars => IInv'
<1> SUFFICES ASSUME IInv, [Next]_vars PROVE IInv'
  OBVIOUS
<1>1. CASE Reader
  BY <1>1, ReaderPreserves DEF Reader
<1>2. CASE Decoder
  BY <1>2, DecoderPreserves DEF Decoder
<1>3. CASE Call
  BY <1>3, CallPreserves
<1>4. CASE CallStep
  BY <1>4, CallStepPreserves
<1>5. CASE UNCHANGED vars
  <2> USE <1>5 DEF vars, configVars, stateVars, ringVars, readerVars,
        decoderVars, userVars, opVars, frameVars
  <2>1. TypeOK'
    BY DEF IInv, TypeOK, SharedTypeOK, RingTypeOK, ReaderTypeOK,
           DecoderTypeOK, CallTypeOK, FrameTypeOK, HistoryTypeOK
  <2>2. CallsOK' /\ ThreadsOK' /\ DecodeOK' /\ RingOK'
    BY DEF IInv, CallsOK, ThreadsOK, DecodeOK, RingOK, RingInUse, ReaderGone,
           DecoderGone
  <2>3. NoStaleNotification' /\ NoStrayStop'
    BY DEF IInv, NoStaleNotification, NoStrayStop
  <2> QED
    BY <2>1, <2>2, <2>3 DEF IInv
<1> QED
  BY <1>1, <1>2, <1>3, <1>4, <1>5 DEF Next, Destroyed

(* The invariant holds in every reachable state.                           *)
THEOREM Invariance == Spec => []IInv
BY InitEstablishes, StepPreserves, PTL DEF Spec

(* Every variable keeps its type; in particular the ring buffer is never   *)
(* over full and no count leaves its range.                                *)
THEOREM TypeCorrect == Spec => []TypeOK
<1>1. IInv => TypeOK
  BY DEF IInv
<1> QED
  BY <1>1, Invariance, PTL

(* release_ring_buffer() never frees a ring buffer that a thread can still *)
(* touch, whichever call, from whichever callback, does it.                *)
THEOREM RingSafety == Spec => []RingHeldWhileInUse
<1>1. IInv => RingHeldWhileInUse
  BY DEF IInv, RingOK, RingHeldWhileInUse
<1> QED
  BY <1>1, Invariance, PTL

(* No thread ever finds a byte of an earlier playback in the ring buffer.  *)
THEOREM RingFreshness == Spec => []OnlyThisPlaybacksBytes
<1>1. IInv => OnlyThisPlaybacksBytes
  BY DEF IInv, RingOK, OnlyThisPlaybacksBytes
<1> QED
  BY <1>1, Invariance, PTL

(* A deferred notification never waits while a playback runs.              *)
THEOREM NotificationFreshness == Spec => []NoStaleNotification
<1>1. IInv => NoStaleNotification
  BY DEF IInv
<1> QED
  BY <1>1, Invariance, PTL

(* No stop command outlives the call that gave it.                         *)
THEOREM StopFlagSafety == Spec => []NoStrayStop
<1>1. IInv => NoStrayStop
  BY DEF IInv
<1> QED
  BY <1>1, Invariance, PTL
-----------------------------------------------------------------------------
(* Flags are only taken back by loop() and by the calls that clean up.     *)

LEMMA WorkersOnlySet ==
  ASSUME TypeOK, ReaderStep \/ DecoderStep
  PROVE  event_flags \subseteq event_flags'
<1>1. CASE ReaderStep
  BY <1>1 DEF ReaderStep, ReaderOpen, ReaderOpenFails, ReaderPublish,
     ReaderReady, ReaderCheck, ReaderWrite, ReaderWriteTimesOut, ReaderRead,
     ReaderWaitReturns, ReaderFinished, ReaderError
<1>2. CASE DecoderStep
  BY <1>2 DEF DecoderStep, DecoderWaitEnds, DecoderWaitTimesOut, DecoderStart,
     DecoderStartFails, DecoderLoop, DecodeDone, DecodeGivesUp, DecodeFlushes,
     DecodeBlocked, DecodeInput, CodecProgress, CodecPotentiallyFailed,
     CodecEndOfFile, CodecFailed, DecoderFinish, DecoderFail, DecoderUnwind,
     DecoderExit, SetFlag
<1> QED
  BY <1>1, <1>2

LEMMA CallsKeepLookedFor ==
  ASSUME IInv, Call \/ CallStep
  PROVE  LookedFor \cap event_flags \subseteq event_flags'
<1>1. CASE event_flags' = event_flags \/ PlayUrlNoDecoder
            \/ \E call \in Ops \ {"none"} : StopBegin(call)
  BY <1>1 DEF PlayUrlNoDecoder, StopBegin
<1>2. CASE InLoop("clear") /\ PumpClear
  <2>1. depth \in 1..MaxLoopDepth /\ frame_flags[depth] \subseteq PumpedFlags
    BY <1>2 DEF IInv, TypeOK, FrameTypeOK, CallTypeOK, InLoop
  <2>2. LookedFor \cap PumpedFlags = {}
    BY DEF LookedFor, ReaderStopFlags, PumpedFlags, READER_READY,
       READER_ERROR, COMMAND_STOP, DECODER_STARTED, DECODER_FINISHED,
       DECODER_FAILED, DECODER_EXITED
  <2> QED
    BY <1>2, <2>1, <2>2 DEF PumpClear
<1>3. CASE op_pc \in {"finish", "prepare"}
            \/ (op_pc = "unwind_join" /\ ReaderGone)
  <2>1. ReaderGone /\ dc_pc = "none"
    BY <1>3 DEF IInv, ThreadsOK, ReaderGone
  <2> QED
    BY <2>1 DEF LookedFor
<1>4. CASE Call
  BY <1>1, <1>4 DEF Call, SetListener, PlayUninitialized,
     DestroyUninitialized, LoopCall, CallbackReturn
<1>5. CASE CallStep
  BY <1>1, <1>2, <1>3, <1>5 DEF CallStep, StopJoinReader, StopJoinDecoder,
     StopFinish, PlayNoListener, PlayUrlNoRing, PlayUrlStartsReader,
     PlayUrlNoReader, PlayUrlStartsDecoder, PlayUrlUnwind,
     PlayBufferStartsDecoder, PlayBufferNoDecoder, PumpGet, PumpClear,
     PumpFailed, PumpStarted, PumpFinished
<1> QED
  BY <1>4, <1>5

(* However the threads and the calls interleave, a flag that a thread      *)
(* waits for stays until that thread has seen it.                          *)
THEOREM FlagsStay == Spec => WaitedBitsStay
<1>1. IInv /\ [Next]_vars => [LookedFor \cap event_flags \subseteq event_flags']_vars
  <2> SUFFICES ASSUME IInv, Next
               PROVE  LookedFor \cap event_flags \subseteq event_flags' \/ UNCHANGED vars
    OBVIOUS
  <2>1. CASE Reader \/ Decoder
    BY <2>1, WorkersOnlySet DEF IInv, Reader, Decoder
  <2>2. CASE Call \/ CallStep
    BY <2>2, CallsKeepLookedFor
  <2> QED
    BY <2>1, <2>2 DEF Next, Destroyed
<1> QED
  BY <1>1, Invariance, PTL DEF Spec, WaitedBitsStay
=============================================================================
