---------------------------- MODULE DecoderSource ----------------------------
(***************************************************************************)
(* The public API of DecoderSource as the user's thread runs it, composed  *)
(* with the two worker threads (src/src/decoder_source.cpp).               *)
(*                                                                         *)
(* One thread makes every call, but calls nest: loop() runs the listener's *)
(* on_state_change(), which may call stop(), play_url(), play_buffer() and *)
(* loop() again.  depth counts the loop() calls on the stack, frame_pc and *)
(* frame_flags hold their steps and locals.  op is the stop() or play_*()  *)
(* call in progress, op_pc its step.                                       *)
(***************************************************************************)
EXTENDS ReaderThread, DecoderThread

Reader  == ReaderStep
Decoder == DecoderStep

-----------------------------------------------------------------------------
(* Construction.  Event flags and the preallocated ring buffer may fail.   *)
Init ==
  /\ initialized_ \in BOOLEAN
  /\ persistent_ring_buffer \in BOOLEAN
  /\ listener = FALSE
  /\ event_flags = {}
  /\ decoder_state = "IDLE"
  /\ pending_state_notification_ = FALSE
  /\ detected_file_type = NoType
  /\ ring_allocated \in {FALSE, persistent_ring_buffer}
  /\ ring_data = <<>>
  /\ rd_pc = "none" /\ rd_type = NoType /\ rd_staged = 0
  /\ dc_pc = "none" /\ dc_url = FALSE /\ dc_type = NoType /\ dc_flags = {}
  /\ dc_acquired = 0 /\ dc_output = 0 /\ dc_eof = FALSE /\ dc_left = 0
  /\ dc_failures = 0
  /\ op = "none" /\ op_pc = "idle" /\ op_current = "IDLE"
  /\ depth = 0
  /\ frame_pc = [i \in 1..MaxLoopDepth |-> "none"]
  /\ frame_flags = [i \in 1..MaxLoopDepth |-> {}]
  /\ destroyed = FALSE
  /\ plays = 0 /\ session = "none" /\ reports = <<>>

(* The user's own code runs: between calls, or in a listener callback.     *)
UserInControl ==
  /\ op = "none"
  /\ ~destroyed
  /\ depth > 0 => frame_pc[depth] \in CallbackSteps

(* A state change whose notification waits for the next loop().            *)
StoreState(s) ==
  /\ decoder_state' = s
  /\ pending_state_notification_' = TRUE

ReleaseRing ==
  /\ ring_allocated' = (ring_allocated /\ persistent_ring_buffer)
  /\ ring_data' = IF persistent_ring_buffer THEN ring_data ELSE <<>>

(* The locals of a reader and of a decoder thread that has been joined.    *)
NoReader ==
  /\ rd_pc' = "none" /\ rd_type' = NoType /\ rd_staged' = 0

DecoderLocals(pc, url, type, left) ==
  /\ dc_pc' = pc /\ dc_url' = url /\ dc_type' = type /\ dc_left' = left
  /\ dc_flags' = {} /\ dc_acquired' = 0
  /\ dc_output' = 0 /\ dc_eof' = FALSE /\ dc_failures' = 0

SetListener ==
  /\ UserInControl
  /\ DecoderGone
  /\ listener' = ~listener
  /\ UNCHANGED <<configVars, stateVars, ringVars, readerVars, decoderVars,
                 opVars, frameVars, destroyed, event_flags,
                 detected_file_type, plays, session, reports>>

-----------------------------------------------------------------------------
(* stop(), which play_url(), play_buffer() and the destructor begin with.  *)

(* The state is read and both threads are told to stop.                    *)
StopBegin(call) ==
  /\ UserInControl
  /\ initialized_
  /\ call \in {"play_url", "play_buffer"} => plays < MaxPlays
  /\ call = "destroy" => depth = 0
  /\ op' = call
  /\ op_pc' = "join_reader"
  /\ op_current' = decoder_state
  /\ event_flags' = event_flags \cup {COMMAND_STOP}
  /\ UNCHANGED <<configVars, stateVars, ringVars, readerVars, decoderVars,
                 frameVars, listener, destroyed, detected_file_type, plays,
                 session, reports>>

(* Fault: the ring buffer is released while the reader may still run.      *)
StopReleasesBeforeJoin ==
  /\ op_pc = "join_reader"
  /\ op_pc' = "join_decoder"
  /\ ReaderGone
  /\ NoReader
  /\ ReleaseRing
  /\ UNCHANGED <<configVars, stateVars, decoderVars, op, op_current,
                 frameVars, listener, destroyed, event_flags,
                 detected_file_type, plays, session, reports>>

StopJoinReader ==
  /\ op_pc = "join_reader"
  /\ ReaderGone
  /\ op_pc' = "join_decoder"
  /\ NoReader
  /\ UNCHANGED <<configVars, stateVars, ringVars, decoderVars, op, op_current,
                 frameVars, listener, destroyed, event_flags,
                 detected_file_type, plays, session, reports>>

StopJoinDecoder ==
  /\ op_pc = "join_decoder"
  /\ DecoderGone
  /\ op_pc' = "finish"
  /\ DecoderLocals("none", FALSE, NoType, 0)
  /\ session' = "none"
  /\ reports' = <<>>
  /\ UNCHANGED <<configVars, stateVars, ringVars, readerVars, op, op_current,
                 frameVars, listener, destroyed, event_flags,
                 detected_file_type, plays>>

(* Both threads are joined: forget their events, free the ring buffer (the *)
(* destructor frees a persistent one too), and leave PLAYING and FAILED    *)
(* for IDLE.                                                               *)
StopFinish ==
  /\ op_pc = "finish"
  /\ event_flags' = {}
  /\ IF op = "destroy" THEN ring_allocated' = FALSE /\ ring_data' = <<>>
     ELSE ReleaseRing
  /\ IF op_current \in {"PLAYING", "FAILED"}
     THEN StoreState("IDLE")
     ELSE UNCHANGED stateVars
  /\ op_current' = "IDLE"
  /\ IF op \in {"play_url", "play_buffer"}
     THEN op_pc' = "prepare" /\ UNCHANGED op
     ELSE op_pc' = "idle" /\ op' = "none"
  /\ destroyed' = (op = "destroy")
  /\ UNCHANGED <<configVars, readerVars, decoderVars, frameVars, listener,
                 detected_file_type, plays, session, reports>>

(* Without event flags stop() does nothing, and the destructor no more.    *)
DestroyUninitialized ==
  /\ UserInControl
  /\ ~initialized_
  /\ depth = 0
  /\ destroyed' = TRUE
  /\ ring_allocated' = FALSE
  /\ UNCHANGED <<configVars, stateVars, ring_data, readerVars, decoderVars,
                 opVars, frameVars, listener, event_flags,
                 detected_file_type, plays, session, reports>>

-----------------------------------------------------------------------------
(* play_url() and play_buffer().                                           *)

Return == op' = "none" /\ op_pc' = "idle" /\ UNCHANGED op_current

(* Without event flags the call fails at once.                             *)
PlayUninitialized ==
  /\ UserInControl
  /\ ~initialized_
  /\ StoreState("FAILED")
  /\ UNCHANGED <<configVars, ringVars, readerVars, decoderVars, userVars,
                 event_flags, detected_file_type, plays, session, reports>>

(* No listener: the call returns false once the old playback is torn down. *)
PlayNoListener ==
  /\ op_pc = "prepare"
  /\ ~listener
  /\ Return
  /\ UNCHANGED <<configVars, stateVars, ringVars, readerVars, decoderVars,
                 frameVars, listener, destroyed, event_flags,
                 detected_file_type, plays, session, reports>>

(* ensure_ring_buffer() fails and leaves no ring buffer behind.            *)
PlayUrlNoRing ==
  /\ op_pc = "prepare" /\ op = "play_url"
  /\ listener
  /\ Return
  /\ ring_allocated' = FALSE
  /\ ring_data' = <<>>
  /\ StoreState("FAILED")
  /\ UNCHANGED <<configVars, readerVars, decoderVars, frameVars, listener,
                 destroyed, event_flags, detected_file_type, plays, session,
                 reports>>

(* Fault: a retained ring buffer is used as it is.                         *)
EnsureRingWithoutReset ==
  /\ ring_allocated' = TRUE
  /\ ring_data' = IF ring_allocated THEN ring_data ELSE <<>>

(* ensure_ring_buffer(): reset the one that is held, else create one.      *)
EnsureRing ==
  /\ ring_allocated' = TRUE
  /\ ring_data' = <<>>

(* Fault: a deferred notification of the previous playback is kept.        *)
ClearForPlayKeepsPending ==
  /\ event_flags' = {}
  /\ plays' = plays + 1
  /\ UNCHANGED pending_state_notification_

(* Whatever a previous run left is cleared before a thread starts.         *)
ClearForPlay ==
  /\ event_flags' = {}
  /\ pending_state_notification_' = FALSE
  /\ plays' = plays + 1

(* The ring buffer is made ready and the reader thread started.            *)
PlayUrlStartsReader ==
  /\ op_pc = "prepare" /\ op = "play_url"
  /\ listener
  /\ EnsureRing
  /\ ClearForPlay
  /\ detected_file_type' = NoType
  /\ rd_pc' = "open"
  /\ op_pc' = "spawn_decoder"
  /\ UNCHANGED <<configVars, decoder_state, rd_type, rd_staged, decoderVars,
                 op, op_current, frameVars, listener, destroyed, session,
                 reports>>

(* The reader thread cannot be created.                                    *)
PlayUrlNoReader ==
  /\ op_pc = "prepare" /\ op = "play_url"
  /\ listener
  /\ event_flags' = {}
  /\ plays' = plays + 1
  /\ detected_file_type' = NoType
  /\ ring_allocated' = persistent_ring_buffer
  /\ ring_data' = <<>>
  /\ StoreState("FAILED")
  /\ Return
  /\ UNCHANGED <<configVars, readerVars, decoderVars, frameVars, listener,
                 destroyed, session, reports>>

PlayUrlStartsDecoder ==
  /\ op_pc = "spawn_decoder"
  /\ DecoderLocals("wait", TRUE, NoType, 0)
  /\ session' = "launched"
  /\ Return
  /\ UNCHANGED <<configVars, stateVars, ringVars, readerVars, frameVars,
                 listener, destroyed, event_flags, detected_file_type, plays,
                 reports>>

(* The decoder thread cannot be created: the running reader is unwound.    *)
PlayUrlNoDecoder ==
  /\ op_pc = "spawn_decoder"
  /\ event_flags' = event_flags \cup {COMMAND_STOP}
  /\ op_pc' = "unwind_join"
  /\ UNCHANGED <<configVars, stateVars, ringVars, readerVars, decoderVars, op,
                 op_current, frameVars, listener, destroyed,
                 detected_file_type, plays, session, reports>>

(* Fault: the stop command for the reader stays set.                       *)
UnwindKeepsStop ==
  /\ op_pc = "unwind_join"
  /\ ReaderGone
  /\ NoReader
  /\ ReleaseRing
  /\ StoreState("FAILED")
  /\ Return
  /\ UNCHANGED <<configVars, decoderVars, frameVars, listener, destroyed,
                 event_flags, detected_file_type, plays, session, reports>>

PlayUrlUnwind ==
  /\ op_pc = "unwind_join"
  /\ ReaderGone
  /\ NoReader
  /\ event_flags' = {}
  /\ ReleaseRing
  /\ StoreState("FAILED")
  /\ Return
  /\ UNCHANGED <<configVars, decoderVars, frameVars, listener, destroyed,
                 detected_file_type, plays, session, reports>>

PlayBufferStartsDecoder(t) ==
  /\ op_pc = "prepare" /\ op = "play_buffer"
  /\ listener
  /\ ClearForPlay
  /\ detected_file_type' = t
  /\ DecoderLocals("start", FALSE, t, BufferChunks)
  /\ session' = "launched"
  /\ Return
  /\ UNCHANGED <<configVars, decoder_state, ringVars, readerVars, frameVars,
                 listener, destroyed, reports>>

PlayBufferNoDecoder(t) ==
  /\ op_pc = "prepare" /\ op = "play_buffer"
  /\ listener
  /\ event_flags' = {}
  /\ plays' = plays + 1
  /\ detected_file_type' = t
  /\ StoreState("FAILED")
  /\ Return
  /\ UNCHANGED <<configVars, ringVars, readerVars, decoderVars, frameVars,
                 listener, destroyed, session, reports>>

-----------------------------------------------------------------------------
(* loop(): drain_pending_notification(), then pump_events().               *)

otherThanLoop ==
  <<configVars, ringVars, readerVars, decoderVars, opVars, listener,
    destroyed, detected_file_type, plays, session>>

(* Continue the innermost loop() call at a step, or return from it.        *)
GoTo(step) ==
  /\ frame_pc' = [frame_pc EXCEPT ![depth] = step]
  /\ UNCHANGED <<depth, frame_flags>>

LoopReturns ==
  /\ depth' = depth - 1
  /\ frame_pc' = [frame_pc EXCEPT ![depth] = "none"]
  /\ frame_flags' = [frame_flags EXCEPT ![depth] = {}]

InLoop(step) ==
  /\ op = "none" /\ ~destroyed
  /\ depth > 0
  /\ frame_pc[depth] = step

(* loop() is called; a deferred notification goes out first.               *)
LoopCall ==
  /\ UserInControl
  /\ depth < MaxLoopDepth
  /\ pending_state_notification_ \/ initialized_
  /\ pending_state_notification_' = FALSE
  /\ IF pending_state_notification_ /\ listener
     THEN /\ depth' = depth + 1
          /\ frame_pc' = [frame_pc EXCEPT ![depth + 1] = "drained"]
     ELSE IF initialized_
     THEN /\ depth' = depth + 1
          /\ frame_pc' = [frame_pc EXCEPT ![depth + 1] = "get"]
     ELSE UNCHANGED <<depth, frame_pc>>
  /\ UNCHANGED <<otherThanLoop, frame_flags, decoder_state, event_flags,
                 reports>>

(* pump_events() reads the flags; without news it returns.                 *)
PumpGet ==
  /\ InLoop("get")
  /\ IF event_flags \cap PumpedFlags = {}
     THEN LoopReturns
     ELSE /\ frame_pc' = [frame_pc EXCEPT ![depth] = "clear"]
          /\ frame_flags' =
               [frame_flags EXCEPT ![depth] = event_flags \cap PumpedFlags]
          /\ UNCHANGED depth
  /\ UNCHANGED <<otherThanLoop, stateVars, event_flags, reports>>

(* Fault: everything pump_events() may consume is cleared, not what it     *)
(* has read.                                                               *)
PumpClearsUnread ==
  /\ InLoop("clear")
  /\ event_flags' = event_flags \ PumpedFlags
  /\ GoTo("dispatch")
  /\ UNCHANGED <<otherThanLoop, stateVars, reports>>

(* Fault: every flag is cleared, and not only the events of the decoder.   *)
PumpClearsAll ==
  /\ InLoop("clear")
  /\ event_flags' = {}
  /\ GoTo("dispatch")
  /\ UNCHANGED <<otherThanLoop, stateVars, reports>>

PumpClear ==
  /\ InLoop("clear")
  /\ event_flags' = event_flags \ frame_flags[depth]
  /\ GoTo("dispatch")
  /\ UNCHANGED <<otherThanLoop, stateVars, reports>>

(* set_state(): the transition is made, and reported at once.              *)
SetState(s, callback, otherwise) ==
  /\ decoder_state' = s
  /\ reports' = Append(reports, s)
  /\ IF listener THEN GoTo(callback) ELSE otherwise

(* A failure hides the other events.                                       *)
PumpFailed ==
  /\ InLoop("dispatch")
  /\ DECODER_FAILED \in frame_flags[depth]
  /\ SetState("FAILED", "ended", LoopReturns)
  /\ UNCHANGED <<otherThanLoop, pending_state_notification_, event_flags>>

PumpStarted ==
  /\ InLoop("dispatch")
  /\ DECODER_FAILED \notin frame_flags[depth]
  /\ IF DECODER_STARTED \in frame_flags[depth] /\ decoder_state # "FAILED"
     THEN SetState("PLAYING", "playing", GoTo("finished"))
     ELSE GoTo("finished") /\ UNCHANGED <<decoder_state, reports>>
  /\ UNCHANGED <<otherThanLoop, pending_state_notification_, event_flags>>

(* Fault: the state is not looked at again after the PLAYING callback.     *)
PumpFinishedUnchecked ==
  /\ InLoop("finished")
  /\ IF DECODER_FINISHED \in frame_flags[depth]
     THEN SetState("IDLE", "ended", LoopReturns)
     ELSE LoopReturns /\ UNCHANGED <<decoder_state, reports>>
  /\ UNCHANGED <<otherThanLoop, pending_state_notification_, event_flags>>

PumpFinished ==
  /\ InLoop("finished")
  /\ IF DECODER_FINISHED \in frame_flags[depth]
        /\ decoder_state = "PLAYING"
     THEN SetState("IDLE", "ended", LoopReturns)
     ELSE LoopReturns /\ UNCHANGED <<decoder_state, reports>>
  /\ UNCHANGED <<otherThanLoop, pending_state_notification_, event_flags>>

(* on_state_change() returns into the loop() call that made it.            *)
CallbackReturn ==
  /\ UserInControl
  /\ depth > 0
  /\ CASE frame_pc[depth] = "drained" ->
             IF initialized_ THEN GoTo("get") ELSE LoopReturns
       [] frame_pc[depth] = "playing" -> GoTo("finished")
       [] OTHER -> LoopReturns
  /\ UNCHANGED <<otherThanLoop, stateVars, event_flags, reports>>

-----------------------------------------------------------------------------
Call ==
  \/ SetListener \/ PlayUninitialized \/ DestroyUninitialized
  \/ \E call \in Ops \ {"none"} : StopBegin(call)
  \/ LoopCall \/ CallbackReturn

(* The steps by which a call of the user's thread comes to its end.        *)
CallStep ==
  \/ StopJoinReader \/ StopJoinDecoder \/ StopFinish
  \/ PlayNoListener \/ PlayUrlNoRing \/ PlayUrlStartsReader
  \/ PlayUrlNoReader \/ PlayUrlStartsDecoder \/ PlayUrlNoDecoder
  \/ PlayUrlUnwind
  \/ \E t \in FileTypes : PlayBufferStartsDecoder(t) \/ PlayBufferNoDecoder(t)
  \/ PumpGet \/ PumpClear \/ PumpFailed \/ PumpStarted \/ PumpFinished

(* The object is gone; the only state in which nothing more happens.       *)
Destroyed == destroyed /\ UNCHANGED vars

Next == Reader \/ Decoder \/ Call \/ CallStep \/ Destroyed

Spec == Init /\ [][Next]_vars

(* What the codecs promise: one that is called again and again does not    *)
(* for ever ask to go on without consuming anything.                       *)
CodecAdvances ==
  \/ CodecProgress("MORE_TO_PROCESS", TRUE)
  \/ \E consumed \in BOOLEAN :
       \/ CodecProgress("IDLE", consumed)
       \/ CodecPotentiallyFailed(consumed)
       \/ CodecEndOfFile(consumed)
  \/ CodecFailed

(* Each worker runs, since all it waits for is bounded by a timeout, and   *)
(* codecs advance; a call that was made runs to its end; a callback        *)
(* returns in the end; and the user calls loop() again and again, as the   *)
(* API asks for.                                                           *)
Fairness ==
  /\ WF_vars(Reader)
  /\ WF_vars(Decoder)
  /\ SF_vars(CodecAdvances)
  /\ WF_vars(CallStep)
  /\ SF_vars(LoopCall)
  /\ SF_vars(CallbackReturn)

FairSpec == Spec /\ Fairness

-----------------------------------------------------------------------------
(* Safety.                                                                 *)

RingInUse == ~ReaderGone \/ (dc_url /\ ~DecoderGone)

(* The ring buffer is not freed while a thread can still touch it: the     *)
(* order of the joins, of stop() and of the unwinding of a failed          *)
(* play_url() against release_ring_buffer().                               *)
RingHeldWhileInUse == RingInUse => ring_allocated

(* The reader and the decoder only find bytes of their own playback in the *)
(* ring buffer, also when a persistent one is used again.                  *)
OnlyThisPlaybacksBytes ==
  RingInUse => \A i \in DOMAIN ring_data : ring_data[i] = plays

(* A URL is decoded as the type its own reader found, never as one left    *)
(* over from an earlier playback (decode_url_stream()).                    *)
DecodesTheStreamsType ==
  dc_url /\ dc_pc \in {"start", "loop", "check", "first", "again", "codec",
                       "finish"} =>
    /\ dc_type # NoType
    /\ rd_pc # "none" => dc_type = rd_type

(* A playback is said to have finished only when every chunk of it was     *)
(* decoded and all PCM delivered, or the codec saw its end, and never      *)
(* after a reader error (run_decoder()).                                   *)
FinishedMeansDrained ==
  session = "finished" =>
    /\ dc_output = 0
    /\ READER_ERROR \notin event_flags
    /\ ~dc_eof => IF dc_url THEN ring_data = <<>> /\ rd_staged = 0
                  ELSE dc_left = 0

(* The deferred notification of an earlier playback never goes out while a *)
(* later one runs (play_url(), play_buffer()).                             *)
NoStaleNotification ==
  pending_state_notification_ => rd_pc = "none" /\ dc_pc = "none"

(* A stop command is only set while a call waits for the threads it is     *)
(* for; none is left to stop the next playback.                            *)
NoStrayStop ==
  COMMAND_STOP \in event_flags =>
    op_pc \in {"join_reader", "join_decoder", "finish", "unwind_join"}

(* The flag f waits to be read, or a loop() call has read it.              *)
Held(f, steps) ==
  \/ f \in event_flags
  \/ \E i \in 1..depth : frame_pc[i] \in steps /\ f \in frame_flags[i]

(* However loop(), the callbacks and the decoder interleave, what became   *)
(* of the playback is not lost before it is reported (pump_events()).      *)
OutcomeNotLost ==
  /\ session = "started" =>
       reports # <<>> \/ Held(DECODER_STARTED, {"clear", "dispatch"})
  /\ session = "failed" =>
       decoder_state = "FAILED" \/ Held(DECODER_FAILED, {"clear", "dispatch"})
  /\ session = "finished" =>
       \/ Len(reports) > 1
       \/ Held(DECODER_FINISHED, {"clear", "dispatch", "playing", "finished"})

(* The flags that a thread waits for, or is still going to look at before  *)
(* it ends.                                                                *)
LookedFor ==
  (IF ReaderGone THEN {} ELSE ReaderStopFlags)
    \cup (IF dc_pc = "wait" THEN {READER_READY, READER_ERROR, COMMAND_STOP}
          ELSE {})

(* No event that a thread waits for is taken back before the thread has    *)
(* seen it, by loop() consuming events or by a call that cleans up ("this  *)
(* flag stays set until the next play_*()/stop(), so the reader cannot     *)
(* miss it").  The host's EventFlags rely on it: their wait() only looks   *)
(* at the bits when it has the mutex again.                                *)
WaitedBitsStay == [][LookedFor \cap event_flags \subseteq event_flags']_vars

-----------------------------------------------------------------------------
(* Liveness, under FairSpec.                                               *)

(* stop(), play_*() and the destructor return: no thread waits for one     *)
(* that is gone.                                                           *)
StopReturns == op # "none" ~> op = "none"

(* The reader does not outlive the decoder, whatever the decoder ended by. *)
ReaderFollowsDecoder == dc_url /\ dc_pc = "done" ~> ReaderGone

Lifecycle == INSTANCE PlaybackLifecycle WITH state <- decoder_state

(* Playbacks keep the promise of PlaybackLifecycle, unless callbacks call  *)
(* loop().                                                                 *)
RefinesLifecycle == Lifecycle!FairSpec

-----------------------------------------------------------------------------
(* What the documentation says and the code does not do.                   *)

(* decoder_source.h: every public method is safe to call from              *)
(* on_state_change().  Then IDLE should mean that the playback is over     *)
(* even when a callback calls play_url() and loop().                       *)
NoSpuriousIdle ==
  session = "started" /\ reports # <<>> => decoder_state = "PLAYING"
=============================================================================
