-------------------------- MODULE PlaybackLifecycle --------------------------
(***************************************************************************)
(* What DecoderSource promises of one playback after another, as seen by   *)
(* the listener (src/include/micro_decoder/decoder_source.h and types.h):  *)
(* a playback is launched, it starts, and it finishes or fails; loop()     *)
(* reports PLAYING, then IDLE or FAILED, each at most once, in this order, *)
(* and each only when it is true; what is to be reported is reported       *)
(* unless the playback is halted first.                                    *)
(***************************************************************************)
EXTENDS Sequences

VARIABLES
  session,   (* none, or how far the current playback has come             *)
  state,     (* what DecoderSource::state() returns                        *)
  reports    (* the transitions loop() has made for this playback          *)

lifecycleVars == <<session, state, reports>>

Init == session = "none" /\ state = "IDLE" /\ reports = <<>>

(* A playback begins in the state IDLE: whoever polls state() waits for    *)
(* this playback to leave it.                                              *)
Launch ==
  /\ session = "none" /\ state = "IDLE"
  /\ session' = "launched"
  /\ UNCHANGED <<state, reports>>

Start ==
  /\ session = "launched"
  /\ session' = "started"
  /\ UNCHANGED <<state, reports>>

Finish ==
  /\ session = "started"
  /\ session' = "finished"
  /\ UNCHANGED <<state, reports>>

Fail ==
  /\ session \in {"launched", "started"}
  /\ session' = "failed"
  /\ UNCHANGED <<state, reports>>

Due(s) ==
  \/ /\ s = "PLAYING"
     /\ session \in {"started", "finished", "failed"} /\ reports = <<>>
  \/ s = "IDLE" /\ session = "finished" /\ reports = <<"PLAYING">>
  \/ s = "FAILED" /\ session = "failed" /\ reports \in {<<>>, <<"PLAYING">>}

Report(s) ==
  /\ Due(s)
  /\ state' = s
  /\ reports' = Append(reports, s)
  /\ UNCHANGED session

(* stop(), or another play_*(), ends the playback ...                      *)
Halt ==
  /\ session # "none"
  /\ session' = "none" /\ reports' = <<>>
  /\ UNCHANGED state

(* ... and leaves the state IDLE; a play_*() that fails makes it FAILED.   *)
Settle ==
  /\ session = "none"
  /\ state' \in {"IDLE", "FAILED"}
  /\ UNCHANGED <<session, reports>>

Next ==
  \/ Launch \/ Start \/ Finish \/ Fail \/ Halt \/ Settle
  \/ \E s \in {"PLAYING", "IDLE", "FAILED"} : Report(s)

Spec == Init /\ [][Next]_lifecycleVars

FairSpec ==
  Spec /\ WF_lifecycleVars(\E s \in {"PLAYING", "IDLE", "FAILED"} : Report(s))
=============================================================================
