----------------------------- MODULE BasicPlayer -----------------------------
(***************************************************************************)
(* The host player (src/host_examples/basic_player/main.cpp): main() as    *)
(* the user of a DecoderSource that does what PlaybackLifecycle promises.  *)
(* A decoder thread reads the buffer of play_buffer() from its launch to   *)
(* its end.                                                                *)
(***************************************************************************)
EXTENDS Sequences

VARIABLES
  main,        \* where main() is
  running,     \* FALSE after SIGINT or SIGTERM
  finished_,   \* of PlayerSink
  file_data,   \* the vector with the file: none, alive or destroyed
  session, state, reports   \* of the DecoderSource

DecoderSource == INSTANCE PlaybackLifecycle

lifecycleVars == <<session, state, reports>>
vars == <<main, running, finished_, file_data, lifecycleVars>>

Init ==
  /\ main \in {"play_url", "load"}
  /\ running = TRUE /\ finished_ = FALSE /\ file_data = "none"
  /\ DecoderSource!Init

Goes(from, to) == main = from /\ main' = to

SignalHandler ==
  /\ main # "return" /\ running
  /\ running' = FALSE
  /\ UNCHANGED <<main, finished_, file_data, lifecycleVars>>

PlayUrl ==
  /\ \/ Goes("play_url", "poll") /\ DecoderSource!Launch
     \/ Goes("play_url", "return") /\ UNCHANGED lifecycleVars
  /\ UNCHANGED <<running, finished_, file_data>>

ReadFile ==
  /\ \/ Goes("load", "play_buffer") /\ file_data' = "alive"
     \/ Goes("load", "return") /\ UNCHANGED file_data
  /\ UNCHANGED <<running, finished_, lifecycleVars>>

PlayBuffer ==
  /\ \/ Goes("play_buffer", "leave_scope") /\ DecoderSource!Launch
     \/ Goes("play_buffer", "leave_and_return") /\ UNCHANGED lifecycleVars
  /\ UNCHANGED <<running, finished_, file_data>>

(* file_data is declared in the block that calls play_buffer().            *)
LeaveScope ==
  /\ Goes("leave_scope", "poll") \/ Goes("leave_and_return", "return")
  /\ file_data' = "destroyed"
  /\ UNCHANGED <<running, finished_, lifecycleVars>>

(* loop(), which calls on_state_change().                                  *)
Poll ==
  /\ Goes("poll", "poll") /\ running /\ ~finished_
  /\ \E s \in {"PLAYING", "IDLE", "FAILED"} :
       DecoderSource!Report(s) /\ finished_' = (s # "PLAYING")
  /\ UNCHANGED <<running, file_data>>

(* If it was not interrupted, the tail is played first: sink.drain().      *)
PollEnds ==
  /\ ~running \/ finished_
  /\ Goes("poll", IF running THEN "drain" ELSE "stop")
  /\ UNCHANGED <<running, finished_, file_data, lifecycleVars>>

Drain ==
  /\ Goes("drain", "stop")
  /\ UNCHANGED <<running, finished_, file_data, lifecycleVars>>

(* decoder.stop(), and then sink.stop().                                   *)
Stop ==
  /\ Goes("stop", "return")
  /\ DecoderSource!Halt
  /\ UNCHANGED <<running, finished_, file_data>>

DecoderThread ==
  /\ DecoderSource!Start \/ DecoderSource!Finish \/ DecoderSource!Fail
  /\ UNCHANGED <<main, running, finished_, file_data>>

Returned == main = "return" /\ UNCHANGED vars

Next ==
  \/ SignalHandler \/ PlayUrl \/ ReadFile \/ PlayBuffer \/ LeaveScope
  \/ Poll \/ PollEnds \/ Drain \/ Stop \/ DecoderThread \/ Returned

Spec == Init /\ [][Next]_vars

-----------------------------------------------------------------------------
(* INTEGRATION.md: "The buffer must remain valid until `stop()` returns or *)
(* the decoder is destroyed": while a decoder thread may read the file,    *)
(* its vector is alive.                                                    *)
BufferOutlivesDecoder ==
  session \in {"launched", "started"} => file_data # "destroyed"
=============================================================================
