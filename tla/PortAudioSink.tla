---------------------------- MODULE PortAudioSink ----------------------------
(***************************************************************************)
(* The listener of the host player (src/host_examples/common/              *)
(* portaudio_sink.cpp): PortAudioSink with its lock-free ring, between the *)
(* decoder thread, which writes, PortAudio's callback thread, which reads, *)
(* and the user's thread, which plays, drains and stops.  A step contains  *)
(* one access to what the threads share.                                   *)
(*                                                                         *)
(* clear() has no caller, so clear_requested_ is always false.  stream_ is *)
(* no atomic: the user does not stop or drain the sink while it is opened. *)
(* DecoderSource is what it does to its listener: one decoder thread for   *)
(* each playback, which stop() joins.                                      *)
(***************************************************************************)
EXTENDS Integers, Sequences

CONSTANTS Capacity,    \* of the ring, one byte of it always free
          Requested,   \* bytes the callback is asked for at a time
          MaxPcm,      \* bound: the PCM bytes of a playback
          MaxPlaybacks \* bound

ASSUME SinkAssumption ==
  /\ Capacity \in Nat \ {0, 1} /\ Requested \in Nat \ {0}
  /\ {MaxPcm, MaxPlaybacks} \subseteq Nat

VARIABLES
  buffer_, read_pos_, write_pos_,
  abort_write_,
  stream_,         \* whether PortAudio has the stream open and calls back
  closer, closing, \* who is in close_stream(), and where
  user,            \* what the user's thread does
  stop,            \* FLAG_COMMAND_STOP
  playback,        \* number of the playback
  decoder,         \* where the decoder thread is
  left,            \* bytes of the on_audio_write() in progress
  at_write,        \* the positions that write() has loaded
  callback,        \* where the callback is
  at_read,         \* the positions that read() has loaded
  opened,          \* history: the playback that the stream was opened for,
  accepted,        \* how many of its bytes the ring took,
  heard            \* and the bytes the device was given

ringVars == <<buffer_, read_pos_, write_pos_>>
closeVars == <<abort_write_, stream_, closer, closing>>
userVars == <<user, stop, playback>>
writerVars == <<decoder, left, at_write>>
callbackVars == <<callback, at_read>>
history == <<opened, accepted, heard>>
vars == <<ringVars, closeVars, userVars, writerVars, callbackVars, history>>

Slots == 0..(Capacity - 1)
Positions == [read : Slots, write : Slots]
Current == [read |-> read_pos_, write |-> write_pos_]

Lesser(a, b) == IF a < b THEN a ELSE b

Ahead(slot, of) == (slot - of + Capacity) % Capacity

(* Fault: a position that reaches the end stays there.                     *)
AfterUnwrapped(slot, n) ==
  IF slot + n > Capacity THEN slot + n - Capacity ELSE slot + n

After(slot, n) == (slot + n) % Capacity

(* available() and free_space(), from positions that may be old.           *)
Available(at) == Ahead(at.write, at.read)
FreeSpace(at) == Capacity - 1 - Available(at)

Init ==
  /\ buffer_ = [slot \in Slots |-> <<0, 0>>] /\ read_pos_ = 0 /\ write_pos_ = 0
  /\ abort_write_ = FALSE /\ stream_ = FALSE
  /\ closer = "nobody" /\ closing = "no"
  /\ user = "idle" /\ stop = FALSE /\ playback = 0
  /\ decoder = "none" /\ left = 0 /\ at_write = Current
  /\ callback = "idle" /\ at_read = Current
  /\ opened = 0 /\ accepted = 0 /\ heard = <<>>

(* A notification reaches a writer that sleeps.                            *)
Notified == IF decoder = "asleep" THEN "locking" ELSE decoder

-----------------------------------------------------------------------------
(* close_stream(), on the decoder thread and on the user's.                *)

CloseAborts(who) ==
  /\ closer = "nobody"
  /\ closer' = who /\ closing' = "notify"
  /\ abort_write_' = TRUE
  /\ UNCHANGED <<ringVars, stream_, userVars, left, at_write, callbackVars, history>>

CloseNotifies ==
  /\ closing = "notify"
  /\ closing' = "halt"
  /\ decoder' = Notified
  /\ UNCHANGED <<ringVars, abort_write_, stream_, closer, userVars, left, at_write,
                 callbackVars, history>>

(* Pa_StopStream() returns when the callback has.                          *)
CloseHalts ==
  /\ closing = "halt"
  /\ callback = "idle"
  /\ closing' = "reset" /\ stream_' = FALSE
  /\ UNCHANGED <<ringVars, abort_write_, closer, userVars, writerVars,
                 callbackVars, history>>

(* Fault: the read position stays where it is.                             *)
CloseKeeps ==
  /\ closing = "reset" /\ decoder # "testing"
  /\ closing' = "rewind"
  /\ UNCHANGED <<ringVars, abort_write_, stream_, closer, userVars, writerVars,
                 callbackVars, history>>

(* reset(), one position after the other, under the mutex, which write()   *)
(* does not take.                                                          *)
CloseResets ==
  /\ closing = "reset" /\ decoder # "testing"
  /\ closing' = "rewind"
  /\ read_pos_' = 0
  /\ UNCHANGED <<buffer_, write_pos_, abort_write_, stream_, closer, userVars,
                 writerVars, callbackVars, history>>

CloseRewinds ==
  /\ closing = "rewind"
  /\ write_pos_' = 0
  /\ closer' = "nobody" /\ closing' = "no"
  /\ decoder' = IF closer = "decoder" THEN "open" ELSE decoder
  /\ UNCHANGED <<buffer_, read_pos_, abort_write_, stream_, userVars, left,
                 at_write, callbackVars, history>>

Close == CloseNotifies \/ CloseHalts \/ CloseResets \/ CloseRewinds

-----------------------------------------------------------------------------
(* The decoder thread.                                                     *)

Goes(from, to) ==
  /\ decoder = from /\ decoder' = to
  /\ UNCHANGED <<ringVars, closeVars, userVars, callbackVars>>

(* on_stream_info() comes before the first PCM.                            *)
StreamInfo ==
  /\ decoder = "begin" /\ decoder' = "closing"
  /\ CloseAborts("decoder")

(* The stream starts, or PortAudio refuses the format or the device.       *)
OpenStream ==
  /\ decoder = "open"
  /\ decoder' = "idle"
  /\ abort_write_' = FALSE
  /\ stream_' \in BOOLEAN
  /\ opened' = playback /\ accepted' = 0 /\ heard' = <<>>
  /\ UNCHANGED <<ringVars, closer, closing, userVars, left, at_write, callbackVars>>

(* on_audio_write(), with the PCM that was not taken before.               *)
AudioWrite ==
  /\ Goes("idle", "checking") /\ ~stop
  /\ left' \in 1..(MaxPcm - accepted)
  /\ UNCHANGED <<at_write, history>>

CheckAbort ==
  /\ Goes("checking", IF abort_write_ THEN "idle" ELSE "loading")
  /\ UNCHANGED <<left, at_write, history>>

LoadWritePos ==
  /\ Goes("loading", "loading_read")
  /\ at_write' = [at_write EXCEPT !.write = write_pos_]
  /\ UNCHANGED <<left, history>>

LoadReadPos ==
  /\ Goes("loading_read", "writing")
  /\ at_write' = [at_write EXCEPT !.read = read_pos_]
  /\ UNCHANGED <<left, history>>

Stored(n) ==
  /\ decoder = "writing"
  /\ buffer_' = [slot \in Slots |->
       LET i == Ahead(slot, at_write.write)
       IN  IF i < n THEN <<opened, accepted + i + 1>> ELSE buffer_[slot]]
  /\ write_pos_' = IF n = 0 THEN write_pos_ ELSE After(at_write.write, n)
  /\ accepted' = accepted + n /\ left' = left - n
  /\ decoder' = IF left' = 0 THEN "idle" ELSE "locking"
  /\ UNCHANGED <<read_pos_, closeVars, userVars, at_write, callbackVars, opened,
                 heard>>

(* Fault: the last byte is used too, and a full ring looks empty.          *)
WriteFull == Stored(Lesser(left, FreeSpace(at_write) + 1))

Write == Stored(Lesser(left, FreeSpace(at_write)))

MayWrite == FreeSpace(Current) > 0 \/ abort_write_

(* The predicate, once the writer has the mutex, which nobody notifies     *)
(* under.                                                                  *)
TestSpace ==
  /\ closing # "rewind"
  /\ Goes("locking", IF MayWrite THEN "checking" ELSE "testing")
  /\ UNCHANGED <<left, at_write, history>>

FallAsleep == Goes("testing", "asleep") /\ UNCHANGED <<left, at_write, history>>

WakeSpuriously == Goes("asleep", "locking") /\ UNCHANGED <<left, at_write, history>>

(* The deadline passes; the predicate has the last word.                   *)
Expire ==
  /\ closing # "rewind"
  /\ Goes("asleep", IF MayWrite THEN "checking" ELSE "idle")
  /\ UNCHANGED <<left, at_write, history>>

(* The stream has ended, or failed, or stop() was called.                  *)
DecoderEnds ==
  /\ \/ Goes("idle", "ended")
     \/ Goes("begin", "ended")
  /\ UNCHANGED <<left, at_write, history>>

Writes ==
  \/ StreamInfo \/ OpenStream \/ CheckAbort \/ LoadWritePos \/ LoadReadPos \/ Write
  \/ TestSpace \/ FallAsleep

Decoder == Writes \/ AudioWrite \/ WakeSpuriously \/ Expire \/ DecoderEnds

-----------------------------------------------------------------------------
(* pa_callback() and the read() in it.                                     *)

CallbackVarsOnly == UNCHANGED <<closeVars, userVars, left, at_write, opened, accepted>>

LoadRead ==
  /\ stream_ /\ callback = "idle"
  /\ callback' = "reading" /\ at_read' = Current
  /\ UNCHANGED <<ringVars, decoder, heard>> /\ CallbackVarsOnly

(* What the ring does not have is silence.                                 *)
Read ==
  LET n == Lesser(Requested, Available(at_read))
  IN  /\ callback = "reading"
      /\ heard' = heard \o [i \in 1..n |-> buffer_[After(at_read.read, i - 1)]]
      /\ read_pos_' = IF n = 0 THEN read_pos_ ELSE After(at_read.read, n)
      /\ callback' = "notifying"
      /\ UNCHANGED <<buffer_, write_pos_, decoder, at_read>> /\ CallbackVarsOnly

(* Fault: the writer is only notified of space that the callback has made. *)
NotifyOfSpace ==
  /\ callback = "notifying" /\ callback' = "idle"
  /\ decoder' = IF Available(at_read) > 0 THEN Notified ELSE decoder
  /\ UNCHANGED <<ringVars, at_read, heard>> /\ CallbackVarsOnly

NotifyWriter ==
  /\ callback = "notifying" /\ callback' = "idle"
  /\ decoder' = Notified
  /\ UNCHANGED <<ringVars, at_read, heard>> /\ CallbackVarsOnly

Callback == LoadRead \/ Read \/ NotifyWriter

-----------------------------------------------------------------------------
(* The user's thread.                                                      *)

UserGoes(from, to) ==
  /\ user = from /\ user' = to
  /\ UNCHANGED <<ringVars, closeVars, left, at_write, callbackVars, history>>

Play ==
  /\ UserGoes("idle", "idle")
  /\ decoder = "none" /\ playback < MaxPlaybacks
  /\ playback' = playback + 1 /\ decoder' = "begin" /\ stop' = FALSE

StopDecoder ==
  /\ UserGoes("idle", "joining")
  /\ decoder # "none"
  /\ stop' = TRUE
  /\ UNCHANGED <<playback, decoder>>

Joined ==
  /\ UserGoes("joining", "idle")
  /\ decoder = "ended" /\ decoder' = "none"
  /\ UNCHANGED <<stop, playback>>

(* PortAudioSink::stop().                                                  *)
StopSink ==
  /\ user = "idle" /\ decoder \notin {"closing", "open"}
  /\ CloseAborts("user")
  /\ UNCHANGED decoder

(* drain(), once the decoder has reported that it is done.                 *)
Drain ==
  /\ UserGoes("idle", "draining")
  /\ decoder = "ended" /\ stream_
  /\ UNCHANGED <<stop, playback, decoder>>

Drained ==
  /\ UserGoes("draining", "drained")
  /\ Available(Current) = 0
  /\ UNCHANGED <<stop, playback, decoder>>

(* abort_write_ is set, the stream has become inactive, or time is up.     *)
DrainGivesUp ==
  /\ UserGoes("draining", "idle")
  /\ UNCHANGED <<stop, playback, decoder>>

DrainReturns ==
  /\ UserGoes("drained", "idle")
  /\ UNCHANGED <<stop, playback, decoder>>

User ==
  /\ closer # "user"
  /\ \/ Play \/ StopDecoder \/ Joined \/ StopSink
     \/ Drain \/ Drained \/ DrainGivesUp \/ DrainReturns

Next == Close \/ Decoder \/ Callback \/ User

Spec == Init /\ [][Next]_vars

(* The threads run, and nobody is kept from the mutex by those who take it *)
(* again and again.  A deadline, which wake-ups do not put off, need only  *)
(* pass when there is no callback that could wake the writer.              *)
Fairness ==
  /\ WF_vars(Close)
  /\ WF_vars(Writes)
  /\ SF_vars(TestSpace)
  /\ WF_vars(Callback)
  /\ SF_vars(~stream_ /\ Expire)

FairSpec == Spec /\ Fairness

-----------------------------------------------------------------------------
Writing ==
  decoder \in {"checking", "loading", "loading_read", "writing", "locking", "testing",
              "asleep"}

TypeOK ==
  /\ \A slot \in Slots : buffer_[slot] \in (0..MaxPlaybacks) \X (0..MaxPcm)
  /\ {at_read, at_write, Current} \subseteq Positions
  /\ {abort_write_, stream_, stop} \subseteq BOOLEAN
  /\ closer \in {"nobody", "user", "decoder"}
  /\ closing \in {"no", "notify", "halt", "reset", "rewind"}
  /\ user \in {"idle", "joining", "draining", "drained"}
  /\ {playback, opened} \subseteq 0..MaxPlaybacks
  /\ Writing \/ decoder \in {"none", "begin", "closing", "open", "idle", "ended"}
  /\ {accepted, left} \subseteq 0..MaxPcm
  /\ callback \in {"idle", "reading", "notifying"}

(* The device gets the bytes of the stream it was opened for, in their     *)
(* order: none of an earlier playback, none twice, none before the writer  *)
(* has stored it.                                                          *)
PlayedInOrder ==
  /\ Len(heard) <= accepted
  /\ \A i \in 1..Len(heard) : heard[i] = <<opened, i>>

(* When drain() has seen an empty ring, the tail of the playback has been  *)
(* played.                                                                 *)
TailPlayed == user = "drained" => Len(heard) = accepted

(* The notifications are sent without the mutex, so one can be lost        *)
(* between the predicate and the sleep; on_audio_write() returns all the   *)
(* same without its deadline while the callback runs, and with it after    *)
(* the stream was closed.                                                  *)
WriteReturns == Writing ~> ~Writing
=============================================================================
