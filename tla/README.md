# A TLA+ model of micro-decoder

micro-decoder plays audio from an HTTP URL or from a buffer in memory.  The
class `DecoderSource` starts a *reader thread*, which downloads into a ring
buffer, and a *decoder thread*, which decodes from the ring buffer and hands PCM
to a listener.  The user's thread calls `play_url()`, `play_buffer()`, `stop()`
and, again and again, `loop()`, from which the listener learns of every change
of state.  The hard part is not the decoding but this: three threads, one word of
event flags, a ring buffer that is created and freed while they come and go, and
callbacks that call back into the API.  Below it are a byte ring and an event
group with mutexes and condition variables of their own, a reader and a decoder
that deal in portions of bytes, the decoder through borrowed views, and two HTTP
clients with flow control, retries and redirects.  Above it is the host player,
with a sink on three threads.

This directory models that part of the program, checks it with TLC and proves
its safety with TLAPS.  Paths below are relative to the repository's root; line
numbers are those of the modelled commit.

## Inventory

| Component | State | Operations | Correct when |
|---|---|---|---|
| `DecoderSource` (`src/decoder_source.cpp`) | `initialized_`, `decoder_state`, `pending_state_notification_`, listener, two thread handles, the event flags, the ring buffer | constructor, `set_listener`, `play_url`, `play_buffer`, `stop`, `loop`, destructor | what `loop()` reports of a playback is true, in order and complete; nothing is freed under a thread; every call returns; nothing of one playback leaks into the next |
| Reader thread (`reader_thread_func`) | its step, the file type | open, publish type, announce, read and write until done | the type is published before it is announced; it stops on a command and when the decoder is gone |
| Decoder thread (`decode_url_stream`, `run_decoder`, `run_decoder_buffer`) | its step, the flags it read | wait for the reader, start, loop, report, exit | it decodes with the type of its own stream; finished means drained; a reader error is never reported as success |
| `AudioReader` (`src/audio_reader.cpp`) | transfer buffer, HTTP client | `start_url`, `run` | bytes reach the ring buffer in order, none lost when the ring is full |
| `AudioDecoder` (`src/audio_decoder.cpp`) | acquired chunk, output buffer, failure count, end of file, stream info | `start`, `decode`, `flush_output`, `release_acquired` | every byte is decoded once and all PCM delivered before FINISHED; an acquired chunk is always released; a stuck codec is given up on |
| `RingBuffer` (`src/ring_buffer.cpp`) | storage, `SpscRingBuffer` | `create`, `reset`, `release`, `write`, `receive_acquire`, `receive_release` | never half built; empty after `create` and `reset` |
| `SpscRingBuffer` (`src/platform/spsc_ring_buffer.h`) | offsets, free bytes, acquired length, mutex, two condition variables | `write`, `receive_acquire`, `receive_release`, `available` | a bounded FIFO of bytes; an acquired view is not overwritten; no wake-up is lost |
| `EventFlags` (`src/platform/event_flags.h`) | bits, mutex, condition variable | `set`, `clear`, `get`, `wait` | set and clear are atomic; `wait` misses no bit |
| `TransferBuffer`, `PlatformBuffer` | start, length, capacity | allocate, increase, decrease | indices stay in the storage |
| `PlatformThread` (`src/platform/thread.h`) | `started_` | `start`, `join`, `joinable` | joined exactly once, also when creation fails |
| HTTP client, host (`src/host/http_client.cpp`) | curl handles, receive buffer, `paused_`, `transfer_done_` | `open`, `read`, `is_complete`, callbacks | flow control never stalls; the end is not reported before the last byte |
| HTTP client, ESP-IDF (`src/esp/http_client.cpp`) | client handle | `open` with retries and redirects, `read`, `is_complete` | `open` keeps its budget and can be cancelled |
| File type detection (`src/types.cpp`) | none | `detect_audio_file_type` | Content-Type first, then the extension |
| `PortAudioSink` (`host_examples/common/portaudio_sink.cpp`) | lock-free ring, `abort_write_`, the stream, mutex, condition variable | `on_stream_info`, `on_audio_write`, the callback, `drain`, `stop` | the device hears each playback in order and to its tail; a write returns |
| `basic_player` (`host_examples/basic_player/main.cpp`) | `running`, `finished_`, the file | `main`, the signal handler | what it lends to the decoder outlives it |
| Codecs, libcurl, PortAudio, ESP-IDF | outside the repository | | |

How they interact.  The user's thread starts and joins both workers.  The workers
and the user's thread communicate only through the event flags,
`detected_file_type` and the ring buffer.  The reader calls the HTTP client, which
polls `reader_cancelled()` while it connects.  The decoder calls the listener's
`on_stream_info()` and `on_audio_write()`; `loop()`, on the user's thread, calls
`on_state_change()`, which may call any public method again.  In the host player
the listener hands the PCM on to PortAudio's callback thread, and the user's thread
drains and stops it.

What is hard to test in this code is listed, line by line, under `hazards` in
`PROJECT.json`, each with the properties that guard it or the reason why none does.

## Modules

The modules form seven groups.  The core treats what lies below it as units; each
of the others models a part in bytes, bits or responses, with the rest of the
program as its environment.

| Module | Models |
|---|---|
| `PlaybackState` | the state that `DecoderSource::Impl` shares between the threads, the locals of the two workers, the stack of the user's calls; the type invariant |
| `ReaderThread` | the steps of the reader thread, with `AudioReader::start_url` and `run` in chunks |
| `DecoderThread` | the steps of the decoder thread, with `AudioDecoder::start`, `decode` and `release_acquired` in chunks |
| `DecoderSource` | the public API as the user's thread runs it, composed with the two workers; the properties |
| `PlaybackLifecycle` | the abstract promise: what the listener may be told of a playback, and must be |
| `MCDecoderSource`, `DecoderSourceProofs`, `DecoderOutcomeProofs` | the instances for TLC; the inductive invariants and the theorems, first on memory and flags, then on what becomes of a playback |
| `EventGroup` | the abstract promise of the event flags: a FreeRTOS event group, which is what the ESP-IDF build wraps |
| `EventFlags` | the host's class: bits, mutex, condition variable; implements `EventGroup` |
| `MCEventFlags`, `EventFlagsProofs` | its instance for TLC; its inductive invariant, theorems and refinement |
| `ByteStream` | the abstract promise of the ring: a bounded first-in first-out stream of bytes, read through a borrowed view |
| `SpscRingBuffer` | the host's byte ring, method by method under its mutex, with sleeping and waking; implements `ByteStream` |
| `MCSpscRingBuffer`, `SpscRingBufferProofs` | its instance for TLC; its inductive invariant, theorems and refinement |
| `TransferBuffer` | the staging buffer of reader and decoder, as functions on its three numbers |
| `FileTypeDetection` | `detect_audio_file_type()` as functions on texts of lexemes |
| `AudioReader` | `start_url()` and `run()` in bytes, on top of these two |
| `AudioDecoder` | `decode()`, the five codec adapters and the output buffer in bytes |
| `Pipeline`, `MCPipeline`, `PipelineProofs` | reader and decoder on their threads with the ring between them; the properties; the instance for TLC; the inductive invariant and the theorems |
| `HostHttpClient`, `MCHostHttpClient`, `HostHttpClientProofs` | the libcurl client: `open()`, `read()`, `close()` and both callbacks, over one download; its instance and its proofs |
| `EspHttpClient`, `MCEspHttpClient`, `EspHttpClientProofs` | the ESP-IDF client: `open()` with retries, redirects and cancellation, `read()`, `is_complete()`, `close()`; its instance and its proofs |
| `PortAudioSink`, `MCPortAudioSink`, `PortAudioSinkProofs` | the host player's listener between decoder thread, callback thread and user's thread; its instance and its proofs |
| `BasicPlayer` | the host player's `main()` on top of `PlaybackLifecycle` |

How they compose.  `DecoderSource` EXTENDS the two workers, and `Pipeline` EXTENDS
`AudioDecoder`, which EXTENDS `AudioReader`.  `BasicPlayer` uses a `DecoderSource`
through its abstract specification, which `RefinesLifecycle` checks.  What `EventFlags`
assumes of its callers, that nobody clears a bit another thread waits for, is
`WaitedBitsStay` of the core; what `SpscRingBuffer` assumes of its owner is
`RingHeldWhileInUse`.

### The core: state and steps

A step of a worker contains at most one access to state that another thread
uses: one `event_flags.set`, `get` or `wait`, one store or load of
`detected_file_type`, or one call into the ring buffer.  Local computation around
it belongs to the same step.  `rd_pc` and `dc_pc` name the next step; `"none"`
means there is no thread to join, `"done"` that the thread function returned.

A call of the user's thread is a sequence of steps too, because the workers run
in between: `op` and `op_pc` are the `stop()`, `play_url()`, `play_buffer()` or
destructor in progress.  `loop()` can be entered again from a callback, so its
calls form a stack: `depth`, and for each call its step `frame_pc` and its local
`flags` (`frame_flags`).  A frame at `"drained"`, `"playing"` or `"ended"` has a
callback of the listener on top of it, and there the user is in control and may
make any call (`UserInControl`).  The destructor is only called outside
callbacks.

Data is abstracted to what the properties tell apart.  A chunk stands for what
one `AudioReader::run()` reads and what one call of a codec consumes; a chunk in
`ring_data` is the number of the playback that downloaded it.  `dc_output` is 1
while the output buffer holds PCM.  The HTTP client and the codecs may answer
anything at any time, MORE_TO_PROCESS without having consumed anything included;
only liveness assumes that they do not do so for ever (below).  That a URL cannot be
opened covers every reason, a cancellation among them.  `initialized_` and `persistent_ring_buffer` are chosen
initially and never change.

`plays`, `session` and `reports` are history variables: the number of the
current playback, what became of it in the decoder thread, and the transitions
`loop()` has made for it.

### The byte ring

`storage_`, `write_offset_`, `read_offset_`, `free_bytes_` and `acquired_len_` are
the members of the class; `created` is whether there is storage.  All that a method
does under `mtx_` is one step.  A thread in `write()` or `receive_acquire()` has a
`pc`: it holds the mutex next (`"call"`, `"woken"`, `"expired"`) or is `"asleep"` on
its condition variable.  `prod_data`, `prod_written` and `view` are the argument and
the result of `write()` and the pointer that `receive_acquire()` returned.  The
owner creates and destroys the ring while neither thread is in it, which
`RingHeldWhileInUse` shows of the core.  The refinement maps the unread bytes and
the bytes seen through the view, read out of `storage_`, to the abstract stream.

### The event flags

A thread in `wait()` is about to lock the mutex (`"call"`), `"asleep"`, or woken
(`"woken"`, `"expired"`) and about to lock it again; everything under the mutex is
one step.  Any thread may set or clear bits at any time, but clear none that
another thread waits for.  `due` is a history variable: the wait was satisfied at
some time of its call.  `EventGroup` says that such a wait returns and reports what
it waited for, and that any other only returns when its time is over.

### The pipeline in bytes

`request` is the Content-Type, the URL and the build of the instance; texts are
sequences of lexemes, among them ones that only resemble a MIME type.  The
bytes of the body are numbered: `written` is the sequence of those that went into
the ring, `released` how many were given back, `view` the outstanding view,
`acquired_data_` the position the decoder points at, `fed` what the codec consumed.
`transfer_buffer_` and `out` hold offset, length and capacity of the two transfer
buffers.  `pc` is the step of `decode()` that comes next; each makes at most one call
into the ring, the listener or the codec.  An answer of a codec is an action
(`Decodes`, `NeedsMore`, `HeaderReady`, `OutputTooSmall`, `EndOfStream`, `Error`,
`AllocationFails`) that says for which types the adapter knows it and what the
adapter and the tail of the loop do with it.  With the in-memory source there is
no reader, and all input is there.  The stop command ends the loop around `decode()`
from outside; that is in the core.

### The HTTP clients

`HostHttpClient` runs on the reader thread only; libcurl calls back from within
`curl_multi_perform()` and `curl_easy_pause()`, so the actions `Curl...` are enabled
only while `pc` is inside one of these (`InCurl`).  A body byte is its position; a
response is its class and its Content-Type.  `EspHttpClient` counts time in cycles
of connect and fetch, which is what the budget in `platform/http_client.h` is
expressed in, and counts the library's handles and the chunks of the body; the
connection may break or be closed at any time.  Whether `set_redirection()` finds a
new location does not depend on the status: a 2xx with a Location is followed too.

### The host player

In `PortAudioSink` a step is one access to what the threads share: one atomic
position, `abort_write_`, the look at the predicate under the mutex, falling asleep,
one notification.  The callback and `close_stream()` notify without the mutex, so a
notification can fall between the predicate and the sleep (`"testing"`).  A byte
in `buffer_` is the playback and its position in it; `heard` is what the device was
given.  `stop()` may come at any time except while the decoder thread opens the
stream, since `stream_` is a plain pointer; the player calls it after
`decoder.stop()`.  In `BasicPlayer`, `file_data` is the vector the file was read into.

Operators whose comment begins with "Fault:" are deliberate errors, each a
plausible slip in the definition that follows it.  No specification uses them;
they show that the properties notice.

## Properties

Checked by the run `core_safety` (`DecoderSourceSafety.cfg`):

* `RingHeldWhileInUse`: the ring buffer exists while a thread can touch it.
* `OnlyThisPlaybacksBytes`: what is in it then was downloaded for this playback.
* `DecodesTheStreamsType`: a URL is decoded as the type its own reader found.
* `FinishedMeansDrained`: FINISHED implies that all input was decoded (or the
  codec saw its end), all PCM delivered, and that the reader had no error.
* `NoStaleNotification`: no notification of an earlier playback is pending
  while a playback has threads.
* `NoStrayStop`: a stop command is set only while a call waits for the threads.
* `OutcomeNotLost`: STARTED, FINISHED and FAILED are in the flags, or in the
  hands of a `loop()` call, until they are reported, however deep loops nest.

Checked by `core_liveness` (`DecoderSourceLive.cfg`), under `FairSpec`:

* `StopReturns`: every `stop()`, `play_*()` and destructor returns, provided the
  codec advances (`CodecAdvances`, below).
* `ReaderFollowsDecoder`: once the decoder thread is gone the reader ends.
* `RefinesLifecycle`: the system implements `PlaybackLifecycle!FairSpec` with
  `state <- decoder_state`.  A playback begins in IDLE; `loop()` makes it PLAYING,
  then IDLE or FAILED, each at most once and only when true, and what is due is
  reported unless the playback is halted.  The history variables make the
  mapping the identity on the rest.

Checked by `event_flags` (`EventFlags.cfg`):

* `NoMissedWakeup`: nobody sleeps whose bits are set.
* `ImplementsEventGroup`: the host's flags implement `EventGroup!FairSpec`, with
  the mutex as the only fairness.

Checked by `byte_ring` (`SpscRingBuffer.cfg`):

* `NoMissedWakeup`: nobody sleeps while what it waits for is there.
* `ViewIsStable`: no byte of a view changes until it is released.
* `ImplementsByteStream`: the ring implements `ByteStream!Spec`.
* `CallsReturn`: every `write()` and `receive_acquire()` returns.

Checked by `pipeline` (`Pipeline.cfg`):

* `TypeAsDocumented`: in every build, a URL is played as the type that its
  Content-Type names, else as that of its extension, or not at all, by the table
  in `docs/INTEGRATION.md`.
* `WrittenInOrder`: the reader hands on the body as it came, whatever the ring
  takes of each write.
* `FedInOrder`: the codec reads every byte once and in order, over the ends of
  views and of the ring, and only consumed bytes are given back.
* `RoomForCodec`: a codec is called only with the room it asked for, and never
  waits for room the buffer cannot have.
* `FinishedMeansPlayed`: FINISHED implies that the sink has all the PCM and the
  codec all that the server sent, or has announced its end, and that the download
  did not break.
* `PlaybackEnds`: the playback ends, except in the state `Overlong` (below).

Checked by `host_http` (`HostHttpClient.cfg`):

* `BytesInOrder`: pauses, compaction and partial reads neither lose nor repeat
  nor reorder a byte.
* `NothingLostAtTheEnd`: a complete transfer reported as finished was handed on
  to the last byte.
* `FinalResponseOnly`: nothing of a redirect or an interim response is reported.
* `DownloadEnds`: a download ends; a paused transfer is resumed.

Checked by `esp_open` (`EspHttpClient.cfg`):

* `HandleOwned`: no handle is leaked or freed twice, whatever fails when.
* `HeadersWithinBudget`: until the first headers, `open()` keeps its budget of
  cycles and asks in each whether it shall stop.
* `RetriedResponseOnly`: an attempt that timed out leaves no header behind.
* `ResultIsTrue`: finished means that the whole body was read, failed that the
  connection broke.
* `DownloadEnds`: `open()` returns and the download ends, unless the server
  closes the connection early (below).

Checked by `portaudio_sink` (`PortAudioSink.cfg`):

* `PlayedInOrder`: the device is given the PCM of the stream it was opened for,
  in order, none twice and none before it was stored.
* `TailPlayed`: when `drain()` has seen an empty ring, all of it was given.
* `WriteReturns`: `on_audio_write()` returns, though a notification can be lost:
  the next one, or the deadline, comes.

`TypeOK` of a module is checked in its run; for `EventFlags` and `SpscRingBuffer`,
where it is proved, and `OffsetsAgree` of the ring with it, only the proof remains.

### Fairness

In the core, weak fairness of each worker: whatever a worker waits for is bounded by a
timeout of the configuration, so it always takes a next step.  (The model gives
every wait a timeout; `reader_write_timeout_ms = UINT32_MAX`, which the host's ring
buffer takes as "forever", is outside this assumption.)  A step is not progress,
though: `decode()` calls a codec again at once whatever it answers with
MORE_TO_PROCESS, without a timed wait and without a look at the stop command.  Strong
fairness of `CodecAdvances` says that a codec called again and again does not for ever
ask to go on without consuming anything.  The codecs are external, so this is an
assumption; without it TLC finds `stop()` in `StopJoinDecoder` for ever, and the fairness
half of `RefinesLifecycle`, which needs `stop()` to return, rests on it too.
`ReaderFollowsDecoder` does not: it begins when the decoder is gone.  A codec that
goes on consuming comes to an end, since the reader, which does look at the stop
command, puts no more into the ring.  Weak fairness of
`CallStep`: the user's thread finishes a call it is in; its joins are only
enabled once the thread is done, so this assumes nothing of the workers.  Strong
fairness of `LoopCall` and `CallbackReturn`: the user "calls loop() regularly", as
the API requires, also between other calls, and callbacks return.  `stop()` and
`play_*()` carry no fairness; the user may never call them.

The byte ring: weak fairness of each thread's steps and of deadlines (the
standard library's waits return), and the decoder goes on reading, which is
what it does as long as it lives.  That a waiting thread wakes without a reason
is possible in the model and not assumed, so `CallsReturn` rests on the
notifications alone.

The event flags: a thread that wants the mutex gets it (weak fairness of `Locked`);
nothing is assumed of deadlines, of spurious wake-ups or of those who set bits.

The pipeline: weak fairness of both threads.  Strong fairness of the sink taking
something (`SinkTakes`) and of the codec consuming, failing or ending
(`CodecAdvances`): both are external, and a sink that never takes or a codec that
neither consumes nor complains makes the code wait for ever by design.  A codec
that only errs is not excluded; the code gives up on it.  The reader's weak
fairness includes that the HTTP client brings bytes or an end, which is what
`DownloadEnds` says of the two clients, but for the connection closed early.

The host's HTTP client: weak fairness of the reader thread, strong fairness of the
deadline of `open()` and of libcurl delivering or ending the body, which
`CURLOPT_LOW_SPEED_LIMIT` and `CURLOPT_LOW_SPEED_TIME` ensure while the transfer is
not paused, provided `http_timeout_ms` is at least 1000 (below, the time is
rounded to 0, which turns the detection off).  ESP-IDF: calls of the library return;
strong fairness of a chunk arriving while there is one and the connection is up, and
of the end of the body being noticed.

The sink: weak fairness of each thread, and strong fairness of the writer taking the
mutex, which others hold only for a moment.  A deadline need only pass when no
callback runs: `wait_until()` has an absolute deadline, so wake-ups do not put it off.

### Bounds

The core:

| Constant | Safety | Liveness | Why it is enough |
|---|---|---|---|
| `FileTypes` | 2 | 1 | a stale type must differ from the right one |
| `RingCapacity` | 2 | 1 | full, partly filled and empty |
| `BufferChunks` | 1 | 1 | the buffer is used up, or not |
| `MaxFailures` | 0 | 0 | the count reaches its limit; the code's limit is 10 |
| `MaxPlays` | 2 | 2 | all leaks are from one playback to the next |
| `MaxLoopDepth` | 2 | 1 | a callback that calls `loop()`; 1 for what only holds without |

`MaxPlays` and `MaxLoopDepth` bound the guards of `StopBegin` and `LoopCall`.  The
theorems hold for all values.  The safety instance is reduced by the symmetry of
the file types, which no definition tells apart.  The liveness instance takes
`persistent_ring_buffer = FALSE` (`LiveSpec`): the option decides on the contents of
the ring, not on who waits for whom.

The other groups:

| Constant | Value | Why it is enough |
|---|---|---|
| ring: `Size`, `Bytes` | 3, 2 | views that end at the wrap, full, empty; a byte that is overwritten may differ |
| ring: `MaxWrite`, `MaxAcquire` | 2, 2 | both less than the ring: partial writes and acquisitions at every offset |
| flags: `Threads`, `Bits` | 3, 4 | the reader's wait, the decoder's, and the two kinds of wait they do not use: for all bits, for ever; and clearing, without waiting |
| pipeline: `MaxBody`, `RingSize`, `TransferSize` | 4, 3, 2 | a stream longer than the ring, which is longer than a view and no multiple of it, so that writes are partial and views end at the wrap |
| pipeline: `RxBufferSize`, `DefaultRxBufferSize` | 0, 3 | the default applies, and the transfer buffer is the smaller |
| pipeline: `MinOutput`, `Required` | 3, {1, 3} | less and more than the output buffer, so that it is kept or grows |
| pipeline: `MaxFailures` | 1 | the count goes up, is reset, and is exceeded; the code's limit is 10 |
| pipeline: `Builds`, `ContentTypes`, `Urls` | 7, 13, 7 | all codecs, each left out, one alone; the rows of the documented table, with texts that only resemble them |
| host HTTP: `BufSize`, `MaxChunk`, `MaxRead`, `BodyLen` | 3, 2, 2, 6 | the buffer fills twice, with a remainder to compact |
| host HTTP: `MaxHops` | 2 | a redirect after an interim response, and the reverse |
| host HTTP: `ResumeChunks` | 1 | what `curl_easy_pause()` passes on by itself fits in the emptied buffer |
| ESP: `MaxAttempts`, `MaxRedirections` | 6, 5 | the code's own values |
| ESP: `MaxBody` | 2 | the connection ends before, within and after the body |
| sink: `Capacity`, `Requested`, `MaxPcm`, `MaxPlaybacks` | 3, 2, 4, 2 | the ring fills twice and wraps; the second playback meets what the first left |

`ResumeChunks` is a limit of what `host_http` shows: `read()` clears `paused_` after
`curl_easy_pause()`, and forgets a pause that the write callback asks for within that
call.  With as much as the buffer can hold, it never asks; with more it does, and the
pause is lost (below).  How much libcurl passes on is external.

Deadlock is checked in every run: the only states in which nothing happens are
those of a destroyed object, a closed client, an ended playback and a `main()` that
has returned (`Destroyed`, `Gone`, `Closed`, `Ended`, `Returned`).

## What the code does differently from its documentation

Four are runs whose property states the documentation and which TLC refutes.

* `spurious_idle`: a PLAYING callback that calls `play_url()` and then `loop()`
  makes the outer `pump_events()` set IDLE for the new playback, because
  `finished` is a local read before the callback.  `decoder_source.h` calls every
  method safe from `on_state_change()`.
* `broken_download`: a connection that breaks while `read()` drives curl, with no
  byte buffered, makes `read()` answer 0 and `is_complete()` true, and a truncated
  body is reported as finished.  `is_complete()` is documented as "all body data
  has been received and consumed".
* `esp_over_budget`: redirects after the last attempt take `open()` beyond the
  product of attempts and timeout that `platform/http_client.h` calls its worst
  case and that the decoder thread waits for.  `cancel_check()` is not asked between
  redirects either.
* `player_buffer`: the vector with the file's bytes is local to the block of
  `main()` that calls `play_buffer()`, and is destroyed while the decoder thread
  reads it.  `INTEGRATION.md` says that the buffer must remain valid until `stop()`
  returns or the decoder is destroyed.

Others are divergences that need no model to see, once they are known:

* `play_url()` and `play_buffer()` clear `pending_state_notification_`
  (`decoder_source.cpp:444`), so the deferred IDLE of the `stop()` they contain, or
  of an earlier one, is never reported.  `decoder_source.h:129-130` and
  `INTEGRATION.md:274` say that it fires on the next `loop()`, and `types.h:181-182`
  promises a callback on every transition.  `NoStaleNotification` is the other side of
  it: what the code gains by the clearing.
* `curl_write_callback()` says of a pause that `read()` will unpause after draining
  (`host/http_client.cpp:356`).  One that it asks for within `curl_easy_pause()` is
  forgotten by the `paused_ = false` that follows (line 227): the transfer stays paused
  and `read()` answers 0 until a stop.  With `ResumeChunks = 2` in `HostHttpClient.cfg`
  TLC refutes `DownloadEnds` in this way; whether libcurl ever passes on so much there
  is not in the repository, so no run claims it.
* A playback that ends by itself is reported IDLE and still holds its ring buffer
  until `stop()`; `INTEGRATION.md:149` says an idle `DecoderSource` holds none.
* In ESP-IDF's client the Content-Type of a redirect stays in `response_` when the
  final response has none (`esp/http_client.cpp:167`), and decides the file type;
  the host's client resets it.
* Without event flags `stop()` returns at once, so the FAILED that `play_*()` stored
  stays, where `decoder_source.h` says that the state is IDLE after `stop()`.
* When a Content-Type names a codec that is not compiled in, the extension still
  decides; `types.cpp:98-99` reads as if the type were settled.  `TypeAsDocumented`
  states what both the code and `INTEGRATION.md` do.

And two states in which the code stays until the user stops it, which the
liveness properties except by name:

* `Overlong` in `Pipeline`: the codec has announced the end of its stream, but the
  server sends more than ring and transfer buffer hold.  `end_of_file_` only counts
  once the reader is done, and the reader waits for space.  Whether a codec leaves
  the rest unread is not in the repository.
* ESP-IDF's `read()` answers 0 to a connection that the server closed before the
  end of the body, and `is_complete()` stays false.

## Proofs

`DecoderSourceProofs` proves, for every value of the constants that satisfies
`ConstantsAssumption` and with no other assumption, that `Spec` keeps `TypeOK`,
`RingHeldWhileInUse`, `OnlyThisPlaybacksBytes`, `NoStaleNotification` and
`NoStrayStop`, and satisfies `WaitedBitsStay` (`FlagsStay`).

None of these is inductive.  `IInv` adds

* `CallsOK`: which step belongs to which call, and that a `play_*()` call in
  progress has a playback left to count;
* `ThreadsOK`: which threads can exist at each step of a call.  After the joins
  there is none, so freeing the ring buffer, clearing the flags and storing a
  notification disturb nobody; without event flags there never is one;
* `DecodeOK`: what the decoder holds at each of its steps, so that releasing a
  chunk removes one that is there and the failure count stays in range;
* `RingOK`: the two ring invariants, extended to the steps between the start of
  the reader and the start of the decoder, when the reader may already be gone
  and the decoder is not yet there.

`InitEstablishes` and `StepPreserves` are the two halves of the induction, the
second from one lemma for each thread and for the user's calls, with one step
for each action.  `IInv` was checked with TLC on the safety instance before it was
proved.

`SpscRingBufferProofs` proves, for every size of the ring, every set of bytes and
every length of a write or a view, that `Spec` keeps `TypeOK`, `OffsetsAgree` and
`NoMissedWakeup`, satisfies `ViewIsStable`, and implements `ByteStream`
(`Refinement`).  The assumption is `RingAssumption`: the sizes are positive.  The
invariant is the conjunction of the three and of which calls can be in progress
with a ring that is gone.  All arithmetic modulo the size goes through one lemma,
`WrapOnce`: an offset is wrapped at most once.  For the refinement, `WriteMissesUnread`
says that a write touches no unread byte, and `WriteAppends` that what is unread
afterwards is what was unread before and the bytes taken.

`EventFlagsProofs` proves, for all sets of threads, bits and waits that satisfy
`RequestsAssumption` (a wait that clears its bits has them to itself), that `Spec`
keeps `TypeOK` and `NoMissedWakeup` and implements `EventGroup!Spec` (`Refinement`).
The invariant adds `DueIsPred`: a wait is due exactly while its predicate holds.
Because nobody clears a bit that another thread waits for, what was satisfied once
stays so, and the late look at the bits is as good as one in the instant of
`set()`.  `Refinement` is the safety half of
`ImplementsEventGroup`; the fairness half is model-checked.

`DecoderOutcomeProofs` proves, on top of `IInv` and from the same assumption, that
`Spec` keeps `DecodesTheStreamsType`, `FinishedMeansDrained` and `OutcomeNotLost`,
and, where callbacks do not call `loop()` (`MaxLoopDepth = 1`), implements
`PlaybackLifecycle!Spec` (`LifecycleRefinement`).

* The first two follow from `PInv`: a READY flag means that the type in
  `detected_file_type` is the one of the reader at hand, a reader gives one verdict
  and gives it last, the decoder's copy of the flags is never ahead of the flags, and
  what made `decode()` drained stays so until the decoder is gone.
* `OutcomeNotLost` needs `UInv`: only the innermost `loop()` can be outside a callback
  (`FramesOK`); what is on its way to the user, set or read by that `loop()`, is of
  this playback (`SignalsOK`); `decoder_state` is the last state reported, or IDLE
  (`StateOK`); what happened and was not reported is on its way, an end also when any
  `loop()` on the stack has still to act on it (`ReportDue`); and the innermost
  `loop()` has the start in hand, or nobody has left it set (`StartReadFirst`).
* The refinement adds `LInv`, which only holds without nesting: until an end is
  reported nothing but PLAYING was (`ReportOrder`), the `loop()` that has read an end
  is the only one with it (`ReadOnce`), and the one that will report IDLE does so for
  the playback that has finished (`EndsThisPlayback`).  The counterexample of
  `spurious_idle` is what the last one forbids, and why the theorem has
  `MaxLoopDepth = 1`; nested calls break the order of the reports, not their
  arrival, for which there is no such restriction.

`PipelineProofs` proves, for every size of ring and buffers, every build, every length
of the stream, every demand of a codec and every limit of failures
(`PipelineAssumption`), that `Spec` keeps `TypeOK`, `WrittenInOrder`, `FedInOrder`,
`FinishedMeansPlayed` and `RoomForCodec`.  `PipeInv` has a part for each owner of state:
`ReaderInv` (what was downloaded is written or staged, and the staged bytes end
within the storage), `ViewInv` (a view begins where the codec has read to and ends
within what has arrived), `RoomInv` and `ControlInv` (`stop_gracefully` is only set
when the reader is done, which stays true).  Each thread's steps are proved to keep its
own part, and one lemma for each says what they leave of the other's
(`ReaderKeepsTheRest`, `DecoderKeepsReader`).

`HostHttpClientProofs` proves, for every size of buffer, chunk, body and read and every
number of responses (`ClientAssumption`), that `Spec` keeps `TypeOK`, `BytesInOrder`,
`NothingLostAtTheEnd` and `FinalResponseOnly`.  `HInv` numbers the bytes in the buffer
(`ByteInv`), says how many lines of which response are in `response_` (`HeaderInv`), and
what `headers_ready_`, `transfer_done_` and `error_` imply of libcurl (`EndInv`).

`EspHttpClientProofs` proves, for every number of attempts, redirects and chunks
(`BudgetAssumption`), that `Spec` keeps `TypeOK`, `HandleOwned`, `HeadersWithinBudget`,
`RetriedResponseOnly` and `ResultIsTrue`.  `EInv` counts: each cycle is an attempt or a
redirect (`CycleInv`), which is also why the budget without redirects is kept and the
one of `esp_over_budget` is not.

`PortAudioSinkProofs` proves, for every capacity of the ring, every size of a callback
and every number of playbacks (`SinkAssumption`), that `Spec` keeps `TypeOK`,
`PlayedInOrder` and `TailPlayed`.  Writer and callback each compute with a position of
the other that may be old.  `LoadedInv` says that, while the stream is open, an old
position only makes them see less space or fewer bytes than there are; `RingInv` which
byte each slot holds; `CloseInv` that positions are reset only after the stream
was closed, and that the writer opens it again before it loads any.  The arithmetic
modulo the capacity is in two lemmas, `ReadMoves` and `WriteMoves`.

Each of these invariants was also checked with TLC on the instance of its module, those
of the core with a ring of one chunk and with one `loop()` call and two.

Only model-checked:

* everything under fairness: `StopReturns`, `ReaderFollowsDecoder`, `CallsReturn`,
  both `DownloadEnds`, `PlaybackEnds`, `WriteReturns`, and the fairness halves of
  `RefinesLifecycle` and `ImplementsEventGroup` (`ByteStream` has none).  Liveness and
  ENABLED are outside the prover's reach;
* `TypeAsDocumented`: it compares `detect_audio_file_type()` with the rows of the
  documented table, which are constants of the instance.  What is proved of the
  function for every text is that it finds a known type or none (`DetectsAType`);
* the four runs that refute a statement of the documentation.

## Plan

Modelled: every part of the program with state of its own.  Proved: every safety
invariant that a run checks, the action properties of the core and of the byte ring,
and the safety half of the three refinements.  Still to do:

1. for the core with nested `loop()` calls, the weaker lifecycle that does hold there,
   stated as a specification and refined for every `MaxLoopDepth`;
2. that the core's chunks are an abstraction of the bytes of `Pipeline`: what
   `FinishedMeansDrained` assumes of `AudioDecoder` is what `FinishedMeansPlayed` shows,
   which so far is only said here;
3. the same for the clients: what `ReadBytes` and `ReadEnds` of `AudioReader` allow is
   what the two HTTP clients do, as a refinement.

## Not modelled

* Logging, the build files and the benchmark example keep no protocol state.
* The codecs, libcurl, PortAudio and ESP-IDF are not in the repository and appear
  only as what they may answer.  The ESP-IDF build's ring buffer is a wrapper of
  FreeRTOS's; only its partial write has logic of its own, and that depends on what
  FreeRTOS counts as waiting.
* The arithmetic of timeouts (`decoder_source.cpp:291`, `host/http_client.cpp:128`):
  one expression each, listed under the hazards.
* The esp_pthread configuration in `PlatformThread::start()`, and the moves of
  `PlatformBuffer`, which nothing uses.
* PCM samples and stream formats: no property tells them apart.  In `PortAudioSink`
  the ring counts bytes and not frames; after an underrun in the middle of a frame
  the device continues in the middle of one, in the code as in the model.
