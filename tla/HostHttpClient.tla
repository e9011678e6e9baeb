---------------------------- MODULE HostHttpClient ----------------------------
(***************************************************************************)
(* The host's HTTP client (src/src/host/http_client.cpp) as AudioReader    *)
(* uses it (src/src/audio_reader.cpp): one download, from open() to        *)
(* close(), all on the reader thread.  libcurl calls back only from within *)
(* curl_multi_perform() and curl_easy_pause(); the variables curl_... and  *)
(* the actions Curl... are libcurl and the server, which are external.     *)
(*                                                                         *)
(* A body byte is its position in the body.  A status is its class: an     *)
(* interim response, a redirect that curl follows, a redirect without a    *)
(* usable Location, success, or an error.                                  *)
(***************************************************************************)
EXTENDS Integers, Sequences

CONSTANTS BufSize,       \* CURL_BUFFER_SIZE
          MaxChunk,      \* the longest piece libcurl passes to the callback
          BodyLen,       \* bound: the length of the body
          MaxRead,       \* the most AudioReader asks for
          MaxHops,       \* bound: responses before the final one
          Types, NoType, \* values of Content-Type, and none
          ResumeChunks   \* pieces curl_easy_pause() may pass on by itself

ASSUME ClientAssumption ==
  /\ {BufSize, MaxChunk, MaxRead, ResumeChunks} \subseteq Nat \ {0}
  /\ MaxChunk <= BufSize
  /\ {BodyLen, MaxHops} \subseteq Nat
  /\ NoType \notin Types

Response(statuses) == [status : statuses, type : Types \cup {NoType}]
Followed == {"interim", "redirect"}

VARIABLES
  script,          \* the responses the server gives, the final one last
  cancel,          \* what cancel_check() answers
  curl_at,         \* the response curl is at; beyond the last: the body
  curl_lines,      \* header lines of it still to come
  curl_sent,       \* body bytes the write callback has accepted
  curl_held,       \* the length of the piece it has refused
  curl_paused,
  curl_resumed,    \* pieces passed on by the curl_easy_pause() in progress
  curl_done,       \* how the transfer ended
  pc,              \* where the reader thread is
  headers_ready_, location_seen_, transfer_done_, error_, paused_,
  response_,
  buf, buf_read_,  \* the bytes up to buf_write_; the position of the first unread
  delivered,       \* body bytes read() has returned
  last,            \* what the last read() returned
  outcome          \* what AudioReader made of the download

curlVars == <<curl_at, curl_lines, curl_sent, curl_held, curl_paused,
              curl_resumed, curl_done>>
headerVars == <<headers_ready_, location_seen_, response_>>
bodyVars == <<paused_, buf, buf_read_, delivered, last>>
endVars == <<transfer_done_, error_>>
vars == <<script, cancel, curlVars, pc, headerVars, bodyVars, endVars, outcome>>

NoResponse == [status |-> "none", type |-> NoType]
Final == script[Len(script)]
InBody == curl_at > Len(script)
Unread == SubSeq(buf, buf_read_ + 1, Len(buf))

TypeOK ==
  /\ script \in Seq(Response(Followed \cup {"unfollowable", "ok", "error"}))
  /\ {cancel, curl_paused, headers_ready_, location_seen_, transfer_done_,
      error_, paused_} \subseteq BOOLEAN
  /\ curl_at \in 1..(Len(script) + 1)
  /\ curl_lines \subseteq {"status", "type", "location"}
  /\ {curl_sent, delivered} \subseteq 0..BodyLen
  /\ curl_held \in 0..MaxChunk
  /\ curl_resumed \in 0..ResumeChunks
  /\ curl_done \in {"no", "ok", "error"}
  /\ pc \in {"connect", "performing", "opened", "resuming", "reading", "gone"}
  /\ response_ \in Response(Followed \cup {"none", "unfollowable", "ok", "error"})
  /\ buf \in Seq(1..BodyLen) /\ Len(buf) <= BufSize
  /\ buf_read_ \in 0..Len(buf)
  /\ last \in {"none", "data", "nothing", "error"}
  /\ outcome \in {"none", "refused", "finished", "failed", "stopped"}

LinesOf(response) ==
  {"status"} \cup (IF response.type = NoType THEN {} ELSE {"type"})
             \cup (IF response.status = "redirect" THEN {"location"} ELSE {})

(* open() has reset the client and handed the request to curl.             *)
Init ==
  /\ \E n \in 0..MaxHops : \E hops \in [1..n -> Response(Followed)],
       final \in Response({"unfollowable", "ok", "error"}) :
         script = Append(hops, final)
  /\ cancel = FALSE
  /\ curl_at = 1 /\ curl_lines = LinesOf(script[1])
  /\ curl_sent = 0 /\ curl_held = 0 /\ curl_paused = FALSE /\ curl_resumed = 0
  /\ curl_done = "no"
  /\ pc = "connect"
  /\ headers_ready_ = FALSE /\ location_seen_ = FALSE /\ response_ = NoResponse
  /\ transfer_done_ = FALSE /\ error_ = FALSE /\ paused_ = FALSE
  /\ buf = <<>> /\ buf_read_ = 0 /\ delivered = 0 /\ last = "none"
  /\ outcome = "none"

-----------------------------------------------------------------------------
(* libcurl and the server, within a call of the client.                    *)

InCurl == pc \in {"performing", "reading"} /\ curl_done = "no"

(* Fault: a redirect's headers are left for the response that follows.     *)
StatusLineKeepsHop ==
  /\ response_' = [response_ EXCEPT !.status = script[curl_at].status]
  /\ location_seen_' = FALSE

(* curl_header_callback() for a status line: a new response begins.        *)
StatusLine ==
  /\ response_' = [NoResponse EXCEPT !.status = script[curl_at].status]
  /\ location_seen_' = FALSE

(* The other header lines that matter.                                     *)
HeaderLine(line) ==
  /\ response_' = IF line = "type"
                  THEN [response_ EXCEPT !.type = script[curl_at].type]
                  ELSE response_
  /\ location_seen_' = (location_seen_ \/ line = "location")

CurlHeader ==
  /\ InCurl
  /\ \E line \in curl_lines :
       /\ "status" \in curl_lines => line = "status"
       /\ curl_lines' = curl_lines \ {line}
       /\ IF line = "status" THEN StatusLine ELSE HeaderLine(line)
  /\ UNCHANGED <<script, cancel, curl_at, curl_sent, curl_held, curl_paused,
                 curl_resumed, curl_done, pc, headers_ready_, bodyVars,
                 endVars, outcome>>

(* Whether curl goes on with another response.                             *)
Continues ==
  \/ response_.status = "interim"
  \/ response_.status \in {"redirect", "unfollowable"} /\ location_seen_

CurlHeadersEnd ==
  /\ InCurl /\ ~InBody /\ curl_lines = {}
  /\ headers_ready_' = (headers_ready_ \/ ~Continues)
  /\ curl_at' = curl_at + 1
  /\ curl_lines' = IF curl_at < Len(script) THEN LinesOf(script[curl_at + 1])
                   ELSE {}
  /\ UNCHANGED <<script, cancel, curl_sent, curl_held, curl_paused,
                 curl_resumed, curl_done, pc, location_seen_, response_,
                 bodyVars, endVars, outcome>>

(* Fault: what fits of a piece is taken, and the whole piece acknowledged. *)
WriteCallbackCuts(n) ==
  /\ buf' = buf \o [i \in 1..(IF n > BufSize - Len(buf) THEN BufSize - Len(buf)
                              ELSE n) |-> curl_sent + i]
  /\ curl_sent' = curl_sent + n
  /\ curl_held' = 0
  /\ UNCHANGED <<paused_, curl_paused>>

(* Fault: the room left is not looked at.                                  *)
WriteCallbackOverruns(n) ==
  /\ buf' = buf \o [i \in 1..n |-> curl_sent + i]
  /\ curl_sent' = curl_sent + n
  /\ curl_held' = 0
  /\ UNCHANGED <<paused_, curl_paused>>

(* curl_write_callback(): take the whole piece or pause the transfer.      *)
WriteCallback(n) ==
  IF n > BufSize - Len(buf)
  THEN /\ paused_' = TRUE
       /\ curl_paused' = TRUE /\ curl_held' = n
       /\ UNCHANGED <<buf, curl_sent>>
  ELSE /\ buf' = buf \o [i \in 1..n |-> curl_sent + i]
       /\ curl_sent' = curl_sent + n /\ curl_held' = 0
       /\ UNCHANGED <<paused_, curl_paused>>

(* A piece of the body, the one refused before if there is one.            *)
CurlBody ==
  /\ \/ InCurl /\ UNCHANGED curl_resumed
     \/ /\ pc = "resuming" /\ curl_resumed < ResumeChunks
        /\ curl_resumed' = curl_resumed + 1
  /\ InBody /\ ~curl_paused
  /\ \E n \in 1..MaxChunk :
       /\ n <= BodyLen - curl_sent
       /\ curl_held # 0 => n = curl_held
       /\ WriteCallback(n)
  /\ UNCHANGED <<script, cancel, curl_at, curl_lines, curl_done, pc,
                 headerVars, buf_read_, delivered, last, endVars, outcome>>

CurlEnds ==
  /\ InCurl /\ ~curl_paused
  /\ \/ InBody /\ curl_sent = BodyLen /\ curl_done' = "ok"
     \/ curl_done' = "error"
  /\ UNCHANGED <<script, cancel, curl_at, curl_lines, curl_sent, curl_held,
                 curl_paused, curl_resumed, pc, headerVars, bodyVars, endVars,
                 outcome>>

CancelRequested ==
  /\ cancel' = TRUE
  /\ UNCHANGED <<script, curlVars, pc, headerVars, bodyVars, endVars, outcome>>

-----------------------------------------------------------------------------
(* open() from its loop on, and close().                                   *)

Close(why) ==
  /\ pc' = "gone"
  /\ outcome' = why
  /\ buf' = <<>> /\ buf_read_' = 0
  /\ headers_ready_' = FALSE /\ location_seen_' = FALSE
  /\ transfer_done_' = FALSE /\ error_' = FALSE /\ paused_' = FALSE
  /\ response_' = NoResponse
  /\ UNCHANGED <<script, cancel, curlVars, delivered, last>>

Enter(step) ==
  /\ pc' = step
  /\ UNCHANGED <<script, cancel, curlVars, headerVars, bodyVars, endVars,
                 outcome>>

Waiting == pc = "connect" /\ ~headers_ready_ /\ ~transfer_done_

(* The deadline has passed, or the caller asks to stop.                    *)
OpenGivesUp == Waiting /\ Close("refused")

OpenPerforms == Waiting /\ ~cancel /\ Enter("performing")

(* pump_messages(): learn that the transfer is over.                       *)
PumpMessages ==
  /\ transfer_done_' = (transfer_done_ \/ curl_done # "no")
  /\ error_' = (error_ \/ curl_done = "error")
  /\ headers_ready_' = (headers_ready_ \/ curl_done # "no")

OpenPerformed ==
  /\ pc = "performing"
  /\ pc' = "connect"
  /\ PumpMessages
  /\ UNCHANGED <<script, cancel, curlVars, location_seen_, response_, bodyVars,
                 outcome>>

OpenFails ==
  /\ pc = "connect" /\ ~Waiting
  /\ error_ \/ response_.status # "ok"
  /\ Close("refused")

OpenSucceeds ==
  /\ pc = "connect" /\ ~Waiting
  /\ ~error_ /\ response_.status = "ok"
  /\ Enter("opened")

-----------------------------------------------------------------------------
(* read(), and what AudioReader::run() does with the answer.               *)

(* Some of the unread bytes, bytes being what the buffer holds after       *)
(* maybe_compact() and the transfer.                                       *)
Deliver(bytes) ==
  \E most \in 1..MaxRead :
    LET n == IF Len(bytes) < most THEN Len(bytes) ELSE most
    IN  /\ buf' = bytes
        /\ buf_read_' = n
        /\ delivered' = delivered + n
        /\ last' = IF n > 0 THEN "data" ELSE "nothing"

ReadError ==
  /\ pc = "opened" /\ error_
  /\ last' = "error"
  /\ UNCHANGED <<script, cancel, curlVars, pc, headerVars, paused_, buf,
                 buf_read_, delivered, endVars, outcome>>

(* Buffered bytes come first; when the transfer is over there is no more.  *)
ReadBuffered ==
  /\ pc = "opened" /\ ~error_
  /\ Unread # <<>> \/ transfer_done_
  /\ Deliver(Unread)
  /\ UNCHANGED <<script, cancel, curlVars, pc, headerVars, paused_, endVars,
                 outcome>>

ReadDrivesCurl == pc = "opened" /\ ~error_ /\ Unread = <<>> /\ ~transfer_done_

(* maybe_compact() with nothing unread.                                    *)
Emptied == buf' = <<>> /\ buf_read_' = 0

(* Fault: a paused transfer is not resumed.                                *)
ReadNeverResumes ==
  /\ ReadDrivesCurl
  /\ pc' = "reading"
  /\ Emptied
  /\ UNCHANGED <<script, cancel, curlVars, headerVars, paused_, delivered,
                 last, endVars, outcome>>

ReadPerforms ==
  /\ ReadDrivesCurl
  /\ Emptied
  /\ pc' = IF paused_ THEN "resuming" ELSE "reading"
  /\ curl_paused' = (curl_paused /\ ~paused_)
  /\ curl_resumed' = 0
  /\ UNCHANGED <<script, cancel, curl_at, curl_lines, curl_sent, curl_held,
                 curl_done, headerVars, paused_, delivered, last, endVars,
                 outcome>>

(* curl_easy_pause() returns, and only then is the flag cleared.           *)
ReadResumed ==
  /\ pc = "resuming"
  /\ pc' = "reading"
  /\ paused_' = FALSE
  /\ UNCHANGED <<script, cancel, curlVars, headerVars, buf, buf_read_,
                 delivered, last, endVars, outcome>>

ReadPerformed ==
  /\ pc = "reading"
  /\ pc' = "opened"
  /\ PumpMessages
  /\ Deliver(buf)
  /\ UNCHANGED <<script, cancel, curlVars, location_seen_, response_, paused_,
                 outcome>>

IsComplete == transfer_done_ /\ buf_read_ >= Len(buf)

ReaderFinishes ==
  /\ pc = "opened" /\ last = "nothing" /\ IsComplete
  /\ Close("finished")

ReaderFails == pc = "opened" /\ last = "error" /\ Close("failed")

ReaderStops == pc = "opened" /\ cancel /\ Close("stopped")

(* AudioReader reads on unless the last answer ended the download.         *)
MayRead == last # "error" /\ ~(last = "nothing" /\ IsComplete)

-----------------------------------------------------------------------------
Curl == CurlHeader \/ CurlHeadersEnd \/ CurlBody \/ CurlEnds

ClientStep ==
  \/ OpenGivesUp \/ OpenPerforms \/ OpenPerformed \/ OpenFails \/ OpenSucceeds
  \/ MayRead /\ (ReadError \/ ReadBuffered \/ ReadPerforms)
  \/ ReadResumed \/ ReadPerformed
  \/ ReaderFinishes \/ ReaderFails \/ ReaderStops

(* The client is closed, which is the end of it.                           *)
Gone == pc = "gone" /\ UNCHANGED vars

Next == ClientStep \/ Curl \/ (cancel = FALSE /\ CancelRequested) \/ Gone

Spec == Init /\ [][Next]_vars

(* Calls into curl return, the reader reads on, and the deadline of open() *)
(* passes.  Unless it is paused, a transfer goes on or is ended by curl's  *)
(* stall detection (CURLOPT_LOW_SPEED_TIME).                               *)
FairSpec ==
  /\ Spec
  /\ WF_vars(ClientStep)
  /\ SF_vars(OpenGivesUp)
  /\ SF_vars(CurlBody \/ CurlEnds)

-----------------------------------------------------------------------------
(* Whatever was paused, compacted or read in part, the unread bytes are    *)
(* those after the delivered ones and before the ones not accepted yet.    *)
BytesInOrder ==
  pc # "gone" => Unread = [i \in 1..(curl_sent - delivered) |-> delivered + i]

(* A complete transfer that AudioReader reports as finished was handed on  *)
(* to the last byte.                                                       *)
NothingLostAtTheEnd ==
  outcome = "finished" /\ curl_done = "ok" => delivered = BodyLen

(* What open() reports is of the final response, nothing of the interim    *)
(* responses and redirects before it.                                      *)
FinalResponseOnly == pc = "opened" => response_ = Final

(* Every download ends: a transfer that was paused is resumed when the     *)
(* buffer is empty.  What libcurl then passes on within curl_easy_pause()  *)
(* must fit in the buffer: ReadResumed forgets a pause made meanwhile.     *)
DownloadEnds == <>(pc = "gone")

(* http_client.cpp, is_complete(): "true when all body data has been       *)
(* received and consumed".  A broken transfer is not reported as finished. *)
BrokenIsNotFinished == outcome = "finished" => delivered = BodyLen
=============================================================================
