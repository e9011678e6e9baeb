----------------------------- MODULE EspHttpClient -----------------------------
(***************************************************************************)
(* EspHttpClient (src/src/esp/http_client.cpp): open(), and read() with    *)
(* is_complete() as AudioReader calls them, run by the reader thread while *)
(* the user may ask to stop.  What the esp_http_client library and the     *)
(* server answer is external and arbitrary; the library's handles are      *)
(* counted, and so are the chunks of the body.                             *)
(*                                                                         *)
(* Time is counted in cycles: one esp_http_client_open() with the          *)
(* fetch_headers() that follows, which connect_timeout_ms bounds.          *)
(***************************************************************************)
EXTENDS Integers

CONSTANTS MaxAttempts,       \* HTTP_MAX_CONNECT_ATTEMPTS
          MaxRedirections,   \* MAX_REDIRECTIONS
          Types, NoType,     \* values of Content-Type, and none
          MaxBody            \* bound: the chunks of a body

ASSUME BudgetAssumption ==
  /\ MaxAttempts \in Nat \ {0}
  /\ MaxRedirections \in Nat
  /\ NoType \notin Types
  /\ MaxBody \in Nat

VARIABLES
  pc,
  client_,         \* whether client_ is not nullptr
  attempts, redirect_count,
  header_len,      \* fetch_headers(): headers, EAGAIN, or another error
  status,          \* the class of the response's status: 2xx, or not
  location,        \* whether set_redirection() finds a new location
  content_type,    \* response_.content_type
  given,           \* the Content-Type of the response at hand
  cancel,          \* what cancel_check() answers
  handles,         \* library handles alive
  cycles,          \* cycles spent by this open()
  unpolled,        \* cycles since it began or cancel_check() was last called
  complete_,
  body,            \* chunks of the body, and how many were read
  received,
  link,            \* the connection: up, broken, or closed by the server
  result           \* what AudioReader reported at the end, if it did

counters == <<attempts, redirect_count>>
response == <<header_len, status, location, content_type, given>>
clock == <<cycles, unpolled>>
openVars == <<client_, counters, response, handles, clock>>
readVars == <<complete_, body, received, link, result>>
vars == <<pc, openVars, cancel, readVars>>

MaybeTypes == Types \cup {NoType}

TypeOK ==
  /\ pc \in {"init", "connect", "fetch", "fetched", "opened", "empty",
             "closed"}
  /\ {client_, location, cancel, complete_} \subseteq BOOLEAN
  /\ attempts \in 1..MaxAttempts
  /\ redirect_count \in 0..MaxRedirections
  /\ header_len \in {"none", "some", "again", "error"}
  /\ status \in {"none", "ok", "error"}
  /\ {content_type, given} \subseteq MaybeTypes
  /\ handles \in 0..1
  /\ {cycles, unpolled} \subseteq 0..(MaxAttempts + MaxRedirections)
  /\ {body, received} \subseteq 0..MaxBody
  /\ link \in {"up", "broken", "closed"}
  /\ result \in {"none", "FINISHED", "FAILED"}

(* Fault: the first fetch is not counted as an attempt.                    *)
FirstAttemptFree == 0

FirstAttempt == 1

(* open() has closed what was open before.                                 *)
Init ==
  /\ pc = "init" /\ client_ = FALSE /\ handles = 0
  /\ attempts = FirstAttempt /\ redirect_count = 0
  /\ header_len = "none" /\ status = "none" /\ location = FALSE
  /\ content_type = NoType /\ given = NoType
  /\ cancel = FALSE
  /\ cycles = 0 /\ unpolled = 0
  /\ complete_ = FALSE /\ received = 0 /\ body \in 0..MaxBody
  /\ link = "up" /\ result = "none"

-----------------------------------------------------------------------------
Cleanup ==
  /\ client_' = FALSE
  /\ handles' = IF client_ THEN handles - 1 ELSE handles

Refuse ==
  /\ pc' = "closed"
  /\ Cleanup
  /\ UNCHANGED <<counters, response, cancel>>

(* esp_http_client_init(), which may fail.                                 *)
InitHandle ==
  /\ pc = "init"
  /\ \/ pc' = "connect" /\ client_' = TRUE /\ handles' = handles + 1
     \/ pc' = "closed" /\ UNCHANGED <<client_, handles>>
  /\ UNCHANGED <<counters, response, cancel, clock>>

(* esp_http_client_open() begins a cycle; it may fail.                     *)
Connect ==
  /\ pc = "connect"
  /\ cycles' = cycles + 1 /\ unpolled' = unpolled + 1
  /\ \/ /\ pc' = "fetch"
        /\ UNCHANGED <<client_, handles, counters, response, cancel>>
     \/ Refuse

(* fetch_headers(): http_event_handler() stores a Content-Type if there is *)
(* one, which may have come before a timeout too.  The library notes a     *)
(* Location, whatever the status.                                          *)
Fetch ==
  /\ pc = "fetch"
  /\ pc' = "fetched"
  /\ header_len' \in {"some", "again", "error"}
  /\ status' \in {"ok", "error"}
  /\ location' \in BOOLEAN
  /\ given' \in MaybeTypes
  /\ content_type' = IF given' = NoType THEN content_type ELSE given'
  /\ UNCHANGED <<client_, counters, cancel, handles, clock>>

(* The first loop tries again; the second, after a redirect, does not.     *)
MayRetry ==
  /\ pc = "fetched" /\ header_len = "again"
  /\ redirect_count = 0 /\ attempts < MaxAttempts

(* No headers, and no other attempt, or the caller asks to stop.           *)
GiveUp ==
  /\ pc = "fetched" /\ header_len # "some"
  /\ MayRetry => cancel
  /\ Refuse
  /\ UNCHANGED clock

(* Fault: the handle that timed out is not freed.                          *)
RetryKeepsHandle ==
  /\ MayRetry /\ ~cancel
  /\ pc' = "init"
  /\ client_' = FALSE
  /\ attempts' = attempts + 1
  /\ unpolled' = 0
  /\ content_type' = NoType
  /\ UNCHANGED <<redirect_count, header_len, status, location, given, cancel,
                 handles, cycles>>

(* Fault: what a failed attempt reported is kept.                          *)
RetryKeepsResponse ==
  /\ MayRetry /\ ~cancel
  /\ pc' = "init"
  /\ Cleanup
  /\ attempts' = attempts + 1
  /\ unpolled' = 0
  /\ UNCHANGED <<redirect_count, response, cancel, cycles>>

(* Fault: the retry is not counted.                                        *)
RetryUncounted ==
  /\ MayRetry /\ ~cancel
  /\ pc' = "init"
  /\ Cleanup
  /\ cycles' = 0 /\ unpolled' = 0
  /\ content_type' = NoType
  /\ UNCHANGED <<counters, header_len, status, location, given, cancel>>

(* EAGAIN: ask cancel_check(), then start again from a fresh handle.       *)
Retry ==
  /\ MayRetry /\ ~cancel
  /\ pc' = "init"
  /\ Cleanup
  /\ attempts' = attempts + 1
  /\ unpolled' = 0
  /\ content_type' = NoType
  /\ UNCHANGED <<redirect_count, header_len, status, location, given, cancel,
                 cycles>>

(* Fault: MAX_REDIRECTIONS is not looked at.                               *)
FollowRedirectAlways ==
  /\ pc = "fetched" /\ header_len = "some"
  /\ location
  /\ pc' = "connect"
  /\ redirect_count' = redirect_count + 1
  /\ UNCHANGED <<client_, attempts, response, cancel, handles, clock>>

(* set_redirection() succeeds: connect to the new location.                *)
FollowRedirect ==
  /\ pc = "fetched" /\ header_len = "some"
  /\ location /\ redirect_count < MaxRedirections
  /\ pc' = "connect"
  /\ redirect_count' = redirect_count + 1
  /\ UNCHANGED <<client_, attempts, response, cancel, handles, clock>>

(* No new location, or one too many: the status decides.                   *)
LastResponse ==
  /\ pc = "fetched" /\ header_len = "some"
  /\ location => redirect_count = MaxRedirections

Succeed ==
  /\ LastResponse /\ status = "ok"
  /\ pc' = "opened"
  /\ UNCHANGED <<client_, counters, response, cancel, handles, clock>>

BadStatus ==
  /\ LastResponse /\ status = "error"
  /\ Refuse
  /\ UNCHANGED clock

Open ==
  /\ \/ InitHandle \/ Connect \/ Fetch \/ GiveUp \/ Retry \/ FollowRedirect
     \/ Succeed \/ BadStatus
  /\ UNCHANGED readVars

-----------------------------------------------------------------------------
(* The reader thread looks for a stop command between two calls of run().  *)
MayRead == pc = "opened" /\ ~cancel

(* read(): esp_http_client_read() brings a chunk.                          *)
ReadChunk ==
  /\ MayRead /\ link = "up" /\ received < body
  /\ received' = received + 1
  /\ UNCHANGED <<pc, openVars, cancel, complete_, body, link, result>>

(* Fault: an answer of nothing is taken for the end of the body.           *)
ReadNothingEnds ==
  /\ MayRead /\ link # "broken"
  /\ pc' = "empty" /\ complete_' = TRUE
  /\ UNCHANGED <<openVars, cancel, body, received, link, result>>

(* EAGAIN, the end of the body, or a connection that the server closed     *)
(* before: read() answers 0 to all three.                                  *)
ReadNothing ==
  /\ MayRead /\ link # "broken"
  /\ pc' = "empty" /\ complete_' \in {FALSE, received = body}
  /\ UNCHANGED <<openVars, cancel, body, received, link, result>>

(* read() answers -1.                                                      *)
ReadFails ==
  /\ MayRead /\ link = "broken"
  /\ result' = "FAILED"
  /\ Refuse
  /\ UNCHANGED <<clock, complete_, body, received, link>>

(* is_complete() is FALSE, and AudioReader reads again later.              *)
Idle ==
  /\ pc = "empty" /\ ~complete_
  /\ pc' = "opened"
  /\ UNCHANGED <<openVars, cancel, readVars>>

Completes ==
  /\ pc = "empty" /\ complete_
  /\ result' = "FINISHED"
  /\ Refuse
  /\ UNCHANGED <<clock, complete_, body, received, link>>

Read == ReadChunk \/ ReadNothing \/ ReadFails \/ Idle \/ Completes

Close ==
  /\ pc = "opened" /\ cancel
  /\ Refuse
  /\ UNCHANGED <<clock, readVars>>

CancelRequested ==
  /\ ~cancel
  /\ cancel' = TRUE
  /\ UNCHANGED <<pc, openVars, readVars>>

ConnectionEnds ==
  /\ pc \in {"opened", "empty"} /\ link = "up"
  /\ link' \in {"broken", "closed"}
  /\ UNCHANGED <<pc, openVars, cancel, complete_, body, received, result>>

Closed == pc = "closed" /\ UNCHANGED vars

Next == Open \/ Read \/ Close \/ CancelRequested \/ ConnectionEnds \/ Closed

Spec == Init /\ [][Next]_vars

(* Every call of the library returns.  The server sends on, or its         *)
(* connection ends, and the end of the body is seen.                       *)
Fairness ==
  /\ WF_vars(Open)
  /\ WF_vars(Read)
  /\ SF_vars(ReadChunk)
  /\ SF_vars(ReadNothing /\ complete_')
  /\ WF_vars(Close)

FairSpec == Spec /\ Fairness

-----------------------------------------------------------------------------
(* Retries, redirects, refusals and failures of the library in any order   *)
(* neither leak a handle nor free one twice.                               *)
HandleOwned == handles = IF client_ THEN 1 ELSE 0

(* Until the first headers, open() keeps the budget of MaxAttempts cycles, *)
(* and asks whether to stop once in each.                                  *)
HeadersWithinBudget ==
  redirect_count = 0 => cycles <= MaxAttempts /\ unpolled <= 1

(* Without redirects, the Content-Type is that of the response at hand,    *)
(* and not of an attempt that timed out.                                   *)
RetriedResponseOnly ==
  pc = "opened" /\ redirect_count = 0 => content_type = given

(* A download is reported finished when the whole body was read, and       *)
(* failed when the connection broke, never because nothing came for a      *)
(* while.                                                                  *)
ResultIsTrue ==
  /\ result = "FINISHED" => received = body
  /\ result = "FAILED" => link = "broken"

(* open() returns and the download ends, whatever the server does, unless  *)
(* it closes the connection early: read() answers 0 for ever then, and     *)
(* only a stop command helps.                                              *)
DownloadEnds ==
  <>[](pc = "closed" \/ (link = "closed" /\ received < body /\ ~cancel))

(* http_client.h: "connect_timeout_ms bounds one cycle, so the worst case  *)
(* open() blocks for is the product of the two", the other one being       *)
(* HTTP_MAX_CONNECT_ATTEMPTS.                                              *)
OpenWithinBudget == cycles <= MaxAttempts
=============================================================================
