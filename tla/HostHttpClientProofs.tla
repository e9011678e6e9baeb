------------------------- MODULE HostHttpClientProofs -------------------------
(***************************************************************************)
(* The safety of HostHttpClient for every size of its buffer, of the       *)
(* pieces, of the body and of the reads, and for every number of responses *)
(* before the final one (src/src/host/http_client.cpp).  The invariant     *)
(* says where each byte of the buffer comes from, how much of the headers  *)
(* at hand response_ holds, and what the end of a transfer implies.        *)
(***************************************************************************)
EXTENDS HostHttpClient, SequenceTheorems, TLAPS

Statuses == Followed \cup {"unfollowable", "ok", "error"}

(* TypeOK in parts, with inequalities for the ranges.                      *)
ScriptInv ==
  /\ script \in Seq(Response(Statuses))
  /\ Len(script) >= 1
  /\ \A i \in 1..Len(script) : i < Len(script) => script[i].status \in Followed

FlagInv ==
  /\ cancel \in BOOLEAN /\ curl_paused \in BOOLEAN
  /\ headers_ready_ \in BOOLEAN /\ location_seen_ \in BOOLEAN
  /\ transfer_done_ \in BOOLEAN /\ error_ \in BOOLEAN /\ paused_ \in BOOLEAN
  /\ curl_done \in {"no", "ok", "error"}
  /\ pc \in {"connect", "performing", "opened", "resuming", "reading", "gone"}
  /\ last \in {"none", "data", "nothing", "error"}
  /\ outcome \in {"none", "refused", "finished", "failed", "stopped"}

CurlInv ==
  /\ curl_at \in Nat /\ 1 <= curl_at /\ curl_at <= Len(script) + 1
  /\ curl_lines \subseteq {"status", "type", "location"}
  /\ response_ \in Response(Statuses \cup {"none"})
  /\ curl_held \in Nat /\ curl_held <= MaxChunk
  /\ curl_resumed \in Nat /\ curl_resumed <= ResumeChunks

(* The buffer holds the bytes up to the last one accepted, and buf_read_   *)
(* of them were delivered.                                                 *)
ByteInv ==
  /\ buf \in Seq(1..BodyLen) /\ Len(buf) <= BufSize
  /\ curl_sent \in Nat /\ curl_sent <= BodyLen
  /\ delivered \in Nat /\ delivered <= curl_sent
  /\ buf_read_ \in Nat /\ buf_read_ <= Len(buf)
  /\ pc # "gone" =>
       /\ buf_read_ <= delivered
       /\ curl_sent = delivered - buf_read_ + Len(buf)
       /\ \A i \in 1..Len(buf) : buf[i] = delivered - buf_read_ + i
  /\ pc = "gone" => buf = <<>> /\ buf_read_ = 0
  /\ pc \in {"resuming", "reading"} => buf_read_ = 0

(* What response_ holds of the response that curl is at.                   *)
HeaderInv ==
  pc # "gone" =>
    /\ ~InBody /\ "status" \in curl_lines =>
         curl_lines = LinesOf(script[curl_at])
    /\ ~InBody /\ "status" \notin curl_lines =>
         /\ response_.status = script[curl_at].status
         /\ "type" \in curl_lines \/ response_.type = script[curl_at].type
         /\ script[curl_at].status = "redirect" =>
              "location" \in curl_lines \/ location_seen_
    /\ InBody => curl_lines = {} /\ response_ = Final

(* headers_ready_ means the final headers, or the failure of the transfer, *)
(* and so does transfer_done_.                                             *)
EndInv ==
  /\ curl_done = "ok" => InBody /\ curl_sent = BodyLen
  /\ error_ => curl_done = "error"
  /\ transfer_done_ => curl_done # "no"
  /\ transfer_done_ /\ curl_done = "error" => error_
  /\ pc \notin {"connect", "performing", "gone"} => InBody
  /\ headers_ready_ => InBody \/ error_
  /\ outcome # "none" => pc = "gone"
  /\ NothingLostAtTheEnd

HInv ==
  ScriptInv /\ FlagInv /\ CurlInv /\ ByteInv /\ HeaderInv /\ EndInv

(* The sizes and bounds of the assumption, one by one.                     *)
LEMMA Sizes ==
  /\ BufSize \in Nat \ {0} /\ MaxChunk \in Nat \ {0} /\ MaxChunk <= BufSize
  /\ MaxRead \in Nat \ {0} /\ ResumeChunks \in Nat \ {0}
  /\ BodyLen \in Nat /\ MaxHops \in Nat
  BY ClientAssumption DEF ClientAssumption

(* The bytes that the write callback appends.                              *)
LEMMA PieceProperties ==
  ASSUME NEW from \in Nat, NEW n \in Nat, BodyLen \in Nat,
         from + n <= BodyLen, NEW s \in Seq(1..BodyLen),
         NEW piece \in [1..n -> Nat], \A i \in 1..n : piece[i] = from + i
  PROVE  /\ s \o piece \in Seq(1..BodyLen)
         /\ Len(s \o piece) = Len(s) + n
         /\ \A i \in 1..(Len(s) + n) :
              (s \o piece)[i] = IF i <= Len(s) THEN s[i] ELSE from + (i - Len(s))
<1>1. piece \in Seq(1..BodyLen) /\ Len(piece) = n
  <2>1. piece \in [1..n -> 1..BodyLen]
    OBVIOUS
  <2> QED
    BY <2>1
<1>2. /\ s \o piece \in Seq(1..BodyLen)
      /\ Len(s \o piece) = Len(s) + Len(piece)
  BY <1>1, ConcatProperties
<1>3. Len(s) \in Nat
  BY LenProperties
<1>4. ASSUME NEW i \in 1..(Len(s) + n)
      PROVE  (s \o piece)[i] = IF i <= Len(s) THEN s[i] ELSE from + (i - Len(s))
  <2>1. (s \o piece)[i] = IF i <= Len(s) THEN s[i] ELSE piece[i - Len(s)]
    BY <1>1, <1>3, ConcatProperties
  <2>2. i > Len(s) => i - Len(s) \in 1..n
    BY <1>3
  <2> QED
    BY <1>3, <2>1, <2>2
<1> QED
  BY <1>1, <1>2, <1>4

(* The unread bytes of the buffer.                                         *)
LEMMA UnreadProperties ==
  ASSUME ByteInv, ClientAssumption
  PROVE  /\ Unread \in Seq(1..BodyLen)
         /\ Len(Unread) = Len(buf) - buf_read_
         /\ \A i \in 1..(Len(buf) - buf_read_) :
              Unread[i] = buf[buf_read_ + i]
<1>1. buf \in Seq(1..BodyLen) /\ buf_read_ \in Nat /\ buf_read_ <= Len(buf)
      /\ Len(buf) \in Nat
  BY LenProperties DEF ByteInv
<1>2. buf_read_ + 1 \in 1..(Len(buf) + 1) /\ Len(buf) \in buf_read_..Len(buf)
  BY <1>1
<1> QED
  BY <1>1, <1>2, SubSeqProperties DEF Unread

(* Before open() the buffer is empty, and curl is at the first response.   *)
LEMMA HInit == Init => HInv
<1> USE ClientAssumption DEF ClientAssumption
<1> SUFFICES ASSUME Init PROVE HInv
  OBVIOUS
<1>1. ScriptInv
  <2>1. PICK n \in 0..MaxHops : \E hops \in [1..n -> Response(Followed)],
          final \in Response({"unfollowable", "ok", "error"}) :
            script = Append(hops, final)
    BY DEF Init
  <2>2. PICK hops \in [1..n -> Response(Followed)],
             final \in Response({"unfollowable", "ok", "error"}) :
          script = Append(hops, final)
    BY <2>1
  <2>3. hops \in Seq(Response(Statuses)) /\ Len(hops) = n
    <3>1. Response(Followed) \subseteq Response(Statuses)
      BY DEF Response, Statuses
    <3>2. hops \in [1..n -> Response(Statuses)]
      BY <3>1
    <3> QED
      BY <3>2
  <2>4. final \in Response(Statuses)
    BY DEF Response, Statuses
  <2>5. \A i \in 1..n : hops[i].status \in Followed
    BY DEF Response
  <2> QED
    BY <2>2, <2>3, <2>4, <2>5, AppendProperties DEF ScriptInv
<1>2. FlagInv
  BY DEF Init, FlagInv
<1>3. CurlInv
  BY <1>1 DEF Init, CurlInv, ScriptInv, LinesOf, NoResponse, Response
<1>4. ByteInv
  BY DEF Init, ByteInv
<1>5. HeaderInv
  BY <1>1 DEF Init, ScriptInv, HeaderInv, InBody, LinesOf
<1>6. EndInv
  BY DEF Init, EndInv, NothingLostAtTheEnd
<1> QED
  BY <1>1, <1>2, <1>3, <1>4, <1>5, <1>6 DEF HInv

(* What libcurl does within a call.                                        *)
LEMMA CurlKeepsHInv == HInv /\ Curl => HInv'
<1> USE DEF curlVars, headerVars, bodyVars, endVars
<1> SUFFICES ASSUME HInv, Curl PROVE HInv'
  OBVIOUS
<1>1. ScriptInv /\ FlagInv /\ CurlInv /\ ByteInv /\ HeaderInv /\ EndInv
  BY DEF HInv
<1>s. /\ BufSize \in Nat /\ MaxChunk \in Nat /\ BodyLen \in Nat
      /\ ResumeChunks \in Nat
  BY Sizes
<1>2. ScriptInv'
  BY <1>1 DEF Curl, CurlHeader, CurlHeadersEnd, CurlBody, CurlEnds, ScriptInv
<1>3. CASE CurlHeader
  <2>1. PICK line \in curl_lines :
          /\ "status" \in curl_lines => line = "status"
          /\ curl_lines' = curl_lines \ {line}
          /\ IF line = "status" THEN StatusLine ELSE HeaderLine(line)
    BY <1>3 DEF CurlHeader
  <2>2. /\ pc # "gone" /\ curl_done = "no"
        /\ UNCHANGED <<script, cancel, curl_at, curl_sent, curl_held,
             curl_paused, curl_resumed, curl_done, pc, headers_ready_, bodyVars,
             endVars, outcome>>
    BY <1>3 DEF CurlHeader, InCurl
  <2>3. ~InBody /\ curl_at \in 1..Len(script)
        /\ script[curl_at] \in Response(Statuses)
    BY <1>1, <1>s, <2>1, <2>2 DEF HeaderInv, InBody, CurlInv, ScriptInv
  <2>4. response_' \in Response(Statuses \cup {"none"})
        /\ location_seen_' \in BOOLEAN
    BY <1>1, <1>s, <2>1, <2>3
       DEF StatusLine, HeaderLine, CurlInv, FlagInv, Response, NoResponse
  <2>5. FlagInv' /\ CurlInv'
    BY <1>1, <1>s, <2>1, <2>2, <2>4 DEF FlagInv, CurlInv
  <2>6. ByteInv'
    BY <1>1, <1>s, <2>2 DEF ByteInv
  <2>7. HeaderInv'
    <3>1. CASE line = "status"
      BY <1>1, <1>s, <2>1, <2>2, <2>3, <3>1
         DEF HeaderInv, InBody, StatusLine, LinesOf, Response, NoResponse
    <3>2. CASE line # "status"
      BY <1>1, <1>s, <2>1, <2>2, <2>3, <3>2
         DEF HeaderInv, InBody, HeaderLine, Response, CurlInv
    <3> QED
      BY <3>1, <3>2
  <2>8. EndInv'
    BY <1>1, <1>s, <2>2 DEF EndInv, InBody, NothingLostAtTheEnd
  <2> QED
    BY <1>2, <2>5, <2>6, <2>7, <2>8 DEF HInv
<1>4. CASE CurlHeadersEnd
  <2>1. /\ pc # "gone" /\ curl_done = "no" /\ ~InBody /\ curl_lines = {}
        /\ headers_ready_' = (headers_ready_ \/ ~Continues)
        /\ curl_at' = curl_at + 1
        /\ curl_lines' = IF curl_at < Len(script)
                         THEN LinesOf(script[curl_at + 1]) ELSE {}
        /\ UNCHANGED <<script, cancel, curl_sent, curl_held, curl_paused,
             curl_resumed, curl_done, pc, location_seen_, response_, bodyVars,
             endVars, outcome>>
    BY <1>4 DEF CurlHeadersEnd, InCurl
  <2>2. curl_at \in 1..Len(script) /\ Len(script) \in Nat
    BY <1>1, <1>s, <2>1, LenProperties DEF InBody, CurlInv, ScriptInv
  <2>3. /\ response_.status = script[curl_at].status
        /\ response_.type = script[curl_at].type
        /\ script[curl_at].status = "redirect" => location_seen_
    BY <1>1, <1>s, <2>1 DEF HeaderInv
  <2>4. response_ = script[curl_at]
    <3>1. \A r, q \in Response(Statuses \cup {"none"}) :
            r.status = q.status /\ r.type = q.type => r = q
      BY DEF Response
    <3>2. script[curl_at] \in Response(Statuses \cup {"none"})
      <4>1. script[curl_at] \in Response(Statuses)
        BY <1>1, <1>s, <2>2 DEF ScriptInv
      <4> QED
        BY <4>1 DEF Response
    <3> QED
      BY <1>1, <1>s, <2>3, <3>1, <3>2 DEF CurlInv
  <2>5. curl_at < Len(script) => Continues
    BY <1>1, <1>s, <2>2, <2>3 DEF ScriptInv, Followed, Continues
  <2>6. FlagInv'
    BY <1>1, <1>s, <2>1 DEF FlagInv
  <2>7. CurlInv'
    BY <1>1, <1>s, <2>1, <2>2 DEF CurlInv, LinesOf
  <2>8. ByteInv'
    BY <1>1, <1>s, <2>1 DEF ByteInv
  <2>9. HeaderInv'
    BY <2>1, <2>2, <2>4 DEF HeaderInv, InBody, Final, LinesOf
  <2>10. EndInv'
    <3>1. ~headers_ready_ /\ ~error_
          /\ pc \in {"connect", "performing", "gone"}
      BY <1>1, <1>s, <2>1 DEF EndInv
    <3>2. headers_ready_' => ~Continues
      BY <2>1, <3>1
    <3>3. headers_ready_' => InBody'
      BY <2>1, <2>2, <2>5, <3>2 DEF InBody
    <3> QED
      BY <1>1, <1>s, <2>1, <3>1, <3>3 DEF EndInv, NothingLostAtTheEnd
  <2> QED
    BY <1>2, <2>6, <2>7, <2>8, <2>9, <2>10 DEF HInv
<1>5. CASE CurlBody
  <2>1. PICK n \in 1..MaxChunk :
          /\ n <= BodyLen - curl_sent /\ (curl_held # 0 => n = curl_held)
          /\ WriteCallback(n)
    BY <1>5 DEF CurlBody
  <2>2. /\ pc \in {"performing", "reading", "resuming"} /\ InBody
        /\ \/ curl_resumed' = curl_resumed
           \/ curl_resumed < ResumeChunks /\ curl_resumed' = curl_resumed + 1
        /\ UNCHANGED <<script, cancel, curl_at, curl_lines, curl_done, pc,
             headerVars, buf_read_, delivered, last, endVars, outcome>>
    BY <1>5 DEF CurlBody, InCurl
  <2>3. FlagInv' /\ CurlInv'
    <3>1. FlagInv'
      <4>1. curl_paused' \in BOOLEAN /\ paused_' \in BOOLEAN
        BY <1>1, <1>s, <2>1 DEF FlagInv, WriteCallback
      <4> QED
        BY <1>1, <1>s, <2>2, <4>1 DEF FlagInv
    <3>2. curl_held' \in Nat /\ curl_held' <= MaxChunk
      BY <1>1, <1>s, <2>1, <2>2 DEF WriteCallback
    <3>3. curl_resumed' \in Nat /\ curl_resumed' <= ResumeChunks
      BY <1>1, <1>s, <2>2 DEF CurlInv
    <3> QED
      BY <1>1, <1>s, <2>2, <3>1, <3>2, <3>3 DEF CurlInv
  <2>4. HeaderInv'
    BY <1>1, <1>s, <2>2 DEF HeaderInv, InBody, Final
  <2>5. curl_sent' \in {curl_sent, curl_sent + n}
    BY <2>1 DEF WriteCallback
  <2>6. EndInv'
    BY <1>1, <1>s, <2>1, <2>2, <2>5 DEF EndInv, ByteInv, InBody, NothingLostAtTheEnd
  <2>7. CASE n > BufSize - Len(buf)
    BY <1>1, <1>s, <1>2, <2>1, <2>2, <2>3, <2>4, <2>6, <2>7
       DEF ByteInv, WriteCallback, HInv
  <2>8. CASE ~(n > BufSize - Len(buf))
    <3>1. /\ buf' = buf \o [i \in 1..n |-> curl_sent + i]
          /\ curl_sent' = curl_sent + n
      BY <2>1, <2>8 DEF WriteCallback
    <3>2. n \in Nat /\ curl_sent \in Nat /\ curl_sent + n <= BodyLen
          /\ buf \in Seq(1..BodyLen) /\ BodyLen \in Nat /\ Len(buf) \in Nat
      BY <1>1, <1>s, <2>1, LenProperties DEF ByteInv
    <3>3. /\ buf' \in Seq(1..BodyLen) /\ Len(buf') = Len(buf) + n
          /\ \A i \in 1..(Len(buf) + n) :
               buf'[i] = IF i <= Len(buf) THEN buf[i]
                         ELSE curl_sent + (i - Len(buf))
      <4> DEFINE piece == [i \in 1..n |-> curl_sent + i]
      <4>1. piece \in [1..n -> Nat] /\ \A i \in 1..n : piece[i] = curl_sent + i
        BY <3>2
      <4>2. buf' = buf \o piece
        BY <3>1
      <4> HIDE DEF piece
      <4>3. n \in Nat /\ piece \in [1..n -> Nat]
        BY <3>2, <4>1
      <4>4. /\ buf \o piece \in Seq(1..BodyLen)
            /\ Len(buf \o piece) = Len(buf) + n
            /\ \A i \in 1..(Len(buf) + n) :
                 (buf \o piece)[i] = IF i <= Len(buf) THEN buf[i]
                                    ELSE curl_sent + (i - Len(buf))
        BY <3>2, <4>1, <4>3, PieceProperties
      <4> QED
        BY <4>2, <4>4
    <3>4. Len(buf') <= BufSize
      BY <1>s, <2>1, <2>8, <3>2, <3>3
    <3>5. ASSUME NEW i \in 1..(Len(buf) + n)
          PROVE  buf'[i] = delivered - buf_read_ + i
      <4>1. /\ curl_sent = delivered - buf_read_ + Len(buf)
            /\ \A j \in 1..Len(buf) : buf[j] = delivered - buf_read_ + j
            /\ delivered \in Nat /\ buf_read_ \in Nat
        BY <1>1, <1>s, <2>2 DEF ByteInv
      <4>2. CASE i <= Len(buf)
        <5>1. buf'[i] = buf[i] /\ i \in 1..Len(buf)
          BY <3>2, <3>3, <4>2
        <5> QED
          BY <4>1, <5>1
      <4>3. CASE ~(i <= Len(buf))
        <5>1. buf'[i] = curl_sent + (i - Len(buf))
          BY <3>3, <4>3
        <5> QED
          BY <3>2, <4>1, <5>1
      <4> QED
        BY <4>2, <4>3
    <3>6. ByteInv'
      <4>1. /\ curl_sent' \in Nat /\ curl_sent' <= BodyLen
            /\ delivered' \in Nat /\ delivered' <= curl_sent'
            /\ buf_read_' \in Nat /\ buf_read_' <= Len(buf')
        BY <1>1, <1>s, <2>2, <3>1, <3>2, <3>3 DEF ByteInv
      <4>2. /\ buf_read_' <= delivered'
            /\ curl_sent' = delivered' - buf_read_' + Len(buf')
            /\ pc' # "gone" /\ (pc' \in {"resuming", "reading"} => buf_read_' = 0)
        <5>1. /\ pc # "gone" /\ buf_read_ <= delivered
              /\ curl_sent = delivered - buf_read_ + Len(buf)
              /\ delivered \in Nat /\ buf_read_ \in Nat
              /\ pc \in {"resuming", "reading"} => buf_read_ = 0
          BY <1>1, <2>2 DEF ByteInv
        <5> QED
          BY <2>2, <3>1, <3>2, <3>3, <5>1
      <4>3. \A i \in 1..Len(buf') : buf'[i] = delivered' - buf_read_' + i
        BY <2>2, <3>3, <3>5
      <4> QED
        BY <3>3, <3>4, <4>1, <4>2, <4>3 DEF ByteInv
    <3> QED
      BY <1>2, <2>3, <2>4, <2>6, <3>6 DEF HInv
  <2> QED
    BY <2>7, <2>8
<1>6. CASE CurlEnds
  <2>1. /\ pc # "gone" /\ curl_done = "no"
        /\ \/ InBody /\ curl_sent = BodyLen /\ curl_done' = "ok"
           \/ curl_done' = "error"
        /\ UNCHANGED <<script, cancel, curl_at, curl_lines, curl_sent,
             curl_held, curl_paused, curl_resumed, pc, headerVars, bodyVars,
             endVars, outcome>>
    BY <1>6 DEF CurlEnds, InCurl
  <2>2. FlagInv' /\ CurlInv' /\ ByteInv'
    BY <1>1, <1>s, <2>1 DEF FlagInv, CurlInv, ByteInv
  <2>3. HeaderInv'
    BY <1>1, <1>s, <2>1 DEF HeaderInv, InBody, Final
  <2>4. EndInv'
    BY <1>1, <1>s, <2>1 DEF EndInv, InBody, NothingLostAtTheEnd
  <2> QED
    BY <1>2, <2>2, <2>3, <2>4 DEF HInv
<1> QED
  BY <1>3, <1>4, <1>5, <1>6 DEF Curl

(* read() hands on the first n bytes of what the buffer holds.             *)
LEMMA DeliverKeepsBytes ==
  ASSUME ByteInv, NEW n \in Nat, n <= Len(buf'),
         buf' \in Seq(1..BodyLen), Len(buf') <= BufSize,
         \A i \in 1..Len(buf') : buf'[i] = delivered + i,
         curl_sent = delivered + Len(buf'),
         buf_read_' = n, delivered' = delivered + n,
         curl_sent' = curl_sent, pc' = "opened"
  PROVE  ByteInv'
<1>1. /\ Len(buf') \in Nat /\ delivered \in Nat /\ curl_sent \in Nat
      /\ curl_sent <= BodyLen
  BY LenProperties DEF ByteInv
<1>2. \A i \in 1..Len(buf') : buf'[i] = delivered' - buf_read_' + i
  BY <1>1
<1>3. /\ delivered' \in Nat /\ delivered' <= curl_sent'
      /\ buf_read_' \in Nat /\ buf_read_' <= Len(buf')
      /\ buf_read_' <= delivered'
      /\ curl_sent' = delivered' - buf_read_' + Len(buf')
  BY <1>1
<1> QED
  BY <1>1, <1>2, <1>3 DEF ByteInv

(* The steps of the reader thread.                                         *)
LEMMA ClientKeepsHInv == HInv /\ ClientStep => HInv'
<1> USE DEF curlVars, headerVars, bodyVars, endVars
<1> SUFFICES ASSUME HInv, ClientStep PROVE HInv'
  OBVIOUS
<1>1. ScriptInv /\ FlagInv /\ CurlInv /\ ByteInv /\ HeaderInv /\ EndInv
  BY DEF HInv
<1>2. /\ BufSize \in Nat /\ BodyLen \in Nat /\ MaxRead \in Nat
      /\ ResumeChunks \in Nat
  BY Sizes
<1>3. UNCHANGED script
  BY DEF ClientStep, OpenGivesUp, OpenPerforms, OpenPerformed, OpenFails,
     OpenSucceeds, ReadError, ReadBuffered, ReadPerforms, ReadResumed,
     ReadPerformed, ReaderFinishes, ReaderFails, ReaderStops, Close, Enter
<1>4. ScriptInv'
  BY <1>1, <1>3 DEF ScriptInv
<1>5. ASSUME NEW why \in {"refused", "finished", "failed", "stopped"},
             Close(why),
             why = "finished" => pc = "opened" /\ last = "nothing" /\ IsComplete
      PROVE  HInv'
  <2>1. FlagInv'
    BY <1>1, <1>5 DEF FlagInv, Close
  <2>2. CurlInv'
    BY <1>1, <1>3, <1>5 DEF CurlInv, Close, NoResponse, Response
  <2>3. ByteInv'
    BY <1>1, <1>2, <1>5 DEF ByteInv, Close
  <2>4. HeaderInv'
    BY <1>5 DEF HeaderInv, Close
  <2>5. why = "finished" /\ curl_done = "ok" => delivered = BodyLen
    <3>1. why = "finished" => Len(buf) = buf_read_ /\ curl_sent = delivered
      BY <1>1, <1>2, <1>5, LenProperties DEF IsComplete, ByteInv
    <3> QED
      BY <1>1, <3>1 DEF EndInv
  <2>6. EndInv'
    BY <1>1, <1>5, <2>5 DEF EndInv, Close, InBody, NothingLostAtTheEnd
  <2> QED
    BY <1>4, <2>1, <2>2, <2>3, <2>4, <2>6 DEF HInv
<1>6. CASE OpenGivesUp \/ OpenFails \/ ReaderFinishes \/ ReaderFails
           \/ ReaderStops
  BY <1>5, <1>6 DEF OpenGivesUp, OpenFails, ReaderFinishes, ReaderFails,
     ReaderStops
<1>7. CASE OpenPerforms \/ OpenSucceeds
  <2>1. /\ pc = "connect"
        /\ \/ pc' = "performing"
           \/ pc' = "opened" /\ ~error_ /\ (headers_ready_ \/ transfer_done_)
        /\ UNCHANGED <<script, cancel, curlVars, headerVars, bodyVars, endVars,
                       outcome>>
    BY <1>7 DEF OpenPerforms, OpenSucceeds, Waiting, Enter
  <2>2. pc' = "opened" => InBody
    BY <1>1, <2>1 DEF EndInv, FlagInv
  <2>3. FlagInv' /\ CurlInv'
    BY <1>1, <2>1 DEF FlagInv, CurlInv
  <2>4. ByteInv' /\ HeaderInv'
    BY <1>1, <2>1 DEF ByteInv, HeaderInv, InBody, Final
  <2>5. EndInv'
    BY <1>1, <2>1, <2>2 DEF EndInv, InBody, NothingLostAtTheEnd
  <2> QED
    BY <1>4, <2>3, <2>4, <2>5 DEF HInv
<1>8. ASSUME PumpMessages, UNCHANGED <<curl_done, curl_at, script>>
      PROVE  /\ headers_ready_' \in BOOLEAN /\ transfer_done_' \in BOOLEAN
             /\ error_' \in BOOLEAN
             /\ error_' => curl_done' = "error"
             /\ transfer_done_' => curl_done' # "no"
             /\ transfer_done_' /\ curl_done' = "error" => error_'
             /\ headers_ready_' => InBody' \/ error_'
  BY <1>1, <1>8 DEF PumpMessages, EndInv, FlagInv, InBody
<1>9. CASE OpenPerformed
  <2>1. /\ pc = "performing" /\ pc' = "connect" /\ PumpMessages
        /\ UNCHANGED <<script, cancel, curlVars, location_seen_, response_,
                       bodyVars, outcome>>
    BY <1>9 DEF OpenPerformed
  <2>2. FlagInv' /\ CurlInv'
    BY <1>1, <1>8, <2>1 DEF FlagInv, CurlInv
  <2>3. ByteInv' /\ HeaderInv'
    BY <1>1, <2>1 DEF ByteInv, HeaderInv, InBody, Final
  <2>4. EndInv'
    BY <1>1, <1>8, <2>1 DEF EndInv, InBody, NothingLostAtTheEnd
  <2> QED
    BY <1>4, <2>2, <2>3, <2>4 DEF HInv
<1>10. CASE ReadError
  BY <1>1, <1>4, <1>10 DEF ReadError, HInv, FlagInv, CurlInv, ByteInv,
     HeaderInv, EndInv, InBody, Final, NothingLostAtTheEnd
<1>11. ASSUME NEW bytes, NEW most \in 1..MaxRead, Len(bytes) \in Nat
       PROVE  /\ (IF Len(bytes) < most THEN Len(bytes) ELSE most) \in Nat
              /\ (IF Len(bytes) < most THEN Len(bytes) ELSE most) <= Len(bytes)
  BY <1>2, <1>11
<1>12. CASE ReadBuffered
  <2>1. /\ pc = "opened" /\ Deliver(Unread)
        /\ UNCHANGED <<script, cancel, curlVars, pc, headerVars, paused_,
                       endVars, outcome>>
    BY <1>12 DEF ReadBuffered
  <2>2. /\ Unread \in Seq(1..BodyLen)
        /\ Len(Unread) = Len(buf) - buf_read_
        /\ \A i \in 1..(Len(buf) - buf_read_) :
             Unread[i] = buf[buf_read_ + i]
    BY <1>1, UnreadProperties, ClientAssumption
  <2>3. /\ Len(buf) \in Nat /\ buf_read_ \in Nat /\ buf_read_ <= Len(buf)
        /\ Len(buf) <= BufSize /\ delivered \in Nat
        /\ curl_sent = delivered - buf_read_ + Len(buf)
        /\ \A i \in 1..Len(buf) : buf[i] = delivered - buf_read_ + i
    BY <1>1, <2>1, LenProperties DEF ByteInv
  <2>4. PICK most \in 1..MaxRead :
          LET n == IF Len(Unread) < most THEN Len(Unread) ELSE most
          IN  /\ buf' = Unread /\ buf_read_' = n /\ delivered' = delivered + n
              /\ last' = IF n > 0 THEN "data" ELSE "nothing"
    BY <2>1 DEF Deliver
  <2>5. \A i \in 1..Len(buf') : buf'[i] = delivered + i
    <3> SUFFICES ASSUME NEW i \in 1..(Len(buf) - buf_read_)
                 PROVE  Unread[i] = delivered + i
      BY <2>2, <2>4
    <3>1. Unread[i] = buf[buf_read_ + i] /\ buf_read_ + i \in 1..Len(buf)
      BY <2>2, <2>3
    <3> QED
      BY <2>3, <3>1
  <2>6. ByteInv'
    <3> DEFINE n == IF Len(Unread) < most THEN Len(Unread) ELSE most
    <3>1. n \in Nat /\ n <= Len(buf')
      BY <1>2, <2>2, <2>3, <2>4
    <3>2. buf_read_' = n /\ delivered' = delivered + n
      BY <2>4
    <3>3. /\ buf' \in Seq(1..BodyLen) /\ Len(buf') <= BufSize
          /\ curl_sent = delivered + Len(buf')
      BY <1>2, <2>2, <2>3, <2>4
    <3> HIDE DEF n
    <3> QED
      BY <1>1, <2>1, <2>5, <3>1, <3>2, <3>3, DeliverKeepsBytes
  <2>7. FlagInv' /\ CurlInv'
    BY <1>1, <2>1, <2>4 DEF FlagInv, CurlInv
  <2>8. HeaderInv' /\ EndInv'
    BY <1>1, <2>1 DEF HeaderInv, EndInv, InBody, Final, NothingLostAtTheEnd
  <2> QED
    BY <1>4, <2>6, <2>7, <2>8 DEF HInv
<1>13. CASE ReadPerforms
  <2>1. /\ pc = "opened" /\ Unread = <<>> /\ buf' = <<>> /\ buf_read_' = 0
        /\ pc' \in {"resuming", "reading"}
        /\ curl_paused' = (curl_paused /\ ~paused_) /\ curl_resumed' = 0
        /\ UNCHANGED <<script, cancel, curl_at, curl_lines, curl_sent,
             curl_held, curl_done, headerVars, paused_, delivered, last,
             endVars, outcome>>
    BY <1>13 DEF ReadPerforms, ReadDrivesCurl, Emptied
  <2>2. Len(buf) = buf_read_
    BY <1>1, <2>1, UnreadProperties, ClientAssumption, LenProperties DEF ByteInv
  <2>3. ByteInv'
    BY <1>1, <1>2, <2>1, <2>2 DEF ByteInv
  <2>4. FlagInv' /\ CurlInv'
    BY <1>1, <1>2, <2>1 DEF FlagInv, CurlInv
  <2>5. HeaderInv' /\ EndInv'
    BY <1>1, <2>1 DEF HeaderInv, EndInv, InBody, Final, NothingLostAtTheEnd
  <2> QED
    BY <1>4, <2>3, <2>4, <2>5 DEF HInv
<1>14. CASE ReadResumed
  <2>1. /\ pc = "resuming" /\ pc' = "reading" /\ paused_' = FALSE
        /\ UNCHANGED <<script, cancel, curlVars, headerVars, buf, buf_read_,
                       delivered, last, endVars, outcome>>
    BY <1>14 DEF ReadResumed
  <2>2. FlagInv' /\ CurlInv'
    BY <1>1, <2>1 DEF FlagInv, CurlInv
  <2>3. ByteInv'
    BY <1>1, <2>1 DEF ByteInv
  <2>4. HeaderInv' /\ EndInv'
    BY <1>1, <2>1 DEF HeaderInv, EndInv, InBody, Final, NothingLostAtTheEnd
  <2> QED
    BY <1>4, <2>2, <2>3, <2>4 DEF HInv
<1>15. CASE ReadPerformed
  <2>1. /\ pc = "reading" /\ pc' = "opened" /\ PumpMessages /\ Deliver(buf)
        /\ UNCHANGED <<script, cancel, curlVars, location_seen_, response_,
                       paused_, outcome>>
    BY <1>15 DEF ReadPerformed
  <2>2. /\ buf \in Seq(1..BodyLen) /\ Len(buf) \in Nat /\ Len(buf) <= BufSize
        /\ delivered \in Nat /\ curl_sent = delivered + Len(buf)
        /\ \A i \in 1..Len(buf) : buf[i] = delivered + i
    BY <1>1, <2>1, LenProperties DEF ByteInv
  <2>3. PICK most \in 1..MaxRead :
          LET n == IF Len(buf) < most THEN Len(buf) ELSE most
          IN  /\ buf' = buf /\ buf_read_' = n /\ delivered' = delivered + n
              /\ last' = IF n > 0 THEN "data" ELSE "nothing"
    BY <2>1 DEF Deliver
  <2>4. ByteInv'
    <3> DEFINE n == IF Len(buf) < most THEN Len(buf) ELSE most
    <3>1. n \in Nat /\ n <= Len(buf')
      BY <1>2, <2>2, <2>3
    <3>2. buf_read_' = n /\ delivered' = delivered + n
      BY <2>3
    <3>3. /\ buf' \in Seq(1..BodyLen) /\ Len(buf') <= BufSize
          /\ curl_sent = delivered + Len(buf')
          /\ \A i \in 1..Len(buf') : buf'[i] = delivered + i
      BY <2>2, <2>3
    <3> HIDE DEF n
    <3> QED
      BY <1>1, <2>1, <3>1, <3>2, <3>3, DeliverKeepsBytes
  <2>5. FlagInv' /\ CurlInv'
    BY <1>1, <1>8, <2>1, <2>3 DEF FlagInv, CurlInv
  <2>6. HeaderInv'
    BY <1>1, <2>1 DEF HeaderInv, InBody, Final
  <2>7. EndInv'
    BY <1>1, <1>8, <2>1 DEF EndInv, InBody, NothingLostAtTheEnd
  <2> QED
    BY <1>4, <2>4, <2>5, <2>6, <2>7 DEF HInv
<1> QED
  BY <1>6, <1>7, <1>9, <1>10, <1>12, <1>13, <1>14, <1>15 DEF ClientStep

(* The invariant, for every behaviour.                                     *)
LEMMA HInvariance == Spec => []HInv
<1>1. HInv /\ UNCHANGED vars => HInv'
  BY DEF vars, curlVars, headerVars, bodyVars, endVars, HInv, ScriptInv,
     FlagInv, CurlInv, ByteInv, HeaderInv, EndInv, InBody, Final,
     NothingLostAtTheEnd
<1>2. HInv /\ CancelRequested => HInv'
  BY DEF CancelRequested, curlVars, headerVars, bodyVars, endVars, HInv,
     ScriptInv, FlagInv, CurlInv, ByteInv, HeaderInv, EndInv, InBody, Final,
     NothingLostAtTheEnd
<1>3. HInv /\ [Next]_vars => HInv'
  BY <1>1, <1>2, ClientKeepsHInv, CurlKeepsHInv DEF Next, Gone
<1> QED
  BY <1>3, HInit, PTL DEF Spec

(* Every counter, flag and field of the client stays in its range.         *)
THEOREM TypeCorrect == Spec => []TypeOK
<1>1. HInv => TypeOK
  <2> SUFFICES ASSUME HInv PROVE TypeOK
    OBVIOUS
  <2>1. /\ script \in Seq(Response(Statuses)) /\ Len(script) \in Nat
        /\ response_ \in Response(Statuses \cup {"none"})
    BY LenProperties DEF HInv, ScriptInv, CurlInv
  <2>2. /\ Statuses = Followed \cup {"unfollowable", "ok", "error"}
        /\ Statuses \cup {"none"} =
             Followed \cup {"none", "unfollowable", "ok", "error"}
    BY DEF Statuses
  <2>3. /\ curl_at \in 1..(Len(script) + 1)
        /\ {curl_sent, delivered} \subseteq 0..BodyLen
        /\ curl_held \in 0..MaxChunk /\ curl_resumed \in 0..ResumeChunks
        /\ buf_read_ \in 0..Len(buf)
    BY <2>1, Sizes, LenProperties DEF HInv, CurlInv, ByteInv
  <2>4. {cancel, curl_paused, headers_ready_, location_seen_, transfer_done_,
         error_, paused_} \subseteq BOOLEAN
    BY DEF HInv, FlagInv
  <2> QED
    BY <2>1, <2>2, <2>3, <2>4 DEF HInv, FlagInv, CurlInv, ByteInv, TypeOK
<1> QED
  BY <1>1, HInvariance, PTL

(* Whatever was paused, compacted or read in part, no byte of the body is  *)
(* lost, repeated or reordered between the write callback and read().      *)
THEOREM ByteOrder == Spec => []BytesInOrder
<1>1. HInv => BytesInOrder
  <2> SUFFICES ASSUME HInv, pc # "gone"
               PROVE  Unread = [i \in 1..(curl_sent - delivered) |->
                                    delivered + i]
    BY DEF BytesInOrder
  <2>1. /\ Unread \in Seq(1..BodyLen)
        /\ Len(Unread) = Len(buf) - buf_read_
        /\ \A i \in 1..(Len(buf) - buf_read_) :
             Unread[i] = buf[buf_read_ + i]
    BY UnreadProperties, ClientAssumption DEF HInv
  <2>2. /\ Len(buf) \in Nat /\ buf_read_ \in Nat /\ buf_read_ <= Len(buf)
        /\ delivered \in Nat /\ curl_sent = delivered - buf_read_ + Len(buf)
        /\ \A i \in 1..Len(buf) : buf[i] = delivered - buf_read_ + i
    BY LenProperties DEF HInv, ByteInv
  <2>3. curl_sent - delivered = Len(Unread)
    BY <2>1, <2>2
  <2>4. \A i \in 1..Len(Unread) : Unread[i] = delivered + i
    <3> SUFFICES ASSUME NEW i \in 1..(Len(buf) - buf_read_)
                 PROVE  Unread[i] = delivered + i
      BY <2>1
    <3>1. Unread[i] = buf[buf_read_ + i] /\ buf_read_ + i \in 1..Len(buf)
      BY <2>1, <2>2
    <3> QED
      BY <2>2, <3>1
  <2>5. Unread = [i \in 1..Len(Unread) |-> Unread[i]]
    BY <2>1
  <2> QED
    BY <2>3, <2>4, <2>5
<1> QED
  BY <1>1, HInvariance, PTL

(* is_complete() becomes true only with the last byte handed on, unless    *)
(* the transfer failed.                                                    *)
THEOREM NothingLost == Spec => []NothingLostAtTheEnd
<1>1. HInv => NothingLostAtTheEnd
  BY DEF HInv, EndInv
<1> QED
  BY <1>1, HInvariance, PTL

(* open() returns the status and the Content-Type of the final response,   *)
(* however many interim responses and redirects came before it.            *)
THEOREM FinalResponse == Spec => []FinalResponseOnly
<1>1. HInv => FinalResponseOnly
  BY DEF HInv, HeaderInv, EndInv, FinalResponseOnly
<1> QED
  BY <1>1, HInvariance, PTL
=============================================================================
