------------------------- MODULE PortAudioSinkProofs -------------------------
(***************************************************************************)
(* The safety of PortAudioSink for every capacity of its ring, every size  *)
(* of a callback and every number of playbacks                             *)
(* (src/host_examples/common/portaudio_sink.cpp).  The writer and the      *)
(* callback each work with positions that they loaded earlier; the         *)
(* invariant says how far such a position may be behind, who may be in     *)
(* close_stream(), and which byte each slot of the ring holds as long as   *)
(* the stream is open.                                                     *)
(***************************************************************************)
EXTENDS PortAudioSink, SequenceTheorems, TLAPS

Bytes == (0..MaxPlaybacks) \X (0..MaxPcm)

Types ==
  /\ \A slot \in Slots : buffer_[slot] \in Bytes
  /\ read_pos_ \in Slots /\ write_pos_ \in Slots
  /\ at_read \in Positions /\ at_write \in Positions
  /\ abort_write_ \in BOOLEAN /\ stream_ \in BOOLEAN /\ stop \in BOOLEAN
  /\ closer \in {"nobody", "user", "decoder"}
  /\ closing \in {"no", "notify", "halt", "reset", "rewind"}
  /\ user \in {"idle", "joining", "draining", "drained"}
  /\ Writing \/ decoder \in {"none", "begin", "closing", "open", "idle", "ended"}
  /\ callback \in {"idle", "reading", "notifying"}

Counts ==
  /\ playback \in Nat /\ playback <= MaxPlaybacks
  /\ opened \in Nat /\ opened <= MaxPlaybacks
  /\ accepted \in Nat /\ accepted <= MaxPcm
  /\ left \in Nat /\ left <= MaxPcm
  /\ Writing => accepted + left <= MaxPcm
  /\ heard \in Seq(Bytes)

(* One thread at a time closes the stream, and it is closed before its     *)
(* positions are reset; the decoder thread opens it right after that.      *)
CloseInv ==
  /\ closing = "no" <=> closer = "nobody"
  /\ closer = "decoder" <=> decoder = "closing"
  /\ closing \in {"reset", "rewind"} => ~stream_
  /\ closing = "rewind" => read_pos_ = 0
  /\ decoder = "open" =>
       closer = "nobody" /\ ~stream_ /\ read_pos_ = 0 /\ write_pos_ = 0
  /\ callback # "idle" => stream_

(* While the stream is open each thread's own position is the one it has   *)
(* loaded, and the other's can only have moved to its advantage.           *)
LoadedInv ==
  stream_ =>
    /\ decoder \in {"loading_read", "writing"} => at_write.write = write_pos_
    /\ decoder = "writing" => Available(Current) <= Available(at_write)
    /\ callback = "reading" =>
         /\ at_read.read = read_pos_
         /\ Available(at_read) <= Available(Current)

(* While the stream is open the ring holds what was accepted and not heard.*)
RingInv ==
  stream_ =>
    /\ Len(heard) + Available(Current) = accepted
    /\ \A slot \in Slots :
         Ahead(slot, read_pos_) < Available(Current) =>
           buffer_[slot] = <<opened, Len(heard) + Ahead(slot, read_pos_) + 1>>

(* drain() is called when nobody writes or closes.                         *)
DrainInv ==
  /\ user \in {"draining", "drained"} =>
       decoder = "ended" /\ closer = "nobody" /\ stream_
  /\ TailPlayed

SinkInv ==
  Types /\ Counts /\ CloseInv /\ LoadedInv /\ RingInv /\ DrainInv /\ PlayedInOrder

-----------------------------------------------------------------------------
(* The constants, one by one.                                              *)
LEMMA Sizes ==
  /\ Capacity \in Nat /\ Capacity >= 2 /\ Requested \in Nat
  /\ MaxPcm \in Nat /\ MaxPlaybacks \in Nat
  BY SinkAssumption DEF SinkAssumption

(* The remainder of a sum of two positions.                                *)
LEMMA Remainder ==
  ASSUME NEW a \in Nat, a < 2 * Capacity
  PROVE  a % Capacity = IF a < Capacity THEN a ELSE a - Capacity
<1>1. CASE a < Capacity
  BY <1>1, Sizes
<1>2. CASE a >= Capacity
  BY <1>2, Sizes
<1> QED
  BY <1>1, <1>2, Sizes

(* How far a slot is ahead of another.                                     *)
LEMMA AheadProperties ==
  ASSUME NEW slot \in Slots, NEW of \in Slots
  PROVE  /\ slot \in Nat /\ slot < Capacity /\ of \in Nat /\ of < Capacity
         /\ Ahead(slot, of) \in Nat /\ Ahead(slot, of) < Capacity
         /\ Ahead(slot, of) =
              IF slot >= of THEN slot - of ELSE slot - of + Capacity
<1>1. slot \in Nat /\ slot < Capacity /\ of \in Nat /\ of < Capacity
  BY Sizes DEF Slots
<1> DEFINE a == slot - of + Capacity
<1>2. a \in Nat /\ a < 2 * Capacity
  BY <1>1, Sizes
<1>3. Ahead(slot, of) = a % Capacity
  BY DEF Ahead
<1> HIDE DEF a
<1>4. a % Capacity = IF a < Capacity THEN a ELSE a - Capacity
  BY <1>2, Remainder
<1>5. Ahead(slot, of) = IF a < Capacity THEN a ELSE a - Capacity
  BY <1>3, <1>4
<1> QED
  BY <1>1, <1>5, Sizes DEF a

(* The slot that is n slots further.                                       *)
LEMMA AfterProperties ==
  ASSUME NEW slot \in Slots, NEW n \in Nat, n < Capacity
  PROVE  /\ After(slot, n) \in Slots
         /\ After(slot, n) =
              IF slot + n < Capacity THEN slot + n ELSE slot + n - Capacity
<1>1. slot \in Nat /\ slot < Capacity
  BY Sizes DEF Slots
<1> DEFINE a == slot + n
<1>2. a \in Nat /\ a < 2 * Capacity
  BY <1>1, Sizes
<1>3. After(slot, n) = a % Capacity
  BY DEF After
<1> HIDE DEF a
<1>4. After(slot, n) = IF a < Capacity THEN a ELSE a - Capacity
  BY <1>2, <1>3, Remainder
<1> QED
  BY <1>1, <1>2, <1>4, Sizes DEF a, Slots

(* A read position that moves on, towards the write position w.            *)
LEMMA ReadMoves ==
  ASSUME NEW r \in Slots, NEW w \in Slots, NEW n \in Nat, n <= Ahead(w, r)
  PROVE  /\ After(r, n) \in Slots /\ (n = 0 => After(r, n) = r)
         /\ Ahead(w, After(r, n)) = Ahead(w, r) - n
         /\ \A slot \in Slots :
              Ahead(slot, After(r, n)) < Ahead(w, r) - n =>
                Ahead(slot, r) = Ahead(slot, After(r, n)) + n
         /\ \A i \in Nat : i < Capacity =>
              After(r, i) \in Slots /\ Ahead(After(r, i), r) = i
<1> DEFINE q == After(r, n)
<1>1. n < Capacity /\ Capacity \in Nat
  BY AheadProperties, Sizes
<1>2. /\ q \in Slots
      /\ q = IF r + n < Capacity THEN r + n ELSE r + n - Capacity
  BY <1>1, AfterProperties
<1>3. /\ r \in Nat /\ r < Capacity /\ w \in Nat /\ w < Capacity
      /\ Ahead(w, r) = IF w >= r THEN w - r ELSE w - r + Capacity
  BY AheadProperties
<1>4. ASSUME NEW i \in Nat, i < Capacity
      PROVE  After(r, i) \in Slots /\ Ahead(After(r, i), r) = i
  <2>1. /\ After(r, i) \in Slots
        /\ After(r, i) = IF r + i < Capacity THEN r + i ELSE r + i - Capacity
    BY <1>4, AfterProperties
  <2> DEFINE s == After(r, i)
  <2>2. Ahead(s, r) = IF s >= r THEN s - r ELSE s - r + Capacity
    BY <2>1, AheadProperties
  <2> HIDE DEF s
  <2>3. s = IF r + i < Capacity THEN r + i ELSE r + i - Capacity
    BY <2>1 DEF s
  <2>4. Ahead(s, r) = i
    BY <1>1, <1>3, <1>4, <2>2, <2>3
  <2> QED
    BY <2>1, <2>4 DEF s
<1> HIDE DEF q
<1>5. Ahead(w, q) = IF w >= q THEN w - q ELSE w - q + Capacity
  BY <1>2, AheadProperties
<1>6. Ahead(w, q) = Ahead(w, r) - n /\ (n = 0 => q = r)
  BY <1>1, <1>2, <1>3, <1>5
<1>7. ASSUME NEW slot \in Slots, Ahead(slot, q) < Ahead(w, r) - n
      PROVE  Ahead(slot, r) = Ahead(slot, q) + n
  <2>1. /\ slot \in Nat /\ slot < Capacity
        /\ Ahead(slot, r) = IF slot >= r THEN slot - r ELSE slot - r + Capacity
        /\ Ahead(slot, q) = IF slot >= q THEN slot - q ELSE slot - q + Capacity
    BY <1>2, AheadProperties
  <2> QED
    BY <1>1, <1>2, <1>3, <1>7, <2>1
<1> QED
  BY <1>2, <1>4, <1>6, <1>7 DEF q

(* A write position that moves on, towards the read position r.            *)
LEMMA WriteMoves ==
  ASSUME NEW r \in Slots, NEW w \in Slots, NEW n \in Nat,
         n <= Capacity - 1 - Ahead(w, r)
  PROVE  /\ After(w, n) \in Slots /\ (n = 0 => After(w, n) = w)
         /\ Ahead(After(w, n), r) = Ahead(w, r) + n
         /\ \A slot \in Slots :
              /\ Ahead(slot, r) < Ahead(w, r) => Ahead(slot, w) >= n
              /\ Ahead(slot, r) >= Ahead(w, r) =>
                   Ahead(slot, w) = Ahead(slot, r) - Ahead(w, r)
<1> DEFINE q == After(w, n)
<1>1. n < Capacity /\ Capacity \in Nat
  BY AheadProperties, Sizes
<1>2. /\ q \in Slots
      /\ q = IF w + n < Capacity THEN w + n ELSE w + n - Capacity
  BY <1>1, AfterProperties
<1>3. /\ r \in Nat /\ r < Capacity /\ w \in Nat /\ w < Capacity
      /\ Ahead(w, r) = IF w >= r THEN w - r ELSE w - r + Capacity
  BY AheadProperties
<1> HIDE DEF q
<1>4. Ahead(q, r) = IF q >= r THEN q - r ELSE q - r + Capacity
  BY <1>2, AheadProperties
<1>5. Ahead(q, r) = Ahead(w, r) + n /\ (n = 0 => q = w)
  BY <1>1, <1>2, <1>3, <1>4
<1>6. ASSUME NEW slot \in Slots
      PROVE  /\ Ahead(slot, r) < Ahead(w, r) => Ahead(slot, w) >= n
             /\ Ahead(slot, r) >= Ahead(w, r) =>
                  Ahead(slot, w) = Ahead(slot, r) - Ahead(w, r)
  <2>1. /\ slot \in Nat /\ slot < Capacity
        /\ Ahead(slot, r) = IF slot >= r THEN slot - r ELSE slot - r + Capacity
        /\ Ahead(slot, w) = IF slot >= w THEN slot - w ELSE slot - w + Capacity
    BY AheadProperties
  <2> QED
    BY <1>1, <1>3, <2>1
<1> QED
  BY <1>2, <1>5, <1>6 DEF q

(* available() from the current positions, and from loaded ones.           *)
LEMMA AvailableProperties ==
  /\ Available(Current) = Ahead(write_pos_, read_pos_)
  /\ Available(Current)' = Ahead(write_pos_', read_pos_')
  /\ \A at \in Positions :
       /\ Available(at) = Ahead(at.write, at.read)
       /\ at.read \in Slots /\ at.write \in Slots
       /\ Available(at) \in Nat /\ Available(at) < Capacity
       /\ FreeSpace(at) = Capacity - 1 - Available(at)
<1>1. /\ Available(Current) = Ahead(write_pos_, read_pos_)
      /\ Available(Current)' = Ahead(write_pos_', read_pos_')
  BY DEF Available, Current, Ahead
<1>2. ASSUME NEW at \in Positions
      PROVE  /\ Available(at) = Ahead(at.write, at.read)
             /\ at.read \in Slots /\ at.write \in Slots
             /\ Available(at) \in Nat /\ Available(at) < Capacity
             /\ FreeSpace(at) = Capacity - 1 - Available(at)
  <2>1. at.read \in Slots /\ at.write \in Slots
    BY DEF Positions
  <2>2. Available(at) = Ahead(at.write, at.read)
    BY DEF Available
  <2> QED
    BY <2>1, <2>2, AheadProperties DEF FreeSpace
<1> QED
  BY <1>1, <1>2

(* The ring is empty, and nobody is doing anything with it.                *)
LEMMA SInit == Init => SinkInv
<1> SUFFICES ASSUME Init PROVE SinkInv
  OBVIOUS
<1>1. 0 \in Slots
  BY Sizes DEF Slots
<1>2. Types
  <2>1. <<0, 0>> \in Bytes
    BY Sizes DEF Bytes
  <2> QED
    BY <1>1, <2>1 DEF Init, Types, Positions, Current
<1>3. Counts
  <2>1. heard = <<>> /\ heard \in Seq(Bytes) /\ ~Writing
    BY EmptySeq DEF Init, Writing
  <2> QED
    BY <2>1, Sizes DEF Init, Counts
<1>4. CloseInv /\ LoadedInv /\ RingInv
  BY DEF Init, CloseInv, LoadedInv, RingInv
<1>5. DrainInv /\ PlayedInOrder
  <2>1. Len(heard) = 0 /\ accepted = 0 /\ user = "idle"
    BY DEF Init
  <2> QED
    BY <2>1 DEF DrainInv, TailPlayed, PlayedInOrder
<1> QED
  BY <1>2, <1>3, <1>4, <1>5 DEF SinkInv

-----------------------------------------------------------------------------
(* Steps that move no position and no byte: what they must not do is to    *)
(* let the decoder thread begin with an access to the ring.                *)
LEMMA QuietStep ==
  ASSUME SinkInv, UNCHANGED <<ringVars, stream_, at_write, at_read, history>>,
         callback' \in {callback, "idle"},
         decoder' \in {"loading_read", "writing"} => decoder' = decoder,
         Writing' => (Writing /\ left' = left) \/ accepted + left' <= MaxPcm,
         left' \in Nat, left' <= MaxPcm,
         abort_write_' \in BOOLEAN, stop' \in BOOLEAN,
         closer' \in {"nobody", "user", "decoder"},
         closing' \in {"no", "notify", "halt", "reset", "rewind"},
         user' \in {"idle", "joining", "draining", "drained"},
         Writing' \/ decoder' \in {"none", "begin", "closing", "open", "idle",
                                   "ended"},
         playback' \in Nat, playback' <= MaxPlaybacks,
         CloseInv', DrainInv'
  PROVE  SinkInv'
<1>1. /\ Types /\ Counts /\ CloseInv /\ LoadedInv /\ RingInv /\ DrainInv
      /\ PlayedInOrder
  BY DEF SinkInv
<1>2. UNCHANGED <<buffer_, read_pos_, write_pos_, stream_, at_write, at_read,
                  opened, accepted, heard>>
  BY DEF ringVars, history
<1>3. Types'
  BY <1>1, <1>2 DEF Types
<1>4. Counts'
  BY <1>1, <1>2 DEF Counts
<1>5. LoadedInv'
  BY <1>1, <1>2 DEF LoadedInv, Available, Current
<1>6. RingInv'
  BY <1>1, <1>2 DEF RingInv, Available, Current
<1>7. PlayedInOrder'
  BY <1>1, <1>2 DEF PlayedInOrder
<1> QED
  BY <1>3, <1>4, <1>5, <1>6, <1>7 DEF SinkInv

(* Steps while the stream is closed, which move positions back to 0.       *)
LEMMA ClosedStep ==
  ASSUME SinkInv, ~stream_',
         UNCHANGED <<buffer_, userVars, callbackVars, history, abort_write_, left,
                     at_write>>,
         read_pos_' \in {read_pos_, 0}, write_pos_' \in {write_pos_, 0},
         stream_' \in BOOLEAN,
         closer' \in {"nobody", "user", "decoder"},
         closing' \in {"no", "notify", "halt", "reset", "rewind"},
         decoder' = decoder \/ decoder' = "open",
         user \notin {"draining", "drained"},
         CloseInv'
  PROVE  SinkInv'
<1>1. Types /\ Counts /\ DrainInv /\ PlayedInOrder
  BY DEF SinkInv
<1>2. UNCHANGED <<user, stop, playback, callback, at_read, opened, accepted, heard>>
  BY DEF userVars, callbackVars, history
<1>3. 0 \in Slots
  BY Sizes DEF Slots
<1>4. Types'
  BY <1>1, <1>2, <1>3 DEF Types, Writing
<1>5. Counts'
  BY <1>1, <1>2 DEF Counts, Writing
<1>6. LoadedInv' /\ RingInv'
  BY DEF LoadedInv, RingInv
<1>7. DrainInv' /\ PlayedInOrder'
  BY <1>1, <1>2 DEF DrainInv, TailPlayed, PlayedInOrder
<1> QED
  BY <1>4, <1>5, <1>6, <1>7 DEF SinkInv

-----------------------------------------------------------------------------
(* A step of close_stream() after its first.                               *)
LEMMA CloseKeepsSinkInv == SinkInv /\ Close => SinkInv'
<1> SUFFICES ASSUME SinkInv, Close PROVE SinkInv'
  OBVIOUS
<1>1. Types /\ Counts /\ CloseInv /\ DrainInv
  BY DEF SinkInv
<1>2. user \notin {"draining", "drained"}
  BY <1>1 DEF CloseInv, DrainInv, Close, CloseNotifies, CloseHalts, CloseResets,
              CloseRewinds
<1>3. CASE CloseNotifies
  <2>1. /\ closing = "notify" /\ closing' = "halt" /\ decoder' = Notified
        /\ UNCHANGED <<ringVars, abort_write_, stream_, closer, userVars, left,
                       at_write, callbackVars, history>>
    BY <1>3 DEF CloseNotifies
  <2>2. UNCHANGED <<user, stop, playback, callback, at_read, read_pos_, write_pos_,
                    accepted, heard>>
    BY <2>1 DEF userVars, callbackVars, ringVars, history
  <2>3. CloseInv'
    BY <1>1, <2>1, <2>2 DEF CloseInv, Notified
  <2>4. DrainInv'
    BY <1>1, <1>2, <2>2 DEF DrainInv, TailPlayed
  <2>5. /\ Writing' <=> Writing
        /\ decoder' \in {"loading_read", "writing"} => decoder' = decoder
        /\ ~Writing => decoder' = decoder
    BY <2>1 DEF Writing, Notified
  <2> QED
    BY <1>1, <2>1, <2>2, <2>3, <2>4, <2>5, QuietStep DEF Types, Counts
<1>4. CASE CloseHalts
  <2>1. /\ closing = "halt" /\ callback = "idle" /\ closing' = "reset"
        /\ stream_' = FALSE
        /\ UNCHANGED <<ringVars, abort_write_, closer, userVars, writerVars,
                       callbackVars, history>>
    BY <1>4 DEF CloseHalts
  <2>2. UNCHANGED <<buffer_, read_pos_, write_pos_, decoder, left, at_write,
                    callback>>
    BY <2>1 DEF ringVars, writerVars, callbackVars
  <2>3. CloseInv'
    BY <1>1, <2>1, <2>2 DEF CloseInv
  <2> QED
    BY <1>1, <1>2, <2>1, <2>2, <2>3, ClosedStep DEF Types
<1>5. CASE CloseResets
  <2>1. /\ closing = "reset" /\ closing' = "rewind" /\ read_pos_' = 0
        /\ UNCHANGED <<buffer_, write_pos_, abort_write_, stream_, closer, userVars,
                       writerVars, callbackVars, history>>
    BY <1>5 DEF CloseResets
  <2>2. UNCHANGED <<decoder, left, at_write, callback>> /\ ~stream_
    BY <1>1, <2>1 DEF writerVars, callbackVars, CloseInv
  <2>3. CloseInv'
    BY <1>1, <2>1, <2>2 DEF CloseInv
  <2> QED
    BY <1>1, <1>2, <2>1, <2>2, <2>3, ClosedStep DEF Types
<1>6. CASE CloseRewinds
  <2>1. /\ closing = "rewind" /\ write_pos_' = 0
        /\ closer' = "nobody" /\ closing' = "no"
        /\ decoder' = IF closer = "decoder" THEN "open" ELSE decoder
        /\ UNCHANGED <<buffer_, read_pos_, abort_write_, stream_, userVars, left,
                       at_write, callbackVars, history>>
    BY <1>6 DEF CloseRewinds
  <2>2. callback' = callback /\ ~stream_ /\ read_pos_ = 0
    BY <1>1, <2>1 DEF callbackVars, CloseInv
  <2>3. CloseInv'
    <3>1. decoder' # "closing"
      BY <1>1, <2>1 DEF CloseInv
    <3> QED
      BY <1>1, <2>1, <2>2, <3>1 DEF CloseInv
  <2> QED
    BY <1>1, <1>2, <2>1, <2>2, <2>3, ClosedStep DEF Types
<1> QED
  BY <1>3, <1>4, <1>5, <1>6 DEF Close

-----------------------------------------------------------------------------
(* A step of the decoder thread that is no access to the ring.             *)
LEMMA DecoderGoes ==
  ASSUME SinkInv,
         UNCHANGED <<ringVars, closeVars, userVars, callbackVars, at_write,
                     history>>,
         decoder # "closing", decoder # "ended",
         decoder' \in {"checking", "loading", "locking", "testing", "asleep",
                       "idle", "ended"},
         \/ decoder' = "checking" /\ left' \in 1..(MaxPcm - accepted)
         \/ left' = left /\ (Writing \/ decoder' \in {"idle", "ended"})
  PROVE  SinkInv'
<1>1. Types /\ Counts /\ CloseInv /\ DrainInv
  BY DEF SinkInv
<1>2. UNCHANGED <<read_pos_, write_pos_, abort_write_, stream_, closer, closing,
                  user, stop, playback, callback, at_read, accepted, heard>>
  BY DEF ringVars, closeVars, userVars, callbackVars, history
<1>3. CloseInv'
  BY <1>1, <1>2 DEF CloseInv
<1>4. DrainInv'
  BY <1>1, <1>2 DEF DrainInv, TailPlayed
<1>5. Writing' \/ decoder' \in {"none", "begin", "closing", "open", "idle", "ended"}
  BY DEF Writing
<1>6. /\ left' \in Nat /\ left' <= MaxPcm
      /\ Writing' => (Writing /\ left' = left) \/ accepted + left' <= MaxPcm
  <2>1. CASE decoder' = "checking" /\ left' \in 1..(MaxPcm - accepted)
    <3>1. accepted \in Nat
      BY <1>1 DEF Counts
    <3>2. \A n \in 1..(MaxPcm - accepted) :
            n \in Nat /\ n <= MaxPcm /\ accepted + n <= MaxPcm
      BY <3>1, Sizes
    <3>3. /\ left' \in Nat /\ left' <= MaxPcm
          /\ accepted + left' <= MaxPcm
      BY <2>1, <3>2
    <3> QED
      BY <3>3
  <2>2. CASE left' = left /\ (Writing \/ decoder' \in {"idle", "ended"})
    <3>1. decoder' \in {"idle", "ended"} => ~Writing'
      BY DEF Writing
    <3> QED
      BY <1>1, <2>2, <3>1 DEF Counts
  <2> QED
    BY <2>1, <2>2
<1> QED
  BY <1>1, <1>2, <1>3, <1>4, <1>5, <1>6, QuietStep DEF Types, Counts

(* on_stream_info() begins to close the stream of the playback before.     *)
LEMMA StreamInfoKeepsSinkInv == SinkInv /\ StreamInfo => SinkInv'
<1> SUFFICES ASSUME SinkInv, StreamInfo PROVE SinkInv'
  OBVIOUS
<1>1. Types /\ Counts /\ CloseInv /\ DrainInv
  BY DEF SinkInv
<1>2. /\ decoder = "begin" /\ decoder' = "closing" /\ closer = "nobody"
      /\ closer' = "decoder" /\ closing' = "notify" /\ abort_write_' = TRUE
      /\ UNCHANGED <<ringVars, stream_, userVars, left, at_write, callbackVars,
                     history>>
  BY DEF StreamInfo, CloseAborts
<1>3. UNCHANGED <<read_pos_, write_pos_, user, stop, playback, callback, at_read,
                  accepted, heard>>
  BY <1>2 DEF ringVars, userVars, callbackVars, history
<1>4. CloseInv'
  BY <1>1, <1>2, <1>3 DEF CloseInv
<1>5. DrainInv'
  BY <1>1, <1>2, <1>3 DEF DrainInv, TailPlayed
<1>6. ~Writing'
  BY <1>2 DEF Writing
<1> QED
  BY <1>1, <1>2, <1>3, <1>4, <1>5, <1>6, QuietStep DEF Types, Counts

(* The stream starts with an empty ring, for the playback at hand.         *)
LEMMA OpenStreamKeepsSinkInv == SinkInv /\ OpenStream => SinkInv'
<1> SUFFICES ASSUME SinkInv, OpenStream PROVE SinkInv'
  OBVIOUS
<1>1. Types /\ Counts /\ CloseInv /\ DrainInv
  BY DEF SinkInv
<1>2. /\ decoder = "open" /\ decoder' = "idle" /\ abort_write_' = FALSE
      /\ stream_' \in BOOLEAN /\ opened' = playback /\ accepted' = 0
      /\ heard' = <<>>
      /\ UNCHANGED <<ringVars, closer, closing, userVars, left, at_write,
                     callbackVars>>
  BY DEF OpenStream
<1>3. UNCHANGED <<buffer_, read_pos_, write_pos_, user, stop, playback, callback,
                  at_read>>
  BY <1>2 DEF ringVars, userVars, callbackVars
<1>4. /\ closer = "nobody" /\ closing = "no" /\ ~stream_ /\ callback = "idle"
      /\ read_pos_ = 0 /\ write_pos_ = 0
  BY <1>1, <1>2 DEF CloseInv, Types
<1>5. heard' \in Seq(Bytes) /\ Len(heard') = 0
  BY <1>2, EmptySeq
<1>6. Types'
  BY <1>1, <1>2, <1>3 DEF Types
<1>7. Counts'
  <2>1. ~Writing'
    BY <1>2 DEF Writing
  <2> QED
    BY <1>1, <1>2, <1>3, <1>5, <2>1, Sizes DEF Counts
<1>8. CloseInv'
  BY <1>1, <1>2, <1>3, <1>4 DEF CloseInv
<1>9. LoadedInv'
  BY <1>2, <1>3, <1>4 DEF LoadedInv
<1>10. RingInv'
  <2>1. Available(Current)' = 0
    <3>1. 0 \in Slots
      BY Sizes DEF Slots
    <3>2. Ahead(0, 0) = 0
      BY <3>1, AheadProperties
    <3> QED
      BY <1>3, <1>4, <3>2, AvailableProperties
  <2>2. \A slot \in Slots : ~(Ahead(slot, read_pos_') < 0)
    BY <1>1, <1>3, AheadProperties DEF Types
  <2> QED
    BY <1>2, <1>5, <2>1, <2>2 DEF RingInv
<1>11. DrainInv'
  BY <1>1, <1>2, <1>3 DEF DrainInv, TailPlayed
<1>12. PlayedInOrder'
  BY <1>2, <1>5 DEF PlayedInOrder
<1> QED
  BY <1>6, <1>7, <1>8, <1>9, <1>10, <1>11, <1>12 DEF SinkInv

(* write() loads its own position, and then the callback's.                *)
LEMMA LoadsKeepSinkInv == SinkInv /\ (LoadWritePos \/ LoadReadPos) => SinkInv'
<1> SUFFICES ASSUME SinkInv, LoadWritePos \/ LoadReadPos PROVE SinkInv'
  OBVIOUS
<1>1. /\ Types /\ Counts /\ CloseInv /\ LoadedInv /\ RingInv /\ DrainInv
      /\ PlayedInOrder
  BY DEF SinkInv
<1>2. /\ decoder \in {"loading", "loading_read"}
      /\ decoder' \in {"loading_read", "writing"}
      /\ UNCHANGED <<ringVars, closeVars, userVars, callbackVars, left, history>>
      /\ at_write' \in {[at_write EXCEPT !.write = write_pos_],
                        [at_write EXCEPT !.read = read_pos_]}
  BY DEF LoadWritePos, LoadReadPos, Goes
<1>3. UNCHANGED <<buffer_, read_pos_, write_pos_, abort_write_, stream_, closer,
                  closing, user, stop, playback, callback, at_read, opened,
                  accepted, heard>>
  BY <1>2 DEF ringVars, closeVars, userVars, callbackVars, history
<1>4. at_write' \in Positions
  BY <1>1, <1>2 DEF Types, Positions
<1>5. Writing /\ Writing'
  BY <1>2 DEF Writing
<1>6. Types'
  BY <1>1, <1>3, <1>4, <1>5 DEF Types
<1>7. Counts'
  BY <1>1, <1>2, <1>3, <1>5 DEF Counts
<1>8. CloseInv'
  BY <1>1, <1>2, <1>3 DEF CloseInv
<1>9. LoadedInv'
  <2>1. ASSUME stream_
        PROVE  /\ at_write'.write = write_pos_
               /\ decoder' = "writing" => at_write'.read = read_pos_
    <3>1. at_write \in Positions
      BY <1>1 DEF Types
    <3>2. CASE LoadWritePos
      BY <3>1, <3>2 DEF LoadWritePos, Goes, Positions
    <3>3. CASE LoadReadPos
      <4>1. at_write.write = write_pos_
        BY <1>1, <2>1, <3>3 DEF LoadedInv, LoadReadPos, Goes
      <4> QED
        BY <3>1, <3>3, <4>1 DEF LoadReadPos, Positions
    <3> QED
      BY <3>2, <3>3
  <2>2. ASSUME stream_, decoder' = "writing"
        PROVE  Available(Current)' = Available(at_write')
    BY <1>3, <1>4, <2>1, <2>2, AvailableProperties
  <2>3. Available(at_write') \in Nat
    BY <1>4, AvailableProperties
  <2>4. ASSUME stream_, callback = "reading"
        PROVE  /\ at_read.read = read_pos_
               /\ Available(at_read) <= Available(Current)'
    BY <1>1, <1>3, <2>4 DEF LoadedInv, Available, Current
  <2>5. Available(at_write)' = Available(at_write')
    BY DEF Available
  <2>6. Available(at_read)' = Available(at_read)
    BY <1>3 DEF Available
  <2> QED
    BY <1>3, <2>1, <2>2, <2>3, <2>4, <2>5, <2>6 DEF LoadedInv
<1>10. RingInv'
  BY <1>1, <1>3 DEF RingInv, Available, Current
<1>11. DrainInv'
  BY <1>1, <1>2, <1>3 DEF DrainInv, TailPlayed
<1>12. PlayedInOrder'
  BY <1>1, <1>3 DEF PlayedInOrder
<1> QED
  BY <1>6, <1>7, <1>8, <1>9, <1>10, <1>11, <1>12 DEF SinkInv

(* write() stores into slots that the callback has read from, and only     *)
(* then moves its position.                                                *)
LEMMA WriteKeepsSinkInv == SinkInv /\ Write => SinkInv'
<1> SUFFICES ASSUME SinkInv, Write PROVE SinkInv'
  OBVIOUS
<1>1. /\ Types /\ Counts /\ CloseInv /\ LoadedInv /\ RingInv /\ DrainInv
      /\ PlayedInOrder
  BY DEF SinkInv
<1> DEFINE n == Lesser(left, FreeSpace(at_write))
<1>2. /\ decoder = "writing"
      /\ buffer_' = [slot \in Slots |->
           IF Ahead(slot, at_write.write) < n
           THEN <<opened, accepted + Ahead(slot, at_write.write) + 1>>
           ELSE buffer_[slot]]
      /\ write_pos_' = IF n = 0 THEN write_pos_ ELSE After(at_write.write, n)
      /\ accepted' = accepted + n /\ left' = left - n
      /\ decoder' \in {"idle", "locking"}
      /\ UNCHANGED <<read_pos_, closeVars, userVars, at_write, callbackVars,
                     opened, heard>>
  BY DEF Write, Stored
<1>3. UNCHANGED <<read_pos_, abort_write_, stream_, closer, closing, user, stop,
                  playback, callback, at_read, at_write, opened, heard>>
  BY <1>2 DEF closeVars, userVars, callbackVars
<1>4. /\ left \in Nat /\ accepted \in Nat /\ accepted + left <= MaxPcm
      /\ MaxPcm \in Nat /\ opened \in Nat /\ opened <= MaxPlaybacks
      /\ MaxPlaybacks \in Nat
  BY <1>1, <1>2, Sizes DEF Counts, Writing
<1>5. /\ Available(at_write) \in Nat /\ Available(at_write) < Capacity
      /\ at_write.write \in Slots
      /\ FreeSpace(at_write) = Capacity - 1 - Available(at_write)
  BY <1>1, AvailableProperties DEF Types
<1>6. n \in Nat /\ n <= left /\ n <= Capacity - 1 - Available(at_write)
  BY <1>4, <1>5, Sizes DEF Lesser
<1> HIDE DEF n
<1>7. /\ \A slot \in Slots : buffer_'[slot] =
           IF Ahead(slot, at_write.write) < n
           THEN <<opened, accepted + Ahead(slot, at_write.write) + 1>>
           ELSE buffer_[slot]
      /\ \A slot \in Slots : buffer_'[slot] \in Bytes
  <2>1. ASSUME NEW slot \in Slots, Ahead(slot, at_write.write) < n
        PROVE  <<opened, accepted + Ahead(slot, at_write.write) + 1>> \in Bytes
    <3>1. Ahead(slot, at_write.write) \in Nat
      BY <1>5, AheadProperties
    <3>2. accepted + Ahead(slot, at_write.write) + 1 \in 0..MaxPcm
      BY <1>4, <1>6, <2>1, <3>1
    <3> QED
      BY <1>4, <3>2 DEF Bytes
  <2> QED
    BY <1>1, <1>2, <2>1 DEF Types
<1>8. write_pos_' \in Slots
  <2>1. n < Capacity
    BY <1>5, <1>6, Sizes
  <2> QED
    BY <1>1, <1>2, <1>5, <1>6, <2>1, AfterProperties DEF Types
<1>9. Types'
  <2>1. Writing' \/ decoder' \in {"none", "begin", "closing", "open", "idle",
                                  "ended"}
    BY <1>2 DEF Writing
  <2> QED
    BY <1>1, <1>3, <1>7, <1>8, <2>1 DEF Types
<1>10. Counts'
  <2>1. /\ accepted' \in Nat /\ accepted' <= MaxPcm
        /\ left' \in Nat /\ left' <= MaxPcm /\ accepted' + left' <= MaxPcm
    BY <1>2, <1>4, <1>6
  <2> QED
    BY <1>1, <1>3, <2>1 DEF Counts
<1>11. CloseInv'
  BY <1>1, <1>2, <1>3 DEF CloseInv
<1>12. DrainInv'
  BY <1>1, <1>2, <1>3 DEF DrainInv, TailPlayed
<1>13. PlayedInOrder'
  <2>1. accepted <= accepted'
    BY <1>2, <1>4, <1>6
  <2>2. Len(heard) \in Nat
    BY <1>1, LenProperties DEF Counts
  <2> QED
    BY <1>1, <1>2, <1>3, <1>4, <1>6, <2>1, <2>2 DEF PlayedInOrder
<1>14. LoadedInv' /\ RingInv'
  <2> SUFFICES ASSUME stream_ PROVE LoadedInv' /\ RingInv'
    BY <1>3 DEF LoadedInv, RingInv
  <2> DEFINE avail == Ahead(write_pos_, read_pos_)
  <2>1. Available(Current) = avail /\ at_write.write = write_pos_
    BY <1>1, <1>2, AvailableProperties DEF LoadedInv
  <2>2. /\ write_pos_ \in Slots /\ read_pos_ \in Slots /\ avail \in Nat
        /\ avail < Capacity
    BY <1>1, AheadProperties DEF Types
  <2>3. n <= Capacity - 1 - avail
    <3>1. avail <= Available(at_write)
      BY <1>1, <1>2, <2>1 DEF LoadedInv
    <3> HIDE DEF avail
    <3> QED
      BY <1>5, <1>6, <2>2, <3>1, Sizes
  <2>4. /\ write_pos_' = After(write_pos_, n)
        /\ Ahead(After(write_pos_, n), read_pos_) = avail + n
        /\ \A slot \in Slots :
             /\ Ahead(slot, read_pos_) < avail => Ahead(slot, write_pos_) >= n
             /\ Ahead(slot, read_pos_) >= avail =>
                  Ahead(slot, write_pos_) = Ahead(slot, read_pos_) - avail
    BY <1>2, <1>6, <2>1, <2>2, <2>3, WriteMoves
  <2>5. Available(Current)' = avail + n
    BY <1>3, <2>4, AvailableProperties
  <2> HIDE DEF avail
  <2>6. LoadedInv'
    <3>1. Available(at_read)' = Available(at_read)
      BY <1>3 DEF Available
    <3>2. callback = "reading" =>
            /\ at_read.read = read_pos_ /\ Available(at_read) <= avail
      BY <1>1, <2>1 DEF LoadedInv
    <3>3. Available(at_read) \in Nat
      BY <1>1, AvailableProperties DEF Types
    <3>4. callback = "reading" => Available(at_read) <= avail + n
      BY <1>6, <2>2, <3>2, <3>3
    <3>5. decoder' \notin {"loading_read", "writing"}
      BY <1>2
    <3> QED
      BY <1>3, <2>5, <3>1, <3>2, <3>4, <3>5 DEF LoadedInv
  <2>7. RingInv'
    <3>1. Len(heard) \in Nat /\ Len(heard) + avail = accepted
      BY <1>1, <2>1, LenProperties DEF Counts, RingInv
    <3>2. Len(heard') + (avail + n) = accepted'
      BY <1>2, <1>3, <1>4, <1>6, <2>2, <3>1
    <3>3. ASSUME NEW slot \in Slots, Ahead(slot, read_pos_) < avail + n
          PROVE  buffer_'[slot] =
                   <<opened, Len(heard) + Ahead(slot, read_pos_) + 1>>
      <4>1. Ahead(slot, read_pos_) \in Nat /\ Ahead(slot, write_pos_) \in Nat
        BY <2>2, AheadProperties
      <4>2. buffer_'[slot] =
              IF Ahead(slot, write_pos_) < n
              THEN <<opened, accepted + Ahead(slot, write_pos_) + 1>>
              ELSE buffer_[slot]
        BY <1>7, <2>1
      <4>3. CASE Ahead(slot, read_pos_) < avail
        <5>1. buffer_'[slot] = buffer_[slot]
          <6>1. Ahead(slot, write_pos_) >= n
            BY <2>4, <4>3
          <6> QED
            BY <1>6, <4>1, <4>2, <6>1
        <5>2. buffer_[slot] = <<opened, Len(heard) + Ahead(slot, read_pos_) + 1>>
          BY <1>1, <2>1, <4>3 DEF RingInv
        <5> QED
          BY <5>1, <5>2
      <4>4. CASE Ahead(slot, read_pos_) >= avail
        <5>1. Ahead(slot, write_pos_) = Ahead(slot, read_pos_) - avail
          BY <2>4, <4>4
        <5>2. /\ Ahead(slot, write_pos_) < n
              /\ accepted + Ahead(slot, write_pos_) + 1 =
                   Len(heard) + Ahead(slot, read_pos_) + 1
          BY <1>4, <1>6, <2>2, <3>1, <3>3, <4>1, <5>1
        <5> QED
          BY <4>2, <5>2
      <4> QED
        BY <2>2, <4>1, <4>3, <4>4
    <3> QED
      BY <1>3, <2>5, <3>2, <3>3 DEF RingInv
  <2> QED
    BY <2>6, <2>7
<1> QED
  BY <1>9, <1>10, <1>11, <1>12, <1>13, <1>14 DEF SinkInv

(* Any step of the decoder thread.                                         *)
LEMMA DecoderKeepsSinkInv == SinkInv /\ Decoder => SinkInv'
<1> SUFFICES ASSUME SinkInv, Decoder PROVE SinkInv'
  OBVIOUS
<1>1. CASE StreamInfo \/ OpenStream
  BY <1>1, StreamInfoKeepsSinkInv, OpenStreamKeepsSinkInv
<1>2. CASE LoadWritePos \/ LoadReadPos
  BY <1>2, LoadsKeepSinkInv
<1>3. CASE Write
  BY <1>3, WriteKeepsSinkInv
<1>4. CASE AudioWrite
  BY <1>4, DecoderGoes DEF AudioWrite, Goes
<1>5. CASE CheckAbort \/ TestSpace \/ FallAsleep \/ WakeSpuriously \/ Expire
  <2>1. /\ Writing /\ decoder # "closing" /\ decoder # "ended" /\ left' = left
        /\ decoder' \in {"checking", "loading", "locking", "testing", "asleep",
                         "idle"}
        /\ UNCHANGED <<ringVars, closeVars, userVars, callbackVars, at_write,
                       history>>
    BY <1>5 DEF CheckAbort, TestSpace, FallAsleep, WakeSpuriously, Expire, Goes,
                Writing
  <2> QED
    BY <2>1, DecoderGoes
<1>6. CASE DecoderEnds
  BY <1>6, DecoderGoes DEF DecoderEnds, Goes
<1> QED
  BY <1>1, <1>2, <1>3, <1>4, <1>5, <1>6 DEF Decoder, Writes

-----------------------------------------------------------------------------
(* The callback loads both positions.                                      *)
LEMMA LoadReadKeepsSinkInv == SinkInv /\ LoadRead => SinkInv'
<1> SUFFICES ASSUME SinkInv, LoadRead PROVE SinkInv'
  OBVIOUS
<1>1. /\ Types /\ Counts /\ CloseInv /\ LoadedInv /\ RingInv /\ DrainInv
      /\ PlayedInOrder
  BY DEF SinkInv
<1>2. /\ stream_ /\ callback = "idle" /\ callback' = "reading"
      /\ at_read' = Current
      /\ UNCHANGED <<ringVars, closeVars, userVars, decoder, left, at_write, history>>
  BY DEF LoadRead, CallbackVarsOnly, history
<1>3. UNCHANGED <<buffer_, read_pos_, write_pos_, abort_write_, stream_, closer,
                  closing, user, stop, playback, opened, accepted, heard>>
  BY <1>2 DEF ringVars, closeVars, userVars, history
<1>4. Current \in Positions /\ Current.read = read_pos_
  BY <1>1 DEF Types, Current, Positions
<1>5. Types'
  BY <1>1, <1>2, <1>3, <1>4 DEF Types, Writing
<1>6. Counts'
  BY <1>1, <1>2, <1>3 DEF Counts, Writing
<1>7. CloseInv'
  BY <1>1, <1>2, <1>3 DEF CloseInv
<1>8. LoadedInv'
  <2>1. /\ Available(Current)' = Available(Current)
        /\ Available(at_read)' = Available(Current)
        /\ Available(at_write)' = Available(at_write)
    BY <1>2, <1>3 DEF Available, Current
  <2>2. Available(Current) \in Nat
    BY <1>4, AvailableProperties
  <2> QED
    BY <1>1, <1>2, <1>3, <1>4, <2>1, <2>2 DEF LoadedInv
<1>9. RingInv'
  BY <1>1, <1>3 DEF RingInv, Available, Current
<1>10. DrainInv' /\ PlayedInOrder'
  BY <1>1, <1>2, <1>3 DEF DrainInv, TailPlayed, PlayedInOrder
<1> QED
  BY <1>5, <1>6, <1>7, <1>8, <1>9, <1>10 DEF SinkInv

(* The callback plays the bytes behind its position, and only then moves   *)
(* it.                                                                     *)
LEMMA ReadKeepsSinkInv == SinkInv /\ Read => SinkInv'
<1> SUFFICES ASSUME SinkInv, Read PROVE SinkInv'
  OBVIOUS
<1>1. /\ Types /\ Counts /\ CloseInv /\ LoadedInv /\ RingInv /\ DrainInv
      /\ PlayedInOrder
  BY DEF SinkInv
<1> DEFINE n == Lesser(Requested, Available(at_read))
           piece == [i \in 1..n |-> buffer_[After(at_read.read, i - 1)]]
           avail == Ahead(write_pos_, read_pos_)
<1>2. /\ callback = "reading" /\ heard' = heard \o piece
      /\ read_pos_' = IF n = 0 THEN read_pos_ ELSE After(at_read.read, n)
      /\ callback' = "notifying"
      /\ UNCHANGED <<buffer_, write_pos_, closeVars, userVars, decoder, left,
                     at_write, at_read, opened, accepted>>
  BY DEF Read, CallbackVarsOnly
<1>3. UNCHANGED <<buffer_, write_pos_, abort_write_, stream_, closer, closing,
                  user, stop, playback, opened, accepted, at_read, at_write,
                  decoder, left>>
  BY <1>2 DEF closeVars, userVars
<1>4. stream_ /\ at_read.read = read_pos_ /\ Available(at_read) <= avail
      /\ Available(Current) = avail
  BY <1>1, <1>2, AvailableProperties DEF CloseInv, LoadedInv
<1>5. /\ write_pos_ \in Slots /\ read_pos_ \in Slots /\ avail \in Nat
      /\ avail < Capacity /\ Available(at_read) \in Nat
  BY <1>1, AheadProperties, AvailableProperties DEF Types
<1>6. n \in Nat /\ n <= avail
  <2> HIDE DEF avail
  <2> QED
    BY <1>4, <1>5, Sizes DEF Lesser
<1>7. /\ After(read_pos_, n) \in Slots /\ (n = 0 => After(read_pos_, n) = read_pos_)
      /\ Ahead(write_pos_, After(read_pos_, n)) = avail - n
      /\ \A slot \in Slots :
           Ahead(slot, After(read_pos_, n)) < avail - n =>
             Ahead(slot, read_pos_) = Ahead(slot, After(read_pos_, n)) + n
      /\ \A i \in Nat : i < Capacity =>
           After(read_pos_, i) \in Slots /\ Ahead(After(read_pos_, i), read_pos_) = i
  <2> HIDE DEF n
  <2> QED
    BY <1>5, <1>6, ReadMoves
<1>8. /\ Len(heard) \in Nat /\ Len(heard) + avail = accepted
      /\ \A slot \in Slots : Ahead(slot, read_pos_) < avail =>
           buffer_[slot] = <<opened, Len(heard) + Ahead(slot, read_pos_) + 1>>
  BY <1>1, <1>4, LenProperties DEF Counts, RingInv
<1>9. /\ piece \in [1..n -> Bytes]
      /\ \A i \in 1..n : piece[i] = <<opened, Len(heard) + i>>
  <2> HIDE DEF n, avail
  <2>1. ASSUME NEW i \in 1..n
        PROVE  /\ buffer_[After(read_pos_, i - 1)] \in Bytes
               /\ buffer_[After(read_pos_, i - 1)] = <<opened, Len(heard) + i>>
    <3>1. i - 1 \in Nat /\ i - 1 < avail /\ i - 1 < Capacity
      BY <1>5, <1>6, Sizes
    <3>2. /\ After(read_pos_, i - 1) \in Slots
          /\ Ahead(After(read_pos_, i - 1), read_pos_) = i - 1
      BY <1>7, <3>1
    <3>3. buffer_[After(read_pos_, i - 1)] = <<opened, Len(heard) + (i - 1) + 1>>
      BY <1>8, <3>1, <3>2
    <3>4. Len(heard) + (i - 1) + 1 = Len(heard) + i
      BY <1>6, <1>8
    <3> QED
      BY <1>1, <3>2, <3>3, <3>4 DEF Types
  <2>2. \A i \in 1..n : piece[i] = buffer_[After(read_pos_, i - 1)]
    BY <1>4
  <2> QED
    BY <1>4, <2>1, <2>2
<1>r. read_pos_' = After(read_pos_, n)
  BY <1>2, <1>4, <1>7
<1> HIDE DEF n, piece, avail
<1>10. /\ heard' \in Seq(Bytes) /\ Len(heard') = Len(heard) + n
       /\ \A i \in 1..Len(heard') : heard'[i] = <<opened, i>>
  <2>1. piece \in Seq(Bytes) /\ Len(piece) = n
    BY <1>6, <1>9
  <2>2. heard \in Seq(Bytes)
    BY <1>1 DEF Counts
  <2>3. heard' \in Seq(Bytes) /\ Len(heard') = Len(heard) + n
    BY <1>2, <2>1, <2>2, ConcatProperties
  <2>4. ASSUME NEW i \in 1..Len(heard')
        PROVE  heard'[i] = <<opened, i>>
    <3>1. heard'[i] = IF i <= Len(heard) THEN heard[i] ELSE piece[i - Len(heard)]
      BY <1>2, <1>6, <1>8, <2>1, <2>2, <2>3, ConcatProperties
    <3>2. CASE i <= Len(heard)
      <4>1. i \in 1..Len(heard)
        BY <1>8, <3>2
      <4> QED
        BY <1>1, <3>1, <3>2, <4>1 DEF PlayedInOrder
    <3>3. CASE ~(i <= Len(heard))
      <4>1. i - Len(heard) \in 1..n /\ Len(heard) + (i - Len(heard)) = i
        BY <1>6, <1>8, <2>3, <3>3
      <4>2. piece[i - Len(heard)] = <<opened, Len(heard) + (i - Len(heard))>>
        BY <1>9, <4>1
      <4> QED
        BY <3>1, <3>3, <4>1, <4>2
    <3> QED
      BY <3>2, <3>3
  <2> QED
    BY <2>3, <2>4
<1>11. Types'
  BY <1>1, <1>2, <1>3, <1>7, <1>r DEF Types, Writing
<1>12. Counts'
  BY <1>1, <1>3, <1>10 DEF Counts, Writing
<1>13. CloseInv'
  <2>1. closing # "rewind" /\ decoder # "open"
    BY <1>1, <1>4 DEF CloseInv
  <2> QED
    BY <1>1, <1>3, <1>4, <2>1 DEF CloseInv
<1>14. Available(Current)' = avail - n
  BY <1>3, <1>7, <1>r, AvailableProperties
<1>15. LoadedInv'
  <2>1. Available(at_write)' = Available(at_write)
    BY <1>3 DEF Available
  <2>2. Available(at_write) \in Nat
    BY <1>1, AvailableProperties DEF Types
  <2>3. decoder = "writing" => avail - n <= Available(at_write)
    <3>1. decoder = "writing" => avail <= Available(at_write)
      BY <1>1, <1>4 DEF LoadedInv
    <3> QED
      BY <1>5, <1>6, <2>2, <3>1
  <2> QED
    BY <1>1, <1>2, <1>3, <1>4, <1>14, <2>1, <2>3 DEF LoadedInv
<1>16. RingInv'
  <2>1. Len(heard') + (avail - n) = accepted
    BY <1>5, <1>6, <1>8, <1>10
  <2>2. ASSUME NEW slot \in Slots, Ahead(slot, read_pos_') < avail - n
        PROVE  buffer_[slot] =
                 <<opened, Len(heard') + Ahead(slot, read_pos_') + 1>>
    <3>1. Ahead(slot, read_pos_') \in Nat
      BY <1>7, <1>r, AheadProperties
    <3>2. Ahead(slot, read_pos_) = Ahead(slot, read_pos_') + n
      BY <1>7, <1>r, <2>2
    <3>3. Ahead(slot, read_pos_) < avail
      BY <1>5, <1>6, <2>2, <3>1, <3>2
    <3>4. buffer_[slot] = <<opened, Len(heard) + Ahead(slot, read_pos_) + 1>>
      BY <1>8, <3>3
    <3>5. Len(heard) + Ahead(slot, read_pos_) + 1
            = Len(heard') + Ahead(slot, read_pos_') + 1
      BY <1>6, <1>8, <1>10, <3>1, <3>2
    <3> QED
      BY <3>4, <3>5
  <2> QED
    BY <1>3, <1>14, <2>1, <2>2 DEF RingInv
<1>17. PlayedInOrder'
  <2>1. Len(heard') <= accepted
    BY <1>5, <1>6, <1>8, <1>10
  <2> QED
    BY <1>3, <1>10, <2>1 DEF PlayedInOrder
<1>18. DrainInv'
  <2>1. user = "drained" => Len(heard') = accepted
    <3>1. user = "drained" => Len(heard) = accepted
      BY <1>1 DEF DrainInv, TailPlayed
    <3> QED
      BY <1>5, <1>6, <1>8, <1>10, <3>1
  <2> QED
    BY <1>1, <1>3, <2>1 DEF DrainInv, TailPlayed
<1> QED
  BY <1>11, <1>12, <1>13, <1>15, <1>16, <1>17, <1>18 DEF SinkInv

(* Any step of the callback.                                               *)
LEMMA CallbackKeepsSinkInv == SinkInv /\ Callback => SinkInv'
<1> SUFFICES ASSUME SinkInv, NotifyWriter PROVE SinkInv'
  BY LoadReadKeepsSinkInv, ReadKeepsSinkInv DEF Callback
<1>1. Types /\ Counts /\ CloseInv /\ DrainInv
  BY DEF SinkInv
<1>2. /\ callback' = "idle" /\ decoder' = Notified
      /\ UNCHANGED <<ringVars, closeVars, userVars, left, at_write, at_read,
                     history>>
  BY DEF NotifyWriter, CallbackVarsOnly, history
<1>3. UNCHANGED <<read_pos_, write_pos_, abort_write_, stream_, closer, closing,
                  user, stop, playback, accepted, heard>>
  BY <1>2 DEF ringVars, closeVars, userVars, history
<1>4. /\ Writing' <=> Writing
      /\ decoder' \in {"loading_read", "writing"} => decoder' = decoder
      /\ ~Writing => decoder' = decoder
  BY <1>2 DEF Writing, Notified
<1>5. CloseInv'
  BY <1>1, <1>2, <1>3 DEF CloseInv, Notified
<1>6. DrainInv'
  BY <1>1, <1>2, <1>3 DEF DrainInv, TailPlayed, Notified
<1> QED
  BY <1>1, <1>2, <1>3, <1>4, <1>5, <1>6, QuietStep DEF Types, Counts

-----------------------------------------------------------------------------
(* A step of the user's thread.                                            *)
LEMMA UserKeepsSinkInv == SinkInv /\ User => SinkInv'
<1> SUFFICES ASSUME SinkInv, User PROVE SinkInv'
  OBVIOUS
<1>1. Types /\ Counts /\ CloseInv /\ RingInv /\ DrainInv
  BY DEF SinkInv
<1>2. closer # "user"
  BY DEF User
<1>3. CASE StopSink
  <2>1. /\ user = "idle" /\ decoder \notin {"closing", "open"}
        /\ closer = "nobody" /\ closer' = "user" /\ closing' = "notify"
        /\ abort_write_' = TRUE
        /\ UNCHANGED <<ringVars, stream_, userVars, decoder, left, at_write,
                       callbackVars, history>>
    BY <1>3 DEF StopSink, CloseAborts
  <2>2. UNCHANGED <<read_pos_, write_pos_, user, stop, playback, callback, at_read,
                    accepted, heard>>
    BY <2>1 DEF ringVars, userVars, callbackVars, history
  <2>3. CloseInv'
    BY <1>1, <2>1, <2>2 DEF CloseInv
  <2>4. DrainInv'
    BY <1>1, <2>1, <2>2 DEF DrainInv, TailPlayed
  <2>5. Writing' <=> Writing
    BY <2>1 DEF Writing
  <2> QED
    BY <1>1, <2>1, <2>2, <2>3, <2>4, <2>5, QuietStep DEF Types, Counts
<1>4. CASE Play \/ StopDecoder \/ Joined \/ Drain \/ Drained \/ DrainGivesUp
           \/ DrainReturns
  <2>1. UNCHANGED <<ringVars, closeVars, left, at_write, callbackVars, history>>
    BY <1>4 DEF Play, StopDecoder, Joined, Drain, Drained, DrainGivesUp,
                DrainReturns, UserGoes
  <2>2. UNCHANGED <<read_pos_, write_pos_, abort_write_, stream_, closer, closing,
                    callback, at_read, accepted, heard>>
    BY <2>1 DEF ringVars, closeVars, callbackVars, history
  <2>3. /\ \/ decoder' = decoder
           \/ decoder \in {"none", "ended"} /\ decoder' \in {"begin", "none"}
        /\ user' \in {"idle", "joining", "draining", "drained"}
        /\ stop' \in BOOLEAN /\ playback' \in Nat /\ playback' <= MaxPlaybacks
    <3>1. CASE Play
      <4>1. /\ playback < MaxPlaybacks /\ playback' = playback + 1
            /\ decoder = "none" /\ decoder' = "begin" /\ user' = "idle"
            /\ stop' = FALSE
        BY <3>1 DEF Play, UserGoes
      <4>2. playback' \in Nat /\ playback' <= MaxPlaybacks
        BY <1>1, <4>1, Sizes DEF Counts
      <4> QED
        BY <4>1, <4>2
    <3>2. CASE ~Play
      <4>1. playback' = playback
        BY <1>4, <3>2 DEF StopDecoder, Joined, Drain, Drained, DrainGivesUp,
                          DrainReturns
      <4>2. stop' = stop \/ stop' = TRUE
        BY <1>4, <3>2 DEF StopDecoder, Joined, Drain, Drained, DrainGivesUp,
                          DrainReturns
      <4>3. user' \in {"idle", "joining", "draining", "drained"}
        BY <1>4, <3>2 DEF StopDecoder, Joined, Drain, Drained, DrainGivesUp,
                          DrainReturns, UserGoes
      <4>4. decoder' = decoder \/ (decoder = "ended" /\ decoder' = "none")
        BY <1>4, <3>2 DEF StopDecoder, Joined, Drain, Drained, DrainGivesUp,
                          DrainReturns
      <4> QED
        BY <1>1, <4>1, <4>2, <4>3, <4>4 DEF Types, Counts
    <3> QED
      BY <3>1, <3>2
  <2>4. CloseInv'
    BY <1>1, <2>2, <2>3 DEF CloseInv
  <2>5. DrainInv'
    <3>1. CASE Play \/ StopDecoder \/ Joined \/ DrainGivesUp \/ DrainReturns
      <4>1. user' \in {"idle", "joining"}
        BY <3>1 DEF Play, StopDecoder, Joined, DrainGivesUp, DrainReturns, UserGoes
      <4> QED
        BY <4>1 DEF DrainInv, TailPlayed
    <3>2. CASE Drain
      <4>1. decoder = "ended" /\ stream_ /\ decoder' = decoder /\ user' = "draining"
        BY <3>2 DEF Drain, UserGoes
      <4>2. closer = "nobody"
        BY <1>1, <1>2, <4>1 DEF Types, CloseInv
      <4> QED
        BY <2>2, <4>1, <4>2 DEF DrainInv, TailPlayed
    <3>3. CASE Drained
      <4>1. /\ user = "draining" /\ user' = "drained" /\ decoder' = decoder
            /\ Available(Current) = 0
        BY <3>3 DEF Drained, UserGoes
      <4>2. stream_ /\ Len(heard) \in Nat
        BY <1>1, <4>1, LenProperties DEF DrainInv, Counts
      <4>3. Len(heard) = accepted
        BY <1>1, <4>1, <4>2 DEF RingInv
      <4> QED
        BY <1>1, <2>2, <4>1, <4>3 DEF DrainInv, TailPlayed
    <3> QED
      BY <1>4, <3>1, <3>2, <3>3
  <2>6. /\ decoder' \in {"loading_read", "writing"} => decoder' = decoder
        /\ Writing' => Writing
        /\ Writing' \/ decoder' \in {"none", "begin", "closing", "open", "idle",
                                     "ended"}
    BY <1>1, <2>3 DEF Types, Writing
  <2> QED
    BY <1>1, <2>1, <2>2, <2>3, <2>4, <2>5, <2>6, QuietStep DEF Types, Counts
<1> QED
  BY <1>3, <1>4 DEF User

(* A step of any thread, or none.                                          *)
LEMMA SNext == SinkInv /\ [Next]_vars => SinkInv'
<1> SUFFICES ASSUME SinkInv, UNCHANGED vars PROVE SinkInv'
  BY CloseKeepsSinkInv, DecoderKeepsSinkInv, CallbackKeepsSinkInv, UserKeepsSinkInv
     DEF Next
<1>1. Types /\ Counts /\ CloseInv /\ DrainInv
  BY DEF SinkInv
<1>2. UNCHANGED <<ringVars, stream_, at_write, at_read, history, read_pos_,
                  write_pos_, callback, decoder, left, abort_write_, stop, closer,
                  closing, user, playback, accepted, heard>>
  BY DEF vars, ringVars, closeVars, userVars, writerVars, callbackVars, history
<1>3. CloseInv' /\ DrainInv' /\ (Writing' <=> Writing)
  BY <1>1, <1>2 DEF CloseInv, DrainInv, TailPlayed, Writing
<1> QED
  BY <1>1, <1>2, <1>3, QuietStep DEF Types, Counts

(* The invariant, for every behaviour.                                     *)
LEMMA SInvariance == Spec => []SinkInv
<1>1. SinkInv /\ [Next]_vars => SinkInv'
  BY SNext
<1> QED
  BY <1>1, SInit, PTL DEF Spec

(* The sink's variables have the values of their types: a write never      *)
(* takes more PCM than there is, and no position leaves the ring           *)
(* (PortAudioSink, RingBuffer of portaudio_sink.cpp).                      *)
THEOREM TypeCorrect == Spec => []TypeOK
<1>1. SinkInv => TypeOK
  <2> SUFFICES ASSUME SinkInv PROVE TypeOK
    OBVIOUS
  <2>1. Types /\ Counts /\ MaxPcm \in Nat /\ MaxPlaybacks \in Nat
    BY Sizes DEF SinkInv
  <2>2. {at_read, at_write, Current} \subseteq Positions
    BY <2>1 DEF Types, Positions, Current
  <2>3. /\ {playback, opened} \subseteq 0..MaxPlaybacks
        /\ {accepted, left} \subseteq 0..MaxPcm
    BY <2>1 DEF Counts
  <2> QED
    BY <2>1, <2>2, <2>3 DEF TypeOK, Types, Bytes
<1> QED
  BY <1>1, SInvariance, PTL

(* The device is given the PCM of the stream that it was opened for, in    *)
(* order and without a gap, whatever positions the writer and the callback *)
(* had loaded and whoever closed the stream in between (write(), read(),   *)
(* close_stream()).                                                        *)
THEOREM PlaybackOrder == Spec => []PlayedInOrder
<1>1. SinkInv => PlayedInOrder
  BY DEF SinkInv
<1> QED
  BY <1>1, SInvariance, PTL

(* drain() that has seen the ring empty returns with nothing left to play. *)
THEOREM DrainedPlayback == Spec => []TailPlayed
<1>1. SinkInv => TailPlayed
  BY DEF SinkInv, DrainInv
<1> QED
  BY <1>1, SInvariance, PTL
=============================================================================
