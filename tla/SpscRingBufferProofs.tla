------------------------- MODULE SpscRingBufferProofs -------------------------
(***************************************************************************)
(* Theorems about SpscRingBuffer for every size, every set of bytes and    *)
(* every length of a request.                                              *)
(***************************************************************************)
EXTENDS SpscRingBuffer, SequenceTheorems, TLAPS

(* What the invariants need besides: a thread is past its first step only  *)
(* while there is storage, nothing is acquired while the consumer acquires,*)
(* and a write() in progress has bytes to write.                           *)
CallsOK ==
  /\ \A t \in Threads : pc[t] \in {"asleep", "woken", "expired"} => created
  /\ pc["consumer"] # "idle" => acquired_len_ = 0
  /\ pc["producer"] # "idle" <=> prod_data # <<>>

IInv == TypeOK /\ OffsetsAgree /\ NoMissedWakeup /\ CallsOK

-----------------------------------------------------------------------------
(* Sums of an offset and a length wrap at most once.                       *)
LEMMA WrapOnce ==
  ASSUME NEW x \in 0..(2 * Size - 1)
  PROVE  Wrap(x) = IF x < Size THEN x ELSE x - Size
BY RingAssumption DEF Wrap

LEMMA EmptyRequest == <<>> \in Seq(Bytes)
BY EmptySeq

LEMMA CopyTyped ==
  ASSUME storage_ \in [Offsets -> Bytes],
         NEW data \in Seq(Bytes), NEW offset \in Offsets,
         NEW len \in 0..Size, len <= Len(data)
  PROVE  CopiedIn(data, offset, len) \in [Offsets -> Bytes]
BY RingAssumption DEF CopiedIn, Offsets

(* The bytes outside the len offsets from offset on are not touched.       *)
LEMMA CopyKeeps ==
  ASSUME NEW data, NEW offset \in Offsets, NEW len \in 0..Size,
         NEW i \in Offsets,
         ~(IF i >= offset THEN i - offset < len
                          ELSE i + Size - offset < len)
  PROVE  CopiedIn(data, offset, len)[i] = storage_[i]
BY RingAssumption DEF CopiedIn, Offsets

-----------------------------------------------------------------------------
LEMMA InitEstablishes == Init => IInv
<1> SUFFICES ASSUME Init PROVE IInv
  OBVIOUS
<1> USE RingAssumption DEF Init, Threads
<1>1. TypeOK
  <2>1. created \in BOOLEAN /\ storage_size_ = 0
    BY DEF storage_size_
  <2> QED
    BY <2>1, EmptyRequest DEF TypeOK, Offsets, Timeouts
<1>2. OffsetsAgree
  BY WrapOnce DEF OffsetsAgree, Used, storage_size_
<1>3. NoMissedWakeup /\ CallsOK
  BY DEF NoMissedWakeup, CallsOK
<1> QED
  BY <1>1, <1>2, <1>3 DEF IInv

LEMMA RebuildPreserves ==
  ASSUME IInv, NEW exists \in BOOLEAN, Rebuild(exists)
  PROVE  IInv'
<1> USE RingAssumption DEF IInv, Rebuild, callVars
<1>1. TypeOK'
  BY DEF TypeOK, Offsets, storage_size_
<1>2. OffsetsAgree'
  BY WrapOnce DEF OffsetsAgree, Used, storage_size_, Wrap
<1>3. NoMissedWakeup' /\ CallsOK'
  BY DEF NoMissedWakeup, CallsOK, Threads
<1> QED
  BY <1>1, <1>2, <1>3

LEMMA BeginPreserves ==
  ASSUME IInv, NEW t \in Threads, NEW wait \in Timeouts, Begin(t, wait),
         \/ t = "producer" /\ prod_data' \in Seq(Bytes) /\ prod_data' # <<>>
         \/ t = "consumer" /\ acquired_len_ = 0 /\ UNCHANGED prod_data
  PROVE  IInv'
<1> USE DEF IInv, Begin, offsetVars
<1>1. TypeOK'
  BY DEF TypeOK, storage_size_, Threads
<1>2. OffsetsAgree'
  BY DEF OffsetsAgree, Used, storage_size_, Wrap
<1>3. NoMissedWakeup' /\ CallsOK'
  BY DEF NoMissedWakeup, CallsOK, Threads, TypeOK, Ready, HasSpace, HasData,
         storage_size_
<1> QED
  BY <1>1, <1>2, <1>3

(* A thread that only goes to sleep, wakes up or runs out of time.         *)
LEMMA MovePreserves ==
  ASSUME IInv, NEW t \in Threads, Sleeps(t) \/ Wakes(t) \/ Expires(t)
  PROVE  IInv'
<1> USE DEF IInv, MoveTo, offsetVars
<1>1. PICK step \in {"asleep", "woken", "expired"} :
        /\ MoveTo(t, step)
        /\ step = "asleep" => ~Ready(t)
        /\ created
        /\ pc[t] # "idle"
  BY DEF Sleeps, Wakes, Expires, CallsOK
<1>2. TypeOK'
  BY <1>1 DEF TypeOK, storage_size_
<1>3. OffsetsAgree'
  BY <1>1 DEF OffsetsAgree, Used, storage_size_, Wrap
<1>4. NoMissedWakeup' /\ CallsOK'
  BY <1>1 DEF NoMissedWakeup, CallsOK, Threads, TypeOK, Ready, HasSpace,
              HasData, storage_size_
<1> QED
  BY <1>2, <1>3, <1>4

LEMMA GiveUpPreserves ==
  ASSUME IInv, WriteNothing \/ AcquireNothing
  PROVE  IInv'
<1> USE RingAssumption DEF IInv, GivesUp, Returns, offsetVars
<1>1. TypeOK'
  <2>1. CASE WriteNothing
    BY <2>1, EmptyRequest DEF TypeOK, storage_size_, Threads, Timeouts,
                              WriteNothing
  <2>2. CASE AcquireNothing
    BY <2>2 DEF TypeOK, storage_size_, Threads, Timeouts, AcquireNothing
  <2> QED
    BY <2>1, <2>2
<1>2. OffsetsAgree'
  BY DEF OffsetsAgree, Used, storage_size_, Wrap, WriteNothing,
         AcquireNothing
<1>3. NoMissedWakeup' /\ CallsOK'
  BY DEF NoMissedWakeup, CallsOK, Threads, TypeOK, Ready, HasSpace, HasData,
         storage_size_, WriteNothing, AcquireNothing
<1> QED
  BY <1>1, <1>2, <1>3

LEMMA WritePreserves ==
  ASSUME IInv, Write
  PROVE  IInv'
<1> DEFINE n == Lesser(Len(prod_data), free_bytes_)
<1> USE RingAssumption DEF IInv, Write, WriteBytes, Proceeds
<1>1. /\ n \in 1..free_bytes_ /\ n <= Len(prod_data)
      /\ created /\ free_bytes_ \in 1..Size /\ n <= Size
  BY EmptyRequest DEF TypeOK, Lesser, Ready, HasSpace, CallsOK, storage_size_
<1>2. free_bytes_' = free_bytes_ - n
  BY <1>1 DEF Lesser
<1>3. TypeOK'
  <2>1. storage_' \in [Offsets -> Bytes]
    BY <1>1, CopyTyped DEF TypeOK
  <2>2. write_offset_' \in Offsets
    BY <1>1, WrapOnce DEF TypeOK, Offsets
  <2>3. pc' \in [Threads -> {"idle", "call", "asleep", "woken", "expired"}]
    BY DEF TypeOK, Threads, Notified
  <2> QED
    BY <1>1, <1>2, <2>1, <2>2, <2>3
    DEF TypeOK, storage_size_, Threads, Timeouts
<1>4. OffsetsAgree'
  <2>1. /\ read_offset_ \in 0..(Size - 1) /\ free_bytes_ \in 0..Size
        /\ Used = Size - free_bytes_ /\ Used' = Used + n
        /\ write_offset_ = Wrap(read_offset_ + Used)
        /\ write_offset_' = Wrap(write_offset_ + n)
    BY <1>1, <1>2 DEF OffsetsAgree, Used, storage_size_, TypeOK, Offsets
  <2>2. write_offset_' = Wrap(read_offset_ + Used')
    BY <1>1, <2>1, WrapOnce
  <2>3. UNCHANGED <<read_offset_, acquired_len_, view>>
    OBVIOUS
  <2> HIDE DEF Write, WriteBytes
  <2>4. (write_offset_ = Wrap(read_offset_ + Used))'
    BY <2>2, <2>3 DEF Wrap
  <2>5. (acquired_len_ <= Used)'
    BY <1>1, <2>1, <2>3 DEF OffsetsAgree, TypeOK
  <2> QED
    BY <2>3, <2>4, <2>5 DEF OffsetsAgree
<1>5. NoMissedWakeup'
  BY <1>1 DEF NoMissedWakeup, Notified, TypeOK, Threads
<1>6. CallsOK'
  BY <1>1 DEF CallsOK, Notified, TypeOK, Threads
<1> QED
  BY <1>3, <1>4, <1>5, <1>6

LEMMA AcquirePreserves ==
  ASSUME IInv, Acquire
  PROVE  IInv'
<1> USE RingAssumption DEF IInv, Acquire, Proceeds, Returns
<1>1. /\ created /\ UNCHANGED <<created, free_bytes_, read_offset_>>
      /\ Used \in 1..Size /\ Used' = Used
      /\ read_offset_ \in 0..(Size - 1)
      /\ acquired_len_' \in 1..Size
      /\ acquired_len_' <= Used /\ acquired_len_' <= Size - read_offset_
  BY DEF TypeOK, Lesser, Ready, HasData, Used, storage_size_, Offsets
<1>2. TypeOK'
  BY <1>1 DEF TypeOK, storage_size_, Threads, Timeouts
<1>3. OffsetsAgree'
  <2>1. (write_offset_ = Wrap(read_offset_ + Used))'
    BY <1>1 DEF OffsetsAgree, Wrap
  <2> QED
    BY <1>1, <2>1 DEF OffsetsAgree
<1>4. NoMissedWakeup' /\ CallsOK'
  BY <1>1 DEF NoMissedWakeup, CallsOK, Threads, TypeOK, Ready, HasSpace,
              HasData, storage_size_
<1> QED
  BY <1>2, <1>3, <1>4

LEMMA ReleasePreserves ==
  ASSUME IInv, Release
  PROVE  IInv'
<1> USE RingAssumption DEF IInv, Release, ReleaseBytes
<1>1. /\ read_offset_ \in 0..(Size - 1) /\ free_bytes_ \in 0..Size
      /\ acquired_len_ \in 1..Used /\ Used \in 1..Size
      /\ created /\ Used = Size - free_bytes_
      /\ free_bytes_' = free_bytes_ + acquired_len_
      /\ Used' = Used - acquired_len_
      /\ read_offset_' = Wrap(read_offset_ + acquired_len_)
      /\ read_offset_ + acquired_len_ \in 1..Size
  BY DEF TypeOK, OffsetsAgree, Used, storage_size_, Offsets
<1>2. read_offset_' \in Offsets
  BY <1>1, WrapOnce DEF Offsets
<1>3. TypeOK'
  BY <1>1, <1>2 DEF TypeOK, storage_size_, Threads, Notified
<1>4. OffsetsAgree'
  <2>1. Wrap(read_offset_ + Used) = Wrap(read_offset_' + Used')
    BY <1>1, <1>2, WrapOnce DEF Offsets
  <2>2. (write_offset_ = Wrap(read_offset_ + Used))'
    BY <2>1 DEF OffsetsAgree, Wrap
  <2>3. acquired_len_' = 0 /\ read_offset_' \in 0..Size /\ Used' \in 0..Size
    BY <1>1, <1>2 DEF Offsets
  <2> QED
    BY <2>2, <2>3 DEF OffsetsAgree
<1>5. NoMissedWakeup' /\ CallsOK'
  BY <1>1 DEF NoMissedWakeup, CallsOK, Threads, TypeOK, Notified, Ready,
              HasSpace, HasData, storage_size_
<1> QED
  BY <1>3, <1>4, <1>5

LEMMA WriteCallPreserves ==
  ASSUME IInv, NEW m \in 1..MaxWrite, NEW data \in [1..m -> Bytes],
         NEW wait \in Timeouts, WriteCall(data, wait)
  PROVE  IInv'
<1>1. data \in Seq(Bytes) /\ data # <<>>
  BY RingAssumption
<1> QED
  BY <1>1, BeginPreserves DEF WriteCall, Threads

LEMMA StepPreserves == IInv /\ [Next]_vars => IInv'
<1> SUFFICES ASSUME IInv, [Next]_vars PROVE IInv'
  OBVIOUS
<1>1. CASE Create \/ Destroy
  BY <1>1, RebuildPreserves DEF Create, Destroy
<1>2. CASE ProducerCall
  BY <1>2, WriteCallPreserves DEF ProducerCall
<1>3. CASE ConsumerCall
  <2>1. PICK wait \in {"none", "bounded"} : AcquireCall(wait)
    BY <1>3 DEF ConsumerCall
  <2> QED
    BY <2>1, BeginPreserves DEF AcquireCall, Threads, Timeouts
<1>4. CASE ProducerStep
  BY <1>4, WritePreserves, GiveUpPreserves, MovePreserves
  DEF ProducerStep, Threads
<1>5. CASE ConsumerStep
  BY <1>5, AcquirePreserves, GiveUpPreserves, MovePreserves
  DEF ConsumerStep, Threads
<1>6. CASE Release
  BY <1>6, ReleasePreserves
<1>7. CASE \E t \in Threads : Wakes(t) \/ Expires(t)
  BY <1>7, MovePreserves
<1>8. CASE UNCHANGED vars
  BY <1>8 DEF vars, offsetVars, callVars, IInv, TypeOK, OffsetsAgree,
    NoMissedWakeup, CallsOK, Used, storage_size_, Wrap, Ready, HasSpace,
    HasData
<1> QED
  BY <1>1, <1>2, <1>3, <1>4, <1>5, <1>6, <1>7, <1>8 DEF Next

-----------------------------------------------------------------------------
(* The inductive invariant holds throughout.                               *)
THEOREM Invariance == Spec => []IInv
BY InitEstablishes, StepPreserves, PTL DEF Spec

(* TypeOK: offsets stay in the storage, and the number of free bytes never *)
(* exceeds its size, nor wraps below zero.                                 *)
THEOREM TypeCorrect == Spec => []TypeOK
BY Invariance, PTL DEF IInv

(* OffsetsAgree: the offsets and the free bytes tell the same story after  *)
(* any sequence of partial writes and reads that wrap.                     *)
THEOREM OffsetConsistency == Spec => []OffsetsAgree
BY Invariance, PTL DEF IInv

(* NoMissedWakeup: no thread sleeps on what is there already.              *)
THEOREM WakeupSafety == Spec => []NoMissedWakeup
BY Invariance, PTL DEF IInv

-----------------------------------------------------------------------------
(* A write stays clear of the bytes not given back: the distance of such a *)
(* byte from the write offset is at least the number of free bytes.        *)
LEMMA WriteMissesUnread ==
  ASSUME IInv, Write, NEW k \in 0..(Used - 1)
  PROVE  storage_'[Wrap(read_offset_ + k)] = storage_[Wrap(read_offset_ + k)]
<1> DEFINE n == Lesser(Len(prod_data), free_bytes_)
           i == Wrap(read_offset_ + k)
<1>1. /\ n \in 1..free_bytes_ /\ free_bytes_ \in 1..Size
      /\ Used = Size - free_bytes_
      /\ read_offset_ \in 0..(Size - 1)
      /\ write_offset_ = Wrap(read_offset_ + Used)
      /\ write_offset_ \in Offsets
  BY RingAssumption, EmptySeq
  DEF IInv, TypeOK, OffsetsAgree, CallsOK, Write, Proceeds, Ready, HasSpace,
      Lesser, Used, storage_size_, Offsets
<1>2. /\ i \in Offsets
      /\ ~(IF i >= write_offset_ THEN i - write_offset_ < n
                                 ELSE i + Size - write_offset_ < n)
  BY <1>1, WrapOnce, RingAssumption DEF Offsets
<1>3. storage_' = CopiedIn(prod_data, write_offset_, n)
  BY DEF Write, WriteBytes
<1>4. n \in 0..Size /\ write_offset_ \in Offsets
  BY <1>1, RingAssumption
<1> HIDE DEF n, i
<1>5. CopiedIn(prod_data, write_offset_, n)[i] = storage_[i]
  BY <1>2, <1>4, CopyKeeps
<1> QED
  BY <1>3, <1>5 DEF i

(* ViewIsStable: what the decoder reads through its view is not overwritten*)
(* by the reader, however the two interleave.                              *)
THEOREM ViewStability == Spec => ViewIsStable
<1> DEFINE Kept ==
      acquired_len_ > 0 /\ acquired_len_' > 0 =>
        /\ view' = view /\ acquired_len_' = acquired_len_
        /\ \A i \in view..(view + acquired_len_ - 1) :
             storage_'[i] = storage_[i]
<1>1. IInv /\ [Next]_vars => Kept
  <2> SUFFICES ASSUME IInv, [Next]_vars, acquired_len_ > 0, acquired_len_' > 0
               PROVE  Kept
    OBVIOUS
  <2>1. CASE Write
    <3>1. UNCHANGED <<view, acquired_len_>>
      BY <2>1 DEF Write, WriteBytes
    <3>2. ASSUME NEW i \in view..(view + acquired_len_ - 1)
          PROVE  storage_'[i] = storage_[i]
      <4>1. /\ view = read_offset_ /\ acquired_len_ <= Used
            /\ read_offset_ \in 0..(Size - 1) /\ acquired_len_ \in 0..Size
            /\ read_offset_ + acquired_len_ <= Size
            /\ Used \in 0..Size
        BY RingAssumption
        DEF IInv, TypeOK, OffsetsAgree, Offsets, Used, storage_size_
      <4>2. i - read_offset_ \in 0..(Used - 1) /\ i \in 0..(Size - 1)
        BY <4>1, RingAssumption
      <4>3. Wrap(read_offset_ + (i - read_offset_)) = i
        BY <4>1, <4>2, WrapOnce, RingAssumption
      <4> QED
        BY <2>1, <4>2, <4>3, WriteMissesUnread
    <3> QED
      BY <3>1, <3>2
  <2>2. CASE ~Write
    <3>1. UNCHANGED <<storage_, view, acquired_len_>>
      BY <2>2 DEF Next, Create, Destroy, Rebuild, ProducerCall, WriteCall,
        ConsumerCall, AcquireCall, Begin, ProducerStep, ConsumerStep,
        WriteNothing, Acquire, AcquireNothing, GivesUp, Sleeps, MoveTo, Wakes,
        Expires, Release, ReleaseBytes, Proceeds, IInv, TypeOK, CallsOK,
        Threads, vars, offsetVars, callVars
    <3> QED
      BY <3>1
  <2> QED
    BY <2>1, <2>2
<1> QED
  BY <1>1, Invariance, PTL DEF Spec, ViewIsStable

-----------------------------------------------------------------------------
(* The ring implements the stream: every step is one of the stream's, or   *)
(* changes nothing of what the stream shows.                               *)

Window(bytes, offset, len) == [i \in 1..len |-> bytes[Wrap(offset + i - 1)]]

LEMMA WindowTyped ==
  ASSUME NEW bytes \in [Offsets -> Bytes], NEW offset \in Offsets,
         NEW len \in 0..Size
  PROVE  /\ Window(bytes, offset, len) \in Seq(Bytes)
         /\ Len(Window(bytes, offset, len)) = len
         /\ \A i \in 1..len :
              Window(bytes, offset, len)[i] = bytes[Wrap(offset + i - 1)]
<1>1. \A i \in 1..len : Wrap(offset + i - 1) \in Offsets
  BY WrapOnce, RingAssumption DEF Offsets
<1> QED
  BY <1>1, RingAssumption DEF Window

LEMMA WindowEmpty ==
  ASSUME NEW bytes, NEW offset
  PROVE  Window(bytes, offset, 0) = <<>>
BY DEF Window

LEMMA Shown ==
  /\ Unread = Window(storage_, read_offset_, Used)
  /\ Lent = Window(storage_, view, acquired_len_)
  /\ Unread' = Window(storage_', read_offset_', Used')
  /\ Lent' = Window(storage_', view', acquired_len_')
BY DEF Unread, Lent, BytesFrom, Window, Wrap

(* Sizes in the form the steps below use.                                  *)
LEMMA Sizes ==
  ASSUME IInv
  PROVE  /\ Used \in 0..Size /\ acquired_len_ \in 0..Used
         /\ storage_ \in [Offsets -> Bytes]
         /\ read_offset_ \in Offsets /\ view \in Offsets
         /\ Unread \in Seq(Bytes) /\ Len(Unread) = Used
         /\ Lent \in Seq(Bytes) /\ Len(Lent) = acquired_len_
<1>1. /\ Used \in 0..Size /\ acquired_len_ \in 0..Used
      /\ storage_ \in [Offsets -> Bytes]
      /\ read_offset_ \in Offsets /\ view \in Offsets
  BY RingAssumption DEF IInv, TypeOK, OffsetsAgree, Used, storage_size_
<1>2. acquired_len_ \in 0..Size
  BY <1>1, RingAssumption
<1> QED
  BY <1>1, <1>2, WindowTyped, Shown

LEMMA InitRefines == Init => Stream!Init
<1> SUFFICES ASSUME Init PROVE Stream!Init
  OBVIOUS
<1>1. Used = 0 /\ acquired_len_ = 0
  BY DEF Init, Used, storage_size_
<1> QED
  BY <1>1, WindowEmpty, Shown DEF Init, Stream!Init

LEMMA RebuildRefines ==
  ASSUME IInv, NEW exists \in BOOLEAN, Rebuild(exists)
  PROVE  Stream!Empty
<1>1. /\ Used' = 0 /\ acquired_len_ = 0 /\ acquired_len_' = 0
      /\ UNCHANGED <<prod_data, prod_written>>
  BY RingAssumption DEF Rebuild, Used, storage_size_, callVars
<1>2. prod_data = <<>>
  BY DEF Rebuild, IInv, CallsOK, Threads
<1>3. Lent = <<>> /\ Lent' = <<>> /\ Unread' = <<>>
  BY <1>1, WindowEmpty, Shown
<1> QED
  BY <1>1, <1>2, <1>3 DEF Stream!Empty

LEMMA AcquireRefines ==
  ASSUME IInv, Acquire
  PROVE  Stream!Borrow
<1> DEFINE n == acquired_len_'
<1>1. /\ acquired_len_ = 0 /\ view' = read_offset_
      /\ Used \in 1..Size /\ n \in 1..Used
      /\ UNCHANGED <<storage_, read_offset_, Used, prod_data, prod_written>>
  BY RingAssumption
  DEF IInv, TypeOK, CallsOK, Acquire, Proceeds, Ready, HasData, Lesser, Used,
      storage_size_, Offsets
<1>2. Lent = <<>> /\ Unread' = Unread
  BY <1>1, WindowEmpty, Shown
<1>3. Lent' = SubSeq(Unread, 1, n)
  BY <1>1, Shown, RingAssumption DEF Window
<1> QED
  BY <1>1, <1>2, <1>3, Sizes DEF Stream!Borrow

LEMMA ReleaseRefines ==
  ASSUME IInv, Release
  PROVE  Stream!GiveBack
<1> DEFINE n == acquired_len_
<1>1. /\ n \in 1..Used /\ acquired_len_' = 0
      /\ Used' = Used - n
      /\ read_offset_' = Wrap(read_offset_ + n)
      /\ UNCHANGED <<storage_, prod_data, prod_written>>
  BY RingAssumption DEF IInv, TypeOK, OffsetsAgree, Release, ReleaseBytes,
                        Used, storage_size_, Offsets
<1>2. Lent' = <<>> /\ Lent # <<>> /\ Len(Lent) = n
  BY <1>1, WindowEmpty, Shown, Sizes, EmptySeq
<1>3. \A i \in 1..(Used - n) :
        Wrap(read_offset_' + i - 1) = Wrap(read_offset_ + (n + i) - 1)
  BY <1>1, Sizes, WrapOnce, RingAssumption DEF Offsets
<1>4. Unread' = [i \in 1..(Used - n) |-> Unread[n + i]]
  BY <1>1, <1>3, Shown, Sizes, RingAssumption DEF Window
<1>5. SubSeq(Unread, n + 1, Len(Unread)) = [i \in 1..(Used - n) |-> Unread[n + i]]
  BY <1>1, Sizes, RingAssumption
<1> QED
  BY <1>1, <1>2, <1>4, <1>5 DEF Stream!GiveBack

(* What a write() copies in follows the unread bytes.                      *)
LEMMA WriteAppends ==
  ASSUME IInv, Write, NEW n, n = Lesser(Len(prod_data), free_bytes_),
         NEW k \in 0..(n - 1)
  PROVE  storage_'[Wrap(read_offset_ + Used + k)] = prod_data[k + 1]
<1> DEFINE i == Wrap(read_offset_ + Used + k)
<1>1. /\ n \in 1..free_bytes_ /\ free_bytes_ \in 1..Size
      /\ Used = Size - free_bytes_
      /\ read_offset_ \in 0..(Size - 1)
      /\ write_offset_ = Wrap(read_offset_ + Used)
      /\ write_offset_ \in Offsets
  BY RingAssumption, EmptySeq
  DEF IInv, TypeOK, OffsetsAgree, CallsOK, Write, Proceeds, Ready, HasSpace,
      Lesser, Used, storage_size_, Offsets
<1>2. i = Wrap(write_offset_ + k)
  <2>1. read_offset_ + Used \in 0..(2 * Size - 1) /\ k \in 0..(Size - 1)
    BY <1>1, RingAssumption
  <2>2. CASE read_offset_ + Used + k < 2 * Size
    BY <1>1, <2>1, <2>2, WrapOnce, RingAssumption DEF Offsets
  <2> QED
    BY <1>1, <2>1, <2>2, RingAssumption
<1> HIDE DEF i
<1>3. /\ i \in Offsets
      /\ (IF i >= write_offset_ THEN i - write_offset_
                                ELSE i + Size - write_offset_) = k
  <2>1. /\ write_offset_ \in Int /\ k \in Int /\ Size \in Int
        /\ 0 <= write_offset_ /\ write_offset_ < Size /\ 0 <= k /\ k < Size
    BY <1>1, RingAssumption DEF Offsets
  <2>2. write_offset_ + k \in 0..(2 * Size - 1)
    BY <2>1
  <2>3. Wrap(write_offset_ + k) = IF write_offset_ + k < Size
                                  THEN write_offset_ + k
                                  ELSE write_offset_ + k - Size
    BY <2>1, <2>2, WrapOnce
  <2> QED
    BY <1>2, <2>1, <2>3 DEF Offsets
<1>4. storage_' = CopiedIn(prod_data, write_offset_, n)
  BY DEF Write, WriteBytes
<1>5. k < n
  BY <1>1
<1>6. CopiedIn(prod_data, write_offset_, n)[i] = prod_data[k + 1]
  BY <1>3, <1>5 DEF CopiedIn
<1> QED
  BY <1>4, <1>6 DEF i

LEMMA WriteRefines ==
  ASSUME IInv, Write
  PROVE  Stream!Take
<1> DEFINE n == Lesser(Len(prod_data), free_bytes_)
<1>1. /\ n \in 1..free_bytes_ /\ n \in 1..Len(prod_data)
      /\ n = Len(prod_data) \/ n = free_bytes_
      /\ prod_data \in Seq(Bytes) /\ prod_data # <<>>
      /\ Used = Size - free_bytes_ /\ free_bytes_ \in 1..Size
      /\ Used' = Used + n
      /\ prod_data' = <<>> /\ prod_written' = n
      /\ UNCHANGED <<read_offset_, view, acquired_len_>>
  BY RingAssumption, EmptySeq
  DEF IInv, TypeOK, CallsOK, Write, WriteBytes, Proceeds, Ready, HasSpace,
      Lesser, Used, storage_size_
<1>2. IInv'
  BY WritePreserves
<1> HIDE DEF n
<1>3. Lent' = Lent
  <2>1. \A i \in 1..acquired_len_ : Wrap(view + i - 1) = Wrap(read_offset_ + (i - 1))
    BY Sizes DEF IInv, OffsetsAgree, Wrap
  <2>2. \A i \in 1..acquired_len_ : i - 1 \in 0..(Used - 1)
    BY Sizes
  <2>3. \A i \in 1..acquired_len_ :
          storage_'[Wrap(view + i - 1)] = storage_[Wrap(view + i - 1)]
    BY <2>1, <2>2, WriteMissesUnread
  <2> QED
    BY <1>1, <2>3, Shown DEF Window
<1>4. Unread' = Unread \o SubSeq(prod_data, 1, n)
  <2> DEFINE d == SubSeq(prod_data, 1, n)
             u == Unread \o d
  <2>1. /\ d \in Seq(Bytes) /\ Len(d) = n
        /\ \A i \in 1..n : d[i] = prod_data[i]
    <3>1. n \in Nat /\ \A i \in 1..n : prod_data[i] \in Bytes
      BY <1>1
    <3> QED
      BY <1>1, <3>1, SubSeqProperties
  <2>2. /\ u \in Seq(Bytes) /\ Len(u) = Used + n
        /\ \A i \in 1..(Used + n) :
             u[i] = IF i <= Used THEN Unread[i] ELSE d[i - Used]
    BY <2>1, Sizes, ConcatProperties
  <2>3. /\ Unread' \in Seq(Bytes) /\ Len(Unread') = Used + n
        /\ \A i \in 1..(Used + n) :
             Unread'[i] = storage_'[Wrap(read_offset_ + i - 1)]
    <3>1. /\ storage_' \in [Offsets -> Bytes] /\ read_offset_ \in Offsets
          /\ Used + n \in 0..Size
      BY <1>1, <1>2, Sizes, RingAssumption DEF IInv, TypeOK
    <3>2. Unread' = Window(storage_', read_offset_, Used + n)
      BY <1>1, Shown
    <3> QED
      BY <3>1, <3>2, WindowTyped
  <2>4. ASSUME NEW i \in 1..(Used + n)
        PROVE  Unread'[i] = u[i]
    <3>1. CASE i <= Used
      <4>1. i - 1 \in 0..(Used - 1) /\ i \in 1..Used
        BY <3>1, Sizes, <1>1
      <4>2. Wrap(read_offset_ + i - 1) = Wrap(read_offset_ + (i - 1))
        BY <4>1, Sizes DEF Wrap, Offsets
      <4>3. storage_'[Wrap(read_offset_ + i - 1)]
              = storage_[Wrap(read_offset_ + i - 1)]
        BY <4>1, <4>2, WriteMissesUnread
      <4>4. Unread[i] = storage_[Wrap(read_offset_ + i - 1)]
        BY <4>1, Shown DEF Window
      <4> QED
        BY <3>1, <4>3, <4>4, <2>2, <2>3
    <3>2. CASE ~(i <= Used)
      <4>1. (i - Used) - 1 \in 0..(n - 1) /\ i - Used \in 1..n
        BY <3>2, Sizes, <1>1
      <4>2. Wrap(read_offset_ + i - 1)
              = Wrap(read_offset_ + Used + ((i - Used) - 1))
        BY <4>1, Sizes DEF Wrap, Offsets
      <4>3. storage_'[Wrap(read_offset_ + i - 1)]
              = prod_data[((i - Used) - 1) + 1]
        BY <4>1, <4>2, WriteAppends DEF n
      <4>4. ((i - Used) - 1) + 1 = i - Used
        BY <4>1
      <4> QED
        BY <3>2, <4>1, <4>3, <4>4, <2>1, <2>2, <2>3
    <3> QED
      BY <3>1, <3>2
  <2> HIDE DEF u
  <2> QED
    BY <2>2, <2>3, <2>4, SeqEqual DEF u
<1>5. Len(Unread) + n = Size \/ n = Len(prod_data)
  BY <1>1, Sizes, RingAssumption
<1>6. Len(Unread) + n <= Size
  BY <1>1, Sizes, RingAssumption
<1> QED
  BY <1>1, <1>3, <1>4, <1>5, <1>6 DEF Stream!Take

(* Steps that change nothing the stream shows.                             *)
LEMMA Hidden ==
  ASSUME UNCHANGED <<storage_, created, offsetVars, view>>
  PROVE  UNCHANGED <<Unread, Lent>>
BY DEF Unread, Lent, BytesFrom, Wrap, Used, storage_size_, offsetVars

LEMMA StepRefines == IInv /\ [Next]_vars => [Stream!Next]_Stream!streamVars
<1> SUFFICES ASSUME IInv, [Next]_vars
             PROVE  Stream!Next \/ UNCHANGED Stream!streamVars
  BY DEF Stream!streamVars
<1> USE DEF Stream!Next, Stream!streamVars
<1>1. CASE Create \/ Destroy
  BY <1>1, RebuildRefines DEF Create, Destroy
<1>2. CASE ProducerCall
  <2>1. PICK m \in 1..MaxWrite : \E data \in [1..m -> Bytes], wait \in Timeouts :
          WriteCall(data, wait)
    BY <1>2 DEF ProducerCall
  <2>2. prod_data = <<>> /\ prod_data' # <<>>
    BY <2>1 DEF WriteCall, Begin, IInv, CallsOK
  <2>3. UNCHANGED <<prod_written, Unread, Lent>>
    BY <2>1, Hidden DEF WriteCall, Begin
  <2> QED
    BY <2>2, <2>3 DEF Stream!Offer
<1>3. CASE ConsumerCall
  <2>1. UNCHANGED <<prod_data, prod_written, Unread, Lent>>
    BY <1>3, Hidden DEF ConsumerCall, AcquireCall, Begin
  <2> QED
    BY <2>1
<1>4. CASE Write
  BY <1>4, WriteRefines
<1>5. CASE WriteNothing
  <2>1. prod_data # <<>> /\ UNCHANGED <<Unread, Lent>>
    BY <1>5, Hidden DEF WriteNothing, GivesUp, IInv, CallsOK
  <2> QED
    BY <1>5, <2>1 DEF WriteNothing, Stream!Decline
<1>6. CASE Acquire
  BY <1>6, AcquireRefines
<1>7. CASE AcquireNothing
  BY <1>7, Hidden DEF AcquireNothing, GivesUp
<1>8. CASE Release
  BY <1>8, ReleaseRefines
<1>9. CASE \E t \in Threads : Sleeps(t) \/ Wakes(t) \/ Expires(t)
  BY <1>9, Hidden DEF Sleeps, Wakes, Expires, MoveTo
<1>10. CASE UNCHANGED vars
  BY <1>10, Hidden DEF vars, callVars
<1> QED
  BY <1>1, <1>2, <1>3, <1>4, <1>5, <1>6, <1>7, <1>8, <1>9, <1>10
  DEF Next, ProducerStep, ConsumerStep, Threads

(* ImplementsByteStream: for every size the ring is a bounded stream that  *)
(* loses, repeats, reorders and overwrites nothing.                        *)
THEOREM Refinement == Spec => ImplementsByteStream
BY Invariance, InitRefines, StepRefines, PTL
DEF Spec, ImplementsByteStream, Stream!Spec
=============================================================================
