---------------------------- MODULE SpscRingBuffer ----------------------------
(***************************************************************************)
(* The host's byte ring (src/src/platform/spsc_ring_buffer.h) as RingBuffer*)
(* (src/src/ring_buffer.cpp) uses it: one producer thread that writes, one *)
(* consumer thread that acquires and releases a view, and their owner, who *)
(* creates and destroys the ring while neither is active.                  *)
(*                                                                         *)
(* Everything a method does under mtx_ is one step.  A thread that waits on*)
(* its condition variable is "asleep" without the mutex; a notification,   *)
(* the deadline or a spurious wake-up makes it runnable, and once it has   *)
(* the mutex again it looks at its predicate again.                        *)
(***************************************************************************)
EXTENDS Integers, Sequences

CONSTANTS Size,        \* the size given to create(), in bytes
          Bytes,       \* the values a byte may have
          MaxWrite,    \* bound: the longest write() asked for
          MaxAcquire   \* the consumer's max_len (the decoder's output size)

ASSUME RingAssumption ==
  /\ Size \in Nat \ {0}
  /\ Bytes # {}
  /\ MaxWrite \in Nat \ {0}
  /\ MaxAcquire \in Nat \ {0}

VARIABLES
  storage_,       \* the bytes, by offset
  created,        \* storage_ is not nullptr
  write_offset_, read_offset_, free_bytes_, acquired_len_,
  pc, timeout,    \* each thread's step in its call, and its argument
  prod_data,      \* the argument of the write() in progress
  prod_written,   \* what the last write() returned
  view            \* where the consumer's data pointer points

offsetVars == <<write_offset_, read_offset_, free_bytes_, acquired_len_>>
callVars == <<pc, timeout, prod_data, prod_written, view>>
vars == <<storage_, created, offsetVars, callVars>>

Threads == {"producer", "consumer"}
Timeouts == {"none", "bounded", "forever"}   \* 0, a number, UINT32_MAX
Offsets == 0..(Size - 1)

storage_size_ == IF created THEN Size ELSE 0
Used == storage_size_ - free_bytes_
HasSpace == free_bytes_ > 0
HasData == free_bytes_ < storage_size_

(* What a thread waits for: has_space and has_data.                        *)
Ready(t) == IF t = "producer" THEN HasSpace ELSE HasData

TypeOK ==
  /\ storage_ \in [Offsets -> Bytes]
  /\ created \in BOOLEAN
  /\ write_offset_ \in Offsets
  /\ read_offset_ \in Offsets
  /\ free_bytes_ \in 0..storage_size_
  /\ acquired_len_ \in 0..Size
  /\ pc \in [Threads -> {"idle", "call", "asleep", "woken", "expired"}]
  /\ timeout \in [Threads -> Timeouts]
  /\ prod_data \in Seq(Bytes)
  /\ prod_written \in 0..Size
  /\ view \in Offsets

(* A default-constructed ring; the memory it will get holds anything.      *)
Init ==
  /\ storage_ \in [Offsets -> Bytes]
  /\ created = FALSE
  /\ write_offset_ = 0 /\ read_offset_ = 0
  /\ free_bytes_ = 0 /\ acquired_len_ = 0
  /\ pc = [t \in Threads |-> "idle"]
  /\ timeout = [t \in Threads |-> "none"]
  /\ prod_data = <<>> /\ prod_written = 0
  /\ view = 0

-----------------------------------------------------------------------------
(* The owner.  RingBuffer::create(), reset() and release() require that no *)
(* reader or writer is active; the decoder has then released its view.     *)

Rebuild(exists) ==
  /\ \A t \in Threads : pc[t] = "idle"
  /\ acquired_len_ = 0
  /\ created' = exists
  /\ free_bytes_' = IF exists THEN Size ELSE 0
  /\ write_offset_' = 0 /\ read_offset_' = 0 /\ acquired_len_' = 0
  /\ UNCHANGED <<storage_, callVars>>

Create == Rebuild(TRUE)
Destroy == Rebuild(FALSE)

-----------------------------------------------------------------------------
(* How a call of thread t begins, waits in wait_cv() and ends.             *)

Begin(t, wait) ==
  /\ pc[t] = "idle"
  /\ pc' = [pc EXCEPT ![t] = "call"]
  /\ timeout' = [timeout EXCEPT ![t] = wait]
  /\ UNCHANGED <<storage_, created, offsetVars, prod_written, view>>

(* The thread has the mutex and finds what it waits for.                   *)
Proceeds(t) ==
  /\ pc[t] \in {"call", "woken", "expired"}
  /\ created /\ Ready(t)

(* There is no storage, or there is no time left: the call returns 0.      *)
GivesUp(t) ==
  /\ \/ pc[t] = "call" /\ ~created
     \/ pc[t] = "call" /\ created /\ ~Ready(t) /\ timeout[t] = "none"
     \/ pc[t] = "expired" /\ ~Ready(t)
  /\ UNCHANGED <<storage_, created, offsetVars, view>>

Returns(t) ==
  /\ pc' = [pc EXCEPT ![t] = "idle"]
  /\ timeout' = [timeout EXCEPT ![t] = "none"]

MoveTo(t, step) ==
  /\ pc' = [pc EXCEPT ![t] = step]
  /\ UNCHANGED <<storage_, created, offsetVars, timeout, prod_data,
                 prod_written, view>>

Sleeps(t) ==
  /\ \/ pc[t] = "call" /\ created /\ timeout[t] # "none"
     \/ pc[t] = "woken"
  /\ ~Ready(t)
  /\ MoveTo(t, "asleep")

Wakes(t) == pc[t] = "asleep" /\ MoveTo(t, "woken")

Expires(t) ==
  /\ pc[t] \in {"asleep", "woken"}
  /\ timeout[t] = "bounded"
  /\ MoveTo(t, "expired")

(* The end of a call of t that also notifies the other thread.             *)
Notified(pcs, other) ==
  IF pcs[other] = "asleep" THEN [pcs EXCEPT ![other] = "woken"] ELSE pcs

-----------------------------------------------------------------------------
Lesser(a, b) == IF a < b THEN a ELSE b

Wrap(offset) == offset % Size

(* Fault: what does not fit before the end of the storage is not copied.   *)
CopiedInOnePiece(data, offset, len) ==
  [i \in Offsets |->
     IF i >= offset /\ i - offset < len THEN data[i - offset + 1]
     ELSE storage_[i]]

(* circular_copy_in(): the first len bytes of data, from offset on.        *)
CopiedIn(data, offset, len) ==
  [i \in Offsets |->
     LET at == IF i >= offset THEN i - offset ELSE i + Size - offset
     IN  IF at < len THEN data[at + 1] ELSE storage_[i]]

WriteCall(data, wait) ==
  /\ Begin("producer", wait)
  /\ prod_data' = data

WriteBytes(n) ==
  /\ storage_' = CopiedIn(prod_data, write_offset_, n)
  /\ write_offset_' = Wrap(write_offset_ + n)
  /\ free_bytes_' = free_bytes_ - Lesser(n, free_bytes_)
  /\ prod_data' = <<>> /\ prod_written' = n
  /\ timeout' = [timeout EXCEPT !["producer"] = "none"]
  /\ UNCHANGED <<created, read_offset_, acquired_len_, view>>

(* Fault: the copy does not stop at the free bytes.                        *)
WriteOverrun ==
  /\ Proceeds("producer")
  /\ WriteBytes(Lesser(Len(prod_data), Size))
  /\ pc' = Notified([pc EXCEPT !["producer"] = "idle"], "consumer")

(* Fault: the consumer is not told that there are bytes.                   *)
WriteSilently ==
  /\ Proceeds("producer")
  /\ WriteBytes(Lesser(Len(prod_data), free_bytes_))
  /\ pc' = [pc EXCEPT !["producer"] = "idle"]

Write ==
  /\ Proceeds("producer")
  /\ WriteBytes(Lesser(Len(prod_data), free_bytes_))
  /\ pc' = Notified([pc EXCEPT !["producer"] = "idle"], "consumer")

WriteNothing ==
  /\ GivesUp("producer")
  /\ Returns("producer")
  /\ prod_data' = <<>> /\ prod_written' = 0

(* One acquisition at a time.                                              *)
AcquireCall(wait) ==
  /\ acquired_len_ = 0
  /\ Begin("consumer", wait)
  /\ UNCHANGED prod_data

(* A view of contiguous bytes at the read offset.                          *)
Acquire ==
  /\ Proceeds("consumer")
  /\ acquired_len_' =
       Lesser(MaxAcquire, Lesser(Used, storage_size_ - read_offset_))
  /\ view' = read_offset_
  /\ Returns("consumer")
  /\ UNCHANGED <<storage_, created, write_offset_, read_offset_, free_bytes_,
                 prod_data, prod_written>>

AcquireNothing ==
  /\ GivesUp("consumer")
  /\ Returns("consumer")
  /\ UNCHANGED <<prod_data, prod_written>>

ReleaseBytes ==
  /\ pc["consumer"] = "idle"
  /\ acquired_len_ > 0
  /\ read_offset_' = Wrap(read_offset_ + acquired_len_)
  /\ free_bytes_' = free_bytes_ + acquired_len_
  /\ acquired_len_' = 0
  /\ UNCHANGED <<storage_, created, write_offset_, timeout, prod_data,
                 prod_written, view>>

(* Fault: the producer is not told that there is space.                    *)
ReleaseSilently == ReleaseBytes /\ UNCHANGED pc

Release == ReleaseBytes /\ pc' = Notified(pc, "producer")

-----------------------------------------------------------------------------
(* The decoder's wait for data is bounded; the reader's is configured.     *)
ProducerCall ==
  \E n \in 1..MaxWrite : \E data \in [1..n -> Bytes], wait \in Timeouts :
    WriteCall(data, wait)

ConsumerCall == \E wait \in {"none", "bounded"} : AcquireCall(wait)

ProducerStep == Write \/ WriteNothing \/ Sleeps("producer")

ConsumerStep == Acquire \/ AcquireNothing \/ Sleeps("consumer")

Next ==
  \/ Create \/ Destroy
  \/ ProducerCall \/ ProducerStep
  \/ ConsumerCall \/ ConsumerStep \/ Release
  \/ \E t \in Threads : Wakes(t) \/ Expires(t)

Spec == Init /\ [][Next]_vars

(* Each thread runs, deadlines pass, and the decoder, as long as it lives, *)
(* goes on reading and releasing.  That anybody is woken without a reason  *)
(* is not assumed.                                                         *)
FairSpec ==
  /\ Spec
  /\ WF_vars(ProducerStep)
  /\ WF_vars(ConsumerCall \/ ConsumerStep \/ Release)
  /\ \A t \in Threads : WF_vars(Expires(t))

-----------------------------------------------------------------------------
(* The two offsets and the number of free bytes, three variables for one   *)
(* fact, agree after any sequence of partial writes and reads, and an      *)
(* acquired view ends before the end of the storage and of the data.       *)
OffsetsAgree ==
  /\ write_offset_ = Wrap(read_offset_ + Used)
  /\ acquired_len_ <= Used
  /\ read_offset_ + acquired_len_ <= Size
  /\ acquired_len_ > 0 => view = read_offset_

(* No wake-up is lost: nobody sleeps while what it waits for is there, and *)
(* nobody sleeps on a ring that is gone.                                   *)
NoMissedWakeup ==
  \A t \in Threads : pc[t] = "asleep" => created /\ ~Ready(t)

(* The decoder reads through its view without the mutex while the reader   *)
(* writes: no byte of the view changes until it is released.               *)
ViewIsStable ==
  [][acquired_len_ > 0 /\ acquired_len_' > 0 =>
       /\ view' = view /\ acquired_len_' = acquired_len_
       /\ \A i \in view..(view + acquired_len_ - 1) :
            storage_'[i] = storage_[i]]_vars

(* The bytes at len offsets from offset on, in order.                      *)
BytesFrom(offset, len) == [i \in 1..len |-> storage_[Wrap(offset + i - 1)]]

Unread == BytesFrom(read_offset_, Used)
Lent == BytesFrom(view, acquired_len_)

Stream == INSTANCE ByteStream WITH
            Capacity <- Size,
            offered <- prod_data,
            accepted <- prod_written,
            unread <- Unread,
            lent <- Lent

(* The ring is a stream of bytes: what the consumer sees is what the       *)
(* producer wrote, in order, once, and as much as was reported written.    *)
ImplementsByteStream == Stream!Spec

(* write() returns even if it may wait forever, as long as the decoder     *)
(* reads; receive_acquire() returns in any case.                           *)
CallsReturn == \A t \in Threads : pc[t] # "idle" ~> pc[t] = "idle"
=============================================================================
