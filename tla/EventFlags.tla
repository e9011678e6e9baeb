----------------------------- MODULE EventFlags -----------------------------
(***************************************************************************)
(* The host's EventFlags (src/src/platform/event_flags.h): a word of bits  *)
(* under a mutex, with a condition variable for those that wait.  What a   *)
(* method does while it holds mtx_ is one step; a thread in wait() is      *)
(* about to lock it, asleep, or woken and about to lock it again.          *)
(*                                                                         *)
(* The callers are the threads of a DecoderSource: any of them sets bits,  *)
(* and none clears a bit another one waits for (WaitedBitsStay, in module  *)
(* DecoderSource).                                                         *)
(***************************************************************************)
EXTENDS Naturals

CONSTANTS Threads, Bits,
          Requests,      \* the waits each thread may make
          NoRequest      \* the thread is not in wait()

VARIABLES bits_,
          pc,            \* of each thread: "idle" when it is not in wait()
          request,       \* the arguments of its wait()
          result,        \* those of the bits it waited for that wait() returned
          due            \* history: the wait has been satisfied

vars == <<bits_, pc, request, result, due>>

Group == INSTANCE EventGroup WITH bits <- bits_

(* A wait() that clears what it waited for has these bits to itself.       *)
ASSUME RequestsAssumption ==
  /\ Requests \in [Threads -> SUBSET Group!WaitRequest]
  /\ NoRequest \notin Group!WaitRequest
  /\ \A t, u \in Threads : t # u =>
       \A r \in Requests[t], s \in Requests[u] :
         r.clear_on_exit => r.bits \cap s.bits = {}

Asleep == {t \in Threads : pc[t] = "asleep"}

TypeOK ==
  /\ bits_ \subseteq Bits
  /\ pc \in [Threads -> {"idle", "call", "asleep", "woken", "expired"}]
  /\ request \in [Threads -> Group!WaitRequest \cup {NoRequest}]
  /\ \A t \in Threads : IF pc[t] = "idle" THEN request[t] = NoRequest
                        ELSE request[t] \in Requests[t]
  /\ result \in [Threads -> SUBSET Bits]
  /\ due \in [Threads -> BOOLEAN]

Init ==
  /\ bits_ = {}
  /\ pc = [t \in Threads |-> "idle"]
  /\ request = [t \in Threads |-> NoRequest]
  /\ result = [t \in Threads |-> {}]
  /\ due = [t \in Threads |-> FALSE]

pred(t) == Group!Holds(request[t], bits_)

(* Fault: notify_one().                                                    *)
NotifyOne ==
  IF Asleep = {} THEN UNCHANGED pc
  ELSE \E t \in Asleep : pc' = [pc EXCEPT ![t] = "woken"]

NotifyAll == pc' = [t \in Threads |-> IF t \in Asleep THEN "woken" ELSE pc[t]]

(* History: which waits this set() satisfies.                              *)
Noted == due' = [t \in Threads |-> due[t] \/ Group!Satisfied(t, bits_')]

set(S) ==
  /\ bits_' = bits_ \cup S
  /\ NotifyAll
  /\ Noted
  /\ UNCHANGED <<request, result>>

(* bits_ &= ~bits.                                                         *)
clear(S) ==
  /\ S \cap Group!Waited = {}
  /\ bits_' = bits_ \ S
  /\ UNCHANGED <<pc, request, result, due>>

-----------------------------------------------------------------------------
(* wait(), called.                                                         *)
Wait(t, r) ==
  /\ pc[t] = "idle"
  /\ pc' = [pc EXCEPT ![t] = "call"]
  /\ request' = [request EXCEPT ![t] = r]
  /\ due' = [due EXCEPT ![t] = Group!Holds(r, bits_)]
  /\ result' = [result EXCEPT ![t] = {}]
  /\ UNCHANGED bits_

(* The last lines of wait(): the result, then clear_on_exit.               *)
Return(t) ==
  /\ result' = [result EXCEPT ![t] = bits_ \cap request[t].bits]
  /\ bits_' = IF request[t].clear_on_exit /\ pred(t)
              THEN bits_ \ request[t].bits ELSE bits_
  /\ pc' = [pc EXCEPT ![t] = "idle"]
  /\ request' = [request EXCEPT ![t] = NoRequest]
  /\ due' = [due EXCEPT ![t] = FALSE]

Sleep(t) ==
  /\ pc' = [pc EXCEPT ![t] = "asleep"]
  /\ UNCHANGED <<bits_, request, result, due>>

(* With the mutex, for the first time.                                     *)
Enter(t) ==
  /\ pc[t] = "call"
  /\ IF pred(t) \/ request[t].timeout = "none" THEN Return(t) ELSE Sleep(t)

(* Fault: a thread that wakes up takes it that its bits are set.           *)
ResumeTrusting(t) ==
  /\ pc[t] \in {"woken", "expired"}
  /\ Return(t)

(* cv_.wait() and wait_for() look at the predicate again, and sleep on     *)
(* until the deadline.                                                     *)
Resume(t) ==
  /\ pc[t] \in {"woken", "expired"}
  /\ IF pred(t) \/ pc[t] = "expired" THEN Return(t) ELSE Sleep(t)

(* A condition variable may wake a thread for no reason.                   *)
WakesSpuriously(t) ==
  /\ pc[t] = "asleep"
  /\ pc' = [pc EXCEPT ![t] = "woken"]
  /\ UNCHANGED <<bits_, request, result, due>>

Expires(t) ==
  /\ pc[t] = "asleep" /\ request[t].timeout = "bounded"
  /\ pc' = [pc EXCEPT ![t] = "expired"]
  /\ UNCHANGED <<bits_, request, result, due>>

Locked(t) == Enter(t) \/ Resume(t)

Next ==
  \/ \E S \in SUBSET Bits : set(S) \/ clear(S)
  \/ \E t \in Threads :
       \/ Locked(t) \/ WakesSpuriously(t) \/ Expires(t)
       \/ \E r \in Requests[t] : Wait(t, r)

Spec == Init /\ [][Next]_vars

(* Who wants the mutex gets it; nothing is assumed of deadlines.           *)
FairSpec == Spec /\ \A t \in Threads : WF_vars(Locked(t))

-----------------------------------------------------------------------------
(* Nobody sleeps whose bits are set: between the look at the predicate and *)
(* the sleep there is no gap that a set() could fall into.                 *)
NoMissedWakeup == \A t \in Asleep : ~pred(t)

(* A wait() that was satisfied at any time of its call reports it, though  *)
(* the thread looks at the bits only when it has the mutex again, and no   *)
(* other wait() returns early; and it returns because of set(), not of its *)
(* deadline ("Wakes immediately on a stop command or decoder exit").       *)
ImplementsEventGroup == Group!FairSpec
=============================================================================
