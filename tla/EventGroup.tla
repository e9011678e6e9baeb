----------------------------- MODULE EventGroup -----------------------------
(***************************************************************************)
(* What EventFlags (src/src/platform/event_flags.h) promises the threads   *)
(* of a DecoderSource: an event group as FreeRTOS has one, which is what   *)
(* the ESP-IDF configuration uses.  set() releases every thread whose wait *)
(* it satisfies, in that instant; a wait that was satisfied never reports  *)
(* a timeout.                                                              *)
(***************************************************************************)
EXTENDS Naturals

CONSTANTS Threads, Bits,
          Requests,      \* the waits each thread may make
          NoRequest      \* the thread is not in wait()

WaitRequest == [bits : SUBSET Bits \ {{}}, wait_all : BOOLEAN,
                clear_on_exit : BOOLEAN, timeout : {"none", "bounded", "forever"}]

VARIABLES bits,
          request,       \* of each thread, the wait it is in
          due,           \* whether that wait has been satisfied
          result         \* of each thread, the bits its last wait reported to it

vars == <<bits, request, due, result>>

Holds(r, b) == IF r.wait_all THEN r.bits \subseteq b ELSE r.bits \cap b # {}
Satisfied(t, b) == request[t] # NoRequest /\ Holds(request[t], b)
Waited == UNION {request[t].bits : t \in {u \in Threads : request[u] # NoRequest}}

Init ==
  /\ bits = {}
  /\ request = [t \in Threads |-> NoRequest]
  /\ due = [t \in Threads |-> FALSE]
  /\ result = [t \in Threads |-> {}]

Set(S) ==
  /\ bits' = bits \cup S
  /\ due' = [t \in Threads |-> due[t] \/ Satisfied(t, bits')]
  /\ UNCHANGED <<request, result>>

(* Nobody clears a bit that another thread waits for.                      *)
Clear(S) ==
  /\ S \cap Waited = {}
  /\ bits' = bits \ S
  /\ UNCHANGED <<request, due, result>>

Wait(t, r) ==
  /\ request[t] = NoRequest
  /\ request' = [request EXCEPT ![t] = r]
  /\ due' = [due EXCEPT ![t] = Holds(r, bits)]
  /\ result' = [result EXCEPT ![t] = {}]
  /\ UNCHANGED bits

(* A wait that is due reports what it waited for; another one only returns *)
(* because its time is over.                                               *)
Return(t) ==
  /\ request[t] # NoRequest
  /\ IF due[t] THEN Holds(request[t], bits) ELSE request[t].timeout # "forever"
  /\ result' = [result EXCEPT ![t] = bits \cap request[t].bits]
  /\ bits' = IF request[t].clear_on_exit /\ Holds(request[t], bits)
             THEN bits \ request[t].bits ELSE bits
  /\ request' = [request EXCEPT ![t] = NoRequest]
  /\ due' = [due EXCEPT ![t] = FALSE]

Next ==
  \/ \E S \in SUBSET Bits : Set(S) \/ Clear(S)
  \/ \E t \in Threads : Return(t) \/ \E r \in Requests[t] : Wait(t, r)

Spec == Init /\ [][Next]_vars

(* A wait that is due returns, without a deadline to help.                 *)
ReturnDue(t) == due[t] /\ Return(t)

FairSpec == Spec /\ \A t \in Threads : WF_vars(ReturnDue(t))
=============================================================================
