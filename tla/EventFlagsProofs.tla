--------------------------- MODULE EventFlagsProofs ---------------------------
(***************************************************************************)
(* EventFlags misses no wake-up and implements EventGroup, for any threads,*)
(* any bits and any waits that keep RequestsAssumption.                    *)
(*                                                                         *)
(* The argument: since nobody clears a bit that is waited for, a wait that *)
(* was satisfied once stays so, which makes the late look at the bits as   *)
(* good as one in the instant of set().                                    *)
(***************************************************************************)
EXTENDS EventFlags, TLAPS

(* A wait is due exactly while its predicate holds; only a wait with a     *)
(* deadline expires.                                                       *)
DueIsPred ==
  \A t \in Threads :
    /\ due[t] <=> request[t] # NoRequest /\ pred(t)
    /\ pc[t] = "expired" => request[t].timeout = "bounded"

IInv == TypeOK /\ NoMissedWakeup /\ DueIsPred

LEMMA RequestTyped ==
  ASSUME TypeOK, NEW t \in Threads, pc[t] # "idle"
  PROVE  /\ request[t] \in Group!WaitRequest /\ request[t] \in Requests[t]
         /\ request[t] # NoRequest
         /\ request[t].bits \subseteq Group!Waited
BY RequestsAssumption DEF TypeOK, Group!Waited

LEMMA InitEstablishes == Init => IInv
BY RequestsAssumption
   DEF Init, IInv, TypeOK, NoMissedWakeup, DueIsPred, Asleep, pred

(* More bits satisfy no fewer waits.                                       *)
LEMMA HoldsGrows ==
  ASSUME NEW r \in Group!WaitRequest, NEW a, NEW b, a \subseteq b,
         Group!Holds(r, a)
  PROVE  Group!Holds(r, b)
BY DEF Group!Holds

(* Bits that nobody waits for satisfy no wait.                             *)
LEMMA HoldsApart ==
  ASSUME NEW r \in Group!WaitRequest, NEW b, NEW S, S \cap r.bits = {}
  PROVE  Group!Holds(r, b \ S) <=> Group!Holds(r, b)
BY DEF Group!Holds

LEMMA SetPreserves ==
  ASSUME IInv, NEW S \in SUBSET Bits, set(S)
  PROVE  IInv'
<1> USE DEF IInv, set, NotifyAll, Noted, Asleep
<1>1. TypeOK'
  BY DEF TypeOK
<1>2. NoMissedWakeup'
  BY DEF NoMissedWakeup, TypeOK
<1>3. DueIsPred'
  <2> SUFFICES ASSUME NEW t \in Threads
      PROVE /\ due'[t] <=> request[t] # NoRequest /\ Group!Holds(request[t], bits_')
            /\ pc'[t] = "expired" => request[t].timeout = "bounded"
    BY DEF DueIsPred, pred
  <2>1. pc'[t] = "expired" => pc[t] = "expired"
    BY DEF TypeOK
  <2>2. due'[t] = (due[t] \/ Group!Satisfied(t, bits_'))
    OBVIOUS
  <2>3. CASE pc[t] = "idle"
    BY <2>1, <2>2, <2>3 DEF Group!Satisfied, DueIsPred, TypeOK
  <2>4. CASE pc[t] # "idle"
    <3>1. due[t] => Group!Holds(request[t], bits_')
      BY <2>4, RequestTyped, HoldsGrows DEF DueIsPred, pred
    <3> QED
      BY <2>1, <2>2, <2>4, <3>1, RequestTyped DEF Group!Satisfied, DueIsPred
  <2> QED
    BY <2>3, <2>4
<1> QED
  BY <1>1, <1>2, <1>3

LEMMA ClearPreserves ==
  ASSUME IInv, NEW S \in SUBSET Bits, clear(S)
  PROVE  IInv'
<1> USE DEF IInv, clear
<1>1. TypeOK'
  BY DEF TypeOK
<1>2. ASSUME NEW t \in Threads, pc[t] # "idle"
      PROVE  Group!Holds(request[t], bits_') <=> Group!Holds(request[t], bits_)
  <2>1. request[t] \in Group!WaitRequest /\ S \cap request[t].bits = {}
    BY <1>2, RequestTyped
  <2> QED
    BY <2>1, HoldsApart
<1>3. NoMissedWakeup'
  BY <1>2 DEF NoMissedWakeup, Asleep, pred
<1>4. DueIsPred'
  BY <1>2 DEF DueIsPred, pred, TypeOK
<1> QED
  BY <1>1, <1>3, <1>4

LEMMA CallPreserves ==
  ASSUME IInv, NEW t \in Threads, NEW r \in Requests[t], Wait(t, r)
  PROVE  IInv'
<1> USE DEF IInv, Wait
<1>1. r \in Group!WaitRequest /\ r # NoRequest
  BY RequestsAssumption
<1>2. TypeOK'
  <2>1. Group!Holds(r, bits_) \in BOOLEAN
    BY DEF Group!Holds
  <2>2. due' \in [Threads -> BOOLEAN]
    BY <2>1 DEF TypeOK
  <2> QED
    BY <1>1, <2>2 DEF TypeOK
<1>3. NoMissedWakeup'
  BY DEF NoMissedWakeup, TypeOK, Asleep, pred
<1>4. \A u \in Threads : u # t =>
        pc'[u] = pc[u] /\ request'[u] = request[u] /\ due'[u] = due[u]
  BY DEF TypeOK
<1>5. pc'[t] = "call" /\ request'[t] = r /\ due'[t] = Group!Holds(r, bits_)
  BY DEF TypeOK
<1>6. DueIsPred'
  <2> SUFFICES ASSUME NEW u \in Threads
      PROVE /\ due'[u] <=> request'[u] # NoRequest /\ Group!Holds(request'[u], bits_')
            /\ pc'[u] = "expired" => request'[u].timeout = "bounded"
    BY DEF DueIsPred, pred
  <2>1. CASE u = t
    BY <2>1, <1>1, <1>5
  <2>2. CASE u # t
    BY <2>2, <1>4 DEF DueIsPred, pred
  <2> QED
    BY <2>1, <2>2
<1> QED
  BY <1>2, <1>3, <1>6

(* What a returning wait() clears is nobody else's.                        *)
LEMMA ReturnPreserves ==
  ASSUME IInv, NEW t \in Threads, pc[t] # "idle", Return(t)
  PROVE  IInv'
<1> USE DEF IInv, Return
<1>1. TypeOK'
  BY RequestsAssumption DEF TypeOK
<1>2. ASSUME NEW u \in Threads, u # t, pc[u] # "idle"
      PROVE  Group!Holds(request[u], bits_') <=> Group!Holds(request[u], bits_)
  <2>1. request[u] \in Requests[u] /\ request[t] \in Requests[t]
          /\ request[u] \in Group!WaitRequest
    BY <1>2, RequestTyped
  <2>2. request[t].clear_on_exit => request[t].bits \cap request[u].bits = {}
    BY <1>2, <2>1, RequestsAssumption
  <2> QED
    BY <2>1, <2>2, HoldsApart
<1>3. \A u \in Threads : u # t =>
        pc'[u] = pc[u] /\ request'[u] = request[u] /\ due'[u] = due[u]
  BY DEF TypeOK
<1>4. pc'[t] = "idle" /\ request'[t] = NoRequest /\ due'[t] = FALSE
  BY DEF TypeOK
<1>5. NoMissedWakeup'
  BY <1>2, <1>3, <1>4 DEF NoMissedWakeup, Asleep, pred
<1>6. DueIsPred'
  <2> SUFFICES ASSUME NEW u \in Threads
      PROVE /\ due'[u] <=> request'[u] # NoRequest /\ Group!Holds(request'[u], bits_')
            /\ pc'[u] = "expired" => request'[u].timeout = "bounded"
    BY DEF DueIsPred, pred
  <2>1. CASE u = t
    BY <2>1, <1>4
  <2>2. CASE u # t /\ pc[u] = "idle"
    BY <2>2, <1>3 DEF DueIsPred, TypeOK
  <2>3. CASE u # t /\ pc[u] # "idle"
    BY <2>3, <1>2, <1>3 DEF DueIsPred, pred
  <2> QED
    BY <2>1, <2>2, <2>3
<1> QED
  BY <1>1, <1>5, <1>6

LEMMA LockedPreserves ==
  ASSUME IInv, NEW t \in Threads, Locked(t)
  PROVE  IInv'
<1>1. CASE Return(t) /\ pc[t] # "idle"
  BY <1>1, ReturnPreserves
<1>2. CASE Sleep(t) /\ pc[t] # "idle" /\ ~pred(t)
  <2>1. TypeOK'
    BY <1>2 DEF IInv, Sleep, TypeOK
  <2>2. NoMissedWakeup' /\ DueIsPred'
    BY <1>2 DEF IInv, Sleep, TypeOK, NoMissedWakeup, DueIsPred, Asleep, pred
  <2> QED
    BY <2>1, <2>2 DEF IInv
<1> QED
  BY <1>1, <1>2 DEF Locked, Enter, Resume

LEMMA WakePreserves ==
  ASSUME IInv, NEW t \in Threads, WakesSpuriously(t) \/ Expires(t)
  PROVE  IInv'
<1> USE DEF IInv, WakesSpuriously, Expires
<1>1. TypeOK'
  BY DEF TypeOK
<1>2. NoMissedWakeup' /\ DueIsPred'
  BY DEF TypeOK, NoMissedWakeup, DueIsPred, Asleep, pred
<1> QED
  BY <1>1, <1>2

LEMMA StepPreserves == IInv /\ [Next]_vars => IInv'
<1> SUFFICES ASSUME IInv, [Next]_vars PROVE IInv'
  OBVIOUS
<1>1. CASE UNCHANGED vars
  BY <1>1 DEF vars, IInv, TypeOK, NoMissedWakeup, DueIsPred, Asleep, pred
<1>2. CASE Next
  BY <1>2, SetPreserves, ClearPreserves, CallPreserves, LockedPreserves,
     WakePreserves DEF Next
<1> QED
  BY <1>1, <1>2

(* The invariant holds in every reachable state.                           *)
THEOREM Invariance == Spec => []IInv
BY InitEstablishes, StepPreserves, PTL DEF Spec

(* Every variable keeps its type.                                          *)
THEOREM TypeCorrect == Spec => []TypeOK
<1>1. IInv => TypeOK
  BY DEF IInv
<1> QED
  BY <1>1, Invariance, PTL

(* However set(), clear() and wait() interleave, nobody sleeps whose bits  *)
(* are set.                                                                *)
THEOREM WakeupSafety == Spec => []NoMissedWakeup
<1>1. IInv => NoMissedWakeup
  BY DEF IInv
<1> QED
  BY <1>1, Invariance, PTL

-----------------------------------------------------------------------------
(* A return in the class is a return of the event group: due or timed out. *)
LEMMA LockedRefines ==
  ASSUME IInv, NEW t \in Threads, Locked(t)
  PROVE  Group!Return(t) \/ UNCHANGED Group!vars
<1>1. CASE Sleep(t)
  BY <1>1 DEF Sleep, Group!vars
<1>2. CASE Return(t) /\ pc[t] # "idle"
           /\ (pred(t) \/ request[t].timeout = "none" \/ pc[t] = "expired")
  <2>1. request[t] # NoRequest
    BY <1>2, RequestTyped DEF IInv
  <2>2. IF due[t] THEN Group!Holds(request[t], bits_)
        ELSE request[t].timeout # "forever"
    BY <1>2, <2>1 DEF IInv, DueIsPred, pred
  <2> QED
    BY <1>2, <2>1, <2>2 DEF Return, pred, Group!Return
<1> QED
  BY <1>1, <1>2 DEF Locked, Enter, Resume

LEMMA StepRefines == IInv /\ [Next]_vars => [Group!Next]_(Group!vars)
<1> SUFFICES ASSUME IInv, [Next]_vars
             PROVE  Group!Next \/ UNCHANGED Group!vars
  BY DEF Group!Next
<1>1. CASE UNCHANGED vars
  BY <1>1 DEF vars, Group!vars
<1>2. CASE \E S \in SUBSET Bits : set(S)
  BY <1>2 DEF set, Noted, Group!Set, Group!Next, Group!Satisfied
<1>3. CASE \E S \in SUBSET Bits : clear(S)
  BY <1>3 DEF clear, Group!Clear, Group!Next
<1>4. CASE \E t \in Threads : Locked(t)
  BY <1>4, LockedRefines DEF Group!Next
<1>5. CASE \E t \in Threads : WakesSpuriously(t) \/ Expires(t)
  BY <1>5 DEF WakesSpuriously, Expires, Group!vars
<1>6. CASE \E t \in Threads : \E r \in Requests[t] : Wait(t, r)
  <2>1. PICK t \in Threads : \E r \in Requests[t] : Wait(t, r)
    BY <1>6
  <2>2. request[t] = NoRequest
    BY <2>1 DEF IInv, TypeOK, Wait
  <2>3. \E r \in Requests[t] : Group!Wait(t, r)
    BY <2>1, <2>2 DEF Wait, Group!Wait
  <2> QED
    BY <2>3 DEF Group!Next
<1> QED
  BY <1>1, <1>2, <1>3, <1>4, <1>5, <1>6 DEF Next

(* The host's class and FreeRTOS's event group promise the same: the       *)
(* steps of EventFlags are steps of EventGroup.  (That a wait that is due  *)
(* returns is checked by TLC.)                                             *)
THEOREM Refinement == Spec => Group!Spec
<1>1. Init => Group!Init
  BY DEF Init, Group!Init
<1> QED
  BY <1>1, Invariance, StepRefines, PTL DEF Spec, Group!Spec
=============================================================================
