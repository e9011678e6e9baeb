------------------------- MODULE EspHttpClientProofs -------------------------
(***************************************************************************)
(* The safety of EspHttpClient for every number of attempts, redirects and *)
(* chunks (src/src/esp/http_client.cpp).  The invariant says what is true  *)
(* at each step of open() and of the download: which counters the cycles   *)
(* add up to, what of the response is known, and what completion means.    *)
(***************************************************************************)
EXTENDS EspHttpClient, TLAPS

(* TypeOK in parts, with inequalities for the ranges.                      *)
Ranges ==
  /\ attempts \in Nat /\ 1 <= attempts /\ attempts <= MaxAttempts
  /\ redirect_count \in Nat /\ redirect_count <= MaxRedirections
  /\ cycles \in Nat /\ cycles <= MaxAttempts + MaxRedirections
  /\ unpolled \in Nat /\ unpolled <= MaxAttempts + MaxRedirections
  /\ body \in Nat /\ body <= MaxBody
  /\ received \in Nat /\ received <= MaxBody

Kinds ==
  /\ pc \in {"init", "connect", "fetch", "fetched", "opened", "empty", "closed"}
  /\ client_ \in BOOLEAN /\ cancel \in BOOLEAN /\ complete_ \in BOOLEAN
  /\ location \in BOOLEAN
  /\ header_len \in {"none", "some", "again", "error"}
  /\ status \in {"none", "ok", "error"}
  /\ content_type \in MaybeTypes /\ given \in MaybeTypes
  /\ link \in {"up", "broken", "closed"}
  /\ result \in {"none", "FINISHED", "FAILED"}

(* A handle is created only when none is held.                             *)
HandleInv ==
  /\ HandleOwned
  /\ pc = "init" => ~client_

(* Each attempt and each redirect spends one cycle, and cancel_check() is  *)
(* asked between two attempts, but not between two redirects.              *)
CycleInv ==
  /\ pc = "init" => redirect_count = 0
  /\ pc \in {"init", "connect"} =>
       /\ cycles = attempts + redirect_count - 1
       /\ unpolled <= redirect_count
  /\ pc \in {"fetch", "fetched"} => cycles = attempts + redirect_count
  /\ cycles <= attempts + redirect_count
  /\ unpolled <= redirect_count + 1

(* Before the headers of an attempt there is no Content-Type, after them   *)
(* it is theirs.                                                           *)
ResponseInv ==
  redirect_count = 0 =>
    /\ pc \in {"init", "connect", "fetch"} => content_type = NoType
    /\ pc \in {"fetched", "opened", "empty"} => content_type = given

(* Completion is noted when the body was read; a result is the end of it.  *)
ResultInv ==
  /\ pc = "empty" /\ complete_ => received = body
  /\ received <= body
  /\ result # "none" => pc = "closed"
  /\ ResultIsTrue

EInv == Ranges /\ Kinds /\ HandleInv /\ CycleInv /\ ResponseInv /\ ResultInv

(* Before open() there is no handle, and no time has passed.               *)
LEMMA EInit == Init => EInv
<1> USE BudgetAssumption DEF BudgetAssumption, MaybeTypes
<1> SUFFICES ASSUME Init PROVE EInv
  OBVIOUS
<1>1. Ranges
  BY DEF Init, Ranges, FirstAttempt
<1>2. Kinds
  BY DEF Init, Kinds
<1>3. HandleInv /\ CycleInv /\ ResponseInv /\ ResultInv
  BY DEF Init, HandleInv, HandleOwned, CycleInv, ResponseInv, ResultInv,
     ResultIsTrue, FirstAttempt
<1> QED
  BY <1>1, <1>2, <1>3 DEF EInv

(* Every step of open(), read() and close() keeps the invariant.           *)
LEMMA ENext == EInv /\ [Next]_vars => EInv'
<1> USE BudgetAssumption
    DEF BudgetAssumption, counters, response, clock, openVars, readVars
<1> SUFFICES ASSUME EInv, [Next]_vars PROVE EInv'
  OBVIOUS
<1>0. Ranges /\ Kinds /\ HandleInv /\ CycleInv /\ ResponseInv /\ ResultInv
  BY DEF EInv
<1>1. CASE UNCHANGED vars
  <2> USE DEF vars
  <2>1. Ranges' /\ Kinds'
    BY <1>0, <1>1 DEF Ranges, Kinds, MaybeTypes
  <2>2. HandleInv' /\ CycleInv'
    BY <1>0, <1>1 DEF HandleInv, HandleOwned, CycleInv
  <2>3. ResponseInv' /\ ResultInv'
    BY <1>0, <1>1 DEF ResponseInv, ResultInv, ResultIsTrue
  <2> QED
    BY <2>1, <2>2, <2>3 DEF EInv
<1>2. CASE InitHandle /\ UNCHANGED readVars
  <2> USE DEF InitHandle
  <2>1. Ranges'
    BY <1>0, <1>2 DEF Ranges, CycleInv
  <2>2. Kinds'
    <3>1. pc' \in {"connect", "closed"} /\ client_' \in BOOLEAN
      BY <1>0, <1>2 DEF Kinds
    <3>2. UNCHANGED <<response, cancel, readVars>>
      BY <1>2
    <3> QED
      BY <1>0, <3>1, <3>2 DEF Kinds
  <2>3. HandleInv'
    BY <1>0, <1>2 DEF Kinds, HandleInv, HandleOwned
  <2>4. CycleInv'
    BY <1>0, <1>2 DEF Ranges, CycleInv
  <2>5. ResponseInv'
    BY <1>0, <1>2 DEF Ranges, ResponseInv
  <2>6. ResultInv'
    BY <1>0, <1>2 DEF Ranges, ResultInv, ResultIsTrue
  <2> QED
    BY <2>1, <2>2, <2>3, <2>4, <2>5, <2>6 DEF EInv
<1>3. CASE Connect /\ UNCHANGED readVars
  <2> USE DEF Connect, Refuse, Cleanup
  <2>1. Ranges'
    BY <1>0, <1>3 DEF Ranges, CycleInv
  <2>2. Kinds'
    BY <1>0, <1>3 DEF Kinds, HandleInv, MaybeTypes
  <2>3. HandleInv'
    BY <1>0, <1>3 DEF Kinds, HandleInv, HandleOwned
  <2>4. CycleInv'
    BY <1>0, <1>3 DEF Ranges, CycleInv
  <2>5. ResponseInv'
    BY <1>0, <1>3 DEF Ranges, ResponseInv
  <2>6. ResultInv'
    BY <1>0, <1>3 DEF Ranges, ResultInv, ResultIsTrue
  <2> QED
    BY <2>1, <2>2, <2>3, <2>4, <2>5, <2>6 DEF EInv
<1>4. CASE Fetch /\ UNCHANGED readVars
  <2> USE DEF Fetch
  <2>1. Ranges'
    BY <1>0, <1>4 DEF Ranges, CycleInv
  <2>2. Kinds'
    BY <1>0, <1>4 DEF Kinds, HandleInv, MaybeTypes
  <2>3. HandleInv'
    BY <1>0, <1>4 DEF Kinds, HandleInv, HandleOwned
  <2>4. CycleInv'
    BY <1>0, <1>4 DEF Ranges, CycleInv
  <2>5. ResponseInv'
    BY <1>0, <1>4 DEF Ranges, ResponseInv
  <2>6. ResultInv'
    BY <1>0, <1>4 DEF Ranges, ResultInv, ResultIsTrue
  <2> QED
    BY <2>1, <2>2, <2>3, <2>4, <2>5, <2>6 DEF EInv
<1>5. CASE GiveUp /\ UNCHANGED readVars
  <2> USE DEF GiveUp, Refuse, Cleanup
  <2>1. Ranges'
    BY <1>0, <1>5 DEF Ranges, CycleInv
  <2>2. Kinds'
    BY <1>0, <1>5 DEF Kinds, HandleInv, MaybeTypes
  <2>3. HandleInv'
    BY <1>0, <1>5 DEF Kinds, HandleInv, HandleOwned
  <2>4. CycleInv'
    BY <1>0, <1>5 DEF Ranges, CycleInv
  <2>5. ResponseInv'
    BY <1>0, <1>5 DEF Ranges, ResponseInv
  <2>6. ResultInv'
    BY <1>0, <1>5 DEF Ranges, ResultInv, ResultIsTrue
  <2> QED
    BY <2>1, <2>2, <2>3, <2>4, <2>5, <2>6 DEF EInv
<1>6. CASE Retry /\ UNCHANGED readVars
  <2> USE DEF Retry, MayRetry, Cleanup
  <2>1. Ranges'
    BY <1>0, <1>6 DEF Ranges, CycleInv
  <2>2. Kinds'
    BY <1>0, <1>6 DEF Kinds, HandleInv, MaybeTypes
  <2>3. HandleInv'
    BY <1>0, <1>6 DEF Kinds, HandleInv, HandleOwned
  <2>4. CycleInv'
    BY <1>0, <1>6 DEF Ranges, CycleInv
  <2>5. ResponseInv'
    BY <1>0, <1>6 DEF Ranges, ResponseInv
  <2>6. ResultInv'
    BY <1>0, <1>6 DEF Ranges, ResultInv, ResultIsTrue
  <2> QED
    BY <2>1, <2>2, <2>3, <2>4, <2>5, <2>6 DEF EInv
<1>7. CASE FollowRedirect /\ UNCHANGED readVars
  <2> USE DEF FollowRedirect
  <2>1. Ranges'
    BY <1>0, <1>7 DEF Ranges, CycleInv
  <2>2. Kinds'
    BY <1>0, <1>7 DEF Kinds, HandleInv, MaybeTypes
  <2>3. HandleInv'
    BY <1>0, <1>7 DEF Kinds, HandleInv, HandleOwned
  <2>4. CycleInv'
    BY <1>0, <1>7 DEF Ranges, CycleInv
  <2>5. ResponseInv'
    BY <1>0, <1>7 DEF Ranges, ResponseInv
  <2>6. ResultInv'
    BY <1>0, <1>7 DEF Ranges, ResultInv, ResultIsTrue
  <2> QED
    BY <2>1, <2>2, <2>3, <2>4, <2>5, <2>6 DEF EInv
<1>8. CASE Succeed /\ UNCHANGED readVars
  <2> USE DEF Succeed, LastResponse
  <2>1. Ranges'
    BY <1>0, <1>8 DEF Ranges, CycleInv
  <2>2. Kinds'
    BY <1>0, <1>8 DEF Kinds, HandleInv, MaybeTypes
  <2>3. HandleInv'
    BY <1>0, <1>8 DEF Kinds, HandleInv, HandleOwned
  <2>4. CycleInv'
    BY <1>0, <1>8 DEF Ranges, CycleInv
  <2>5. ResponseInv'
    BY <1>0, <1>8 DEF Ranges, ResponseInv
  <2>6. ResultInv'
    BY <1>0, <1>8 DEF Ranges, ResultInv, ResultIsTrue
  <2> QED
    BY <2>1, <2>2, <2>3, <2>4, <2>5, <2>6 DEF EInv
<1>9. CASE BadStatus /\ UNCHANGED readVars
  <2> USE DEF BadStatus, LastResponse, Refuse, Cleanup
  <2>1. Ranges'
    BY <1>0, <1>9 DEF Ranges, CycleInv
  <2>2. Kinds'
    BY <1>0, <1>9 DEF Kinds, HandleInv, MaybeTypes
  <2>3. HandleInv'
    BY <1>0, <1>9 DEF Kinds, HandleInv, HandleOwned
  <2>4. CycleInv'
    BY <1>0, <1>9 DEF Ranges, CycleInv
  <2>5. ResponseInv'
    BY <1>0, <1>9 DEF Ranges, ResponseInv
  <2>6. ResultInv'
    BY <1>0, <1>9 DEF Ranges, ResultInv, ResultIsTrue
  <2> QED
    BY <2>1, <2>2, <2>3, <2>4, <2>5, <2>6 DEF EInv
<1>10. CASE ReadChunk
  <2> USE DEF ReadChunk, MayRead
  <2>1. Ranges'
    BY <1>0, <1>10 DEF Ranges, CycleInv
  <2>2. Kinds'
    BY <1>0, <1>10 DEF Kinds, HandleInv, MaybeTypes
  <2>3. HandleInv'
    BY <1>0, <1>10 DEF Kinds, HandleInv, HandleOwned
  <2>4. CycleInv'
    BY <1>0, <1>10 DEF Ranges, CycleInv
  <2>5. ResponseInv'
    BY <1>0, <1>10 DEF Ranges, ResponseInv
  <2>6. ResultInv'
    BY <1>0, <1>10 DEF Ranges, ResultInv, ResultIsTrue
  <2> QED
    BY <2>1, <2>2, <2>3, <2>4, <2>5, <2>6 DEF EInv
<1>11. CASE ReadNothing
  <2> USE DEF ReadNothing, MayRead
  <2>1. Ranges'
    BY <1>0, <1>11 DEF Ranges, CycleInv
  <2>2. Kinds'
    BY <1>0, <1>11 DEF Kinds, HandleInv, MaybeTypes
  <2>3. HandleInv'
    BY <1>0, <1>11 DEF Kinds, HandleInv, HandleOwned
  <2>4. CycleInv'
    BY <1>0, <1>11 DEF Ranges, CycleInv
  <2>5. ResponseInv'
    BY <1>0, <1>11 DEF Ranges, ResponseInv
  <2>6. ResultInv'
    BY <1>0, <1>11 DEF Ranges, ResultInv, ResultIsTrue
  <2> QED
    BY <2>1, <2>2, <2>3, <2>4, <2>5, <2>6 DEF EInv
<1>12. CASE ReadFails
  <2> USE DEF ReadFails, MayRead, Refuse, Cleanup
  <2>1. Ranges'
    BY <1>0, <1>12 DEF Ranges, CycleInv
  <2>2. Kinds'
    BY <1>0, <1>12 DEF Kinds, HandleInv, MaybeTypes
  <2>3. HandleInv'
    BY <1>0, <1>12 DEF Kinds, HandleInv, HandleOwned
  <2>4. CycleInv'
    BY <1>0, <1>12 DEF Ranges, CycleInv
  <2>5. ResponseInv'
    BY <1>0, <1>12 DEF Ranges, ResponseInv
  <2>6. ResultInv'
    BY <1>0, <1>12 DEF Ranges, ResultInv, ResultIsTrue
  <2> QED
    BY <2>1, <2>2, <2>3, <2>4, <2>5, <2>6 DEF EInv
<1>13. CASE Idle
  <2> USE DEF Idle
  <2>1. Ranges'
    BY <1>0, <1>13 DEF Ranges, CycleInv
  <2>2. Kinds'
    BY <1>0, <1>13 DEF Kinds, HandleInv, MaybeTypes
  <2>3. HandleInv'
    BY <1>0, <1>13 DEF Kinds, HandleInv, HandleOwned
  <2>4. CycleInv'
    BY <1>0, <1>13 DEF Ranges, CycleInv
  <2>5. ResponseInv'
    BY <1>0, <1>13 DEF Ranges, ResponseInv
  <2>6. ResultInv'
    BY <1>0, <1>13 DEF Ranges, ResultInv, ResultIsTrue
  <2> QED
    BY <2>1, <2>2, <2>3, <2>4, <2>5, <2>6 DEF EInv
<1>14. CASE Completes
  <2> USE DEF Completes, Refuse, Cleanup
  <2>1. Ranges'
    BY <1>0, <1>14 DEF Ranges, CycleInv
  <2>2. Kinds'
    BY <1>0, <1>14 DEF Kinds, HandleInv, MaybeTypes
  <2>3. HandleInv'
    BY <1>0, <1>14 DEF Kinds, HandleInv, HandleOwned
  <2>4. CycleInv'
    BY <1>0, <1>14 DEF Ranges, CycleInv
  <2>5. ResponseInv'
    BY <1>0, <1>14 DEF Ranges, ResponseInv
  <2>6. ResultInv'
    BY <1>0, <1>14 DEF Ranges, ResultInv, ResultIsTrue
  <2> QED
    BY <2>1, <2>2, <2>3, <2>4, <2>5, <2>6 DEF EInv
<1>15. CASE Close
  <2> USE DEF Close, Refuse, Cleanup
  <2>1. Ranges'
    BY <1>0, <1>15 DEF Ranges, CycleInv
  <2>2. Kinds'
    BY <1>0, <1>15 DEF Kinds, HandleInv, MaybeTypes
  <2>3. HandleInv'
    BY <1>0, <1>15 DEF Kinds, HandleInv, HandleOwned
  <2>4. CycleInv'
    BY <1>0, <1>15 DEF Ranges, CycleInv
  <2>5. ResponseInv'
    BY <1>0, <1>15 DEF Ranges, ResponseInv
  <2>6. ResultInv'
    BY <1>0, <1>15 DEF Ranges, ResultInv, ResultIsTrue
  <2> QED
    BY <2>1, <2>2, <2>3, <2>4, <2>5, <2>6 DEF EInv
<1>16. CASE CancelRequested
  <2> USE DEF CancelRequested
  <2>1. Ranges'
    BY <1>0, <1>16 DEF Ranges, CycleInv
  <2>2. Kinds'
    BY <1>0, <1>16 DEF Kinds, HandleInv, MaybeTypes
  <2>3. HandleInv'
    BY <1>0, <1>16 DEF Kinds, HandleInv, HandleOwned
  <2>4. CycleInv'
    BY <1>0, <1>16 DEF Ranges, CycleInv
  <2>5. ResponseInv'
    BY <1>0, <1>16 DEF Ranges, ResponseInv
  <2>6. ResultInv'
    BY <1>0, <1>16 DEF Ranges, ResultInv, ResultIsTrue
  <2> QED
    BY <2>1, <2>2, <2>3, <2>4, <2>5, <2>6 DEF EInv
<1>17. CASE ConnectionEnds
  <2> USE DEF ConnectionEnds
  <2>1. Ranges'
    BY <1>0, <1>17 DEF Ranges, CycleInv
  <2>2. Kinds'
    BY <1>0, <1>17 DEF Kinds, HandleInv, MaybeTypes
  <2>3. HandleInv'
    BY <1>0, <1>17 DEF Kinds, HandleInv, HandleOwned
  <2>4. CycleInv'
    BY <1>0, <1>17 DEF Ranges, CycleInv
  <2>5. ResponseInv'
    BY <1>0, <1>17 DEF Ranges, ResponseInv
  <2>6. ResultInv'
    BY <1>0, <1>17 DEF Ranges, ResultInv, ResultIsTrue
  <2> QED
    BY <2>1, <2>2, <2>3, <2>4, <2>5, <2>6 DEF EInv
<1> QED
  BY <1>1, <1>2, <1>3, <1>4, <1>5, <1>6, <1>7, <1>8, <1>9, <1>10, <1>11, <1>12, <1>13, <1>14, <1>15, <1>16, <1>17
     DEF Next, Open, Read, Closed

(* The invariant, for every behaviour.                                     *)
LEMMA EInvariance == Spec => []EInv
  BY EInit, ENext, PTL DEF Spec

(* Every counter and field of the client stays in its range.               *)
THEOREM TypeCorrect == Spec => []TypeOK
<1>1. EInv => TypeOK
  <2> USE BudgetAssumption DEF BudgetAssumption
  <2> SUFFICES ASSUME EInv PROVE TypeOK
    OBVIOUS
  <2>1. handles \in 0..1
    BY DEF EInv, Kinds, HandleInv, HandleOwned
  <2>2. /\ attempts \in 1..MaxAttempts
        /\ redirect_count \in 0..MaxRedirections
        /\ {cycles, unpolled} \subseteq 0..(MaxAttempts + MaxRedirections)
        /\ {body, received} \subseteq 0..MaxBody
    BY DEF EInv, Ranges
  <2> QED
    BY <2>1, <2>2 DEF EInv, Kinds, TypeOK
<1> QED
  BY <1>1, EInvariance, PTL

(* Retries, redirects, refusals and failures in any order neither leak an  *)
(* esp_http_client handle nor free one twice (close(), open_client_()).    *)
THEOREM HandleSafety == Spec => []HandleOwned
<1>1. EInv => HandleOwned
  BY DEF EInv, HandleInv
<1> QED
  BY <1>1, EInvariance, PTL

(* open() waits for the first headers for at most MaxAttempts cycles, and  *)
(* asks cancel_check() between any two of them.                            *)
THEOREM HeaderBudget == Spec => []HeadersWithinBudget
<1>1. EInv => HeadersWithinBudget
  BY BudgetAssumption
     DEF BudgetAssumption, EInv, Ranges, CycleInv, HeadersWithinBudget
<1> QED
  BY <1>1, EInvariance, PTL

(* A Content-Type that came with an attempt that timed out is not taken    *)
(* for that of the response.                                               *)
THEOREM ResponseFreshness == Spec => []RetriedResponseOnly
<1>1. EInv => RetriedResponseOnly
  BY DEF EInv, ResponseInv, RetriedResponseOnly
<1> QED
  BY <1>1, EInvariance, PTL

(* AudioReader reports FINISHED only of a body that was read to its end,   *)
(* and FAILED only when the connection broke.                              *)
THEOREM ResultTruth == Spec => []ResultIsTrue
<1>1. EInv => ResultIsTrue
  BY DEF EInv, ResultInv
<1> QED
  BY <1>1, EInvariance, PTL
=============================================================================
