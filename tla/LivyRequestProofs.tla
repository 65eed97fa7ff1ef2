-------------------------- MODULE LivyRequestProofs --------------------------
(***************************************************************************)
(* Theorems about LivyRequest, for every number of attempts and every set  *)
(* of Retry-After values.                                                  *)
(***************************************************************************)
EXTENDS LivyRequest, TLAPS

\* Every copy of the request is being answered, late, executed or lost.
CopiesAddUp ==
    /\ applied + late + (IF flying THEN 1 ELSE 0) <= sent
    /\ doubts + (IF flying THEN 1 ELSE 0) <= sent

\* The loop counter at each line, and what the last attempt ended with.
LoopState ==
    /\ pc \in {"top", "backoff", "token", "send"} => sent = attempt
    /\ pc \in {"flight", "retryAfter"} => sent = attempt + 1
    /\ pc \in {"backoff", "token", "send", "flight", "retryAfter"}
         => attempt < maxRequestAttempts
    /\ flying <=> pc = "flight"
    /\ pc \in {"top", "backoff", "token", "send", "flight", "retryAfter"}
         => status \in Transient \cup {"none"}

\* How long the client has slept when it is at each line.
SleepState ==
    /\ pc = "backoff" => attempt > 0
    /\ pc \in {"token", "send"} /\ attempt > 0 => waited >= 2 ^ (attempt - 1)
    /\ pc \in {"top", "backoff", "token", "send"} /\ status = "429"
         => waited >= retryAfter

\* What a response says about Fabric.
ResponseState ==
    /\ status = "2xx" => applied > 0
    /\ status \in Executed => outcome = "response"
    /\ OnlyDoubtsRepeat

RequestInv == TypeOK /\ CopiesAddUp /\ LoopState /\ SleepState /\ ResponseState

LEMMA InitRequestInv == Init => RequestInv
<1> SUFFICES ASSUME Init PROVE RequestInv
  OBVIOUS
<1> USE RequestAssumption DEF Init, RequestAssumption
<1>1. TypeOK
  <2>1. flying \in BOOLEAN
    OBVIOUS
  <2>2. method \in Methods /\ pc \in Location /\ status \in Status /\ outcome \in Outcome
    BY DEF Methods, Location, Status, Outcome
  <2>3. /\ attempt \in 0..maxRequestAttempts /\ sent \in 0..maxRequestAttempts
        /\ late \in 0..maxRequestAttempts /\ applied \in 0..maxRequestAttempts
        /\ doubts \in 0..maxRequestAttempts
        /\ retryAfter \in RetryAfters \cup {0} /\ waited \in Nat
    OBVIOUS
  <2> QED
    BY <2>1, <2>2, <2>3 DEF TypeOK
<1>2. CopiesAddUp
  BY DEF CopiesAddUp
<1>3. LoopState /\ SleepState /\ ResponseState
  BY DEF LoopState, SleepState, ResponseState, Transient, Executed, OnlyDoubtsRepeat
<1> QED
  BY <1>1, <1>2, <1>3 DEF RequestInv

\* One step per action; under it one per conjunct of RequestInv.
LEMMA NextRequestInv == RequestInv /\ [Next]_vars => RequestInv'
<1> SUFFICES ASSUME RequestInv, [Next]_vars PROVE RequestInv'
  OBVIOUS
<1> USE RequestAssumption DEF RequestInv, RequestAssumption
<1>1. CASE LoopTop
  <2> USE <1>1 DEF LoopTop, Return
  <2>1. TypeOK'
    BY DEF TypeOK, CopiesAddUp, LoopState, Methods, Location, Status, Outcome, Transient
  <2>2. CopiesAddUp'
    BY DEF CopiesAddUp, LoopState, TypeOK
  <2>3. LoopState'
    BY DEF LoopState, TypeOK, Transient, Location, SleepState
  <2>4. SleepState'
    BY DEF SleepState, LoopState, TypeOK, Transient, BackoffSeconds
  <2>5. ResponseState'
    BY DEF ResponseState, CopiesAddUp, TypeOK, OnlyDoubtsRepeat, LoopState, Executed, Transient
  <2> QED
    BY <2>1, <2>2, <2>3, <2>4, <2>5
<1>2. CASE Backoff
  <2> USE <1>2 DEF Backoff
  <2>0. BackoffSeconds \in Nat \ {0}
    BY BackoffAssumption DEF TypeOK, LoopState, SleepState, BackoffSeconds,
       BackoffAssumption
  <2>1. TypeOK'
    BY <2>0 DEF TypeOK, CopiesAddUp, LoopState, Methods, Location, Status, Outcome, Transient
  <2>2. CopiesAddUp'
    BY DEF CopiesAddUp, LoopState, TypeOK
  <2>3. LoopState'
    BY DEF LoopState, TypeOK, Transient, Location, SleepState
  <2>4. SleepState'
    BY <2>0 DEF SleepState, LoopState, TypeOK, Transient, BackoffSeconds
  <2>5. ResponseState'
    BY DEF ResponseState, CopiesAddUp, TypeOK, OnlyDoubtsRepeat, LoopState, Executed, Transient
  <2> QED
    BY <2>1, <2>2, <2>3, <2>4, <2>5
<1>3. CASE AcquireToken
  <2> USE <1>3 DEF AcquireToken, Return
  <2>1. TypeOK'
    BY DEF TypeOK, CopiesAddUp, LoopState, Methods, Location, Status, Outcome, Transient
  <2>2. CopiesAddUp'
    BY DEF CopiesAddUp, LoopState, TypeOK
  <2>3. LoopState'
    BY DEF LoopState, TypeOK, Transient, Location, SleepState
  <2>4. SleepState'
    BY DEF SleepState, LoopState, TypeOK, Transient, BackoffSeconds
  <2>5. ResponseState'
    BY DEF ResponseState, CopiesAddUp, TypeOK, OnlyDoubtsRepeat, LoopState, Executed, Transient
  <2> QED
    BY <2>1, <2>2, <2>3, <2>4, <2>5
<1>4. CASE Send
  <2> USE <1>4 DEF Send
  <2>1. TypeOK'
    BY DEF TypeOK, CopiesAddUp, LoopState, Methods, Location, Status, Outcome, Transient
  <2>2. CopiesAddUp'
    BY DEF CopiesAddUp, LoopState, TypeOK
  <2>3. LoopState'
    BY DEF LoopState, TypeOK, Transient, Location, SleepState
  <2>4. SleepState'
    BY DEF SleepState, LoopState, TypeOK, Transient, BackoffSeconds
  <2>5. ResponseState'
    BY DEF ResponseState, CopiesAddUp, TypeOK, OnlyDoubtsRepeat, LoopState, Executed, Transient
  <2> QED
    BY <2>1, <2>2, <2>3, <2>4, <2>5
<1>5. CASE WaitRetryAfter
  <2> USE <1>5 DEF WaitRetryAfter, NextAttempt
  <2>1. TypeOK'
    <3>1. flying' \in BOOLEAN
      BY DEF TypeOK
    <3>2. /\ method' \in Methods /\ pc' \in Location /\ status' \in Status
          /\ outcome' \in Outcome
      BY DEF TypeOK, Methods, Location, Status, Outcome
    <3>3. /\ attempt' \in 0..maxRequestAttempts /\ sent' \in 0..maxRequestAttempts
          /\ retryAfter' \in RetryAfters \cup {0} /\ waited' \in Nat
      BY DEF TypeOK, LoopState
    <3>4. /\ late' \in 0..maxRequestAttempts /\ applied' \in 0..maxRequestAttempts
          /\ doubts' \in 0..maxRequestAttempts
      BY DEF TypeOK, CopiesAddUp, LoopState
    <3> QED
      BY <3>1, <3>2, <3>3, <3>4 DEF TypeOK
  <2>2. CopiesAddUp'
    BY DEF CopiesAddUp, LoopState, TypeOK
  <2>3. LoopState'
    BY DEF LoopState, TypeOK, Transient, Location, SleepState
  <2>4. SleepState'
    BY DEF SleepState, LoopState, TypeOK, Transient, BackoffSeconds
  <2>5. ResponseState'
    BY DEF ResponseState, CopiesAddUp, TypeOK, OnlyDoubtsRepeat, LoopState, Executed, Transient
  <2> QED
    BY <2>1, <2>2, <2>3, <2>4, <2>5
<1>6. CASE Answer
  <2> USE <1>6 DEF Answer, HandleStatus, Note, Executed, Refusals, Execute, NextAttempt,
             Return
  <2>1. TypeOK'
    <3>1. flying' \in BOOLEAN
      BY DEF TypeOK
    <3>2. /\ method' \in Methods /\ pc' \in Location /\ status' \in Status
          /\ outcome' \in Outcome
      BY DEF TypeOK, Methods, Location, Status, Outcome
    <3>3. /\ attempt' \in 0..maxRequestAttempts /\ sent' \in 0..maxRequestAttempts
          /\ retryAfter' \in RetryAfters \cup {0} /\ waited' \in Nat
      BY DEF TypeOK, LoopState
    <3>4. /\ late' \in 0..maxRequestAttempts /\ applied' \in 0..maxRequestAttempts
          /\ doubts' \in 0..maxRequestAttempts
      BY DEF TypeOK, CopiesAddUp, LoopState
    <3> QED
      BY <3>1, <3>2, <3>3, <3>4 DEF TypeOK
  <2>2. CopiesAddUp'
    BY DEF CopiesAddUp, LoopState, TypeOK
  <2>3. LoopState'
    BY DEF LoopState, TypeOK, Transient, Location, SleepState
  <2>4. SleepState'
    BY DEF SleepState, LoopState, TypeOK, Transient, BackoffSeconds
  <2>5. ResponseState'
    BY DEF ResponseState, CopiesAddUp, TypeOK, OnlyDoubtsRepeat, LoopState, Executed, Transient
  <2> QED
    BY <2>1, <2>2, <2>3, <2>4, <2>5
<1>7. CASE TimeOut
  <2> USE <1>7 DEF TimeOut, HandleStatus, Note, NextAttempt, Return
  <2>1. TypeOK'
    <3>1. flying' \in BOOLEAN
      BY DEF TypeOK
    <3>2. /\ method' \in Methods /\ pc' \in Location /\ status' \in Status
          /\ outcome' \in Outcome
      BY DEF TypeOK, Methods, Location, Status, Outcome
    <3>3. /\ attempt' \in 0..maxRequestAttempts /\ sent' \in 0..maxRequestAttempts
          /\ retryAfter' \in RetryAfters \cup {0} /\ waited' \in Nat
      BY DEF TypeOK, LoopState
    <3>4. /\ late' \in 0..maxRequestAttempts /\ applied' \in 0..maxRequestAttempts
          /\ doubts' \in 0..maxRequestAttempts
      BY DEF TypeOK, CopiesAddUp, LoopState
    <3> QED
      BY <3>1, <3>2, <3>3, <3>4 DEF TypeOK
  <2>2. CopiesAddUp'
    BY DEF CopiesAddUp, LoopState, TypeOK
  <2>3. LoopState'
    BY DEF LoopState, TypeOK, Transient, Location, SleepState
  <2>4. SleepState'
    BY DEF SleepState, LoopState, TypeOK, Transient, BackoffSeconds
  <2>5. ResponseState'
    BY DEF ResponseState, CopiesAddUp, TypeOK, OnlyDoubtsRepeat, LoopState, Executed, Transient
  <2> QED
    BY <2>1, <2>2, <2>3, <2>4, <2>5
<1>8. CASE Cancel
  <2> USE <1>8 DEF Cancel, Return
  <2>1. TypeOK'
    BY DEF TypeOK, CopiesAddUp, LoopState, Methods, Location, Status, Outcome, Transient
  <2>2. CopiesAddUp'
    BY DEF CopiesAddUp, LoopState, TypeOK
  <2>3. LoopState'
    BY DEF LoopState, TypeOK, Transient, Location, SleepState
  <2>4. SleepState'
    BY DEF SleepState, LoopState, TypeOK, Transient, BackoffSeconds
  <2>5. ResponseState'
    BY DEF ResponseState, CopiesAddUp, TypeOK, OnlyDoubtsRepeat, LoopState, Executed, Transient
  <2> QED
    BY <2>1, <2>2, <2>3, <2>4, <2>5
<1>9. CASE LateArrival
  <2> USE <1>9 DEF LateArrival, Execute, clientVars
  <2>1. TypeOK'
    <3>1. flying' \in BOOLEAN
      BY DEF TypeOK
    <3>2. /\ method' \in Methods /\ pc' \in Location /\ status' \in Status
          /\ outcome' \in Outcome
      BY DEF TypeOK, Methods, Location, Status, Outcome
    <3>3. /\ attempt' \in 0..maxRequestAttempts /\ sent' \in 0..maxRequestAttempts
          /\ retryAfter' \in RetryAfters \cup {0} /\ waited' \in Nat
      BY DEF TypeOK, LoopState
    <3>4. /\ late' \in 0..maxRequestAttempts /\ applied' \in 0..maxRequestAttempts
          /\ doubts' \in 0..maxRequestAttempts
      BY DEF TypeOK, CopiesAddUp, LoopState
    <3> QED
      BY <3>1, <3>2, <3>3, <3>4 DEF TypeOK
  <2>2. CopiesAddUp'
    BY DEF CopiesAddUp, LoopState, TypeOK
  <2>3. LoopState'
    BY DEF LoopState, TypeOK, Transient, Location, SleepState
  <2>4. SleepState'
    BY DEF SleepState, LoopState, TypeOK, Transient, BackoffSeconds
  <2>5. ResponseState'
    BY DEF ResponseState, CopiesAddUp, TypeOK, OnlyDoubtsRepeat, LoopState, Executed, Transient
  <2> QED
    BY <2>1, <2>2, <2>3, <2>4, <2>5
<1>10. CASE UNCHANGED vars
  BY <1>10 DEF vars, clientVars, TypeOK, CopiesAddUp, LoopState, SleepState,
     ResponseState, Executed, OnlyDoubtsRepeat
<1> QED
  BY <1>1, <1>2, <1>3, <1>4, <1>5, <1>6, <1>7, <1>8, <1>9, <1>10
     DEF Next, Step, Done

LEMMA SpecRequestInv == Spec => []RequestInv
BY InitRequestInv, NextRequestInv, PTL DEF Spec

\* Every variable keeps its type; at most maxRequestAttempts attempts leave.
THEOREM TypeCorrect == Spec => []TypeOK
<1>1. RequestInv => TypeOK
  BY DEF RequestInv
<1> QED
  BY <1>1, SpecRequestInv, PTL

\* An attempt waits for its backoff and for the Retry-After before it.
THEOREM ResendsWait == Spec => []ResendWaits
<1>1. RequestInv => ResendWaits
  BY DEF RequestInv, SleepState, ResendWaits
<1> QED
  BY <1>1, SpecRequestInv, PTL

\* A reported success was executed by Fabric.
THEOREM SuccessesAreReal == Spec => []SuccessIsReal
<1>1. RequestInv => SuccessIsReal
  BY DEF RequestInv, ResponseState, SuccessIsReal
<1> QED
  BY <1>1, SpecRequestInv, PTL

\* What is executed again was in doubt: the executions, and the copies that may
\* still be executed, are no more than the attempts that left it open and the
\* answer that told of one.
THEOREM OnlyDoubtsAreRepeated == Spec => []OnlyDoubtsRepeat
<1>1. RequestInv => OnlyDoubtsRepeat
  BY DEF RequestInv, ResponseState
<1> QED
  BY <1>1, SpecRequestInv, PTL

\* No attempt follows an answer that is a decision.
THEOREM DecisionsAreKept == Spec => DecisionsAreFinal
<1>1. RequestInv /\ [Next]_vars
        => [sent' > sent => status \in Transient \cup {"none"}]_vars
  <2> SUFFICES ASSUME RequestInv, Next, sent' > sent
               PROVE  status \in Transient \cup {"none"}
    BY DEF vars
  <2>1. Send
    BY DEF RequestInv, TypeOK, Next, Step, Done, vars, clientVars, LoopTop,
       Backoff, AcquireToken, WaitRetryAfter, Answer, TimeOut, Cancel,
       LateArrival
  <2> QED
    BY <2>1 DEF Send, RequestInv, LoopState
<1> QED
  BY <1>1, SpecRequestInv, PTL DEF Spec, DecisionsAreFinal
==============================================================================
