------------------------- MODULE StatementPollProofs -------------------------
(***************************************************************************)
(* Theorems about StatementPoll, for every timeout, poll interval and      *)
(* number of tolerated 404s.                                               *)
(***************************************************************************)
EXTENDS StatementPoll, TLAPS

\* How far the clock can be at each line, when there is a deadline.
ClockInv ==
    StatementTimeoutSeconds > 0 =>
        /\ clock <= LatestReturn
        /\ pc = "poll" => clock <= StatementTimeoutSeconds + timer
        /\ pc \in {"sleep", "sleepNotFound"}
             => clock <= StatementTimeoutSeconds + MaxRequest + timer

\* The timer stays within the request or the sleep it measures; the wait never
\* gets shorter than the setting, so a setting above the ceiling never grows.
TimerInv ==
    /\ pc = "poll" => timer <= MaxRequest
    /\ pc \in {"sleep", "sleepNotFound"} => timer <= pollWait
    /\ pollWait >= PollIntervalMillis

\* 404s are counted right while the statement exists, the one on its way included;
\* an answer tells a state the statement was in; what was returned is so.
CountInv ==
    /\ statement # "absent" =>
         notFoundRetries + (IF answer = "notFound" THEN 1 ELSE 0) <= misses
    /\ statement \in past
    /\ answer \in Statement => answer \in past /\ answer # "absent"
    /\ ResultIsTrue
    /\ result = "none" => notFoundRetries <= NotFoundLimit
    /\ result # "none" => pc = "done"
    /\ result = "timeout" => clock > StatementTimeoutSeconds
    /\ DisappearedIsReal

PollInv == TypeOK /\ ClockInv /\ TimerInv /\ CountInv

LEMMA WaitBounds ==
    /\ MaxWait \in Nat
    /\ PollIntervalMillis \in 1..MaxWait
    /\ LatestReturn \in Nat /\ Horizon \in Nat /\ Horizon > LatestReturn
    /\ StatementTimeoutSeconds \in Nat /\ MaxRequest \in Nat /\ MaxMisses \in Nat
    /\ LatestReturn = StatementTimeoutSeconds + MaxRequest + MaxWait
    /\ NotFoundLimit \in Nat
<1>1. /\ StatementTimeoutSeconds \in Nat /\ MaxRequest \in Nat /\ MaxMisses \in Nat
      /\ NotFoundLimit \in Nat /\ Horizon \in Nat
      /\ PollIntervalMillis \in Nat \ {0} /\ PollStep \in Nat \ {0}
      /\ PollCeiling \in Nat \ {0}
  BY PollAssumption DEF PollAssumption
<1>2. MaxWait \in Nat /\ PollIntervalMillis \in 1..MaxWait
  BY <1>1 DEF MaxWait
<1>3. LatestReturn \in Nat /\ LatestReturn = StatementTimeoutSeconds + MaxRequest + MaxWait
  BY <1>1, <1>2 DEF LatestReturn
<1> QED
  BY <1>1, <1>2, <1>3, HorizonAssumption DEF HorizonAssumption

\* A longer wait is still bounded.
LEMMA LongerWaitBound ==
    ASSUME pollWait \in 1..MaxWait, pollWait >= PollIntervalMillis, LongerWait
    PROVE  pollWait' \in 1..MaxWait /\ pollWait' >= PollIntervalMillis
<1>1. /\ PollIntervalMillis \in Nat \ {0} /\ PollStep \in Nat \ {0}
      /\ PollCeiling \in Nat \ {0}
  BY PollAssumption DEF PollAssumption
<1>2. CASE PollIntervalMillis >= PollCeiling
  BY <1>1, <1>2 DEF MaxWait, LongerWait
<1>3. CASE ~(PollIntervalMillis >= PollCeiling)
  BY <1>1, <1>3 DEF MaxWait, LongerWait
<1> QED
  BY <1>2, <1>3

\* A tick keeps the clock in its range and moves it by at most one.
LEMMA TickBound ==
    ASSUME clock \in 0..Horizon, Tick
    PROVE  clock' \in 0..Horizon /\ clock <= clock' /\ clock' <= clock + 1
BY WaitBounds DEF Tick

LEMMA InitPollInv == Init => PollInv
<1> SUFFICES ASSUME Init PROVE PollInv
  OBVIOUS
<1> USE WaitBounds DEF Init
<1>1. TypeOK
  BY DEF TypeOK, Location, Result, Statement, Pending
<1>2. ClockInv /\ TimerInv
  BY DEF ClockInv, TimerInv
<1>3. CountInv
  BY DEF CountInv, DisappearedIsReal, ResultIsTrue, Statement, Succeeded, Failed, Pending
<1> QED
  BY <1>1, <1>2, <1>3 DEF PollInv

\* One step per action; under it one per conjunct of PollInv.
LEMMA NextPollInv == PollInv /\ [Next]_vars => PollInv'
<1> SUFFICES ASSUME PollInv, [Next]_vars PROVE PollInv'
  OBVIOUS
<1> USE WaitBounds DEF PollInv, serverVars, clientVars
<1>1. CASE LoopTop
  <2> USE <1>1 DEF LoopTop, Goto, Return, Overdue
  <2>1. TypeOK'
    BY DEF TypeOK, Location, Result, Statement, Pending, Succeeded, Failed, CountInv
  <2>2. ClockInv'
    BY DEF TypeOK, ClockInv, TimerInv
  <2>3. TimerInv'
    BY DEF TypeOK, TimerInv
  <2>4. CountInv'
    BY DEF TypeOK, CountInv, DisappearedIsReal, ResultIsTrue, Succeeded, Failed, Pending,
         Statement
  <2> QED
    BY <2>1, <2>2, <2>3, <2>4
<1>2. CASE RequestTakesTime
  <2> USE <1>2 DEF RequestTakesTime
  <2>1. TypeOK'
    BY TickBound DEF TypeOK, Location, Result, Statement, Pending, Succeeded, Failed, CountInv
  <2>2. ClockInv'
    BY TickBound DEF TypeOK, ClockInv, TimerInv
  <2>3. TimerInv'
    BY DEF TypeOK, TimerInv
  <2>4. CountInv'
    BY TickBound DEF TypeOK, CountInv, DisappearedIsReal, ResultIsTrue, Succeeded, Failed, Pending,
         Statement
  <2> QED
    BY <2>1, <2>2, <2>3, <2>4
<1>3. CASE SleepTakesTime
  <2> USE <1>3 DEF SleepTakesTime
  <2>1. TypeOK'
    BY TickBound DEF TypeOK, Location, Result, Statement, Pending, Succeeded, Failed, CountInv
  <2>2. ClockInv'
    BY TickBound DEF TypeOK, ClockInv, TimerInv
  <2>3. TimerInv'
    BY DEF TypeOK, TimerInv
  <2>4. CountInv'
    BY TickBound DEF TypeOK, CountInv, DisappearedIsReal, ResultIsTrue, Succeeded, Failed, Pending,
         Statement
  <2> QED
    BY <2>1, <2>2, <2>3, <2>4
<1>4. CASE PollNotFound
  <2> USE <1>4 DEF PollNotFound, Goto, Return, TooManyNotFound
  <2>1. TypeOK'
    BY DEF TypeOK, Location, Result, Statement, Pending, Succeeded, Failed, CountInv
  <2>2. ClockInv'
    BY DEF TypeOK, ClockInv, TimerInv
  <2>3. TimerInv'
    BY DEF TypeOK, TimerInv
  <2>4. CountInv'
    BY DEF TypeOK, CountInv, DisappearedIsReal, ResultIsTrue, Succeeded, Failed, Pending,
         Statement
  <2> QED
    BY <2>1, <2>2, <2>3, <2>4
<1>5. CASE PollFails
  <2> USE <1>5 DEF PollFails, Goto, Return
  <2>1. TypeOK'
    BY DEF TypeOK, Location, Result, Statement, Pending, Succeeded, Failed, CountInv
  <2>2. ClockInv'
    BY DEF TypeOK, ClockInv, TimerInv
  <2>3. TimerInv'
    BY DEF TypeOK, TimerInv
  <2>4. CountInv'
    BY DEF TypeOK, CountInv, DisappearedIsReal, ResultIsTrue, Succeeded, Failed, Pending,
         Statement
  <2> QED
    BY <2>1, <2>2, <2>3, <2>4
<1>6. CASE PollReads
  <2> USE <1>6 DEF PollReads, Goto, Return, Outcome, Succeeded, Failed, Pending
  <2>1. TypeOK'
    BY DEF TypeOK, Location, Result, Statement, Pending, Succeeded, Failed, CountInv
  <2>2. ClockInv'
    BY DEF TypeOK, ClockInv, TimerInv
  <2>3. TimerInv'
    BY DEF TypeOK, TimerInv
  <2>4. CountInv'
    BY DEF TypeOK, CountInv, DisappearedIsReal, ResultIsTrue, Succeeded, Failed, Pending,
         Statement
  <2> QED
    BY <2>1, <2>2, <2>3, <2>4
<1>7. CASE SleepEnds
  <2> USE <1>7 DEF SleepEnds, Goto
  <2>0. pollWait' \in 1..MaxWait /\ pollWait' >= PollIntervalMillis
    <3>1. pollWait \in 1..MaxWait /\ pollWait >= PollIntervalMillis
      BY DEF TypeOK, TimerInv
    <3> QED
      BY <3>1, LongerWaitBound
  <2>1. TypeOK'
    BY <2>0 DEF TypeOK, Location, Result, Statement, Pending, Succeeded, Failed, CountInv
  <2>2. ClockInv'
    BY <2>0 DEF TypeOK, ClockInv, TimerInv
  <2>3. TimerInv'
    BY <2>0 DEF TypeOK, TimerInv
  <2>4. CountInv'
    BY <2>0 DEF TypeOK, CountInv, DisappearedIsReal, ResultIsTrue, Succeeded, Failed, Pending,
         Statement
  <2> QED
    BY <2>1, <2>2, <2>3, <2>4
<1>8. CASE Cancel
  <2> USE <1>8 DEF Cancel, Goto, Return
  <2>1. TypeOK'
    BY DEF TypeOK, Location, Result, Statement, Pending, Succeeded, Failed, CountInv
  <2>2. ClockInv'
    BY DEF TypeOK, ClockInv, TimerInv
  <2>3. TimerInv'
    BY DEF TypeOK, TimerInv
  <2>4. CountInv'
    BY DEF TypeOK, CountInv, DisappearedIsReal, ResultIsTrue, Succeeded, Failed, Pending,
         Statement
  <2> QED
    BY <2>1, <2>2, <2>3, <2>4
<1>9. CASE StatementMoves
  <2>1. PICK s \in Statement : Becomes(s) /\ statement # "absent"
    BY <1>9 DEF StatementMoves, Statement, Succeeded, Failed, Pending
  <2>2. /\ statement' = s /\ past' = past \cup {s} /\ s \in Statement
        /\ endedAt' = clock \/ endedAt' = endedAt
        /\ UNCHANGED <<misses, clock, answer, result, pc, notFoundRetries, pollWait, timer>>
    BY <2>1 DEF Becomes
  <2>3. TypeOK'
    BY <2>2 DEF TypeOK
  <2>4. ClockInv' /\ TimerInv'
    BY <2>2 DEF ClockInv, TimerInv
  <2>5. ResultIsTrue' /\ DisappearedIsReal'
    BY <2>1, <2>2 DEF CountInv, ResultIsTrue, DisappearedIsReal
  <2>6. CountInv'
    BY <2>1, <2>2, <2>5 DEF CountInv
  <2> QED
    BY <2>3, <2>4, <2>6
<1>10. CASE UNCHANGED vars
  BY <1>10 DEF vars, TypeOK, ClockInv, TimerInv, CountInv, DisappearedIsReal, ResultIsTrue
<1>11. CASE PollExecuted
  <2> USE <1>11 DEF PollExecuted
  <2>1. TypeOK'
    BY DEF TypeOK, Location, Result, Statement, Pending, Succeeded, Failed, CountInv
  <2>2. ClockInv'
    BY DEF TypeOK, ClockInv, TimerInv
  <2>3. TimerInv'
    BY DEF TypeOK, TimerInv
  <2>4. CountInv'
    BY DEF TypeOK, CountInv, DisappearedIsReal, ResultIsTrue, Statement, Succeeded, Failed,
       Pending
  <2> QED
    BY <2>1, <2>2, <2>3, <2>4
<1> QED
  BY <1>1, <1>2, <1>3, <1>4, <1>5, <1>6, <1>7, <1>8, <1>9, <1>10, <1>11
     DEF Next, Client, Done

LEMMA SpecPollInv == Spec => []PollInv
BY InitPollInv, NextPollInv, PTL DEF Spec

\* Every variable keeps its type; the sleep stays bounded.
THEOREM TypeCorrect == Spec => []TypeOK
<1>1. PollInv => TypeOK
  BY DEF PollInv
<1> QED
  BY <1>1, SpecPollInv, PTL

\* The call is over one request and one sleep after its deadline.
THEOREM ReturnIsTimely == Spec => []TimelyReturn
<1>1. PollInv => TimelyReturn
  BY DEF PollInv, ClockInv, CountInv, TimelyReturn
<1> QED
  BY <1>1, SpecPollInv, PTL

\* How long ago a result that no poll has told of can have come: since the current
\* request was executed, or during the last one and the sleep after it.
NoticeInv ==
    /\ endedAt <= clock
    /\ statement \in Pending \cup {"cancelling"} => endedAt = -1
    /\ pc = "sleepNotFound" \/ answer = "notFound" => statement = "absent" \/ misses > 0
    /\ endedAt >= 0 /\ statement # "absent" /\ misses = 0 =>
         /\ pc = "poll" /\ answer \in Pending => clock - endedAt <= timer
         /\ pc = "sleep" => clock - endedAt <= MaxRequest + timer
         /\ pc = "loop" => clock - endedAt <= MaxRequest + MaxWait
    /\ FinishedIsNoticed

LEMMA InitNoticeInv == Init => NoticeInv
BY DEF Init, NoticeInv, FinishedIsNoticed, Pending

LEMMA NextNoticeInv == PollInv /\ NoticeInv /\ [Next]_vars => NoticeInv'
<1> SUFFICES ASSUME PollInv, NoticeInv, [Next]_vars PROVE NoticeInv'
  OBVIOUS
<1>0. TypeOK /\ TimerInv /\ CountInv
  BY DEF PollInv
<1> USE <1>0, WaitBounds DEF NoticeInv, FinishedIsNoticed, serverVars, clientVars,
    TypeOK, TimerInv, CountInv, Pending
<1>1. CASE LoopTop
  BY <1>1 DEF LoopTop, Goto, Return
<1>2. CASE RequestTakesTime
  BY <1>2, TickBound DEF RequestTakesTime
<1>3. CASE SleepTakesTime
  BY <1>3, TickBound DEF SleepTakesTime
<1>4. CASE PollNotFound
  BY <1>4 DEF PollNotFound, Goto, Return
<1>5. CASE PollFails
  BY <1>5 DEF PollFails, Goto, Return
<1>6. CASE PollReads
  BY <1>6 DEF PollReads, Goto, Return, Outcome, Pending
<1>7. CASE SleepEnds
  BY <1>7 DEF SleepEnds, Goto
<1>8. CASE Cancel
  BY <1>8 DEF Cancel, Goto, Return
<1>9. CASE StatementMoves
  <2>1. PICK s \in Statement :
            Becomes(s) /\ statement # "absent" /\ (s \in Pending => statement = "waiting")
    BY <1>9 DEF StatementMoves, Statement, Succeeded, Failed, Pending
  <2>2. statement # "waiting" => statement' \notin Pending
    BY <1>9 DEF StatementMoves, Becomes, Pending, Succeeded, Failed
  <2>3. endedAt' = endedAt \/ endedAt' = clock
    BY <2>1 DEF Becomes
  <2> QED
    BY <1>9, <2>1, <2>2, <2>3 DEF StatementMoves, Becomes, Succeeded, Failed, Pending, Statement
<1>10. CASE UNCHANGED vars
  BY <1>10 DEF vars
<1>11. CASE PollExecuted
  <2> USE <1>11 DEF PollExecuted
  <2>1. CASE statement = "absent" /\ answer' = "notFound" /\ UNCHANGED misses
    BY <2>1
  <2>2. CASE answer' = "notFound" /\ misses' = misses + 1
    BY <2>2
  <2>3. CASE answer' = statement /\ UNCHANGED misses
    BY <2>3 DEF Statement, Succeeded, Failed
  <2> QED
    BY <2>1, <2>2, <2>3
<1> QED
  BY <1>1, <1>2, <1>3, <1>4, <1>5, <1>6, <1>7, <1>8, <1>9, <1>10, <1>11
     DEF Next, Client, Done

\* A result that a timeout throws away came after the last poll looked: it is at most
\* one request and one sleep old.
THEOREM ResultsAreNoticed == Spec => []FinishedIsNoticed
<1>1. NoticeInv => FinishedIsNoticed
  BY DEF NoticeInv
<1> QED
  BY <1>1, SpecPollInv, InitNoticeInv, NextNoticeInv, PTL DEF Spec

\* A statement that exists survives NotFoundLimit answers 404.
THEOREM DisappearancesAreReal == Spec => []DisappearedIsReal
<1>1. PollInv => DisappearedIsReal
  BY DEF PollInv, CountInv
<1> QED
  BY <1>1, SpecPollInv, PTL

\* What is returned is what became of the statement.
THEOREM ResultsAreTrue == Spec => []ResultIsTrue
<1>1. PollInv => ResultIsTrue
  BY DEF PollInv, CountInv
<1> QED
  BY <1>1, SpecPollInv, PTL
=============================================================================
