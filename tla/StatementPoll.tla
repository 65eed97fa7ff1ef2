---------------------------- MODULE StatementPoll ----------------------------
(***************************************************************************)
(* waitForStatementAt (fabricspark/livy.go): the client polls a submitted  *)
(* statement until it ends, vanishes or the deadline passes, while Fabric  *)
(* registers, runs, cancels or loses it.  Time is counted in ticks since   *)
(* the submit: while a request is on its way and while the client sleeps.  *)
(***************************************************************************)
EXTENDS Integers

CONSTANTS
    StatementTimeoutSeconds, \* the setting in ticks; 0: absent, or no timeout
    PollIntervalMillis,      \* the setting, in ticks
    PollStep,                \* 250 ms: by how much the wait grows
    PollCeiling,             \* 3 s: the wait grows while it is below
    NotFoundLimit,           \* 20: the 404s tolerated
    MaxRequest,              \* bound: ticks one GET takes with its retries
    MaxMisses,               \* bound: 404s for a statement that exists
    Horizon                  \* bound: the clock stops there

ASSUME PollAssumption ==
    /\ {StatementTimeoutSeconds, NotFoundLimit, MaxRequest, MaxMisses} \subseteq Nat
    /\ {PollIntervalMillis, PollStep, PollCeiling} \subseteq Nat \ {0}
    /\ Horizon \in Nat

\* The longest sleep between two polls, and the latest tick of a timely return.
MaxWait == IF PollIntervalMillis >= PollCeiling THEN PollIntervalMillis
                                                ELSE PollCeiling + PollStep - 1
LatestReturn == StatementTimeoutSeconds + MaxRequest + MaxWait

ASSUME HorizonAssumption == Horizon > LatestReturn

VARIABLES
    pc,         \* where waitForStatementAt is
    pollWait,   \* ticks the next sleep takes
    notFoundRetries,
    timer,      \* ticks the request or the sleep has taken
    answer,     \* of the request, once Fabric has looked at the statement
    result,     \* what was returned
    clock,      \* ticks since the submit
    statement,  \* Fabric: the state and output of the statement
    misses,     \* Fabric: 404s answered although the statement exists
    \* Auxiliary:
    endedAt,    \* when the statement ended; -1: it has not
    past        \* the states it has been in

clientVars == <<pc, pollWait, notFoundRetries, timer, answer, result>>
serverVars == <<statement, misses, endedAt, past>>
vars == <<clientVars, clock, serverVars>>

Location == {"loop", "poll", "sleep", "sleepNotFound", "done"}

\* "available" comes with an output whose status is "ok" or not.
Succeeded == {"available"}
Failed    == {"availableError", "error", "cancelled"}
Pending   == {"waiting", "running"}
Statement == Succeeded \cup Failed \cup Pending \cup {"cancelling", "absent"}

Result == {"none", "ok", "failed", "timeout", "disappeared", "error", "cancelled"}

Init ==
    /\ pc = "loop"
    /\ pollWait = PollIntervalMillis
    /\ notFoundRetries = 0
    /\ timer = 0
    /\ answer = "none"
    /\ result = "none"
    /\ clock = 0
    /\ statement = "waiting"
    /\ misses = 0
    /\ endedAt = -1
    /\ past = {statement}

Goto(l) == pc' = l /\ timer' = 0 /\ answer' = "none"
Return(r) == Goto("done") /\ result' = r

\* NewLivyClient: a StatementTimeoutSeconds of 0 leaves the deadline unset.
OverdueIgnored == FALSE
Overdue == StatementTimeoutSeconds > 0 /\ clock > StatementTimeoutSeconds
-----------------------------------------------------------------------------
LoopTop ==
    /\ pc = "loop"
    /\ \/ Overdue /\ Return("timeout")
       \/ ~Overdue /\ Goto("poll") /\ UNCHANGED result
    /\ UNCHANGED <<pollWait, notFoundRetries, clock, serverVars>>

\* A tick passes; beyond Horizon all times are alike.
Tick == clock' = IF clock < Horizon THEN clock + 1 ELSE clock

RequestTakesTime ==
    /\ pc = "poll"
    /\ timer < MaxRequest
    /\ timer' = timer + 1
    /\ Tick
    /\ UNCHANGED <<pc, pollWait, notFoundRetries, answer, result, serverVars>>

SleepTakesTime ==
    /\ pc \in {"sleep", "sleepNotFound"}
    /\ timer < pollWait
    /\ timer' = timer + 1
    /\ Tick
    /\ UNCHANGED <<pc, pollWait, notFoundRetries, answer, result, serverVars>>

\* Fabric looks the statement up: it is gone, or there but not visible right now,
\* or there.  The answer may reach the client as late as the request ends.
PollExecuted ==
    /\ pc = "poll" /\ answer = "none"
    /\ \/ statement = "absent" /\ answer' = "notFound" /\ UNCHANGED misses
       \/ statement # "absent" /\ misses < MaxMisses
            /\ answer' = "notFound" /\ misses' = misses + 1
       \/ statement # "absent" /\ answer' = statement /\ UNCHANGED misses
    /\ UNCHANGED <<pc, pollWait, notFoundRetries, timer, result, clock, statement,
                   endedAt, past>>

\* >= for >.
TooManyNotFoundEarly(n) == n >= NotFoundLimit
TooManyNotFound(n) == n > NotFoundLimit

\* The poll is answered 404.
PollNotFound ==
    /\ pc = "poll" /\ answer = "notFound"
    /\ notFoundRetries' = notFoundRetries + 1
    /\ \/ TooManyNotFound(notFoundRetries + 1) /\ Return("disappeared")
       \/ ~TooManyNotFound(notFoundRetries + 1) /\ Goto("sleepNotFound")
                                                 /\ UNCHANGED result
    /\ UNCHANGED <<pollWait, clock, serverVars>>

\* doRequest gives up, another status >= 400, or a body that cannot be decoded.
PollFails ==
    /\ pc = "poll"
    /\ Return("error")
    /\ UNCHANGED <<pollWait, notFoundRetries, clock, serverVars>>

\* The output's status not looked at.
OutcomeStateOnly(s) ==
    IF s \in {"available", "availableError"} THEN "ok" ELSE "failed"

\* statementResult and statementError.
Outcome(s) == IF s \in Succeeded THEN "ok" ELSE "failed"

\* "available" taken for final only together with an output that is "ok".
PollReadsOkOnly ==
    /\ pc = "poll" /\ answer \in Statement
    /\ \/ answer \in Pending \cup {"availableError"} /\ Goto("sleep")
                                                   /\ UNCHANGED result
       \/ answer \notin Pending \cup {"availableError"} /\ Return(Outcome(answer))
    /\ UNCHANGED <<pollWait, notFoundRetries, clock, serverVars>>

\* The state in the answer, whatever has become of the statement since.
PollReads ==
    /\ pc = "poll" /\ answer \in Statement
    /\ \/ answer \in Pending /\ Goto("sleep") /\ UNCHANGED result
       \/ answer \notin Pending /\ Return(Outcome(answer))
    /\ UNCHANGED <<pollWait, notFoundRetries, clock, serverVars>>

LongerWait ==
    pollWait' = IF pollWait < PollCeiling THEN pollWait + PollStep ELSE pollWait

SleepEnds ==
    /\ pc \in {"sleep", "sleepNotFound"}
    /\ timer = pollWait
    /\ Goto("loop")
    /\ IF pc = "sleep" THEN LongerWait ELSE UNCHANGED pollWait
    /\ UNCHANGED <<notFoundRetries, result, clock, serverVars>>

\* ctx ends during a sleep, or makes the request fail (PollFails).
Cancel ==
    /\ pc \in {"sleep", "sleepNotFound"}
    /\ Return("cancelled")
    /\ UNCHANGED <<pollWait, notFoundRetries, clock, serverVars>>

-----------------------------------------------------------------------------
\* Fabric moves the statement on.
Becomes(s) ==
    /\ statement' = s
    /\ endedAt' = IF s \in Succeeded \cup Failed THEN clock ELSE endedAt
    /\ past' = past \cup {s}
    /\ UNCHANGED <<clientVars, clock, misses>>

StatementMoves ==
    \/ statement = "waiting" /\ Becomes("running")
    \/ statement = "running"
         /\ \E s \in {"available", "availableError", "error"} : Becomes(s)
    \/ statement \in Pending /\ Becomes("cancelling")
    \/ statement = "cancelling" /\ Becomes("cancelled")
    \/ statement # "absent" /\ Becomes("absent")
-----------------------------------------------------------------------------
Client ==
    \/ LoopTop \/ RequestTakesTime \/ SleepTakesTime
    \/ PollExecuted \/ PollNotFound \/ PollFails \/ PollReads \/ SleepEnds

Done == pc = "done" /\ UNCHANGED vars

Next == Client \/ Cancel \/ StatementMoves \/ Done

Spec == Init /\ [][Next]_vars

\* Timers run and requests end.  Nothing is assumed of the statement.
FairSpec == Spec /\ WF_vars(Client)
-----------------------------------------------------------------------------
\* Every variable stays in its range.
TypeOK ==
    /\ pc \in Location
    /\ pollWait \in 1..MaxWait
    /\ notFoundRetries \in 0..NotFoundLimit + 1
    /\ timer \in Nat
    /\ answer \in Statement \cup {"none", "notFound"}
    /\ result \in Result
    /\ clock \in 0..Horizon
    /\ statement \in Statement
    /\ misses \in 0..MaxMisses
    /\ endedAt \in -1..Horizon
    /\ past \subseteq Statement

\* Success is returned for a statement that ended well, and a StatementFailedError,
\* which keeps the REPL, only for one that failed or was being cancelled, even if
\* it is gone by then: a failed statement reports "available" too (DESIGN.md, 3.3).
ResultIsTrue ==
    /\ result = "ok" => past \cap Succeeded # {}
    /\ result = "failed" => past \cap (Failed \cup {"cancelling"}) # {}

\* "Statement 404 right after submit: tolerated up to 20 polls" (DESIGN.md, 5):
\* a statement is declared lost only when Fabric lost it, or after more 404s than
\* that.
DisappearedIsReal ==
    result = "disappeared" => statement = "absent" \/ misses > NotFoundLimit

\* With a timeout the call returns at the latest one sleep and one request after
\* the deadline, and never reports a timeout before it.
TimelyReturn ==
    /\ StatementTimeoutSeconds > 0 => clock <= LatestReturn
    /\ result = "timeout" => clock > StatementTimeoutSeconds

\* The deadline is looked at before the statement is, and an answer may be as old
\* as its request took: a result thrown away by a timeout is not older than the
\* last poll, that is one request and one sleep.
FinishedIsNoticed ==
    result = "timeout" /\ endedAt >= 0 /\ statement # "absent" /\ misses = 0
        => clock - endedAt <= MaxRequest + MaxWait

\* With a timeout the call returns, whatever the statement does.
PollReturns == StatementTimeoutSeconds > 0 => <>(pc = "done")

=============================================================================
