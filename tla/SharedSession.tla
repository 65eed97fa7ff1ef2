---------------------------- MODULE SharedSession ----------------------------
(***************************************************************************)
(* The default mode of DB (fabricspark/db.go): one Livy session, created   *)
(* lazily, shared by every goroutine under db.mu and recreated when a      *)
(* submit answers 404.  LivyClient's CreateSession, SubmitStatement,       *)
(* WaitForStatement and CloseSession are split where Fabric can move       *)
(* between two of their requests.                                          *)
(***************************************************************************)
EXTENDS Integers, Sequences, FiniteSets, Functions

CONSTANTS
    Workers,    \* goroutines sharing one DB
    Sessions,   \* identities Fabric can give a session
    None,       \* "no session": Go's nil
    MaxCalls,   \* bound: calls the pipeline makes before it ends
    MaxLost,    \* bound: answers lost per statement; doRequest survives 4
    Faults      \* which of FaultKinds may happen

\* unlisted  a new session answers 404 until Fabric has registered it
\* start     session_start_timeout_seconds passes, or ctx ends meanwhile
\* expire    Fabric reaps a session
\* timeout   statement_timeout_seconds passes, ctx ends or a poll fails
\* lost      a POST takes effect, its answer is lost, doRequest sends it again
\* close     the DELETE fails
FaultKinds == {"unlisted", "start", "expire", "timeout", "lost", "close"}

ASSUME SessionAssumption ==
    /\ None \notin Sessions \cup Workers
    /\ MaxCalls \in Nat
    /\ MaxLost \in Nat
    /\ Faults \subseteq FaultKinds

VARIABLES
    mu,         \* the goroutine holding db.mu
    session,    \* db.session
    pc,         \* where each goroutine is
    current,    \* the local variable session of each goroutine
    retried,    \* has this call met a 404 already?
    id,         \* the number of the call each goroutine is making
    calls,      \* calls made so far
    state,      \* Fabric: the state of each session
    queue,      \* Fabric: statements each session still has to finish
    executed,   \* Fabric: how often the statement of each call was executed
    lost        \* network: answers to the submits of each call that were lost

clientVars == <<mu, session, pc, current, retried, id, calls>>
serverVars == <<state, queue, executed, lost>>
vars == <<clientVars, serverVars>>

-----------------------------------------------------------------------------
Critical == {"ensure", "create", "starting", "submit", "await", "closing"}
Location == {"idle", "lock", "closeLock"} \cup Critical

\* "absent" is a session Fabric does not know (any more): it answers 404.
SessionState == {"absent", "unlisted", "starting", "idle", "failed"}
Alive == {s \in Sessions : state[s] \in {"unlisted", "starting", "idle"}}
Fresh == {s \in Sessions : state[s] = "absent"} \ ({session} \cup Range(current))

Calls == 1..MaxCalls

Init ==
    /\ mu = None
    /\ session = None
    /\ pc = [w \in Workers |-> "idle"]
    /\ current = [w \in Workers |-> None]
    /\ retried = [w \in Workers |-> FALSE]
    /\ id = [w \in Workers |-> 0]
    /\ calls = 0
    /\ state = [s \in Sessions |-> "absent"]
    /\ queue = [s \in Sessions |-> <<>>]
    /\ executed = [i \in Calls |-> 0]
    /\ lost = [i \in Calls |-> 0]

At(w, l) == pc[w] = l
Goto(w, l) == pc' = [pc EXCEPT ![w] = l]
UseSession(w, s) == current' = [current EXCEPT ![w] = s]

\* The call returns: the deferred Unlock runs and its locals are gone.
Finish(w) ==
    /\ Goto(w, "idle")
    /\ mu' = None
    /\ UseSession(w, None)
    /\ retried' = [retried EXCEPT ![w] = FALSE]

-----------------------------------------------------------------------------
\* A caller enters runStatement or Close and asks for db.mu.
Enter(w, l) ==
    /\ At(w, "idle")
    /\ calls < MaxCalls
    /\ calls' = calls + 1
    /\ id' = [id EXCEPT ![w] = calls + 1]
    /\ Goto(w, l)
    /\ UNCHANGED <<mu, session, current, retried, serverVars>>
StartStatement(w) == Enter(w, "lock")
StartClose(w) == Enter(w, "closeLock")

Lock(w) ==
    /\ At(w, "lock")
    /\ mu = None
    /\ mu' = w
    /\ Goto(w, "ensure")
    /\ UNCHANGED <<session, current, retried, id, calls, serverVars>>

\* ensureSession: the cached session, whatever became of it, or a new one.
EnsureSession(w) ==
    /\ At(w, "ensure")
    /\ \/ session # None /\ UseSession(w, session) /\ Goto(w, "submit")
       \/ session = None /\ UNCHANGED current /\ Goto(w, "create")
    /\ UNCHANGED <<mu, session, retried, id, calls, serverVars>>

\* Fabric creates session s; it may take a moment to list it.
Created(s) ==
    \E first \in {"starting"} \cup (Faults \cap {"unlisted"}) :
        /\ state' = [state EXCEPT ![s] = first]
        /\ queue' = [queue EXCEPT ![s] = <<>>]

\* db.session assigned before the session is known to start.
CreateAcceptedCached(w) ==
    /\ At(w, "create")
    /\ \E s \in Fresh : Created(s) /\ UseSession(w, s) /\ session' = s
    /\ Goto(w, "starting")
    /\ UNCHANGED <<mu, retried, id, calls, executed, lost>>

CreateAccepted(w) ==
    /\ At(w, "create")
    /\ \E s \in Fresh : Created(s) /\ UseSession(w, s)
    /\ Goto(w, "starting")
    /\ UNCHANGED <<mu, session, retried, id, calls, executed, lost>>

\* Fabric creates a session and the answer is lost: nobody knows its id.
CreateLost(w) ==
    /\ At(w, "create")
    /\ "lost" \in Faults
    /\ \E s \in Fresh : Created(s)
    /\ UNCHANGED <<clientVars, executed, lost>>

CreateFailed(w) ==
    /\ At(w, "create")
    /\ Finish(w)
    /\ UNCHANGED <<session, id, calls, serverVars>>

\* waitForSessionIdle sees "idle": only now is the session cached.
StartingIdle(w) ==
    /\ At(w, "starting")
    /\ state[current[w]] = "idle"
    /\ session' = current[w]
    /\ Goto(w, "submit")
    /\ UNCHANGED <<mu, current, retried, id, calls, serverVars>>

\* waitForSessionIdle reads a terminal state or any status >= 400, a 404
\* included, or gives up: the new session's id is dropped.
StartingFailed(w) ==
    /\ At(w, "starting")
    /\ state[current[w]] \in {"failed", "absent", "unlisted"} \/ "start" \in Faults
    /\ Finish(w)
    /\ UNCHANGED <<session, id, calls, serverVars>>

-----------------------------------------------------------------------------
\* The statement joins the session's queue.
Queued(w) == queue' = [queue EXCEPT ![current[w]] = Append(@, id[w])]

\* The statement is queued and the answer is lost: the next attempt may queue
\* it again, or find the session gone.
SubmitLost(w) ==
    /\ At(w, "submit")
    /\ "lost" \in Faults
    /\ lost[id[w]] < MaxLost
    /\ state[current[w]] = "idle"
    /\ Queued(w)
    /\ lost' = [lost EXCEPT ![id[w]] = @ + 1]
    /\ UNCHANGED <<clientVars, state, executed>>

SubmitAccepted(w) ==
    /\ At(w, "submit")
    /\ state[current[w]] = "idle"
    /\ Queued(w)
    /\ Goto(w, "await")
    /\ UNCHANGED <<mu, session, current, retried, id, calls, state, executed, lost>>

\* The session is created again as often as it answers 404.
SubmitGoneForEver(w) ==
    /\ At(w, "submit")
    /\ state[current[w]] = "absent"
    /\ session' = None
    /\ retried' = [retried EXCEPT ![w] = TRUE]
    /\ Goto(w, "ensure")
    /\ UNCHANGED <<mu, current, id, calls, serverVars>>

\* 404: the first time the session is forgotten and created again.
SubmitGone(w) ==
    /\ At(w, "submit")
    /\ state[current[w]] = "absent"
    /\ \/ /\ ~retried[w]
          /\ session' = None
          /\ retried' = [retried EXCEPT ![w] = TRUE]
          /\ Goto(w, "ensure")
          /\ UNCHANGED <<mu, current>>
       \/ retried[w] /\ Finish(w) /\ UNCHANGED session
    /\ UNCHANGED <<id, calls, serverVars>>

\* Every submit error taken for an expired session.
SubmitFailedForgets(w) ==
    /\ At(w, "submit")
    /\ session' = None
    /\ Finish(w)
    /\ UNCHANGED <<id, calls, serverVars>>

\* Any other submit error, or the fifth attempt without an answer.
SubmitFailed(w) ==
    /\ At(w, "submit")
    /\ Finish(w)
    /\ UNCHANGED <<session, id, calls, serverVars>>

\* WaitForStatement reads a final state of this call's statement.
AwaitFinal(w) ==
    /\ At(w, "await")
    /\ state[current[w]] = "idle"
    /\ id[w] \notin Range(queue[current[w]])
    /\ Finish(w)
    /\ UNCHANGED <<session, id, calls, serverVars>>

\* A disappeared statement taken for a session to recreate and submit again.
AwaitVanishedResubmits(w) ==
    /\ At(w, "await")
    /\ state[current[w]] = "absent"
    /\ ~retried[w]
    /\ session' = None
    /\ retried' = [retried EXCEPT ![w] = TRUE]
    /\ Goto(w, "ensure")
    /\ UNCHANGED <<mu, current, id, calls, serverVars>>

\* The polls keep answering 404; db.session is left to the next submit.
AwaitVanished(w) ==
    /\ At(w, "await")
    /\ state[current[w]] = "absent"
    /\ Finish(w)
    /\ UNCHANGED <<session, id, calls, serverVars>>

\* The caller gives up; nothing cancels the statement.
AwaitAborted(w) ==
    /\ At(w, "await")
    /\ "timeout" \in Faults
    /\ Finish(w)
    /\ UNCHANGED <<session, id, calls, serverVars>>

-----------------------------------------------------------------------------
\* Close without db.mu.
CloseLockless(w) ==
    /\ At(w, "closeLock")
    /\ UseSession(w, session)
    /\ Goto(w, IF session = None THEN "idle" ELSE "closing")
    /\ UNCHANGED <<mu, session, retried, id, calls, serverVars>>

CloseLock(w) ==
    /\ At(w, "closeLock")
    /\ mu = None
    /\ \/ session = None /\ Finish(w)
       \/ /\ session # None
          /\ mu' = w
          /\ UseSession(w, session)
          /\ Goto(w, "closing")
          /\ UNCHANGED retried
    /\ UNCHANGED <<session, id, calls, serverVars>>

\* An early return before db.session = nil.
CloseSessionKeeps(w) ==
    /\ At(w, "closing")
    /\ state' = [state EXCEPT ![current[w]] = "absent"]
    /\ queue' = [queue EXCEPT ![current[w]] = <<>>]
    /\ Finish(w)
    /\ UNCHANGED <<session, id, calls, executed, lost>>

\* CloseSession; db.session is cleared even when the DELETE failed.
CloseSession(w) ==
    /\ At(w, "closing")
    /\ \/ /\ state' = [state EXCEPT ![current[w]] = "absent"]
          /\ queue' = [queue EXCEPT ![current[w]] = <<>>]
       \/ "close" \in Faults /\ UNCHANGED <<state, queue>>
    /\ session' = None
    /\ Finish(w)
    /\ UNCHANGED <<id, calls, executed, lost>>

-----------------------------------------------------------------------------
\* Fabric.
Become(s, st) ==
    /\ state' = [state EXCEPT ![s] = st]
    /\ UNCHANGED <<clientVars, queue, executed, lost>>
SessionListed(s) == state[s] = "unlisted" /\ Become(s, "starting")
SessionStarts(s) == state[s] = "starting" /\ Become(s, "idle")
SessionFails(s)  == state[s] = "starting" /\ Become(s, "failed")

\* A session runs its statements one after the other.
StatementEnds(s) ==
    /\ state[s] = "idle"
    /\ queue[s] # <<>>
    /\ executed' = [executed EXCEPT ![Head(queue[s])] = @ + 1]
    /\ queue' = [queue EXCEPT ![s] = Tail(@)]
    /\ UNCHANGED <<clientVars, state, lost>>

\* An expiring session may have executed part of what it loses.
Expire(s) ==
    /\ "expire" \in Faults
    /\ s \in Alive
    /\ state' = [state EXCEPT ![s] = "absent"]
    /\ queue' = [queue EXCEPT ![s] = <<>>]
    /\ UNCHANGED <<clientVars, executed, lost>>

-----------------------------------------------------------------------------
Call(w) == StartStatement(w) \/ StartClose(w)
Progress(w) ==
    \/ Lock(w) \/ EnsureSession(w)
    \/ CreateAccepted(w) \/ CreateFailed(w)
    \/ StartingIdle(w) \/ StartingFailed(w)
    \/ SubmitAccepted(w) \/ SubmitGone(w)
    \/ AwaitFinal(w) \/ AwaitVanished(w)
    \/ CloseLock(w) \/ CloseSession(w)
Failure(w) == CreateLost(w) \/ SubmitLost(w) \/ SubmitFailed(w) \/ AwaitAborted(w)

Startup(s) == SessionListed(s) \/ SessionStarts(s) \/ SessionFails(s)

Done == calls = MaxCalls /\ (\A w \in Workers : At(w, "idle")) /\ UNCHANGED vars

Next ==
    \/ \E w \in Workers : Call(w) \/ Progress(w) \/ Failure(w)
    \/ \E s \in Sessions : Startup(s) \/ StatementEnds(s) \/ Expire(s)
    \/ Done

Spec == Init /\ [][Next]_vars

\* Goroutines keep running, a session's start is decided and a statement ends.
Fairness ==
    /\ \A w \in Workers : WF_vars(Progress(w))
    /\ \A s \in Sessions : WF_vars(Startup(s)) /\ WF_vars(StatementEnds(s))
FairSpec == Spec /\ Fairness
-----------------------------------------------------------------------------
\* Every variable stays in its range.
TypeOK ==
    /\ mu \in Workers \cup {None}
    /\ session \in Sessions \cup {None}
    /\ pc \in [Workers -> Location]
    /\ current \in [Workers -> Sessions \cup {None}]
    /\ retried \in [Workers -> BOOLEAN]
    /\ id \in [Workers -> 0..MaxCalls]
    /\ calls \in 0..MaxCalls
    /\ state \in [Sessions -> SessionState]
    /\ queue \in [Sessions -> Seq(Calls)]
    /\ executed \in [Calls -> Nat]
    /\ lost \in [Calls -> 0..MaxLost]

\* A statement is submitted to, and polled on, the session the DB caches: no
\* other goroutine replaces or closes it between ensureSession and the result.
CallerUsesCachedSession ==
    \A w \in Workers :
        pc[w] \in {"submit", "await", "closing"} => session = current[w]

\* What is cached once became idle: a session that is still starting or failed
\* to start is never handed to the next statement.
CachedSessionStarted ==
    session # None => state[session] \in {"idle", "absent"}

\* db.session moves away from a session Fabric still has only in Close: no
\* error of a statement makes the DB abandon a healthy session.
LiveSessionNeverDropped ==
    [][session # None /\ session' # session /\ session \in Alive
         => \E w \in Workers : At(w, "closing") /\ current[w] = session]_vars

\* The second submit of a call goes to a session that just became idle, not to
\* the one that answered 404 ("transparently recreated once", db.go:131).
RetryGetsStartedSession ==
    [][\A w \in Workers :
         retried[w] /\ ~At(w, "submit") /\ pc'[w] = "submit"
         => state'[current'[w]] = "idle"]_vars

\* A statement is executed more than once only for answers lost on the network:
\* recreating the session after a 404 and submitting again adds no execution of
\* its own, since a 404 on submit means that attempt was not accepted.
ExtraExecutionsWereLost == \A i \in Calls : executed[i] <= 1 + lost[i]

\* README.md:54 "One session per run": no more than one session of the DB holds
\* Spark capacity, as long as every session starts, every answer arrives and every
\* DELETE succeeds: expiries and abandoned statements leave none behind.
OneLiveSession == Cardinality(Alive) <= 1

\* Close leaves no session behind that holds Spark capacity (db.go:347-348), and
\* the next statement starts a new one (under the same faults).
CloseReleasesCapacity ==
    [][\A w \in Workers :
         At(w, "closing") /\ pc'[w] = "idle" => Alive' = {} /\ session' = None]_vars

\* Every call returns, whatever fails; waiting for db.mu included.
EveryCallReturns == \A w \in Workers : ~At(w, "idle") ~> At(w, "idle")

=============================================================================
