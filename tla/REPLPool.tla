------------------------------ MODULE REPLPool ------------------------------
(***************************************************************************)
(* The high-concurrency mode of DB (fabricspark/db.go): a pool of REPLs    *)
(* shared by the goroutines that run assets.  Each goroutine executes      *)
(* runStatementHC or Close; between two of its steps every other goroutine *)
(* and Fabric may move.  One action is one region the Go code runs without *)
(* another goroutine seeing its middle: a channel operation, a db.mu       *)
(* critical section, or one exchange with the Livy API (whose retries      *)
(* belong to doRequest and are modelled apart).                            *)
(***************************************************************************)
EXTENDS Integers, Sequences, FiniteSets, Functions

CONSTANTS
    Workers,        \* goroutines sharing one DB
    REPLs,          \* identities Fabric can hand out; an identity nobody
                    \* refers to any more may be handed out again
    None,           \* "no REPL": Go's nil
    MaxREPLs,       \* db.maxREPLs(), the capacity of hcPool
    MaxCalls,       \* bound: calls the pipeline makes before it ends
    UserCancels     \* may a user cancel a statement from Fabric's own UI?

ASSUME PoolAssumption ==
    /\ IsFiniteSet(Workers)
    /\ None \notin REPLs
    /\ MaxREPLs \in Nat \ {0}
    /\ MaxCalls \in Nat
    /\ UserCancels \in BOOLEAN

VARIABLES
    pool,           \* db.hcPool, a buffered channel: FIFO of idle REPLs
    hcLive,         \* db.hcLive
    pc,             \* where each goroutine is
    repl,           \* the local variable repl (or, while it waits for the
                    \* REPL to start, the hcID) of each goroutine
    rejected,       \* the REPL whose submit answered 404 in this call
    alive,          \* REPLs that exist at Fabric and hold its capacity
    stmt,           \* what each REPL is executing
    calls           \* calls made so far

clientVars == <<pool, hcLive, pc, repl, rejected, calls>>
serverVars == <<alive, stmt>>
vars == <<clientVars, serverVars>>

-----------------------------------------------------------------------------
\* Lines of checkoutREPL, runStatementHC, discardREPL and Close at which a
\* goroutine can be observed.
Checkout == {"poll", "cap", "wait"}
InCall   == Checkout \cup {"acquire", "starting", "submit", "await", "return",
                           "discard", "release"}
InClose  == {"close", "closeRelease", "closeDec"}
Location == {"idle"} \cup InCall \cup InClose

\* Statement states livy.go tells apart; "cancelling" is still executing.
StatementState == {"none", "running", "cancelling", "ok", "error"}
Busy == {"running", "cancelling"}

\* A goroutine that owns one unit of hcLive.
SlotHolding == {"acquire", "starting", "submit", "await", "return", "discard",
                "closeRelease", "closeDec"}
Holders == {w \in Workers : pc[w] \in SlotHolding}

\* A goroutine that may still send statements to its REPL or pool it.
Owning == {"starting", "submit", "await", "return"}
Owned  == {repl[w] : w \in {v \in Workers : pc[v] \in Owning}}

Fresh == REPLs \ (alive \cup Range(pool) \cup Range(repl) \cup Range(rejected))

Init ==
    /\ pool = <<>>
    /\ hcLive = 0
    /\ pc = [w \in Workers |-> "idle"]
    /\ repl = [w \in Workers |-> None]
    /\ rejected = [w \in Workers |-> None]
    /\ alive = {}
    /\ stmt = [r \in REPLs |-> "none"]
    /\ calls = 0

At(w, l) == pc[w] = l
Goto(w, l) == pc' = [pc EXCEPT ![w] = l]
Hold(w, r) == repl' = [repl EXCEPT ![w] = r]

\* The call returns to the operator: its locals are gone.
Finish(w) ==
    /\ Goto(w, "idle")
    /\ Hold(w, None)
    /\ rejected' = [rejected EXCEPT ![w] = None]

-----------------------------------------------------------------------------
\* An operator, sensor, seed or check runs one statement.
StartStatement(w) ==
    /\ At(w, "idle")
    /\ calls < MaxCalls
    /\ calls' = calls + 1
    /\ Goto(w, "poll")
    /\ UNCHANGED <<pool, hcLive, repl, rejected, serverVars>>

\* A receive from hcPool hands the oldest idle REPL to w.
Receive(w) ==
    /\ pool # <<>>
    /\ Hold(w, Head(pool))
    /\ pool' = Tail(pool)

\* The non-blocking receive at the top of checkoutREPL's loop.
CheckoutPoll(w) ==
    /\ At(w, "poll")
    /\ \/ Receive(w) /\ Goto(w, "submit")
       \/ pool = <<>> /\ Goto(w, "cap") /\ UNCHANGED <<pool, repl>>
    /\ UNCHANGED <<hcLive, rejected, calls, serverVars>>

BelowCapOffByOne == hcLive <= MaxREPLs

BelowCap == hcLive < MaxREPLs

\* The db.mu section: reserve a slot for an acquire, or go and wait.
CheckCap(w) ==
    /\ At(w, "cap")
    /\ \/ BelowCap /\ hcLive' = hcLive + 1 /\ Goto(w, "acquire")
       \/ ~BelowCap /\ Goto(w, "wait") /\ UNCHANGED hcLive
    /\ UNCHANGED <<pool, repl, rejected, calls, serverVars>>

WaitReceive(w) ==
    /\ At(w, "wait")
    /\ Receive(w)
    /\ Goto(w, "submit")
    /\ UNCHANGED <<hcLive, rejected, calls, serverVars>>

WaitTimeoutMissing(w) == At(w, "wait") /\ FALSE /\ UNCHANGED vars

\* time.After(250ms): back to the top of the loop.
WaitTimeout(w) ==
    /\ At(w, "wait")
    /\ Goto(w, "poll")
    /\ UNCHANGED <<pool, hcLive, repl, rejected, calls, serverVars>>

\* ctx.Done() while waiting: the call fails and owns nothing.
WaitCancelled(w) ==
    /\ At(w, "wait")
    /\ Finish(w)
    /\ UNCHANGED <<pool, hcLive, calls, serverVars>>

-----------------------------------------------------------------------------
\* AcquireHCSession: Fabric accepts the POST and starts a new REPL.
AcquireStarted(w) ==
    /\ At(w, "acquire")
    /\ \E r \in Fresh :
        /\ Hold(w, r)
        /\ alive' = alive \cup {r}
        /\ stmt' = [stmt EXCEPT ![r] = "none"]
    /\ Goto(w, "starting")
    /\ UNCHANGED <<pool, hcLive, rejected, calls>>

\* The POST fails.  If only its response was lost the REPL exists anyway,
\* and the client never learns its hcID.
AcquireFailed(w) ==
    /\ At(w, "acquire")
    /\ \/ UNCHANGED serverVars
       \/ \E r \in Fresh : /\ alive' = alive \cup {r}
                           /\ stmt' = [stmt EXCEPT ![r] = "none"]
    /\ Goto(w, "discard")
    /\ UNCHANGED <<pool, hcLive, repl, rejected, calls>>

\* waitForHCSessionIdle sees the REPL idle with its ids assigned.
StartingIdle(w) ==
    /\ At(w, "starting")
    /\ repl[w] \in alive
    /\ Goto(w, "submit")
    /\ UNCHANGED <<pool, hcLive, repl, rejected, calls, serverVars>>

\* waitForHCSessionIdle gives up (deadline, failed state, HTTP error, ctx):
\* it returns a nil session, so the hcID is forgotten and never released.
StartingFailed(w) ==
    /\ At(w, "starting")
    /\ Hold(w, None)
    /\ Goto(w, "discard")
    /\ UNCHANGED <<pool, hcLive, rejected, calls, serverVars>>

-----------------------------------------------------------------------------
SubmitAccepted(w) ==
    /\ At(w, "submit")
    /\ repl[w] \in alive
    /\ stmt' = [stmt EXCEPT ![repl[w]] = "running"]
    /\ Goto(w, "await")
    /\ UNCHANGED <<pool, hcLive, repl, rejected, alive, calls>>

\* The same with the rejected REPL handed back before the retry.
SubmitGoneKeepsREPL(w) ==
    /\ At(w, "submit")
    /\ repl[w] \notin alive
    /\ Len(pool) < MaxREPLs
    /\ pool' = Append(pool, repl[w])
    /\ rejected' = [rejected EXCEPT ![w] = repl[w]]
    /\ Goto(w, "poll")
    /\ UNCHANGED <<hcLive, repl, calls, serverVars>>

\* Submit answers 404.  The first time, the REPL is discarded to be replaced;
\* the second time the call fails (Replacing tells the two apart below).
SubmitGone(w) ==
    /\ At(w, "submit")
    /\ repl[w] \notin alive
    /\ rejected' = IF rejected[w] = None
                     THEN [rejected EXCEPT ![w] = repl[w]] ELSE rejected
    /\ Goto(w, "discard")
    /\ UNCHANGED <<pool, hcLive, repl, calls, serverVars>>

\* Submit fails otherwise (4xx, exhausted retries, ctx); when only the
\* response was lost the statement runs anyway.
SubmitFailed(w) ==
    /\ At(w, "submit")
    /\ \/ UNCHANGED stmt
       \/ repl[w] \in alive /\ stmt' = [stmt EXCEPT ![repl[w]] = "running"]
    /\ Goto(w, "discard")
    /\ UNCHANGED <<pool, hcLive, repl, rejected, alive, calls>>

\* WaitForHCStatement reads a final state.  Success, StatementFailedError and
\* the states "cancelled" and "cancelling" all send the REPL to returnREPL.
AwaitFinal(w) ==
    /\ At(w, "await")
    /\ repl[w] \in alive
    /\ stmt[repl[w]] \in {"ok", "error", "cancelling"}
    /\ Goto(w, "return")
    /\ UNCHANGED <<pool, hcLive, repl, rejected, calls, serverVars>>

\* Twenty-one polls answer 404: the statement disappeared with its REPL.
AwaitVanished(w) ==
    /\ At(w, "await")
    /\ repl[w] \notin alive
    /\ Goto(w, "discard")
    /\ UNCHANGED <<pool, hcLive, repl, rejected, calls, serverVars>>

AwaitAbortedKeepsREPL(w) ==
    /\ At(w, "await")
    /\ Goto(w, "return")
    /\ UNCHANGED <<pool, hcLive, repl, rejected, calls, serverVars>>

\* Statement timeout, ctx cancellation or a failed poll, at any moment.
AwaitAborted(w) ==
    /\ At(w, "await")
    /\ Goto(w, "discard")
    /\ UNCHANGED <<pool, hcLive, repl, rejected, calls, serverVars>>

-----------------------------------------------------------------------------
\* hcLive taken for a count of REPLs in use.
ReturnREPLFreesSlot(w) ==
    /\ At(w, "return")
    /\ Len(pool) < MaxREPLs
    /\ pool' = Append(pool, repl[w])
    /\ hcLive' = hcLive - 1
    /\ Finish(w)
    /\ UNCHANGED <<calls, serverVars>>

\* returnREPL: a send on hcPool, which blocks while the channel is full.
ReturnREPL(w) ==
    /\ At(w, "return")
    /\ Len(pool) < MaxREPLs
    /\ pool' = Append(pool, repl[w])
    /\ Finish(w)
    /\ UNCHANGED <<hcLive, calls, serverVars>>

\* The early return for a nil REPL placed before the decrement.
DiscardREPLKeepsSlot(w) ==
    /\ At(w, "discard")
    /\ \/ /\ repl[w] # None
          /\ hcLive' = hcLive - 1
          /\ Goto(w, "release")
          /\ UNCHANGED <<repl, rejected>>
       \/ repl[w] = None /\ Finish(w) /\ UNCHANGED hcLive
    /\ UNCHANGED <<pool, calls, serverVars>>

\* A deferred returnREPL that also runs on the error path.
DiscardREPLAndReturn(w) ==
    /\ At(w, "discard")
    /\ hcLive' = hcLive - 1
    /\ \/ /\ repl[w] # None
          /\ pool' = Append(pool, repl[w])
          /\ Goto(w, "release")
          /\ UNCHANGED <<repl, rejected>>
       \/ repl[w] = None /\ Finish(w) /\ UNCHANGED pool
    /\ UNCHANGED <<calls, serverVars>>

\* discardREPL's db.mu section.  With a nil REPL there is nothing to release
\* and the call fails.
DiscardREPL(w) ==
    /\ At(w, "discard")
    /\ hcLive' = hcLive - 1
    /\ \/ repl[w] # None /\ Goto(w, "release") /\ UNCHANGED <<repl, rejected>>
       \/ repl[w] = None /\ Finish(w)
    /\ UNCHANGED <<pool, calls, serverVars>>

\* The DELETE reaches Fabric, or fails and leaves the REPL there.
Released(r) ==
    \/ alive' = alive \ {r}
    \/ UNCHANGED alive

\* w discards the REPL its first submit found gone, to retry once.
Replacing(w) == rejected[w] # None /\ rejected[w] = repl[w]

\* discardREPL's best-effort release, then the second checkout or the error.
ReleaseREPL(w) ==
    /\ At(w, "release")
    /\ Released(repl[w])
    /\ \/ Replacing(w) /\ Goto(w, "poll") /\ Hold(w, None) /\ UNCHANGED rejected
       \/ ~Replacing(w) /\ Finish(w)
    /\ UNCHANGED <<pool, hcLive, stmt, calls>>

-----------------------------------------------------------------------------
\* Close drains the idle REPLs with a non-blocking receive.
CloseStart(w) ==
    /\ At(w, "idle")
    /\ calls < MaxCalls
    /\ calls' = calls + 1
    /\ Goto(w, "close")
    /\ UNCHANGED <<pool, hcLive, repl, rejected, serverVars>>

CloseReceive(w) ==
    /\ At(w, "close")
    /\ Receive(w)
    /\ Goto(w, "closeRelease")
    /\ UNCHANGED <<hcLive, rejected, calls, serverVars>>

\* A failed release is remembered as firstErr and the REPL is dropped anyway.
CloseRelease(w) ==
    /\ At(w, "closeRelease")
    /\ Released(repl[w])
    /\ Goto(w, "closeDec")
    /\ UNCHANGED <<pool, hcLive, repl, rejected, stmt, calls>>

CloseDecrementMissing(w) ==
    /\ At(w, "closeDec")
    /\ Hold(w, None)
    /\ Goto(w, "close")
    /\ UNCHANGED <<pool, hcLive, rejected, calls, serverVars>>

CloseDecrement(w) ==
    /\ At(w, "closeDec")
    /\ hcLive' = hcLive - 1
    /\ Hold(w, None)
    /\ Goto(w, "close")
    /\ UNCHANGED <<pool, rejected, calls, serverVars>>

CloseReturn(w) ==
    /\ At(w, "close")
    /\ pool = <<>>
    /\ Finish(w)
    /\ UNCHANGED <<pool, hcLive, calls, serverVars>>

-----------------------------------------------------------------------------
\* Fabric.  A statement ends, in success or failure.
StatementEnds(r) ==
    /\ r \in alive
    /\ stmt[r] = "running"
    /\ \E s \in {"ok", "error"} : stmt' = [stmt EXCEPT ![r] = s]
    /\ UNCHANGED <<clientVars, alive>>

\* A user cancels it from Fabric's monitoring page; it keeps running a while.
UserCancel(r) ==
    /\ UserCancels
    /\ r \in alive
    /\ stmt[r] = "running"
    /\ stmt' = [stmt EXCEPT ![r] = "cancelling"]
    /\ UNCHANGED <<clientVars, alive>>

CancelEnds(r) ==
    /\ r \in alive
    /\ stmt[r] = "cancelling"
    /\ stmt' = [stmt EXCEPT ![r] = "error"]
    /\ UNCHANGED <<clientVars, alive>>

\* Fabric reaps a REPL, or the whole Spark application with all of them.
Expire(r) ==
    /\ r \in alive
    /\ alive' = alive \ {r}
    /\ UNCHANGED <<clientVars, stmt>>
ExpireApplication ==
    /\ alive # {}
    /\ alive' = {}
    /\ UNCHANGED <<clientVars, stmt>>

-----------------------------------------------------------------------------
\* Steps the Go scheduler, the channel, the timers and an answering Fabric
\* guarantee; the three others are failures nothing obliges to happen.
Progress(w) ==
    \/ CheckoutPoll(w) \/ CheckCap(w) \/ WaitReceive(w) \/ WaitTimeout(w)
    \/ AcquireStarted(w) \/ AcquireFailed(w)
    \/ StartingIdle(w) \/ StartingFailed(w)
    \/ SubmitAccepted(w) \/ SubmitGone(w)
    \/ AwaitFinal(w) \/ AwaitVanished(w)
    \/ ReturnREPL(w) \/ DiscardREPL(w) \/ ReleaseREPL(w)
    \/ CloseReceive(w) \/ CloseRelease(w) \/ CloseDecrement(w) \/ CloseReturn(w)
Failure(w) == WaitCancelled(w) \/ SubmitFailed(w) \/ AwaitAborted(w)
Call(w) == StartStatement(w) \/ CloseStart(w)

Execution(r) == StatementEnds(r) \/ CancelEnds(r)
Fabric(r) == Execution(r) \/ UserCancel(r) \/ Expire(r)

\* The pipeline is over.
Done == calls = MaxCalls /\ (\A w \in Workers : At(w, "idle")) /\ UNCHANGED vars

Next ==
    \/ \E w \in Workers : Call(w) \/ Progress(w) \/ Failure(w)
    \/ \E r \in REPLs : Fabric(r)
    \/ ExpireApplication
    \/ Done

Spec == Init /\ [][Next]_vars

\* Goroutines keep running and a Spark statement ends; calls, failures,
\* cancellations and expiries need never happen.
Fairness ==
    /\ \A w \in Workers : WF_vars(Progress(w))
    /\ \A r \in REPLs : WF_vars(Execution(r))
FairSpec == Spec /\ Fairness
-----------------------------------------------------------------------------
\* Every variable stays in its range; hcLive never leaves 0..MaxREPLs, so
\* checkoutREPL's test against maxREPLs() and its decrements balance.
TypeOK ==
    /\ pool \in Seq(REPLs)
    /\ hcLive \in 0..MaxREPLs
    /\ pc \in [Workers -> Location]
    /\ repl \in [Workers -> REPLs \cup {None}]
    /\ rejected \in [Workers -> REPLs \cup {None}]
    /\ alive \in SUBSET REPLs
    /\ stmt \in [REPLs -> StatementState]
    /\ calls \in 0..MaxCalls

\* hcLive counts exactly the idle REPLs and the goroutines that own a slot:
\* no interleaving of checkouts, failed acquires, discards and Close leaks a
\* slot or frees one twice.
LiveCountExact == hcLive = Len(pool) + Cardinality(Holders)

\* The send in returnREPL never blocks: hcPool has room for every REPL that
\* comes back, whoever else is acquiring, discarding or closing.
ReturnNeverBlocks ==
    \A w \in Workers : At(w, "return") => Len(pool) < MaxREPLs

\* A REPL is in one place only: with one goroutine, or once in the channel.
\* Nobody sends a statement to a REPL another goroutine is using, and nobody
\* releases one that is still pooled.
ExclusiveREPL ==
    /\ \A v, w \in Workers : v # w /\ repl[v] # None => repl[v] # repl[w]
    /\ \A i, j \in DOMAIN pool : i # j => pool[i] # pool[j]
    /\ Range(pool) \cap Range(repl) = {}

\* Once a submit answered 404, that REPL is out of circulation until the call
\* ends: its own retry and all other goroutines get a different one.
RejectedREPLNeverReused ==
    \A w \in Workers :
        rejected[w] # None => rejected[w] \notin Range(pool) \cup Owned

\* db.go:30 says hcPool holds "idle REPLs ready for checkout": no pooled REPL
\* is still executing an earlier goroutine's statement.
PooledREPLsIdle ==
    \A r \in Range(pool) : r \in alive => stmt[r] \notin Busy

\* When Close returns while no other call is in progress, the pool is empty
\* and every slot is free: a later call may acquire MaxREPLs REPLs again.
CloseReturnsAllSlots ==
    [][\A w \in Workers :
         /\ At(w, "close") /\ pc'[w] = "idle"
         /\ \A v \in Workers \ {w} : At(v, "idle")
         => pool' = <<>> /\ hcLive' = 0]_vars

\* Every call returns, also those that wait at the cap while the acquire that
\* holds the slot fails and no REPL ever enters the pool (db.go:195-198).
EveryCallReturns ==
    \A w \in Workers : ~At(w, "idle") ~> At(w, "idle")

\* The pool as its callers see it: a slot reserved for an acquire is an
\* entitlement until the REPL is usable, and a REPL is leased from then until
\* its slot is given up.
Entitlement == {w \in Workers : \/ pc[w] \in {"acquire", "starting"}
                                \/ pc[w] = "discard" /\ repl[w] = None}
LeaseOf(w) ==
    IF pc[w] \in {"submit", "await", "return", "discard", "closeRelease",
                  "closeDec"}
      THEN repl[w] ELSE None

Lease == INSTANCE REPLLease WITH
    Clients <- Workers, Handles <- REPLs, Limit <- MaxREPLs,
    idle <- Range(pool), creating <- Entitlement,
    lease <- [w \in Workers |-> LeaseOf(w)]

\* REPLPool implements REPLLease: through hcLive, the channel and the lines of
\* checkoutREPL, every client sees a capped pool of exclusive REPLs.
ImplementsLease == Lease!Spec

=============================================================================
