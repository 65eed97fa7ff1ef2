----------------------------- MODULE LivyRequest -----------------------------
(***************************************************************************)
(* LivyClient.doRequest (fabricspark/livy.go): the retry envelope around   *)
(* every call to Fabric, with an unreliable network between the two.  One  *)
(* request is followed from its first attempt to its return.  A copy of    *)
(* the request that the client gave up on may still reach Fabric, later    *)
(* than its successors.  Time is counted in seconds of waiting.            *)
(***************************************************************************)
EXTENDS Integers

CONSTANTS
    maxRequestAttempts, \* the constant of livy.go
    RetryAfters         \* seconds a 429 may ask for; 0: no usable header

ASSUME RequestAssumption ==
    /\ maxRequestAttempts \in Nat \ {0}
    /\ RetryAfters \subseteq Nat

\* 1 << n seconds is a positive time.
ASSUME BackoffAssumption == \A n \in 0..maxRequestAttempts : 2 ^ n \in Nat \ {0}

\* The classes of answers doRequest and its callers tell apart.
Status == {"none", "2xx", "404", "4xx", "429", "5xx", "network"}
Transient == {"429", "5xx", "network"}

VARIABLES
    method,     \* the request's method, fixed
    pc,         \* where doRequest is
    attempt,    \* the loop counter
    status,     \* what the last attempt ended with
    retryAfter, \* the Retry-After of that answer
    waited,     \* seconds slept since that answer
    outcome,    \* what doRequest returned
    sent,       \* attempts that left the client
    flying,     \* is the current attempt on its way?
    late,       \* abandoned copies still on their way
    applied,    \* times Fabric executed the request
    doubts      \* auxiliary: attempts that ended without a word from Fabric

clientVars == <<pc, attempt, status, retryAfter, waited, outcome, sent>>
vars == <<method, clientVars, flying, late, applied, doubts>>

Location == {"top", "backoff", "token", "send", "flight", "retryAfter", "done"}
Outcome == {"none", "response", "error", "cancelled"}

Methods == {"POST", "GET", "DELETE"}

Init ==
    /\ method \in Methods
    /\ pc = "top"
    /\ attempt = 0
    /\ status = "none"
    /\ retryAfter = 0
    /\ waited = 0
    /\ outcome = "none"
    /\ sent = 0
    /\ flying = FALSE
    /\ late = 0
    /\ applied = 0
    /\ doubts = 0

Return(o) == pc' = "done" /\ outcome' = o

-----------------------------------------------------------------------------
\* The loop's condition, and the choice between first attempt and backoff.
LoopTop ==
    /\ pc = "top"
    /\ \/ attempt = maxRequestAttempts /\ Return("error")
       \/ /\ attempt < maxRequestAttempts
          /\ pc' = IF attempt > 0 THEN "backoff" ELSE "token"
          /\ UNCHANGED outcome
    /\ UNCHANGED <<method, attempt, status, retryAfter, waited, sent, flying, late,
                   applied, doubts>>

\* 1 << (attempt - 1) seconds.
BackoffSeconds == 2 ^ (attempt - 1)

Backoff ==
    /\ pc = "backoff"
    /\ waited' = waited + BackoffSeconds
    /\ pc' = "token"
    /\ UNCHANGED <<method, attempt, status, retryAfter, outcome, sent, flying, late,
                   applied, doubts>>

\* tokens.Token: an error ends the request without another attempt.
AcquireToken ==
    /\ pc = "token"
    /\ \/ pc' = "send" /\ UNCHANGED outcome
       \/ Return("error")
    /\ UNCHANGED <<method, attempt, status, retryAfter, waited, sent, flying, late,
                   applied, doubts>>

Send ==
    /\ pc = "send"
    /\ pc' = "flight"
    /\ sent' = sent + 1
    /\ flying' = TRUE
    /\ waited' = 0
    /\ UNCHANGED <<method, attempt, status, retryAfter, outcome, late, applied, doubts>>

\* The next attempt; doRequest keeps only the last error.
NextAttempt == attempt' = attempt + 1

\* A gateway's error and a lost connection leave open what Fabric did.
Note(s) == doubts' = doubts + IF s \in {"5xx", "network"} THEN 1 ELSE 0

\* Every status >= 400 retried.
HandleStatusRetriesAll(s, r) ==
    /\ status' = s
    /\ retryAfter' = r
    /\ Note(s)
    /\ \/ s # "2xx" /\ r > 0 /\ pc' = "retryAfter" /\ UNCHANGED <<attempt, outcome>>
       \/ s # "2xx" /\ r = 0 /\ pc' = "top" /\ NextAttempt /\ UNCHANGED outcome
       \/ s = "2xx" /\ Return("response") /\ UNCHANGED attempt

\* A response that cannot be read taken for an answer.
HandleStatusTrustsAll(s, r) ==
    /\ status' = IF s = "network" THEN "2xx" ELSE s
    /\ retryAfter' = r
    /\ Note(s)
    /\ \/ s \in {"429", "5xx"} /\ pc' = "top" /\ NextAttempt /\ UNCHANGED outcome
       \/ s \notin {"429", "5xx"} /\ Return("response") /\ UNCHANGED attempt

\* A 201 taken for no success: some 2xx are retried.
HandleStatusOnly200(s, r) ==
    /\ status' = s
    /\ retryAfter' = r
    /\ Note(s)
    /\ \/ s \in Transient \cup {"2xx"} /\ pc' = "top" /\ NextAttempt /\ UNCHANGED outcome
       \/ s \notin Transient /\ Return("response") /\ UNCHANGED attempt

\* What doRequest makes of an answer or of the lack of one.
HandleStatus(s, r) ==
    /\ status' = s
    /\ retryAfter' = r
    /\ Note(s)
    /\ \/ s \in Transient /\ r > 0 /\ pc' = "retryAfter"
                          /\ UNCHANGED <<attempt, outcome>>
       \/ s \in Transient /\ r = 0 /\ pc' = "top" /\ NextAttempt
                          /\ UNCHANGED outcome
       \/ s \notin Transient /\ Return("response") /\ UNCHANGED attempt

\* The wait a 429 asks for, on top of the backoff of the next attempt.
WaitRetryAfter ==
    /\ pc = "retryAfter"
    /\ waited' = waited + retryAfter
    /\ pc' = "top"
    /\ NextAttempt
    /\ UNCHANGED <<method, status, retryAfter, outcome, sent, flying, late,
                   applied, doubts>>

\* ctx ends while doRequest sleeps; a request on its way fails first, as a
\* network error, and the next backoff notices.
Cancel ==
    /\ pc \in {"backoff", "retryAfter"}
    /\ Return("cancelled")
    /\ UNCHANGED <<method, attempt, status, retryAfter, waited, sent, flying, late,
                   applied, doubts>>

-----------------------------------------------------------------------------
\* What Fabric answers to a request that it executes, and to one that it refuses:
\* a 404 means that a POST had no session to go to, and that what a GET or DELETE
\* is about is gone, by an earlier copy perhaps.
Executed == {"2xx"} \cup (IF method = "POST" THEN {} ELSE {"404"})
Refusals ==
    {"4xx", "5xx", "network"} \cup (IF method = "POST" THEN {"404"} ELSE {})

Execute == applied' = applied + 1

\* The current attempt is answered: executed; or executed and its answer lost
\* in a gateway error or on the network; or refused.
Answer ==
    /\ flying
    /\ flying' = FALSE
    /\ \/ Execute /\ \E s \in Executed \cup {"5xx", "network"} : HandleStatus(s, 0)
       \/ UNCHANGED applied /\ \E s \in Refusals : HandleStatus(s, 0)
       \/ UNCHANGED applied /\ \E r \in RetryAfters : HandleStatus("429", r)
    /\ UNCHANGED <<method, waited, sent, late>>

\* HTTPTimeoutSeconds passes; the copy may still arrive.
TimeOut ==
    /\ flying
    /\ flying' = FALSE
    /\ late' = late + 1
    /\ HandleStatus("network", 0)
    /\ UNCHANGED <<method, waited, sent, applied>>

\* An abandoned copy reaches Fabric, or never does.
LateArrival ==
    /\ late > 0
    /\ late' = late - 1
    /\ Execute \/ UNCHANGED applied
    /\ UNCHANGED <<method, clientVars, flying, doubts>>

-----------------------------------------------------------------------------
Step ==
    \/ LoopTop \/ Backoff \/ AcquireToken \/ Send \/ WaitRetryAfter
    \/ Answer \/ TimeOut

Done == pc = "done" /\ late = 0 /\ UNCHANGED vars

Next == Step \/ Cancel \/ LateArrival \/ Done

Spec == Init /\ [][Next]_vars
-----------------------------------------------------------------------------
\* Every variable stays in its range, and no more than maxRequestAttempts
\* attempts leave the client.
TypeOK ==
    /\ method \in Methods
    /\ pc \in Location
    /\ attempt \in 0..maxRequestAttempts
    /\ status \in Status
    /\ retryAfter \in RetryAfters \cup {0}
    /\ waited \in Nat
    /\ outcome \in Outcome
    /\ sent \in 0..maxRequestAttempts
    /\ flying \in BOOLEAN
    /\ late \in 0..maxRequestAttempts
    /\ applied \in 0..maxRequestAttempts
    /\ doubts \in 0..maxRequestAttempts

\* A decision of Fabric (2xx, 404, another 4xx) is never overruled by a retry:
\* runStatement relies on the first 404 (DESIGN.md:271-273).
DecisionsAreFinal ==
    [][sent' > sent => status \in Transient \cup {"none"}]_vars

\* An attempt leaves only after the whole backoff of its number, and after a
\* 429 not before its Retry-After has passed as well.
ResendWaits ==
    pc = "send" /\ attempt > 0 =>
        /\ waited >= 2 ^ (attempt - 1)
        /\ status = "429" => waited >= retryAfter

\* A success reported to the caller means Fabric executed the request; an error
\* says nothing either way, whatever was lost on the way.
SuccessIsReal == outcome = "response" /\ status = "2xx" => applied > 0

\* A request is executed, and can still be executed when doRequest has returned,
\* once for each attempt that left it open and once for an answer that tells of
\* it: after a 429 or a refusal nothing of the request is under way, so that
\* what is done twice is only what nobody could know.
OnlyDoubtsRepeat ==
    applied + late <= doubts + IF status \in Executed /\ outcome = "response" THEN 1 ELSE 0
=============================================================================
