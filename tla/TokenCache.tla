----------------------------- MODULE TokenCache -----------------------------
(***************************************************************************)
(* servicePrincipalTokenProvider (fabricspark/token.go): goroutines share  *)
(* one Azure AD token, refreshed under a mutex shortly before it expires.  *)
(* A token is [until, lifetime]: the tick at which Azure AD stops          *)
(* accepting it, and the expires_in that came with it.  The client learns  *)
(* only the second, and only after the answer has travelled.               *)
(***************************************************************************)
EXTENDS Integers

CONSTANTS
    Goroutines,
    Lifetimes,  \* the values of expires_in
    Margin,     \* tokenExpiryMargin, 5 minutes
    MaxFetch,   \* httpClient.Timeout, 30 s: a fetch takes no longer
    MaxCalls,   \* bound: calls of Token
    Horizon     \* bound: the clock stops there

ASSUME TokenAssumption ==
    /\ Lifetimes \subseteq Nat
    /\ {Margin, MaxFetch, MaxCalls, Horizon} \subseteq Nat

VARIABLES
    mu,         \* p.mu: {} or {its holder}
    pc,
    token,      \* p.token
    expiresAt,  \* p.expiresAt
    got,        \* the token each goroutine was last given
    clock,
    timer,      \* ticks since the current fetch began
    reply,      \* the answer of Azure AD on its way
    calls       \* calls begun

vars == <<mu, pc, token, expiresAt, got, clock, timer, reply, calls>>

NoToken == [until |-> 0, lifetime |-> -1]
Token == [until : Nat, lifetime : Lifetimes]

Location == {"idle", "lock", "check", "fetch", "returned", "failed"}

Init ==
    /\ mu = {}
    /\ pc = [g \in Goroutines |-> "idle"]
    /\ token = NoToken
    /\ expiresAt = 0
    /\ got = [g \in Goroutines |-> NoToken]
    /\ clock = 0
    /\ timer = 0
    /\ reply = NoToken
    /\ calls = 0

Goto(g, l) == pc' = [pc EXCEPT ![g] = l]
-----------------------------------------------------------------------------
StartCall(g) ==
    /\ pc[g] \in {"idle", "returned", "failed"}
    /\ calls < MaxCalls
    /\ calls' = calls + 1
    /\ Goto(g, "lock")
    /\ UNCHANGED <<mu, token, expiresAt, got, clock, timer, reply>>

\* The mutex is not there.
LockMissing(g) ==
    /\ pc[g] = "lock"
    /\ mu' = {g}
    /\ Goto(g, "check")
    /\ UNCHANGED <<token, expiresAt, got, clock, timer, reply, calls>>

Lock(g) ==
    /\ pc[g] = "lock"
    /\ mu = {}
    /\ mu' = {g}
    /\ Goto(g, "check")
    /\ UNCHANGED <<token, expiresAt, got, clock, timer, reply, calls>>

\* + for -: the token is kept past its end.
FreshTooLong == token # NoToken /\ clock < expiresAt + Margin
Fresh == token # NoToken /\ clock < expiresAt - Margin

UseCached(g) ==
    /\ pc[g] = "check"
    /\ Fresh
    /\ got' = [got EXCEPT ![g] = token]
    /\ mu' = {}
    /\ Goto(g, "returned")
    /\ UNCHANGED <<token, expiresAt, clock, timer, reply, calls>>

StartFetch(g) ==
    /\ pc[g] = "check"
    /\ ~Fresh
    /\ timer' = 0
    /\ reply' = NoToken
    /\ Goto(g, "fetch")
    /\ UNCHANGED <<mu, token, expiresAt, got, clock, calls>>

\* Azure AD issues a token; the answer has yet to travel.
Issue(g) ==
    /\ pc[g] = "fetch"
    /\ reply = NoToken
    /\ \E l \in Lifetimes : reply' = [until |-> clock + l, lifetime |-> l]
    /\ UNCHANGED <<mu, pc, token, expiresAt, got, clock, timer, calls>>

FetchSucceeds(g) ==
    /\ pc[g] = "fetch"
    /\ reply # NoToken
    /\ token' = reply
    /\ expiresAt' = clock + reply.lifetime
    /\ got' = [got EXCEPT ![g] = reply]
    /\ mu' = {}
    /\ Goto(g, "returned")
    /\ UNCHANGED <<clock, timer, reply, calls>>

\* The mutex is not released on the error path.
FetchFailsLocked(g) ==
    /\ pc[g] = "fetch"
    /\ Goto(g, "failed")
    /\ UNCHANGED <<mu, token, expiresAt, got, clock, timer, reply, calls>>

\* No answer, a status other than 200, a body that is unreadable or without a
\* token, or ctx ended.  The old token stays, valid or not.
FetchFails(g) ==
    /\ pc[g] = "fetch"
    /\ mu' = {}
    /\ Goto(g, "failed")
    /\ UNCHANGED <<token, expiresAt, got, clock, timer, reply, calls>>

\* The HTTP client gives up after MaxFetch.
Tick ==
    /\ clock < Horizon
    /\ clock' = clock + 1
    /\ IF \E g \in Goroutines : pc[g] = "fetch"
         THEN timer < MaxFetch /\ timer' = timer + 1
         ELSE UNCHANGED timer
    /\ UNCHANGED <<mu, pc, token, expiresAt, got, reply, calls>>
-----------------------------------------------------------------------------
Step(g) ==
    \/ Lock(g) \/ UseCached(g) \/ StartFetch(g) \/ FetchSucceeds(g) \/ FetchFails(g)

Done == calls = MaxCalls /\ clock = Horizon /\ UNCHANGED vars

Next ==
    \/ \E g \in Goroutines : StartCall(g) \/ Step(g) \/ Issue(g)
    \/ Tick
    \/ Done

Spec == Init /\ [][Next]_vars

\* Goroutines run and the HTTP client's timeout ends every fetch.
FairSpec == Spec /\ \A g \in Goroutines : WF_vars(Step(g))
-----------------------------------------------------------------------------
\* Every variable stays in its range.
TypeOK ==
    /\ mu \subseteq Goroutines
    /\ pc \in [Goroutines -> Location]
    /\ token \in Token \cup {NoToken}
    /\ expiresAt \in Nat
    /\ got \in [Goroutines -> Token \cup {NoToken}]
    /\ clock \in 0..Horizon
    /\ timer \in 0..MaxFetch
    /\ reply \in Token \cup {NoToken}
    /\ calls \in 0..MaxCalls

\* p.token and p.expiresAt belong together whatever failed in between: the noted
\* expiry is late by the travel time of the answer, never by more, never early.
ExpiryMatchesToken ==
    token # NoToken => expiresAt - token.until \in 0..MaxFetch

\* "Expired AAD token: refreshed 5 min before expiry, under a mutex" (DESIGN.md,
\* 5): a token handed out from the cache lives on for the margin less the travel
\* time, so that the requests it is put on still find it accepted.
CachedTokenOutlivesMargin ==
    [][\A g \in Goroutines :
         pc[g] = "check" /\ pc'[g] = "returned"
           => got'[g].until - clock > Margin - MaxFetch]_vars

\* A goroutine that waited for the mutex does not fetch what another just fetched:
\* no request leaves while an earlier answer is good for the margin.
NoRedundantFetch ==
    [][\A g \in Goroutines :
         pc[g] # "fetch" /\ pc'[g] = "fetch"
           => \A h \in Goroutines :
                pc[h] # "fetch" /\ got[h].until - clock <= Margin]_vars

\* Every call returns, those that wait for the mutex behind a failing fetch
\* included.
EveryCallReturns ==
    \A g \in Goroutines :
        pc[g] = "lock" ~> pc[g] \in {"returned", "failed"}
=============================================================================
