-------------------------- MODULE TokenCacheProofs --------------------------
(***************************************************************************)
(* Theorems about TokenCache, for any number of goroutines and calls and   *)
(* every lifetime, margin and fetch time.                                  *)
(***************************************************************************)
EXTENDS TokenCache, TLAPS

\* Who looks at the cache or fetches holds the mutex.
MutexInv ==
    \A g \in Goroutines : pc[g] \in {"check", "fetch"} => mu = {g}

\* An answer on its way is as old as the fetch at most.
ReplyInv ==
    \A g \in Goroutines :
        pc[g] = "fetch" /\ reply # NoToken
          => clock + reply.lifetime - reply.until \in 0..timer

\* During a fetch the cached token is within its margin.
FetchInv ==
    \A g \in Goroutines : pc[g] = "fetch" => ~Fresh

\* A token that is no longer the cached one is within its margin.
GotInv ==
    \A g \in Goroutines : got[g] = token \/ got[g].until - clock <= Margin

TokenInv ==
    /\ TypeOK /\ MutexInv /\ ReplyInv /\ FetchInv /\ GotInv /\ ExpiryMatchesToken

LEMMA Constants ==
    /\ Margin \in Nat /\ MaxFetch \in Nat /\ MaxCalls \in Nat /\ Horizon \in Nat
    /\ \A l \in Lifetimes : l \in Nat
BY TokenAssumption DEF TokenAssumption

\* What a token is made of, and that the missing one is none.
LEMMA TokenFields ==
    /\ \A t \in Token : t.until \in Nat /\ t.lifetime \in Nat /\ t # NoToken
    /\ NoToken.until = 0
    /\ \A u \in Nat, l \in Lifetimes : [until |-> u, lifetime |-> l] \in Token
BY Constants DEF Token, NoToken

LEMMA InitTokenInv == Init => TokenInv
BY Constants, TokenFields
   DEF Init, TokenInv, TypeOK, MutexInv, ReplyInv, FetchInv, GotInv,
       ExpiryMatchesToken, Fresh, Location

\* One step per action; under it one per conjunct of TokenInv.
LEMMA NextTokenInv == TokenInv /\ [Next]_vars => TokenInv'
<1> SUFFICES ASSUME TokenInv, [Next]_vars PROVE TokenInv'
  OBVIOUS
<1> USE Constants, TokenFields DEF TokenInv
<1>1. CASE \E g \in Goroutines : StartCall(g)
  <2> PICK g \in Goroutines : StartCall(g)
    BY <1>1
  <2> USE DEF StartCall, Goto
  <2>1. TypeOK'
    BY DEF TypeOK, Location
  <2>2. MutexInv'
    BY DEF TypeOK, MutexInv
  <2>3. ReplyInv' /\ FetchInv'
    BY DEF TypeOK, ReplyInv, FetchInv, Fresh
  <2>4. GotInv' /\ ExpiryMatchesToken'
    BY DEF GotInv, ExpiryMatchesToken
  <2> QED
    BY <2>1, <2>2, <2>3, <2>4
<1>2. CASE \E g \in Goroutines : Lock(g)
  <2> PICK g \in Goroutines : Lock(g)
    BY <1>2
  <2> USE DEF Lock, Goto
  <2>1. TypeOK'
    BY DEF TypeOK, Location
  <2>2. MutexInv'
    BY DEF TypeOK, MutexInv
  <2>3. ReplyInv' /\ FetchInv'
    BY DEF TypeOK, ReplyInv, FetchInv, Fresh
  <2>4. GotInv' /\ ExpiryMatchesToken'
    BY DEF GotInv, ExpiryMatchesToken
  <2> QED
    BY <2>1, <2>2, <2>3, <2>4
<1>3. CASE \E g \in Goroutines : UseCached(g)
  <2> PICK g \in Goroutines : UseCached(g)
    BY <1>3
  <2> USE DEF UseCached, Goto
  <2>1. TypeOK'
    BY DEF TypeOK, Location
  <2>2. MutexInv'
    BY DEF TypeOK, MutexInv
  <2>3. ReplyInv' /\ FetchInv'
    BY DEF TypeOK, ReplyInv, FetchInv, Fresh
  <2>4. GotInv' /\ ExpiryMatchesToken'
    BY DEF TypeOK, GotInv, ExpiryMatchesToken
  <2> QED
    BY <2>1, <2>2, <2>3, <2>4
<1>4. CASE \E g \in Goroutines : StartFetch(g)
  <2> PICK g \in Goroutines : StartFetch(g)
    BY <1>4
  <2> USE DEF StartFetch, Goto
  <2>1. TypeOK'
    BY DEF TypeOK, Location
  <2>2. MutexInv'
    BY DEF TypeOK, MutexInv
  <2>3. ReplyInv' /\ FetchInv'
    BY DEF TypeOK, ReplyInv, FetchInv, Fresh
  <2>4. GotInv' /\ ExpiryMatchesToken'
    BY DEF GotInv, ExpiryMatchesToken
  <2> QED
    BY <2>1, <2>2, <2>3, <2>4
<1>5. CASE \E g \in Goroutines : FetchSucceeds(g)
  <2> PICK g \in Goroutines : FetchSucceeds(g)
    BY <1>5
  <2> USE DEF FetchSucceeds, Goto
  <2>0. reply \in Token /\ clock + reply.lifetime - reply.until \in 0..timer
    BY DEF TypeOK, ReplyInv
  <2>1. TypeOK'
    BY <2>0 DEF TypeOK, Location
  <2>2. MutexInv'
    BY DEF TypeOK, MutexInv
  <2>3. ReplyInv' /\ FetchInv'
    BY DEF TypeOK, MutexInv, ReplyInv, FetchInv
  <2>4. ExpiryMatchesToken'
    BY <2>0 DEF TypeOK, ExpiryMatchesToken
  <2>5. token.until - clock <= Margin
    <3>1. CASE token = NoToken
      BY <3>1 DEF TypeOK
    <3>2. CASE token # NoToken
      BY <3>2 DEF TypeOK, FetchInv, Fresh, ExpiryMatchesToken
    <3> QED
      BY <3>1, <3>2
  <2>6. GotInv'
    BY <2>5 DEF TypeOK, GotInv
  <2> QED
    BY <2>1, <2>2, <2>3, <2>4, <2>6
<1>6. CASE \E g \in Goroutines : FetchFails(g)
  <2> PICK g \in Goroutines : FetchFails(g)
    BY <1>6
  <2> USE DEF FetchFails, Goto
  <2>1. TypeOK'
    BY DEF TypeOK, Location
  <2>2. MutexInv'
    BY DEF TypeOK, MutexInv
  <2>3. ReplyInv' /\ FetchInv'
    BY DEF TypeOK, ReplyInv, FetchInv, Fresh
  <2>4. GotInv' /\ ExpiryMatchesToken'
    BY DEF GotInv, ExpiryMatchesToken
  <2> QED
    BY <2>1, <2>2, <2>3, <2>4
<1>7. CASE \E g \in Goroutines : Issue(g)
  <2> PICK g \in Goroutines : Issue(g)
    BY <1>7
  <2> PICK l \in Lifetimes : reply' = [until |-> clock + l, lifetime |-> l]
    BY DEF Issue
  <2> USE DEF Issue
  <2>1. TypeOK'
    BY DEF TypeOK, Location
  <2>2. MutexInv' /\ FetchInv'
    BY DEF MutexInv, FetchInv, Fresh
  <2>3. ReplyInv'
    BY DEF TypeOK, ReplyInv
  <2>4. GotInv' /\ ExpiryMatchesToken'
    BY DEF GotInv, ExpiryMatchesToken
  <2> QED
    BY <2>1, <2>2, <2>3, <2>4
<1>8. CASE Tick
  <2> USE <1>8 DEF Tick
  <2>1. TypeOK'
    BY DEF TypeOK
  <2>2. MutexInv' /\ FetchInv'
    BY DEF TypeOK, MutexInv, FetchInv, Fresh
  <2>3. ReplyInv'
    BY DEF TypeOK, ReplyInv
  <2>4. GotInv' /\ ExpiryMatchesToken'
    BY DEF TypeOK, GotInv, ExpiryMatchesToken
  <2> QED
    BY <2>1, <2>2, <2>3, <2>4
<1>9. CASE UNCHANGED vars
  BY <1>9 DEF vars, TypeOK, MutexInv, ReplyInv, FetchInv, GotInv,
              ExpiryMatchesToken, Fresh
<1> QED
  BY <1>1, <1>2, <1>3, <1>4, <1>5, <1>6, <1>7, <1>8, <1>9 DEF Next, Step, Done

LEMMA SpecTokenInv == Spec => []TokenInv
BY InitTokenInv, NextTokenInv, PTL DEF Spec

\* Every variable keeps its type, whatever Azure AD answers.
THEOREM TypeCorrect == Spec => []TypeOK
<1>1. TokenInv => TypeOK
  BY DEF TokenInv
<1> QED
  BY <1>1, SpecTokenInv, PTL

\* The noted expiry belongs to the cached token and is late by MaxFetch at most.
THEOREM ExpiriesMatch == Spec => []ExpiryMatchesToken
<1>1. TokenInv => ExpiryMatchesToken
  BY DEF TokenInv
<1> QED
  BY <1>1, SpecTokenInv, PTL

\* A token from the cache lives on for more than the margin less MaxFetch.
THEOREM CachedTokensLiveOn == Spec => CachedTokenOutlivesMargin
<1> DEFINE P == \A g \in Goroutines :
                  pc[g] = "check" /\ pc'[g] = "returned"
                    => got'[g].until - clock > Margin - MaxFetch
<1>1. TokenInv /\ [Next]_vars => [P]_vars
  <2> SUFFICES ASSUME TokenInv, Next, NEW g \in Goroutines,
                      pc[g] = "check", pc'[g] = "returned"
               PROVE  got'[g].until - clock > Margin - MaxFetch
    BY DEF vars
  <2>1. UseCached(g)
    BY DEF Next, Step, Done, vars, TokenInv, TypeOK, StartCall, Lock, UseCached,
           StartFetch, FetchSucceeds, FetchFails, Issue, Tick, Goto
  <2> QED
    BY <2>1, Constants, TokenFields
       DEF TokenInv, TypeOK, ExpiryMatchesToken, UseCached, Fresh
<1> QED
  BY <1>1, SpecTokenInv, PTL DEF Spec, CachedTokenOutlivesMargin

\* No fetch begins beside another one or while a token given out is fresh.
THEOREM FetchesAreNeeded == Spec => NoRedundantFetch
<1> DEFINE P == \A g \in Goroutines :
                  pc[g] # "fetch" /\ pc'[g] = "fetch"
                    => \A h \in Goroutines :
                         pc[h] # "fetch" /\ got[h].until - clock <= Margin
<1>1. TokenInv /\ [Next]_vars => [P]_vars
  <2> SUFFICES ASSUME TokenInv, Next, NEW g \in Goroutines,
                      pc[g] # "fetch", pc'[g] = "fetch", NEW h \in Goroutines
               PROVE  pc[h] # "fetch" /\ got[h].until - clock <= Margin
    BY DEF vars
  <2>1. StartFetch(g)
    BY DEF Next, Step, Done, vars, TokenInv, TypeOK, StartCall, Lock, UseCached,
           StartFetch, FetchSucceeds, FetchFails, Issue, Tick, Goto
  <2>2. pc[h] # "fetch"
    BY <2>1 DEF TokenInv, MutexInv, StartFetch
  <2>3. token.until - clock <= Margin
    <3>1. CASE token = NoToken
      BY <3>1, Constants, TokenFields DEF TokenInv, TypeOK
    <3>2. CASE token # NoToken
      BY <2>1, <3>2, Constants, TokenFields
         DEF TokenInv, TypeOK, StartFetch, Fresh, ExpiryMatchesToken
    <3> QED
      BY <3>1, <3>2
  <2> QED
    BY <2>2, <2>3 DEF TokenInv, GotInv
<1> QED
  BY <1>1, SpecTokenInv, PTL DEF Spec, NoRedundantFetch
=============================================================================
