------------------------- MODULE SharedSessionProofs -------------------------
(***************************************************************************)
(* Theorems about SharedSession, for every number of goroutines, sessions  *)
(* and calls and every combination of faults.  The inductive invariant     *)
(* says which line of runStatement may hold which session: holding db.mu   *)
(* is what keeps db.session and the local variable equal.  Two more build  *)
(* on it: which sessions Fabric may still have, and where the statement of *)
(* each call may be queued, which counts its executions.                   *)
(***************************************************************************)
EXTENDS SharedSession, FunctionTheorems, FiniteSetTheorems, SequenceTheorems, TLAPS

\* Only the holder of db.mu is inside runStatement or CloseSession.
OneHolder == \A w \in Workers : pc[w] \in Critical => mu = w

\* The locals of a call at each line.
Locals ==
    \A w \in Workers :
        /\ pc[w] # "idle" => id[w] \in Calls
        /\ pc[w] \in {"starting", "submit", "await", "closing"}
             => current[w] # None
        /\ pc[w] \in {"create", "starting"} => session = None
        /\ pc[w] = "ensure" /\ retried[w] => session = None
        /\ pc[w] \notin Critical => ~retried[w]

SessionInv ==
    /\ TypeOK
    /\ OneHolder
    /\ Locals
    /\ CallerUsesCachedSession
    /\ CachedSessionStarted

LEMMA InitSessionInv == Init => SessionInv
<1> SUFFICES ASSUME Init PROVE SessionInv
  OBVIOUS
<1>1. TypeOK
  BY SessionAssumption, EmptySeq
     DEF Init, TypeOK, Location, SessionState, SessionAssumption, Calls
<1>2. OneHolder /\ Locals /\ CallerUsesCachedSession /\ CachedSessionStarted
  BY DEF Init, OneHolder, Locals, CallerUsesCachedSession,
     CachedSessionStarted, Critical
<1> QED
  BY <1>1, <1>2 DEF SessionInv

\* A statement joins a queue, and leaves it, without leaving Seq(Calls).
LEMMA QueueTypes ==
    ASSUME NEW q \in Seq(Calls), NEW i \in Calls
    PROVE  /\ Append(q, i) \in Seq(Calls)
           /\ <<>> \in Seq(Calls)
           /\ q # <<>> => Tail(q) \in Seq(Calls) /\ Head(q) \in Calls
BY AppendProperties, HeadTailProperties, EmptySeq

\* One step per action; under it one per conjunct of SessionInv.
LEMMA NextSessionInv == SessionInv /\ [Next]_vars => SessionInv'
<1> SUFFICES ASSUME SessionInv, [Next]_vars PROVE SessionInv'
  OBVIOUS
<1> USE SessionAssumption DEF SessionInv, SessionAssumption
<1>1. ASSUME NEW w \in Workers, StartStatement(w) PROVE SessionInv'
  <2> USE <1>1 DEF StartStatement, At, Goto, Enter
  <2>1. TypeOK'
    BY DEF TypeOK, Location, Critical, SessionState, serverVars, Calls
  <2>2. OneHolder'
    BY DEF OneHolder, TypeOK, Critical
  <2>3. Locals'
    BY DEF Locals, OneHolder, TypeOK, Critical, Calls
  <2>4. CallerUsesCachedSession'
    BY DEF CallerUsesCachedSession, OneHolder, Locals, TypeOK, Critical
  <2>5. CachedSessionStarted'
    BY DEF CachedSessionStarted, CallerUsesCachedSession, TypeOK, Locals,
       serverVars
  <2> QED
    BY <2>1, <2>2, <2>3, <2>4, <2>5
<1>2. ASSUME NEW w \in Workers, StartClose(w) PROVE SessionInv'
  <2> USE <1>2 DEF StartClose, At, Goto, Enter
  <2>1. TypeOK'
    BY DEF TypeOK, Location, Critical, SessionState, serverVars, Calls
  <2>2. OneHolder'
    BY DEF OneHolder, TypeOK, Critical
  <2>3. Locals'
    BY DEF Locals, OneHolder, TypeOK, Critical, Calls
  <2>4. CallerUsesCachedSession'
    BY DEF CallerUsesCachedSession, OneHolder, Locals, TypeOK, Critical
  <2>5. CachedSessionStarted'
    BY DEF CachedSessionStarted, CallerUsesCachedSession, TypeOK, Locals,
       serverVars
  <2> QED
    BY <2>1, <2>2, <2>3, <2>4, <2>5
<1>3. ASSUME NEW w \in Workers, Lock(w) PROVE SessionInv'
  <2> USE <1>3 DEF Lock, At, Goto
  <2>1. TypeOK'
    BY DEF TypeOK, Location, Critical, SessionState, serverVars, Calls
  <2>2. OneHolder'
    BY DEF OneHolder, TypeOK, Critical
  <2>3. Locals'
    BY DEF Locals, OneHolder, TypeOK, Critical, Calls
  <2>4. CallerUsesCachedSession'
    BY DEF CallerUsesCachedSession, OneHolder, Locals, TypeOK, Critical
  <2>5. CachedSessionStarted'
    BY DEF CachedSessionStarted, CallerUsesCachedSession, TypeOK, Locals,
       serverVars
  <2> QED
    BY <2>1, <2>2, <2>3, <2>4, <2>5
<1>4. ASSUME NEW w \in Workers, EnsureSession(w) PROVE SessionInv'
  <2> USE <1>4 DEF EnsureSession, At, Goto, UseSession
  <2>1. TypeOK'
    BY DEF TypeOK, Location, Critical, SessionState, serverVars, Calls
  <2>2. OneHolder'
    BY DEF OneHolder, TypeOK, Critical
  <2>3. Locals'
    BY DEF Locals, OneHolder, TypeOK, Critical, Calls
  <2>4. CallerUsesCachedSession'
    BY DEF CallerUsesCachedSession, OneHolder, Locals, TypeOK, Critical
  <2>5. CachedSessionStarted'
    BY DEF CachedSessionStarted, CallerUsesCachedSession, TypeOK, Locals,
       serverVars
  <2> QED
    BY <2>1, <2>2, <2>3, <2>4, <2>5
<1>5. ASSUME NEW w \in Workers, CreateAccepted(w) PROVE SessionInv'
  <2> USE <1>5 DEF CreateAccepted, At, Goto, UseSession, Created, Fresh
  <2>1. TypeOK'
    BY QueueTypes, EmptySeq DEF TypeOK, Location, Critical, SessionState,
       serverVars, Calls
  <2>2. OneHolder'
    BY DEF OneHolder, TypeOK, Critical
  <2>3. Locals'
    BY DEF Locals, OneHolder, TypeOK, Critical, Calls
  <2>4. CallerUsesCachedSession'
    BY DEF CallerUsesCachedSession, OneHolder, Locals, TypeOK, Critical
  <2>5. CachedSessionStarted'
    BY DEF CachedSessionStarted, CallerUsesCachedSession, TypeOK, Locals,
       serverVars
  <2> QED
    BY <2>1, <2>2, <2>3, <2>4, <2>5
<1>6. ASSUME NEW w \in Workers, CreateFailed(w) PROVE SessionInv'
  <2> USE <1>6 DEF CreateFailed, At, Goto, Finish, UseSession
  <2>1. TypeOK'
    BY DEF TypeOK, Location, Critical, SessionState, serverVars, Calls
  <2>2. OneHolder'
    BY DEF OneHolder, TypeOK, Critical
  <2>3. Locals'
    BY DEF Locals, OneHolder, TypeOK, Critical, Calls
  <2>4. CallerUsesCachedSession'
    BY DEF CallerUsesCachedSession, OneHolder, Locals, TypeOK, Critical
  <2>5. CachedSessionStarted'
    BY DEF CachedSessionStarted, CallerUsesCachedSession, TypeOK, Locals,
       serverVars
  <2> QED
    BY <2>1, <2>2, <2>3, <2>4, <2>5
<1>7. ASSUME NEW w \in Workers, StartingIdle(w) PROVE SessionInv'
  <2> USE <1>7 DEF StartingIdle, At, Goto
  <2>1. TypeOK'
    BY DEF TypeOK, Location, Critical, SessionState, serverVars, Calls
  <2>2. OneHolder'
    BY DEF OneHolder, TypeOK, Critical
  <2>3. Locals'
    BY DEF Locals, OneHolder, TypeOK, Critical, Calls
  <2>4. CallerUsesCachedSession'
    BY DEF CallerUsesCachedSession, OneHolder, Locals, TypeOK, Critical
  <2>5. CachedSessionStarted'
    BY DEF CachedSessionStarted, CallerUsesCachedSession, TypeOK, Locals,
       serverVars
  <2> QED
    BY <2>1, <2>2, <2>3, <2>4, <2>5
<1>8. ASSUME NEW w \in Workers, StartingFailed(w) PROVE SessionInv'
  <2> USE <1>8 DEF StartingFailed, At, Goto, Finish, UseSession
  <2>1. TypeOK'
    BY DEF TypeOK, Location, Critical, SessionState, serverVars, Calls
  <2>2. OneHolder'
    BY DEF OneHolder, TypeOK, Critical
  <2>3. Locals'
    BY DEF Locals, OneHolder, TypeOK, Critical, Calls
  <2>4. CallerUsesCachedSession'
    BY DEF CallerUsesCachedSession, OneHolder, Locals, TypeOK, Critical
  <2>5. CachedSessionStarted'
    BY DEF CachedSessionStarted, CallerUsesCachedSession, TypeOK, Locals,
       serverVars
  <2> QED
    BY <2>1, <2>2, <2>3, <2>4, <2>5
<1>9. ASSUME NEW w \in Workers, SubmitAccepted(w) PROVE SessionInv'
  <2> USE <1>9 DEF SubmitAccepted, At, Goto, Queued
  <2>1. TypeOK'
    BY QueueTypes, EmptySeq DEF TypeOK, Location, Critical, SessionState,
       serverVars, Calls, Locals
  <2>2. OneHolder'
    BY DEF OneHolder, TypeOK, Critical
  <2>3. Locals'
    BY DEF Locals, OneHolder, TypeOK, Critical, Calls
  <2>4. CallerUsesCachedSession'
    BY DEF CallerUsesCachedSession, OneHolder, Locals, TypeOK, Critical
  <2>5. CachedSessionStarted'
    BY DEF CachedSessionStarted, CallerUsesCachedSession, TypeOK, Locals,
       serverVars
  <2> QED
    BY <2>1, <2>2, <2>3, <2>4, <2>5
<1>10. ASSUME NEW w \in Workers, SubmitGone(w) PROVE SessionInv'
  <2> USE <1>10 DEF SubmitGone, At, Goto, Finish, UseSession
  <2>1. TypeOK'
    BY DEF TypeOK, Location, Critical, SessionState, serverVars, Calls
  <2>2. OneHolder'
    BY DEF OneHolder, TypeOK, Critical
  <2>3. Locals'
    BY DEF Locals, OneHolder, TypeOK, Critical, Calls
  <2>4. CallerUsesCachedSession'
    BY DEF CallerUsesCachedSession, OneHolder, Locals, TypeOK, Critical
  <2>5. CachedSessionStarted'
    BY DEF CachedSessionStarted, CallerUsesCachedSession, TypeOK, Locals,
       serverVars
  <2> QED
    BY <2>1, <2>2, <2>3, <2>4, <2>5
<1>11. ASSUME NEW w \in Workers, SubmitFailed(w) PROVE SessionInv'
  <2> USE <1>11 DEF SubmitFailed, At, Goto, Finish, UseSession
  <2>1. TypeOK'
    BY DEF TypeOK, Location, Critical, SessionState, serverVars, Calls
  <2>2. OneHolder'
    BY DEF OneHolder, TypeOK, Critical
  <2>3. Locals'
    BY DEF Locals, OneHolder, TypeOK, Critical, Calls
  <2>4. CallerUsesCachedSession'
    BY DEF CallerUsesCachedSession, OneHolder, Locals, TypeOK, Critical
  <2>5. CachedSessionStarted'
    BY DEF CachedSessionStarted, CallerUsesCachedSession, TypeOK, Locals,
       serverVars
  <2> QED
    BY <2>1, <2>2, <2>3, <2>4, <2>5
<1>12. ASSUME NEW w \in Workers, AwaitFinal(w) PROVE SessionInv'
  <2> USE <1>12 DEF AwaitFinal, At, Goto, Finish, UseSession
  <2>1. TypeOK'
    BY DEF TypeOK, Location, Critical, SessionState, serverVars, Calls
  <2>2. OneHolder'
    BY DEF OneHolder, TypeOK, Critical
  <2>3. Locals'
    BY DEF Locals, OneHolder, TypeOK, Critical, Calls
  <2>4. CallerUsesCachedSession'
    BY DEF CallerUsesCachedSession, OneHolder, Locals, TypeOK, Critical
  <2>5. CachedSessionStarted'
    BY DEF CachedSessionStarted, CallerUsesCachedSession, TypeOK, Locals,
       serverVars
  <2> QED
    BY <2>1, <2>2, <2>3, <2>4, <2>5
<1>13. ASSUME NEW w \in Workers, AwaitVanished(w) PROVE SessionInv'
  <2> USE <1>13 DEF AwaitVanished, At, Goto, Finish, UseSession
  <2>1. TypeOK'
    BY DEF TypeOK, Location, Critical, SessionState, serverVars, Calls
  <2>2. OneHolder'
    BY DEF OneHolder, TypeOK, Critical
  <2>3. Locals'
    BY DEF Locals, OneHolder, TypeOK, Critical, Calls
  <2>4. CallerUsesCachedSession'
    BY DEF CallerUsesCachedSession, OneHolder, Locals, TypeOK, Critical
  <2>5. CachedSessionStarted'
    BY DEF CachedSessionStarted, CallerUsesCachedSession, TypeOK, Locals,
       serverVars
  <2> QED
    BY <2>1, <2>2, <2>3, <2>4, <2>5
<1>14. ASSUME NEW w \in Workers, AwaitAborted(w) PROVE SessionInv'
  <2> USE <1>14 DEF AwaitAborted, At, Goto, Finish, UseSession
  <2>1. TypeOK'
    BY DEF TypeOK, Location, Critical, SessionState, serverVars, Calls
  <2>2. OneHolder'
    BY DEF OneHolder, TypeOK, Critical
  <2>3. Locals'
    BY DEF Locals, OneHolder, TypeOK, Critical, Calls
  <2>4. CallerUsesCachedSession'
    BY DEF CallerUsesCachedSession, OneHolder, Locals, TypeOK, Critical
  <2>5. CachedSessionStarted'
    BY DEF CachedSessionStarted, CallerUsesCachedSession, TypeOK, Locals,
       serverVars
  <2> QED
    BY <2>1, <2>2, <2>3, <2>4, <2>5
<1>15. ASSUME NEW w \in Workers, CloseLock(w) PROVE SessionInv'
  <2> USE <1>15 DEF CloseLock, At, Goto, Finish, UseSession
  <2>1. TypeOK'
    BY DEF TypeOK, Location, Critical, SessionState, serverVars, Calls
  <2>2. OneHolder'
    BY DEF OneHolder, TypeOK, Critical
  <2>3. Locals'
    BY DEF Locals, OneHolder, TypeOK, Critical, Calls
  <2>4. CallerUsesCachedSession'
    BY DEF CallerUsesCachedSession, OneHolder, Locals, TypeOK, Critical
  <2>5. CachedSessionStarted'
    BY DEF CachedSessionStarted, CallerUsesCachedSession, TypeOK, Locals,
       serverVars
  <2> QED
    BY <2>1, <2>2, <2>3, <2>4, <2>5
<1>16. ASSUME NEW w \in Workers, CloseSession(w) PROVE SessionInv'
  <2> USE <1>16 DEF CloseSession, At, Goto, Finish, UseSession
  <2>1. TypeOK'
    <3>1. state' \in [Sessions -> SessionState]
      BY DEF TypeOK, SessionState
    <3>2. queue' \in [Sessions -> Seq(Calls)]
      BY QueueTypes, EmptySeq DEF TypeOK
    <3>3. /\ mu' \in Workers \cup {None} /\ session' \in Sessions \cup {None}
          /\ pc' \in [Workers -> Location]
          /\ current' \in [Workers -> Sessions \cup {None}]
          /\ retried' \in [Workers -> BOOLEAN]
      BY DEF TypeOK, Location, Critical
    <3> QED
      BY <3>1, <3>2, <3>3 DEF TypeOK
  <2>2. OneHolder'
    BY DEF OneHolder, TypeOK, Critical
  <2>3. Locals'
    BY DEF Locals, OneHolder, TypeOK, Critical, Calls
  <2>4. CallerUsesCachedSession'
    BY DEF CallerUsesCachedSession, OneHolder, Locals, TypeOK, Critical
  <2>5. CachedSessionStarted'
    BY DEF CachedSessionStarted, CallerUsesCachedSession, TypeOK, Locals,
       serverVars
  <2> QED
    BY <2>1, <2>2, <2>3, <2>4, <2>5
<1>17. ASSUME NEW s \in Sessions, Startup(s) \/ StatementEnds(s) \/ Expire(s)
       PROVE  SessionInv'
  <2> USE <1>17 DEF Startup, SessionListed, SessionStarts, SessionFails, Become,
                    StatementEnds, Expire, clientVars
  <2>1. TypeOK'
    <3>1. CASE Startup(s) \/ Expire(s)
      <4>1. <<>> \in Seq(Calls)
        BY EmptySeq
      <4>2. queue' \in [Sessions -> Seq(Calls)]
        BY <3>1, <4>1 DEF TypeOK
      <4>3. state' \in [Sessions -> SessionState]
        BY <3>1 DEF TypeOK, SessionState
      <4> QED
        BY <3>1, <4>2, <4>3 DEF TypeOK
    <3>2. CASE StatementEnds(s)
      <4>1. Head(queue[s]) \in Calls /\ Tail(queue[s]) \in Seq(Calls)
        BY <3>2, QueueTypes DEF TypeOK
      <4>2. executed' \in [Calls -> Nat]
        BY <3>2, <4>1 DEF TypeOK
      <4>3. queue' \in [Sessions -> Seq(Calls)]
        BY <3>2, <4>1 DEF TypeOK
      <4> QED
        BY <3>2, <4>2, <4>3 DEF TypeOK
    <3> QED
      BY <1>17, <3>1, <3>2
  <2>2. OneHolder' /\ Locals' /\ CallerUsesCachedSession'
    BY DEF OneHolder, Locals, CallerUsesCachedSession
  <2>3. CachedSessionStarted'
    BY DEF CachedSessionStarted, TypeOK
  <2> QED
    BY <2>1, <2>2, <2>3
<1>18. ASSUME NEW w \in Workers, CreateLost(w) PROVE SessionInv'
  <2>0. /\ <<>> \in Seq(Calls)
        /\ state \in [Sessions -> SessionState] /\ queue \in [Sessions -> Seq(Calls)]
    BY EmptySeq DEF TypeOK
  <2> USE <1>18 DEF CreateLost, At, Created, Fresh, clientVars
  <2>1. TypeOK'
    <3>1. state' \in [Sessions -> SessionState] /\ queue' \in [Sessions -> Seq(Calls)]
      BY <2>0 DEF SessionState
    <3> QED
      BY <3>1 DEF TypeOK
  <2>2. OneHolder'
    BY DEF OneHolder, TypeOK, Critical
  <2>3. Locals'
    BY DEF Locals, OneHolder, TypeOK, Critical, Calls
  <2>4. CallerUsesCachedSession'
    BY DEF CallerUsesCachedSession, OneHolder, Locals, TypeOK, Critical
  <2>5. CachedSessionStarted'
    BY DEF CachedSessionStarted, CallerUsesCachedSession, TypeOK, Locals,
       serverVars
  <2> QED
    BY <2>1, <2>2, <2>3, <2>4, <2>5
<1>19. ASSUME NEW w \in Workers, SubmitLost(w) PROVE SessionInv'
  <2> USE <1>19 DEF SubmitLost, At, Queued, clientVars
  <2>1. TypeOK'
    <3>1. id[w] \in Calls /\ current[w] \in Sessions
      BY DEF Locals, TypeOK
    <3>2. queue' \in [Sessions -> Seq(Calls)]
      BY <3>1, QueueTypes DEF TypeOK
    <3>3. lost' \in [Calls -> 0..MaxLost]
      BY <3>1 DEF TypeOK
    <3> QED
      BY <3>2, <3>3 DEF TypeOK
  <2>2. OneHolder'
    BY DEF OneHolder, TypeOK, Critical
  <2>3. Locals'
    BY DEF Locals, OneHolder, TypeOK, Critical, Calls
  <2>4. CallerUsesCachedSession'
    BY DEF CallerUsesCachedSession, OneHolder, Locals, TypeOK, Critical
  <2>5. CachedSessionStarted'
    BY DEF CachedSessionStarted, CallerUsesCachedSession, TypeOK, Locals,
       serverVars
  <2> QED
    BY <2>1, <2>2, <2>3, <2>4, <2>5
<1>20. CASE UNCHANGED vars
  BY <1>20 DEF vars, clientVars, serverVars, TypeOK, OneHolder, Locals,
     CallerUsesCachedSession, CachedSessionStarted
<1> QED
  BY <1>1, <1>2, <1>3, <1>4, <1>5, <1>6, <1>7, <1>8, <1>9, <1>10, <1>11,
     <1>12, <1>13, <1>14, <1>15, <1>16, <1>17, <1>18, <1>19, <1>20
     DEF Next, Call, Progress, Failure, Done

LEMMA SpecSessionInv == Spec => []SessionInv
BY InitSessionInv, NextSessionInv, PTL DEF Spec

\* Every variable keeps its type.
THEOREM TypeCorrect == Spec => []TypeOK
<1>1. SessionInv => TypeOK
  BY DEF SessionInv
<1> QED
  BY <1>1, SpecSessionInv, PTL

\* No goroutine submits to, polls or closes a session the DB has let go.
THEOREM CallersUseTheCachedSession == Spec => []CallerUsesCachedSession
<1>1. SessionInv => CallerUsesCachedSession
  BY DEF SessionInv
<1> QED
  BY <1>1, SpecSessionInv, PTL

\* The cached session became idle once; Fabric may have reaped it since.
THEOREM OnlyStartedSessionsAreCached == Spec => []CachedSessionStarted
<1>1. SessionInv => CachedSessionStarted
  BY DEF SessionInv
<1> QED
  BY <1>1, SpecSessionInv, PTL

\* The DB abandons a session Fabric still has only in Close.
THEOREM LiveSessionsAreKept == Spec => LiveSessionNeverDropped
<1> DEFINE P == session # None /\ session' # session /\ session \in Alive
                  => \E w \in Workers : At(w, "closing") /\ current[w] = session
<1>1. SessionInv /\ [Next]_vars => [P]_vars
  <2> SUFFICES ASSUME SessionInv, Next, session # None, session' # session,
                      session \in Alive
               PROVE  \E w \in Workers : At(w, "closing") /\ current[w] = session
    BY DEF vars
  <2>1. PICK w \in Workers : \/ StartingIdle(w)
                             \/ SubmitGone(w)
                             \/ CloseSession(w)
    BY DEF Next, Call, Progress, Failure, Done, vars, clientVars, Startup,
       SessionListed, SessionStarts, SessionFails, Become, StatementEnds,
       Expire, StartStatement, StartClose, Enter, Lock, EnsureSession,
       CreateAccepted, CreateLost, CreateFailed, StartingFailed, SubmitAccepted,
       SubmitLost, SubmitFailed, AwaitFinal, AwaitVanished, AwaitAborted, CloseLock
  <2>2. ~StartingIdle(w)
    BY DEF SessionInv, Locals, StartingIdle, At
  <2>3. ~SubmitGone(w)
    BY DEF SessionInv, CallerUsesCachedSession, SubmitGone, At, Alive
  <2>4. CloseSession(w)
    BY <2>1, <2>2, <2>3
  <2> QED
    BY <2>4 DEF SessionInv, CallerUsesCachedSession, CloseSession, At
<1> QED
  BY <1>1, SpecSessionInv, PTL DEF Spec, LiveSessionNeverDropped

\* A retried submit goes to a session that has just become idle.
THEOREM RetriesUseAStartedSession == Spec => RetryGetsStartedSession
<1> DEFINE P == \A w \in Workers :
                  retried[w] /\ ~At(w, "submit") /\ pc'[w] = "submit"
                  => state'[current'[w]] = "idle"
<1>1. SessionInv /\ [Next]_vars => [P]_vars
  <2> SUFFICES ASSUME SessionInv, Next, NEW w \in Workers, retried[w],
                      ~At(w, "submit"), pc'[w] = "submit"
               PROVE  state'[current'[w]] = "idle"
    BY DEF vars
  <2> USE DEF SessionInv, At
  <2>1. PICK v \in Workers : EnsureSession(v) \/ StartingIdle(v)
    BY DEF Next, Call, Progress, Failure, Done, vars, clientVars, Startup,
       SessionListed, SessionStarts, SessionFails, Become, StatementEnds,
       Expire, StartStatement, StartClose, Enter, Lock, TypeOK, Goto,
       CreateAccepted, CreateLost, CreateFailed, StartingFailed, SubmitAccepted,
       SubmitLost, SubmitGone, SubmitFailed, AwaitFinal, AwaitVanished, AwaitAborted,
       CloseLock, CloseSession, Finish
  <2>2. v = w
    BY <2>1 DEF EnsureSession, StartingIdle, Goto, TypeOK
  <2>3. ~EnsureSession(w)
    BY DEF EnsureSession, Locals, Goto, TypeOK
  <2> QED
    BY <2>1, <2>2, <2>3 DEF StartingIdle, serverVars
<1> QED
  BY <1>1, SpecSessionInv, PTL DEF Spec, RetryGetsStartedSession

-----------------------------------------------------------------------------
(* Sessions that hold Spark capacity. *)

\* No session is lost sight of: creations are answered, sessions are waited for
\* until they start or fail, and the DELETE of Close succeeds.
AllHeard == Faults \cap {"unlisted", "start", "lost", "close"} = {}

\* A session Fabric still has is cached, or somebody waits for it to start.
LiveSessionsAreKnown ==
    \A s \in Alive :
        /\ state[s] # "unlisted"
        /\ s = session \/ \E w \in Workers : At(w, "starting") /\ current[w] = s

\* One step per group of actions that disturb the invariant in the same way.
LEMMA NextLiveSessionsAreKnown ==
    ASSUME AllHeard, SessionInv, LiveSessionsAreKnown, [Next]_vars
    PROVE  LiveSessionsAreKnown'
<1> USE SessionAssumption DEF SessionAssumption, AllHeard, SessionInv, LiveSessionsAreKnown, Alive, At
<1>1. ASSUME NEW w \in Workers,
             \/ StartStatement(w) \/ StartClose(w) \/ Lock(w) \/ EnsureSession(w)
             \/ CreateFailed(w) \/ SubmitAccepted(w) \/ SubmitLost(w) \/ SubmitFailed(w)
             \/ AwaitFinal(w) \/ AwaitVanished(w) \/ AwaitAborted(w) \/ CloseLock(w)
      PROVE  LiveSessionsAreKnown'
  <2>1. state' = state /\ session' = session
    BY <1>1 DEF StartStatement, StartClose, Enter, Lock, EnsureSession, CreateFailed,
       SubmitAccepted, SubmitLost, SubmitFailed, AwaitFinal, AwaitVanished,
       AwaitAborted, CloseLock, serverVars, clientVars
  <2>2. \A v \in Workers : pc[v] = "starting" =>
            pc'[v] = "starting" /\ current'[v] = current[v]
    BY <1>1 DEF StartStatement, StartClose, Enter, Lock, EnsureSession, CreateFailed,
       SubmitAccepted, SubmitLost, SubmitFailed, AwaitFinal, AwaitVanished,
       AwaitAborted, CloseLock, serverVars, clientVars, Goto, Finish, UseSession, TypeOK
  <2> QED
    BY <2>1, <2>2
<1>2. ASSUME NEW w \in Workers, CreateAccepted(w) PROVE LiveSessionsAreKnown'
  <2>1. \A v \in Workers : pc[v] # "starting"
    BY <1>2 DEF CreateAccepted, OneHolder, Critical
  <2> QED
    BY <1>2, <2>1 DEF CreateAccepted, Created, UseSession, Goto, TypeOK
<1>3. ASSUME NEW w \in Workers, StartingIdle(w) PROVE LiveSessionsAreKnown'
  <2>1. \A v \in Workers : pc[v] = "starting" => v = w
    BY <1>3 DEF StartingIdle, OneHolder, Critical
  <2>2. session = None /\ session' = current[w] /\ state' = state
    BY <1>3 DEF StartingIdle, Locals, serverVars
  <2> QED
    BY <2>1, <2>2
<1>4. ASSUME NEW w \in Workers, StartingFailed(w) PROVE LiveSessionsAreKnown'
  <2>1. state[current[w]] \in {"failed", "absent", "unlisted"}
    BY <1>4 DEF StartingFailed
  <2>2. \A v \in Workers : pc[v] = "starting" => v = w
    BY <1>4 DEF StartingFailed, OneHolder, Critical
  <2>3. current[w] \in Sessions /\ state[current[w]] # "unlisted"
    BY <1>4 DEF StartingFailed, Locals, TypeOK
  <2> QED
    BY <1>4, <2>1, <2>2, <2>3 DEF StartingFailed, Locals, Finish, Goto, UseSession,
       TypeOK, serverVars
<1>5. ASSUME NEW w \in Workers, SubmitGone(w) PROVE LiveSessionsAreKnown'
  <2>1. session = current[w] /\ state[session] = "absent"
    BY <1>5 DEF SubmitGone, CallerUsesCachedSession
  <2>2. \A v \in Workers : pc[v] # "starting"
    BY <1>5 DEF SubmitGone, OneHolder, Critical
  <2> QED
    BY <1>5, <2>1, <2>2 DEF SubmitGone, serverVars
<1>6. ASSUME NEW w \in Workers, CloseSession(w) PROVE LiveSessionsAreKnown'
  <2>1. session = current[w]
    BY <1>6 DEF CloseSession, CallerUsesCachedSession
  <2>2. \A v \in Workers : pc[v] # "starting"
    BY <1>6 DEF CloseSession, OneHolder, Critical
  <2>3. state' = [state EXCEPT ![current[w]] = "absent"]
    BY <1>6 DEF CloseSession
  <2> QED
    BY <2>1, <2>2, <2>3 DEF TypeOK
<1>7. ASSUME NEW s \in Sessions, Startup(s) \/ StatementEnds(s) \/ Expire(s)
      PROVE  LiveSessionsAreKnown'
  <2>1. UNCHANGED <<session, pc, current>>
    BY <1>7 DEF Startup, SessionListed, SessionStarts, SessionFails, Become,
       StatementEnds, Expire, clientVars
  <2>2. \A t \in Alive' : t \in Alive /\ state'[t] # "unlisted"
    BY <1>7 DEF Startup, SessionListed, SessionStarts, SessionFails, Become,
       StatementEnds, Expire, TypeOK
  <2> QED
    BY <2>1, <2>2
<1>8. ASSUME NEW w \in Workers PROVE ~CreateLost(w)
  BY DEF CreateLost
<1>9. CASE UNCHANGED vars
  BY <1>9 DEF vars, clientVars, serverVars
<1> QED
  BY <1>1, <1>2, <1>3, <1>4, <1>5, <1>6, <1>7, <1>8, <1>9
     DEF Next, Call, Progress, Failure, Done

LEMMA KnownSessionsAreOne ==
    ASSUME SessionInv, LiveSessionsAreKnown
    PROVE  OneLiveSession
<1> USE SessionAssumption DEF SessionAssumption, SessionInv
<1>1. ASSUME NEW s \in Alive, NEW t \in Alive PROVE s = t
  <2>1. CASE session # None
    <3>1. \A w \in Workers : ~At(w, "starting")
      BY <2>1 DEF Locals, At
    <3> QED
      BY <3>1 DEF LiveSessionsAreKnown
  <2>2. CASE session = None
    <3>1. s # None /\ t # None
      BY DEF Alive
    <3>2. PICK v \in Workers : At(v, "starting") /\ current[v] = s
      BY <2>2, <3>1 DEF LiveSessionsAreKnown
    <3>3. PICK w \in Workers : At(w, "starting") /\ current[w] = t
      BY <2>2, <3>1 DEF LiveSessionsAreKnown
    <3> QED
      BY <3>2, <3>3 DEF OneHolder, Critical, At
  <2> QED
    BY <2>1, <2>2
<1>2. CASE Alive = {}
  BY <1>2, FS_EmptySet DEF OneLiveSession
<1>3. ASSUME NEW s \in Alive PROVE OneLiveSession
  <2>1. Alive = {s}
    BY <1>1, <1>3
  <2>2. Cardinality({s}) = 1
    BY FS_Singleton
  <2> QED
    BY <2>1, <2>2 DEF OneLiveSession
<1> QED
  BY <1>2, <1>3

LEMMA SpecLiveSessionsAreKnown ==
    ASSUME AllHeard
    PROVE  Spec => []LiveSessionsAreKnown
<1>1. Init => LiveSessionsAreKnown
  BY DEF Init, LiveSessionsAreKnown, Alive
<1>2. SessionInv /\ LiveSessionsAreKnown /\ [Next]_vars => LiveSessionsAreKnown'
  BY NextLiveSessionsAreKnown
<1> QED
  BY <1>1, <1>2, SpecSessionInv, PTL DEF Spec

\* Unless a session is lost sight of, the DB never has two at Fabric, however many
\* expire or are closed and however many statements are given up.
THEOREM OneSessionIsLive == AllHeard => (Spec => []OneLiveSession)
<1> SUFFICES ASSUME AllHeard PROVE Spec => []OneLiveSession
  OBVIOUS
<1>1. SessionInv /\ LiveSessionsAreKnown => OneLiveSession
  BY KnownSessionsAreOne
<1> QED
  BY <1>1, SpecSessionInv, SpecLiveSessionsAreKnown, PTL

\* And Close leaves none.
THEOREM CloseLeavesNoSession == AllHeard => (Spec => CloseReleasesCapacity)
<1> SUFFICES ASSUME AllHeard PROVE Spec => CloseReleasesCapacity
  OBVIOUS
<1> DEFINE P == \A w \in Workers :
                  At(w, "closing") /\ pc'[w] = "idle" => Alive' = {} /\ session' = None
<1>1. SessionInv /\ LiveSessionsAreKnown /\ [Next]_vars => [P]_vars
  <2> SUFFICES ASSUME SessionInv, LiveSessionsAreKnown, Next, NEW w \in Workers,
                      At(w, "closing"), pc'[w] = "idle"
               PROVE  Alive' = {} /\ session' = None
    BY DEF vars
  <2> USE DEF SessionInv, At
  <2>1. CloseSession(w)
    BY DEF Next, Call, Progress, Failure, Done, vars, clientVars, Startup,
       SessionListed, SessionStarts, SessionFails, Become, StatementEnds,
       Expire, StartStatement, StartClose, Enter, Lock, TypeOK, Goto, EnsureSession,
       CreateAccepted, CreateLost, CreateFailed, StartingIdle, StartingFailed,
       SubmitAccepted, SubmitLost, SubmitGone, SubmitFailed, AwaitFinal,
       AwaitVanished, AwaitAborted, CloseLock, CloseSession, Finish
  <2>2. session = current[w] /\ session \in Sessions
    BY DEF CallerUsesCachedSession, Locals, TypeOK
  <2>3. \A v \in Workers : pc[v] # "starting"
    BY DEF OneHolder, Critical
  <2>4. Alive \subseteq {session}
    BY <2>3 DEF LiveSessionsAreKnown
  <2>5. state' = [state EXCEPT ![session] = "absent"] /\ session' = None
    BY <2>1, <2>2 DEF CloseSession, AllHeard
  <2> QED
    BY <2>2, <2>4, <2>5 DEF Alive, TypeOK
<1> QED
  BY <1>1, SpecSessionInv, SpecLiveSessionsAreKnown, PTL DEF Spec, CloseReleasesCapacity

-----------------------------------------------------------------------------
(* How often a statement is executed. *)

\* How often the statement of call i waits in a queue.
Places(i, q) == {j \in 1..Len(q) : q[j] = i}
Copies(i, q) == Cardinality(Places(i, q))

LEMMA CopiesType ==
    ASSUME NEW q \in Seq(Calls), NEW i
    PROVE  /\ IsFiniteSet(Places(i, q))
           /\ Copies(i, q) \in Nat
           /\ i \notin Range(q) => Copies(i, q) = 0
<1>1. Len(q) \in Nat /\ DOMAIN q = 1..Len(q)
  BY LenProperties
<1>2. IsFiniteSet(1..Len(q))
  BY <1>1, FS_Interval
<1>3. Places(i, q) \subseteq 1..Len(q)
  BY DEF Places
<1>4. IsFiniteSet(Places(i, q))
  BY <1>2, <1>3, FS_Subset
<1>5. Copies(i, q) \in Nat
  BY <1>4, FS_CardinalityType DEF Copies
<1>6. ASSUME i \notin Range(q) PROVE Copies(i, q) = 0
  <2>1. Places(i, q) = {}
    BY <1>1, <1>6 DEF Places, Range
  <2> QED
    BY <2>1, FS_EmptySet DEF Copies
<1> QED
  BY <1>4, <1>5, <1>6

LEMMA CopiesOfNone ==
    ASSUME NEW i
    PROVE  Copies(i, <<>>) = 0 /\ i \notin Range(<<>>)
<1>1. <<>> \in Seq(Calls) /\ Len(<<>>) = 0 /\ DOMAIN <<>> = {}
  BY EmptySeq
<1>2. i \notin Range(<<>>)
  BY <1>1 DEF Range
<1> QED
  BY <1>1, <1>2, CopiesType

LEMMA CopiesAfterAppend ==
    ASSUME NEW q \in Seq(Calls), NEW e \in Calls, NEW i
    PROVE  /\ Copies(i, Append(q, e)) = Copies(i, q) + IF e = i THEN 1 ELSE 0
           /\ Range(Append(q, e)) = Range(q) \cup {e}
<1> DEFINE t == Append(q, e)
           n == Len(q) + 1
<1>1. Len(q) \in Nat /\ DOMAIN q = 1..Len(q)
  BY LenProperties
<1>2. /\ t \in Seq(Calls)
      /\ Len(t) = n
      /\ \A j \in 1..Len(q) : t[j] = q[j]
      /\ t[n] = e
  BY AppendProperties
<1>3. DOMAIN t = 1..n
  BY <1>2, LenProperties
<1> HIDE DEF t
<1>4. Places(i, t) = IF e = i THEN Places(i, q) \cup {n} ELSE Places(i, q)
  BY <1>1, <1>2 DEF Places
<1>5. n \notin Places(i, q)
  BY <1>1 DEF Places
<1>6. Copies(i, t) = Copies(i, q) + IF e = i THEN 1 ELSE 0
  <2>1. IsFiniteSet(Places(i, q)) /\ Copies(i, q) \in Nat
    BY CopiesType
  <2>2. Cardinality(Places(i, q) \cup {n}) = Cardinality(Places(i, q)) + 1
    BY <2>1, <1>5, FS_AddElement
  <2> QED
    BY <1>4, <2>1, <2>2 DEF Copies
<1>7. Range(t) = Range(q) \cup {e}
  BY <1>1, <1>2, <1>3 DEF Range
<1> QED
  BY <1>6, <1>7 DEF t

LEMMA CopiesAfterTail ==
    ASSUME NEW q \in Seq(Calls), q # <<>>, NEW i
    PROVE  /\ Copies(i, Tail(q)) = Copies(i, q) - IF Head(q) = i THEN 1 ELSE 0
           /\ Range(Tail(q)) \subseteq Range(q)
           /\ Head(q) \in Range(q)
<1> DEFINE t == Tail(q)
           A == Places(i, t)
           B == Places(i, q) \ {1}
           f == [j \in A |-> j + 1]
<1>1. /\ Len(q) \in Nat \ {0}
      /\ DOMAIN q = 1..Len(q)
      /\ Head(q) = q[1]
  BY EmptySeq, LenProperties
<1>2. /\ t \in Seq(Calls)
      /\ Len(t) = Len(q) - 1
      /\ \A j \in 1..Len(t) : t[j] = q[j + 1]
  BY HeadTailProperties
<1>3. DOMAIN t = 1..Len(t)
  BY <1>2, LenProperties
<1> HIDE DEF t
<1>4. IsFiniteSet(A) /\ IsFiniteSet(Places(i, q))
  BY <1>2, CopiesType
<1>5. f \in Bijection(A, B)
  <2>1. f \in [A -> B]
    BY <1>1, <1>2 DEF Places
  <2>2. \A a, b \in A : f[a] = f[b] => a = b
    BY DEF Places
  <2>3. ASSUME NEW b \in B PROVE \E a \in A : f[a] = b
    <3>1. b - 1 \in A /\ (b - 1) + 1 = b
      BY <1>1, <1>2 DEF Places
    <3> QED
      BY <3>1
  <2> HIDE DEF f, A, B
  <2> QED
    BY <2>1, <2>2, <2>3, Fun_IsBij
<1>6. Cardinality(B) = Copies(i, t)
  BY <1>4, <1>5, FS_Bijection DEF ExistsBijection, Copies
<1>7. 1 \in Places(i, q) <=> Head(q) = i
  BY <1>1 DEF Places
<1>8. Cardinality(B) = Copies(i, q) - IF Head(q) = i THEN 1 ELSE 0
  <2>1. Cardinality(B) = IF 1 \in Places(i, q) THEN Copies(i, q) - 1 ELSE Copies(i, q)
    BY <1>4, FS_RemoveElement DEF Copies
  <2>2. Copies(i, q) \in Nat
    BY CopiesType
  <2> QED
    BY <2>1, <2>2, <1>7
<1>9. Range(t) \subseteq Range(q) /\ Head(q) \in Range(q)
  <2>1. ASSUME NEW j \in 1..Len(t) PROVE t[j] \in Range(q)
    <3>1. j + 1 \in DOMAIN q
      BY <1>1, <1>2
    <3> QED
      BY <3>1, <1>2 DEF Range
  <2> QED
    BY <2>1, <1>1, <1>3 DEF Range
<1> QED
  BY <1>6, <1>8, <1>9 DEF t

\* Before a call's statement was accepted, all of its copies come from lost answers.
Unsent == {"lock", "ensure", "create", "starting"}

Waits(i, s) == i \in Range(queue[s])
Total(i, s) == executed[i] + Copies(i, queue[s])

\* No two calls share a number, and numbers beyond calls are not used yet.
NumbersAreOwn ==
    /\ \A w \in Workers : id[w] <= calls
    /\ \A v, w \in Workers : v # w /\ id[v] = id[w] => id[v] = 0
    /\ \A i \in Calls : i > calls => executed[i] = 0 /\ \A s \in Sessions : ~Waits(i, s)

\* Statements wait in sessions that are idle, and each in one of them only: the
\* one its call submits to while it does.
QueuesAreKnown ==
    /\ \A s \in Sessions : state[s] # "idle" => queue[s] = <<>>
    /\ \A i \in Calls : \A s, t \in Sessions : Waits(i, s) /\ Waits(i, t) => s = t
    /\ \A w \in Workers, s \in Sessions :
          /\ pc[w] \in Unsent => ~Waits(id[w], s)
          /\ pc[w] = "submit" /\ Waits(id[w], s) => s = current[w]

\* The executions of a statement and those still to come.
CopiesAreCounted ==
    /\ \A i \in Calls : executed[i] <= 1 + lost[i]
    /\ \A i \in Calls, s \in Sessions : Total(i, s) <= 1 + lost[i]
    /\ \A w \in Workers, s \in Sessions :
          pc[w] \in Unsent \cup {"submit"} => Total(id[w], s) <= lost[id[w]]

ExecutionInv == NumbersAreOwn /\ QueuesAreKnown /\ CopiesAreCounted

LEMMA InitExecutionInv == Init => ExecutionInv
<1> SUFFICES ASSUME Init PROVE ExecutionInv
  OBVIOUS
<1> USE SessionAssumption DEF SessionAssumption
<1>1. \A i : Copies(i, <<>>) = 0 /\ i \notin Range(<<>>)
  BY CopiesOfNone
<1>2. NumbersAreOwn /\ QueuesAreKnown
  BY <1>1 DEF Init, NumbersAreOwn, QueuesAreKnown, Waits, Unsent
<1>3. CopiesAreCounted
  BY <1>1 DEF Init, CopiesAreCounted, Total, Unsent, Calls
<1> QED
  BY <1>2, <1>3 DEF ExecutionInv

\* Sessions come, lose their queues and go; callers move on, give up or, with an
\* empty queue behind them, start over.
LEMMA ShrinkingQueues ==
    ASSUME SessionInv, SessionInv', ExecutionInv,
           UNCHANGED <<id, calls, executed, lost>>,
           \A s \in Sessions :
              /\ queue'[s] \in {queue[s], <<>>}
              /\ state'[s] = "idle" \/ queue'[s] = <<>>,
           \A w \in Workers :
              \/ pc'[w] = pc[w] /\ current'[w] = current[w]
              \/ pc'[w] \notin Unsent \cup {"submit"}
              \/ pc[w] \in Unsent /\ pc'[w] \in Unsent \cup {"submit"}
              \/ /\ pc[w] = "submit" /\ pc'[w] \in Unsent
                 /\ queue[current[w]] = <<>>
    PROVE  ExecutionInv'
<1> USE DEF ExecutionInv
<1>1. \A i : Copies(i, <<>>) = 0 /\ i \notin Range(<<>>)
  BY CopiesOfNone
<1>2. \A s \in Sessions : \A i \in Nat : Waits(i, s)' => Waits(i, s)
  BY <1>1 DEF Waits
<1>3. \A i \in Calls, s \in Sessions :
          executed[i] \in Nat /\ lost[i] \in Nat /\ Total(i, s)' <= Total(i, s)
  <2> SUFFICES ASSUME NEW i \in Calls, NEW s \in Sessions
               PROVE  executed[i] \in Nat /\ lost[i] \in Nat /\ Total(i, s)' <= Total(i, s)
    OBVIOUS
  <2>1. executed[i] \in Nat /\ lost[i] \in Nat /\ queue[s] \in Seq(Calls)
    BY SessionAssumption DEF SessionAssumption, SessionInv, TypeOK
  <2>2. Copies(i, queue[s]) \in Nat
    BY <2>1, CopiesType
  <2> QED
    BY <1>1, <2>1, <2>2 DEF Total
<1>4. \A w \in Workers : id[w] \in Nat
  BY DEF SessionInv, TypeOK
<1>5. \A w \in Workers : pc'[w] \in Unsent \cup {"submit"} =>
          pc[w] \in Unsent \cup {"submit"} /\ id[w] \in Calls
  BY DEF SessionInv, Locals, Unsent
<1>6. NumbersAreOwn'
  BY <1>2, <1>4 DEF NumbersAreOwn, Calls
<1>7. QueuesAreKnown'
  <2>1. \A w \in Workers, s \in Sessions :
            pc[w] = "submit" /\ queue[current[w]] = <<>> => ~Waits(id[w], s)
    BY <1>1 DEF QueuesAreKnown, Waits
  <2> QED
    BY <1>2, <1>4, <2>1 DEF QueuesAreKnown, Unsent, Calls
<1>8. CopiesAreCounted'
  <2> SUFFICES ASSUME NEW s \in Sessions
               PROVE  /\ \A i \in Calls : Total(i, s)' <= 1 + lost[i]
                      /\ \A w \in Workers : pc'[w] \in Unsent \cup {"submit"} =>
                              Total(id[w], s)' <= lost[id[w]]
    BY DEF CopiesAreCounted
  <2>1. \A i \in Calls : Total(i, s) \in Nat /\ Total(i, s)' \in Nat
    <3> TAKE i \in Calls
    <3>1. executed[i] \in Nat /\ queue[s] \in Seq(Calls) /\ queue'[s] \in Seq(Calls)
      BY DEF SessionInv, TypeOK
    <3> QED
      BY <3>1, CopiesType DEF Total
  <2> QED
    BY <1>3, <1>5, <2>1 DEF CopiesAreCounted
<1> QED
  BY <1>6, <1>7, <1>8

LEMMA NextExecutionInv ==
    ASSUME SessionInv, SessionInv', ExecutionInv, [Next]_vars
    PROVE  ExecutionInv'
<1> USE SessionAssumption DEF SessionAssumption, ExecutionInv
<1>1. ASSUME NEW w \in Workers, StartStatement(w) \/ StartClose(w) PROVE ExecutionInv'
  <2> USE DEF StartStatement, StartClose, Enter, At, Goto, serverVars
  <2>1. /\ calls' = calls + 1 /\ id' = [id EXCEPT ![w] = calls + 1]
        /\ calls \in Nat /\ calls + 1 \in Calls
        /\ UNCHANGED <<current, state, queue, executed, lost>>
        /\ pc'[w] \in {"lock", "closeLock"}
        /\ \A v \in Workers : v # w => pc'[v] = pc[v] /\ id'[v] = id[v]
        /\ id'[w] = calls + 1
        /\ \A v \in Workers : id[v] \in Nat
    BY <1>1 DEF SessionInv, TypeOK, Calls
  <2>2. \A s \in Sessions : ~Waits(calls + 1, s) /\ executed[calls + 1] = 0
    BY <2>1 DEF NumbersAreOwn
  <2>3. NumbersAreOwn'
    BY <2>1, <2>2 DEF NumbersAreOwn, Waits, Calls
  <2>4. QueuesAreKnown'
    BY <2>1, <2>2 DEF QueuesAreKnown, Waits, Unsent
  <2>5. \A s \in Sessions : Total(calls + 1, s) = 0
    <3> TAKE s \in Sessions
    <3>1. queue[s] \in Seq(Calls)
      BY DEF SessionInv, TypeOK
    <3>2. Copies(calls + 1, queue[s]) = 0
      BY <2>2, <3>1, CopiesType DEF Waits
    <3> QED
      BY <2>2, <3>2 DEF Total
  <2>6. lost[calls + 1] \in Nat
    BY <2>1 DEF SessionInv, TypeOK
  <2>7. CopiesAreCounted'
    BY <2>1, <2>5, <2>6 DEF CopiesAreCounted, Total, Unsent
  <2> QED
    BY <2>3, <2>4, <2>7
<1>2. ASSUME NEW w \in Workers, SubmitAccepted(w) \/ SubmitLost(w) PROVE ExecutionInv'
  <2> USE <1>2 DEF SubmitAccepted, SubmitLost, Queued, At, Goto, clientVars
  <2>0. PICK i \in Calls, c \in Sessions : i = id[w] /\ c = current[w]
    BY DEF SessionInv, TypeOK, Locals
  <2>1. /\ i \in Calls /\ c \in Sessions /\ pc[w] = "submit" /\ state[c] = "idle"
        /\ queue[c] \in Seq(Calls)
        /\ queue' = [queue EXCEPT ![c] = Append(queue[c], i)]
        /\ UNCHANGED <<id, calls, current, state, executed>>
        /\ calls \in Nat /\ i \in Nat
        /\ \A s \in Sessions : queue[s] \in Seq(Calls)
        /\ \A j \in Calls : executed[j] \in Nat /\ lost[j] \in Nat /\ lost'[j] \in Nat
        /\ \A v \in Workers : v # w => pc'[v] = pc[v]
    BY <2>0 DEF SessionInv, TypeOK, Locals, Calls
  <2>2. \/ pc'[w] = "await" /\ \A j \in Calls : lost'[j] = lost[j]
        \/ pc'[w] = "submit" /\ \A j \in Calls : lost'[j] = lost[j] + IF j = i THEN 1 ELSE 0
    BY <2>0, <2>1 DEF SessionInv, TypeOK
  <2> HIDE <1>2 DEF SubmitAccepted, SubmitLost, Queued, At, Goto, clientVars
  <2>3. \A v \in Workers : v # w => id[v] # i
    BY <2>0, <2>1 DEF NumbersAreOwn, Calls
  <2>4. \A j \in Calls, s \in Sessions :
            /\ Waits(j, s)' <=> Waits(j, s) \/ (j = i /\ s = c)
            /\ Total(j, s) \in Nat
            /\ Total(j, s)' = Total(j, s) + IF j = i /\ s = c THEN 1 ELSE 0
    <3> TAKE j \in Calls, s \in Sessions
    <3>1. Copies(j, queue[s]) \in Nat
      BY <2>1, CopiesType
    <3>2. CASE s = c
      <4>1. queue'[s] = Append(queue[c], i)
        BY <2>1, <3>2 DEF SessionInv, TypeOK
      <4>2. /\ Copies(j, Append(queue[c], i)) = Copies(j, queue[c]) + IF i = j THEN 1 ELSE 0
            /\ Range(Append(queue[c], i)) = Range(queue[c]) \cup {i}
        BY <2>1, CopiesAfterAppend
      <4> QED
        BY <2>1, <3>1, <3>2, <4>1, <4>2 DEF Waits, Total
    <3>3. CASE s # c
      <4>1. queue'[s] = queue[s]
        BY <2>1, <3>3
      <4> QED
        BY <2>1, <3>1, <3>3, <4>1 DEF Waits, Total
    <3> QED
      BY <3>2, <3>3
  <2>5. NumbersAreOwn'
    <3>1. i <= calls
      BY <2>0 DEF NumbersAreOwn
    <3>2. \A j \in Calls : j > calls => j # i
      BY <2>1, <3>1 DEF Calls
    <3> QED
      BY <2>1, <2>4, <3>2 DEF NumbersAreOwn
  <2>6. \A s \in Sessions : Waits(i, s) => s = c
    BY <2>0, <2>1 DEF QueuesAreKnown
  <2>7. QueuesAreKnown'
    <3>1. \A s \in Sessions : state'[s] # "idle" => queue'[s] = <<>>
      BY <2>1 DEF QueuesAreKnown
    <3>2. ASSUME NEW j \in Calls, NEW s \in Sessions, NEW t \in Sessions,
                 Waits(j, s)', Waits(j, t)'
          PROVE  s = t
      BY <3>2, <2>4, <2>6 DEF QueuesAreKnown
    <3>3. ASSUME NEW v \in Workers, NEW s \in Sessions
          PROVE  /\ pc'[v] \in Unsent => ~Waits(id[v], s)'
                 /\ pc'[v] = "submit" /\ Waits(id[v], s)' => s = current'[v]
      <4>1. CASE v = w
        BY <4>1, <2>0, <2>1, <2>2, <2>4, <2>6 DEF Unsent
      <4>2. CASE v # w
        <5>1. pc'[v] \in Unsent \cup {"submit"} => id[v] \in Calls
          BY <2>1, <4>2 DEF SessionInv, Locals, Unsent
        <5> QED
          BY <5>1, <4>2, <2>1, <2>3, <2>4 DEF QueuesAreKnown
      <4> QED
        BY <4>1, <4>2
    <3> QED
      BY <3>1, <3>2, <3>3 DEF QueuesAreKnown
  <2>8. CopiesAreCounted'
    <3>1. \A s \in Sessions : Total(i, s) <= lost[i]
      BY <2>0, <2>1 DEF CopiesAreCounted
    <3>2. \A j \in Calls : lost[j] <= lost'[j] /\ (j # i => lost'[j] = lost[j])
      <4> TAKE j \in Calls
      <4>1. lost[j] \in Nat
        BY <2>1
      <4>2. lost'[j] = lost[j] \/ lost'[j] = lost[j] + IF j = i THEN 1 ELSE 0
        BY <2>2
      <4> QED
        BY <4>1, <4>2
    <3>3. \A j \in Calls : executed'[j] <= 1 + lost'[j]
      <4> TAKE j \in Calls
      <4>1. /\ executed[j] \in Nat /\ lost[j] \in Nat /\ lost'[j] \in Nat
            /\ executed'[j] = executed[j]
        BY <2>1
      <4>2. executed[j] <= 1 + lost[j] /\ lost[j] <= lost'[j]
        BY <3>2 DEF CopiesAreCounted
      <4> QED
        BY <4>1, <4>2
    <3>4. ASSUME NEW j \in Calls, NEW s \in Sessions PROVE Total(j, s)' <= 1 + lost'[j]
      <4>1. lost[j] \in Nat /\ lost'[j] \in Nat
        BY <2>1
      <4>2. Total(j, s) <= 1 + lost[j] /\ lost[j] <= lost'[j]
        BY <3>2 DEF CopiesAreCounted
      <4>3. j = i => Total(j, s) <= lost[j]
        BY <3>1
      <4> QED
        BY <2>4, <4>1, <4>2, <4>3
    <3>5. ASSUME NEW v \in Workers, NEW s \in Sessions, pc'[v] \in Unsent \cup {"submit"}
          PROVE  Total(id[v], s)' <= lost'[id[v]]
      <4>1. CASE v = w
        <5>1. lost'[i] = lost[i] + 1
          BY <4>1, <3>5, <2>1, <2>2 DEF Unsent
        <5>2. id'[w] = i /\ lost[i] \in Nat
          BY <2>0, <2>1
        <5>3. Total(i, s)' <= lost[i] + 1
          BY <5>2, <2>4, <3>1
        <5> QED
          BY <4>1, <2>0, <5>1, <5>2, <5>3
      <4>2. CASE v # w
        <5>1. id[v] \in Calls /\ id[v] # i /\ pc[v] \in Unsent \cup {"submit"}
          BY <2>1, <2>3, <3>5, <4>2 DEF SessionInv, Locals, Unsent
        <5>2. PICK j \in Calls : j = id[v] /\ j = id'[v]
          BY <5>1, <2>1
        <5>3. Total(j, s) <= lost[j]
          BY <5>1, <5>2 DEF CopiesAreCounted
        <5>4. lost'[j] = lost[j]
          BY <5>1, <5>2, <3>2
        <5>5. Total(j, s) \in Nat /\ Total(j, s)' = Total(j, s) + 0
          BY <5>1, <5>2, <2>4
        <5> QED
          BY <5>2, <5>3, <5>4, <5>5
      <4> QED
        BY <4>1, <4>2
    <3> QED
      BY <3>3, <3>4, <3>5, <2>1 DEF CopiesAreCounted
  <2> QED
    BY <2>5, <2>7, <2>8
<1>3. ASSUME NEW s \in Sessions, StatementEnds(s) PROVE ExecutionInv'
  <2>0. PICK h \in Calls : h = Head(queue[s])
    BY <1>3, HeadTailProperties DEF StatementEnds, SessionInv, TypeOK
  <2>1. /\ queue[s] \in Seq(Calls) /\ queue[s] # <<>> /\ state[s] = "idle"
        /\ calls \in Nat /\ h \in Nat
        /\ queue' = [queue EXCEPT ![s] = Tail(queue[s])]
        /\ executed' = [executed EXCEPT ![h] = executed[h] + 1]
        /\ UNCHANGED <<pc, id, calls, current, state, lost>>
        /\ \A t \in Sessions : queue[t] \in Seq(Calls)
        /\ \A j \in Calls : executed[j] \in Nat /\ lost[j] \in Nat
    <3>1. /\ queue \in [Sessions -> Seq(Calls)] /\ executed \in [Calls -> Nat]
          /\ \A j \in Calls : lost[j] \in Nat
          /\ calls \in Nat
      BY DEF SessionInv, TypeOK
    <3>2. h \in Nat
      BY <2>0 DEF Calls
    <3>3. /\ queue[s] # <<>> /\ state[s] = "idle"
          /\ queue' = [queue EXCEPT ![s] = Tail(queue[s])]
          /\ executed' = [executed EXCEPT ![h] = executed[h] + 1]
          /\ UNCHANGED <<pc, id, calls, current, state, lost>>
      BY <1>3, <2>0 DEF StatementEnds, clientVars
    <3> QED
      BY <3>1, <3>2, <3>3
  <2>2. Waits(h, s)
    BY <2>0, <2>1, CopiesAfterTail DEF Waits
  <2>3. \A t \in Sessions, j \in Calls : Waits(j, t)' => Waits(j, t)
    <3> TAKE t \in Sessions, j \in Calls
    <3>1. Range(Tail(queue[s])) \subseteq Range(queue[s])
      BY <2>1, CopiesAfterTail
    <3>2. queue'[t] = IF t = s THEN Tail(queue[s]) ELSE queue[t]
      BY <2>1 DEF SessionInv, TypeOK
    <3> QED
      BY <3>1, <3>2 DEF Waits
  <2>4. \A t \in Sessions, j \in Calls :
            /\ Total(j, t) \in Nat
            /\ Total(j, t)' = Total(j, t) + IF j = h /\ t # s THEN 1 ELSE 0
    <3> TAKE t \in Sessions, j \in Calls
    <3>1. Copies(j, queue[t]) \in Nat
      BY <2>1, CopiesType
    <3>2. executed'[j] = executed[j] + IF j = h THEN 1 ELSE 0
      BY <2>1 DEF SessionInv, TypeOK
    <3>3. CASE t = s
      <4>1. queue'[t] = Tail(queue[s])
        BY <2>1, <3>3 DEF SessionInv, TypeOK
      <4>2. Copies(j, queue'[t]) = Copies(j, queue[s]) - IF h = j THEN 1 ELSE 0
        BY <2>0, <2>1, <4>1, CopiesAfterTail
      <4> QED
        BY <2>1, <3>1, <3>2, <3>3, <4>2 DEF Total
    <3>4. CASE t # s
      <4>1. queue'[t] = queue[t]
        BY <2>1, <3>4
      <4> QED
        BY <2>1, <3>1, <3>2, <3>4, <4>1 DEF Total
    <3> QED
      BY <3>3, <3>4
  <2>5. executed'[h] <= Total(h, s)
    <3>1. executed'[h] <= Total(h, s)'
      <4>1. executed'[h] \in Nat /\ queue'[s] \in Seq(Calls)
        BY <2>1 DEF SessionInv, TypeOK
      <4>2. Copies(h, queue'[s]) \in Nat
        BY <4>1, CopiesType
      <4> QED
        BY <4>1, <4>2 DEF Total
    <3> QED
      BY <3>1, <2>1, <2>4
  <2>6. \A t \in Sessions : t # s => Total(h, t)' = executed'[h]
    <3> TAKE t \in Sessions
    <3> HAVE t # s
    <3>1. ~Waits(h, t) /\ queue'[t] = queue[t]
      BY <2>1, <2>2 DEF QueuesAreKnown
    <3>2. Copies(h, queue[t]) = 0
      BY <2>1, <3>1, CopiesType DEF Waits
    <3>3. executed'[h] \in Nat
      BY <2>1 DEF SessionInv, TypeOK
    <3> QED
      BY <3>1, <3>2, <3>3 DEF Total
  <2>7. NumbersAreOwn'
    <3>1. h <= calls
      BY <2>1, <2>2 DEF NumbersAreOwn, Calls
    <3>2. \A j \in Calls : j > calls => j # h
      BY <2>1, <3>1 DEF Calls
    <3>3. \A j \in Calls : j > calls => executed'[j] = executed[j]
      BY <2>1, <3>2 DEF SessionInv, TypeOK
    <3> QED
      BY <2>1, <2>3, <3>3 DEF NumbersAreOwn
  <2>8. QueuesAreKnown'
    <3>1. \A w \in Workers : pc[w] \in Unsent \cup {"submit"} => id[w] \in Calls
      BY DEF SessionInv, Locals, Unsent
    <3>2. \A t \in Sessions : state'[t] # "idle" => queue'[t] = <<>>
      BY <2>1 DEF QueuesAreKnown
    <3> QED
      BY <2>1, <2>3, <3>1, <3>2 DEF QueuesAreKnown, Unsent
  <2>9. CopiesAreCounted'
    <3>1. \A j \in Calls : executed'[j] = executed[j] + IF j = h THEN 1 ELSE 0
      BY <2>1 DEF SessionInv, TypeOK
    <3>2. \A j \in Calls : executed'[j] <= 1 + lost[j]
      <4> TAKE j \in Calls
      <4>1. CASE j = h
        <5>1. Total(h, s) <= 1 + lost[h]
          BY <2>1 DEF CopiesAreCounted
        <5> QED
          BY <4>1, <5>1, <2>1, <2>4, <2>5, <3>1
      <4>2. CASE j # h
        BY <4>2, <3>1, <2>1 DEF CopiesAreCounted
      <4> QED
        BY <4>1, <4>2
    <3>3. ASSUME NEW j \in Calls, NEW t \in Sessions PROVE Total(j, t)' <= 1 + lost[j]
      <4>1. CASE j = h /\ t # s
        BY <4>1, <2>6, <3>2
      <4>2. CASE ~(j = h /\ t # s)
        BY <4>2, <2>4 DEF CopiesAreCounted
      <4> QED
        BY <4>1, <4>2
    <3>4. ASSUME NEW w \in Workers, NEW t \in Sessions, pc[w] \in Unsent \cup {"submit"}
          PROVE  Total(id[w], t)' <= lost[id[w]]
      <4>1. PICK j \in Calls : j = id[w] /\ j = id'[w]
        BY <3>4, <2>1 DEF SessionInv, Locals, Unsent
      <4>2. Total(j, t) <= lost[j] /\ Total(j, s) <= lost[j]
        BY <3>4, <4>1 DEF CopiesAreCounted
      <4>3. Total(j, t)' <= lost[j]
        <5>1. executed'[h] \in Nat
          BY <2>1 DEF SessionInv, TypeOK
        <5>2. CASE j = h /\ t # s
          BY <4>2, <5>1, <5>2, <2>1, <2>4, <2>5, <2>6
        <5>3. CASE ~(j = h /\ t # s)
          BY <4>2, <5>3, <2>4
        <5> QED
          BY <5>2, <5>3
      <4> QED
        BY <4>1, <4>3
    <3> QED
      BY <3>2, <3>3, <3>4, <2>1 DEF CopiesAreCounted
  <2> QED
    BY <2>7, <2>8, <2>9
<1>4. ASSUME NEW w \in Workers,
             \/ Lock(w) \/ EnsureSession(w) \/ CreateFailed(w)
             \/ StartingIdle(w) \/ StartingFailed(w) \/ SubmitFailed(w)
             \/ AwaitFinal(w) \/ AwaitVanished(w) \/ AwaitAborted(w) \/ CloseLock(w)
             \/ SubmitGone(w)
      PROVE  ExecutionInv'
  <2> USE DEF Lock, EnsureSession, CreateFailed, StartingIdle, StartingFailed,
       SubmitFailed, AwaitFinal, AwaitVanished, AwaitAborted, CloseLock, SubmitGone,
       serverVars
  <2>1. UNCHANGED <<id, calls, executed, lost, queue, state>>
    BY <1>4
  <2>2. \A v \in Workers : v # w => pc'[v] = pc[v] /\ current'[v] = current[v]
    BY <1>4 DEF Goto, UseSession, Finish, SessionInv, TypeOK
  <2>3. \/ pc'[w] \notin Unsent \cup {"submit"}
        \/ pc[w] \in Unsent /\ pc'[w] \in Unsent \cup {"submit"}
        \/ pc[w] = "submit" /\ pc'[w] \in Unsent /\ state[current[w]] = "absent"
    BY <1>4 DEF At, Goto, Finish, SessionInv, TypeOK, Unsent
  <2>4. pc[w] = "submit" => current[w] \in Sessions
    BY DEF SessionInv, Locals, TypeOK
  <2>5. pc[w] = "submit" /\ state[current[w]] = "absent" => queue[current[w]] = <<>>
    BY <2>4 DEF QueuesAreKnown
  <2>6. \A s \in Sessions : queue'[s] = queue[s] /\ (state'[s] = "idle" \/ queue'[s] = <<>>)
    BY <2>1 DEF QueuesAreKnown
  <2> HIDE DEF Lock, EnsureSession, CreateFailed, StartingIdle, StartingFailed,
       SubmitFailed, AwaitFinal, AwaitVanished, AwaitAborted, CloseLock, SubmitGone,
       ExecutionInv
  <2> QED
    BY <2>1, <2>2, <2>3, <2>5, <2>6, ShrinkingQueues
<1>5. ASSUME NEW w \in Workers, CreateAccepted(w) \/ CreateLost(w) \/ CloseSession(w)
      PROVE  ExecutionInv'
  <2> USE DEF CreateAccepted, CreateLost, CloseSession, Created, Fresh, clientVars
  <2>1. UNCHANGED <<id, calls, executed, lost>>
    BY <1>5
  <2>2. \A v \in Workers : v # w => pc'[v] = pc[v] /\ current'[v] = current[v]
    BY <1>5 DEF Goto, UseSession, Finish, SessionInv, TypeOK
  <2>3. \/ pc'[w] \notin Unsent \cup {"submit"}
        \/ pc[w] \in Unsent /\ pc'[w] \in Unsent \cup {"submit"}
    BY <1>5 DEF At, Goto, Finish, SessionInv, TypeOK, Unsent
  <2>4. \A s \in Sessions : /\ queue'[s] \in {queue[s], <<>>}
                            /\ state'[s] = "idle" \/ queue'[s] = <<>>
    BY <1>5 DEF QueuesAreKnown, SessionInv, TypeOK
  <2> HIDE DEF CreateAccepted, CreateLost, CloseSession, Created, ExecutionInv
  <2> QED
    BY <2>1, <2>2, <2>3, <2>4, ShrinkingQueues
<1>6. ASSUME NEW s \in Sessions, Startup(s) \/ Expire(s) PROVE ExecutionInv'
  <2> USE DEF Startup, SessionListed, SessionStarts, SessionFails, Become, Expire, clientVars
  <2>1. UNCHANGED <<pc, current, id, calls, executed, lost>>
    BY <1>6
  <2>2. \A t \in Sessions : /\ queue'[t] \in {queue[t], <<>>}
                            /\ state'[t] = "idle" \/ queue'[t] = <<>>
    BY <1>6 DEF QueuesAreKnown, SessionInv, TypeOK
  <2> HIDE DEF Startup, Expire, ExecutionInv
  <2> QED
    BY <2>1, <2>2, ShrinkingQueues
<1>7. CASE UNCHANGED vars
  BY <1>7 DEF vars, clientVars, serverVars, NumbersAreOwn, QueuesAreKnown,
     CopiesAreCounted, Waits, Total
<1> QED
  BY <1>1, <1>2, <1>3, <1>4, <1>5, <1>6, <1>7 DEF Next, Call, Progress, Failure, Done

\* Every execution of a statement beyond the first is owed to a lost answer: neither
\* a session created again nor a goroutine that gives up adds one.
THEOREM ExtraExecutionsAreLostAnswers == Spec => []ExtraExecutionsWereLost
<1>1. SessionInv /\ SessionInv' /\ ExecutionInv /\ [Next]_vars => ExecutionInv'
  BY NextExecutionInv
<1>2. ExecutionInv => ExtraExecutionsWereLost
  BY DEF ExecutionInv, CopiesAreCounted, ExtraExecutionsWereLost
<1> QED
  BY <1>1, <1>2, InitExecutionInv, SpecSessionInv, PTL DEF Spec
==============================================================================
