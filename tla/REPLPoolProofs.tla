--------------------------- MODULE REPLPoolProofs ---------------------------
(***************************************************************************)
(* Theorems about REPLPool, for every number of goroutines, REPLs, slots   *)
(* and calls.  PoolInv is inductive: the accounting of hcLive needs to     *)
(* know which goroutines hold a slot, room in the channel follows from the *)
(* accounting, and exclusive use of REPLs needs to know which local        *)
(* variables are live at which line.  On top of it, IdleInv says what each *)
(* REPL on its way back to the channel is doing.                           *)
(***************************************************************************)
EXTENDS REPLPool, FiniteSetTheorems, SequenceTheorems, TLAPS

\* A goroutine's repl is nil before a checkout succeeds, and is a REPL from
\* then until it is pooled or released; rejected is set only inside a call.
Locals ==
    \A w \in Workers :
        /\ pc[w] \in Checkout \cup {"idle", "acquire", "close"}
             => repl[w] = None
        /\ pc[w] \in Owning \cup {"release", "closeRelease", "closeDec"}
             => repl[w] # None
        /\ pc[w] \in InClose \cup {"idle"} => rejected[w] = None

PoolInv ==
    /\ TypeOK
    /\ Locals
    /\ LiveCountExact
    /\ ExclusiveREPL
    /\ RejectedREPLNeverReused

-----------------------------------------------------------------------------
(* The channel as a set of distinct REPLs. *)

Distinct(s) == \A i, j \in DOMAIN s : i # j => s[i] # s[j]

\* Taking the oldest element of a duplicate-free sequence removes it.
LEMMA TakeFromChannel ==
    ASSUME NEW S, NEW s \in Seq(S), s # <<>>, Distinct(s)
    PROVE  /\ Head(s) \in S
           /\ Head(s) \in Range(s)
           /\ Tail(s) \in Seq(S)
           /\ Len(Tail(s)) = Len(s) - 1
           /\ Len(s) \in Nat \ {0}
           /\ Range(Tail(s)) = Range(s) \ {Head(s)}
           /\ Distinct(Tail(s))
<1> DEFINE t == Tail(s)
<1>1. /\ Len(s) \in Nat \ {0}
      /\ DOMAIN s = 1..Len(s)
      /\ Head(s) = s[1]
  BY EmptySeq, LenProperties
<1>2. /\ Head(s) \in S
      /\ t \in Seq(S)
      /\ Len(t) = Len(s) - 1
      /\ \A i \in 1..Len(t) : t[i] = s[i + 1]
  BY HeadTailProperties
<1>3. DOMAIN t = 1..Len(t)
  BY <1>2, LenProperties
<1> HIDE DEF t
<1>4. Head(s) \in Range(s)
  BY <1>1 DEF Range
<1>5. Range(t) = Range(s) \ {Head(s)}
  <2>1. ASSUME NEW x \in Range(t) PROVE x \in Range(s) \ {Head(s)}
    <3>1. PICK i \in 1..Len(t) : x = s[i + 1]
      BY <1>2, <1>3 DEF Range
    <3>2. i + 1 \in DOMAIN s /\ 1 \in DOMAIN s /\ i + 1 # 1
      BY <1>1, <1>2
    <3> QED
      BY <3>1, <3>2, <1>1 DEF Range, Distinct
  <2>2. ASSUME NEW x \in Range(s) \ {Head(s)} PROVE x \in Range(t)
    <3>1. PICK i \in 1..Len(s) : x = s[i]
      BY <1>1 DEF Range
    <3>2. i # 1
      BY <3>1, <1>1
    <3>3. i - 1 \in 1..Len(t) /\ (i - 1) + 1 = i
      BY <3>2, <1>1, <1>2
    <3> QED
      BY <3>1, <3>3, <1>2, <1>3 DEF Range
  <2> QED
    BY <2>1, <2>2
<1>6. Distinct(t)
  <2> SUFFICES ASSUME NEW i \in 1..Len(t), NEW j \in 1..Len(t), i # j
               PROVE  t[i] # t[j]
    BY <1>3 DEF Distinct
  <2>1. i + 1 \in DOMAIN s /\ j + 1 \in DOMAIN s /\ i + 1 # j + 1
    BY <1>1, <1>2
  <2> QED
    BY <2>1, <1>2 DEF Distinct
<1> QED
  BY <1>1, <1>2, <1>4, <1>5, <1>6 DEF t

\* Sending an element that is not queued keeps the channel duplicate-free.
LEMMA SendToChannel ==
    ASSUME NEW S, NEW s \in Seq(S), NEW e \in S, e \notin Range(s), Distinct(s)
    PROVE  /\ Append(s, e) \in Seq(S)
           /\ Len(Append(s, e)) = Len(s) + 1
           /\ Len(s) \in Nat
           /\ Range(Append(s, e)) = Range(s) \cup {e}
           /\ Distinct(Append(s, e))
<1> DEFINE t == Append(s, e)
<1>1. Len(s) \in Nat /\ DOMAIN s = 1..Len(s)
  BY LenProperties
<1>2. /\ t \in Seq(S)
      /\ Len(t) = Len(s) + 1
      /\ \A i \in 1..Len(s) : t[i] = s[i]
      /\ t[Len(s) + 1] = e
  BY AppendProperties
<1>3. DOMAIN t = 1..(Len(s) + 1)
  BY <1>2, LenProperties
<1> HIDE DEF t
<1>4. Range(t) = Range(s) \cup {e}
  <2>1. ASSUME NEW x \in Range(t) PROVE x \in Range(s) \cup {e}
    <3>1. PICK i \in 1..(Len(s) + 1) : x = t[i]
      BY <1>3 DEF Range
    <3>2. CASE i = Len(s) + 1
      BY <3>1, <3>2, <1>2
    <3>3. CASE i \in 1..Len(s)
      BY <3>1, <3>3, <1>1, <1>2 DEF Range
    <3> QED
      BY <3>2, <3>3, <1>1
  <2>2. ASSUME NEW x \in Range(s) PROVE x \in Range(t)
    BY <1>1, <1>2, <1>3 DEF Range
  <2>3. e \in Range(t)
    BY <1>1, <1>2, <1>3 DEF Range
  <2> QED
    BY <2>1, <2>2, <2>3
<1>5. Distinct(t)
  <2> SUFFICES ASSUME NEW i \in 1..(Len(s) + 1), NEW j \in 1..(Len(s) + 1), i # j
               PROVE  t[i] # t[j]
    BY <1>3 DEF Distinct
  <2>1. \A k \in 1..Len(s) : t[k] # e
    BY <1>1, <1>2 DEF Range
  <2>2. CASE i = Len(s) + 1
    BY <2>1, <2>2, <1>1, <1>2
  <2>3. CASE j = Len(s) + 1
    BY <2>1, <2>3, <1>1, <1>2
  <2>4. CASE i \in 1..Len(s) /\ j \in 1..Len(s)
    BY <2>4, <1>1, <1>2 DEF Distinct
  <2> QED
    BY <2>2, <2>3, <2>4, <1>1
<1> QED
  BY <1>1, <1>2, <1>4, <1>5 DEF t

-----------------------------------------------------------------------------
(* The accounting: what a goroutine's move does to the number of holders.  *)

LEMMA HoldersFinite ==
    /\ IsFiniteSet(Holders)
    /\ Cardinality(Holders) \in Nat
    /\ \A w \in Holders : Cardinality(Holders) \in Nat \ {0}
<1>1. IsFiniteSet(Holders)
  <2>1. Holders \subseteq Workers
    BY DEF Holders
  <2> QED
    BY <2>1, PoolAssumption, FS_Subset DEF PoolAssumption
<1>2. Cardinality(Holders) \in Nat
  BY <1>1, FS_CardinalityType
<1>3. ASSUME NEW w \in Holders PROVE Cardinality(Holders) # 0
  BY <1>1, FS_EmptySet
<1> QED
  BY <1>1, <1>2, <1>3

\* A goroutine that stays on its side of SlotHolding changes nothing, one
\* that enters it adds one holder, one that leaves it removes one.
LEMMA HoldersMove ==
    ASSUME TypeOK, NEW w \in Workers, NEW l, Goto(w, l)
    PROVE  /\ pc[w] \in SlotHolding /\ l \in SlotHolding
                => Cardinality(Holders') = Cardinality(Holders)
           /\ pc[w] \notin SlotHolding /\ l \notin SlotHolding
                => Cardinality(Holders') = Cardinality(Holders)
           /\ pc[w] \notin SlotHolding /\ l \in SlotHolding
                => Cardinality(Holders') = Cardinality(Holders) + 1
           /\ pc[w] \in SlotHolding /\ l \notin SlotHolding
                => Cardinality(Holders') = Cardinality(Holders) - 1
<1>1. \A v \in Workers : pc'[v] = IF v = w THEN l ELSE pc[v]
  BY DEF Goto, TypeOK
<1>2. (w \in Holders <=> pc[w] \in SlotHolding)
  BY DEF Holders
<1>3. (w \in Holders' <=> l \in SlotHolding)
  BY <1>1 DEF Holders
<1>4. \A v \in Workers \ {w} : v \in Holders <=> v \in Holders'
  BY <1>1 DEF Holders
<1>5. Holders \subseteq Workers /\ Holders' \subseteq Workers
  BY DEF Holders
<1>6. CASE (w \in Holders) <=> (w \in Holders')
  <2>1. Holders' = Holders
    BY <1>6, <1>4, <1>5
  <2> QED
    BY <2>1, <1>2, <1>3, <1>6
<1>7. CASE w \notin Holders /\ w \in Holders'
  <2>1. Holders' = Holders \cup {w}
    BY <1>7, <1>4, <1>5
  <2> QED
    BY <2>1, <1>2, <1>3, <1>7, HoldersFinite, FS_AddElement
<1>8. CASE w \in Holders /\ w \notin Holders'
  <2>1. Holders' = Holders \ {w}
    BY <1>8, <1>4, <1>5
  <2> QED
    BY <2>1, <1>2, <1>3, <1>8, HoldersFinite, FS_RemoveElement
<1> QED
  BY <1>6, <1>7, <1>8

\* Under the accounting, a holder leaves at most MaxREPLs - 1 REPLs for the
\* channel, and giving up a slot never drives hcLive below zero.
LEMMA HolderLeavesRoom ==
    ASSUME TypeOK, LiveCountExact, NEW w \in Workers, pc[w] \in SlotHolding
    PROVE  /\ Len(pool) < MaxREPLs
           /\ hcLive - 1 \in 0..MaxREPLs
<1>1. Cardinality(Holders) \in Nat \ {0}
  <2>1. w \in Holders
    BY DEF Holders
  <2> QED
    BY <2>1, HoldersFinite
<1>2. Len(pool) \in Nat
  BY LenProperties DEF TypeOK
<1> QED
  BY <1>1, <1>2, PoolAssumption DEF TypeOK, LiveCountExact, PoolAssumption

-----------------------------------------------------------------------------
(* PoolInv is inductive. *)

LEMMA InitPoolInv == Init => PoolInv
<1> SUFFICES ASSUME Init PROVE PoolInv
  OBVIOUS
<1> USE DEF Init
<1>1. TypeOK
  BY PoolAssumption, EmptySeq DEF TypeOK, PoolAssumption, Location, StatementState
<1>2. Locals
  BY DEF Locals, Checkout, Owning, InClose
<1>3. LiveCountExact
  <2>1. Holders = {}
    BY DEF Holders, SlotHolding
  <2> QED
    BY <2>1, EmptySeq, FS_EmptySet DEF LiveCountExact
<1>4. ExclusiveREPL
  BY EmptySeq DEF ExclusiveREPL, Range
<1>5. RejectedREPLNeverReused
  BY DEF RejectedREPLNeverReused
<1> QED
  BY <1>1, <1>2, <1>3, <1>4, <1>5 DEF PoolInv

\* How a step changes the places a REPL can be in: it takes the oldest idle
\* REPL, gives its own back, gets a fresh one or drops its own.
LEMMA ExclusiveTake ==
    ASSUME TypeOK, ExclusiveREPL, NEW w \in Workers, Receive(w)
    PROVE  ExclusiveREPL' /\ pool' \in Seq(REPLs) /\ Len(pool') = Len(pool) - 1
           /\ Len(pool) \in Nat /\ Head(pool) \in REPLs
           /\ Range(pool') = Range(pool) \ {Head(pool)}
           /\ Head(pool) \in Range(pool)
<1> USE DEF Receive, Hold, TypeOK
<1>1. Distinct(pool)
  BY DEF ExclusiveREPL, Distinct
<1>2. /\ Head(pool) \in REPLs
      /\ Head(pool) \in Range(pool)
      /\ pool' \in Seq(REPLs)
      /\ Len(pool') = Len(pool) - 1
      /\ Len(pool) \in Nat
      /\ Range(pool') = Range(pool) \ {Head(pool)}
      /\ Distinct(pool')
  BY <1>1, TakeFromChannel
<1>3. \A v \in Workers : repl[v] \in Range(repl)
  BY DEF Range
<1>4. \A v \in Workers : repl'[v] = IF v = w THEN Head(pool) ELSE repl[v]
  OBVIOUS
<1>5. \A v \in Workers : repl[v] # Head(pool)
  BY <1>2, <1>3 DEF ExclusiveREPL
<1>6. \A u, v \in Workers : u # v /\ repl'[u] # None => repl'[u] # repl'[v]
  BY <1>4, <1>5 DEF ExclusiveREPL
<1>7. Range(pool') \cap Range(repl') = {}
  <2>1. \A x \in Range(repl') : x = Head(pool) \/ x \in Range(repl)
    BY <1>3, <1>4 DEF Range
  <2> QED
    BY <2>1, <1>2 DEF ExclusiveREPL
<1> QED
  BY <1>2, <1>6, <1>7 DEF ExclusiveREPL, Distinct

LEMMA ExclusiveGive ==
    ASSUME TypeOK, ExclusiveREPL, NEW w \in Workers, repl[w] # None,
           pool' = Append(pool, repl[w]), Hold(w, None)
    PROVE  ExclusiveREPL' /\ pool' \in Seq(REPLs) /\ Len(pool') = Len(pool) + 1
           /\ Len(pool) \in Nat /\ Range(pool') = Range(pool) \cup {repl[w]}
<1> USE DEF Hold, TypeOK
<1>1. Distinct(pool)
  BY DEF ExclusiveREPL, Distinct
<1>2. \A v \in Workers : repl[v] \in Range(repl)
  BY DEF Range
<1>3. /\ pool' \in Seq(REPLs)
      /\ Len(pool') = Len(pool) + 1
      /\ Len(pool) \in Nat
      /\ Range(pool') = Range(pool) \cup {repl[w]}
      /\ Distinct(pool')
  <2>1. repl[w] \in REPLs /\ repl[w] \notin Range(pool)
    BY <1>2 DEF ExclusiveREPL
  <2> QED
    BY <2>1, <1>1, SendToChannel
<1>4. \A v \in Workers : repl'[v] = IF v = w THEN None ELSE repl[v]
  OBVIOUS
<1>5. \A u, v \in Workers : u # v /\ repl'[u] # None => repl'[u] # repl'[v]
  BY <1>4 DEF ExclusiveREPL
<1>6. Range(pool') \cap Range(repl') = {}
  <2>1. \A v \in Workers : repl'[v] \notin Range(pool')
    <3>1. \A v \in Workers \ {w} : repl[v] # repl[w]
      BY DEF ExclusiveREPL
    <3>2. None \notin Range(pool')
      BY <1>3, RangeOfSeq, PoolAssumption DEF PoolAssumption
    <3> QED
      BY <3>1, <3>2, <1>2, <1>3, <1>4 DEF ExclusiveREPL
  <2>2. DOMAIN repl' = Workers
    OBVIOUS
  <2> QED
    BY <2>1, <2>2 DEF Range
<1> QED
  BY <1>3, <1>5, <1>6 DEF ExclusiveREPL, Distinct

LEMMA ExclusiveFresh ==
    ASSUME TypeOK, ExclusiveREPL, NEW w \in Workers, NEW r \in Fresh,
           Hold(w, r), pool' = pool
    PROVE  ExclusiveREPL'
<1> USE DEF Hold, TypeOK, Fresh
<1>1. \A v \in Workers : repl[v] \in Range(repl)
  BY DEF Range
<1>2. \A v \in Workers : repl'[v] = IF v = w THEN r ELSE repl[v]
  OBVIOUS
<1>3. \A x \in Range(repl') : x = r \/ x \in Range(repl)
  BY <1>1, <1>2 DEF Range
<1>4. \A u, v \in Workers : u # v /\ repl'[u] # None => repl'[u] # repl'[v]
  BY <1>1, <1>2 DEF ExclusiveREPL
<1> QED
  BY <1>3, <1>4 DEF ExclusiveREPL

LEMMA ExclusiveDrop ==
    ASSUME TypeOK, ExclusiveREPL, NEW w \in Workers, Hold(w, None), pool' = pool
    PROVE  ExclusiveREPL'
<1> USE DEF Hold, TypeOK
<1>1. \A v \in Workers : repl[v] \in Range(repl)
  BY DEF Range
<1>2. \A v \in Workers : repl'[v] = IF v = w THEN None ELSE repl[v]
  OBVIOUS
<1>3. \A x \in Range(repl') : x = None \/ x \in Range(repl)
  BY <1>1, <1>2 DEF Range
<1>4. None \notin Range(pool)
  BY RangeOfSeq, PoolAssumption DEF PoolAssumption
<1>5. \A u, v \in Workers : u # v /\ repl'[u] # None => repl'[u] # repl'[v]
  BY <1>2 DEF ExclusiveREPL
<1> QED
  BY <1>3, <1>4, <1>5 DEF ExclusiveREPL

\* RejectedREPLNeverReused without the set comprehension of Owned.
LEMMA RejectedUnfolded ==
    RejectedREPLNeverReused <=>
        \A v \in Workers : rejected[v] # None =>
            /\ rejected[v] \notin Range(pool)
            /\ \A u \in Workers : pc[u] \in Owning => repl[u] # rejected[v]
BY DEF RejectedREPLNeverReused, Owned

LEMMA RejectedUnfoldedPrime ==
    RejectedREPLNeverReused' <=>
        \A v \in Workers : rejected'[v] # None =>
            /\ rejected'[v] \notin Range(pool')
            /\ \A u \in Workers : pc'[u] \in Owning => repl'[u] # rejected'[v]
BY DEF RejectedREPLNeverReused, Owned

\* One step per action; under it one per conjunct of PoolInv.
LEMMA NextPoolInv == PoolInv /\ [Next]_vars => PoolInv'
<1> SUFFICES ASSUME PoolInv, [Next]_vars PROVE PoolInv'
  OBVIOUS
<1> USE PoolAssumption DEF PoolInv
<1>1. ASSUME NEW w \in Workers, StartStatement(w) PROVE PoolInv'
  <2> USE <1>1 DEF StartStatement, At
  <2>1. TypeOK'
    BY DEF TypeOK, Goto, serverVars, PoolAssumption, Location, InCall,
       InClose, Checkout
  <2>2. Locals'
    BY DEF Locals, TypeOK, Goto, SlotHolding, Owning, Checkout, InClose,
       PoolAssumption
  <2>3. LiveCountExact'
    BY HoldersMove DEF LiveCountExact, SlotHolding, TypeOK
  <2>4. ExclusiveREPL'
    BY DEF ExclusiveREPL
  <2>5. RejectedREPLNeverReused'
    BY RejectedUnfolded, RejectedUnfoldedPrime DEF TypeOK, Goto, Owning
  <2> QED
    BY <2>1, <2>2, <2>3, <2>4, <2>5
<1>2. ASSUME NEW w \in Workers, CheckoutPoll(w) PROVE PoolInv'
  <2> USE <1>2 DEF CheckoutPoll, At
  <2>1. TypeOK'
    BY ExclusiveTake DEF TypeOK, Goto, serverVars, PoolAssumption,
       Location, InCall, InClose, Checkout, Hold, Receive
  <2>2. Locals'
    BY ExclusiveTake DEF Locals, TypeOK, Goto, SlotHolding, Owning,
       Checkout, InClose, PoolAssumption, Hold, Receive
  <2>3. LiveCountExact'
    BY ExclusiveTake, HoldersMove, HoldersFinite DEF LiveCountExact,
       SlotHolding, TypeOK
  <2>4. ExclusiveREPL'
    BY ExclusiveTake DEF ExclusiveREPL
  <2>5. RejectedREPLNeverReused'
    BY ExclusiveTake, RejectedUnfolded, RejectedUnfoldedPrime DEF TypeOK,
       Goto, Owning, Hold, Receive
  <2> QED
    BY <2>1, <2>2, <2>3, <2>4, <2>5
<1>3. ASSUME NEW w \in Workers, CheckCap(w) PROVE PoolInv'
  <2> USE <1>3 DEF CheckCap, At
  <2>1. TypeOK'
    BY DEF TypeOK, Goto, serverVars, PoolAssumption, Location, InCall,
       InClose, Checkout, BelowCap
  <2>2. Locals'
    BY DEF Locals, TypeOK, Goto, SlotHolding, Owning, Checkout, InClose,
       PoolAssumption
  <2>3. LiveCountExact'
    BY HoldersMove, HoldersFinite, LenProperties DEF LiveCountExact,
       SlotHolding, TypeOK
  <2>4. ExclusiveREPL'
    BY DEF ExclusiveREPL
  <2>5. RejectedREPLNeverReused'
    BY RejectedUnfolded, RejectedUnfoldedPrime DEF TypeOK, Goto, Owning
  <2> QED
    BY <2>1, <2>2, <2>3, <2>4, <2>5
<1>4. ASSUME NEW w \in Workers, WaitReceive(w) PROVE PoolInv'
  <2> USE <1>4 DEF WaitReceive, At
  <2>1. TypeOK'
    BY ExclusiveTake DEF TypeOK, Goto, serverVars, PoolAssumption,
       Location, InCall, InClose, Checkout, Hold, Receive
  <2>2. Locals'
    BY ExclusiveTake DEF Locals, TypeOK, Goto, SlotHolding, Owning,
       Checkout, InClose, PoolAssumption, Hold, Receive
  <2>3. LiveCountExact'
    <3>1. Cardinality(Holders') = Cardinality(Holders) + 1
      BY HoldersMove DEF SlotHolding
    <3>2. Len(pool') = Len(pool) - 1 /\ Len(pool) \in Nat
      BY ExclusiveTake
    <3> QED
      BY <3>1, <3>2, HoldersFinite DEF LiveCountExact
  <2>4. ExclusiveREPL'
    BY ExclusiveTake
  <2>5. RejectedREPLNeverReused'
    BY ExclusiveTake, RejectedUnfolded, RejectedUnfoldedPrime DEF TypeOK,
       Goto, Owning, Hold, Receive
  <2> QED
    BY <2>1, <2>2, <2>3, <2>4, <2>5
<1>5. ASSUME NEW w \in Workers, WaitTimeout(w) PROVE PoolInv'
  <2> USE <1>5 DEF WaitTimeout, At
  <2>1. TypeOK'
    BY DEF TypeOK, Goto, serverVars, PoolAssumption, Location, InCall,
       InClose, Checkout
  <2>2. Locals'
    BY DEF Locals, TypeOK, Goto, SlotHolding, Owning, Checkout, InClose,
       PoolAssumption
  <2>3. LiveCountExact'
    BY HoldersMove DEF LiveCountExact, SlotHolding, TypeOK
  <2>4. ExclusiveREPL'
    BY DEF ExclusiveREPL
  <2>5. RejectedREPLNeverReused'
    BY RejectedUnfolded, RejectedUnfoldedPrime DEF TypeOK, Goto, Owning
  <2> QED
    BY <2>1, <2>2, <2>3, <2>4, <2>5
<1>6. ASSUME NEW w \in Workers, WaitCancelled(w) PROVE PoolInv'
  <2> USE <1>6 DEF WaitCancelled, At
  <2>1. TypeOK'
    BY DEF TypeOK, Goto, serverVars, PoolAssumption, Location, InCall,
       InClose, Checkout, Hold, Finish
  <2>2. Locals'
    BY DEF Locals, TypeOK, Goto, SlotHolding, Owning, Checkout, InClose,
       PoolAssumption, Hold, Finish
  <2>3. LiveCountExact'
    BY HoldersMove DEF LiveCountExact, SlotHolding, TypeOK, Finish
  <2>4. ExclusiveREPL'
    BY ExclusiveDrop DEF Finish
  <2>5. RejectedREPLNeverReused'
    BY RejectedUnfolded, RejectedUnfoldedPrime DEF TypeOK, Goto, Owning,
       Hold, Finish, PoolAssumption
  <2> QED
    BY <2>1, <2>2, <2>3, <2>4, <2>5
<1>7. ASSUME NEW w \in Workers, AcquireStarted(w) PROVE PoolInv'
  <2> USE <1>7 DEF AcquireStarted, At
  <2>1. TypeOK'
    BY DEF TypeOK, Goto, serverVars, PoolAssumption, Location, InCall,
       InClose, Checkout, Hold, Fresh, StatementState
  <2>2. Locals'
    BY DEF Locals, TypeOK, Goto, SlotHolding, Owning, Checkout, InClose,
       PoolAssumption, Hold, Fresh
  <2>3. LiveCountExact'
    BY HoldersMove DEF LiveCountExact, SlotHolding, TypeOK
  <2>4. ExclusiveREPL'
    BY ExclusiveFresh
  <2>5. RejectedREPLNeverReused'
    BY RejectedUnfolded, RejectedUnfoldedPrime DEF TypeOK, Goto, Owning,
       Hold, Fresh, Range
  <2> QED
    BY <2>1, <2>2, <2>3, <2>4, <2>5
<1>8. ASSUME NEW w \in Workers, AcquireFailed(w) PROVE PoolInv'
  <2> USE <1>8 DEF AcquireFailed, At
  <2>1. TypeOK'
    BY DEF TypeOK, Goto, serverVars, PoolAssumption, Location, InCall,
       InClose, Checkout, StatementState, Fresh
  <2>2. Locals'
    BY DEF Locals, TypeOK, Goto, SlotHolding, Owning, Checkout, InClose,
       PoolAssumption
  <2>3. LiveCountExact'
    BY HoldersMove DEF LiveCountExact, SlotHolding, TypeOK
  <2>4. ExclusiveREPL'
    BY DEF ExclusiveREPL
  <2>5. RejectedREPLNeverReused'
    BY RejectedUnfolded, RejectedUnfoldedPrime DEF TypeOK, Goto, Owning
  <2> QED
    BY <2>1, <2>2, <2>3, <2>4, <2>5
<1>9. ASSUME NEW w \in Workers, StartingIdle(w) PROVE PoolInv'
  <2> USE <1>9 DEF StartingIdle, At
  <2>1. TypeOK'
    BY DEF TypeOK, Goto, serverVars, PoolAssumption, Location, InCall,
       InClose, Checkout
  <2>2. Locals'
    BY DEF Locals, TypeOK, Goto, SlotHolding, Owning, Checkout, InClose,
       PoolAssumption
  <2>3. LiveCountExact'
    BY HoldersMove DEF LiveCountExact, SlotHolding, TypeOK
  <2>4. ExclusiveREPL'
    BY DEF ExclusiveREPL
  <2>5. RejectedREPLNeverReused'
    BY RejectedUnfolded, RejectedUnfoldedPrime DEF TypeOK, Goto, Owning
  <2> QED
    BY <2>1, <2>2, <2>3, <2>4, <2>5
<1>10. ASSUME NEW w \in Workers, StartingFailed(w) PROVE PoolInv'
  <2> USE <1>10 DEF StartingFailed, At
  <2>1. TypeOK'
    BY DEF TypeOK, Goto, serverVars, PoolAssumption, Location, InCall,
       InClose, Checkout, Hold, Finish
  <2>2. Locals'
    BY DEF Locals, TypeOK, Goto, SlotHolding, Owning, Checkout, InClose,
       PoolAssumption, Hold, Finish
  <2>3. LiveCountExact'
    BY HoldersMove DEF LiveCountExact, SlotHolding, TypeOK, Finish
  <2>4. ExclusiveREPL'
    BY ExclusiveDrop DEF Finish
  <2>5. RejectedREPLNeverReused'
    BY RejectedUnfolded, RejectedUnfoldedPrime DEF TypeOK, Goto, Owning,
       Hold, Finish, PoolAssumption
  <2> QED
    BY <2>1, <2>2, <2>3, <2>4, <2>5
<1>11. ASSUME NEW w \in Workers, SubmitAccepted(w) PROVE PoolInv'
  <2> USE <1>11 DEF SubmitAccepted, At
  <2>1. TypeOK'
    BY DEF TypeOK, Goto, serverVars, PoolAssumption, Location, InCall,
       InClose, Checkout, StatementState, Fresh
  <2>2. Locals'
    BY DEF Locals, TypeOK, Goto, SlotHolding, Owning, Checkout, InClose,
       PoolAssumption
  <2>3. LiveCountExact'
    BY HoldersMove DEF LiveCountExact, SlotHolding, TypeOK
  <2>4. ExclusiveREPL'
    BY DEF ExclusiveREPL
  <2>5. RejectedREPLNeverReused'
    BY RejectedUnfolded, RejectedUnfoldedPrime DEF TypeOK, Goto, Owning
  <2> QED
    BY <2>1, <2>2, <2>3, <2>4, <2>5
<1>12. ASSUME NEW w \in Workers, SubmitGone(w) PROVE PoolInv'
  <2> USE <1>12 DEF SubmitGone, At
  <2>1. TypeOK'
    BY DEF TypeOK, Goto, serverVars, PoolAssumption, Location, InCall,
       InClose, Checkout
  <2>2. Locals'
    BY DEF Locals, TypeOK, Goto, SlotHolding, Owning, Checkout, InClose,
       PoolAssumption
  <2>3. LiveCountExact'
    BY HoldersMove DEF LiveCountExact, SlotHolding, TypeOK
  <2>4. ExclusiveREPL'
    BY DEF ExclusiveREPL
  <2>5. RejectedREPLNeverReused'
    <3>1. /\ repl[w] # None
          /\ repl[w] \notin Range(pool)
          /\ \A u \in Workers \ {w} : repl[u] # repl[w]
      <4>1. repl[w] # None
        BY DEF Locals, Owning
      <4>2. repl[w] \in Range(repl)
        BY DEF TypeOK, Range
      <4> QED
        BY <4>1, <4>2 DEF ExclusiveREPL
    <3>2. \A u \in Workers : pc'[u] \in Owning => u # w /\ pc[u] \in Owning
      BY DEF TypeOK, Goto, Owning
    <3>3. \A v \in Workers : rejected'[v] = rejected[v]
                             \/ rejected'[v] = repl[w]
      BY DEF TypeOK
    <3> QED
      BY <3>1, <3>2, <3>3, RejectedUnfolded, RejectedUnfoldedPrime
  <2> QED
    BY <2>1, <2>2, <2>3, <2>4, <2>5
<1>13. ASSUME NEW w \in Workers, SubmitFailed(w) PROVE PoolInv'
  <2> USE <1>13 DEF SubmitFailed, At
  <2>1. TypeOK'
    BY DEF TypeOK, Goto, serverVars, PoolAssumption, Location, InCall,
       InClose, Checkout, StatementState, Fresh
  <2>2. Locals'
    BY DEF Locals, TypeOK, Goto, SlotHolding, Owning, Checkout, InClose,
       PoolAssumption
  <2>3. LiveCountExact'
    BY HoldersMove DEF LiveCountExact, SlotHolding, TypeOK
  <2>4. ExclusiveREPL'
    BY DEF ExclusiveREPL
  <2>5. RejectedREPLNeverReused'
    BY RejectedUnfolded, RejectedUnfoldedPrime DEF TypeOK, Goto, Owning
  <2> QED
    BY <2>1, <2>2, <2>3, <2>4, <2>5
<1>14. ASSUME NEW w \in Workers, AwaitFinal(w) PROVE PoolInv'
  <2> USE <1>14 DEF AwaitFinal, At
  <2>1. TypeOK'
    BY DEF TypeOK, Goto, serverVars, PoolAssumption, Location, InCall,
       InClose, Checkout
  <2>2. Locals'
    BY DEF Locals, TypeOK, Goto, SlotHolding, Owning, Checkout, InClose,
       PoolAssumption
  <2>3. LiveCountExact'
    BY HoldersMove DEF LiveCountExact, SlotHolding, TypeOK
  <2>4. ExclusiveREPL'
    BY DEF ExclusiveREPL
  <2>5. RejectedREPLNeverReused'
    BY RejectedUnfolded, RejectedUnfoldedPrime DEF TypeOK, Goto, Owning
  <2> QED
    BY <2>1, <2>2, <2>3, <2>4, <2>5
<1>15. ASSUME NEW w \in Workers, AwaitVanished(w) PROVE PoolInv'
  <2> USE <1>15 DEF AwaitVanished, At
  <2>1. TypeOK'
    BY DEF TypeOK, Goto, serverVars, PoolAssumption, Location, InCall,
       InClose, Checkout
  <2>2. Locals'
    BY DEF Locals, TypeOK, Goto, SlotHolding, Owning, Checkout, InClose,
       PoolAssumption
  <2>3. LiveCountExact'
    BY HoldersMove DEF LiveCountExact, SlotHolding, TypeOK
  <2>4. ExclusiveREPL'
    BY DEF ExclusiveREPL
  <2>5. RejectedREPLNeverReused'
    BY RejectedUnfolded, RejectedUnfoldedPrime DEF TypeOK, Goto, Owning
  <2> QED
    BY <2>1, <2>2, <2>3, <2>4, <2>5
<1>16. ASSUME NEW w \in Workers, AwaitAborted(w) PROVE PoolInv'
  <2> USE <1>16 DEF AwaitAborted, At
  <2>1. TypeOK'
    BY DEF TypeOK, Goto, serverVars, PoolAssumption, Location, InCall,
       InClose, Checkout
  <2>2. Locals'
    BY DEF Locals, TypeOK, Goto, SlotHolding, Owning, Checkout, InClose,
       PoolAssumption
  <2>3. LiveCountExact'
    BY HoldersMove DEF LiveCountExact, SlotHolding, TypeOK
  <2>4. ExclusiveREPL'
    BY DEF ExclusiveREPL
  <2>5. RejectedREPLNeverReused'
    BY RejectedUnfolded, RejectedUnfoldedPrime DEF TypeOK, Goto, Owning
  <2> QED
    BY <2>1, <2>2, <2>3, <2>4, <2>5
<1>17. ASSUME NEW w \in Workers, ReturnREPL(w) PROVE PoolInv'
  <2> USE <1>17 DEF ReturnREPL, At
  <2>1. TypeOK'
    BY ExclusiveGive DEF TypeOK, Goto, serverVars, PoolAssumption,
       Location, InCall, InClose, Checkout, Hold, Finish, Locals, Owning
  <2>2. Locals'
    BY DEF Locals, TypeOK, Goto, SlotHolding, Owning, Checkout, InClose,
       PoolAssumption, Hold, Finish
  <2>3. LiveCountExact'
    BY ExclusiveGive, HoldersMove, HoldersFinite DEF LiveCountExact,
       SlotHolding, TypeOK, Finish, Locals, Owning
  <2>4. ExclusiveREPL'
    BY ExclusiveGive DEF Finish, Locals, Owning
  <2>5. RejectedREPLNeverReused'
    BY ExclusiveGive, RejectedUnfolded, RejectedUnfoldedPrime DEF TypeOK,
       Goto, Owning, Hold, Finish, Locals
  <2> QED
    BY <2>1, <2>2, <2>3, <2>4, <2>5
<1>18. ASSUME NEW w \in Workers, DiscardREPL(w) PROVE PoolInv'
  <2> USE <1>18 DEF DiscardREPL, At
  <2>1. TypeOK'
    BY HolderLeavesRoom DEF TypeOK, Goto, serverVars, PoolAssumption,
       Location, InCall, InClose, Checkout, Hold, Finish, SlotHolding
  <2>2. Locals'
    BY DEF Locals, TypeOK, Goto, SlotHolding, Owning, Checkout, InClose,
       PoolAssumption, Hold, Finish
  <2>3. LiveCountExact'
    BY HoldersMove, HoldersFinite, LenProperties DEF LiveCountExact,
       SlotHolding, TypeOK, Finish
  <2>4. ExclusiveREPL'
    BY ExclusiveDrop DEF ExclusiveREPL, Finish
  <2>5. RejectedREPLNeverReused'
    BY RejectedUnfolded, RejectedUnfoldedPrime DEF TypeOK, Goto, Owning,
       Hold, Finish
  <2> QED
    BY <2>1, <2>2, <2>3, <2>4, <2>5
<1>19. ASSUME NEW w \in Workers, ReleaseREPL(w) PROVE PoolInv'
  <2> USE <1>19 DEF ReleaseREPL, At
  <2>1. TypeOK'
    BY DEF TypeOK, Goto, serverVars, PoolAssumption, Location, InCall,
       InClose, Checkout, Hold, Finish, Released
  <2>2. Locals'
    BY DEF Locals, TypeOK, Goto, SlotHolding, Owning, Checkout, InClose,
       PoolAssumption, Hold, Finish
  <2>3. LiveCountExact'
    BY HoldersMove DEF LiveCountExact, SlotHolding, TypeOK, Finish
  <2>4. ExclusiveREPL'
    BY ExclusiveDrop DEF Finish
  <2>5. RejectedREPLNeverReused'
    BY RejectedUnfolded, RejectedUnfoldedPrime DEF TypeOK, Goto, Owning,
       Hold, Finish
  <2> QED
    BY <2>1, <2>2, <2>3, <2>4, <2>5
<1>20. ASSUME NEW w \in Workers, CloseStart(w) PROVE PoolInv'
  <2> USE <1>20 DEF CloseStart, At
  <2>1. TypeOK'
    BY DEF TypeOK, Goto, serverVars, PoolAssumption, Location, InCall,
       InClose, Checkout
  <2>2. Locals'
    BY DEF Locals, TypeOK, Goto, SlotHolding, Owning, Checkout, InClose,
       PoolAssumption
  <2>3. LiveCountExact'
    BY HoldersMove DEF LiveCountExact, SlotHolding, TypeOK
  <2>4. ExclusiveREPL'
    BY DEF ExclusiveREPL
  <2>5. RejectedREPLNeverReused'
    BY RejectedUnfolded, RejectedUnfoldedPrime DEF TypeOK, Goto, Owning
  <2> QED
    BY <2>1, <2>2, <2>3, <2>4, <2>5
<1>21. ASSUME NEW w \in Workers, CloseReceive(w) PROVE PoolInv'
  <2> USE <1>21 DEF CloseReceive, At
  <2>1. TypeOK'
    BY ExclusiveTake DEF TypeOK, Goto, serverVars, PoolAssumption,
       Location, InCall, InClose, Checkout, Hold, Receive
  <2>2. Locals'
    BY ExclusiveTake DEF Locals, TypeOK, Goto, SlotHolding, Owning,
       Checkout, InClose, PoolAssumption, Hold, Receive
  <2>3. LiveCountExact'
    <3>1. Cardinality(Holders') = Cardinality(Holders) + 1
      BY HoldersMove DEF SlotHolding
    <3>2. Len(pool') = Len(pool) - 1 /\ Len(pool) \in Nat
      BY ExclusiveTake
    <3> QED
      BY <3>1, <3>2, HoldersFinite DEF LiveCountExact
  <2>4. ExclusiveREPL'
    BY ExclusiveTake
  <2>5. RejectedREPLNeverReused'
    BY ExclusiveTake, RejectedUnfolded, RejectedUnfoldedPrime DEF TypeOK,
       Goto, Owning, Hold, Receive
  <2> QED
    BY <2>1, <2>2, <2>3, <2>4, <2>5
<1>22. ASSUME NEW w \in Workers, CloseRelease(w) PROVE PoolInv'
  <2> USE <1>22 DEF CloseRelease, At
  <2>1. TypeOK'
    BY DEF TypeOK, Goto, serverVars, PoolAssumption, Location, InCall,
       InClose, Checkout, Released
  <2>2. Locals'
    BY DEF Locals, TypeOK, Goto, SlotHolding, Owning, Checkout, InClose,
       PoolAssumption
  <2>3. LiveCountExact'
    BY HoldersMove DEF LiveCountExact, SlotHolding, TypeOK
  <2>4. ExclusiveREPL'
    BY DEF ExclusiveREPL
  <2>5. RejectedREPLNeverReused'
    BY RejectedUnfolded, RejectedUnfoldedPrime DEF TypeOK, Goto, Owning
  <2> QED
    BY <2>1, <2>2, <2>3, <2>4, <2>5
<1>23. ASSUME NEW w \in Workers, CloseDecrement(w) PROVE PoolInv'
  <2> USE <1>23 DEF CloseDecrement, At
  <2>1. TypeOK'
    BY HolderLeavesRoom DEF TypeOK, Goto, serverVars, PoolAssumption,
       Location, InCall, InClose, Checkout, Hold, SlotHolding
  <2>2. Locals'
    BY DEF Locals, TypeOK, Goto, SlotHolding, Owning, Checkout, InClose,
       PoolAssumption, Hold
  <2>3. LiveCountExact'
    BY HoldersMove, HoldersFinite, LenProperties DEF LiveCountExact,
       SlotHolding, TypeOK
  <2>4. ExclusiveREPL'
    BY ExclusiveDrop
  <2>5. RejectedREPLNeverReused'
    BY RejectedUnfolded, RejectedUnfoldedPrime DEF TypeOK, Goto, Owning, Hold
  <2> QED
    BY <2>1, <2>2, <2>3, <2>4, <2>5
<1>24. ASSUME NEW w \in Workers, CloseReturn(w) PROVE PoolInv'
  <2> USE <1>24 DEF CloseReturn, At
  <2>1. TypeOK'
    BY DEF TypeOK, Goto, serverVars, PoolAssumption, Location, InCall,
       InClose, Checkout, Hold, Finish
  <2>2. Locals'
    BY DEF Locals, TypeOK, Goto, SlotHolding, Owning, Checkout, InClose,
       PoolAssumption, Hold, Finish
  <2>3. LiveCountExact'
    BY HoldersMove DEF LiveCountExact, SlotHolding, TypeOK, Finish
  <2>4. ExclusiveREPL'
    BY ExclusiveDrop DEF Finish
  <2>5. RejectedREPLNeverReused'
    BY RejectedUnfolded, RejectedUnfoldedPrime DEF TypeOK, Goto, Owning,
       Hold, Finish, PoolAssumption
  <2> QED
    BY <2>1, <2>2, <2>3, <2>4, <2>5
<1>25. ASSUME NEW r \in REPLs, Fabric(r) PROVE PoolInv'
  <2> USE <1>25 DEF Fabric, Execution, StatementEnds, UserCancel, CancelEnds,
                    Expire, clientVars
  <2>1. TypeOK'
    BY DEF TypeOK, StatementState
  <2>2. Locals' /\ ExclusiveREPL' /\ RejectedREPLNeverReused'
    BY DEF Locals, ExclusiveREPL, RejectedREPLNeverReused, Owned
  <2>3. LiveCountExact'
    BY DEF LiveCountExact, Holders
  <2> QED
    BY <2>1, <2>2, <2>3
<1>26. CASE ExpireApplication
  <2> USE <1>26 DEF ExpireApplication, clientVars
  <2>1. TypeOK'
    BY DEF TypeOK
  <2>2. Locals' /\ ExclusiveREPL' /\ RejectedREPLNeverReused'
    BY DEF Locals, ExclusiveREPL, RejectedREPLNeverReused, Owned
  <2>3. LiveCountExact'
    BY DEF LiveCountExact, Holders
  <2> QED
    BY <2>1, <2>2, <2>3
<1>27. CASE UNCHANGED vars
  <2> USE <1>27 DEF vars, clientVars, serverVars
  <2>1. TypeOK' /\ Locals' /\ ExclusiveREPL' /\ RejectedREPLNeverReused'
    BY DEF TypeOK, Locals, ExclusiveREPL, RejectedREPLNeverReused, Owned
  <2>2. LiveCountExact'
    BY DEF LiveCountExact, Holders
  <2> QED
    BY <2>1, <2>2
<1> QED
  BY <1>1, <1>2, <1>3, <1>4, <1>5, <1>6, <1>7, <1>8, <1>9, <1>10, <1>11,
     <1>12, <1>13, <1>14, <1>15, <1>16, <1>17, <1>18, <1>19, <1>20, <1>21,
     <1>22, <1>23, <1>24, <1>25, <1>26, <1>27
     DEF Next, Call, Progress, Failure, Done

-----------------------------------------------------------------------------
(* The theorems. *)

LEMMA SpecPoolInv == Spec => []PoolInv
BY InitPoolInv, NextPoolInv, PTL DEF Spec

\* Every variable keeps its type; in particular hcLive stays in 0..MaxREPLs.
THEOREM TypeCorrect == Spec => []TypeOK
<1>1. PoolInv => TypeOK
  BY DEF PoolInv
<1> QED
  BY <1>1, SpecPoolInv, PTL

\* hcLive is exact in every reachable state, whatever fails and in whatever
\* order the goroutines run.
THEOREM AccountingIsExact == Spec => []LiveCountExact
<1>1. PoolInv => LiveCountExact
  BY DEF PoolInv
<1> QED
  BY <1>1, SpecPoolInv, PTL

\* returnREPL's send always finds room in hcPool.
THEOREM ReturnAlwaysFits == Spec => []ReturnNeverBlocks
<1>1. PoolInv => ReturnNeverBlocks
  BY HolderLeavesRoom DEF PoolInv, ReturnNeverBlocks, At, SlotHolding
<1> QED
  BY <1>1, SpecPoolInv, PTL

\* No REPL is ever shared by two goroutines, or used while it is pooled.
THEOREM REPLsAreExclusive == Spec => []ExclusiveREPL
<1>1. PoolInv => ExclusiveREPL
  BY DEF PoolInv
<1> QED
  BY <1>1, SpecPoolInv, PTL

\* A REPL found gone is not handed out again while its call is retried.
THEOREM RejectedStaysOut == Spec => []RejectedREPLNeverReused
<1>1. PoolInv => RejectedREPLNeverReused
  BY DEF PoolInv
<1> QED
  BY <1>1, SpecPoolInv, PTL

\* A Close that nobody overlaps gives every slot back: with all other
\* goroutines idle there are no holders, and it returns on an empty channel.
THEOREM CloseGivesBackAllSlots == Spec => CloseReturnsAllSlots
<1> DEFINE P == \A w \in Workers :
                  /\ At(w, "close") /\ pc'[w] = "idle"
                  /\ \A v \in Workers \ {w} : At(v, "idle")
                  => pool' = <<>> /\ hcLive' = 0
<1>1. PoolInv /\ [Next]_vars => [P]_vars
  <2> SUFFICES ASSUME PoolInv, Next, NEW w \in Workers,
                      At(w, "close"), pc'[w] = "idle",
                      \A v \in Workers \ {w} : At(v, "idle")
               PROVE  pool' = <<>> /\ hcLive' = 0
    BY DEF vars
  <2>1. CloseReturn(w)
    <3>1. pc' # pc /\ pc \in [Workers -> Location]
      BY DEF At, PoolInv, TypeOK
    <3>2. PICK v \in Workers : Call(v) \/ Progress(v) \/ Failure(v)
      BY <3>1 DEF Next, Fabric, Execution, StatementEnds, UserCancel, Expire,
         CancelEnds, ExpireApplication, Done, vars, clientVars
    <3>3. CASE v # w
      <4>1. At(v, "idle")
        BY <3>3
      <4>2. Call(v)
        BY <3>2, <4>1 DEF At, Progress, Failure, CheckoutPoll, CheckCap,
           WaitReceive, WaitTimeout, WaitCancelled, AcquireStarted,
           AcquireFailed, StartingIdle, StartingFailed, SubmitAccepted,
           SubmitGone, SubmitFailed, AwaitFinal, AwaitVanished, AwaitAborted,
           ReturnREPL, DiscardREPL, ReleaseREPL, CloseReceive, CloseRelease,
           CloseDecrement, CloseReturn
      <4>3. pc'[w] = pc[w]
        BY <3>1, <3>3, <4>2 DEF Call, StartStatement, CloseStart, Goto
      <4> QED
        BY <4>3 DEF At
    <3>4. CASE v = w
      <4>1. CloseReceive(w) \/ CloseReturn(w)
        BY <3>2, <3>4 DEF At, Call, StartStatement, CloseStart, Progress,
           Failure, CheckoutPoll, CheckCap, WaitReceive, WaitTimeout,
           WaitCancelled, AcquireStarted, AcquireFailed, StartingIdle,
           StartingFailed, SubmitAccepted, SubmitGone, SubmitFailed,
           AwaitFinal, AwaitVanished, AwaitAborted, ReturnREPL, DiscardREPL,
           ReleaseREPL, CloseRelease, CloseDecrement
      <4> QED
        BY <3>1, <4>1 DEF CloseReceive, Goto
    <3> QED
      BY <3>3, <3>4
  <2>2. pool = <<>> /\ pool' = pool /\ hcLive' = hcLive
    BY <2>1 DEF CloseReturn
  <2>3. Cardinality(Holders) = 0
    <3>1. Holders = {}
      BY DEF Holders, SlotHolding, At
    <3> QED
      BY <3>1, FS_EmptySet
  <2> QED
    BY <2>2, <2>3, EmptySeq DEF PoolInv, LiveCountExact, TypeOK
<1> QED
  BY <1>1, SpecPoolInv, PTL DEF Spec, CloseReturnsAllSlots

-----------------------------------------------------------------------------
(* Idle REPLs: while nobody cancels statements from outside, the one state *)
(* WaitForHCStatement takes for final although the statement still runs    *)
(* does not occur, so what goes back into the channel has stopped.         *)

Stopped(r) == r \in alive => stmt[r] \notin Busy

IdleInv ==
    /\ \A r \in REPLs : stmt[r] # "cancelling"
    /\ \A r \in Range(pool) : Stopped(r)
    /\ \A w \in Workers : pc[w] = "return" => Stopped(repl[w])

\* The goroutine that moves has its REPL for itself.
LEMMA OwnREPLIsElsewhere ==
    ASSUME PoolInv, NEW w \in Workers, repl[w] # None
    PROVE  /\ repl[w] \in REPLs /\ repl[w] \notin Range(pool)
           /\ \A v \in Workers \ {w} : repl[v] # repl[w]
<1>1. repl[w] \in REPLs /\ repl[w] \in Range(repl)
  BY DEF PoolInv, TypeOK, Range
<1> QED
  BY <1>1 DEF PoolInv, ExclusiveREPL

LEMMA NextIdleInv ==
    ASSUME ~UserCancels, PoolInv, IdleInv, [Next]_vars
    PROVE  IdleInv'
<1> USE PoolAssumption DEF PoolAssumption
<1>0. /\ \A r \in Range(pool) : r \in REPLs /\ Stopped(r)
      /\ \A v \in Workers : repl[v] \in Range(repl) /\ repl[v] \in REPLs \cup {None}
  BY RangeOfSeq DEF PoolInv, TypeOK, IdleInv, Range
<1>1. ASSUME NEW w \in Workers, NEW l, Goto(w, l), l # "return",
             UNCHANGED serverVars, \A v \in Workers \ {w} : repl'[v] = repl[v],
             Range(pool') \subseteq Range(pool)
      PROVE  IdleInv'
  <2>1. \A v \in Workers : pc'[v] = IF v = w THEN l ELSE pc[v]
    BY <1>1 DEF Goto, PoolInv, TypeOK
  <2> QED
    BY <1>0, <1>1, <2>1 DEF IdleInv, Stopped, serverVars
<1>2. ASSUME NEW w \in Workers, ReturnREPL(w) PROVE IdleInv'
  <2>1. pool' = Append(pool, repl[w]) /\ pc[w] = "return" /\ UNCHANGED serverVars
    BY <1>2 DEF ReturnREPL, At
  <2>2. repl[w] # None
    BY <2>1 DEF PoolInv, Locals, Owning
  <2>3. Range(pool') = Range(pool) \cup {repl[w]}
    BY <1>2, <2>2, ExclusiveGive DEF ReturnREPL, Finish, PoolInv
  <2>4. \A v \in Workers : pc'[v] = "return" => pc[v] = "return" /\ repl'[v] = repl[v]
    BY <1>2 DEF ReturnREPL, Finish, Goto, Hold, PoolInv, TypeOK
  <2> QED
    BY <2>1, <2>3, <2>4 DEF IdleInv, Stopped, serverVars
<1>3. ASSUME NEW w \in Workers, AwaitFinal(w) PROVE IdleInv'
  <2> USE <1>3 DEF AwaitFinal, At, Goto, serverVars
  <2>1. Stopped(repl[w])
    <3>1. repl[w] \in REPLs /\ stmt[repl[w]] \in {"ok", "error"}
      BY <1>0 DEF IdleInv, PoolInv, Locals, Owning
    <3> QED
      BY <3>1 DEF Stopped, Busy
  <2>2. \A v \in Workers : pc'[v] = "return" => v = w \/ pc[v] = "return"
    BY DEF PoolInv, TypeOK
  <2> QED
    BY <2>1, <2>2 DEF IdleInv, Stopped
<1>4. ASSUME NEW w \in Workers, SubmitAccepted(w) \/ SubmitFailed(w) PROVE IdleInv'
  <2>1. pc[w] = "submit" /\ UNCHANGED <<pool, repl, alive>>
    BY <1>4 DEF SubmitAccepted, SubmitFailed, At
  <2>2. repl[w] # None
    BY <2>1 DEF PoolInv, Locals, Owning
  <2>3. \A r \in REPLs : /\ r # repl[w] => stmt'[r] = stmt[r]
                         /\ stmt'[r] = stmt[r] \/ stmt'[r] = "running"
    BY <1>4 DEF SubmitAccepted, SubmitFailed, PoolInv, TypeOK
  <2>4. \A v \in Workers : pc'[v] = "return" => pc[v] = "return"
    BY <1>4 DEF SubmitAccepted, SubmitFailed, Goto, PoolInv, TypeOK
  <2>5. \A v \in Workers : pc[v] = "return" => repl[v] \in REPLs /\ repl[v] # repl[w]
    BY <1>0, <2>1, <2>2, OwnREPLIsElsewhere DEF PoolInv, Locals, Owning
  <2>6. \A r \in Range(pool) : Stopped(r)'
    BY <1>0, <2>1, <2>2, <2>3, OwnREPLIsElsewhere DEF Stopped
  <2>7. \A v \in Workers : pc[v] = "return" => Stopped(repl[v])'
    BY <2>1, <2>3, <2>5 DEF IdleInv, Stopped
  <2> QED
    BY <2>1, <2>3, <2>4, <2>6, <2>7 DEF IdleInv
<1>5. ASSUME NEW w \in Workers, AcquireStarted(w) \/ AcquireFailed(w) PROVE IdleInv'
  <2>1. /\ pool' = pool
        /\ \A v \in Workers : pc'[v] = "return" => pc[v] = "return" /\ repl'[v] = repl[v]
    BY <1>5 DEF AcquireStarted, AcquireFailed, At, Goto, Hold, PoolInv, TypeOK
  <2>2. \/ UNCHANGED serverVars
        \/ \E r \in Fresh : alive' = alive \cup {r} /\ stmt' = [stmt EXCEPT ![r] = "none"]
    BY <1>5 DEF AcquireStarted, AcquireFailed
  <2>3. \A r \in REPLs : stmt'[r] \in {stmt[r], "none"} /\ (Stopped(r) => Stopped(r)')
    BY <2>2 DEF Stopped, Busy, Fresh, PoolInv, TypeOK, serverVars
  <2>4. \A v \in Workers : pc[v] = "return" => repl[v] \in REPLs
    BY <1>0 DEF PoolInv, Locals, Owning
  <2> QED
    BY <1>0, <2>1, <2>3, <2>4 DEF IdleInv, Stopped
<1>6. ASSUME UNCHANGED <<pool, pc, repl>>, alive' \subseteq alive,
             \A r \in REPLs : stmt'[r] = stmt[r] \/ stmt'[r] \in {"ok", "error"}
      PROVE  IdleInv'
  <2>1. \A r \in REPLs : Stopped(r) => Stopped(r)'
    BY <1>6 DEF Stopped, Busy
  <2>2. \A v \in Workers : pc[v] = "return" => repl[v] \in REPLs
    BY <1>0 DEF PoolInv, Locals, Owning
  <2> QED
    BY <1>0, <1>6, <2>1, <2>2 DEF IdleInv, Stopped
<1>7. ASSUME NEW r \in REPLs, Fabric(r) PROVE IdleInv'
  BY <1>6, <1>7 DEF Fabric, Execution, StatementEnds, UserCancel, CancelEnds, Expire,
     clientVars, PoolInv, TypeOK
<1>8. ASSUME NEW w \in Workers, ReleaseREPL(w) \/ CloseRelease(w) PROVE IdleInv'
  <2>1. UNCHANGED <<pool, stmt>> /\ alive' \subseteq alive
    BY <1>8 DEF ReleaseREPL, CloseRelease, Released
  <2>2. \A v \in Workers : pc'[v] = "return" => pc[v] = "return" /\ repl'[v] = repl[v]
    BY <1>8 DEF ReleaseREPL, CloseRelease, Finish, At, Goto, Hold, PoolInv, TypeOK
  <2> QED
    BY <2>1, <2>2 DEF IdleInv, Stopped
<1>9. ASSUME NEW w \in Workers,
             Receive(w), UNCHANGED serverVars, NEW l, l # "return", Goto(w, l)
      PROVE  IdleInv'
  BY <1>1, <1>9, ExclusiveTake DEF Receive, Hold, PoolInv, TypeOK
<1>10. ASSUME NEW w \in Workers,
              CheckoutPoll(w) \/ WaitReceive(w) \/ CloseReceive(w)
       PROVE  IdleInv'
  BY <1>1, <1>9, <1>10 DEF CheckoutPoll, WaitReceive, CloseReceive
<1>11. ASSUME NEW w \in Workers,
              \/ Call(w) \/ CheckCap(w) \/ WaitTimeout(w) \/ WaitCancelled(w)
              \/ StartingIdle(w) \/ StartingFailed(w) \/ SubmitGone(w)
              \/ AwaitVanished(w) \/ AwaitAborted(w) \/ DiscardREPL(w)
              \/ CloseDecrement(w) \/ CloseReturn(w)
       PROVE  IdleInv'
  <2>1. UNCHANGED serverVars /\ pool' = pool
    BY <1>11 DEF Call, StartStatement, CloseStart, CheckCap, WaitTimeout, WaitCancelled,
       StartingIdle, StartingFailed, SubmitGone, AwaitVanished, AwaitAborted,
       DiscardREPL, CloseDecrement, CloseReturn
  <2>2. \E l : l # "return" /\ Goto(w, l)
    BY <1>11 DEF Call, StartStatement, CloseStart, CheckCap, WaitTimeout, WaitCancelled,
       StartingIdle, StartingFailed, SubmitGone, AwaitVanished, AwaitAborted,
       DiscardREPL, CloseDecrement, CloseReturn, Finish
  <2>3. \A v \in Workers \ {w} : repl'[v] = repl[v]
    BY <1>11 DEF Call, StartStatement, CloseStart, CheckCap, WaitTimeout, WaitCancelled,
       StartingIdle, StartingFailed, SubmitGone, AwaitVanished, AwaitAborted,
       DiscardREPL, CloseDecrement, CloseReturn, Finish, Hold, PoolInv, TypeOK
  <2> QED
    BY <1>1, <2>1, <2>2, <2>3
<1>12. CASE ExpireApplication \/ UNCHANGED vars
  BY <1>6, <1>12 DEF ExpireApplication, vars, clientVars, serverVars
<1> QED
  BY <1>2, <1>3, <1>4, <1>5, <1>7, <1>8, <1>10, <1>11, <1>12
     DEF Next, Progress, Failure, Done

\* Unless somebody cancels a statement outside the program, no pooled REPL is still
\* executing one: timeouts, failed polls, lost answers and expiries included.
THEOREM PooledREPLsAreIdle == ~UserCancels => (Spec => []PooledREPLsIdle)
<1> SUFFICES ASSUME ~UserCancels PROVE Spec => []PooledREPLsIdle
  OBVIOUS
<1>1. Init => IdleInv
  BY DEF Init, IdleInv, Range
<1>2. PoolInv /\ IdleInv /\ [Next]_vars => IdleInv'
  BY NextIdleInv
<1>3. IdleInv => PooledREPLsIdle
  BY DEF IdleInv, Stopped, PooledREPLsIdle
<1> QED
  BY <1>1, <1>2, <1>3, SpecPoolInv, PTL DEF Spec

-----------------------------------------------------------------------------
(* Refinement: REPLPool implements REPLLease. *)

\* A duplicate-free sequence has as many elements as places.
LEMMA CardinalityOfDistinct ==
    ASSUME NEW S, NEW s \in Seq(S), Distinct(s)
    PROVE  Cardinality(Range(s)) = Len(s)
<1>1. Len(s) \in Nat /\ DOMAIN s = 1..Len(s) /\ s \in [1..Len(s) -> S]
  BY LenProperties
<1>2. s \in Bijection(1..Len(s), Range(s))
  <2>1. s \in [1..Len(s) -> Range(s)]
    BY <1>1 DEF Range
  <2>2. \A i, j \in 1..Len(s) : s[i] = s[j] => i = j
    BY <1>1 DEF Distinct
  <2>3. \A x \in Range(s) : \E i \in 1..Len(s) : s[i] = x
    BY <1>1 DEF Range
  <2> QED
    BY <2>1, <2>2, <2>3 DEF Bijection, Injection, IsInjective, Surjection
<1>3. IsFiniteSet(1..Len(s)) /\ Cardinality(1..Len(s)) = Len(s)
  BY <1>1, FS_Interval
<1>4. ExistsBijection(1..Len(s), Range(s))
  BY <1>2 DEF ExistsBijection
<1> QED
  BY <1>3, <1>4, FS_Bijection

\* Only the goroutine that moves changes its lease or its entitlement.
LEMMA OthersKeep ==
    ASSUME TypeOK, NEW w \in Workers, NEW l, Goto(w, l),
           \A v \in Workers \ {w} : repl'[v] = repl[v]
    PROVE  /\ pc'[w] = l
           /\ \A v \in Workers \ {w} :
                 /\ LeaseOf(v)' = LeaseOf(v)
                 /\ v \in Entitlement' <=> v \in Entitlement
BY DEF TypeOK, Goto, LeaseOf, Entitlement

\* The client's slots are what REPLLease counts.
LEMMA EntitledAreHolders ==
    ASSUME PoolInv PROVE Lease!Entitled = Holders
BY PoolAssumption DEF PoolInv, TypeOK, Locals, Owning, Lease!Entitled, Holders,
   SlotHolding, Entitlement, LeaseOf, PoolAssumption

LEMMA LeaseTakes ==
    ASSUME PoolInv, NEW w \in Workers, NEW l \in {"submit", "closeRelease"},
           pc[w] \in {"poll", "wait", "close"}, Receive(w), Goto(w, l)
    PROVE  Lease!Take(w)
<1> USE DEF PoolInv
<1> DEFINE h == Head(pool)
<1>1. /\ h \in REPLs
      /\ h \in Range(pool)
      /\ Range(pool') = Range(pool) \ {h}
  BY ExclusiveTake
<1>2. repl' = [repl EXCEPT ![w] = h]
  BY DEF Receive, Hold
<1> HIDE DEF h
<1>3. /\ pc'[w] = l
      /\ \A v \in Workers \ {w} : /\ LeaseOf(v)' = LeaseOf(v)
                                  /\ v \in Entitlement' <=> v \in Entitlement
  BY <1>2, OthersKeep DEF TypeOK
<1>4. LeaseOf(w) = None /\ LeaseOf(w)' = h
  BY <1>2, <1>3 DEF LeaseOf, TypeOK
<1>5. w \notin Entitlement /\ w \notin Entitlement'
  BY <1>3 DEF Entitlement
<1>6. Entitlement' = Entitlement
  BY <1>3, <1>5 DEF Entitlement
<1>7. [v \in Workers |-> LeaseOf(v)]'
        = [[v \in Workers |-> LeaseOf(v)] EXCEPT ![w] = h]
  BY <1>3, <1>4
<1> QED
  BY <1>1, <1>4, <1>5, <1>6, <1>7 DEF Lease!Take, Lease!Entitled

\* A step that keeps the channel and the mover's standing is a stutter.
LEMMA LeaseKeeps ==
    ASSUME TypeOK, NEW w \in Workers, NEW l, Goto(w, l),
           \A v \in Workers \ {w} : repl'[v] = repl[v],
           pool' = pool, LeaseOf(w)' = LeaseOf(w),
           w \in Entitlement' <=> w \in Entitlement
    PROVE  UNCHANGED Lease!vars
<1>1. \A v \in Workers : /\ LeaseOf(v)' = LeaseOf(v)
                         /\ v \in Entitlement' <=> v \in Entitlement
  BY OthersKeep
<1>2. Entitlement' = Entitlement
  BY <1>1 DEF Entitlement
<1> QED
  BY <1>1, <1>2 DEF Lease!vars

\* A step that only gives up the mover's lease, with what becomes of the REPL
\* in pool'.
LEMMA LeaseEnds ==
    ASSUME TypeOK, NEW w \in Workers, NEW l, Goto(w, l),
           \A v \in Workers \ {w} : repl'[v] = repl[v],
           LeaseOf(w)' = None, w \notin Entitlement', w \notin Entitlement
    PROVE  /\ Entitlement' = Entitlement
           /\ [v \in Workers |-> LeaseOf(v)]'
                = [[v \in Workers |-> LeaseOf(v)] EXCEPT ![w] = None]
<1>1. \A v \in Workers \ {w} : /\ LeaseOf(v)' = LeaseOf(v)
                               /\ v \in Entitlement' <=> v \in Entitlement
  BY OthersKeep
<1>2. Entitlement' = Entitlement
  BY <1>1 DEF Entitlement
<1> QED
  BY <1>1, <1>2

\* Every step of the pool is a step of the lease, or changes nothing in it.
LEMMA StepImplementsLease ==
    PoolInv /\ PoolInv' /\ [Next]_vars => [Lease!Next]_Lease!vars
<1> SUFFICES ASSUME PoolInv, PoolInv', [Next]_vars
             PROVE  [Lease!Next]_Lease!vars
  OBVIOUS
<1> USE PoolAssumption DEF PoolInv
<1>1. ASSUME NEW w \in Workers, StartStatement(w) PROVE UNCHANGED Lease!vars
  BY <1>1, LeaseKeeps DEF StartStatement, At, Goto, TypeOK, Locals, LeaseOf,
     Entitlement, Owning, Checkout, PoolAssumption
<1>2. ASSUME NEW w \in Workers, WaitTimeout(w) PROVE UNCHANGED Lease!vars
  BY <1>2, LeaseKeeps DEF WaitTimeout, At, Goto, TypeOK, Locals, LeaseOf,
     Entitlement, Owning, Checkout, PoolAssumption
<1>3. ASSUME NEW w \in Workers, WaitCancelled(w) PROVE UNCHANGED Lease!vars
  BY <1>3, LeaseKeeps DEF WaitCancelled, At, Goto, TypeOK, Locals, LeaseOf,
     Entitlement, Owning, Checkout, PoolAssumption, Finish, Hold
<1>4. ASSUME NEW w \in Workers, AcquireStarted(w) PROVE UNCHANGED Lease!vars
  BY <1>4, LeaseKeeps DEF AcquireStarted, At, Goto, TypeOK, Locals, LeaseOf,
     Entitlement, Owning, Checkout, PoolAssumption, Hold
<1>5. ASSUME NEW w \in Workers, AcquireFailed(w) PROVE UNCHANGED Lease!vars
  BY <1>5, LeaseKeeps DEF AcquireFailed, At, Goto, TypeOK, Locals, LeaseOf,
     Entitlement, Owning, Checkout, PoolAssumption
<1>6. ASSUME NEW w \in Workers, StartingFailed(w) PROVE UNCHANGED Lease!vars
  BY <1>6, LeaseKeeps DEF StartingFailed, At, Goto, TypeOK, Locals, LeaseOf,
     Entitlement, Owning, Checkout, PoolAssumption, Hold
<1>7. ASSUME NEW w \in Workers, SubmitAccepted(w) PROVE UNCHANGED Lease!vars
  BY <1>7, LeaseKeeps DEF SubmitAccepted, At, Goto, TypeOK, Locals, LeaseOf,
     Entitlement, Owning, Checkout, PoolAssumption
<1>8. ASSUME NEW w \in Workers, SubmitGone(w) PROVE UNCHANGED Lease!vars
  BY <1>8, LeaseKeeps DEF SubmitGone, At, Goto, TypeOK, Locals, LeaseOf,
     Entitlement, Owning, Checkout, PoolAssumption
<1>9. ASSUME NEW w \in Workers, SubmitFailed(w) PROVE UNCHANGED Lease!vars
  BY <1>9, LeaseKeeps DEF SubmitFailed, At, Goto, TypeOK, Locals, LeaseOf,
     Entitlement, Owning, Checkout, PoolAssumption
<1>10. ASSUME NEW w \in Workers, AwaitFinal(w) PROVE UNCHANGED Lease!vars
  BY <1>10, LeaseKeeps DEF AwaitFinal, At, Goto, TypeOK, Locals, LeaseOf,
     Entitlement, Owning, Checkout, PoolAssumption
<1>11. ASSUME NEW w \in Workers, AwaitVanished(w) PROVE UNCHANGED Lease!vars
  BY <1>11, LeaseKeeps DEF AwaitVanished, At, Goto, TypeOK, Locals, LeaseOf,
     Entitlement, Owning, Checkout, PoolAssumption
<1>12. ASSUME NEW w \in Workers, AwaitAborted(w) PROVE UNCHANGED Lease!vars
  BY <1>12, LeaseKeeps DEF AwaitAborted, At, Goto, TypeOK, Locals, LeaseOf,
     Entitlement, Owning, Checkout, PoolAssumption
<1>13. ASSUME NEW w \in Workers, ReleaseREPL(w) PROVE UNCHANGED Lease!vars
  BY <1>13, LeaseKeeps DEF ReleaseREPL, At, Goto, TypeOK, Locals, LeaseOf,
     Entitlement, Owning, Checkout, PoolAssumption, Finish, Hold
<1>14. ASSUME NEW w \in Workers, CloseStart(w) PROVE UNCHANGED Lease!vars
  BY <1>14, LeaseKeeps DEF CloseStart, At, Goto, TypeOK, Locals, LeaseOf,
     Entitlement, Owning, Checkout, PoolAssumption
<1>15. ASSUME NEW w \in Workers, CloseRelease(w) PROVE UNCHANGED Lease!vars
  BY <1>15, LeaseKeeps DEF CloseRelease, At, Goto, TypeOK, Locals, LeaseOf,
     Entitlement, Owning, Checkout, PoolAssumption
<1>16. ASSUME NEW w \in Workers, CloseReturn(w) PROVE UNCHANGED Lease!vars
  BY <1>16, LeaseKeeps DEF CloseReturn, At, Goto, TypeOK, Locals, LeaseOf,
     Entitlement, Owning, Checkout, PoolAssumption, Finish, Hold
<1>17. ASSUME NEW w \in Workers, CheckoutPoll(w)
      PROVE  Lease!Take(w) \/ UNCHANGED Lease!vars
  <2>1. CASE Receive(w) /\ Goto(w, "submit")
    BY <1>17, <2>1, LeaseTakes DEF CheckoutPoll, At
  <2>2. CASE Goto(w, "cap") /\ UNCHANGED <<pool, repl>>
    BY <1>17, <2>2, LeaseKeeps DEF CheckoutPoll, At, Goto, TypeOK, LeaseOf,
       Entitlement
  <2> QED
    BY <1>17, <2>1, <2>2 DEF CheckoutPoll
<1>18. ASSUME NEW w \in Workers, WaitReceive(w) PROVE Lease!Take(w)
  BY <1>18, LeaseTakes DEF WaitReceive, At
<1>19. ASSUME NEW w \in Workers, CloseReceive(w) PROVE Lease!Take(w)
  BY <1>19, LeaseTakes DEF CloseReceive, At
<1>20. ASSUME NEW w \in Workers, CheckCap(w)
      PROVE  Lease!Reserve(w) \/ UNCHANGED Lease!vars
  <2>1. CASE BelowCap /\ Goto(w, "acquire")
    <3>1. /\ pc'[w] = "acquire"
          /\ \A v \in Workers \ {w} :
                /\ LeaseOf(v)' = LeaseOf(v)
                /\ v \in Entitlement' <=> v \in Entitlement
      BY <1>20, <2>1, OthersKeep DEF CheckCap
    <3>2. /\ LeaseOf(w) = None /\ LeaseOf(w)' = None
          /\ w \notin Entitlement /\ w \in Entitlement'
      BY <1>20, <3>1 DEF CheckCap, At, LeaseOf, Entitlement
    <3>3. Entitlement' = Entitlement \cup {w}
      BY <3>1, <3>2 DEF Entitlement
    <3>4. UNCHANGED <<Range(pool), [v \in Workers |-> LeaseOf(v)]>>
      BY <1>20, <3>1, <3>2 DEF CheckCap
    <3>5. Lease!InUse < MaxREPLs
      <4>1. Cardinality(Range(pool)) = Len(pool)
        BY CardinalityOfDistinct DEF TypeOK, ExclusiveREPL, Distinct
      <4>2. Lease!InUse = Len(pool) + Cardinality(Holders)
        BY <4>1, EntitledAreHolders
           DEF Lease!InUse, Lease!Cardinality, Cardinality
      <4> QED
        BY <2>1, <4>2 DEF BelowCap, LiveCountExact
    <3> QED
      BY <3>2, <3>3, <3>4, <3>5 DEF Lease!Reserve, Lease!Entitled
  <2>2. CASE Goto(w, "wait")
    BY <1>20, <2>2, LeaseKeeps DEF CheckCap, At, Goto, TypeOK, LeaseOf,
       Entitlement
  <2> QED
    BY <1>20, <2>1, <2>2 DEF CheckCap
<1>21. ASSUME NEW w \in Workers, StartingIdle(w) PROVE Lease!Create(w)
  <2>1. /\ pc'[w] = "submit"
        /\ \A v \in Workers \ {w} :
              /\ LeaseOf(v)' = LeaseOf(v)
              /\ v \in Entitlement' <=> v \in Entitlement
    BY <1>21, OthersKeep DEF StartingIdle
  <2>2. /\ LeaseOf(w) = None /\ LeaseOf(w)' = repl[w]
        /\ w \in Entitlement /\ w \notin Entitlement'
    BY <1>21, <2>1 DEF StartingIdle, At, LeaseOf, Entitlement
  <2>3. Entitlement' = Entitlement \ {w}
    BY <2>1, <2>2 DEF Entitlement
  <2>4. [v \in Workers |-> LeaseOf(v)]'
          = [[v \in Workers |-> LeaseOf(v)] EXCEPT ![w] = repl[w]]
    BY <2>1, <2>2
  <2>5. repl[w] \in REPLs /\ repl[w] \notin Range(pool)
    <3>1. repl[w] \in REPLs
      BY <1>21 DEF StartingIdle, At, TypeOK, Locals, Owning
    <3>2. repl[w] \in Range(repl)
      BY DEF TypeOK, Range
    <3> QED
      BY <3>1, <3>2 DEF ExclusiveREPL
  <2>6. repl[w] \notin Lease!Leased
    <3>1. \A v \in Workers \ {w} : repl[v] # repl[w]
      BY <2>5 DEF ExclusiveREPL, PoolAssumption
    <3>2. \A v \in Workers : LeaseOf(v) = None \/ LeaseOf(v) = repl[v]
      BY DEF LeaseOf
    <3> QED
      BY <2>2, <2>5, <3>1, <3>2 DEF Lease!Leased, PoolAssumption
  <2>7. UNCHANGED Range(pool)
    BY <1>21 DEF StartingIdle
  <2> QED
    BY <2>2, <2>3, <2>4, <2>5, <2>6, <2>7 DEF Lease!Create
<1>22. ASSUME NEW w \in Workers, ReturnREPL(w) PROVE Lease!GiveBack(w)
  <2> USE <1>22 DEF ReturnREPL, At, Finish, Hold
  <2>1. repl[w] # None
    BY DEF Locals, Owning
  <2>2. Range(pool)' = Range(pool) \cup {repl[w]}
    BY <2>1, ExclusiveGive DEF Range
  <2>3. LeaseOf(w) = repl[w]
    BY DEF LeaseOf
  <2>4. /\ LeaseOf(w)' = None
        /\ w \notin Entitlement /\ w \notin Entitlement'
    BY DEF LeaseOf, Entitlement, Goto, TypeOK
  <2>5. /\ Entitlement' = Entitlement
        /\ [v \in Workers |-> LeaseOf(v)]'
             = [[v \in Workers |-> LeaseOf(v)] EXCEPT ![w] = None]
    BY <2>4, LeaseEnds DEF TypeOK
  <2> QED
    BY <2>1, <2>2, <2>3, <2>5 DEF Lease!GiveBack
<1>23. ASSUME NEW w \in Workers, DiscardREPL(w)
      PROVE  Lease!Drop(w) \/ Lease!Abandon(w)
  <2> USE <1>23 DEF DiscardREPL, At
  <2>1. CASE repl[w] # None
    <3>1. LeaseOf(w) = repl[w]
      BY DEF LeaseOf
    <3>2. /\ LeaseOf(w)' = None
          /\ w \notin Entitlement /\ w \notin Entitlement'
      BY <2>1 DEF LeaseOf, Entitlement, Goto, TypeOK
    <3>3. /\ Entitlement' = Entitlement
          /\ [v \in Workers |-> LeaseOf(v)]'
               = [[v \in Workers |-> LeaseOf(v)] EXCEPT ![w] = None]
      BY <2>1, <3>2, LeaseEnds DEF TypeOK
    <3> QED
      BY <2>1, <3>1, <3>3 DEF Lease!Drop
  <2>2. CASE repl[w] = None
    <3> USE <2>2 DEF Finish, Hold
    <3>1. /\ pc'[w] = "idle"
          /\ \A v \in Workers \ {w} :
                /\ LeaseOf(v)' = LeaseOf(v)
                /\ v \in Entitlement' <=> v \in Entitlement
      BY OthersKeep DEF TypeOK
    <3>2. /\ LeaseOf(w) = None /\ LeaseOf(w)' = None
          /\ w \in Entitlement /\ w \notin Entitlement'
      BY <3>1 DEF LeaseOf, Entitlement
    <3>3. Entitlement' = Entitlement \ {w}
      BY <3>1, <3>2 DEF Entitlement
    <3>4. UNCHANGED <<Range(pool), [v \in Workers |-> LeaseOf(v)]>>
      BY <3>1, <3>2
    <3> QED
      BY <3>2, <3>3, <3>4 DEF Lease!Abandon
  <2> QED
    BY <2>1, <2>2
<1>24. ASSUME NEW w \in Workers, CloseDecrement(w) PROVE Lease!Drop(w)
  <2> USE <1>24 DEF CloseDecrement, At, Hold
  <2>1. LeaseOf(w) = repl[w] /\ repl[w] # None
    BY DEF LeaseOf, Locals
  <2>2. /\ LeaseOf(w)' = None
        /\ w \notin Entitlement /\ w \notin Entitlement'
    BY DEF LeaseOf, Entitlement, Goto, TypeOK
  <2>3. /\ Entitlement' = Entitlement
        /\ [v \in Workers |-> LeaseOf(v)]'
             = [[v \in Workers |-> LeaseOf(v)] EXCEPT ![w] = None]
    BY <2>2, LeaseEnds DEF TypeOK
  <2> QED
    BY <2>1, <2>3 DEF Lease!Drop
<1>25. ASSUME UNCHANGED clientVars PROVE UNCHANGED Lease!vars
  BY <1>25 DEF clientVars, Lease!vars, Entitlement, LeaseOf
<1> QED
  BY <1>1, <1>2, <1>3, <1>4, <1>5, <1>6, <1>7, <1>8, <1>9, <1>10, <1>11,
     <1>12, <1>13, <1>14, <1>15, <1>16, <1>17, <1>18, <1>19, <1>20, <1>21,
     <1>22, <1>23, <1>24, <1>25
     DEF Next, Call, Progress, Failure, Fabric, Execution, StatementEnds,
         UserCancel, CancelEnds, Expire, ExpireApplication, Done, vars,
         Lease!Next

\* The pool implements the abstract lease service.
THEOREM PoolImplementsLease == Spec => ImplementsLease
<1>1. Init => Lease!Init
  <2> SUFFICES ASSUME Init PROVE Lease!Init
    OBVIOUS
  <2>1. Range(pool) = {}
    BY DEF Init, Range
  <2>2. Entitlement = {} /\ [w \in Workers |-> LeaseOf(w)]
                              = [w \in Workers |-> None]
    BY DEF Init, Entitlement, LeaseOf
  <2> QED
    BY <2>1, <2>2 DEF Lease!Init
<1>2. PoolInv /\ PoolInv' /\ [Next]_vars => [Lease!Next]_Lease!vars
  BY StepImplementsLease
<1> QED
  BY <1>1, <1>2, SpecPoolInv, PTL DEF Spec, ImplementsLease, Lease!Spec
=============================================================================
