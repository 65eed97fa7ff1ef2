----------------------------- MODULE SCD2Proofs -----------------------------
(***************************************************************************)
(* Theorems about SCD2, for every set of keys and values and every         *)
(* strategy.  What a merge does to one version is stated once, in the      *)
(* lemmas of the first part.                                               *)
(***************************************************************************)
EXTENDS SCD2, TLAPS

(* What a merge does to a version, and which versions it inserts *)

\* A source is a function from some of the keys to rows.
LEMMA SourceType ==
    ASSUME source \in Sources
    PROVE  /\ DOMAIN source \subseteq Keys
           /\ \A k \in DOMAIN source : source[k] \in Rows
  BY DEF Sources

\* The ON condition holds for a version and some source row exactly if the
\* version is current and its key is in the query.
LEMMA MatchedIsPresent ==
    ASSUME NEW v
    PROVE  (\E s \in MergeSource : Matches(s, v)) <=> v.current /\ v.key \in DOMAIN source
  <1>1. ASSUME NEW s \in MergeSource, Matches(s, v)
        PROVE  v.current /\ v.key \in DOMAIN source
    BY <1>1 DEF Matches, MergeSource
  <1>2. ASSUME v.current, v.key \in DOMAIN source
        PROVE  \E s \in MergeSource : Matches(s, v)
    <2> DEFINE s == [key |-> v.key, current |-> TRUE]
    <2>1. s \in MergeSource
      BY <1>2 DEF MergeSource
    <2>2. Matches(s, v)
      BY <1>2 DEF Matches
    <2>. QED
      BY <2>1, <2>2
  <1>. QED
    BY <1>1, <1>2

\* A closed version is never touched.
LEMMA ClosedIsKept ==
    ASSUME NEW v, ~v.current
    PROVE  Updated(v) = v
  BY MatchedIsPresent DEF Updated

\* A current version is closed if it is superseded or its key has vanished.
LEMMA CurrentIsUpdated ==
    ASSUME NEW v, v.current
    PROVE  Updated(v) = IF v.key \in DOMAIN source
                        THEN IF Supersedes(source[v.key], v)
                             THEN Close(v, ChangeTime(source[v.key]))
                             ELSE v
                        ELSE Close(v, now)
  BY MatchedIsPresent DEF Updated

\* The versions inserted are those of the keys that had no current version, or
\* one that this merge closes.
LEMMA WhatIsInserted ==
    ASSUME NEW w \in Inserted
    PROVE  \E k \in DOMAIN source :
             /\ w = NewVersion(k)
             /\ \/ \A v \in table : ~(v.current /\ v.key = k)
                \/ \E v \in table : v.key = k /\ Replaced(v)
  <1>1. PICK s \in MergeSource : w = NewVersion(s.key) /\ \A v \in table : ~Matches(s, v)
    BY DEF Inserted
  <1>2. CASE s.current
    BY <1>1, <1>2 DEF Matches, MergeSource
  <1>3. CASE ~s.current
    BY <1>1, <1>3 DEF MergeSource, Replaced
  <1>. QED
    BY <1>2, <1>3

\* A key of the query without a current version gets one.
LEMMA NewKeyIsInserted ==
    ASSUME NEW k \in DOMAIN source, \A v \in table : ~(v.current /\ v.key = k)
    PROVE  NewVersion(k) \in Inserted
  <1> DEFINE s == [key |-> k, current |-> TRUE]
  <1>1. s \in MergeSource /\ s.key = k
    BY DEF MergeSource
  <1>2. \A v \in table : ~Matches(s, v)
    BY DEF Matches
  <1>. QED
    BY <1>1, <1>2 DEF Inserted

\* So does a key whose current version is superseded.
LEMMA ReplacementIsInserted ==
    ASSUME NEW v \in table, Replaced(v)
    PROVE  NewVersion(v.key) \in Inserted
  <1> DEFINE s == [key |-> v.key, current |-> FALSE]
  <1>1. s \in MergeSource /\ s.key = v.key
    BY DEF MergeSource
  <1>2. \A u \in table : ~Matches(s, u)
    BY DEF Matches
  <1>. QED
    BY <1>1, <1>2 DEF Inserted

\* A new version is a version, current and open-ended.
LEMMA NewVersionType ==
    ASSUME TypeOK, NEW k \in DOMAIN source
    PROVE  /\ NewVersion(k) \in Versions
           /\ NewVersion(k).key = k
           /\ NewVersion(k).val = source[k].val
           /\ NewVersion(k).ik = source[k].ik
           /\ NewVersion(k).from = ChangeTime(source[k])
           /\ NewVersion(k).current
           /\ NewVersion(k).until = Forever
  <1>1. k \in Keys /\ source[k] \in Rows
    BY SourceType DEF TypeOK
  <1>2. ChangeTime(source[k]) \in Times
    BY <1>1, TimeAssumption DEF TypeOK, ChangeTime, Rows, Times
  <1>. QED
    BY <1>1, <1>2 DEF NewVersion, Versions, Rows

\* Closing writes the end and the flag, nothing else.
LEMMA CloseType ==
    ASSUME NEW v \in Versions, NEW t \in Times
    PROVE  /\ Close(v, t) \in Versions
           /\ ~Close(v, t).current
           /\ Close(v, t).until = t
           /\ t # Forever
           /\ Close(v, t).key = v.key
           /\ Close(v, t).val = v.val
           /\ Close(v, t).ik = v.ik
           /\ Close(v, t).from = v.from
  <1>1. Close(v, t) \in Versions
    BY DEF Close, Versions
  <1>3. /\ ~Close(v, t).current
        /\ Close(v, t).until = t
    BY DEF Close, Versions
  <1>4. /\ Close(v, t).key = v.key
        /\ Close(v, t).val = v.val
        /\ Close(v, t).ik = v.ik
        /\ Close(v, t).from = v.from
    BY DEF Close, Versions
  <1>2. t # Forever
    BY TimeAssumption DEF Times, Forever
  <1>. QED
    BY <1>1, <1>2, <1>3, <1>4

\* The time a merge closes a version with.
LEMMA ChangeTimeType ==
    ASSUME TypeOK
    PROVE  /\ now \in Times
           /\ \A k \in DOMAIN source : ChangeTime(source[k]) \in Times
  BY SourceType, TimeAssumption DEF TypeOK, ChangeTime, Rows, Times

\* An updated version is a version, of the same key and beginning.
LEMMA UpdatedType ==
    ASSUME TypeOK, NEW v \in table
    PROVE  /\ Updated(v) \in Versions
           /\ Updated(v).current <=> Updated(v).until = Forever
           /\ Updated(v).key = v.key
           /\ Updated(v).from = v.from
           /\ Updated(v).current => Updated(v) = v
  <1>1. v \in Versions /\ (v.current <=> v.until = Forever) /\ v.current \in BOOLEAN
    BY DEF TypeOK, Versions
  <1>2. CASE ~v.current
    BY <1>1, <1>2, ClosedIsKept
  <1>3. CASE v.current
    BY <1>1, <1>3, CurrentIsUpdated, CloseType, ChangeTimeType
  <1>. QED
    BY <1>1, <1>2, <1>3

-----------------------------------------------------------------------------
(* Types *)

LEMMA TypeInit == Init => TypeOK
  <1> SUFFICES ASSUME Init PROVE TypeOK
    OBVIOUS
  <1>1. source \in Sources
    <2>1. source \in [{} -> Rows]
      BY DEF Init
    <2>. QED
      BY <2>1 DEF Sources
  <1>2. now \in 1..MaxTime /\ seen \in [Keys -> Times]
    BY TimeAssumption DEF Init, Times
  <1>3. strategy \in Strategies /\ fresh \in BOOLEAN
    BY DEF Init
  <1>4. /\ table \subseteq Versions /\ known \subseteq Keys /\ late \subseteq Keys
        /\ \A v \in table : v.current <=> v.until = Forever
    BY DEF Init
  <1>. QED
    BY <1>1, <1>2, <1>3, <1>4 DEF TypeOK

LEMMA TypeStep == TypeOK /\ [Next]_vars => TypeOK'
  <1> SUFFICES ASSUME TypeOK, [Next]_vars PROVE TypeOK'
    OBVIOUS
  <1>1. DOMAIN source \subseteq Keys /\ \A k \in DOMAIN source : source[k] \in Rows
    BY SourceType DEF TypeOK
  <1>2. now \in Times /\ now \in 1..MaxTime
    BY ChangeTimeType DEF TypeOK
  <1>3. CASE Merge
    <2>1. \A w \in table' : w \in Versions /\ (w.current <=> w.until = Forever)
      BY <1>3, UpdatedType, WhatIsInserted, NewVersionType DEF Merge
    <2>2. seen' \in [Keys -> Times]
      BY <1>1, <1>2, <1>3 DEF Merge, TypeOK, Later, Rows
    <2>3. late' \subseteq Keys
      BY <1>1, <1>3 DEF Merge, TypeOK
    <2>. QED
      BY <1>1, <1>3, <2>1, <2>2, <2>3 DEF Merge, RunsOn, TypeOK, Forever
  <1>4. CASE FullRefresh
    <2>1. \A w \in table' : w \in Versions /\ (w.current <=> w.until = Forever)
      BY <1>4, NewVersionType DEF FullRefresh
    <2>2. seen' \in [Keys -> Times]
      BY <1>1, <1>4, TimeAssumption DEF FullRefresh, Rows, Times
    <2>. QED
      BY <1>1, <1>4, <2>1, <2>2 DEF FullRefresh, RunsOn, TypeOK, Forever
  <1>5. CASE SourceChanges
    <2>1. source' \in Sources
      <3>1. PICK k \in Keys :
              \/ \E row \in [val : Values \cup {Null},
                             ik : IF strategy = "by_column" THEN {0} ELSE 1..now] :
                    source' = [j \in DOMAIN source \cup {k} |-> IF j = k THEN row ELSE source[j]]
              \/ source' = [j \in DOMAIN source \ {k} |-> source[j]]
        BY <1>5 DEF SourceChanges
      <3>2. CASE \E row \in [val : Values \cup {Null},
                             ik : IF strategy = "by_column" THEN {0} ELSE 1..now] :
                    source' = [j \in DOMAIN source \cup {k} |-> IF j = k THEN row ELSE source[j]]
        <4>1. PICK row \in [val : Values \cup {Null},
                            ik : IF strategy = "by_column" THEN {0} ELSE 1..now] :
                source' = [j \in DOMAIN source \cup {k} |-> IF j = k THEN row ELSE source[j]]
          BY <3>2
        <4>2. row.val \in Values \cup {Null} /\ row.ik \in Times
          BY <1>2, TimeAssumption DEF Times
        <4>3. row = [val |-> row.val, ik |-> row.ik]
          OBVIOUS
        <4>4. row \in Rows
          BY <4>2, <4>3 DEF Rows
        <4>5. source' \in [DOMAIN source \cup {k} -> Rows] /\ DOMAIN source \cup {k} \in SUBSET Keys
          BY <1>1, <4>1, <4>4
        <4>. QED
          BY <4>5 DEF Sources
      <3>3. CASE source' = [j \in DOMAIN source \ {k} |-> source[j]]
        <4>1. source' \in [DOMAIN source \ {k} -> Rows] /\ DOMAIN source \ {k} \in SUBSET Keys
          BY <1>1, <3>3
        <4>. QED
          BY <4>1 DEF Sources
      <3>. QED
        BY <3>1, <3>2, <3>3
    <2>. QED
      BY <1>5, <2>1 DEF SourceChanges, TypeOK, history, Forever, Sources, Rows, Versions
  <1>6. CASE Tick
    BY <1>6, TimeAssumption DEF Tick, TypeOK, history, Forever
  <1>7. CASE UNCHANGED vars
    BY <1>7 DEF vars, history, TypeOK, Forever
  <1>. QED
    BY <1>3, <1>4, <1>5, <1>6, <1>7 DEF Next

\* Every variable keeps its type, and exactly the current versions are open-ended.
THEOREM TypeCorrect == Spec => []TypeOK
  <1>. QED
    BY TypeInit, TypeStep, PTL DEF Spec

-----------------------------------------------------------------------------
(* One current version per key *)

\* A current version after a merge is one that the source does not supersede, or
\* a new one in the place of none or of one that was superseded.
LEMMA CurrentAfterMerge ==
    ASSUME TypeOK, OneCurrentVersion, Merge, NEW v \in table', v.current
    PROVE  /\ v.key \in DOMAIN source
           /\ \/ v \in table /\ ~Supersedes(source[v.key], v)
              \/ /\ v = NewVersion(v.key)
                 /\ \A u \in table :
                        u.current /\ u.key = v.key => Supersedes(source[u.key], u)
  <1>1. CASE v \in Inserted
    <2>1. PICK k \in DOMAIN source :
             /\ v = NewVersion(k)
             /\ \/ \A u \in table : ~(u.current /\ u.key = k)
                \/ \E u \in table : u.key = k /\ Replaced(u)
      BY <1>1, WhatIsInserted
    <2>2. v.key = k
      BY <2>1, NewVersionType
    <2>3. CASE \A u \in table : ~(u.current /\ u.key = k)
      BY <2>1, <2>2, <2>3
    <2>4. CASE \E u \in table : u.key = k /\ Replaced(u)
      BY <2>1, <2>2, <2>4 DEF Replaced, OneCurrentVersion
    <2>. QED
      BY <2>1, <2>3, <2>4
  <1>2. CASE v \notin Inserted
    <2>1. PICK u \in table : v = Updated(u)
      BY <1>2 DEF Merge
    <2>2. v = u
      BY <2>1, UpdatedType
    <2>3. CASE u.key \in DOMAIN source /\ ~Supersedes(source[u.key], u)
      BY <2>2, <2>3
    <2>4. CASE ~(u.key \in DOMAIN source /\ ~Supersedes(source[u.key], u))
      <3>1. u \in Versions /\ u.current
        BY <2>2 DEF TypeOK
      <3>2. \E t \in Times : Updated(u) = Close(u, t)
        BY <2>4, <3>1, CurrentIsUpdated, ChangeTimeType
      <3>. QED
        BY <2>1, <3>1, <3>2, CloseType
    <2>. QED
      BY <2>3, <2>4
  <1>. QED
    BY <1>1, <1>2

LEMMA OneCurrentStep == TypeOK /\ OneCurrentVersion /\ [Next]_vars => OneCurrentVersion'
  <1> SUFFICES ASSUME TypeOK, OneCurrentVersion, [Next]_vars PROVE OneCurrentVersion'
    OBVIOUS
  <1>1. CASE Merge
    <2> SUFFICES ASSUME NEW v \in table', NEW w \in table', v.current, w.current, v.key = w.key
                 PROVE  v = w
      BY DEF OneCurrentVersion
    <2>1. /\ \/ v \in table /\ ~Supersedes(source[v.key], v)
             \/ /\ v = NewVersion(v.key)
                /\ \A u \in table : u.current /\ u.key = v.key => Supersedes(source[u.key], u)
          /\ \/ w \in table /\ ~Supersedes(source[w.key], w)
             \/ /\ w = NewVersion(w.key)
                /\ \A u \in table : u.current /\ u.key = w.key => Supersedes(source[u.key], u)
      BY <1>1, CurrentAfterMerge
    <2>. QED
      BY <2>1 DEF OneCurrentVersion
  <1>2. CASE FullRefresh
    BY <1>2, NewVersionType DEF FullRefresh, OneCurrentVersion
  <1>3. CASE SourceChanges \/ Tick \/ UNCHANGED vars
    BY <1>3 DEF SourceChanges, Tick, vars, OneCurrentVersion
  <1>. QED
    BY <1>1, <1>2, <1>3 DEF Next

\* A key never has two current versions, however the source changes between the
\* runs: for every strategy and any number of keys.
THEOREM OneVersionIsCurrent == Spec => []OneCurrentVersion
  <1>1. Init => OneCurrentVersion
    BY DEF Init, OneCurrentVersion
  <1>. QED
    BY <1>1, OneCurrentStep, TypeCorrect, PTL DEF Spec

-----------------------------------------------------------------------------
(* What a run leaves is up to date, so that the next one finds nothing to do *)

\* Each key of the source has a current version that no row supersedes, and no
\* other key has one.
UpToDate ==
    /\ \A k \in DOMAIN source : \E v \in table : v.current /\ v.key = k
    /\ \A v \in table : v.current =>
          v.key \in DOMAIN source /\ ~Supersedes(source[v.key], v)

\* A row does not supersede the version made of it.
LEMMA NewVersionIsUpToDate ==
    ASSUME TypeOK, NEW k \in DOMAIN source
    PROVE  ~Supersedes(source[k], NewVersion(k))
  <1>1. source[k].ik \in Int
    BY SourceType, TimeAssumption DEF TypeOK, Rows, Times
  <1>. QED
    BY <1>1, NewVersionType DEF Supersedes, SqlDiffers, ChangeTime

LEMMA MergeMakesUpToDate ==
    ASSUME TypeOK, OneCurrentVersion, Merge
    PROVE  UpToDate'
  <1>1. source' = source /\ strategy' = strategy
    BY DEF Merge, RunsOn
  <1>2. ASSUME NEW v \in table', v.current
        PROVE  v.key \in DOMAIN source /\ ~Supersedes(source[v.key], v)
    BY <1>2, CurrentAfterMerge, NewVersionIsUpToDate
  <1>3. ASSUME NEW k \in DOMAIN source
        PROVE  \E v \in table' : v.current /\ v.key = k
    <2>1. CASE NewVersion(k) \in Inserted
      BY <2>1, NewVersionType DEF Merge
    <2>2. CASE NewVersion(k) \notin Inserted
      <3>1. PICK v \in table : v.current /\ v.key = k
        BY <2>2, NewKeyIsInserted
      <3>2. ~Supersedes(source[k], v)
        BY <2>2, <3>1, ReplacementIsInserted DEF Replaced
      <3>3. Updated(v) = v
        BY <3>1, <3>2, CurrentIsUpdated
      <3>. QED
        BY <3>1, <3>3 DEF Merge
    <2>. QED
      BY <2>1, <2>2
  <1>. QED
    BY <1>1, <1>2, <1>3 DEF UpToDate, Supersedes

LEMMA FreshStep ==
    TypeOK /\ OneCurrentVersion /\ (fresh => UpToDate) /\ [Next]_vars => (fresh => UpToDate)'
  <1> SUFFICES ASSUME TypeOK, OneCurrentVersion, fresh => UpToDate, [Next]_vars
               PROVE  (fresh => UpToDate)'
    OBVIOUS
  <1>1. CASE Merge
    BY <1>1, MergeMakesUpToDate
  <1>2. CASE FullRefresh
    <2>1. source' = source /\ strategy' = strategy
      BY <1>2 DEF FullRefresh, RunsOn
    <2>. QED
      BY <1>2, <2>1, NewVersionType, NewVersionIsUpToDate DEF FullRefresh, UpToDate, Supersedes
  <1>3. CASE SourceChanges
    BY <1>3 DEF SourceChanges
  <1>4. CASE Tick \/ UNCHANGED vars
    BY <1>4 DEF Tick, vars, history, UpToDate, Supersedes
  <1>. QED
    BY <1>1, <1>2, <1>3, <1>4 DEF Next

\* Of an up-to-date table a merge changes nothing.
LEMMA NothingToDo ==
    ASSUME UpToDate, Merge
    PROVE  table' = table
  <1>1. \A v \in table : Updated(v) = v
    BY ClosedIsKept, CurrentIsUpdated DEF UpToDate
  <1>2. Inserted = {}
    BY WhatIsInserted DEF UpToDate, Replaced
  <1>. QED
    BY <1>1, <1>2 DEF Merge

\* Run again on the same source, a merge changes nothing: a statement executed
\* twice is executed once.
THEOREM RerunsChangeNothing == Spec => RerunChangesNothing
  <1>1. Init => (fresh => UpToDate)
    BY DEF Init
  <1>2. UpToDate /\ Merge => table' = table
    BY NothingToDo
  <1>3. (fresh => UpToDate) /\ [Next]_vars => [Merge /\ fresh => table' = table]_vars
    BY <1>2
  <1>. QED
    BY <1>1, <1>3, FreshStep, TypeCorrect, OneVersionIsCurrent, PTL
    DEF Spec, RerunChangesNothing

\* Merges only add to the history.
THEOREM HistoryOnlyGrows == Spec => HistoryIsKept
  <1>1. ASSUME TypeOK, Merge, NEW v \in table
        PROVE  \/ v \in table'
               \/ v.current /\ \E w \in table' :
                      ~w.current /\ w = [v EXCEPT !.until = w.until, !.current = FALSE]
    <2>1. Updated(v) \in table'
      BY <1>1 DEF Merge
    <2>2. CASE Updated(v) = v
      BY <2>1, <2>2
    <2>3. CASE Updated(v) # v
      <3>1. v \in Versions /\ v.current
        BY <1>1, <2>3, ClosedIsKept DEF TypeOK
      <3>2. PICK t \in Times : Updated(v) = Close(v, t)
        BY <1>1, <2>3, <3>1, CurrentIsUpdated, ChangeTimeType
      <3>3. ~Updated(v).current /\ Updated(v).until = t
        BY <3>1, <3>2, CloseType
      <3>. QED
        BY <2>1, <3>1, <3>2, <3>3 DEF Close
    <2>. QED
      BY <2>2, <2>3
  <1>2. TypeOK /\ [Next]_vars =>
          [Merge => \A v \in table :
              \/ v \in table'
              \/ v.current /\ \E w \in table' :
                     ~w.current /\ w = [v EXCEPT !.until = w.until, !.current = FALSE]]_vars
    BY <1>1
  <1>. QED
    BY <1>2, TypeCorrect, PTL DEF Spec, HistoryIsKept

-----------------------------------------------------------------------------
(* The versions of a key follow each other *)

\* What a run has learnt about a key, and the time it writes for it.
Bound(k) == IF strategy = "by_column" THEN now ELSE seen[k]
RunTime(k) == IF k \in DOMAIN source THEN ChangeTime(source[k]) ELSE now

\* The versions of a key lie before b, one after the other, the current one last.
Orderly(k, b) ==
    \A v \in table : v.key = k =>
        /\ v.from <= b
        /\ ~v.current => v.from <= v.until /\ v.until <= b
        /\ \A w \in table : w.key = k /\ w # v /\ ~w.current =>
              w.until <= v.from \/ (~v.current /\ v.until <= w.from)

LineInv ==
    /\ \A k \in DOMAIN source : source[k].ik <= now
    /\ \A k \in Keys : seen[k] <= now
    /\ \A v \in table : v.current => v.key \in known
    /\ \A k \in Keys \ late : Orderly(k, Bound(k))

\* Every version after a merge is one of four kinds.
LEMMA VersionAfterMerge ==
    ASSUME TypeOK, OneCurrentVersion, Merge, NEW w \in table'
    PROVE  /\ w.key \in Keys
           /\ \/ w \in table /\ ~w.current
              \/ /\ w \in table /\ w.current
                 /\ w.key \in DOMAIN source /\ ~Supersedes(source[w.key], w)
              \/ \E u \in table :
                    /\ u.current /\ u.key = w.key /\ u.from = w.from
                    /\ w = Close(u, RunTime(w.key))
                    /\ ~w.current /\ w.until = RunTime(w.key)
                    /\ ~(u.key \in DOMAIN source /\ ~Supersedes(source[u.key], u))
              \/ /\ w.key \in DOMAIN source
                 /\ w = NewVersion(w.key)
                 /\ w.current /\ w.from = RunTime(w.key)
                 /\ \A u \in table :
                        u.current /\ u.key = w.key => Supersedes(source[u.key], u)
  <1>1. CASE w \in Inserted
    <2>1. w.current /\ w.key \in DOMAIN source /\ w = NewVersion(w.key)
      BY <1>1, WhatIsInserted, NewVersionType
    <2>2. w.from = RunTime(w.key)
      BY <2>1, NewVersionType DEF RunTime
    <2>3. w.key \in Keys
      BY <2>1, SourceType DEF TypeOK
    <2>4. CASE \A u \in table : u.current /\ u.key = w.key => Supersedes(source[u.key], u)
      BY <2>1, <2>2, <2>3, <2>4
    <2>5. CASE w \in table /\ ~Supersedes(source[w.key], w)
      BY <2>1, <2>3, <2>5
    <2>. QED
      BY <2>1, <2>4, <2>5, CurrentAfterMerge
  <1>2. CASE w \notin Inserted
    <2>1. PICK u \in table : w = Updated(u)
      BY <1>2 DEF Merge
    <2>2. u \in Versions /\ u.key \in Keys /\ w.key = u.key /\ w.from = u.from
      BY <2>1, UpdatedType DEF TypeOK, Versions
    <2>3. CASE ~u.current
      BY <2>1, <2>2, <2>3, ClosedIsKept
    <2>4. CASE u.current /\ u.key \in DOMAIN source /\ ~Supersedes(source[u.key], u)
      BY <2>1, <2>2, <2>4, CurrentIsUpdated
    <2>5. CASE u.current /\ ~(u.key \in DOMAIN source /\ ~Supersedes(source[u.key], u))
      <3>1. w = Close(u, RunTime(u.key)) /\ RunTime(u.key) \in Times
        BY <2>1, <2>5, CurrentIsUpdated, ChangeTimeType DEF RunTime
      <3>. QED
        BY <2>2, <2>5, <3>1, CloseType
    <2>. QED
      BY <2>3, <2>4, <2>5
  <1>. QED
    BY <1>1, <1>2

\* A merge keeps the versions of a key in order if it does not come late.
LEMMA OrderlyAfterMerge ==
    ASSUME TypeOK, OneCurrentVersion, LineInv, Merge, NEW k \in Keys \ late'
    PROVE  Orderly(k, Bound(k))'
  <1> DEFINE R == RunTime(k)
             b == Bound(k)
  <1>1. /\ strategy' = strategy /\ now' = now /\ source' = source
        /\ \A v \in table : v \in Versions
        /\ seen[k] \in Int /\ now \in Int /\ seen[k] <= now
    BY TimeAssumption DEF Merge, RunsOn, TypeOK, LineInv, Times
  <1>2. Orderly(k, b) /\ b \in Int
    BY <1>1 DEF Merge, LineInv, Bound
  <1>3. CASE k \in DOMAIN source
    <2>1. source[k].ik \in Int /\ seen[k] <= source[k].ik
      BY <1>1, <1>3, SourceType, TimeAssumption DEF TypeOK, Rows, Times, Merge
    <2>2. seen'[k] = source[k].ik
      BY <1>1, <1>3, <2>1 DEF Merge, Later
    <2>. HIDE DEF b, R
    <2>3. R \in Int /\ b <= R /\ Bound(k)' = R
      BY <1>1, <1>3, <2>1, <2>2 DEF Bound, RunTime, ChangeTime, b, R
    <2>4. \A v \in table : v.from \in Int /\ (~v.current => v.until \in Int)
      BY <1>1, TimeAssumption DEF TypeOK, Versions, Times, Forever
    <2>5. \A v \in table' : v.key = k =>
            \/ v \in table /\ ~v.current
            \/ v \in table /\ v.current /\ ~Supersedes(source[k], v)
            \/ \E u \in table :
                  /\ u.current /\ u.key = k /\ u.from = v.from
                  /\ v = Close(u, R) /\ ~v.current /\ v.until = R
                  /\ Supersedes(source[k], u)
            \/ /\ v = NewVersion(k) /\ v.current /\ v.from = R
               /\ \A u \in table : u.current /\ u.key = k => Supersedes(source[k], u)
      BY <1>3, VersionAfterMerge DEF R
    <2>6. ASSUME NEW v \in table', v.key = k
          PROVE  v.from <= R /\ (~v.current => v.from <= v.until /\ v.until <= R)
      BY <1>2, <2>3, <2>4, <2>5, <2>6 DEF Orderly
    <2>7. ASSUME NEW v \in table', NEW w \in table',
                 v.key = k, w.key = k, w # v, ~w.current
          PROVE  w.until <= v.from \/ (~v.current /\ v.until <= w.from)
      <3>1. CASE w \in table
        BY <1>2, <2>3, <2>4, <2>5, <2>7, <3>1 DEF Orderly
      <3>2. CASE \E u \in table :
                  /\ u.current /\ u.key = k /\ u.from = w.from
                  /\ w = Close(u, R) /\ ~w.current /\ w.until = R
                  /\ Supersedes(source[k], u)
        <4>1. PICK u \in table :
                  /\ u.current /\ u.key = k /\ u.from = w.from
                  /\ w = Close(u, R) /\ ~w.current /\ w.until = R
                  /\ Supersedes(source[k], u)
          BY <3>2
        <4>2. \A x \in table : x.current /\ x.key = k => x = u
          BY <4>1 DEF OneCurrentVersion
        <4>3. CASE v \in table /\ ~v.current
          BY <1>2, <2>4, <2>7, <4>1, <4>3 DEF Orderly
        <4>4. CASE v = NewVersion(k) /\ v.current /\ v.from = R
          BY <2>3, <4>1, <4>4
        <4>. QED
          BY <2>5, <2>7, <4>1, <4>2, <4>3, <4>4
      <3>. QED
        BY <2>5, <2>7, <3>1, <3>2
    <2>. QED
      BY <2>3, <2>6, <2>7 DEF Orderly
  <1>4. CASE k \notin DOMAIN source
    <2>1. seen'[k] = IF k \in known THEN now ELSE seen[k]
      BY <1>4 DEF Merge
    <2>2. R = now
      BY <1>4 DEF RunTime
    <2>3. \A u \in table : u.current /\ u.key = k => Bound(k)' = now
      BY <1>1, <2>1 DEF LineInv, Bound
    <2>. HIDE DEF b, R
    <2>4. b <= now /\ b <= Bound(k)' /\ Bound(k)' \in Int
      BY <1>1, <2>1 DEF Bound, b
    <2>5. \A v \in table : v.from \in Int /\ (~v.current => v.until \in Int)
      BY <1>1, TimeAssumption DEF TypeOK, Versions, Times, Forever
    <2>6. \A v \in table' : v.key = k =>
            \/ v \in table /\ ~v.current
            \/ \E u \in table :
                  /\ u.current /\ u.key = k /\ u.from = v.from
                  /\ v = Close(u, R) /\ ~v.current /\ v.until = R
      BY <1>4, VersionAfterMerge DEF R
    <2>7. ASSUME NEW v \in table', v.key = k
          PROVE  v.from <= Bound(k)' /\ (~v.current => v.from <= v.until /\ v.until <= Bound(k)')
      BY <1>1, <1>2, <2>2, <2>3, <2>4, <2>5, <2>6, <2>7 DEF Orderly
    <2>8. ASSUME NEW v \in table', NEW w \in table',
                 v.key = k, w.key = k, w # v, ~w.current
          PROVE  w.until <= v.from \/ (~v.current /\ v.until <= w.from)
      <3>1. CASE w \in table
        BY <1>1, <1>2, <2>2, <2>4, <2>5, <2>6, <2>8, <3>1 DEF Orderly
      <3>2. CASE \E u \in table :
                  /\ u.current /\ u.key = k /\ u.from = w.from
                  /\ w = Close(u, R) /\ ~w.current /\ w.until = R
        <4>1. PICK u \in table :
                  /\ u.current /\ u.key = k /\ u.from = w.from
                  /\ w = Close(u, R) /\ ~w.current /\ w.until = R
          BY <3>2
        <4>2. \A x \in table : x.current /\ x.key = k => x = u
          BY <4>1 DEF OneCurrentVersion
        <4>3. CASE v \in table /\ ~v.current
          BY <1>2, <2>5, <2>8, <4>1, <4>3 DEF Orderly
        <4>. QED
          BY <2>6, <2>8, <4>1, <4>2, <4>3
      <3>. QED
        BY <2>6, <2>8, <3>1, <3>2
    <2>. QED
      BY <2>7, <2>8 DEF Orderly
  <1>. QED
    BY <1>3, <1>4

LEMMA LineStep == TypeOK /\ OneCurrentVersion /\ LineInv /\ [Next]_vars => LineInv'
  <1> SUFFICES ASSUME TypeOK, OneCurrentVersion, LineInv, [Next]_vars PROVE LineInv'
    OBVIOUS
  <1>1. CASE Merge
    <2>1. source' = source /\ now' = now /\ known' = DOMAIN source
      BY <1>1 DEF Merge, RunsOn
    <2>2. \A k \in Keys : seen'[k] <= now
      BY <1>1, TimeAssumption, SourceType DEF Merge, LineInv, Later, TypeOK, Times, Rows
    <2>3. \A v \in table' : v.current => v.key \in DOMAIN source
      BY <1>1, CurrentAfterMerge
    <2>4. \A k \in Keys \ late' : Orderly(k, Bound(k))'
      BY <1>1, OrderlyAfterMerge
    <2>. QED
      BY <2>1, <2>2, <2>3, <2>4 DEF LineInv
  <1>2. CASE FullRefresh
    <2>1. source' = source /\ now' = now /\ strategy' = strategy /\ known' = DOMAIN source
      BY <1>2 DEF FullRefresh, RunsOn
    <2>2. \A k \in Keys : seen'[k] = IF k \in DOMAIN source THEN source[k].ik ELSE 0
      BY <1>2 DEF FullRefresh
    <2>3. \A k \in Keys : seen'[k] <= now
      BY <2>2 DEF LineInv, TypeOK
    <2>4. \A v \in table' : /\ v.current /\ v.key \in DOMAIN source
                           /\ v = NewVersion(v.key) /\ v.from = ChangeTime(source[v.key])
      BY <1>2, NewVersionType DEF FullRefresh
    <2>5. \A k \in DOMAIN source : ChangeTime(source[k]) \in Int
      BY ChangeTimeType, TimeAssumption DEF Times
    <2>6. \A k \in Keys : Orderly(k, Bound(k))'
      BY <2>1, <2>2, <2>4, <2>5 DEF Orderly, Bound, ChangeTime
    <2>. QED
      BY <2>1, <2>3, <2>4, <2>6 DEF LineInv
  <1>3. CASE SourceChanges
    <2>1. \A k \in DOMAIN source' : source'[k].ik <= now
      BY <1>3 DEF SourceChanges, LineInv, TypeOK
    <2>2. /\ now' = now /\ strategy' = strategy /\ table' = table
          /\ known' = known /\ seen' = seen /\ late' = late
      BY <1>3 DEF SourceChanges
    <2>. QED
      BY <2>1, <2>2 DEF LineInv, Orderly, Bound
  <1>4. CASE Tick
    <2>1. /\ now' = now + 1 /\ now \in Int
          /\ strategy' = strategy /\ table' = table /\ source' = source
          /\ known' = known /\ seen' = seen /\ late' = late
      BY <1>4 DEF Tick, history, TypeOK
    <2>2. \A k \in Keys : seen[k] \in Int
      BY TimeAssumption DEF TypeOK, Times
    <2>3. \A v \in table : v.from \in Int /\ (~v.current => v.until \in Int)
      BY TimeAssumption DEF TypeOK, Versions, Times, Forever
    <2>4. \A k \in Keys \ late : Orderly(k, Bound(k))'
      BY <2>1, <2>2, <2>3 DEF LineInv, Orderly, Bound
    <2>5. \A k \in DOMAIN source : source[k].ik \in Int
      BY SourceType, TimeAssumption DEF TypeOK, Rows, Times
    <2>. QED
      BY <2>1, <2>2, <2>4, <2>5 DEF LineInv
  <1>5. CASE UNCHANGED vars
    BY <1>5 DEF vars, history, LineInv, Orderly, Bound
  <1>. QED
    BY <1>1, <1>2, <1>3, <1>4, <1>5 DEF Next

\* The versions of a key follow each other without overlapping, unless upstream
\* delivered it with a time older than the table already knew of.
THEOREM HistoriesAreLines == Spec => []HistoryIsALine
  <1>1. Init => LineInv
    BY DEF Init, LineInv, Orderly
  <1>2. TypeOK /\ OneCurrentVersion /\ LineInv => HistoryIsALine
    <2> SUFFICES ASSUME TypeOK, OneCurrentVersion, LineInv,
                        NEW v \in table, NEW w \in table, v.key = w.key, v.key \notin late
                 PROVE  /\ v.from <= v.until
                        /\ v # w => v.until <= w.from \/ w.until <= v.from
      BY DEF HistoryIsALine
    <2>1. /\ v \in Versions /\ w \in Versions /\ v.key \in Keys \ late
          /\ (v.current => v.until = Forever) /\ (w.current => w.until = Forever)
      BY DEF TypeOK, Versions
    <2>2. v.from \in Int /\ v.from <= Forever
      BY <2>1, TimeAssumption DEF Versions, Times, Forever
    <2>3. Orderly(v.key, Bound(v.key))
      BY <2>1 DEF LineInv
    <2>4. v.from <= v.until
      BY <2>1, <2>2, <2>3 DEF Orderly
    <2>5. v # w => v.until <= w.from \/ w.until <= v.from
      BY <2>3 DEF Orderly, OneCurrentVersion
    <2>. QED
      BY <2>4, <2>5
  <1>. QED
    BY <1>1, <1>2, LineStep, TypeCorrect, OneVersionIsCurrent, PTL DEF Spec

-----------------------------------------------------------------------------
(* The current versions implement a table without history *)

\* by_time, a version begins at the time of its row.
BeginsAtKey == strategy = "by_time" => \A v \in table : v.from = v.ik

LEMMA BeginsAtKeyStep ==
    TypeOK /\ OneCurrentVersion /\ BeginsAtKey /\ [Next]_vars => BeginsAtKey'
  <1> SUFFICES ASSUME TypeOK, OneCurrentVersion, BeginsAtKey, [Next]_vars, strategy = "by_time"
               PROVE  strategy' = "by_time" /\ \A v \in table' : v.from = v.ik
    BY DEF BeginsAtKey, Next, Merge, FullRefresh, RunsOn, SourceChanges, Tick, vars
  <1>1. \A k \in DOMAIN source : NewVersion(k).from = NewVersion(k).ik
    BY NewVersionType DEF ChangeTime
  <1>2. CASE Merge
    <2>1. \A u \in table : u \in Versions /\ u.from = u.ik
      BY DEF TypeOK, BeginsAtKey
    <2>2. \A u \in table, t \in Times : Close(u, t).from = Close(u, t).ik
      BY <2>1, CloseType
    <2>3. \A k : RunTime(k) \in Times
      BY ChangeTimeType DEF RunTime
    <2>. QED
      BY <1>1, <1>2, <2>1, <2>2, <2>3, VersionAfterMerge DEF Merge, RunsOn
  <1>3. CASE FullRefresh
    BY <1>1, <1>3 DEF FullRefresh, RunsOn
  <1>4. CASE SourceChanges \/ Tick \/ UNCHANGED vars
    BY <1>4 DEF SourceChanges, Tick, vars, BeginsAtKey
  <1>. QED
    BY <1>2, <1>3, <1>4 DEF Next

\* The row of a key is that of its only current version.
LEMMA RowOfCurrent ==
    ASSUME OneCurrentVersion, NEW v \in table, v.current
    PROVE  /\ v.key \in DOMAIN CurrentRows
           /\ CurrentRows[v.key] = [val |-> v.val, ik |-> v.ik]
  <1>1. v \in Current
    BY DEF Current
  <1>2. v = CHOOSE u \in Current : u.key = v.key
    BY <1>1 DEF Current, OneCurrentVersion
  <1>3. RowOf(v.key) = [val |-> v.val, ik |-> v.ik]
    BY <1>2 DEF RowOf
  <1>. QED
    BY <1>1, <1>3 DEF CurrentRows

LEMMA KeysOfCurrent ==
    ASSUME NEW k \in DOMAIN CurrentRows
    PROVE  \E v \in table : v.current /\ v.key = k
  BY DEF CurrentRows, Current

\* A source row is a record of its two fields.
LEMMA RowOfSource ==
    ASSUME TypeOK, NEW k \in DOMAIN source
    PROVE  source[k] = [val |-> source[k].val, ik |-> source[k].ik]
  BY SourceType DEF TypeOK, Rows

\* A merge is a run of the abstract table.
LEMMA MergeIsRun ==
    ASSUME TypeOK, OneCurrentVersion, OneCurrentVersion', BeginsAtKey, Merge
    PROVE  Latest!Run
  <1> DEFINE kept == {k \in DOMAIN source :
                        \E v \in table : v.current /\ v.key = k /\ ~Supersedes(source[k], v)}
             result == [k \in DOMAIN source |-> IF k \in kept THEN CurrentRows[k] ELSE source[k]]
  <1>1. kept \in SUBSET (DOMAIN CurrentRows \cap DOMAIN source)
    BY RowOfCurrent
  <1>2. ASSUME NEW k \in kept
        PROVE  Latest!MayKeep(CurrentRows[k], source[k])
    <2>1. PICK v \in table : v.current /\ v.key = k /\ ~Supersedes(source[k], v)
      BY <1>2
    <2>2. CurrentRows[k].val = v.val /\ CurrentRows[k].ik = v.ik
      <3>1. CurrentRows[k] = [val |-> v.val, ik |-> v.ik]
        BY <2>1, RowOfCurrent
      <3>. QED
        BY <3>1
    <2>. QED
      BY <2>1, <2>2 DEF Latest!MayKeep, Supersedes, SqlDiffers, BeginsAtKey
  <1>3. ASSUME NEW k \in (DOMAIN CurrentRows \cap DOMAIN source) \ kept
        PROVE  Latest!MayReplace(CurrentRows[k], source[k])
    <2>1. PICK v \in table : v.current /\ v.key = k
      BY <1>3, KeysOfCurrent
    <2>2. CurrentRows[k].ik = v.ik
      <3>1. CurrentRows[k] = [val |-> v.val, ik |-> v.ik]
        BY <2>1, RowOfCurrent
      <3>. QED
        BY <3>1
    <2>3. Supersedes(source[k], v)
      BY <1>3, <2>1
    <2>. QED
      BY <2>1, <2>2, <2>3 DEF Latest!MayReplace, Supersedes, BeginsAtKey
  <1>4. DOMAIN CurrentRows' = DOMAIN source
    <2>1. UpToDate' /\ source' = source
      BY MergeMakesUpToDate DEF Merge, RunsOn
    <2>. QED
      BY <2>1 DEF UpToDate, CurrentRows, Current
  <1>5. ASSUME NEW k \in DOMAIN source
        PROVE  CurrentRows'[k] = result[k]
    <2>1. PICK v \in table' : v.current /\ v.key = k
      BY <1>4 DEF CurrentRows, Current
    <2>2. CurrentRows'[k] = [val |-> v.val, ik |-> v.ik]
      <3>1. v \in Current'
        BY <2>1 DEF Current
      <3>2. v = CHOOSE u \in Current' : u.key = k
        BY <2>1, <3>1 DEF Current, OneCurrentVersion
      <3>3. RowOf(k)' = [val |-> v.val, ik |-> v.ik]
        BY <3>2 DEF RowOf
      <3>. QED
        BY <2>1, <3>1, <3>3 DEF CurrentRows
    <2>3. CASE v \in table /\ ~Supersedes(source[k], v)
      <3>1. k \in kept
        BY <2>1, <2>3
      <3>2. CurrentRows[k] = [val |-> v.val, ik |-> v.ik]
        BY <2>1, <2>3, RowOfCurrent
      <3>. QED
        BY <2>2, <3>1, <3>2
    <2>4. CASE /\ v = NewVersion(k)
               /\ \A u \in table : u.current /\ u.key = k => Supersedes(source[u.key], u)
      <3>1. k \notin kept
        BY <2>4
      <3>2. v.val = source[k].val /\ v.ik = source[k].ik
        BY <2>4, NewVersionType
      <3>. QED
        BY <2>2, <3>1, <3>2, RowOfSource
    <2>. QED
      BY <2>1, <2>3, <2>4, CurrentAfterMerge
  <1>6. CurrentRows' = result
    <2>1. CurrentRows' = [k \in DOMAIN CurrentRows' |-> CurrentRows'[k]]
      BY DEF CurrentRows
    <2>. QED
      BY <1>4, <1>5, <2>1
  <1>. HIDE DEF kept
  <1>. QED
    BY <1>1, <1>2, <1>3, <1>6 DEF Latest!Run

\* A full refresh rebuilds the abstract table.
LEMMA FullRefreshIsRebuild ==
    ASSUME TypeOK, FullRefresh
    PROVE  Latest!Rebuild
  <1>1. \A v \in table' : v.current /\ v.key \in DOMAIN source /\ v = NewVersion(v.key)
    BY NewVersionType DEF FullRefresh
  <1>2. DOMAIN CurrentRows' = DOMAIN source
    BY <1>1, NewVersionType DEF FullRefresh, CurrentRows, Current
  <1>3. ASSUME NEW k \in DOMAIN source
        PROVE  CurrentRows'[k] = source[k]
    <2>1. NewVersion(k) \in Current' /\ NewVersion(k).key = k
      BY NewVersionType DEF FullRefresh, Current
    <2>2. NewVersion(k) = CHOOSE u \in Current' : u.key = k
      BY <1>1, <2>1 DEF Current
    <2>3. RowOf(k)' = [val |-> source[k].val, ik |-> source[k].ik]
      BY <2>2, NewVersionType DEF RowOf
    <2>. QED
      BY <2>1, <2>3, RowOfSource DEF CurrentRows
  <1>4. CurrentRows' = source
    <2>1. CurrentRows' = [k \in DOMAIN CurrentRows' |-> CurrentRows'[k]]
      BY DEF CurrentRows
    <2>2. source = [k \in DOMAIN source |-> source[k]]
      BY DEF TypeOK, Sources
    <2>. QED
      BY <1>2, <1>3, <2>1, <2>2
  <1>. QED
    BY <1>4 DEF Latest!Rebuild

\* Whatever the strategy, the current versions are the rows the source had at the
\* latest run, the newest ones by_time, but for changes from or to NULL.
THEOREM ImplementsLatest == Spec => ImplementsLatestRows
  <1>1. Init => Latest!Init
    <2> SUFFICES ASSUME Init PROVE CurrentRows \in [{} -> {}]
      BY DEF Latest!Init
    <2>1. {v.key : v \in Current} = {}
      BY DEF Init, Current
    <2>. QED
      BY <2>1 DEF CurrentRows
  <1>2. Init => BeginsAtKey
    BY DEF Init, BeginsAtKey
  <1>3. ASSUME TypeOK, OneCurrentVersion, OneCurrentVersion', BeginsAtKey, [Next]_vars
        PROVE  [Latest!Run \/ Latest!Rebuild]_CurrentRows
    <2>1. CASE Merge
      BY <1>3, <2>1, MergeIsRun
    <2>2. CASE FullRefresh
      BY <1>3, <2>2, FullRefreshIsRebuild
    <2>3. CASE SourceChanges \/ Tick \/ UNCHANGED vars
      BY <2>3 DEF SourceChanges, Tick, vars, CurrentRows, Current, RowOf
    <2>. QED
      BY <1>3, <2>1, <2>2, <2>3 DEF Next
  <1>. QED
    BY <1>1, <1>2, <1>3, BeginsAtKeyStep, TypeCorrect, OneVersionIsCurrent, PTL
    DEF Spec, ImplementsLatestRows, Latest!Spec
=============================================================================
