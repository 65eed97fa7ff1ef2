------------------------ MODULE MaterializationProofs ------------------------
(***************************************************************************)
(* Theorems about Materialization, for every finite set of keys, times and *)
(* values, any windows and any number of runs and changes: an unbounded    *)
(* anti join never duplicates a key, a run that succeeds leaves what one   *)
(* clean run would have, whatever went wrong before it, and the strategies *)
(* that change the table in one statement never leave it in between.       *)
(***************************************************************************)
EXTENDS Materialization, FiniteSetTheorems, TLAPS

(* Types *)

\* A run executes its asset's strategy, or a create+replace.
LEMMA PlansAreStrategies ==
    ASSUME strategy \in Strategies, NEW p \in {strategy, Render(TRUE)}
    PROVE  p \in Strategies /\ (p = strategy \/ p = "create_replace")
BY DEF Render, Strategies, Statements

LEMMA StatementCounts ==
    ASSUME NEW s \in Strategies
    PROVE  Len(Statements[s]) \in Nat /\ Len(Statements[s]) >= 1
BY DEF Strategies, Statements, AppendQuery, IncrementalQuery, TruncateInsertQuery,
       MergeQuery, CreateReplaceQuery, AntiJoinQuery, AntiJoinWindowQuery,
       TimeIntervalQuery, DDLQuery

LEMMA InsertedRows ==
    ASSUME NEW t \in [Row -> Nat], NEW rows
    PROVE  /\ Inserted(t, rows) \in [Row -> Nat]
           /\ \A q \in Row : Inserted(t, rows)[q] = t[q] + IF q \in rows THEN 1 ELSE 0
BY DEF Inserted

LEMMA DeletedRows ==
    ASSUME NEW t \in [Row -> Nat], NEW rows
    PROVE  /\ Deleted(t, rows) \in [Row -> Nat]
           /\ \A q \in Row : Deleted(t, rows)[q] = IF q \in rows THEN 0 ELSE t[q]
BY DEF Deleted

\* A table has finitely many rows.
LEMMA RowIsFinite == IsFiniteSet(Row)
<1> DEFINE Cells == ((Keys \cup {Null}) \X Times) \X Vals
           f     == [p \in Cells |-> [key |-> p[1][1], at |-> p[1][2], val |-> p[2]]]
<1>1. IsFiniteSet(Keys \cup {Null})
  BY MaterializationAssumption, FS_AddElement
<1>2. IsFiniteSet((Keys \cup {Null}) \X Times)
  BY <1>1, MaterializationAssumption, FS_Product
<1>3. IsFiniteSet(Cells)
  BY <1>2, MaterializationAssumption, FS_Product
<1>4. f \in Surjection(Cells, Row)
  <2>1. f \in [Cells -> Row]
    BY DEF Row
  <2>2. ASSUME NEW r \in Row PROVE \E p \in Cells : f[p] = r
    <3>1. <<<<r.key, r.at>>, r.val>> \in Cells
      BY DEF Row
    <3>2. f[<<<<r.key, r.at>>, r.val>>] = [key |-> r.key, at |-> r.at, val |-> r.val]
      BY <3>1
    <3>3. r = [key |-> r.key, at |-> r.at, val |-> r.val]
      BY DEF Row
    <3> QED
      BY <3>1, <3>2, <3>3
  <2> QED
    BY <2>1, <2>2 DEF Surjection
<1> QED
  BY <1>3, <1>4, FS_Surjection

\* The copies a table holds of some of its rows.
Copies(t, rows) == UNION {{r} \X (1..t[r]) : r \in rows}

LEMMA CopiesAreFinite ==
    ASSUME NEW t \in [Row -> Nat], NEW rows \in SUBSET Row
    PROVE  IsFiniteSet(Copies(t, rows))
<1> DEFINE Parts == {{r} \X (1..t[r]) : r \in rows}
           f     == [r \in rows |-> {r} \X (1..t[r])]
<1>1. IsFiniteSet(rows)
  BY RowIsFinite, FS_Subset
<1>2. f \in Surjection(rows, Parts)
  BY DEF Surjection
<1>3. IsFiniteSet(Parts)
  BY <1>1, <1>2, FS_Surjection
<1>4. ASSUME NEW r \in rows PROVE IsFiniteSet({r} \X (1..t[r]))
  <2>1. t[r] \in Int
    OBVIOUS
  <2>2. IsFiniteSet(1..t[r])
    BY <2>1, FS_Interval
  <2>3. IsFiniteSet({r})
    BY FS_Singleton
  <2> QED
    BY <2>2, <2>3, FS_Product
<1>5. \A T \in Parts : IsFiniteSet(T)
  BY <1>4
<1> HIDE DEF Parts
<1>6. IsFiniteSet(UNION Parts)
  BY <1>3, <1>5, FS_UNION
<1> QED
  BY <1>6 DEF Copies, Parts

\* They are counted by a number, which is 0 just when there is none.
LEMMA CountIsNat ==
    ASSUME NEW t \in [Row -> Nat], NEW rows \in SUBSET Row
    PROVE  /\ Count(t, rows) \in Nat
           /\ Count(t, rows) = 0 <=> \A r \in rows : t[r] = 0
<1>1. IsFiniteSet(Copies(t, rows)) /\ Count(t, rows) = Cardinality(Copies(t, rows))
  BY CopiesAreFinite DEF Count, Copies
<1>2. Count(t, rows) \in Nat
  BY <1>1, FS_CardinalityType
<1>3. Count(t, rows) = 0 <=> Copies(t, rows) = {}
  BY <1>1, FS_EmptySet
<1>4. ASSUME NEW r \in rows, t[r] # 0 PROVE <<r, 1>> \in Copies(t, rows)
  <2>1. t[r] \in Nat /\ 1 \in 1..t[r]
    BY <1>4
  <2>2. <<r, 1>> \in {r} \X (1..t[r])
    BY <2>1
  <2> QED
    BY <2>2 DEF Copies
<1>5. ASSUME \A r \in rows : t[r] = 0 PROVE Copies(t, rows) = {}
  <2>1. \A r \in rows : {r} \X (1..t[r]) = {}
    BY <1>5
  <2> QED
    BY <2>1 DEF Copies
<1> QED
  BY <1>2, <1>3, <1>4, <1>5

\* The copies of a single row are as many as the table says.
LEMMA CountOfOne ==
    ASSUME NEW t \in [Row -> Nat], NEW rows \in SUBSET Row, NEW q \in rows,
           \A r \in rows : r # q => t[r] = 0
    PROVE  Count(t, rows) = t[q]
<1>1. Copies(t, rows) = {q} \X (1..t[q])
  <2>1. \A r \in rows : r # q => {r} \X (1..t[r]) = {}
    OBVIOUS
  <2>2. \A c : c \in Copies(t, rows) <=> \E r \in rows : c \in {r} \X (1..t[r])
    BY DEF Copies
  <2>3. \A c : c \in Copies(t, rows) <=> c \in {q} \X (1..t[q])
    BY <2>1, <2>2
  <2> QED
    BY <2>3
<1>2. t[q] \in Nat
  OBVIOUS
<1>3. IsFiniteSet(1..t[q]) /\ Cardinality(1..t[q]) = t[q]
  BY <1>2, FS_Interval
<1>4. IsFiniteSet({q}) /\ Cardinality({q}) = 1
  BY FS_Singleton
<1>5. Cardinality({q} \X (1..t[q])) = Cardinality({q}) * Cardinality(1..t[q])
  BY <1>3, <1>4, FS_Product
<1>6. Count(t, rows) = Cardinality({q} \X (1..t[q]))
  BY <1>1 DEF Count, Copies
<1>7. Count(t, rows) = 1 * t[q]
  BY <1>3, <1>4, <1>5, <1>6
<1> QED
  BY <1>2, <1>7

LEMMA MergedRows ==
    ASSUME NEW t \in [Row -> Nat], NEW src
    PROVE  /\ Merged(t, src) \in [Row -> Nat]
           /\ \A q \in Row : Merged(t, src)[q] =
                  Count(t, {r \in Row : AfterMerge(r, src) = q})
                      + IF q \in src /\ ~\E r \in Rows(t) : SqlEquals(r.key, q.key)
                          THEN 1 ELSE 0
<1> DEFINE updated == [q \in Row |-> Count(t, {r \in Row : AfterMerge(r, src) = q})]
           new     == {s \in src : ~\E r \in Rows(t) : SqlEquals(r.key, s.key)}
<1>1. \A q \in Row : Count(t, {r \in Row : AfterMerge(r, src) = q}) \in Nat
  <2> TAKE q \in Row
  <2> DEFINE from == {r \in Row : AfterMerge(r, src) = q}
  <2>1. from \in SUBSET Row
    OBVIOUS
  <2> HIDE DEF from
  <2>2. Count(t, from) \in Nat
    BY <2>1, CountIsNat
  <2> QED
    BY <2>2 DEF from
<1>2. updated \in [Row -> Nat]
  BY <1>1
<1>3. Merged(t, src) = Inserted(updated, new)
  BY DEF Merged
<1>4. \A q \in Row : updated[q] = Count(t, {r \in Row : AfterMerge(r, src) = q})
  OBVIOUS
<1>5. \A q : q \in new <=> q \in src /\ ~\E r \in Rows(t) : SqlEquals(r.key, q.key)
  OBVIOUS
<1> HIDE DEF updated, new
<1>6. /\ Inserted(updated, new) \in [Row -> Nat]
      /\ \A q \in Row : Inserted(updated, new)[q] = updated[q] + IF q \in new THEN 1 ELSE 0
  BY <1>2, InsertedRows
<1> QED
  BY <1>3, <1>4, <1>5, <1>6

\* A statement makes a table of a table.
LEMMA EffectTypes ==
    ASSUME NEW t \in [Row -> Nat], NEW s
    PROVE  Effect(s, t) \in [Row -> Nat]
<1>1. \A rows : /\ Inserted(t, rows) \in [Row -> Nat]
                /\ Deleted(t, rows) \in [Row -> Nat]
                /\ Inserted(Deleted(t, Row), rows) \in [Row -> Nat]
  BY InsertedRows, DeletedRows
<1>2. \A src : Merged(t, src) \in [Row -> Nat]
  BY MergedRows
<1> QED
  BY <1>1, <1>2 DEF Effect

LEMMA ExecuteTypes ==
    ASSUME TypeOK, NEW s, Execute(s)
    PROVE  target' \in [Row -> Nat] /\ exists' \in BOOLEAN
BY EffectTypes DEF Execute, TypeOK

\* A run's statement is one of its plan's, for its window.
LEMMA StatementIs ==
    ASSUME TypeOK, phase = "running"
    PROVE  /\ step \in DOMAIN Statements[plan]
           /\ Statement.name = Statements[plan][step] /\ Statement.window = window
           /\ Statement \in [name : StatementNames, window : RunWindows]
<1>1. plan \in Strategies /\ plan \in {strategy, Render(TRUE)} /\ window \in RunWindows
  BY PlansAreStrategies DEF TypeOK
<1>2. step \in DOMAIN Statements[plan]
  <2>1. DOMAIN Statements[plan] = 1..Len(Statements[plan])
    BY <1>1 DEF Strategies, Statements, AppendQuery, IncrementalQuery, TruncateInsertQuery,
       MergeQuery, CreateReplaceQuery, AntiJoinQuery, AntiJoinWindowQuery,
       TimeIntervalQuery, DDLQuery
  <2>2. Len(Statements[plan]) \in Nat
    BY <1>1, StatementCounts
  <2> QED
    BY <2>1, <2>2 DEF TypeOK
<1>3. Statements[plan][step] \in StatementNames
  BY <1>1, <1>2 DEF StatementNames
<1> QED
  BY <1>1, <1>2, <1>3 DEF Statement

LEMMA LateTypes ==
    ASSUME TypeOK, NEW s \in [name : StatementNames, window : RunWindows], MayComeLate(s)
    PROVE  /\ late' \subseteq [name : StatementNames, window : RunWindows]
           /\ delays' \in 0..MaxDelays
<1>1. MaxDelays \in Nat
  BY MaterializationAssumption
<1> QED
  BY <1>1 DEF MayComeLate, TypeOK

LEMMA NextTypeOK == TypeOK /\ [Next]_vars => TypeOK'
<1> SUFFICES ASSUME TypeOK, [Next]_vars PROVE TypeOK'
  OBVIOUS
<1> MaxAttempts \in Nat /\ MaxChanges \in Nat /\ MaxDelays \in Nat
  BY MaterializationAssumption
<1> DEFINE Late == [name : StatementNames, window : RunWindows]
<1>0. ASSUME strategy' = strategy PROVE Late' = Late /\ RunWindows' = RunWindows
  BY <1>0 DEF StatementNames, RunWindows, Render
<1> HIDE DEF Late
<1>a. late \subseteq Late
  BY DEF TypeOK, Late
<1>1. ASSUME NEW w \in RunWindows, NEW f \in BOOLEAN, StartRun(w, f) PROVE TypeOK'
  <2>1. /\ strategy' = strategy /\ plan' \in {strategy, Render(TRUE)}
        /\ Render(TRUE)' = Render(TRUE)
    BY <1>1 DEF StartRun, Render
  <2>2. 1 <= Len(Statements[plan'])
    BY <2>1, PlansAreStrategies, StatementCounts DEF TypeOK
  <2>3. attempts' \in 0..MaxAttempts
    BY <1>1 DEF StartRun, TypeOK
  <2>4. /\ view' \in BOOLEAN /\ stale' \in BOOLEAN /\ exists' \in BOOLEAN
        /\ strayed' \in BOOLEAN
    BY <1>1 DEF StartRun, tableVars, TypeOK
  <2>5. base' \in [Row -> Nat] /\ target' \in [Row -> Nat]
    BY <1>1 DEF StartRun, tableVars, TypeOK
  <2>6. /\ source' \in Sources /\ window' \in RunWindows'
        /\ phase' = "running" /\ step' = 1 /\ changes' \in 0..MaxChanges
        /\ delays' \in 0..MaxDelays
    BY <1>1 DEF StartRun, TypeOK, RunWindows
  <2>7. plan' \in {strategy', Render(TRUE)'} /\ strategy' \in Strategies
    BY <2>1 DEF TypeOK
  <2>8. /\ step' \in Nat \ {0} /\ phase' \in {"idle", "running", "ok", "failed"}
        /\ phase' = "running" => step' <= Len(Statements[plan'])
    BY <2>2, <2>6
  <2>9. late' \subseteq Late'
    BY <1>0, <1>a, <1>1, <2>1 DEF StartRun
  <2> QED
    BY <2>3, <2>4, <2>5, <2>6, <2>7, <2>8, <2>9 DEF TypeOK, Late
<1>2. CASE StatementSucceeds
  <2>1. phase = "running" /\ Execute(Statement) /\ (MayComeLate(Statement) \/ UNCHANGED <<late, delays>>)
    BY <1>2 DEF StatementSucceeds
  <2>2. target' \in [Row -> Nat] /\ exists' \in BOOLEAN
    BY <2>1, ExecuteTypes
  <2>3. Len(Statements[plan]) \in Nat
    BY PlansAreStrategies, StatementCounts DEF TypeOK
  <2>4. /\ step' \in Nat \ {0} /\ phase' \in {"ok", "running"}
        /\ phase' = "running" => step' <= Len(Statements[plan])
    BY <1>2, <2>3 DEF StatementSucceeds, TypeOK
  <2>5. UNCHANGED <<strategy, plan, source, window, base, stale, strayed, attempts, changes>>
        /\ view' \in BOOLEAN
    BY <1>2 DEF StatementSucceeds, TypeOK
  <2>6. late' \subseteq Late /\ delays' \in 0..MaxDelays
    <3>1. CASE MayComeLate(Statement)
      <4>1. Statement \in [name : StatementNames, window : RunWindows]
        BY <2>1, StatementIs
      <4> QED
        BY <3>1, <4>1, LateTypes DEF Late
    <3>2. CASE UNCHANGED <<late, delays>>
      BY <1>a, <3>2 DEF TypeOK
    <3> QED
      BY <2>1, <3>1, <3>2
  <2>7. late' \subseteq Late' /\ RunWindows' = RunWindows /\ Render(TRUE)' = Render(TRUE)
    BY <1>0, <2>5, <2>6 DEF Render
  <2> QED
    BY <2>2, <2>4, <2>5, <2>6, <2>7 DEF TypeOK, Late
<1>3. CASE StatementAbandoned
  <2>1. phase = "running" /\ MayComeLate(Statement) /\ phase' = "failed"
        /\ UNCHANGED <<strategy, plan, tableVars, source, view, step, window, base, stale,
                       strayed, attempts, changes>>
    BY <1>3 DEF StatementAbandoned
  <2>2. late' \subseteq Late /\ delays' \in 0..MaxDelays
    <3>1. Statement \in [name : StatementNames, window : RunWindows] /\ MayComeLate(Statement)
      BY <2>1, StatementIs
    <3> HIDE DEF Statement
    <3> QED
      BY <3>1, LateTypes DEF Late
  <2>3. late' \subseteq Late' /\ RunWindows' = RunWindows /\ Render(TRUE)' = Render(TRUE)
    BY <1>0, <2>1, <2>2 DEF Render
  <2> QED
    BY <2>1, <2>2, <2>3 DEF TypeOK, Late, tableVars
<1>4. ASSUME NEW s \in late, LateExecuted(s) PROVE TypeOK'
  <2>1. target' \in [Row -> Nat] /\ exists' \in BOOLEAN
    BY <1>4, ExecuteTypes DEF LateExecuted
  <2>2. late' \subseteq Late /\ delays' \in 0..MaxDelays
    <3>1. CASE MayComeLate(s)
      BY <1>a, <3>1, LateTypes DEF Late
    <3>2. CASE late' = late \ {s} /\ UNCHANGED delays
      BY <1>a, <3>2 DEF TypeOK
    <3> QED
      BY <1>4, <3>1, <3>2 DEF LateExecuted
  <2>3. UNCHANGED <<strategy, source, view, phase, step, plan, window, base, attempts, changes>>
    BY <1>4 DEF LateExecuted, runVars
  <2>4. stale' \in BOOLEAN /\ strayed' \in BOOLEAN
    BY <1>4 DEF LateExecuted, TypeOK
  <2>5. late' \subseteq Late' /\ RunWindows' = RunWindows /\ Render(TRUE)' = Render(TRUE)
    BY <1>0, <2>2, <2>3 DEF Render
  <2> QED
    BY <2>1, <2>2, <2>3, <2>4, <2>5 DEF TypeOK, Late
<1>5. CASE StatementFails
  BY <1>0, <1>a, <1>5 DEF StatementFails, tableVars, TypeOK, Render, Late
<1>6. ASSUME NEW s \in late, LateLost(s) PROVE TypeOK'
  BY <1>0, <1>a, <1>6 DEF LateLost, runVars, tableVars, TypeOK, Render, Late
<1>7. CASE SessionLost
  BY <1>0, <1>a, <1>7 DEF SessionLost, runVars, tableVars, TypeOK, Render, Late
<1>8. CASE SourceChanges
  <2>1. /\ UNCHANGED <<strategy, plan, exists, target, view, late, phase, step, window, base,
                       strayed, attempts, delays>>
        /\ source' \in Sources /\ stale' = TRUE
    BY <1>8 DEF SourceChanges, runVars, tableVars
  <2>2. changes' \in 0..MaxChanges
    BY <1>8 DEF SourceChanges, TypeOK
  <2>3. late' \subseteq Late' /\ RunWindows' = RunWindows /\ Render(TRUE)' = Render(TRUE)
    BY <1>0, <1>a, <2>1 DEF Render
  <2> QED
    BY <2>1, <2>2, <2>3 DEF TypeOK, Late
<1>9. CASE UNCHANGED vars
  BY <1>0, <1>a, <1>9 DEF vars, runVars, tableVars, TypeOK, Render, Late
<1> QED
  BY <1>1, <1>2, <1>3, <1>4, <1>5, <1>6, <1>7, <1>8, <1>9 DEF Next, Done

LEMMA TypeCorrectAtInit == Init => TypeOK
<1> SUFFICES ASSUME Init PROVE TypeOK
  OBVIOUS
<1>1. PICK s \in Sources : target = Inserted([r \in Row |-> 0], s)
  BY DEF Init
<1>2. target \in [Row -> Nat]
  <2>1. [r \in Row |-> 0] \in [Row -> Nat]
    OBVIOUS
  <2> QED
    BY <1>1, <2>1, InsertedRows
<1>3. 0 \in 0..MaxAttempts /\ 0 \in 0..MaxChanges /\ 0 \in 0..MaxDelays
  BY MaterializationAssumption
<1>4. 1 \in Nat \ {0} /\ phase # "running" /\ late = {}
  BY DEF Init
<1> QED
  BY <1>2, <1>3, <1>4 DEF Init, TypeOK

\* Every variable stays in its range.
THEOREM TypeCorrect == Spec => []TypeOK
BY TypeCorrectAtInit, NextTypeOK, PTL DEF Spec

-----------------------------------------------------------------------------
(* A run that succeeded found or made a table. *)

ViewFirst == {"delete_insert", "anti_join", "anti_join_window"}

TableInv ==
    /\ TypeOK
    /\ phase = "ok" => exists
    /\ phase = "running" /\ ~exists =>
           step = 1 \/ (step = 2 /\ plan \in ViewFirst)

\* Only a view can be created without a table.
LEMMA ExecuteFindsTable ==
    ASSUME TypeOK, phase = "running", Execute(Statement)
    PROVE  exists' \/ (step = 1 /\ plan \in ViewFirst) \/ (step > 2 /\ plan \in ViewFirst)
<1>1. plan \in Strategies /\ Statement.name = Statements[plan][step]
  BY PlansAreStrategies, StatementIs DEF TypeOK
<1> HIDE DEF Statement
<1>2. CASE plan \in {"delete_insert", "anti_join", "anti_join_window"}
  <2>1. step = 2 => Statement.name \in {"deleteByKey", "antiJoin", "antiJoinWindow"}
    BY <1>1, <1>2 DEF Statements, IncrementalQuery, AntiJoinQuery, AntiJoinWindowQuery
  <2>2. step = 2 => exists'
    BY <2>1 DEF Execute, OfView, Creates
  <2>3. step \in Nat \ {0}
    BY DEF TypeOK
  <2> QED
    BY <1>2, <2>2, <2>3 DEF ViewFirst
<1>3. CASE plan \notin ViewFirst
  <2>1. step \in 1..Len(Statements[plan])
    BY DEF TypeOK
  <2>2. plan \in {"append", "merge", "create_replace", "ddl", "truncate_insert", "time_interval"}
    BY <1>1, <1>3 DEF ViewFirst, Strategies, Statements
  <2>3. Statement.name \notin {"createView", "dropView"}
    <3>1. CASE plan \in {"append", "merge", "create_replace", "ddl"}
      BY <1>1, <2>1, <3>1 DEF Statements, AppendQuery, MergeQuery, CreateReplaceQuery, DDLQuery
    <3>2. CASE plan \in {"truncate_insert", "time_interval"}
      BY <1>1, <2>1, <3>2 DEF Statements, TruncateInsertQuery, TimeIntervalQuery
    <3> QED
      BY <2>2, <3>1, <3>2
  <2> QED
    BY <2>3 DEF Execute, OfView
<1> QED
  BY <1>2, <1>3 DEF ViewFirst

LEMMA NextTableInv == TableInv /\ [Next]_vars => TableInv'
<1> SUFFICES ASSUME TableInv, [Next]_vars PROVE TableInv'
  OBVIOUS
<1>0. TypeOK /\ TypeOK'
  BY NextTypeOK DEF TableInv
<1>1. ASSUME NEW w \in RunWindows, NEW f \in BOOLEAN, StartRun(w, f) PROVE TableInv'
  BY <1>0, <1>1 DEF StartRun, TableInv
<1>2. CASE StatementSucceeds
  <2>1. phase = "running" /\ Execute(Statement)
    BY <1>2 DEF StatementSucceeds
  <2>2. exists => exists'
    BY <2>1 DEF Execute
  <2>3. exists' \/ (step = 1 /\ plan \in ViewFirst)
    <3>1. step \in Nat
      BY <1>0 DEF TypeOK
    <3>2. \/ exists'
          \/ step = 1 /\ plan \in ViewFirst
          \/ step > 2 /\ plan \in ViewFirst
      BY <1>0, <2>1, ExecuteFindsTable
    <3>3. exists \/ step = 1 \/ step = 2
      BY <2>1 DEF TableInv
    <3> QED
      BY <2>2, <3>1, <3>2, <3>3
  <2>4. plan \in ViewFirst => Len(Statements[plan]) > 1
    BY DEF ViewFirst, Statements, IncrementalQuery, AntiJoinQuery, AntiJoinWindowQuery
  <2> QED
    BY <1>0, <1>2, <2>3, <2>4 DEF StatementSucceeds, TableInv
<1>3. ASSUME NEW s \in late, LateExecuted(s) PROVE TableInv'
  <2>1. (exists => exists') /\ UNCHANGED <<phase, step, plan>>
    BY <1>3 DEF LateExecuted, Execute, runVars
  <2> QED
    BY <1>0, <2>1 DEF TableInv
<1>4. CASE UNCHANGED <<exists, step, plan>> /\ phase' \in {phase, "failed"}
  BY <1>0, <1>4 DEF TableInv
<1> QED
  BY <1>1, <1>2, <1>3, <1>4 DEF Next, StatementFails, StatementAbandoned, LateLost, SessionLost,
     SourceChanges, Done, runVars, tableVars, vars

LEMMA SpecTableInv == Spec => []TableInv
<1>1. Init => TableInv
  BY TypeCorrectAtInit DEF Init, TableInv
<1> QED
  BY <1>1, NextTableInv, PTL DEF Spec

-----------------------------------------------------------------------------
(* Keys of an unbounded anti join *)

\* A table with at most one row per key, NULL being a key.
KeyUnique(t) ==
    /\ t \in [Row -> {0, 1}]
    /\ \A q, r \in Row : t[q] = 1 /\ t[r] = 1 /\ q.key = r.key => q = r

AntiJoinStatements == {"createView", "antiJoin", "dropView", "replace"}

AntiJoinInv ==
    /\ TypeOK
    /\ strategy = "anti_join" => KeyUnique(target)

\* The rows of the query without a match get their key into the table once.
LEMMA AntiJoinKeepsKeyUnique ==
    ASSUME NEW t, KeyUnique(t), NEW src \in Sources
    PROVE  KeyUnique(Inserted(t, AntiJoin(src, Rows(t))))
<1> DEFINE new == AntiJoin(src, Rows(t))
           u   == Inserted(t, new)
<1>1. /\ new \subseteq Row
      /\ \A s \in new, r \in Row : t[r] = 1 => s.key # r.key
      /\ \A s, r \in new : s.key = r.key => s = r
  BY DEF AntiJoin, Rows, NullSafeEquals, KeyUnique, Sources
<1>2. \A r \in Row : u[r] = t[r] + IF r \in new THEN 1 ELSE 0
  BY DEF Inserted
<1>3. \A r \in Row : r \in new => t[r] = 0
  BY <1>1 DEF KeyUnique
<1>4. u \in [Row -> {0, 1}]
  <2>1. \A r \in Row : (t[r] + IF r \in new THEN 1 ELSE 0) \in {0, 1}
    BY <1>3 DEF KeyUnique
  <2> QED
    BY <2>1 DEF Inserted
<1>5. \A r \in Row : u[r] = 1 => r \in new \/ t[r] = 1
  BY <1>2 DEF KeyUnique
<1>6. \A q, r \in Row : u[q] = 1 /\ u[r] = 1 /\ q.key = r.key => q = r
  BY <1>1, <1>5 DEF KeyUnique
<1> QED
  BY <1>4, <1>6 DEF KeyUnique

\* So does every statement of the strategy.
LEMMA EffectKeepsKeyUnique ==
    ASSUME NEW t, KeyUnique(t), TypeOK, strategy = "anti_join",
           NEW s, s.name \in AntiJoinStatements
    PROVE  KeyUnique(Effect(s, t))
<1>0. Query(s.window) = source /\ source \in Sources
  BY DEF Query, Windowed, TypeOK
<1>1. CASE s.name = "antiJoin"
  <2>1. Effect(s, t) = Inserted(t, AntiJoin(source, Rows(t)))
    BY <1>0, <1>1 DEF Effect
  <2> QED
    BY <1>0, <2>1, AntiJoinKeepsKeyUnique
<1>2. CASE s.name \in {"createView", "dropView"}
  <2>1. Effect(s, t) = t
    BY <1>2 DEF Effect
  <2> QED
    BY <2>1
<1>3. CASE s.name = "replace"
  <2>1. Effect(s, t) = Inserted(Deleted(t, Row), source)
    BY <1>0, <1>3 DEF Effect
  <2>2. Inserted(Deleted(t, Row), source) = [r \in Row |-> IF r \in source THEN 1 ELSE 0]
    BY DEF Inserted, Deleted
  <2> QED
    BY <1>0, <2>1, <2>2 DEF KeyUnique, Sources
<1> QED
  BY <1>1, <1>2, <1>3 DEF AntiJoinStatements

\* Its statements, those of a full refresh included.
LEMMA NamesOfAntiJoin ==
    ASSUME strategy = "anti_join"
    PROVE  StatementNames = AntiJoinStatements
<1>1. Render(TRUE) = "create_replace"
  BY DEF Render
<1>2. /\ {Statements["anti_join"][i] : i \in DOMAIN Statements["anti_join"]}
             = {"createView", "antiJoin", "dropView"}
      /\ {Statements["create_replace"][i] : i \in DOMAIN Statements["create_replace"]}
             = {"replace"}
  BY DEF Statements, AntiJoinQuery, CreateReplaceQuery
<1>3. StatementNames =
          UNION {{Statements[p][i] : i \in DOMAIN Statements[p]} :
                     p \in {"anti_join", "create_replace"}}
  BY <1>1 DEF StatementNames
<1>4. StatementNames =
          {Statements["anti_join"][i] : i \in DOMAIN Statements["anti_join"]}
              \cup {Statements["create_replace"][i] : i \in DOMAIN Statements["create_replace"]}
  BY <1>3
<1> QED
  BY <1>2, <1>4 DEF AntiJoinStatements

LEMMA ExecuteKeepsKeyUnique ==
    ASSUME AntiJoinInv, strategy = "anti_join",
           NEW s \in [name : StatementNames, window : RunWindows], Execute(s)
    PROVE  KeyUnique(target')
<1>1. s.name \in AntiJoinStatements
  BY NamesOfAntiJoin
<1>2. KeyUnique(Effect(s, target))
  BY <1>1, EffectKeepsKeyUnique DEF AntiJoinInv
<1> QED
  BY <1>2 DEF Execute

LEMMA InitAntiJoinInv == Init => AntiJoinInv
<1> SUFFICES ASSUME Init PROVE AntiJoinInv
  OBVIOUS
<1>1. PICK s \in Sources : target = Inserted([r \in Row |-> 0], s)
  BY DEF Init
<1>2. target = [r \in Row |-> IF r \in s THEN 1 ELSE 0]
  BY <1>1 DEF Inserted
<1>3. KeyUnique(target)
  BY <1>2 DEF KeyUnique, Sources
<1> QED
  BY <1>3, TypeCorrectAtInit DEF AntiJoinInv

LEMMA NextAntiJoinInv == AntiJoinInv /\ [Next]_vars => AntiJoinInv'
<1> SUFFICES ASSUME AntiJoinInv, [Next]_vars PROVE AntiJoinInv'
  OBVIOUS
<1>0. TypeOK /\ TypeOK'
  BY NextTypeOK DEF AntiJoinInv
<1>1. CASE StatementSucceeds
  <2>1. /\ Execute(Statement) /\ strategy' = strategy
        /\ Statement \in [name : StatementNames, window : RunWindows]
    BY <1>0, <1>1, StatementIs DEF StatementSucceeds
  <2>2. strategy = "anti_join" => KeyUnique(target')
    BY <2>1, ExecuteKeepsKeyUnique
  <2> QED
    BY <1>0, <2>1, <2>2 DEF AntiJoinInv, KeyUnique
<1>2. ASSUME NEW s \in late, LateExecuted(s) PROVE AntiJoinInv'
  <2>1. /\ Execute(s) /\ strategy' = strategy
        /\ s \in [name : StatementNames, window : RunWindows]
    BY <1>0, <1>2 DEF LateExecuted, TypeOK
  <2>2. strategy = "anti_join" => KeyUnique(target')
    BY <2>1, ExecuteKeepsKeyUnique
  <2> QED
    BY <1>0, <2>1, <2>2 DEF AntiJoinInv, KeyUnique
<1>3. CASE UNCHANGED <<strategy, target>>
  BY <1>0, <1>3 DEF AntiJoinInv, KeyUnique
<1> QED
  BY <1>1, <1>2, <1>3 DEF Next, StartRun, StatementFails, StatementAbandoned, LateLost,
     SessionLost, SourceChanges, Done, runVars, tableVars, vars

\* An unbounded anti join never puts a key into the table twice, whatever of it, or
\* of a full refresh in between, is executed late or again.
THEOREM AntiJoinNeverDuplicates == Spec => []AntiJoinDedupes
<1>1. AntiJoinInv => AntiJoinDedupes
  BY DEF AntiJoinInv, AntiJoinDedupes, KeyUnique, Rows
<1> QED
  BY <1>1, InitAntiJoinInv, NextAntiJoinInv, PTL DEF Spec

-----------------------------------------------------------------------------
(* Reruns of the strategies that replace a region of the table *)

Replacing == {"truncate_insert", "time_interval", "delete_insert"}

\* A run that is no create+replace executes its asset's strategy.
LEMMA OwnPlan ==
    ASSUME TypeOK
    PROVE  plan # "create_replace" => plan = strategy
BY PlansAreStrategies DEF TypeOK

Region ==
    IF plan = "time_interval" THEN InWindow(window)
    ELSE IF plan = "delete_insert" THEN KeyIn(Query(window)) ELSE Row

\* The region was emptied by this run and not refilled yet; or it was refilled.
Emptied ==
    phase = "running" /\ \/ plan \in {"truncate_insert", "time_interval"} /\ step = 2
                         \/ plan = "delete_insert" /\ step = 3
Refilled == phase = "ok" \/ (phase = "running" /\ plan = "delete_insert" /\ step = 4)

New(q) == IF q \in Query(window) THEN 1 ELSE 0

\* Outside the region the table is as it was before all runs for this source and
\* window, failed ones and what is executed late of them included; inside, this run
\* decides once it has emptied it, if no late statement comes between.
Replaced ==
    /\ \A q \in Row \ Region : target[q] = base[q]
    /\ Emptied /\ ~strayed => \A q \in Region : target[q] = 0
    /\ Refilled /\ ~strayed => \A q \in Region : target[q] = New(q)

Applies == plan \in Replacing /\ ~stale /\ KeysComparable

ReplaceInv ==
    /\ TypeOK
    /\ phase = "ok" => step = Len(Statements[plan]) + 1
    /\ Applies => Replaced

LEMMA QueryInRegion ==
    ASSUME TypeOK
    PROVE  /\ Query(window) \subseteq Row /\ Region \subseteq Row
           /\ Applies => Query(window) \subseteq Region
<1>1. Query(window) \subseteq Row /\ Query(window) \subseteq source
  BY DEF Query, TypeOK, Sources
<1>2. CASE plan = "time_interval"
  BY <1>1, <1>2, OwnPlan DEF Windowed, Region, Query, InWindow
<1>3. CASE plan = "delete_insert"
  BY <1>1, <1>3 DEF Applies, KeysComparable, KeyedBySql, Region, KeyIn, SqlEquals
<1>4. CASE plan \notin {"time_interval", "delete_insert"}
  BY <1>1, <1>4 DEF Region
<1> QED
  BY <1>2, <1>3, <1>4

Deletes == {"deleteAll", "deleteWindow", "deleteByKey"}
Inserts == {"insert", "insertView"}
Plain == {"createView", "dropView", "createIfMissing"}

\* The statements of these strategies.
LEMMA StatementsOf ==
    ASSUME plan \in Replacing, NEW i \in DOMAIN Statements[plan]
    PROVE  \/ plan = "truncate_insert" /\ i = 1 /\ Statements[plan][i] = "deleteAll"
           \/ plan = "truncate_insert" /\ i = 2 /\ Statements[plan][i] = "insert"
           \/ plan = "time_interval" /\ i = 1 /\ Statements[plan][i] = "deleteWindow"
           \/ plan = "time_interval" /\ i = 2 /\ Statements[plan][i] = "insert"
           \/ plan = "delete_insert" /\ i = 1 /\ Statements[plan][i] = "createView"
           \/ plan = "delete_insert" /\ i = 2 /\ Statements[plan][i] = "deleteByKey"
           \/ plan = "delete_insert" /\ i = 3 /\ Statements[plan][i] = "insertView"
           \/ plan = "delete_insert" /\ i = 4 /\ Statements[plan][i] = "dropView"
<1>1. CASE plan = "truncate_insert"
  BY <1>1 DEF Statements, TruncateInsertQuery
<1>2. CASE plan = "time_interval"
  BY <1>2 DEF Statements, TimeIntervalQuery
<1>3. CASE plan = "delete_insert"
  BY <1>3 DEF Statements, IncrementalQuery
<1> QED
  BY <1>1, <1>2, <1>3 DEF Replacing

LEMMA CountsOf ==
    /\ Len(Statements["delete_insert"]) = 4
    /\ Len(Statements["truncate_insert"]) = 2
    /\ Len(Statements["time_interval"]) = 2
BY DEF Statements, TimeIntervalQuery, TruncateInsertQuery, IncrementalQuery

\* A statement for this window and plan leaves alone what is outside the region, and
\* inside it deletes, or inserts into what was emptied; it does so whether its run
\* executes it or it comes late.
LEMMA EffectsOf ==
    ASSUME TypeOK, Applies, NEW i \in DOMAIN Statements[plan],
           NEW s, s.name = Statements[plan][i], s.window = window
    PROVE  LET t == Effect(s, target)
           IN  /\ \A q \in Row \ Region : t[q] = target[q]
               /\ s.name \in Deletes => \A q \in Region : t[q] = 0
               /\ s.name \in Inserts => \A q \in Region : t[q] = target[q] + New(q)
               /\ s.name \in Plain => t = target
<1> DEFINE t == Effect(s, target)
           src == Query(window)
<1>1. /\ target \in [Row -> Nat] /\ Region \subseteq Row /\ src \subseteq Region
      /\ plan \in Replacing
  BY QueryInRegion DEF TypeOK, Applies
<1>2. CASE s.name \in Deletes
  <2>1. \/ s.name = "deleteAll" /\ Region = Row
        \/ s.name = "deleteWindow" /\ Region = InWindow(window)
        \/ s.name = "deleteByKey" /\ Region = KeyIn(src)
    BY <1>1, <1>2, StatementsOf DEF Deletes, Region
  <2>2. t = Deleted(target, Region)
    BY <2>1 DEF Effect
  <2> HIDE DEF t
  <2> QED
    BY <1>1, <1>2, <2>2, DeletedRows DEF Deletes, Inserts, Plain, t
<1>3. CASE s.name \in Inserts
  <2>1. t = Inserted(target, src)
    BY <1>3 DEF Effect, Inserts
  <2> HIDE DEF t
  <2>2. \A q \in Row : t[q] = target[q] + New(q)
    BY <1>1, <2>1, InsertedRows DEF New
  <2>3. \A q \in Row \ Region : New(q) = 0
    BY <1>1 DEF New
  <2> QED
    BY <1>1, <1>3, <2>2, <2>3 DEF Deletes, Inserts, Plain, t
<1>4. CASE s.name \in Plain
  <2>1. t = target
    BY <1>4 DEF Effect, Plain
  <2> QED
    BY <1>4, <2>1 DEF Deletes, Inserts, Plain
<1> QED
  BY <1>1, <1>2, <1>3, <1>4, StatementsOf DEF Deletes, Inserts, Plain

\* What a run has emptied, and may have refilled, it has deleted from.
LEMMA EmptiedIsCleared ==
    ASSUME ReplaceInv, plan \in Replacing, Emptied \/ Refilled
    PROVE  Cleared
<1>1. step \in Nat
  BY DEF ReplaceInv, TypeOK
<1>2. CASE plan \in {"truncate_insert", "time_interval"}
  <2>1. 1 \in 1..(step - 1)
    BY <1>1, <1>2, CountsOf DEF Emptied, Refilled, ReplaceInv
  <2>2. Statements[plan][1] \in {"deleteAll", "deleteByKey", "deleteWindow"}
    BY <1>2 DEF Statements, TruncateInsertQuery, TimeIntervalQuery
  <2> QED
    BY <2>1, <2>2 DEF Cleared
<1>3. CASE plan = "delete_insert"
  <2>1. 2 \in 1..(step - 1)
    BY <1>1, <1>3, CountsOf DEF Emptied, Refilled, ReplaceInv
  <2>2. Statements[plan][2] \in {"deleteAll", "deleteByKey", "deleteWindow"}
    BY <1>3 DEF Statements, IncrementalQuery
  <2> QED
    BY <2>1, <2>2 DEF Cleared
<1> QED
  BY <1>2, <1>3 DEF Replacing

\* A run that starts takes the table for the one before all runs, unless it
\* repeats another one.
LEMMA StartKeepsReplaceInv ==
    ASSUME ReplaceInv, TypeOK', NEW w \in RunWindows, NEW f \in BOOLEAN, StartRun(w, f)
    PROVE  ReplaceInv'
<1>1. /\ UNCHANGED <<strategy, target, source>>
      /\ phase' = "running" /\ step' = 1 /\ window' = w /\ ~stale'
      /\ base' = IF stale \/ w # window \/ plan' # plan THEN target ELSE base
  BY DEF StartRun, tableVars
<1>2. ~Emptied' /\ ~Refilled'
  BY <1>1 DEF Emptied, Refilled
<1>3. Applies' => \A q \in Row \ Region' : target'[q] = base'[q]
  <2>1. CASE stale \/ w # window \/ plan' # plan
    BY <1>1, <2>1
  <2>2. CASE ~stale /\ w = window /\ plan' = plan
    <3>1. Region' = Region /\ (Applies' => Applies) /\ base' = base
      BY <1>1, <2>2 DEF Region, Applies, KeysComparable, Query
    <3> QED
      BY <1>1, <3>1 DEF ReplaceInv, Replaced
  <2> QED
    BY <2>1, <2>2
<1>4. Applies' => Replaced'
  BY <1>2, <1>3 DEF Replaced
<1> QED
  BY <1>1, <1>4 DEF ReplaceInv

\* Nothing but the table and the run's progress changes.
LEMMA RegionStays ==
    ASSUME UNCHANGED <<strategy, plan, source, window>>
    PROVE  /\ Region' = Region /\ KeysComparable' = KeysComparable
           /\ \A q : New(q)' = New(q)
BY DEF Region, KeysComparable, New, Query

LEMMA SuccessKeepsReplaceInv ==
    ASSUME ReplaceInv, TypeOK', StatementSucceeds
    PROVE  ReplaceInv'
<1>1. /\ phase = "running" /\ step' = step + 1
      /\ phase' = (IF step = Len(Statements[plan]) THEN "ok" ELSE "running")
      /\ UNCHANGED <<strategy, plan, source, window, base, stale, strayed>>
  BY DEF StatementSucceeds
<1>2. TypeOK /\ step \in Nat /\ target' = Effect(Statement, target)
  BY DEF StatementSucceeds, Execute, ReplaceInv, TypeOK
<1>3. /\ step \in DOMAIN Statements[plan] /\ Statement.name = Statements[plan][step]
      /\ Statement.window = window
  BY <1>1, <1>2, StatementIs
<1> HIDE DEF Statement
<1>4. phase' = "ok" => step' = Len(Statements[plan]) + 1
  BY <1>1
<1>5. /\ Region' = Region /\ KeysComparable' = KeysComparable
      /\ \A q : New(q)' = New(q)
  BY <1>1, RegionStays
<1>6. ASSUME Applies PROVE Replaced'
  <2>1. /\ Replaced /\ plan \in Replacing /\ target \in [Row -> Nat]
        /\ Region \subseteq Row
    BY <1>2, <1>6, QueryInRegion DEF ReplaceInv, Applies, TypeOK
  <2>2. /\ \A q \in Row \ Region : target'[q] = target[q]
        /\ Statement.name \in Deletes => \A q \in Region : target'[q] = 0
        /\ Statement.name \in Inserts => \A q \in Region : target'[q] = target[q] + New(q)
        /\ Statement.name \in Plain => target' = target
    BY <1>2, <1>3, <1>6, EffectsOf
  <2>3. Emptied' => Statement.name \in Deletes
    <3> SUFFICES ASSUME Emptied' PROVE Statement.name \in Deletes
      OBVIOUS
    <3>1. \/ plan \in {"truncate_insert", "time_interval"} /\ step = 1
          \/ plan = "delete_insert" /\ step = 2
      BY <1>1, <1>2 DEF Emptied
    <3> QED
      BY <1>3, <2>1, <3>1, StatementsOf DEF Deletes
  <2>4. Refilled' => \/ Emptied /\ Statement.name \in Inserts
                     \/ Refilled /\ Statement.name \in Plain
    <3> SUFFICES ASSUME Refilled' PROVE \/ Emptied /\ Statement.name \in Inserts
                                        \/ Refilled /\ Statement.name \in Plain
      OBVIOUS
    <3>1. \/ plan \in {"truncate_insert", "time_interval"} /\ step = 2
          \/ plan = "delete_insert" /\ step \in {3, 4}
      <4>1. CASE phase' = "ok"
        BY <1>1, <2>1, <4>1, CountsOf DEF Replacing
      <4>2. CASE phase' = "running" /\ plan = "delete_insert" /\ step' = 4
        BY <1>1, <1>2, <4>2
      <4> QED
        BY <1>1, <4>1, <4>2 DEF Refilled
    <3>2. CASE plan \in {"truncate_insert", "time_interval"} /\ step = 2
      BY <1>1, <1>3, <2>1, <3>2, StatementsOf DEF Emptied, Inserts
    <3>3. CASE plan = "delete_insert" /\ step = 3
      BY <1>1, <1>3, <2>1, <3>3, StatementsOf DEF Emptied, Inserts
    <3>4. CASE plan = "delete_insert" /\ step = 4
      BY <1>1, <1>3, <2>1, <3>4, StatementsOf DEF Refilled, Plain
    <3> QED
      BY <3>1, <3>2, <3>3, <3>4
  <2>5. \A q \in Row \ Region' : target'[q] = base'[q]
    BY <1>1, <1>5, <2>1, <2>2 DEF Replaced
  <2>6. Emptied' /\ ~strayed' => \A q \in Region' : target'[q] = 0
    BY <1>5, <2>2, <2>3
  <2>7. ASSUME Refilled', ~strayed', NEW q \in Region PROVE target'[q] = New(q)
    <3>1. New(q) \in Nat
      BY DEF New
    <3>2. CASE Emptied /\ Statement.name \in Inserts
      BY <1>1, <2>1, <2>2, <2>7, <3>1, <3>2 DEF Replaced
    <3>3. CASE Refilled /\ Statement.name \in Plain
      BY <1>1, <2>1, <2>2, <2>7, <3>3 DEF Replaced
    <3> QED
      BY <2>4, <2>7, <3>2, <3>3
  <2> QED
    BY <1>5, <2>5, <2>6, <2>7 DEF Replaced
<1>7. Applies' => Applies
  BY <1>1, <1>5 DEF Applies
<1> QED
  BY <1>1, <1>4, <1>6, <1>7 DEF ReplaceInv

\* A late statement changes the region before the run's own deletion, or it strays.
LEMMA LateKeepsReplaceInv ==
    ASSUME ReplaceInv, TypeOK', NEW s \in late, LateExecuted(s)
    PROVE  ReplaceInv'
<1>1. /\ UNCHANGED <<strategy, source, phase, step, plan, window, base>>
      /\ target' = Effect(s, target)
      /\ stale' = (stale \/ (Foreign(s) /\ target' # target))
      /\ strayed' = (strayed \/ (Cleared /\ target' # target))
  BY DEF LateExecuted, Execute, runVars
<1>2. /\ Region' = Region /\ KeysComparable' = KeysComparable
      /\ \A q : New(q)' = New(q)
  BY <1>1, RegionStays
<1>3. Emptied' = Emptied /\ Refilled' = Refilled
  BY <1>1 DEF Emptied, Refilled
<1>4. ASSUME Applies' PROVE Replaced'
  <2>1. Applies /\ (Foreign(s) => target' = target)
    BY <1>1, <1>2, <1>4 DEF Applies
  <2>2. Replaced /\ TypeOK /\ plan \in Replacing
    BY <2>1 DEF ReplaceInv, Applies
  <2>3. CASE target' = target
    BY <1>1, <1>2, <1>3, <2>2, <2>3 DEF Replaced
  <2>4. CASE target' # target
    <3>1. PICK i \in DOMAIN Statements[plan] : s.name = Statements[plan][i]
      BY <2>1, <2>4 DEF Foreign
    <3>2. s.window = window
      BY <2>1, <2>4 DEF Foreign
    <3>3. \A q \in Row \ Region : target'[q] = target[q]
      BY <1>1, <2>1, <2>2, <3>1, <3>2, EffectsOf
    <3>4. Emptied \/ Refilled => strayed'
      BY <1>1, <2>2, <2>4, EmptiedIsCleared
    <3> QED
      BY <1>1, <1>2, <1>3, <2>2, <3>3, <3>4 DEF Replaced
  <2> QED
    BY <2>3, <2>4
<1> QED
  BY <1>1, <1>4 DEF ReplaceInv

LEMMA NextReplaceInv == ReplaceInv /\ TypeOK' /\ [Next]_vars => ReplaceInv'
<1> SUFFICES ASSUME ReplaceInv, TypeOK', [Next]_vars PROVE ReplaceInv'
  OBVIOUS
<1>1. ASSUME NEW w \in RunWindows, NEW f \in BOOLEAN, StartRun(w, f) PROVE ReplaceInv'
  BY <1>1, StartKeepsReplaceInv
<1>2. CASE StatementSucceeds
  BY <1>2, SuccessKeepsReplaceInv
<1>3. ASSUME NEW s \in late, LateExecuted(s) PROVE ReplaceInv'
  BY <1>3, LateKeepsReplaceInv
<1>4. CASE SourceChanges
  BY <1>4 DEF SourceChanges, runVars, tableVars, ReplaceInv, Applies
<1>5. CASE /\ UNCHANGED <<strategy, plan, target, source, step, window, base, stale, strayed>>
           /\ phase' \in {phase, "failed"}
  <2>1. /\ Region' = Region /\ KeysComparable' = KeysComparable
        /\ \A q : New(q)' = New(q)
    BY <1>5, RegionStays
  <2> QED
    BY <1>5, <2>1 DEF ReplaceInv, Replaced, Emptied, Refilled, Applies
<1> QED
  BY <1>1, <1>2, <1>3, <1>4, <1>5 DEF Next, StatementFails, StatementAbandoned, LateLost,
     SessionLost, Done, runVars, tableVars, vars

LEMMA SpecReplaceInv == Spec => []ReplaceInv
<1>1. Init /\ TypeOK => ReplaceInv
  BY DEF Init, ReplaceInv, Replaced, Emptied, Refilled
<1> QED
  BY <1>1, NextReplaceInv, TypeCorrect, PTL DEF Spec

LEMMA ReplacedIsIntended ==
    ASSUME ReplaceInv, plan \in Replacing, phase = "ok", ~stale, ~strayed,
           KeysComparable
    PROVE  IsIntended
<1>1. Replaced /\ Refilled
  BY DEF ReplaceInv, Applies, Refilled
<1>2. \A q \in Row : target[q] = IF q \in Region THEN New(q) ELSE base[q]
  BY <1>1 DEF Replaced
<1>3. \A q \in Row : Intended(q) = IF q \in Region THEN New(q) ELSE base[q]
  <2> SUFFICES ASSUME NEW q \in Row
               PROVE  Intended(q) = IF q \in Region THEN New(q) ELSE base[q]
    OBVIOUS
  <2>1. CASE plan = "truncate_insert"
    BY <2>1 DEF Intended, Region, New
  <2>2. CASE plan = "time_interval"
    BY <2>2 DEF Intended, Region, New, InWindow
  <2>3. CASE plan = "delete_insert"
    <3>1. Query(window) \subseteq source
      BY DEF Query
    <3>2. q \in Region <=> \E r \in Query(window) : r.key = q.key
      BY <2>3, <3>1 DEF Region, KeyIn, SqlEquals, KeysComparable, KeyedBySql
    <3> QED
      BY <2>3, <3>2 DEF Intended, New
  <2> QED
    BY <2>1, <2>2, <2>3 DEF Replacing
<1>4. target = [q \in Row |-> target[q]]
  BY OwnPlan DEF ReplaceInv, TypeOK, Replacing
<1> QED
  BY <1>2, <1>3, <1>4 DEF IsIntended

-----------------------------------------------------------------------------
(* A merge of keys that are not NULL, executed again, changes nothing. *)

Comparable(src) == Null \notin {s.key : s \in src}

LEMMA AfterMergeRow ==
    ASSUME NEW src \in Sources, NEW r \in Row
    PROVE  /\ AfterMerge(r, src) \in Row
           /\ AfterMerge(r, src).key = r.key
           /\ AfterMerge(AfterMerge(r, src), src) = AfterMerge(r, src)
<1> DEFINE q == AfterMerge(r, src)
<1>1. CASE \E s \in src : SqlEquals(r.key, s.key)
  <2> DEFINE m == CHOOSE s \in src : SqlEquals(r.key, s.key)
  <2>1. m \in src /\ SqlEquals(r.key, m.key)
    BY <1>1
  <2>2. m \in Row
    BY <2>1 DEF Sources
  <2>3. q = [key |-> r.key,
             at  |-> IF "at" \in UpdateOnMerge THEN m.at ELSE r.at,
             val |-> IF "val" \in UpdateOnMerge THEN m.val ELSE r.val]
    BY <1>1 DEF AfterMerge
  <2>4. q \in Row /\ q.key = r.key
    <3>1. r.key \in Keys \cup {Null} /\ r.at \in Times /\ r.val \in Vals
      BY DEF Row
    <3>2. m.at \in Times /\ m.val \in Vals
      BY <2>2 DEF Row
    <3> HIDE DEF m, q
    <3> QED
      BY <2>3, <3>1, <3>2 DEF Row
  <2>5. AfterMerge(q, src) =
            [key |-> q.key,
             at  |-> IF "at" \in UpdateOnMerge THEN m.at ELSE q.at,
             val |-> IF "val" \in UpdateOnMerge THEN m.val ELSE q.val]
    BY <1>1, <2>4 DEF AfterMerge
  <2> HIDE DEF m, q
  <2>6. AfterMerge(q, src) = q
    BY <2>3, <2>5
  <2> QED
    BY <2>4, <2>6 DEF q
<1>2. CASE ~\E s \in src : SqlEquals(r.key, s.key)
  BY <1>2 DEF AfterMerge
<1> QED
  BY <1>1, <1>2

\* A row of the query is what the merge makes of it.
LEMMA SourceRowIsMerged ==
    ASSUME NEW src \in Sources, NEW s \in src
    PROVE  AfterMerge(s, src) = s
<1>1. s \in Row
  BY DEF Sources
<1>2. CASE \E p \in src : SqlEquals(s.key, p.key)
  <2> DEFINE m == CHOOSE p \in src : SqlEquals(s.key, p.key)
  <2>1. m \in src /\ SqlEquals(s.key, m.key)
    BY <1>2
  <2>2. m = s
    BY <2>1 DEF SqlEquals, Sources
  <2>3. AfterMerge(s, src) = [key |-> s.key,
             at  |-> IF "at" \in UpdateOnMerge THEN m.at ELSE s.at,
             val |-> IF "val" \in UpdateOnMerge THEN m.val ELSE s.val]
    BY <1>2 DEF AfterMerge
  <2> HIDE DEF m
  <2>4. s = [key |-> s.key, at |-> s.at, val |-> s.val]
    BY <1>1 DEF Row
  <2> QED
    BY <2>2, <2>3, <2>4
<1>3. CASE ~\E p \in src : SqlEquals(s.key, p.key)
  BY <1>3 DEF AfterMerge
<1> QED
  BY <1>2, <1>3

\* After a merge every row is as the merge leaves it, and every row of the query
\* has its match.
LEMMA MergedIsSettled ==
    ASSUME NEW t \in [Row -> Nat], NEW src \in Sources, Comparable(src)
    PROVE  /\ \A q \in Row : Merged(t, src)[q] > 0 => AfterMerge(q, src) = q
           /\ \A s \in src : \E r \in Rows(Merged(t, src)) : SqlEquals(r.key, s.key)
<1> DEFINE m       == Merged(t, src)
           From(q) == {r \in Row : AfterMerge(r, src) = q}
           Added(q) == q \in src /\ ~\E r \in Rows(t) : SqlEquals(r.key, q.key)
<1>1. /\ m \in [Row -> Nat]
      /\ \A q \in Row : m[q] = Count(t, From(q)) + IF Added(q) THEN 1 ELSE 0
  BY MergedRows
<1>2. \A q \in Row : /\ Count(t, From(q)) \in Nat
                     /\ Count(t, From(q)) = 0 <=> \A r \in From(q) : t[r] = 0
  <2> TAKE q \in Row
  <2>1. From(q) \in SUBSET Row
    OBVIOUS
  <2> HIDE DEF From
  <2> QED
    BY <2>1, CountIsNat
<1> HIDE DEF m
<1>3. ASSUME NEW q \in Row, m[q] > 0 PROVE AfterMerge(q, src) = q
  <2>1. CASE Added(q)
    BY <2>1, SourceRowIsMerged
  <2>2. CASE ~Added(q)
    <3>1. m[q] = Count(t, From(q))
      BY <1>1, <1>2, <2>2
    <3> HIDE DEF From
    <3>2. Count(t, From(q)) # 0
      BY <1>3, <3>1
    <3>3. PICK r \in From(q) : t[r] # 0
      BY <1>2, <3>2
    <3> QED
      BY <3>3, AfterMergeRow DEF From
  <2> QED
    BY <2>1, <2>2
<1>4. ASSUME NEW s \in src PROVE \E r \in Rows(m) : SqlEquals(r.key, s.key)
  <2>1. s \in Row /\ s.key # Null
    BY DEF Sources, Comparable
  <2>2. CASE Added(s)
    <3>1. m[s] = Count(t, From(s)) + 1 /\ Count(t, From(s)) \in Nat
      BY <1>1, <1>2, <2>1, <2>2
    <3> HIDE DEF From
    <3>2. m[s] > 0
      BY <3>1
    <3> QED
      BY <2>1, <3>2 DEF Rows, SqlEquals
  <2>3. CASE ~Added(s)
    <3>1. PICK r \in Row : t[r] > 0 /\ SqlEquals(r.key, s.key)
      BY <2>3 DEF Rows
    <3> DEFINE q == AfterMerge(r, src)
    <3>2. q \in Row /\ q.key = r.key /\ r \in From(q)
      BY AfterMergeRow
    <3> HIDE DEF q
    <3>3. Count(t, From(q)) # 0
      BY <1>2, <3>1, <3>2
    <3>4. m[q] > 0
      BY <1>1, <1>2, <3>2, <3>3
    <3> QED
      BY <3>1, <3>2, <3>4 DEF Rows
  <2> QED
    BY <2>2, <2>3
<1> QED
  BY <1>3, <1>4 DEF m

\* A MERGE whose answer was lost may be sent again (buildMergeQuery, runStatement):
\* executed twice in a row on the same query, it has the effect of one.
THEOREM MergeIsIdempotent ==
    ASSUME NEW t \in [Row -> Nat], NEW src \in Sources, Comparable(src)
    PROVE  Merged(Merged(t, src), src) = Merged(t, src)
<1> DEFINE m == Merged(t, src)
           From(q) == {r \in Row : AfterMerge(r, src) = q}
<1>1. m \in [Row -> Nat]
  BY MergedRows
<1>2. /\ \A q \in Row : m[q] > 0 => AfterMerge(q, src) = q
      /\ \A s \in src : \E r \in Rows(m) : SqlEquals(r.key, s.key)
  BY MergedIsSettled
<1> HIDE DEF m
<1>3. /\ Merged(m, src) \in [Row -> Nat]
      /\ \A q \in Row : Merged(m, src)[q] = Count(m, From(q)) +
             IF q \in src /\ ~\E r \in Rows(m) : SqlEquals(r.key, q.key) THEN 1 ELSE 0
  BY <1>1, MergedRows
<1>4. ASSUME NEW q \in Row PROVE Count(m, From(q)) = m[q]
  <2>1. From(q) \in SUBSET Row
    OBVIOUS
  <2>2. \A r \in From(q) : r # q => m[r] = 0
    BY <1>1, <1>2
  <2>3. CASE AfterMerge(q, src) = q
    <3>1. q \in From(q)
      BY <2>3
    <3> HIDE DEF From
    <3> QED
      BY <1>1, <2>1, <2>2, <3>1, CountOfOne
  <2>4. CASE AfterMerge(q, src) # q
    <3>1. m[q] = 0 /\ q \notin From(q)
      BY <1>1, <1>2, <2>4
    <3> HIDE DEF From
    <3>2. \A r \in From(q) : m[r] = 0
      BY <2>2, <3>1
    <3> QED
      BY <1>1, <2>1, <3>1, <3>2, CountIsNat
  <2> QED
    BY <2>3, <2>4
<1>5. \A q \in Row : Merged(m, src)[q] = m[q]
  <2> TAKE q \in Row
  <2>1. Merged(m, src)[q] = Count(m, From(q)) + 0
    BY <1>2, <1>3
  <2> QED
    BY <1>1, <1>4, <2>1
<1>6. Merged(m, src) = m
  BY <1>1, <1>3, <1>5
<1> QED
  BY <1>6 DEF m


-----------------------------------------------------------------------------
(* The strategies whose table changes in one statement *)

AntiJoins == {"anti_join", "anti_join_window"}
Atomic == AntiJoins \cup {"create_replace", "merge", "ddl"}

\* The statement that changes the table has been executed in this run.
Applied == phase = "ok" \/ (phase = "running" /\ plan \in AntiJoins /\ step = 3)

AtomicInv ==
    /\ TypeOK
    /\ plan \in Atomic /\ ~stale /\ KeysComparable =>
           /\ target = base \/ IsIntended
           /\ Applied => IsIntended


\* The rows an anti join looks at.
Seen(t) == IF plan = "anti_join" THEN Rows(t) ELSE Rows(t) \cap InWindow(window)

LEMMA AtomicStatements ==
    ASSUME TypeOK, plan \in Atomic, NEW i \in DOMAIN Statements[plan],
           NEW s, s.name = Statements[plan][i], s.window = window
    PROVE  \/ plan = "create_replace" /\ i = 1 /\ s.name = "replace"
           \/ plan = "ddl" /\ i = 1 /\ s.name = "createIfMissing"
           \/ plan = "merge" /\ i = 1 /\ s.name = "merge"
           \/ plan \in AntiJoins /\ i \in {1, 3} /\ s.name \in Plain
           \/ /\ plan \in AntiJoins /\ i = 2 /\ s.name \notin Plain
              /\ \A t : Effect(s, t) = Inserted(t, AntiJoin(Query(window), Seen(t)))
<1>1. CASE plan = "create_replace"
  BY <1>1 DEF Statements, CreateReplaceQuery
<1>2. CASE plan = "anti_join"
  <2>1. i \in 1..3 /\ s.name = <<"createView", "antiJoin", "dropView">>[i]
    BY <1>2 DEF Statements, AntiJoinQuery
  <2>2. CASE i = 2
    <3>1. s.name = "antiJoin"
      BY <2>1, <2>2
    <3> QED
      BY <1>2, <2>2, <3>1 DEF Effect, Seen, AntiJoins, Plain
  <2>3. CASE i # 2
    BY <1>2, <2>1, <2>3 DEF Plain, AntiJoins
  <2> QED
    BY <2>2, <2>3
<1>3. CASE plan = "anti_join_window"
  <2>1. i \in 1..3 /\ s.name = <<"createView", "antiJoinWindow", "dropView">>[i]
    BY <1>3 DEF Statements, AntiJoinWindowQuery
  <2>2. CASE i = 2
    <3>1. s.name = "antiJoinWindow"
      BY <2>1, <2>2
    <3> QED
      BY <1>3, <2>2, <3>1 DEF Effect, Seen, AntiJoins, Plain
  <2>3. CASE i # 2
    BY <1>3, <2>1, <2>3 DEF Plain, AntiJoins
  <2> QED
    BY <2>2, <2>3
<1>4. CASE plan = "ddl"
  BY <1>4 DEF Statements, DDLQuery
<1>5. CASE plan = "merge"
  BY <1>5 DEF Statements, MergeQuery
<1> QED
  BY <1>1, <1>2, <1>3, <1>4, <1>5 DEF Atomic, AntiJoins

\* The row count an anti join leaves.
LEMMA IntendedByAntiJoin ==
    ASSUME plan \in AntiJoins, NEW q \in Row
    PROVE  Intended(q) = IF \E r \in Seen(base) : r.key = q.key
                           THEN base[q] ELSE base[q] + New(q)
<1>1. CASE plan = "anti_join"
  BY <1>1 DEF Intended, Seen, New
<1>2. CASE plan = "anti_join_window"
  BY <1>2 DEF Intended, Seen, New
<1> QED
  BY <1>1, <1>2 DEF AntiJoins

\* Before it, an anti join makes the intended table of base; after it, nothing is
\* left for it to insert.
LEMMA AntiJoinApplies ==
    ASSUME TypeOK, plan \in AntiJoins,
           base \in [Row -> Nat], NEW t \in [Row -> Nat],
           t = base \/ t = [q \in Row |-> Intended(q)]
    PROVE  Inserted(t, AntiJoin(Query(window), Seen(t))) = [q \in Row |-> Intended(q)]
<1> DEFINE src == Query(window)
           new == AntiJoin(src, Seen(t))
<1>0. src \subseteq Row
  BY QueryInRegion
<1>1. \A s : s \in new <=> s \in src /\ ~\E r \in Seen(t) : s.key = r.key
  BY DEF AntiJoin, NullSafeEquals
<1>2. \A q \in Row : Intended(q) = IF \E r \in Seen(base) : r.key = q.key
                                     THEN base[q] ELSE base[q] + New(q)
  BY IntendedByAntiJoin
<1>3. \A q \in Row : Inserted(t, new)[q] = t[q] + IF q \in new THEN 1 ELSE 0
  BY InsertedRows
<1>4. \A q : New(q) = IF q \in src THEN 1 ELSE 0
  BY DEF New
<1>5. plan # "anti_join" => src \subseteq InWindow(window)
  BY OwnPlan DEF Query, Windowed, AntiJoins
<1> HIDE DEF new, src
<1>6. CASE t = base
  <2>1. \A q \in Row : t[q] + (IF q \in new THEN 1 ELSE 0) = Intended(q)
    BY <1>1, <1>2, <1>4, <1>6
  <2> QED
    BY <1>3, <2>1 DEF Inserted, new, src
<1>7. CASE t = [q \in Row |-> Intended(q)]
  <2>1. \A q \in Row : t[q] = Intended(q) /\ t[q] >= base[q]
    BY <1>2, <1>4, <1>7
  <2>2. \A r \in Seen(base) : r \in Seen(t)
    <3> TAKE r \in Seen(base)
    <3>1. r \in Row /\ base[r] > 0
      BY DEF Seen, Rows
    <3>2. t[r] > 0
      BY <2>1, <3>1
    <3> QED
      BY <3>1, <3>2 DEF Seen, Rows
  <2>3. ASSUME NEW s \in src PROVE s \notin new
    <3>1. CASE \E r \in Seen(base) : r.key = s.key
      BY <1>1, <2>2, <3>1
    <3>2. CASE ~\E r \in Seen(base) : r.key = s.key
      <4>1. s \in Row /\ New(s) = 1
        BY <1>0, <1>4
      <4>2. t[s] = base[s] + 1
        BY <1>2, <2>1, <3>2, <4>1
      <4>3. t[s] > 0
        BY <4>1, <4>2
      <4>4. s \in Seen(t)
        BY <1>5, <4>1, <4>3 DEF Seen, Rows
      <4> QED
        BY <1>1, <4>4
    <3> QED
      BY <3>1, <3>2
  <2>4. \A q \in Row : t[q] + (IF q \in new THEN 1 ELSE 0) = t[q]
    BY <1>1, <2>3
  <2> QED
    BY <1>3, <1>7, <2>1, <2>4 DEF Inserted, new, src
<1> QED
  BY <1>6, <1>7

\* A statement for this window and plan leaves the table or makes it the intended
\* one, whether its run executes it or it comes late or again.
LEMMA EffectIsAtomic ==
    ASSUME AtomicInv, plan \in Atomic, ~stale, KeysComparable,
           NEW i \in DOMAIN Statements[plan],
           NEW s, s.name = Statements[plan][i], s.window = window
    PROVE  /\ s.name \in Plain => Effect(s, target) = target
           /\ s.name \notin Plain => Effect(s, target) = [q \in Row |-> Intended(q)]
           /\ s.name = "createIfMissing" => target = [q \in Row |-> Intended(q)]
<1> DEFINE t    == Effect(s, target)
           goal == [q \in Row |-> Intended(q)]
           src  == Query(window)
<1>1. /\ TypeOK /\ (target = base \/ target = goal)
      /\ target \in [Row -> Nat] /\ base \in [Row -> Nat] /\ source \in Sources
  BY DEF AtomicInv, TypeOK, IsIntended
<1>2. s.name \in Plain => t = target
  BY DEF Effect, Plain
<1>3. CASE s.name = "replace" /\ plan = "create_replace"
  <2>1. t = Inserted(Deleted(target, Row), src)
    BY <1>3 DEF Effect
  <2>2. t = [q \in Row |-> New(q)]
    BY <2>1 DEF Inserted, Deleted, New
  <2>3. \A q \in Row : Intended(q) = New(q)
    BY <1>3 DEF Intended, New
  <2> QED
    BY <1>3, <2>2, <2>3 DEF Plain
<1>4. CASE s.name = "createIfMissing" /\ plan = "ddl"
  <2>1. goal = base
    BY <1>1, <1>4 DEF Intended
  <2> QED
    BY <1>1, <1>2, <1>4, <2>1 DEF Plain
<1>5. CASE /\ plan \in AntiJoins /\ s.name \notin Plain
           /\ \A u : Effect(s, u) = Inserted(u, AntiJoin(src, Seen(u)))
  <2>1. t = goal
    BY <1>1, <1>5, AntiJoinApplies
  <2> QED
    BY <1>5, <2>1 DEF Plain
<1>6. CASE s.name = "merge" /\ plan = "merge"
  <2>1. Query(window) = source
    BY <1>1, <1>6, OwnPlan DEF Query, Windowed
  <2>2. \A u : Effect(s, u) = Merged(u, source)
    BY <1>6, <2>1 DEF Effect
  <2>3. Comparable(source)
    BY <1>6 DEF KeysComparable, KeyedBySql, Comparable
  <2>4. Merged(base, source) \in [Row -> Nat]
    BY <1>1, MergedRows
  <2>5. \A q \in Row : Intended(q) = Merged(base, source)[q]
    BY <1>6, <2>1 DEF Intended
  <2>6. goal = Merged(base, source)
    BY <2>4, <2>5
  <2>7. Merged(goal, source) = goal
    BY <1>1, <2>3, <2>6, MergeIsIdempotent
  <2>8. t = goal
    BY <1>1, <2>2, <2>6, <2>7
  <2> HIDE DEF t, goal
  <2> QED
    BY <1>6, <2>8 DEF Plain, t, goal
<1>7. CASE plan \in AntiJoins /\ s.name \in Plain
  <2>1. s.name # "createIfMissing"
    BY <1>7 DEF AntiJoins, Statements, AntiJoinQuery, AntiJoinWindowQuery
  <2> QED
    BY <1>2, <1>7, <2>1
<1> QED
  BY <1>1, <1>3, <1>4, <1>5, <1>6, <1>7, AtomicStatements

LEMMA SuccessKeepsAtomicInv ==
    ASSUME AtomicInv, TypeOK', StatementSucceeds
    PROVE  AtomicInv'
<1>1. /\ phase = "running" /\ step' = step + 1
      /\ phase' = (IF step = Len(Statements[plan]) THEN "ok" ELSE "running")
      /\ UNCHANGED <<strategy, plan, source, window, base, stale>>
  BY DEF StatementSucceeds
<1>2. TypeOK /\ step \in Nat /\ target' = Effect(Statement, target)
  BY DEF StatementSucceeds, Execute, AtomicInv, TypeOK
<1>3. /\ step \in DOMAIN Statements[plan] /\ Statement.name = Statements[plan][step]
      /\ Statement.window = window
  BY <1>1, <1>2, StatementIs
<1> HIDE DEF Statement
<1>4. /\ \A q : Intended(q)' = Intended(q)
      /\ KeysComparable' = KeysComparable
  BY <1>1 DEF Intended, KeysComparable, Query
<1>5. ASSUME plan \in Atomic, ~stale, KeysComparable
      PROVE  (target' = base' \/ IsIntended') /\ (Applied' => IsIntended')
  <2> DEFINE goal == [q \in Row |-> Intended(q)]
  <2>1. /\ Statement.name \in Plain => target' = target
        /\ Statement.name \notin Plain => target' = goal
        /\ Statement.name = "createIfMissing" => target = goal
    BY <1>2, <1>3, <1>5, EffectIsAtomic
  <2>2. IsIntended' <=> target' = goal
    BY <1>4 DEF IsIntended
  <2>3. (target = base \/ target = goal) /\ (Applied => target = goal)
    BY <1>5 DEF AtomicInv, IsIntended
  <2> HIDE DEF goal
  <2>4. ASSUME Applied', Statement.name \in Plain PROVE target = goal
    <3>1. CASE plan \in AntiJoins
      <4>1. Len(Statements[plan]) = 3
        BY <3>1 DEF AntiJoins, Statements, AntiJoinQuery, AntiJoinWindowQuery
      <4>2. step # 1
        BY <1>1, <1>2, <2>4, <4>1 DEF Applied
      <4>3. step = 3
        BY <1>2, <1>3, <1>5, <2>4, <3>1, <4>2, AtomicStatements
           DEF AntiJoins
      <4> QED
        BY <1>1, <2>3, <3>1, <4>3 DEF Applied
    <3>2. CASE plan \notin AntiJoins
      <4>1. Statement.name \in {"replace", "createIfMissing", "merge"}
        BY <1>2, <1>3, <1>5, <3>2, AtomicStatements
      <4> QED
        BY <2>1, <2>4, <4>1 DEF Plain
    <3> QED
      BY <3>1, <3>2
  <2> QED
    BY <1>1, <2>1, <2>2, <2>3, <2>4
<1> QED
  BY <1>1, <1>4, <1>5 DEF AtomicInv

LEMMA LateKeepsAtomicInv ==
    ASSUME AtomicInv, TypeOK', NEW s \in late, LateExecuted(s)
    PROVE  AtomicInv'
<1>1. /\ UNCHANGED <<strategy, source, phase, step, plan, window, base>>
      /\ target' = Effect(s, target)
      /\ stale' = (stale \/ (Foreign(s) /\ target' # target))
  BY DEF LateExecuted, Execute, runVars
<1>2. /\ \A q : Intended(q)' = Intended(q)
      /\ KeysComparable' = KeysComparable /\ Applied' = Applied
  BY <1>1 DEF Intended, KeysComparable, Query, Applied
<1>3. ASSUME plan \in Atomic, ~stale', KeysComparable
      PROVE  (target' = base' \/ IsIntended') /\ (Applied' => IsIntended')
  <2>1. ~stale /\ (Foreign(s) => target' = target)
    BY <1>1, <1>3
  <2>2. target' = target \/ target' = [q \in Row |-> Intended(q)]
    <3>1. CASE Foreign(s)
      BY <2>1, <3>1
    <3>2. CASE ~Foreign(s)
      <4>1. PICK i \in DOMAIN Statements[plan] : s.name = Statements[plan][i]
        BY <3>2 DEF Foreign
      <4>2. s.window = window
        BY <3>2 DEF Foreign
      <4> QED
        BY <1>1, <1>3, <2>1, <4>1, <4>2, EffectIsAtomic
    <3> QED
      BY <3>1, <3>2
  <2> QED
    BY <1>1, <1>2, <1>3, <2>1, <2>2 DEF AtomicInv, IsIntended
<1> QED
  BY <1>1, <1>2, <1>3 DEF AtomicInv

LEMMA NextAtomicInv == AtomicInv /\ TypeOK' /\ [Next]_vars => AtomicInv'
<1> SUFFICES ASSUME AtomicInv, TypeOK', [Next]_vars PROVE AtomicInv'
  OBVIOUS
<1>1. ASSUME NEW w \in RunWindows, NEW f \in BOOLEAN, StartRun(w, f) PROVE AtomicInv'
  <2>1. /\ UNCHANGED <<strategy, target, source>>
        /\ phase' = "running" /\ step' = 1 /\ window' = w /\ ~stale'
        /\ base' = IF stale \/ w # window \/ plan' # plan THEN target ELSE base
    BY <1>1 DEF StartRun, tableVars
  <2>2. ~Applied'
    BY <2>1 DEF Applied
  <2>3. plan' \in Atomic /\ KeysComparable' => target' = base' \/ IsIntended'
    <3>1. CASE stale \/ w # window \/ plan' # plan
      BY <2>1, <3>1
    <3>2. CASE ~stale /\ w = window /\ plan' = plan
      <4>1. (\A q : Intended(q)' = Intended(q)) /\ KeysComparable' = KeysComparable
        BY <2>1, <3>2 DEF Intended, KeysComparable, Query
      <4> QED
        BY <2>1, <3>2, <4>1 DEF AtomicInv, IsIntended
    <3> QED
      BY <3>1, <3>2
  <2> QED
    BY <2>1, <2>2, <2>3 DEF AtomicInv
<1>2. CASE StatementSucceeds
  BY <1>2, SuccessKeepsAtomicInv
<1>3. ASSUME NEW s \in late, LateExecuted(s) PROVE AtomicInv'
  BY <1>3, LateKeepsAtomicInv
<1>4. CASE SourceChanges
  BY <1>4 DEF SourceChanges, runVars, tableVars, AtomicInv
<1>5. CASE /\ UNCHANGED <<strategy, plan, target, source, step, window, base, stale>>
           /\ phase' \in {phase, "failed"}
  BY <1>5 DEF AtomicInv, Applied, IsIntended, Intended, KeysComparable, Query
<1> QED
  BY <1>1, <1>2, <1>3, <1>4, <1>5 DEF Next, StatementFails, StatementAbandoned, LateLost,
     SessionLost, Done, runVars, tableVars, vars

LEMMA SpecAtomicInv == Spec => []AtomicInv
<1>1. Init /\ TypeOK => AtomicInv
  BY DEF Init, AtomicInv, Applied
<1> QED
  BY <1>1, NextAtomicInv, TypeCorrect, PTL DEF Spec

\* create+replace, a full refresh included, the merge, the anti joins and ddl:
\* whatever fails, is given up or is executed late or again, the table is as it was
\* or as it should be.
THEOREM AtomicNeverPartial == Spec => []NeverPartial
<1>1. AtomicInv => NeverPartial
  BY DEF AtomicInv, NeverPartial, AtomicStrategies, Atomic, AntiJoins
<1> QED
  BY <1>1, SpecAtomicInv, PTL

\* For every strategy but append, which must not, a run that succeeds leaves what
\* one clean run would have, however many failed before it and whatever of theirs
\* is executed before its own deletion; and without a deletion of its own, at any
\* time.
THEOREM RerunsAreClean == Spec => []RerunEqualsCleanRun
<1>1. TableInv /\ ReplaceInv /\ AtomicInv => RerunEqualsCleanRun
  <2> SUFFICES ASSUME TableInv, ReplaceInv, AtomicInv, plan # "append",
                      phase = "ok", ~stale, ~strayed, KeysComparable
               PROVE  exists /\ IsIntended
    BY DEF RerunEqualsCleanRun
  <2>0. plan \in Strategies
    BY PlansAreStrategies DEF TableInv, TypeOK
  <2>1. plan \in Replacing \/ plan \in Atomic
    BY <2>0 DEF Strategies, Statements, Replacing, Atomic, AntiJoins
  <2>2. CASE plan \in Replacing
    BY <2>2, ReplacedIsIntended DEF TableInv
  <2>3. CASE plan \in Atomic
    BY <2>3 DEF TableInv, AtomicInv, Applied
  <2> QED
    BY <2>1, <2>2, <2>3 DEF TableInv
<1> QED
  BY <1>1, SpecTableInv, SpecReplaceInv, SpecAtomicInv, PTL
=============================================================================
