--------------------------- MODULE Materialization ---------------------------
(***************************************************************************)
(* A fabric.spark.sql asset materialized as a table: the statements of its *)
(* strategy (fabricspark/materialization.go) are sent one by one           *)
(* (operator.go).  Any of them may fail, or be given up by the client and  *)
(* executed later, and one whose answer was lost is sent again; the asset  *)
(* is then run again, with --full-refresh or without.  A run has a session *)
(* of its own, and nothing stops what an older one still executes in its   *)
(* own.  A table is a bag of rows; the query's result is a set of rows     *)
(* whose keys differ, and may change at any time.                          *)
(***************************************************************************)
EXTENDS Integers, Sequences, FiniteSets

CONSTANTS
    Keys,           \* values of the primary key and incremental key, but NULL
    Null,
    Times,          \* values of the time column of the window strategies
    Vals,
    Windows,        \* the run windows of windowed assets, sets of times
    UpdateOnMerge,  \* the columns flagged update_on_merge
    MaxAttempts,    \* bound: runs of the asset
    MaxChanges,     \* bound: changes of the query's result
    MaxDelays       \* bound: statements given up or copied

ASSUME MaterializationAssumption ==
    /\ IsFiniteSet(Keys) /\ IsFiniteSet(Times) /\ IsFiniteSet(Vals)
    /\ Null \notin Keys
    /\ Windows \subseteq SUBSET Times
    /\ UpdateOnMerge \subseteq {"at", "val"}
    /\ {MaxAttempts, MaxChanges, MaxDelays} \subseteq Nat

Row == [key : Keys \cup {Null}, at : Times, val : Vals]
Sources == {s \in SUBSET Row : \A q, r \in s : q.key = r.key => q = r}

VARIABLES
    strategy,  \* of the asset
    plan,      \* the strategy of this run: create_replace under --full-refresh
    exists,    \* there is a table
    target,    \* the table; empty while there is none
    source,    \* what the query returns now
    view,      \* the temporary view exists in the run's session
    late,      \* what may still be executed: statements given up by the client, and
               \* copies
    phase,     \* of the asset's run
    step,      \* index of the next statement
    window,    \* the run window
    \* Auxiliary:
    base,      \* target before the first run for this source, window and plan
    stale,     \* since then the source or a statement of another window or plan
               \* has changed it
    strayed,   \* a late statement changed it after the run's own deletion
    attempts, changes, delays

runVars == <<phase, step, plan, window, base, attempts>>
tableVars == <<exists, target>>
vars == <<strategy, tableVars, source, view, late, runVars, stale, strayed, changes, delays>>
-----------------------------------------------------------------------------
\* The statements of each strategy, named after the functions that build them.
AppendQuery == <<"insert">>

IncrementalQuery == <<"createView", "deleteByKey", "insertView", "dropView">>

TruncateInsertQuery == <<"deleteAll", "insert">>

MergeQuery == <<"merge">>

\* A table that is emptied and filled again.
CreateReplaceInTwo == <<"deleteAll", "insert">>
CreateReplaceQuery == <<"replace">>

AntiJoinQuery == <<"createView", "antiJoin", "dropView">>
AntiJoinWindowQuery == <<"createView", "antiJoinWindow", "dropView">>

\* The new rows come first.
TimeIntervalInsertFirst == <<"insert", "deleteWindow">>
TimeIntervalQuery == <<"deleteWindow", "insert">>

DDLQuery == <<"createIfMissing">>

Statements ==
    [append           |-> AppendQuery,
     delete_insert    |-> IncrementalQuery,
     truncate_insert  |-> TruncateInsertQuery,
     merge            |-> MergeQuery,
     create_replace   |-> CreateReplaceQuery,
     anti_join        |-> AntiJoinQuery,
     anti_join_window |-> AntiJoinWindowQuery,
     time_interval    |-> TimeIntervalQuery,
     ddl              |-> DDLQuery]

Strategies == DOMAIN Statements

\* The strategy whose statements are rendered: a full refresh rebuilds the table,
\* but never one that is only declared.
Render(fullRefresh) ==
    IF fullRefresh /\ strategy # "ddl" THEN "create_replace" ELSE strategy

\* "=": NULL equals nothing.
SqlEquals(a, b) == a = b /\ a # Null
\* "<=>"
NullSafeEquals(a, b) == a = b

Rows(t) == {r \in Row : t[r] > 0}
Inserted(t, rows) == [r \in Row |-> t[r] + IF r \in rows THEN 1 ELSE 0]
Deleted(t, rows) == [r \in Row |-> IF r \in rows THEN 0 ELSE t[r]]

InWindow(w) == {r \in Row : r.at \in w}

KeyIn(rows) == {r \in Row : \E s \in rows : SqlEquals(r.key, s.key)}

\* The rows of the query without a match among these rows of the table.
AntiJoinSql(src, rows) == {s \in src : ~\E r \in rows : SqlEquals(s.key, r.key)}
AntiJoin(src, rows) == {s \in src : ~\E r \in rows : NullSafeEquals(s.key, r.key)}

\* WHEN MATCHED: the update_on_merge columns are set.
AfterMerge(r, src) ==
    IF \E s \in src : SqlEquals(r.key, s.key)
      THEN LET s == CHOOSE s \in src : SqlEquals(r.key, s.key)
           IN  [key |-> r.key,
                at  |-> IF "at" \in UpdateOnMerge THEN s.at ELSE r.at,
                val |-> IF "val" \in UpdateOnMerge THEN s.val ELSE r.val]
      ELSE r

\* How many rows of a table these are.
Count(t, rows) == Cardinality(UNION {{r} \X (1..t[r]) : r \in rows})

Merged(t, src) ==
    LET updated == [q \in Row |-> Count(t, {r \in Row : AfterMerge(r, src) = q})]
    IN  Inserted(updated, {s \in src : ~\E r \in Rows(t) : SqlEquals(r.key, s.key)})

Windowed == {"time_interval", "anti_join_window"}
RunWindows == IF strategy \in Windowed THEN Windows ELSE {Times}

\* The query of a windowed asset returns rows of the window (README.md:193-196).
Query(w) == IF strategy \in Windowed THEN source \cap InWindow(w) ELSE source

NeedsView == {"deleteByKey", "insertView", "antiJoin", "antiJoinWindow"}
Creates == {"replace", "createIfMissing"}
OfView == {"createView", "dropView"}

\* What a statement s of a run makes of a table; the query is evaluated now.
Effect(s, t) ==
    LET src == Query(s.window)
    IN  CASE s.name \in {"insert", "insertView"} -> Inserted(t, src)
          [] s.name = "deleteAll"      -> Deleted(t, Row)
          [] s.name = "deleteByKey"    -> Deleted(t, KeyIn(src))
          [] s.name = "deleteWindow"   -> Deleted(t, InWindow(s.window))
          [] s.name = "replace"        -> Inserted(Deleted(t, Row), src)
          [] s.name = "merge"          -> Merged(t, src)
          [] s.name = "antiJoin"       -> Inserted(t, AntiJoin(src, Rows(t)))
          [] s.name = "antiJoinWindow" ->
               Inserted(t, AntiJoin(src, Rows(t) \cap InWindow(s.window)))
          [] OTHER -> t
-----------------------------------------------------------------------------
Init ==
    /\ strategy \in Strategies
    /\ plan = strategy
    /\ exists \in BOOLEAN
    /\ \E s \in Sources : /\ ~exists => s = {}
                         /\ target = Inserted([r \in Row |-> 0], s)
    /\ source \in Sources
    /\ window \in RunWindows
    /\ view = FALSE
    /\ late = {}
    /\ phase = "idle"
    /\ step = 1
    /\ base = target
    /\ stale = FALSE /\ strayed = FALSE
    /\ attempts = 0 /\ changes = 0 /\ delays = 0

\* RunTask up to its loop, in a new process with a new session.
StartRun(w, fullRefresh) ==
    /\ phase # "running"
    /\ attempts < MaxAttempts
    /\ attempts' = attempts + 1
    /\ phase' = "running"
    /\ step' = 1
    /\ plan' = Render(fullRefresh)
    /\ window' = w
    /\ view' = FALSE
    /\ base' = IF stale \/ w # window \/ plan' # plan THEN target ELSE base
    /\ stale' = FALSE /\ strayed' = FALSE
    /\ UNCHANGED <<strategy, tableVars, source, late, changes, delays>>

Statement == [name |-> Statements[plan][step], window |-> window]

\* Spark executes a statement, if the table it names is there.
Execute(s) ==
    /\ exists \/ s.name \in Creates \cup OfView
    /\ exists' = (exists \/ s.name \in Creates)
    /\ target' = Effect(s, target)

\* A view is its session's, where no later statement needs it.
MayComeLate(s) ==
    /\ s.name \notin OfView
    /\ delays < MaxDelays /\ delays' = delays + 1
    /\ late' = late \cup {s}

\* The statement succeeds; a copy is left when the answer to an earlier one was lost.
StatementSucceeds ==
    /\ phase = "running"
    /\ Statement.name \in NeedsView => view
    /\ Execute(Statement)
    /\ view' = CASE Statement.name = "createView" -> TRUE
                 [] Statement.name = "dropView"   -> FALSE
                 [] OTHER -> view
    /\ MayComeLate(Statement) \/ UNCHANGED <<late, delays>>
    /\ step' = step + 1
    /\ phase' = IF step = Len(Statements[plan]) THEN "ok" ELSE "running"
    /\ UNCHANGED <<strategy, plan, source, window, base, stale, strayed, attempts,
                   changes>>

\* The statement fails, in Spark or on its way there; RunTask returns.
StatementFails ==
    /\ phase = "running"
    /\ phase' = "failed"
    /\ UNCHANGED <<strategy, plan, tableVars, source, view, late, step, window, base,
                   stale, strayed, attempts, changes, delays>>

\* RunTask returns an error, but the statement was accepted.
StatementAbandoned ==
    /\ phase = "running"
    /\ Statement.name \in NeedsView => view
    /\ MayComeLate(Statement)
    /\ phase' = "failed"
    /\ UNCHANGED <<strategy, plan, tableVars, source, view, step, window, base, stale,
                   strayed, attempts, changes>>

-----------------------------------------------------------------------------
\* The run has deleted what it is about to insert.
Cleared ==
    \E i \in 1..(step - 1) :
        Statements[plan][i] \in {"deleteAll", "deleteByKey", "deleteWindow"}

\* No statement of the runs for this window and plan.
Foreign(s) ==
    \/ s.window # window
    \/ \A i \in DOMAIN Statements[plan] : Statements[plan][i] # s.name

\* It is executed after all, in its own session, where other copies may follow;
LateExecuted(s) ==
    /\ Execute(s)
    /\ (late' = late \ {s} /\ UNCHANGED delays) \/ MayComeLate(s)
    /\ stale' = (stale \/ (Foreign(s) /\ target' # target))
    /\ strayed' = (strayed \/ (Cleared /\ target' # target))
    /\ UNCHANGED <<strategy, source, view, runVars, changes>>

\* or fails there, or is lost.
LateLost(s) ==
    /\ late' = late \ {s}
    /\ UNCHANGED <<strategy, tableVars, source, view, runVars, stale, strayed,
                   changes, delays>>

\* Between two statements the session expires, or another REPL takes over.
SessionLost ==
    /\ view
    /\ view' = FALSE
    /\ UNCHANGED <<strategy, tableVars, source, late, runVars, stale, strayed,
                   changes, delays>>

\* The tables the query reads change.
SourceChanges ==
    /\ changes < MaxChanges
    /\ changes' = changes + 1
    /\ source' \in Sources \ {source}
    /\ stale' = TRUE
    /\ UNCHANGED <<strategy, tableVars, view, late, runVars, strayed, delays>>

Done == phase # "running" /\ UNCHANGED vars

Next ==
    \/ \E w \in RunWindows, fullRefresh \in BOOLEAN : StartRun(w, fullRefresh)
    \/ StatementSucceeds \/ StatementFails \/ StatementAbandoned
    \/ \E s \in late : LateExecuted(s) \/ LateLost(s)
    \/ SessionLost \/ SourceChanges
    \/ Done

Spec == Init /\ [][Next]_vars
-----------------------------------------------------------------------------
StatementNames ==
    UNION {{Statements[p][i] : i \in DOMAIN Statements[p]} : p \in {strategy, Render(TRUE)}}

\* Every variable stays in its range, and a run never goes past its strategy's
\* statements.
TypeOK ==
    /\ strategy \in Strategies
    /\ plan \in {strategy, Render(TRUE)}
    /\ exists \in BOOLEAN
    /\ target \in [Row -> Nat]
    /\ source \in Sources
    /\ view \in BOOLEAN
    /\ phase \in {"idle", "running", "ok", "failed"}
    /\ step \in Nat \ {0}
    /\ phase = "running" => step <= Len(Statements[plan])
    /\ window \in RunWindows
    /\ base \in [Row -> Nat]
    /\ stale \in BOOLEAN /\ strayed \in BOOLEAN
    /\ late \subseteq [name : StatementNames, window : RunWindows]
    /\ attempts \in 0..MaxAttempts
    /\ changes \in 0..MaxChanges
    /\ delays \in 0..MaxDelays

\* What one undisturbed run makes of base.
Intended(q) ==
    LET src == Query(window)
        new == IF q \in src THEN 1 ELSE 0
        seen(rows) == \E r \in rows : r.key = q.key
    IN  CASE plan = "ddl" -> base[q]
          [] plan \in {"create_replace", "truncate_insert"} -> new
          [] plan = "append" -> base[q] + new
          [] plan = "delete_insert" -> IF seen(src) THEN new ELSE base[q]
          [] plan = "time_interval" -> IF q.at \in window THEN new ELSE base[q]
          [] plan = "anti_join" -> IF seen(Rows(base)) THEN base[q] ELSE base[q] + new
          [] plan = "anti_join_window" ->
               IF seen(Rows(base) \cap InWindow(window)) THEN base[q] ELSE base[q] + new
          [] plan = "merge" -> Merged(base, src)[q]

IsIntended == target = [q \in Row |-> Intended(q)]

\* DELETE ... IN and MERGE compare with "=", which NULL keys escape.
KeyedBySql == {"delete_insert", "merge"}
KeysComparable ==
    plan \in KeyedBySql => Null \notin {s.key : s \in source}

\* The strategies documented as re-runnable, and those meant to replace: however
\* many runs failed half-way, were given up or succeeded before it, and whatever of
\* theirs is still executed, a run that succeeds leaves what one clean run would
\* have, and it stays; unless meanwhile the query's result changed, a statement of
\* another window or plan changed the table, or a late one of this did so after
\* the run had deleted what it was about to insert.
RerunEqualsCleanRun ==
    phase = "ok" /\ plan # "append" /\ ~stale /\ ~strayed /\ KeysComparable
        => exists /\ IsIntended

\* "create+replace is a single atomic statement" (DESIGN.md, 3.5), and so are the
\* merge, the insert of an anti join and a ddl, "deliberately never destructive"
\* (DESIGN.md:325): between, after and amid failed runs the table is as it was
\* before or as it should be, whatever is executed late or again.
AtomicStrategies == {"create_replace", "merge", "anti_join", "anti_join_window", "ddl"}
NeverPartial ==
    plan \in AtomicStrategies /\ ~stale /\ KeysComparable
        => target = base \/ IsIntended

\* "multi-column keys and NULL-bearing keys both dedupe correctly" (README.md:210):
\* an unbounded anti join never puts a key into the table twice, whatever fails,
\* is executed twice or changes between two runs.
AntiJoinDedupes ==
    strategy = "anti_join" =>
        \A q, r \in Rows(target) : target[q] = 1 /\ (q.key = r.key => q = r)
=============================================================================
