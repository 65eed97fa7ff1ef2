-------------------------------- MODULE SCD2 --------------------------------
(***************************************************************************)
(* The version history that the strategies scd2_by_column (with and        *)
(* without incremental_key) and scd2_by_time keep, over any number of runs *)
(* on a source that changes (materialization.go:268-538).                  *)
(*                                                                         *)
(* Every run is one statement: Delta executes it completely or not at all, *)
(* and a statement repeated by the client is Merge or FullRefresh twice.   *)
(* The query returns each primary key once and no NULL in a primary or     *)
(* incremental key; upstream does not date rows in the future.             *)
(***************************************************************************)
EXTENDS Integers, FiniteSets

CONSTANTS
    Keys,        \* values of the primary key
    Values,      \* values of the other columns
    Null,        \* SQL's NULL
    Strategies,  \* the strategies to run: see AllStrategies
    MaxTime,     \* CURRENT_TIMESTAMP() stops here
    MaxVersions  \* no run starts on a table with more versions than this

AllStrategies == {"by_column", "by_column_with_key", "by_time"}

ASSUME StrategiesAssumption == Strategies \subseteq AllStrategies
ASSUME TimeAssumption == MaxTime \in Nat \ {0}
ASSUME NullAssumption == Null \notin Values

VARIABLES
    now,       \* CURRENT_TIMESTAMP()
    strategy,  \* the asset's strategy
    source,    \* what the query returns: the row of each key it has
    table,     \* the versions in the target
    known,     \* (history) the keys in the source at the latest run
    fresh,     \* (history) the source has not changed since that run
    seen,      \* (history) per key, the latest time a run has learnt about it
    late       \* (history) keys that came with a time below seen

history == <<known, fresh, seen, late>>
vars == <<now, strategy, source, table, history>>

Forever == MaxTime + 1
Times == 0..MaxTime
Rows == [val : Values \cup {Null}, ik : Times]
Versions == [key : Keys, val : Values \cup {Null}, ik : Times,
             from : Times, until : Times \cup {Forever}, current : BOOLEAN]
Sources == UNION {[S -> Rows] : S \in SUBSET Keys}

Later(a, b) == IF a > b THEN a ELSE b

-----------------------------------------------------------------------------
(* The MERGE of buildSCD2ByColumnQuery and buildSCD2ByTimeQuery *)

\* "a != b" is not true when either side is NULL.
SqlDiffers(a, b) == a # Null /\ b # Null /\ a # b

\* The comparison of a source row with the current version of its key.
SupersedesEqualTime(row, v) ==
    IF strategy = "by_time"
    THEN v.from <= row.ik
    ELSE SqlDiffers(v.val, row.val) \/ v.ik # row.ik

Supersedes(row, v) ==
    IF strategy = "by_time"
    THEN v.from < row.ik
    ELSE SqlDiffers(v.val, row.val) \/ v.ik # row.ik

\* _valid_from of a new version and _valid_until of the one it replaces.
ChangeTime(row) == IF strategy = "by_column" THEN now ELSE row.ik

\* The source joined with the target: what is to be inserted for a version that
\* its own merge closes.
ReplacedWithoutCompare(v) == v.current /\ v.key \in DOMAIN source

Replaced(v) == v.current /\ v.key \in DOMAIN source /\ Supersedes(source[v.key], v)

\* USING: each row of the query, and once more if it replaces a version.
MergeSource ==
    {[key |-> k, current |-> TRUE] : k \in DOMAIN source}
        \cup {[key |-> v.key, current |-> FALSE] : v \in {v \in table : Replaced(v)}}

\* ON target.pk = source.pk AND target._is_current AND source._is_current
MatchesEitherRow(s, v) == v.key = s.key /\ v.current

Matches(s, v) == v.key = s.key /\ v.current /\ s.current

Close(v, t) == [v EXCEPT !.until = t, !.current = FALSE]

\* WHEN MATCHED AND ... and WHEN NOT MATCHED BY SOURCE AND target._is_current
UpdatedClosesAll(v) ==
    IF \E s \in MergeSource : Matches(s, v)
    THEN IF Supersedes(source[v.key], v) THEN Close(v, ChangeTime(source[v.key])) ELSE v
    ELSE Close(v, now)

Updated(v) ==
    IF \E s \in MergeSource : Matches(s, v)
    THEN IF Supersedes(source[v.key], v) THEN Close(v, ChangeTime(source[v.key])) ELSE v
    ELSE IF v.current THEN Close(v, now) ELSE v

NewVersion(k) ==
    [key |-> k, val |-> source[k].val, ik |-> source[k].ik,
     from |-> ChangeTime(source[k]), until |-> Forever, current |-> TRUE]

\* WHEN NOT MATCHED THEN INSERT
Inserted ==
    {NewVersion(s.key) : s \in {s \in MergeSource : \A v \in table : ~Matches(s, v)}}

-----------------------------------------------------------------------------
Init ==
    /\ now = 1
    /\ strategy \in Strategies
    /\ source \in [{} -> Rows]
    /\ table = {}
    /\ known = {}
    /\ fresh = FALSE
    /\ seen = [k \in Keys |-> 0]
    /\ late = {}

RunsOn ==
    /\ Cardinality(table) <= MaxVersions
    /\ known' = DOMAIN source
    /\ fresh' = TRUE
    /\ UNCHANGED <<now, strategy, source>>

\* A run.
Merge ==
    /\ RunsOn
    /\ table' = {Updated(v) : v \in table} \cup Inserted
    /\ seen' = [k \in Keys |->
                   IF k \in DOMAIN source THEN Later(seen[k], source[k].ik)
                   ELSE IF k \in known THEN now ELSE seen[k]]
    /\ late' = late \cup {k \in DOMAIN source : source[k].ik < seen[k]}

\* A run with --full-refresh, the first one included: buildSCD2ByColumnFullRefresh,
\* buildSCD2ByTimeFullRefresh.
FullRefresh ==
    /\ RunsOn
    /\ table' = {NewVersion(k) : k \in DOMAIN source}
    /\ seen' = [k \in Keys |-> IF k \in DOMAIN source THEN source[k].ik ELSE 0]
    /\ late' = {}

\* Upstream adds, changes or removes a row.
SourceChanges ==
    /\ \E k \in Keys :
          \/ \E row \in [val : Values \cup {Null},
                         ik : IF strategy = "by_column" THEN {0} ELSE 1..now] :
                source' = [j \in DOMAIN source \cup {k} |-> IF j = k THEN row ELSE source[j]]
          \/ source' = [j \in DOMAIN source \ {k} |-> source[j]]
    /\ source' # source
    /\ fresh' = FALSE
    /\ UNCHANGED <<now, strategy, table, known, seen, late>>

Tick ==
    /\ now < MaxTime
    /\ now' = now + 1
    /\ UNCHANGED <<strategy, source, table, history>>

Next == Merge \/ FullRefresh \/ SourceChanges \/ Tick

Spec == Init /\ [][Next]_vars
-----------------------------------------------------------------------------
Current == {v \in table : v.current}

\* Types; only a current version is open-ended.
TypeOK ==
    /\ now \in 1..MaxTime
    /\ strategy \in Strategies
    /\ source \in Sources
    /\ table \subseteq Versions
    /\ known \subseteq Keys
    /\ fresh \in BOOLEAN
    /\ seen \in [Keys -> Times]
    /\ late \subseteq Keys
    /\ \A v \in table : v.current <=> v.until = Forever

\* A key never has two current versions, whatever sequence of runs, changes,
\* disappearances and returns led here: a version is inserted by the merge that
\* closes its predecessor (materialization.go:346-374).
OneCurrentVersion ==
    \A v, w \in table : v.current /\ w.current /\ v.key = w.key => v = w

\* The versions of a key follow each other without overlapping, unless upstream
\* delivered it with an older time than the table already knew of, by an earlier
\* row or by the run that found it gone.
HistoryIsALine ==
    \A v, w \in table :
        v.key = w.key /\ v.key \notin late =>
            /\ v.from <= v.until
            /\ v # w => v.until <= w.from \/ w.until <= v.from

\* Merges only add to the history: nothing is deleted, and of an existing
\* version only the end of a current one is written.
HistoryIsKept ==
    [][Merge => \A v \in table :
           \/ v \in table'
           \/ v.current /\ \E w \in table' :
                  ~w.current /\ w = [v EXCEPT !.until = w.until, !.current = FALSE]]_vars

\* Run again on the same source, by a retry or the next day, a merge changes
\* nothing.
RerunChangesNothing == [][Merge /\ fresh => table' = table]_vars

-----------------------------------------------------------------------------
\* What the current versions say, as a table without history: LatestRows.
RowOf(k) == LET v == CHOOSE v \in Current : v.key = k IN [val |-> v.val, ik |-> v.ik]

CurrentRows == [k \in {v.key : v \in Current} |-> RowOf(k)]

Latest == INSTANCE LatestRows WITH rows <- CurrentRows

\* The current versions are the rows of the source at the latest run: all of
\* its keys, no others, and for each the newest (by_time) or the last (by
\* column) row, except that a change from or to NULL may go unnoticed.
ImplementsLatestRows == Latest!Spec

\* README.md:188: changed rows are closed and replaced by new versions.
ChangesAreNoticed ==
    [][Merge /\ strategy # "by_time" =>
          \A v \in table' : v.current => v.val = source[v.key].val]_vars
=============================================================================
