---------------------------- MODULE SeedAndSensor ----------------------------
(***************************************************************************)
(* A seed asset loads a CSV file into a table in batches (SeedOperator,    *)
(* seed.go) while a table sensor, often of another pipeline, waits for     *)
(* that table (TableSensor, sensor.go).                                    *)
(*                                                                         *)
(* A row of the file is <<version, index>>.  A statement may fail, or be    *)
(* given up by the client and executed later, and one whose answer was     *)
(* lost is sent again: a second copy of it is executed sooner or later.    *)
(* Every run has a session of its own and leaves it open, so nothing       *)
(* orders the statements of two runs.  Time passes only for the sensor.    *)
(***************************************************************************)
EXTENDS Integers, Sequences, FiniteSetsExt

CONSTANTS
    Sizes,         \* the numbers of rows of the file's versions
    BatchSize,     \* seedBatchSize
    SensorTimeout, \* helpers.GetSensorTimeout
    PokeInterval,  \* helpers.GetPokeInterval
    PokeMax,       \* the longest a Select takes, waiting for db.mu included
    MaxRuns,       \* bound: runs of the seed
    MaxLate,       \* bound: statements that may still be executed
    Horizon        \* bound: time

ASSUME SeedAssumption ==
    /\ BatchSize \in Nat \ {0}
    /\ {SensorTimeout, PokeInterval, PokeMax, MaxRuns, MaxLate, Horizon} \subseteq Nat
    /\ Sizes \in Seq(Nat) \ {<<>>}

VARIABLES
    \* The seed:
    file,       \* the version on disk
    table,      \* how often it holds each row
    owner,      \* the run whose CREATE OR REPLACE made it; 0: there is none
    phase,      \* of the operator's run
    loading,    \* the version that was read
    step,       \* index of the next statement; 0 is the CREATE OR REPLACE
    runs,
    late,       \* what may still be executed: statements given up by the client,
                \* and second copies
    \* The sensor:
    sensorMode, pc, outcome,
    answer,     \* of the poke, once Spark has executed it
    clock,      \* since the sensor's start
    began,      \* clock when the poke or the sleep began
    \* Auxiliary:
    doubled,    \* the second copy of an INSERT was executed on it
    strayed,    \* so was a statement of an older run, or its CREATE OR REPLACE again
    since       \* clock when the table appeared

seed == <<file, phase, loading, step, runs>>
content == <<table, owner, doubled, strayed, since>>
sensor == <<sensorMode, pc, outcome, answer, clock, began>>
vars == <<seed, late, content, sensor>>

Rows == UNION {{v} \X (1..Sizes[v]) : v \in DOMAIN Sizes}
Exists == owner # 0
-----------------------------------------------------------------------------
(* SeedOperator *)

\* The statements are 0..LastStep: the last batch may be short.
LastStep(v) == (Sizes[v] + BatchSize - 1) \div BatchSize

\* rows[start:end] with an end one too far.
BatchOverlapping(v, k) ==
    {r \in Rows : r[1] = v /\ r[2] > (k - 1) * BatchSize
                      /\ r[2] <= Min({k * BatchSize + 1, Sizes[v]})}

\* rows[start:end]
Batch(v, k) ==
    {r \in Rows : r[1] = v /\ r[2] > (k - 1) * BatchSize
                      /\ r[2] <= Min({k * BatchSize, Sizes[v]})}

\* A second copy may come, when one was not enough.
CopyOf(s) == [s EXCEPT !.copy = TRUE]

\* Spark executes a statement of some run.
Execute(s) ==
    /\ \/ late' = late \ {s}
       \/ late' = (late \ {s}) \cup {CopyOf(s)} /\ ~s.copy /\ Cardinality(late') <= MaxLate
    /\ IF s.step = 0
       THEN /\ table' = [r \in Rows |-> 0]
            /\ owner' = Max({owner, s.run})
            /\ doubled' = FALSE
            /\ strayed' = (s.run <= owner)
            /\ since' = IF Exists THEN since ELSE clock
       ELSE /\ table' = [r \in Rows |->
                           table[r] + IF r \in Batch(s.version, s.step) THEN 1 ELSE 0]
            /\ doubled' = (doubled \/ s.copy)
            /\ strayed' = (strayed \/ s.run # owner)
            /\ UNCHANGED <<owner, since>>

Statement == [run |-> runs, version |-> loading, step |-> step, copy |-> FALSE]

\* readSeedCSV reads the whole file before the first statement.
StartRun ==
    /\ phase # "running" /\ runs < MaxRuns
    /\ runs' = runs + 1
    /\ phase' = "running"
    /\ loading' = file
    /\ step' = 0
    /\ UNCHANGED <<file, late, content, sensor>>

StatementSucceeds ==
    /\ phase = "running"
    /\ Execute(Statement)
    /\ step' = step + 1
    /\ phase' = IF step = LastStep(loading) THEN "ok" ELSE "running"
    /\ UNCHANGED <<file, loading, runs, sensor>>

\* RunTask returns the error of a statement that was not executed.
StatementFails ==
    /\ phase = "running"
    /\ phase' = "failed"
    /\ UNCHANGED <<file, loading, step, runs, late, content, sensor>>

\* RunTask returns, but the statement was accepted.
StatementAbandoned ==
    /\ phase = "running"
    /\ phase' = "failed"
    /\ late' = late \cup {Statement} /\ Cardinality(late') <= MaxLate
    /\ UNCHANGED <<file, loading, step, runs, content, sensor>>

\* It is executed after all, or lost with its session or REPL.
LateExecuted(s) == Execute(s) /\ UNCHANGED <<seed, sensor>>

LateLost(s) == late' = late \ {s} /\ UNCHANGED <<seed, content, sensor>>

FileChanges ==
    /\ file + 1 \in DOMAIN Sizes
    /\ file' = file + 1
    /\ UNCHANGED <<phase, loading, step, runs, late, content, sensor>>

-----------------------------------------------------------------------------
(* TableSensor *)

Return(o) == pc' = "done" /\ outcome' = o

\* RunTask up to its loop; with mode "skip" it has no loop.
StartSensor ==
    /\ pc = "start"
    /\ IF sensorMode = "skip" THEN Return("ok") ELSE pc' = "top" /\ UNCHANGED outcome
    /\ UNCHANGED <<seed, late, content, sensorMode, answer, clock, began>>

\* time.After(sensorTimeout); at the very moment the timer may be late.
TimerFired == clock >= SensorTimeout

\* The timer is set anew by every poke.
TimerPendingAnew == clock - began <= SensorTimeout

TimerPending == clock <= SensorTimeout

Timeout ==
    /\ pc = "top" /\ TimerFired
    /\ Return("timeout")
    /\ UNCHANGED <<seed, late, content, sensorMode, answer, clock, began>>

\* default: conn.Select
Poke ==
    /\ pc = "top" /\ TimerPending
    /\ pc' = "poking"
    /\ answer' = "none"
    /\ began' = clock
    /\ UNCHANGED <<seed, late, content, sensorMode, outcome, clock>>

\* Spark lists the tables.
PokeExecuted ==
    /\ pc = "poking" /\ answer = "none"
    /\ answer' = IF Exists THEN "found" ELSE "missing"
    /\ UNCHANGED <<seed, late, content, sensorMode, pc, outcome, clock, began>>

PokeReturns ==
    /\ pc = "poking" /\ answer # "none"
    /\ IF answer = "found" THEN Return("ok") /\ UNCHANGED began
       ELSE IF sensorMode = "once" THEN Return("missing") /\ UNCHANGED began
       ELSE pc' = "sleeping" /\ began' = clock /\ UNCHANGED outcome
    /\ UNCHANGED <<seed, late, content, sensorMode, answer, clock>>

\* One failing poke ends the sensor.
PokeFails ==
    /\ pc = "poking"
    /\ Return("error")
    /\ UNCHANGED <<seed, late, content, sensorMode, answer, clock, began>>

\* The interval in other units.
WakesLate == clock >= began + 2 * PokeInterval

Wakes == clock >= began + PokeInterval

WakeUp ==
    /\ pc = "sleeping" /\ Wakes
    /\ pc' = "top"
    /\ UNCHANGED <<seed, late, content, sensorMode, outcome, answer, clock, began>>

\* ctx ends; during a poke it makes the Select fail.
Cancel ==
    /\ pc \in {"top", "sleeping"}
    /\ Return("cancelled")
    /\ UNCHANGED <<seed, late, content, sensorMode, answer, clock, began>>

\* Timers run and a Select ends.
Tick ==
    /\ clock < Horizon
    /\ \/ pc = "poking" /\ clock < began + PokeMax
       \/ pc = "sleeping" /\ ~Wakes
    /\ clock' = clock + 1
    /\ UNCHANGED <<seed, late, content, sensorMode, pc, outcome, answer, began>>

-----------------------------------------------------------------------------
Init ==
    /\ file = 1 /\ table = [r \in Rows |-> 0]
    /\ phase = "idle" /\ loading = 1 /\ step = 0 /\ runs = 0
    /\ late = {}
    /\ sensorMode \in {"skip", "once", "wait"}
    /\ pc = "start" /\ outcome = "none" /\ answer = "none"
    /\ clock = 0 /\ began = 0
    /\ owner = 0 /\ doubled = FALSE /\ strayed = FALSE /\ since = 0

Next ==
    \/ StartRun \/ StatementSucceeds \/ StatementFails \/ StatementAbandoned
    \/ (\E s \in late : LateExecuted(s) \/ LateLost(s)) \/ FileChanges
    \/ StartSensor \/ Timeout \/ Poke \/ PokeExecuted \/ PokeReturns \/ PokeFails
    \/ WakeUp \/ Cancel \/ Tick

Spec == Init /\ [][Next]_vars
-----------------------------------------------------------------------------
Loaded == {r \in Rows : table[r] > 0}
Batches(v, k) == UNION {Batch(v, j) : j \in 1..k}

\* A seed replaces its table whole: whatever runs failed half-way, were given up
\* or read another file before it, the table is the first batches of one version,
\* all of them once a run has succeeded, and each row is there once unless an
\* INSERT was executed twice.  That ends when a statement of an older run, or a
\* second CREATE OR REPLACE, is executed on it, and holds again from the CREATE
\* OR REPLACE of the next run on.
SeedReplacesTable ==
    Exists /\ ~strayed =>
        /\ \E v \in DOMAIN Sizes : \E k \in 0..LastStep(v) : Loaded = Batches(v, k)
        /\ phase = "ok" => Loaded = {r \in Rows : r[1] = loading}
        /\ ~doubled => \A r \in Rows : table[r] <= 1

\* The timeout is looked at between pokes only: the sensor may overrun it by one
\* poke and one sleep and no more, never reports it early, and pokes once in mode
\* "once".
SensorReturnsInTime ==
    /\ clock <= IF sensorMode = "wait" THEN SensorTimeout + PokeMax + PokeInterval
                                       ELSE PokeMax
    /\ outcome = "timeout" => clock >= SensorTimeout

\* A sensor that times out on an existing table missed it by a sleep and a poke at
\* most, and one that succeeds has seen it.
TableIsNoticed ==
    /\ outcome = "timeout" /\ Exists => clock - since <= PokeInterval + PokeMax
    /\ outcome = "ok" /\ sensorMode # "skip" => Exists
=============================================================================
