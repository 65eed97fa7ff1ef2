# bruin_fabric_lakehouse in TLA+

The repository is a connector that runs the assets of a bruin pipeline on
Microsoft Fabric: it renders each asset to Spark SQL, submits the statements
through the Livy API and waits for them. This directory holds TLA+ modules of
its core, the TLC configurations that check them, and TLAPS proofs of what
matters most. Line numbers refer to `src/fabricspark/`.

## 1. Inventory

| Component | State it keeps | Operations | What should hold |
|---|---|---|---|
| High-concurrency REPL pool (`db.go:173-263, 350-367`) | `hcPool` (buffered channel), `hcLive` under `mu`; REPLs at Fabric | `checkoutREPL`, `returnREPL`, `discardREPL`, `runStatementHC`, `Close` | slots are never leaked or freed twice, a REPL has one user, a return never blocks, every call gets through |
| Shared Livy session (`db.go:115-163, 369-378`) | `session` under `mu`; the session and its statement queue at Fabric | `ensureSession`, `runStatement`, `Close` | one session, nobody uses one that was closed or replaced, a 404 recreates it once and repeats nothing |
| Request envelope (`livy.go:164-245`) | attempt counter, last error | `doRequest`, `parseRetryAfter` | resends wait, decisions are final, reported successes are real |
| Session and statement calls (`livy.go:247-661`) | none but locals | create, poll until idle, submit, `waitForStatementAt`, delete, for sessions and REPLs | results are true, deadlines hold, new objects survive early 404s |
| Token provider (`token.go`) | `token`, `expiresAt` under its own mutex | `Token`, `fetchToken` | one fetch at a time, no token near its end |
| Materializer (`materializer.go`, `materialization.go`) | none; the table and the temporary view at Fabric | one list of statements per strategy | a rerun repairs what a failed run left |
| Operators (`operator.go`) | none | `RunTask`: extract, render, run statement by statement | stops at the first failure |
| SCD2 (`materialization.go:266-538`) | the version history in the table | merges by column, by column with an incremental key and by time; two full refreshes | one current version per key, no overlap, nothing lost, reruns change nothing |
| SQL text (`db.go:268-283, 490-547`, `livy.go:337-340`) | none | `splitStatements`, `sanitizeSQL`, `runSQL` | the statements that arrive are those that were written |
| Seeds (`seed.go`) | the seeded table | create or replace, insert in batches | the table holds the beginning of one version of the file, or all of it |
| Table sensor (`sensor.go`) | none but its timers | poke, sleep, time out | ends near its timeout, notices the table |
| Column checks (`checks.go`) | none | values written into a query | Spark reads the values that were configured |
| Configuration, results and catalog | none | validation, decoding | - |

**Interactions.** bruin's scheduler runs operators, sensors, seeds and checks
in goroutines that share one `DB`. Each statement goes through `runStatement`:
in the default mode it holds `db.mu` from the check of the session to the
result; with high concurrency it owns one REPL meanwhile, and `db.mu` only
guards `hcLive`. Both use `LivyClient`, whose every request passes `doRequest`,
which asks the token provider for a token before each attempt. A materialized
asset is several statements: in high-concurrency mode each may get another
REPL, and a session may expire between two of them.

**What is hard.** Slots reserved under the mutex and given up outside it; a
channel whose send may block; REPLs and sessions that die while they are
cached; creation that fails after the object exists; answers lost, so that
requests are executed twice or later than their successors; deadlines that race
with results; a statement that goes on after its caller gave up; assets and
seeds that stop half-way and are run again; two readers of the same SQL text
that disagree on where a statement ends. `PROJECT.json` lists these hazards
with their lines and the properties that cover them.

## 2. Modules

| Module | Models | State | Actions |
|---|---|---|---|
| `REPLPool` | high-concurrency mode | `pool`, `hcLive`, per goroutine `pc`, `repl`, `rejected`; Fabric's `alive`, `stmt` | one per channel operation, `db.mu` section or API exchange |
| `REPLLease` | abstract: what a capped pool of exclusive resources promises | `idle`, `creating`, `lease` | reserve, create, take, give back, drop |
| `SharedSession` | default mode | `mu`, `session`, per goroutine `pc`, `current`, `retried`, `id`; Fabric's `state`, `queue`, `executed`, `lost` | one per critical step between two of which Fabric may move |
| `LivyRequest` | `doRequest` for one request and an unreliable network | loop variables; copies `flying`, `late`, `applied`, `doubts` | loop top, backoff, token, send, answer, time out, late arrival |
| `StatementPoll` | `waitForStatementAt` for one statement | loop variables, clock; Fabric's `statement`, and its `answer` on the way | loop, poll executed, poll answered (404, error, state), sleep |
| `TokenCache` | `servicePrincipalTokenProvider` | `mu`, `token`, `expiresAt`, clock | lock, use, fetch |
| `Materialization` | `RunTask` over the statements of the table strategies, with reruns and full refreshes | `exists`, `target` (bag of rows), `source`, `view`, `plan`, `phase`, `step`; `late` statements | statement succeeds, fails, is abandoned, is executed late or lost; runs start; source changes; session is lost |
| `SCD2` | the SCD2 merges and full refreshes over a changing source | `table` (set of versions), `source`, `now` | merge, full refresh, source changes, tick |
| `LatestRows` | abstract: a table that follows its source one run at a time | `rows` | run, rebuild |
| `SQLText` | `splitStatements`, `sanitizeSQL`, `runSQL`, and the literals of seeds, checks and the table sensor, beside Spark's lexer | `script`, `go`, `spark`; `cells` | read the next token; a value more, a token more |
| `SeedAndSensor` | `SeedOperator` in several runs beside a `TableSensor` waiting for its table | `file`, `table`, `step`, `late` statements; sensor's `pc`, `clock` | statement succeeds, fails, is abandoned, is executed late; poke, sleep, time out, cancel |

`MC*` modules add symmetry or constant values for TLC. `*Proofs` modules hold
the theorems. `REPLPool` instantiates `REPLLease`, and `SCD2` instantiates
`LatestRows`, with a refinement mapping; that they implement these abstract
specifications is checked by TLC and proved by TLAPS.

How the modules fit together: the exchanges that `REPLPool` and `SharedSession`
treat as one action are `doRequest` (`LivyRequest`) and, for `await`, the polls
of `StatementPoll`. What the two promise is what the callers assume: a success
was executed (`SuccessIsReal`), a 404 is a decision (`DecisionsAreFinal`), the
result is true (`ResultIsTrue`), the call returns (`PollReturns`). The lost
answers of `LivyRequest` reappear as `lost` in `SharedSession`, as
`AcquireFailed` and `SubmitFailed` in `REPLPool`, and as a statement executed
twice in `Materialization` and `SeedAndSensor`; there the sessions and REPLs of
`SharedSession` and `REPLPool` reappear as the loss of a temporary view and as
statements that come late (`late`). A run of an asset or seed is a process with
a session of its own (README.md:54), and the session of the run before it is
not closed, so in neither mode does anything order the statements of two runs:
what an older run gave up may be executed before, between or after those of the
next. `SCD2` needs none of this: each of its runs is one statement.
What a statement is, and what its literals say, is `SQLText`.

Abstractions a reader should know of:

- A REPL or session identity may be used again once nobody refers to it; this
  keeps histories finite. Accordingly at most `Cardinality(Sessions)` sessions
  whose creation was lost are alive at once.
- In `REPLPool` and `SharedSession` a copy whose answer is lost has reached
  Fabric before the next attempt; copies that arrive late are in `LivyRequest`.
  A REPL runs the copies of one submit in order, the answered one last.
- `StatementPoll` and `TokenCache` count ticks. Fabric looks at the statement,
  or issues the token, in one step, and the answer arrives in another: it may be
  as old as the request. Clocks stop at `Horizon`, which
  `HorizonAssumption` puts beyond the latest return.
- `Materialization`: the query returns each key once, and in the window
  strategies only rows of the window (README.md:193-196), so a MERGE never
  fails for duplicate keys. `Render` replaces the strategy under
  `--full-refresh`, but not ddl (`materializer.go:36-40`). A statement that
  names a missing table fails; the strategies that cannot create one then fail
  until a full refresh has. `SessionLost` stands for a recreated session and,
  with high concurrency, for a statement that got another REPL. A statement that
  was given up, or a second copy of one, is executed at any later time, in the
  session of its run, with the query's result of that time (`LateExecuted`), or
  never (`LateLost`, which also stands for one that does not find its view any
  more). Each statement is atomic and Delta puts those on one table in a row.
  Late or repeated, the statements that only create or drop a view would change
  nothing: the view is its session's, and no statement of that session needs it
  to be otherwise. `BETWEEN` is membership in a window.
- `SCD2`: primary keys are unique and not NULL, the incremental key is not NULL
  and not in the future; values are one column, which stands for all that are
  compared. Delta executes a MERGE completely or not at all, and a repeated one
  is `Merge` twice.
- `SQLText`: a text is a sequence of the tokens that either reader treats
  specially; `wildcard` is `%` or `_`, before which Spark keeps a backslash, and
  `x` stands for everything else, but for the letters and digits that Spark
  reads as another character after a backslash (`\n`, `\0`, ...). Nested
  comments, hints and CR are left out, and all columns are strings. A piece
  with nothing but a line comment says nothing and counts on neither side of
  `SubmittedAsWritten`; it is submitted all the same (`runSQL` looks for an
  empty text only), and Spark finds no statement in it. `SparkReads` is written
  after Spark's lexer, not after code of this repository.
- `SeedAndSensor`: rows are `<<version, index>>`. Time passes for the sensor
  only, since nothing in a seed depends on it. Late statements are as in
  `Materialization`: no order between runs. `Horizon` is beyond the latest
  return. The query sensor is bruin's and not here.
- Wording, logging and JSON are left out.

## 3. Runs

| Run | Question | Instance |
|---|---|---|
| `pool_safety` | is the accounting exact, are REPLs exclusive and idle when pooled, does a return ever block, does the pool implement `REPLLease`? | 3 goroutines, 2 slots, 3 REPLs, 5 calls |
| `pool_liveness` | does every call return? | 3 goroutines, 1 slot, 3 calls |
| `session_safety` | does everyone use the session the DB caches, and is a statement repeated only for lost answers? | 3 goroutines, 3 sessions, 3 calls, all faults |
| `session_recovery` | one session, none after `Close`, if sessions start and answers arrive; does every call return, those waiting for `db.mu` included? | 3 goroutines, 2 sessions, 4 calls, expiry and timeouts |
| `request_retries` | are decisions final, successes real, and is a request executed again only where nobody could know? | the real 5 attempts; Retry-After of 0, 1 and 20 s |
| `poll_results` | are results true and timely, disappearances real, results no older than one request and one sleep when a timeout throws them away? | timeout 6 ticks, sleeps of 2 and 4, requests of up to 2, 2 tolerated 404s |
| `token_cache` | one fetch at a time, no token near its end, every call returns | 3 goroutines, 3 calls, margin 2, fetch 1, lifetimes 0, 3, 5 |
| `materialization_reruns` | does a run repair what failed runs left; are atomic strategies atomic; does anti join dedupe? | 1 key and NULL, 2 times, 2 values, with and without a table, 2 runs, 1 change of the source, 1 late statement or copy; 5.5 million states |
| `scd2_history` | one current version, a line of versions, nothing lost, reruns without effect; does it implement `LatestRows`? | all 3 strategies, 2 keys, 2 values and NULL, 2 times, runs on up to 2 versions; 367 thousand states |
| `scd2_null_change` | *violated*: is a changed row always closed and replaced? | 1 key, `by_column` |
| `sql_text` | does `splitStatements` cut where statements end, is what was written submitted, do values arrive? | every script of up to 6 of 11 tokens, every 2 values of up to 2 |
| `seed_and_sensor` | is the table the beginning of one version of the file, unless a statement of an older run strays into it; does the sensor return in time and notice the table? | a file of 3 rows, then of 2, batches of 2; 3 runs, up to 2 late statements; timeout 3, interval 2, pokes up to 1; 5.2 million states |

Why the bounds are enough:

- Pool: three goroutines for two slots give a holder, another holder and a
  waiter; a third REPL identity gives a replacement while both others are
  referred to. Five calls let a goroutine pool a REPL, another take it, a third
  close, and go on afterwards. One slot in the liveness run makes every
  goroutine wait.
- Session: three goroutines give a holder and two waiters of which one closes;
  three sessions give the cached one, its replacement and an orphan (two
  suffice where there are no orphans). One lost answer per statement already
  separates "executed twice" from "submitted again".
- Poll: the wait grows past its ceiling within the timeout, the third 404
  exceeds the limit with one miss left over, a request may straddle the
  deadline.
- Token: the lifetimes are always stale (0), within one tick of the margin (3)
  and reusable (5); the third goroutine waits behind the other two.
- Materialization: windows `{1}` and `{1, 2}` differ in one time; one key and
  NULL give matches by `=` and `<=>`, two values give updates. The second run
  repairs what a failed one left, or is the full refresh that makes the table,
  and the late statement may be executed before, between and after each of its
  statements. More runs and late statements are left to the proofs.
- SCD2: with two versions a key has a closed and a current one, or two keys
  have one each; a merge then replaces, closes or adds, and the clock lets the
  next come later or at the same time. Two keys, since merges treat each alone
  but for the USING clause, which the second key exercises.
- SQL text: a construct of either reader opens and closes with two tokens; six
  let one be inside another with a semicolon before, in or after it. Two values
  give a pair whose quotes could meet. `AssetProofs` has texts of any length.
- Seed and sensor: 3 rows in batches of 2 have a full and a short batch, 2 rows
  an exact one; three runs give an abandoned statement, its successor and the
  next, with a statement of each older one, or one and its copy, still to come.
  Timeout 3 may fall into a sleep of 2, or into the second poke, after a poke of
  0 or 1 tick.

The bounds on histories are `MaxCalls`, `MaxLost`, `MaxMisses`, `MaxRequest`,
`Horizon`, `MaxAttempts`, `MaxChanges`, `MaxDelays`, `MaxTime`, `MaxVersions`, `MaxScript`,
`MaxCells`, `MaxCell`, `PokeMax`, `MaxRuns` and `MaxLate`. `maxRequestAttempts` and
`NotFoundLimit` are constants of the code (5 and 20; the runs of the poll use
2). The `Done` disjuncts let a finished pipeline stutter, so that any other
state without a successor is reported as a deadlock, and there is none.
`SQLText` and `SeedAndSensor` really stop, when their bounds are reached, and
are run without this check.

### Fairness

Weak fairness of a goroutine's next step (`Progress`, `Step`, `Client`): the Go
scheduler runs runnable goroutines, timers fire, and each request ends because
`http.Client.Timeout` bounds every attempt and `doRequest` their number. The
waits for a session or REPL to start have a deadline of their own. In
`REPLPool` and `SharedSession` a statement that runs is assumed to end, since a
call without timeout waits as long as it runs; `StatementPoll` assumes nothing
of it, and `PollReturns` is stated for a set timeout. Weak fairness of `Lock`
and of the wait at the cap suffices because the calls are bounded: a waiter is
overtaken finitely often. In Go, `sync.Mutex`'s starvation mode gives the same
for `db.mu` without a bound; `checkoutREPL` has no such guarantee, since a
newcomer may take a REPL at the top of its loop between two receives of a
waiter. Failures, cancellations, expiries and new calls are never obliged to
happen.

### Disagreements between the code and its documents

One run checks a sentence the code does not keep: `scd2_null_change`. The
README says that `scd2_by_column` closes and replaces changed rows; the merge
compares with `!=`, so a change from or to NULL is not one. `LatestRows` says
exactly which rows may be kept for it.

The models show more, in the terms of the properties that exclude it:

- *Pool.* A REPL whose start or whose POST's answer is lost is not released,
  nor is one whose DELETE fails, and the slot is used for another: more REPLs
  live at Fabric than `MaxConcurrentREPLs` (`config.go:89`); the properties
  count slots. After an application expires with several REPLs pooled, the one
  retry meets another dead one (`db.go:131-133`); `RejectedREPLNeverReused`
  keeps only the same one out. `cancelling` is taken for final, so a REPL may
  be pooled while it is busy (`PooledREPLsIdle` needs `~UserCancels`).
- *Session.* A session that starts too slowly, that answers one early 404
  (README.md:273-275) or whose creation's answer was lost lives on beside its
  successor, as does one whose DELETE fails (`OneLiveSession` needs `AllHeard`,
  none of the faults `start`, `unlisted`, `lost` and `close`). The timeout
  stops the polling, not the statement.
- *Polling.* An absent `statement_timeout_seconds` is no timeout, not 12 h
  (`config.go:99`); `PollReturns` is stated for a timeout above zero. A result
  that came in time, but after the last poll was executed, is discarded;
  `FinishedIsNoticed` bounds how old it can be: one request and one sleep.
- *Requests.* Retry-After is slept in addition to the backoff, where
  DESIGN.md:443 has "else" (`waited` in `LivyRequest`). A POST is sent again
  although it may have been executed (`applied`; `OnlyDoubtsRepeat` says when),
  which doubles the rows of a time window until its next run and the rows of a
  seed's batch (`doubled`).
- *Reruns.* A statement that timed out, or whose run was ended, runs on in a
  session nobody closes. If it is the INSERT of a delete-and-insert strategy
  and is executed after the DELETE of the next run, its rows are there twice; a
  seed's batch lands in the table of the next run, a CREATE OR REPLACE empties
  it. Both modes allow it. The properties name exactly these cases (`strayed`)
  and say that the next run repairs them.
- *Text.* `Misread` lists what `splitStatements` and `sanitizeSQL` take for
  something else than Spark does: backslashes in literals, comment brackets
  inside literals and line comments, quotes and semicolons inside block
  comments. So a seed whose rows hold an apostrophe and a semicolon is cut in
  two, against "semicolons inside literals survive" (`db.go:489`), and
  `/*...*/` inside a value is lost. A pattern's backslashes do not reach
  Spark's regular expression, unless before `%` or `_`, and an accepted value
  with an apostrophe ends its literal (`ValuesArrive` says for which values each
  query is right).
- *Sensor.* It succeeds as soon as the seed's CREATE OR REPLACE has been
  executed, with batches still to come; it is documented to wait for existence.

## 4. Proofs

All theorems hold for every value of the constants that satisfies the named
assumptions of the modules. The inductive invariants they are proved from:

- **`REPLPoolProofs`**, `PoolInv`: types, what a goroutine's locals are at each
  line, `LiveCountExact`, `ExclusiveREPL`, `RejectedREPLNeverReused`. The
  conjuncts need each other: a discard keeps `hcLive >= 0` only because the
  goroutine is one of the `Holders` it counts; a return has room only because
  the holder is not in the pool; `Owned` excludes the rejected REPL only
  because nobody else held it when it was rejected. Lemmas on the channel
  (`TakeFromChannel`, `SendToChannel`) and on the number of holders
  (`HoldersMove`) carry the arithmetic. From `PoolInv` follow the safety
  properties, `CloseGivesBackAllSlots`, and `PoolImplementsLease`, in which
  each action maps to an action of `REPLLease` or a stutter. `IdleInv` on top
  of it (a pooled REPL, and one about to be, has no running statement) gives
  `PooledREPLsAreIdle` when users do not cancel statements.
- **`SharedSessionProofs`**, `SessionInv`: types, that a goroutine in a
  critical step holds `mu`, what its locals are, and `CallerUsesCachedSession`
  with `CachedSessionStarted`. The mutex is what makes the last two inductive.
  `LiveSessionsAreKnown` (a live session is the cached one or the one being
  started or closed) is inductive under `AllHeard` and gives `OneSessionIsLive`
  and `CloseLeavesNoSession`. `ExecutionInv` gives
  `ExtraExecutionsAreLostAnswers` with every fault allowed: a call's statement
  waits only in the queue of the session it was submitted to, and its
  executions plus its waiting copies never exceed the answers lost plus one;
  `Copies` counts it in a queue.
- **`LivyRequestProofs`**, `RequestInv`: copies executed, late and flying are
  no more than the attempts sent; the counter and the time slept at each line;
  what a status says about Fabric. For `OnlyDoubtsAreRepeated`: an attempt
  that is answered leaves no copy behind, one that times out counts as a doubt. `BackoffAssumption` (powers of two are
  positive) is stated as an assumption since exponentiation is opaque to the
  solvers.
- **`StatementPollProofs`**, `PollInv`: how far the clock can be past the
  deadline at each line, and how many of the 404s were misses.
  `HorizonAssumption` keeps the clock from saturating before the latest return.
  `NoticeInv` relates the age of an unread result to the request or sleep in
  progress: since the poll was executed it can have aged by the rest of the
  request and the sleep after it.
- **`TokenCacheProofs`**: the goroutine that checks or fetches holds the mutex;
  an answer on its way is no older than the fetch; the cached token's end is
  what was noted, late by a fetch at most.
- **`MaterializationProofs`**. `AntiJoinInv`: each execution of an anti join
  inserts only keys absent at that moment, and the query has each key once, so
  no key is there twice. `TableInv`: only a view can be created before a
  missing table stops the run, so a run that succeeds has a table.
  `ReplaceInv`, for the strategies that clear a `Region` and fill it again:
  outside the region the table is still `base`, whatever late statements of the
  same window and plan do; inside, unless one of them changed it since the run's
  own deletion (`strayed`), it is empty after the deletion and as intended after
  the insertion, whatever it was before; that is why failed runs, and what is
  executed of them before the deletion, leave no trace. `EmptiedIsCleared` ties
  these lines to `Cleared`. `AtomicInv`, for the strategies with one effective
  statement: the table is `base` or as intended, and as intended once that
  statement has been executed; executing it again, late or as a copy, changes
  nothing (`EffectIsAtomic`). For merge
  that is `MergeIsIdempotent`: the copies of a row after a MERGE are counted by
  the `Cardinality` of a set (`Count`), and a row that has once taken the
  source's values is what the next MERGE makes of it. Together they give
  `RerunsAreClean` and `AtomicNeverPartial` for every strategy. Keys, times and
  values are assumed finite sets, as those of a table are.
- **`SCD2Proofs`**. `OneCurrentVersion` is inductive by itself with the types:
  a version is inserted for a key without a current one or with the version
  that its own merge closes. `UpToDate` (every current version is one the
  source does not supersede, and every key of the source has one) holds after a
  run until the source changes, and makes the next merge a stutter. `LineInv`
  bounds the versions of a key that never came late by what has been `seen` of
  it (`Orderly`) and gives `HistoriesAreLines`. `ImplementsLatest` maps a merge
  to `Run`, which keeps the rows not superseded.
- **`AssetProofs`**, on `SQLText`. `Simulates`: as long as the script is plain,
  `splitStatements` is in the mode that follows from the lexer's (block
  comments count as code), and both have cut off the same statements. The other
  two properties are about whole texts, so their proofs need an induction over
  sequences; it is done by a smallest counterexample, over sets (`NatSets`,
  `SeqSets`, from well-foundedness of `Nat`), with each fold first shown to go
  one token at a time. `ScriptsAreSubmitted`: on a plain piece `sanitizeSQL`
  and the lexer are in step, so what is kept of the sanitized piece is what was
  kept of the piece; trimming takes newlines the lexer is silent about, and the
  trimmed semicolon is one inside a trailing line comment. `ValuesReachSpark`:
  a seed's literal is read back exactly, one escape at a time, and an INSERT
  stays one piece unless the values hold both an apostrophe and a semicolon.
  The "exactly when" of the sensor and of checks is a count (`Costs`): every
  apostrophe that Spark has a literal say, and every backslash it says that
  precedes no wildcard (`Loose`), took one more backslash in the text than the
  query has to give. Where each backslash precedes a wildcard the literal is
  read back exactly (`SensorLiteralReads`). A comment is lost as
  `SanitizeSQL` leaves a text alone only if it has none.
- **`AssetProofs`**, on `SeedAndSensor`. `SeedInv`: unless a statement strayed,
  the table holds the first `k` batches of some version (`Contents`), the
  statement of its run that comes next, submitted or late, is batch `k + 1` of
  that version, and the copies still to come are of the first `k` (`Coming`). It
  rests on a run giving up at most one statement, its last (`RunInv`), and on
  the arithmetic of the batches: they do not overlap, and
  the last one ends with the file (`NextBatch`, `AllBatches`). `SensorInv`
  bounds the clock at each line of the loop, and says how long ago a table that
  was missed can have appeared.

`PooledREPLsAreIdle`, `OneSessionIsLive` and `CloseLeavesNoSession` carry the
condition named in their statement; it is that of the run that checks the
property.

Every invariant and every action property of a passing run is stated by a
theorem. Only model-checked: the liveness properties (`EveryCallReturns` of
`REPLPool`, `SharedSession` and `TokenCache`, and `PollReturns`), ENABLED being
out of the prover's reach; and the counterexample to `ChangesAreNoticed`.

## 5. Not modelled

- Views (`materialization.go:60-64`): `DROP TABLE IF EXISTS` before `CREATE OR
  REPLACE VIEW`. A view holds no rows whose history could go wrong. A table of
  that name is gone when the second statement fails; what Spark does when the
  name to drop is that of the previous run's view is decided by its catalog,
  not by this code.
- The rejections of bad settings (no primary key, no columns, reserved column
  names), which end a run before its first statement, and
  `LogIfFullRefreshAndDDL`.
- `CREATE SCHEMA IF NOT EXISTS` before the first statement: repeating it
  changes no table, and failing in it is a first statement that fails.
- The PySpark operator (one statement, in `REPLPool` and `SharedSession`), the
  query sensor and the counting of rows in checks (bruin's).
- Configuration (validation of strings, the ingestr URI), results and catalog
  (decoding of JSON): they keep no state and decide nothing a model would tell
  apart.
- Column types of seeds: casts, and NULL for an empty cell.

What could follow: an abstract statement service (a call ends with the truth or
an error, at most one execution per answer kept) that `SharedSession`
implements, with `StatementPoll` refining its `await`.
