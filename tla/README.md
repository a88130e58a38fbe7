# LPTS in TLA+

LPTS is a DuckDB extension that turns the optimized logical plan of a query back into SQL
text (a list of CTEs), in DuckDB's or another dialect, and that can verify itself: with
`lpts_check` on, every `SELECT` runs together with its rewrite and the two results are
compared. This directory holds its models. Paths below are those of the repository
(`src/...`, `test/...`, `benchmark/...`).

## 1. Inventory

| Component | State it keeps | Operations | Hard behaviour | What makes it correct |
|---|---|---|---|---|
| **lpts_check** `src/lpts_extension.cpp` | per connection: mode (`enabled`, `in_rewrite`, `log_qnum`), run record (two sums, `sides_remaining`, two excuses); the log file | `SET lpts_check`, optimizer hook, hash operator, sink operator, verdict function | two sides on many threads, last one out; exceptions at three rewrite stages; re-entry through nested planning; a record that outlives an interrupted query; two connections, one log | a verdict is true, written once, never skipped silently; the query's own rows are untouched; the guard never leaks |
| **planning pipeline** same file | the depth of open planning scopes, thread-local; per connection the settings and the guard `in_rewrite` | parse, rename clocks, plan, optimize (LPTS's list of optimizers or DuckDB's) | plannings nest through the planner itself; each may throw; other threads plan at the same time | a translated plan keeps its clocks as calls, a client's own plan knows nothing of LPTS |
| **pragmas, table functions** same file | none between calls | `lpts`, `lpts_query`, `print_ast_query`, `lpts_normalize_query` | they plan while the statement that calls them is being bound | as above |
| **EXPLAIN (FORMAT SQL)** same file | none; a carrier statement travels through DuckDB's planner | parser override, optimizer hook | the hook plans inside a planning, which may itself be inside one | the text explained is the text planned |
| **AstBuilder** `src/lpts_ast_builder.cpp` | `column_map` from bindings to names, with its scopes; the maps for delim joins and CTE bodies | one case per logical operator | projections left out, groups renamed under their old binding, hidden and pruned columns, names that collide after sanitizing or in another case | every binding has a name, and the name denotes that column and no other |
| **AstFlattener** `src/lpts_ast_flattener.cpp` | `node_count`, `cte_nodes`, three maps from indexes to CTE names | `FlattenNode` per AST node, pipeline fusion | names must exist before they are used; a fusion attempt that is abandoned half way | unique names, definition before use, fusion keeps meaning |
| **CTE nodes** `src/cte_nodes.cpp` | the entries to print, signatures, replacements, dependencies, reference counts, the rename map | text of each node and join type; reuse of equal bodies, pruning, materialization, depth bound, removal of prefixes, inlining of the last CTE | each pass changes what the next one counts or compares; names are replaced in text, whoever's they are | the text means the list; sharing runs nothing twice; nesting is bounded |
| **expression renderer, dialects** `src/lpts_expression_renderer.cpp`, `src/lpts_date_format.cpp` | none | text per expression and dialect; date formats in both directions | lambda parameters and the columns they capture; fields that are prefixes of others | a lambda captures the same column; a format is read back as it was or refused |
| **scanner, normalizer** `src/lpts_sql_scanner.cpp`, `src/lpts_parser.cpp` | the text between passes | eight passes over the text, one per construct | constructs inside each other; strings that look like code | all of it is rewritten, and nothing else |
| **corpus gate** `test/corpus_gate` | file counter, results, baseline | claim, spawn, poll, kill, parse, compare | worker pool, deadline, partial logs | each file once; the gate reports every gain |
| **SQLStorm driver** `benchmark/sqlstorm` | worker process, pipes, active phase | start, submit, poll, stop | timeout against late answer, crash, restart | one result per query, no orphan, blame on the right query |

Calls: pragmas, `EXPLAIN (FORMAT SQL)` and lpts_check all run the planning pipeline, then
AstBuilder, AstFlattener and rendering. lpts_check is itself a callback of the pipeline it
runs. The corpus gate runs lpts_check in LOG mode in many processes and reads its logs; the
benchmark runs it in STRICT mode in one forked worker.

## 2. Plan

1. `LptsCheck` with its contract `CheckContract` (done; proved).
2. `CorpusGate`: pool, deadline, log parsing, baseline (done; proved).
3. `SqlStormRunner`: driver, worker, pipes (done; proved).
4. `Flattener`: a stack machine for `FlattenNode`, `AstToInlineSQL` and pipeline fusion, and
   `FlattenerMeaning`: the statement means the plan (done; names and types proved).
5. `CteText` with `CteTextMeaning`: from the list to the text; `JoinText`: one join and its
   text (done; joins, sharing and nesting proved).
6. `AstBuilder`: from the plan's bindings to the tree's names (done; proved).
7. `PlanningScope`: nested plannings, their scope, clocks and hooks (done; proved).
8. `DateFormat`, `InputNormalizer`: algorithms on texts against reference definitions (done).

Composition: `MCStrict` runs `LptsCheck` in STRICT mode and the driver that relies on it,
`MCBuilder` runs `AstBuilder` and `PlanningScope`, `MCText` runs `CteText`,
`JoinText`, `DateFormat` and `InputNormalizer`, each beside the others: they share no state, and
an idle menu or an empty workload selects which one moves.

Abstract specifications: `CheckContract` (done); for the flattener the meaning of the plan
(`Plan` in `FlattenerMeaning`), for the text the meaning of the list (`ListedMeaning` in
`CteTextMeaning`), for a join the plan's operator (`PlanRows` in `JoinText`), for the builder
the values that bindings stand for (`means` of a node).

Theorems: every safety property that a run checks of `LptsCheck`, `CorpusGate`, `SqlStormRunner`,
`Flattener`, `AstBuilder`, `PlanningScope` and `JoinText`, `NothingRunsTwice` and `DepthBounded` of `CteText`, and the refinement of `CheckContract` (done; section 15 lists them).

## 3. Module `LptsCheck`

**State.** `settings` is what the hook reads from the session; `in_rewrite`, `log_qnum` and
`run` are the fields of `LptsCheckModeState` and `LptsCheckRunState`; `todo`, `held` and
`side` are the executor: rows of a side not yet handed out, rows in the hands of a thread,
and whether the side has been finalized. `stmt`, `phase`, `answer`, `returned` describe the
statement as its client sees it. `taken` and `judged` are ghosts, and so is the statement
stored with each line of the log.

**Data abstracted.** A statement is a record of what the hook can learn of it: its kind,
what the text heuristic and the plan inspectors answer, where its rewrite fails, what each
side returns and whether it raises. A result is a bag over `Rows`. The order-independent
64-bit hash is replaced by the bag, so collisions do not exist here.

**Actions.** The hook is one action per way out before the `try` (`PassThrough`,
`RefuseProfiled`, `BadDialect`, `Bypass`, `BeginRewrite`), then one per stage and outcome of
the rewrite. It runs on one thread without yielding, but an interrupt may come between two
stages, so the stages are separate actions. `Claim` and `Accumulate` stand for a chunk
received by any thread and for the `fetch_add` after its local hashing; two threads holding
chunks at once is `held` with rows of both. `OnSideDone` is the `fetch_sub`, `ActOnVerdict`
the comparison that follows it: another side's step may come in between. `Cancelled` drops
all tasks wherever they are, leaving the run record as it is.

**Bounds.** `MaxRows` = 2 over two rows: enough for a lost duplicate (equal sets, different
bags), for equal counts with different rows, and for two chunks of one side in flight.
`MaxStatements` = 2: the second statement finds what the first one left behind, after every
possible ending of it; nothing in the code looks further back than the previous record.
Six settings differ from each other in one switch each. 24 statements cover every rewrite
outcome, excuse, refusal and way of raising. Two connections with one small statement each suffice
for the shared log, since no other state is shared.

**Fairness.** Weak fairness of the statement's own steps: the planning thread and the
executor's pool run until the statement ends. Clients owe nothing.

**Runs.**

| Run | Shows |
|---|---|
| `check_log` | LOG mode, all statements and settings, and two connections on one log file: types, conservation of rows, truth of every line, one line per number, rows unchanged, no SELECT slips through, refinement of the contract |
| `strict` | STRICT mode: errors and successes are deserved, the same contract; and under fairness every statement ends (the rest of this run is in section 5) |
| `log_never_raises` | finding: in LOG mode a check can fail a query that works (README.md:169 says never) |

`NoSelectSlipsThrough` exempts two kinds of `SELECT`, which the hook lets pass on purpose: those
that name an inspector, and those planned while a statement verification is active (README.md:164-166).
About the second kind the repository disagrees with itself. docs/test.md:75-76 and
lpts_corpus_gate.cpp:34-36 say that LOG mode neutralizes `PRAGMA enable_verification` so that more than
half of the corpus is still checked; the hook returns early in both modes and says never to reset
that setting (lpts_extension.cpp:1362-1371). Such queries run unchecked and leave no line in the log,
so the gate has nothing to compare there. No property is violated by this, because the model follows the
code; `WantsCheck` states the exemption and quotes the sentence it disagrees with.

Deadlock is checked in `check_log`: a client can always change a setting, so a state without a
successor would be a statement that hangs.

**Refinement.** `CheckContract` knows no hash, thread or plan: a statement is submitted,
intercepted with the connection's next number, judged at most once by looking at both
complete bags, and only a statement that was let pass or judged succeeds. `ContractSpec` maps
`phase`, `taken` and `judged` to a standing and `answer` to an outcome.

**Proofs** (`LptsCheck_proofs`, for every set of connections, rows, statements and settings).
`TypeOK` is not inductive: that `sides_remaining` does not fall below zero depends on how many
sides are running. The invariant of theorem `Inductive` strengthens it: while a fused UNION
runs, `sides_remaining` is the number of running sides; a side that no longer runs has
nothing to come and nothing in flight; so the side that owes the verdict finds both sums
complete; sums, rows in flight and rows to come add up to the result; and the run record
carries the excuses of the current statement. From it follow `TypeCorrect`, `ConservesRows`
and `LogIsSound`. The assumptions are those of the module: statements and settings are
well-formed, the bounds are naturals.

Its second part adds `CInv`, the statement as its client and the log see it: what the
ghosts `taken` and `judged` say follows from where the statement's thread is, and while the two
sides run the verdict is out exactly when both are done, with at most one of them owing it
(`Standing`); a running statement has no answer, and one of STRICT mode that was judged and runs on
has agreed or is excused (`Answering`); the client has what the original's side has hashed
(`Delivering`); a number drawn and not judged yet is the connection's latest and stands on no
line (`Numbering`). None of the three properties is inductive without it: `StrictAnswersSound`
speaks of the end and the verdict falls earlier, `OneLinePerNumber` needs that the next line
has an unused number, `RowsUnchanged` that the side feeding the client is the hashed one. They
are `StrictIsSound`, `JudgedOnce` and `ReturnsItsRows`. `SlipsThroughNever` is the action property:
outside of a rewrite the guard is down, so the hook cannot pass a `SELECT` by. `KeepsContract`
is the refinement: the hook's ways out are `Intercept` or `Decline` of the contract, the verdict is
`Judge`, wherever it is taken (catch block, last side, recursive query), the ways to end are
`Succeed` and `Abort`, and everything between is a stutter.

The table in docs/test.md calls FAIL "a genuine rewrite bug" and UNSUPPORTED an intentional
refusal. `RewrittenReplanStatus` and `OriginalReplanFails` show the other ways to these
verdicts: the catch block goes by the stage and the type of the error, so an interrupt or a
failed replan gets one of them too, and a refusal is UNSUPPORTED also where it is raised while the
rewrite is planned. There is no run for the wording.

## 4. Module `CorpusGate`

**State.** `next_file` and `results` are the variables of `main`; `pc` and `slot` are the
worker threads; `proc`, `progress` and `log` are the unittest processes and their log files;
`has_baseline` and `baseline` are the committed file; `improved` and `exit_code` are what a
run says. `cut`, `launches` and `base` are ghosts. A build of LPTS is a function from files
to what their queries come to, so that a baseline can be written with one build and checked
with another. A query's number is its place in its connection, as `log_qnum` of `LptsCheck`
has it.

**Actions.** A worker claims (`Claim`, the `fetch_add`), truncates the log and spawns
(`Launch`, which may fail and goes on), polls (`Reap`), kills at the deadline (`Kill`,
possible also when the process has ended since the last poll) and parses (`Parse`). A process
runs its queries in any order of its connections (`RunQuery`) and may hang at the end. `main`
starts a run in one of three modes, joins the pool, then writes the baseline, gates or only
prints. `ParseLptsLog` compares whole verdicts: "UNSUPPORTED: profiling is enabled" is
dropped. `EntryOf` is a summary line written and read back.

**Bounds.** Two workers and two files, so that both race for the counter, one may take both
files while the other has not started, and one leaves while the other still waits for its process;
the list is both files or only the first (`--update-baseline` of a subset). Two runs: one writes the
baseline, with one of twelve builds, and one is compared with it, with the same or another build.
The first file has two queries on one connection and the second one query on each of two; the builds
differ in the verdicts that the comparison distinguishes and in whether the file's process is spawned, is
slow or hangs. More files would repeat what these do: `Claim` looks at the counter only, and
the comparison goes through the files one by one.

**Fairness.** Threads and processes are scheduled and clocks advance; a hanging process owes
nothing, and nobody must start a run.

**Runs.**

| Run | Shows |
|---|---|
| `gate` | types; each file launched exactly once, results reported only when final, a run ends although processes hang; an alarm is caused by a gain or by a baseline run that was cut short; no gain is missed in a file that ran to its end on one connection; "improved" is true of such files |
| `gate_two_connections` | finding: with two connections, numbers collide and a gain passes (docs/test.md:113) |

The conditions of these properties are what the code does not protect: a file cut short at
its deadline or never spawned has an empty or partial log, can be called improved and hides
gains, and `--update-baseline SUBDIR` replaces the whole baseline by that of the subset, after
which the other files have entries of zero.

**Proofs** (`CorpusGate_proofs`, for any files, workers, connections and builds).
`EveryFileOnce` is not inductive. `PoolInv` adds where each index stands: no two workers hold
the same one, every index they hold is below `next_file`, a file beyond the counter has not
been launched, one behind it has been launched once unless a worker is just about to, and
workers leave only when the list is used up. A list names no file twice, so this is
`LaunchedOnce`. `ResultsInv` adds that a process runs only while a worker waits for it and
that a slot nobody holds agrees with its file's log: `ReportsFinalResults`. The assumptions
are that the lists have no duplicates and that there is at least one worker.

Its second part follows the verdicts from the queries to the report (`VInv`). `LogInv`:
for a file launched in this run, the WRONG and FAIL lines of its log count a set of queries, those
its process has run, each once, and their index list is the set of their numbers. `CutInv`: a
slot nobody holds belongs to a file that ran to its end or is in `cut`. `ReportInv` and `BaseInv`:
an entry of the results, and of the baseline, counts and indexes a set of queries that were bad in
the run it stems from, all of them if the file was not cut short. `ExitInv` ties the exit code
and the list of improved files to the last check. Then the gate's comparison of two counts and two sets
of numbers is about two sets of queries: a larger set, or one with a new number, has a new member
(`AlarmsAreReal`), a set that lost members or has fewer is no superset (`ImprovementsAreReal`), and with one
connection a number is a query, so that equal sets of numbers are equal sets of queries
(`GainsAreReported`). This is the step that fails with two connections, in the proof as in run
`gate_two_connections`. `GateTyped` is `TypeOK`. The assumption is that builds differ in what becomes
of a file's queries and not in the queries.

## 5. Module `SqlStormRunner`

**State.** `pc`, `i`, `child_pid`, `active_phase`, `result`, `summaries` are the driver's
variables; `proc` is the kernel's view of every process forked; `child` is the latest worker:
where it is, whether its database is still valid, whether `lpts_check` is set. `to_child` and
`from_child` are the pipes, holding whole messages, or one that was cut off by the death of
its sender. `sql` in a message, `opened` in a summary and `past_duckdb` are ghosts.

**Actions.** The worker opens the database or fails to, reads a query or the zero that ends
it, passes through its phases and answers; a signal may end it in a phase or inside a message.
The driver's poll loop is one action per outcome of `poll` and of what it reads. `Expire` is
the passing of the deadline, between any two steps: the loop looks at the clock at its head
and once more after reading a phase. Between a `poll` that timed out (`PollTimesOut`) and the
look at the process (`PollIdle`) the worker may still answer or die. Stopping a worker waits
200 ms and then kills it; both are one action, since the driver does not tell them apart.

**Data abstracted.** A query is what it does in each phase. An INTERNAL or FATAL error
invalidates the worker's database and every later statement is FATAL; this is DuckDB's
behaviour as the driver's comments and `IsCrashError` describe it.

**Bounds.** Lists of two queries, 19 kinds first and 4 second, in both settings of
`--compare_perf`: what a query leaves behind meets each of the ways the next can end. Three
queries where the second is an empty file, the only one that leaves the worker as it was.
`MaxTorn` = 2 allows every death to cut off a message.

**Fairness.** Both processes are scheduled and time passes. A query may hang and the worker
may be dead.

**Runs.**

| Run | Shows |
|---|---|
| `strict` | types; no process forgotten and none left; pipes in step with the queries; LPTS timeouts deserved; each query judged by itself; green means checked; the driver ends |

The run also checks `LptsCheck` in STRICT mode, the mode in which the worker runs the last phase of a query. The
two share no state (`lpts_check` is one of a worker's phases here, with its outcome given), so a behaviour
has either a workload or, after a driver without queries has ended, statements for the checker; fairness is that of
both. Deadlock is not checked in `strict`: the driver stops.

`JudgedByItself` leaves out one kind of query: the one that follows an INTERNAL error in a
phase of LPTS. The driver restarts the worker after a timeout, a crash or an INTERNAL error of
DuckDB's own phase (line 1160); after one of an LPTS phase the next query meets an invalidated
database and is recorded as CRASH whatever it does (`Poisoned`).

**Proofs** (`SqlStormRunner_proofs`, for any workloads, lists of any length and any number of torn
messages). `RunnerInv` has the exchange of one query in three stages: the query is sent and nothing
else is in the pipes; its phases run, the ones before the current went well, and only phase
messages are in the pipe; it has ended, with at most one result or cut message, the last in the pipe,
whose state the query deserves. Between queries a worker that is kept is at rest with empty pipes.
`ProcessInv` says that the driver knows of every process not yet reaped, `PositionInv` that there is
one summary per query passed. Where the worker's database is invalid, an earlier query has
poisoned it or the current one has just broken it: this goes through every stage, because the
state of a query is judged by a database that queries before it have used. From it follow
`NoneLeftBehind`, `AnswersToTheirQueries`, `TimeoutsAreDeserved`, `EachForItself` and
`GreenIsChecked`. `JudgedByItself` is part of the invariant: whether a query is poisoned is a matter of
earlier summaries. The assumption on a workload is that only the `lpts_check` phase can find a
query wrong or unstable.

The converse of `LptsTimeoutsDeserved` does not hold: DuckDB may be blamed when the phase
message was in the pipe, unread, as the deadline passed, or when opening the database took
the time.

## 6. Modules `Flattener` and `FlattenerMeaning`

**State.** `node_count`, `cte_nodes`, `has_recursive_cte` are members of `AstFlattener`;
`body_info` and `delim_source` are its maps `cte_index_to_body_info` and
`delim_get_source_cte`; `inline_delim` is the map that `AstToInlineSQL` hands down. `dialect`,
`merge_pipeline` and `root` are the arguments of `AstToCteList`. The recursion is the
sequence `stack`: a frame is an activation of `FlattenNode` ("flat") or `AstToInlineSQL`
("inline"), `at` the point it has reached, `ret` what the last one to end returned. The stack
is explicit so that the maps and the list can be looked at between any two calls.

**Text.** A CTE's body is a sequence of tokens in postfix order, an operator after its
inputs; an input is the name of a CTE or, in an inlined recursive step, the input's own
tokens. A name is an index and whether `_materialized_for_join` was appended. A local `WITH`
of a recursive step is replaced by its text at each reference, which is what its scope makes
of it. Columns, expressions and conditions are not represented; what the control flow asks
of them is in a node's `flags` (an aggregate without keys, a projection that can throw, a key
that would become a literal). A delim join has one table index for all of its
`delim_table_indices`.

**Actions.** One per point where the code calls, returns or decides: for each kind of node
that registers or looks up a name (materialized CTE, reference, delim join, delim get,
recursive CTE) entering it and continuing after each child, in both modes; for the ordinary
kinds the search for a chain (`WalkDown`), its end with all of the guards (`WalkEnd`,
`Fuses`), the block (`SourceDone`, `Block`), and the path of one CTE per operator (`NextKid`,
`KidDone`, `BuildNode`, `BuildJoin`, `BuildUnion`, `BuildInline`). `Block` writes the clauses
of the fused `SELECT` in the order in which SQL evaluates them, so an operator put into the
wrong clause shows; a clause whose meaning the fold changes becomes "garbled" and an
aggregate that leaves no trace in the SELECT is missing.

**Meaning.** `Plan` gives the tokens of a plan with every reference resolved by scope;
`Statement` replaces the names of the finished list, from the final statement down, by what
the CTEs of these names contain. `MeansThePlan` compares the two. `Plan` is recursive over
trees, so it lives in a module of its own and stays with TLC.

**Bounds.** Structures: a materialized CTE, a delim join or a recursive CTE around every plan
of up to two more such nodes, joins, set operations, filters or distincts, so that each scope
occurs inside each other, twice over, with all references that are in scope; unions of four
inputs and of one, also inside a recursive step. Two nested levels are where an entry of a map can be
overwritten, lost or looked up in the wrong map. Chains: every sequence of up to five of the
five fusable kinds, and of up to three when the kinds that break a chain (computed limit,
window, throwing projection, literal key of a grouping or a sort, unused aggregate) are included, over a scan that
can be absorbed and one that cannot; and the one chain that fills all seven slots. The walk
is deterministic; the initial state chooses the call. A call ends, so a deadlock is
not checked.

**Runs.**

| Run | Shows |
|---|---|
| `flattener` | types; names are taken once and read only after their definition, under the name they have then; a join's renamed input has no second reader; the statement means the plan; plans are refused exactly where a recursive step has no text |
| `broadcasts_delta` | finding: a join may ask Spark to broadcast a left side that is no delta table (cte_nodes.hpp:313) |

Two things the models show that are not defects of the result. When a grouping key would
become a literal, fusion gives up after it has listed the input's CTEs (line 871), and the
operator's child starts over: the first copy is in the list and nobody reads it. And
`delim_get_source_cte` is never cleaned up; nothing goes wrong because an index has one
delim join.

**Proofs** (`Flattener_proofs`, for any set of plans, trees of any depth and width). The properties
are about a list, but what keeps them true is where a name is before it gets there: `FlattenNode` takes an
index when it builds a CTE, hands the CTE back, and its reader puts it into the list; a join
renames its right input after that. `NamesInv`: indices in the list are below `node_count` and
different, and a CTE on its way back, or the name that a recursive CTE keeps for itself, is in
no list yet. `CustodyInv`: an activation of the per-operator path owns the names of the children
it has got; nobody else holds, has listed a reader of, or has put into a map a name that is owned
(`Free`, `Alone`); every other name that an activation, a map or a text holds is in the list or is
one that a recursive CTE is about to get (`SafeRef`). So the join may rename what it owns
(`JoinsOwnTheirRightSide`), and every body that is listed reads what was listed before it
(`ReadsAreEarlier`), fusion that starts over and text inlined into a step included. `NestingInv` is the
shape of the stack: below an inlined activation everything is inlined. `NamesAreUnique` and
`FlattenerTyped` come from the first parts. The assumptions are that a tree's node has as many
children as its kind takes and that the children are trees.

A key that the fold turns into a literal would be read as a position. A grouping key of that form
makes the fusion give up (`GroupsByPosition`). A sort key is dropped when the `SELECT` is printed,
after the substitution, in both renderings (`GuardOrdinalOrderItems`, cte_nodes.cpp:119-152 and 255):
sorting by a constant orders nothing, so the statement means the plan without it. `literal` stands
for the spellings `IsConstantOrderItem` knows: integers, strings, booleans and NULL.

A `UNION` of one input becomes a projection of it (`Operation`). The model's unions keep duplicates:
where a `UNION` removes them, the inlined form says `DISTINCT` (line 593) and the CTE form does not
(lines 1279-1282). Plans of DuckDB have at least two inputs there.

## 7. Modules `CteText` and `CteTextMeaning`

**State.** `nodes`, `open` and `final` are the list that the flattener hands over, with what in
it is still unread and its terminal node; the other variables are the locals of
`CteList::ToQuery`: `prepared`, `known`, `signatures`, `canonical`, `reused`, and `rename`.
`stage` is the pass being made. The dialect is DuckDB's and no CTE is recursive: otherwise neither
reuse nor the depth bound runs; `deduplicate` is whether the plan is repeatable.

**Text.** An identifier is a sequence, so that `t0_a` is a prefix and a name; a body is its
clauses, each a sequence of expressions over identifiers, its FROM and a tail for what has no
clauses. Substitution goes through all of a body, as the code's does through its text.

**Actions.** The list is made one node at a time (`Scan`, `Filter`, `Project`, `Join`, `Union`,
`Map`, `MaterializedBody`, `CteRef`, `Terminal`) in the shapes of the flattener, fused blocks
among them. Then, one action per pass or per entry of a pass: `Reuse` or `Keep` (lines of the
first loop), `PruneUnreachable`, `MaterializeShared`, `BoundDepth`, `DePrefix`. `WithClause` and
`Closing` are what is printed. `Map` is a projection to a lambda that captures a column; its
parameter is renamed as the renderer does, and `MapFused` replaces the captured column
afterwards, as a fused block does.

**Meaning.** `Meanings` resolves every name as DuckDB does, to exactly one column of one source
and whatever its case, and replaces it by what it stands for; `ListedMeaning` is the meaning of the
list and `PrintedMeaning` that of the text. Sort keys are resolved in two ways: as columns, and
as DuckDB reads the `ORDER BY` of a `SELECT` that renames.

**Bounds.** Lists of three nodes with every kind, of four and five with two or three kinds:
reuse needs two equal CTEs with a reader each, sharing that pruning changes needs one more,
and a chain beyond the depth needs `MAX_INLINE_CTE_DEPTH` + 1 of them. That constant is 3 here
and 16 in the code. Tables have two columns; one has a column that differs from another's in
case only and one that is a keyword.

**Names.** The names of the CTEs and the prefixes of their columns are constants, in the order in
which nodes are made; `NamesAssumption` says that no two CTEs share a name, which is `UniqueNames` of
`Flattener`, and that no table, column or lambda parameter has the name of a CTE. The code does not check the
latter: it counts references by name in the text of a body, so a column `projection_3` would
count as a reading of that CTE. `MenusAssumption` bounds lists by the names there are.

**Proofs** (`Text_proofs`), for lists of any length, any tables and columns, any choice of equal
CTEs and any bound. That nothing runs twice (`TextRunsNothingTwice`) cannot be shown of the text alone: why a
definition that is not materialized has one reader goes back to the list. `TextInv` carries it
through the passes.

* As listed (`ListOk`): a node reads earlier ones only, and what is not the body of a materialized
  CTE is read once at most, where what is still open has not been read at all.
* While entries are made (`PreparedOk`): an entry reads what its node reads, or it is an alias that
  reads a producer in `reused`. So whatever gets a second reader is in `reused`, and at the end who is neither
  materialized nor in `reused` is read once, by the entries and the terminal node together (`CountedOk`).
  Pruning leaves part of the list and cannot add a reader (`PickedCounted`).
* The count marks what is reused and read more than once: after it, whoever is not materialized is
  read once (`SharedOk`, `MaterializeSharedOk`). `MaterializeShared` also unmarks; `ReferenceCountIs`
  says that its count decides exactly that.
* After the boundaries (`DepthOk`) there are depths for all entries, each at least 1, less than
  the bound for what is not materialized and read, and growing from it to its reader. They are
  what `InlineDepth` computes, before it cuts (`BoundDepthOk`). Where there are fewer entries than
  the bound no boundary is set, and the place in the list bounds the depth.

De-prefixing replaces columns and never the name of a CTE (`Strips`, `RenamedParts`), and with the
last entry inlined the closing `SELECT` reads in its place (`OnceInTheText`). `RunsOnce` then goes through the
definitions from the end: the only reader of one that is not materialized runs once.
`NestingWithinDepth` goes through them from the start: the nesting of a definition is no more
than its depth, and no more than the bound. `Runs`, `Nesting`, `InlineDepth`, `Total` and `Reachable` are
recursive functions; that they exist, and so are what their definitions say, comes from
`CourseOfValues` and `RecursiveFunction` of `InductionLemmas`.

## 8. Module `JoinText`

**State.** `join`: a type, the operator it belongs to, conditions, dialect, and a small bag of rows
on each side. An instance is chosen and its text looked at; the hard part is in the operators.
Tables and results are functions to rows, whatever their indices are: a row of a join is indexed by
the rows it comes from, one of a side or none.

**Algorithm.** Values are three-valued where SQL's are. `ToQuery` is `JoinNode::ToQuery`: a
native join where the dialect has one, semi and anti joins with the preserved side on the left,
SINGLE as a LEFT join of distinct rows, and a mark as one of three texts: a membership test (an
`EXISTS` for TRUE and two for NULL), one test per comparison, or a LEFT JOIN. `PlanRows` is
what DuckDB's operator returns.

**Bounds.** Bags of up to two rows over three rows on the left and nine on the right with NULL
in either column: empty sides, duplicates, NULL keys on each side and on both. One or two
conditions of every comparison the builder tells apart, alone and together.

**Conditions.** `Executes` says which joins a plan holds and DuckDB runs without an error: a scalar
subquery finds one row, an EXISTS mark has distinct, null-safe keys which are columns of the delim
scan, and marks whose comparisons match independently have left keys. The mark expression of a delim
join whose first condition refers to no column on its right is the constant `true` (`MarkIsTrue`,
lpts_ast_builder.cpp:2626-2642), which a left row without partner would get too: the keys of an
EXISTS mark are never of that form, and other marks are printed as tests that do not use it. With a NULL left key and an empty right side such a mark is
NULL in the text where SQL has FALSE.

**Proofs** (`Text_proofs`), for finite tables of any size and width, any values and any lists of the
six kinds of conditions (`JoinMenusAssumption`). `EveryTextMeansThePlan` needs no invariant: it is about one
join. The marks of `EXISTS` tests are those of the plan's rows by three-valued logic alone
(`IndependentMarkIs`, `MembershipMarkIs`: "not definitely false" is what `IndeterminateIs` says it is).
The texts that join the distinct rows of the right side are the harder ones, since their rows have other
origins than the plan's: where no left row finds two partners, which is what `Executes` says of keys and of
scalar subqueries, a LEFT JOIN has one row for each (`OneEach`), and a one-to-one correspondence makes equal
bags (`SameBag`, `SameAsEach`). For INNER, LEFT, RIGHT and FULL text and plan are the same operator and
nothing is shown but that the type comes through.

## 9. Module `DateFormat`

A format is a sequence of fields (specifiers and literal characters); it is printed for a dialect
(`TryConvertDuckDBDateFormatForDialect`) and read back (`ConvertInputDateFormatToDuckDB`, with
the token tables in their order, since a shorter token may be the beginning of a longer one).
Formats have up to three of 21 specifiers and seven literals, in eight dialects. The literals are those
that a reader may take for something else: a digit that ends a token, a letter that is a token, letters
that begin one, and the `T` of ISO 8601, which no token begins with; and a separator.

README.md:128-130 promises that LPTS never silently emits wrong SQL. For formats the code breaks that
promise in two ways (`FormatsKeepTheirMeaning`), and TLC stops at the first it meets:

| Run | Shows |
|---|---|
| `formats_keep_their_meaning` | finding: a format is printed as the text of another one, or read back as another one |

- Formats that DuckDB tells apart are printed as one text (`ToldApart`): MySQL's `%W` for the week number and the
  weekday (lpts_date_format.cpp:294), Snowflake's `DY` for `%a` and `%A`.
- A format returns from a dialect as another one (`SilentlyChanged`): Spark's literal `a` as `%p` (line 42), Trino's
  `%M` as the month's name, Snowflake's `%B` as `%m%m`, `%%` as a bare `%`.

`FormatsComeBack` (run `text`) says that there is no other way: a format that changes without a refusal
has a field that changes by itself (`ChangesAlone` lists them: `%%` outside of percent formats, Snowflake's `%B`,
Trino's `%M`), or literal letters that spell a field (`LettersSpellAField`), or neighbours that run together
(`FieldsRunTogether`: the same text is printed for a format in which one of the boundaries between
the fields does not exist). What it does not see is a wrong meaning the reader refuses, like MySQL's `%W`: that is
what `ToldApart` is for. What a database other than DuckDB makes of a token is not modelled; the
reader of LPTS stands for it.

## 10. Module `InputNormalizer`

**State.** `operands` and `query` are expressions and the statement made of them, each with the
text DuckDB would want: calls in the arguments of calls, casts, intervals, subscripts, quoted
identifiers and strings that look like calls. `source` is the menu and the dialect.

**Algorithm.** `NormalizeInputSqlToDuckDB` is its eight passes in their order, each a `Pass` over
tokens with what it recognises. A comment or quoted text is one token, so that a pass cannot look
into it: that is what the scanner is for.

**Bounds.** Three operations of eight kinds, or four and five of two kinds, in every dialect; two
calls inside one another meet each of the ways a pass splits and continues.

`NormalizesEverything` leaves out: a call or cast inside the arguments of one with the same
name, which the pass that rewrote the outer one skips (lpts_parser.cpp:447, 689); an interval
with a word after its unit outside parentheses, which is refused (lines 611-614). Not offered
to it: `[b]` after `DISTINCT`, `NOT` or `WHEN`, which is taken for a subscript or a list (lines
187-207), and statements that are no top-level `SELECT`, whose use of result names is not looked
for (lines 755-799).

## 11. Module `AstBuilder`

**State.** `column_map`, `delim_get_source_col_names` and `materialized_cte_body_column_names` are
the builder's. The plan is made while it is walked: `work` is the stack of finished subtrees and
of the operators entered but not finished (set operations, CTEs, delim joins), and `index` and
`serial` number tables and operators. A finished node carries the tree's column names, what
a row of the plan holds at each binding (`means`) and what a row of the text holds in each named
column (`shows`). `reads` pairs what the last operator's expressions get with what they mean.

**Actions.** One per operator, with the code's own handling of it: what it registers in
`column_map`, removes, renames under an old binding, and leaves as the child had it; scans with
struct fields; projections that only pass on, aggregates over projections whose hidden columns
they need, decompressions that are left out, column maps of filters, orders and joins; the scopes
around the inputs of set operations, recursive steps and delim joins. `Finish` is the end of the
walk, with its own renaming of the result.

**Names.** `Mint` is the loop that tries candidates and then suffixes until a name is free, whatever
the case. Names are a table index and characters: two that sanitize to the same, two that differ in
case, and one that looks like another with a suffix are in the tables. Names are words over
`Characters`; numbers in them are `Digits`, which `NamesAssumption` takes to be written differently
when they are different, up to twice the columns an operator may have.

**Bounds.** Eleven menus of operators, with plans of three to five operators, two columns, two open
operators. Each menu is one of the ways in which a binding and a name can come apart: collisions,
left-out projections, decompressions, hidden columns, joins that drop a side or pass a mark, set
operations that restore the left side's names, nested CTEs, correlated subqueries, extensions, literal
rows without columns, groups read under the bindings they had before a filter. An
operator has at most `MaxColumns` columns, far more than these plans have.

**Conditions.** `ColumnsOfItsOwn`: `ReadsWhatThePlanMeans` and `NamesDenoteTheirColumns` leave out plans
where a column the plan does not know of is in the way of another. One way there is a cross product
with literal rows that have no columns (`CrossNothing`, the first point at the end of section 13). The
other is a table function of which no column is read in a branch that has the table indices of another
(`Reuse`): its dummy column is not registered and takes the other's name.

**Proofs**, for any tables and menus whose widths are numbers (`MenusAssumption`), plans of any size
and depth, and any names. `ColumnsHaveNames` (in `Planning_proofs`) is about the moment an operator looks
bindings up, and what it needs is `BuilderInv`, which is about all that an operator above may still ask
for. A map covers a subtree (`Covered`) when every binding that stands for a value has a name in it,
and so have the groups it may be asked for under their old bindings (`stale`) and the columns it
hid (`extra`). `column_map` covers every subtree on the stack; it also has the names that an open
operator handed to its second side (`Handed`): the keys of a delim join under each `DELIM_GET`'s index
and the columns of a recursive CTE. A set operation puts back the map it was entered with, without
what its right side registered, so this map has to cover what lies below on the stack (`ScopesCover`),
though nobody reads it until then. Three lemmas carry
the steps: a finished node takes the place of the last subtrees (`BuildKeeps`), nothing leaves the map
while it does (`BuildGrows`), an operator is entered (`OpensKeeps`). What a map is given may have
any length; only the columns a delim join keeps are counted (`Among`), by `Recursion` of
`InductionLemmas`: a function given by a first value and a step exists.

`ExpressionsReadThePlan` and `NamesMeanTheirColumns` (in `AstBuilder_proofs`) say which column the name
is of. Their invariant is `FitInv`: `BuilderInv`, and for plans of `ColumnsOfItsOwn` that what was read
is right (`RightReads`) and that there is an `A` for which `Sound` holds:

* *Tables.* `A` gives each item of the stack an area, a set of table indices. A name begins with one, so
  names of different areas cannot be the same, whatever characters and suffixes follow (`Layout`).
  Two things blur this. The right branch of a set operation may use the left one's indices, so the
  frame of a set operation has no area of its own; and the names of a `DELIM_GET` are promised by the
  delim join before there is a subtree that has them (`Held`, `Opened`).
* *Subtrees.* Each finished one fits its bindings (`Fits`): its columns are in the order of the
  bindings, each shows what its binding means, no two have the same name in any case, the map names
  the binding after its column, and all these names are of its area. Its groups under their old
  bindings (`StaleFits`) and its hidden columns (`ExtraFits`) are columns that show what they should,
  or are in nobody's way.
* *Open operators.* What each will put back stays true while its second subtree is built: a delim
  join's keys are read under the names it promised as long as no `DELIM_GET` has taken these
  (`Promises`), references to a CTE copy its body's columns (`HandedOn`), and below a set operation
  everything fits the map it was entered with (`ScopesFit`).
* *Later tables.* When no index is used twice, all names are of indices used by now (`FreshIn`), so that
  a scan of which no column is read cannot meet an old name of its own.

A step changes the map for a set of tables (`Agrees`, `Stays`); an item whose area and promises avoid
them keeps fitting (`ItemFitsAgree`), and the step proves `Fits` of the node it makes. That names made
by one operator differ is the lemma about `Mint`: more suffixes are tried than there are names in the
way, and different numbers are written differently. `ColumnsOfItsOwn` is needed: the dummy columns it
leaves out take a place that belongs to another binding, or a name that does.

## 12. Module `PlanningScope`

**State.** `frames` is the call stack of plannings of a connection: a client's statement, `PlanQuery`,
or a planning by `json_serialize_plan`, each with the text, how far it is bound, and what its clocks
have become. `lpts_planning_depth`, `in_rewrite` and the settings are the code's.

**Actions.** Binding goes through a text from left to right (`BindClock`, `BindLptsQuery`,
`SerializePlan`); then LPTS's optimizers (`LptsOptimizeConservative`) or DuckDB's, which call the
hooks of EXPLAIN (`LptsExplainSqlOptimize`) and of lpts_check (`LptsCheckOptimize`, `PlanRewritten`,
`PlanRecursiveCheck`, `EndCheck`); `Return` goes back to whoever called. `Throw` may happen in any
planning, and unwinds to the hook, to `json_serialize_plan` or to the client. `LptsCheck` abstracts
all of this into the stages of one rewrite.

**Bounds.** Six statements that put planner functions, EXPLAIN, views and clocks inside one another,
up to three deep (`Statements`; `Texts` are these and the texts in them); two connections, so that
one plans while the other is in a scope; all settings.

**Proofs** (first part of `Planning_proofs`), for any connections and any set of texts in which every text
inside a text is one of them (`TextsAssumption`); texts may be of any length and nest in any depth,
and plannings too. `PlansFitTheirReadersAlways` needs `PlanningInv`, an invariant of each
connection's stack: the depth is the number of `PlanQuery` frames (`InScope`), the guard is set iff
a frame is in the hook (`Guarded`), only one is (`OneCheck`), and below a second frame there is the
hook or a text that plans others (`Nested`). Of one planning (`FrameInv`) it says that a clock of the
text itself shows in the text, so that `HasWallClockFunctionSQL` keeps DuckDB's optimizers away, and
that what LPTS will translate has its clocks as calls from the moment they are bound. Three lemmas
carry the steps: the innermost planning goes on (`ReplaceTop`), another one starts in it (`Push`),
and an exception leaves the first k of them (`Cut`); every action is one of these or two.
`ScopesInStepAlways` is the part about depth and guard, which no run checks by itself.

**Conditions.** `now()` in the body of a view or macro is bound after the calls of the text were
renamed and does become a constant: `ClocksAreCalls` leaves it out (`own`). `Hides`: with DuckDB's
optimizers for LPTS's own plans (`lpts_enable_data_dependent_optimizers`), an `lpts_query` inside a
view is not seen in the text, and the hook checks the query on the plan of the inner text.

## 13. Runs of sections 7 to 12

| Run | Shows |
|---|---|
| `text` | the text means the list; sharing runs nothing twice; nesting is bounded; joins return the plan's rows; formats come back but for the changes section 9 lists; statements are normalized, or refused where they must be |
| `builder` | expressions read what their bindings mean; names denote their columns and no others; no binding is without a name; plans fit their readers |
| `sorts_by_the_same_keys` | finding: an inlined `ORDER BY` names a result column that is another column (cte_nodes.cpp:1304) |
| `lambdas_keep_their_columns` | finding: a lambda's parameter hides the column that fusion put behind its captured one (lpts_ast_flattener.cpp:912) |

`text` has 0.6 million distinct states and `builder` 1.6 million; all initial choices of menu, list,
plan, join and format are explored to the end of their bounds.

These modules state no fairness: a call of theirs ends or throws, and what matters is what it leaves.
Deadlock is not checked in `builder`: a plan that can be extended no further, and a refused one, stop.

What else the modelling brought up, outside of what the properties say:

* Literal rows without columns have a private dummy column with no logical binding, "so consumers
  still observe a zero-column relation" (lpts_ast_builder.cpp:2391-2392). A cross product emits
  every column of its inputs (lines 2836-2840), the dummy too; when the projection above, which
  drops no binding, is left out as one that keeps the order (lines 858-892), a set operation or an
  INSERT reads the dummy by its position.
* Base columns whose name looks generated (`t1_a`) are replaced by `SubstituteColumnTokens` like
  generated ones. The parameters of one lambda are compared with its captured columns and
  not with each other: `x` and `x_1` may become one.
* The check for clocks reads text: `now ()` with a space is not found (lpts_helpers.cpp), and the
  rewritten SQL is normalized again under `lpts_input_dialect` when it is planned
  (lpts_extension.cpp:475, 1495).
* `EXPLAIN (FORMAT SQL)` says it runs the exact pipeline of PRAGMA lpts (line 851) and does not pass
  `lpts_merge_pipeline` on (line 856). A text with several statements is planned for its first one
  (lines 481-484).
* A table function of which no column is read has no binding registered, so that an expression
  above that needs one refuses the query (`EveryColumnHasAName` says this is the only way).

## 14. What is not shown

* **Model-checked only.** Liveness (`StatementsEnd`, `GateEnds`, `DriverEnds`): the proof system has no
  rule for ENABLED. `MeansThePlan` and `RefusesExactly`: `Plan` and `Statement` are recursive operators,
  which it does not take. `TextMeansTheList` of `CteTextMeaning`, `FormatsComeBack` and
  `NormalizesEverything`: they compare what recursive functions and folds over sequences compute with
  a reference definition, which takes an induction over data. The library's induction theorems take
  an operator, which the provers cannot instantiate; `InductionLemmas` derives induction over a set of
  numbers from the existence of least elements and the existence of functions defined by recursion, and
  so far what `Planning_proofs` needs of concatenations, of `Among` and of the names `Mint` makes,
  `AstBuilder_proofs` of increasing sequences, and `Text_proofs` of totals and depths.
* **Data, not behaviour.** Hash collisions, text heuristics for nondeterminism, which plans can
  raise, and what DuckDB's optimizers do to a plan other than to its clocks.
* **AstBuilder.** The positional fallback that registers a child's bindings, the trailing aliases
  of UNION, window aliases that need sanitizing (line 1514), flipped delim joins of type RIGHT, a
  scan without columns under a UNION (857-878), ASOF joins, DuckLake snapshots, refusals by dialect
  and by kind of expression.
* **Rendering.** The bodies of CTE nodes other than scans, filters, projections, joins, unions and
  references; operators, casts, literals and function names by dialect, which are text produced
  case by case with no state; lambdas inside lambdas or with several captured columns; the
  tree printer.
* **Texts.** Comments, whitespace and the case of keywords in the normalizer; the tokens of the
  EXPLAIN prefix; how pragmas return rows.
* **Settings.** `SET GLOBAL lpts_check`, prepared statements beyond the early return for
  `EXECUTE`, and in `LptsCheck` plan inspectors hidden in views or macros (`PlanningScope` has views).
* **Not part of the program.** The sqllogic tests, build files and packaging.

## 15. Theorems

Each holds for every value of the constants that satisfies the named assumptions of the module.
`Planning_proofs` holds the proofs about `PlanningScope`, those that a binding has a name, and the
lemmas on names, maps and the stack that `AstBuilder_proofs`, which extends it, uses for which column
the name is of.

| Theorem | States | Needs |
|---|---|---|
| `TypeCorrect`, `ConservesRows`, `LogIsSound` | `TypeOK`, `RowsConserved`, `LogLinesSound` of `LptsCheck` | `IInv` |
| `StrictIsSound`, `ReturnsItsRows`, `JudgedOnce`, `SlipsThroughNever` | `StrictAnswersSound`, `RowsUnchanged`, `OneLinePerNumber`, `NoSelectSlipsThrough` | `IInv`, `CInv` |
| `KeepsContract` | `LptsCheck` implements `CheckContract` | `CInv` |
| `LaunchedOnce`, `ReportsFinalResults` | `EveryFileOnce`, `ResultsFinal` of `CorpusGate` | `PoolInv`, `ResultsInv` |
| `GateTyped`, `AlarmsAreReal`, `GainsAreReported`, `ImprovementsAreReal` | `TypeOK`, `AlarmsReal`, `GainsReported`, `ImprovementsReal` | `VInv` |
| `RunnerTyped`, `NoneLeftBehind`, `AnswersToTheirQueries`, `TimeoutsAreDeserved`, `EachForItself`, `GreenIsChecked` | `StormTypeOK`, `NoProcessLeft`, `PipesInStep`, `LptsTimeoutsDeserved`, `JudgedByItself`, `GreenMeansChecked` of `SqlStormRunner` | `RunnerInv` |
| `PlansFitTheirReadersAlways`, `ScopesInStepAlways` | `PlansFitTheirReaders` and `ScopesInStep` of `PlanningScope` | `PlanningInv` |
| `JoinsMeanThePlan`, `EveryTextMeansThePlan` | `JoinMeansThePlan` of `JoinText` | no invariant |
| `TextInvariant`, `TextRunsNothingTwice`, `TextNestsWithinDepth` | `NothingRunsTwice` and `DepthBounded` of `CteTextMeaning` | `TextInv` |
| `ColumnsHaveNames`, `BuilderInductive` | `EveryColumnHasAName` of `AstBuilder` | `BuilderInv` |
| `ExpressionsReadThePlan`, `NamesMeanTheirColumns`, `FitInductive` | `ReadsWhatThePlanMeans` and `NamesDenoteTheirColumns` of `AstBuilder` | `FitInv` |
| `FlattenerTyped`, `NamesAreUnique`, `ReadsAreEarlier`, `JoinsOwnTheirRightSide` | `TypeOK`, `UniqueNames`, `ReadsEarlier`, `RightSideReadOnce` of `Flattener` | `FlattenerInv` |

Every lemma under them is proved too; nothing is assumed but what the `ASSUME`s of the modules
say of the constants, and those are evaluated by the runs.
