# dbfuzz_mysql in TLA+

dbfuzz_mysql is a fuzzer for MySQL: a fork of AFL whose inputs are SQL
statements, generated from a grammar and run one by one on a live mysqld. This
directory holds TLA+ models of its core, TLC configurations that check them on
small instances, and TLAPS proofs of their main theorems for all instances.
Paths are relative to the repository; `afl-fuzz.cpp` is
`src/src/AFL/afl-fuzz.cpp`.

1. Inventory
2. The modules and the code
3. What the runs show
4. Bounds and fairness
5. What is proved
6. What the code does not do as it says
7. What is not modelled
8. Plan

## 1. Inventory

One `afl-fuzz` process drives one mysqld. It has a main thread and, for each
statement, a detached watchdog thread. mysqld writes a coverage map and a
command id into shared memory. Python scripts start the pairs and restart
servers that die. The grammar-based generator is a Go library linked into
afl-fuzz.

| Component | State | Operations | Modelled |
|---|---|---|---|
| MySQL client (`MysqlClient`, afl-fuzz.cpp 185-700) | connection `m_`, `is_timeout`, `timeout_id`, `is_reset_database` | `execute`, `timeout_query`, `reset_database`, `fix_database`, `check_server_alive`, `terminate_query` | yes |
| Statement loop (`fuzz_one`, `common_fuzz_stuff`, `execute_cmd_string`, `run_target`, `save_if_interesting`, signal handlers) | `full_valid_input`, `subseq_tmouts`, `skip_requested`, `stop_soon`, `last_sqlcom` | one input from its CREATE TABLE to `abandon_entry` | yes |
| Seed queue (`perform_dry_run`, `calibrate_case`, `update_bitmap_score`, `cull_queue`, main loop) | the queue, `top_rated`, `tc_ref`, `trace_mini`, favored marks, pending counters | calibrate, score, cull, pick, add, finish an entry | yes |
| Coverage feedback (`setup_shm`, `classify_counts`, `has_new_bits`, `save_if_interesting`) | `trace_bits`, `virgin_bits`, `virgin_crash`, `unique_crashes` | clear, classify, compare, keep or drop | yes |
| SQLCOM feedback and node weights | command id in shared memory, `sqlcom_exec_count`, weights of parser nodes | attribution and first sight in `run_target`; `pick_weighted_node` | partly |
| Generator (`src/rsg`) | heap of `PathNode`s, `curChosenPath`, saved and favorite paths, `allTriggerEdges`, rewards | `Generate`, `IncrementSucceed`, `IncrementFailed`, `ClearChosenExpr` | partly |
| Mutator and data library (`mutate.cpp`, `MySQL_IR_constructor.cpp`) | tables, views and columns known so far, a backup, `g_id_counter` | `pre_validate`, `validate`, `fix_dependency`, `backup_data_library`, `rollback_data_library` | partly |
| Server fleet (`run_parallel.py`, `mysql_rebooter.py`) | panes, processes, data directories, `shm_env.txt`, `mysqld_background_pid` | launch, watch, restart | partly |
| Import (`sync_fuzzers`) | last imported case of each fuzzer | import | no |
| Oracle (`mysql_oracle.cpp`) | none between calls | verdict on a result | no |
| Parser, IR, AST | trees of one statement | parse, print, walk | no |
| `node_mapper` | none | writes `node_sqlcom_mapping.json` | no |
| Patched mysqld (`sqlcom_shm_feedback.patch`) | sessions, databases, the shared memory | run, hang, die | external |
| Vendored AFL, AFLTriage, scripts | - | - | no |

How they interact:

- `fuzz_one` asks the generator for a statement, lets the mutator fill in
  names from the data library, runs it through the client, and tells the
  generator, the data library and `full_valid_input` what came of it. These
  three records, and the session of the database itself, are kept by different
  code and have to agree.
- The main thread and all watchdogs of earlier statements share `is_timeout`
  and `timeout_id` under a mutex, but the connection is used without it, and
  `KILL` names it by a number.
- mysqld may die at any time. A script starts it again on the directory it
  left, or another on a fresh copy; the client only sees failed calls.
- mysqld writes the coverage map also from background threads, so the map may
  change while the fuzzer reads it.
- Each afl-fuzz hands the id of its map to the script in a file, and the script
  hands it to mysqld in a command line. The script and the shells of all panes
  share a second file, in which a shell says whether its mysqld runs.
- Signals (`SIGINT`, `SIGUSR1`) set flags that several functions test and clear.
- Saved derivations of the generator are replayed and mutated through pointers.

What makes each component correct:

- Client: every call returns, with the verdict that belongs to it; a watchdog
  times out no execution but its own, and kills no other while the same mysqld
  runs; a statement that is sent without a reset
  finds the session it was meant for; a replay starts on an empty database.
- Statement loop: a replay of `full_valid_input` rebuilds the session; the data
  library names only what that replay creates; timeouts alone never abandon an
  input; a derivation is credited once, and for its own statement.
- Seed queue: references, traces, marks and counters agree at every step; the
  favored entries cover what any seed covers; no entry starves.
- Coverage feedback: when an input is examined, nothing stops being new but with
  an input that is kept. (Section 6: execute takes out coverage besides.)
- Data library: between two statements it names the tables that the database has,
  though it is changed before the statement runs and knows of errors only; its
  columns are right but for a list of ways in which the code goes wrong.
- Fleet: a server writes into the map of its own fuzzer, no directory has two
  servers, and a server that died comes back.
- Generator: saved derivations are trees, can be replayed, and are changed by
  nothing; generation ends.

`PROJECT.json` lists the hazards behind these properties line by line.

## 2. The modules and the code

| Module | Models | Depends on |
|---|---|---|
| `TimedCall` | what `execute` promises: a call ends once, with kTimeout iff its limit expired | - |
| `MysqlClient` | `MysqlClient::execute`, its watchdogs, mysqld and its restarts | `TimedCall` (refined) |
| `ReplayLog` | what `is_reset_database` and `full_valid_input` are for: a session that can be rebuilt from a log | - |
| `FuzzOne` | `fuzz_one` and its callees, data library, credit, SQLCOM attribution | `ReplayLog` (refined) |
| `CorpusQueue` | dry run, scoring, culling, main loop | - |
| `RsgGenerator` | `RSG.Generate`, `GenerateMySQL`, saved paths, edges | - |
| `MCRsg`, `MCRsgSeen` | two small grammars; a history of chosen rules | `RsgGenerator` |
| `Feedback` | the two shared segments as `run_target`, `has_new_bits` and `save_if_interesting` see them | - |
| `DataLibrary` | `fix_one_stmt`, `fix_dependency` and the database that results | - |
| `Fleet` | `run_parallel.py`, `setup_shm`, the shells and the servers | - |
| `MysqlClientProofs`, `FuzzOneProofs`, `CorpusQueueProofs`, `FeedbackProofs`, `FleetProofs` | proofs | the module they name |
| `DataLibraryProofs`, `RsgGeneratorProofs` | proofs | the module they name, `SetInduction` |
| `SetInduction` | two lemmas about induction and recursion on numbers | - |

Definitions keep the names of the code where they can. Each module marks a few
definitions `\* mutant`: plausible wrong versions of the definition below them,
used to see that a property notices the difference. Variables marked "history"
are not in the code; they record what a property speaks of.

**MysqlClient.** `pc` walks the main thread through `execute`: connect (a loop
that also repairs a missing database), test `is_reset_database`, reset, connect
again, clear `is_timeout`, start the watchdog, run the statements,
`check_server_alive`, verdict. A region under `timeout_mutex` is one action.
`timeout_query` has three: it wakes up and compares ids under the mutex; it
reads `is_timeout` again after the unlock; it opens a connection and sends KILL.
Connections are pairs of a mysqld process and a number, and numbers start at 1
again with each process; the connections that the other functions open for
themselves use up numbers too (`OwnConnection`). KILL goes by the number alone
(`Kills`): within one mysqld it never hits the session of a later execution
(`KillIsOwn`), after a restart it may (`KillsTimedOutOnly`, section 6). A DROP DATABASE and a CREATE DATABASE are separate
steps, so that mysqld may die between them. `LongTimeout` says whether the time
limit outlasts the `sleep(2)` of the crash path, after which `execute` returns
without advancing `timeout_id`. run_parallel.py passes `-t 2000`, which does not
outlast it: the watchdog began to wait before the sleep did. With a longer limit
`FinishedNeverTimesOut` fails: a watchdog of a call that ended in a crash marks
whatever call is active later. The model treats equal waits as ordered by their
start; a thread that the system wakes late by more than that difference is
outside of the assumption.

**FuzzOne.** One action for each function between two points where its state
can be seen: `EnterEntry`, `RunTarget`, `EndOfExecute` (the rest of
`execute_cmd_string`), `CommonFuzzStuff`, `SaveIfInteresting`, `Record`,
`Generate`, `ParseFails`, `Validate`, `Abandon`; signals come between any two of
them. `execute` is one step of `RunTarget`, which `MysqlClient` justifies: it
yields a fault, a result text that does or does not contain "error", the
reset of the session if one is due, and what became of the connection. kNormal
does not say that the session is sound (section 6, 1). `conn` is "lost" when
mysqld died and was back before `check_server_alive`: until the next reset
statements are sent to a connection that is gone. It is "dirty" when mysqld went
down during the reset, so that DROP and CREATE failed unnoticed. What is said of
the session is said of sound ones. A statement is its number; a session is the
set of statements in effect. `SystemEffects` admits statements (SET GLOBAL,
CREATE USER, ...) whose effect outlives a reset, which the repository's own list
of open problems names; `SkipSignals` admits SIGUSR1.

**CorpusQueue.** An entry is its place in the queue. `update_bitmap_score` and
`cull_queue` are loops over the map with one action per byte, and `MysqldWrites`
may set a byte between two of them. A byte is set or not; `exec_us * len`, by
which entries compete, is one number. Entries found by `fuzz_one` are not
calibrated there, so they hold no bytes. `res` of `perform_dry_run` is
uninitialised before the first seed that parses ("junk"), and keeps the
result of an earlier seed after it.

**RsgGenerator.** A derivation is a tree of nodes on a heap (`heap`, a partial
function: a node that nothing refers to any more is forgotten). The activations
of the recursive `GenerateMySQL` are frames on a stack. One action chooses a
rule, one emits a literal or token, one cuts an item because the depth is used
up, one descends into a new child and one into a saved child, one returns.
Which rule is chosen is free: rewards decide how often, never whether. The text
is abstracted to whether it is empty, which is what `Generate` retries on.
`DeepCopy` is what `retrieveExistingPathNode` does before a node is regenerated.
Edge indices are computed as in the code: a hash is the set of its bits, so that
`^` is the symmetric difference and `>> 1` moves each bit down; there are
`HashBits` of them instead of 16.

**Feedback.** An execution has two steps. `ScanEarly` is `execute` up to its own
call of `has_new_bits` (534), which takes whatever the map holds by then out of
`virgin_bits`; `RunTarget` is the rest as `run_target` leaves it: a
classified map, a command id or the sentinel, a fault. `dropped` records what an
examination took out for an input that was not kept. The callers that return
before the map is looked at are `NotExamined` and `NotCompared` (no byte set, or
the checksum of last time, in `calibrate_case`). `has_new_bits` takes three
steps for each word, as it reads the word up to three times: compare with the
virgin map, look for a byte never hit, clear. `Background` changes a byte between
any two of them. `Verdict` is what the caller makes of the result, for
`virgin_bits` and for `virgin_crash`.

**DataLibrary.** A statement is built by one `Fix...` action per kind that
creates, drops, renames or extends tables and views; the operators of the passes
(`DefineTable`, `UndefineTable`, ...) are applied in the order in which
`fix_dependency` makes them, and the marks that `MySQL_IR_constructor.cpp` sets
decide which names a pass sees. The database is what MySQL makes of the text;
a statement may always fail, and succeeds only if its names allow it. What the
code does not mark stays `v0`, as the generator calls every identifier, and `v0` is
the first table the mutator creates: `strayed` records that such a statement
took effect, and the properties then leave `v0` out.

For CREATE TABLE or VIEW ... AS SELECT the code puts down every column that the
statement mentions, in whatever clause, to the first name of a table it finds,
and again for a subquery (`Mentioned`, `PutDown`). The SELECT of the model takes
one table or two, of which the second may be a subquery's; it mentions any of
their columns and shows all columns or some of those it mentions, the rest being
in expressions, in WHERE or in the subquery. Aliases are not put down: the code
collects `kDataAliasName` as well, but `MySQL_IR_constructor.cpp` marks nothing
with it (an alias is a `kDataAliasTableName`). So the code does put columns down
to tables that do not have them. `muddled` is the set of names to which a
statement that took effect has done so; `Muddles` lists the ways (section 6), and
`ColumnsAreOwn` speaks of all other tables and views. Each disjunct is needed:
without any one of them TLC refutes `ColumnsAreOwn`. Indexes, partitions and
literals do not change which tables and columns exist.

**Fleet.** `Script` is run_parallel.py statement by statement where others can
interfere. Panes are queues of typed commands; a shell works through them at its
own pace and opens the answer file before it writes into it. An afl-fuzz that
cannot start never writes `shm_env.txt` (`FuzzerFails`). `late` records that the
script read the answer of a pane before the pane had finished.

## 3. What the runs show

Runs that pass, with the properties they check:

| Run | States | What it shows |
|---|---|---|
| `MysqlClient` | 132,411 | Three executions with their watchdogs; a hanging statement and a death of mysqld at any step. `TimeoutIsOwn`, `ExpiredIsReported`: verdicts belong to the call that returns them. `KillIsOwn`: the unlocked KILL hits no later execution while the same mysqld runs. `SessionKept`, `ReplayStartsFresh`: statements find the session, or the empty database, they need. `FinishedNeverTimesOut`, `ExecutionReturns`, and `ImplementsTimedCall`: each call is a `TimedCall`. |
| `FuzzOneQuiet` | 386,975 | Inputs without SIGUSR1 and system-level effects, deaths of mysqld unnoticed or not: `SessionIsReplay`, `LibraryIsReplayed`, `TimeoutsNeverAbandon`, `EntryEnds`, and the loop implements `ReplayLog`. |
| `FuzzOneSignals` | 1,462,970 | With both: what is recorded is at least in effect on a sound session (`ValidInEffect`), and a derivation is credited once (`CreditedOnce`). |
| `CorpusQueue` | 70,265 | `RefCounts`, `HoldersKeepTrace` (cull_queue never reads a null trace), `FavoredCover`, `FavoredCountedIfQuiet`, `PendingCounted`, `EntriesAreFuzzed`; `TypeOK` includes that no counter is decremented below zero. |
| `Rsg` | 27,728 | All derivations of a small grammar, saved, replayed, mutated: `TreesAreTrees`, `SeedsReplay`, `SeedsAreKept`, `FavPathsHaveFav`, `GenerationEnds`. |
| `Feedback` | 9,879,456 | A map of two words, one background write for each execution, seeds and found inputs, one crash kept: `CoverageKept` (of what is examined), `CommandsKept`. |
| `DataLibrary` | 2,616,849 | All sequences of statements with up to three generated names, each of which may fail: `LibraryMatches`, and `ColumnsAreOwn` outside of what `Muddles` lists. |
| `Fleet` | 40,259 | Two instances from the removal of a stale file to the watch, three deaths, fuzzers that fail, panes that are late: `AttachesToOwn`, `OneServer`, `ServersComeBack`. |

Runs that TLC refutes, each on one property that the code's own words state;
see section 6: `MysqlClientLost`, `MysqlClientKill`, `FuzzOneSqlcom`, `RsgSeen`.

To repeat one: `tlc -config CorpusQueue.cfg CorpusQueue.tla`. The two Rsg
configurations belong to `MCRsg.tla` and `MCRsgSeen.tla`; any other one to the
module its name begins with.

## 4. Bounds and fairness

Bounds of the passing runs, and why they are enough for the interesting cases:

- `MaxExec = 3`, `MaxBoot = 2`: a watchdog can outlive its own execution and
  meet two later ones, and connection numbers repeat on the second mysqld.
- `StageMax = 3` (23 in the code) without, 2 with signals: a statement that
  fails between two that do not, and a replay of more than one statement.
  `TmoutLimit` keeps the relation of the code: 250 is above 2 * 24, and
  `LimitAssumption` says so.
- `NumSeeds = 2`, `MaxQueue = 3`, `NumBits = 2`, `Factors = {1, 2}`: entries that
  take bytes from each other in both orders, one byte each or both; an entry
  added during a cycle. `CalChances` is the 3 of config.h.
- `MaxNodes`, `MaxSeed`, `MaxSaved`, `MaxTries` bound the heap, the size and the
  number of saved derivations and the retries (1000 in the code). `HashBits = 1`
  makes hashes collide; `Depth = 0` (2 in the code) makes cuts happen in
  derivations small enough to be saved. `MCCutNames` has a symbol that is cut
  but not composite, as `table_factor` is in the code. All recursion of the two grammars passes
  through a name that is cut, so every derivation ends. The real grammar also
  has recursion that is not cut: there `GenerationEnds` holds with probability
  one, which TLA+ does not state.
- `NumBytes = 3`, `WordSize = 2`: a full word and a part of one, so that the scan
  leaves a word, and bytes of one word differ. Bits per byte are two: what
  matters is whether some, all or none are left. One background write changes
  one byte between any two reads; the theorem has no bound.
- `MaxId = 3`: three names are enough for a table, its column and a table or view
  that selects from it and from `v1099`, which is there besides, or for a rename
  of a table the mutator created; each of the ways of `Muddles` occurs. The
  theorems have no such bound.
- `NumInst = 2`, `MaxDeaths = 3`, `MaxKeys = 3`: a server that dies twice and one
  that dies while the other pane answers; a pane that still writes gets the
  command and the next question typed behind it.

Deadlock is checked in every run; the `Stop`, `Stopped` and `Exited` steps mark
the states in which the program has ended or the bound is used up.

Fairness:

- `MysqlClient`: weak fairness of the main thread, of each watchdog, and of the
  restart of mysqld. The first two are what the operating system gives threads
  that are not blocked; run_parallel.py loops for ever over its servers, which
  gives the third. Nothing obliges a statement to hang or mysqld to die.
- `FuzzOne`: weak fairness of the fuzzer's own steps. That `execute` is one step
  that ends rests on `ExecutionReturns`.
- `CorpusQueue`: the same. A pass of `fuzz_one` ends because it runs 24
  statements (`EntryEnds`). Found entries and writes of mysqld have no fairness.
- `RsgGenerator`: weak fairness of the steps inside one call of `Generate`;
  nothing in it waits.
- `Fleet`: weak fairness of the script, of each shell, of an afl-fuzz that has
  got as far as its segments, and of a second mysqld finding the directory
  locked. The script sleeps between its steps and waits for nothing else. No
  death is due, and neither is the start of an afl-fuzz: `ServersComeBack` says
  so in its second half.
- `Feedback` and `DataLibrary` have safety properties only.

## 5. What is proved

All theorems hold for every value of the constants that satisfies the named
assumptions, which TLC evaluates in the runs.

**MysqlClientProofs.** `TypeCorrect` for all constants. The others assume
`~LongTimeout` (section 2): `TimeoutBelongs`, `ExpiryReported`,
`FinishedStaysFinished`, `KillsOwn`, `KeepsSession`, `FreshReplay`, and
`Refinement` (each call is a `TimedCall`). The properties are not inductive
alone. `SleepInv` says which watchdogs can still pass the comparison of ids:
asleep with the current `timeout_id` only while their own execution is active.
`VerdictInv` ties `is_timeout` to the watchdog of the current call from the
clear to the verdict. `ConnInv` says of which connections the client and the
watchdogs can know, and that a connection whose watchdog fired has been replaced
before a later statement runs, by one with a higher number if the mysqld is the
same; `KillsOwn` says no more than that. `FreshInv` follows the database from the DROP to
the start of the replay.

**FuzzOneProofs.** `TypeCorrect`, `ValidIsInEffect` and `CreditOnce` hold with
signals and system-level effects. `TimeoutsBounded` uses `LimitAssumption`:
`TmoutInv` counts two for each statement that is done. `EffectInv` extends
`ValidInEffect` over the way from the run of a statement to its record;
`CreditInv` says that a path that has been credited is cleared before the next
feedback. All that is said of the session is said while it is sound; the
refinement takes an unsound one for lost, as the log does after a crash, until a
reset has rebuilt it. `SessionReplays` and `Refinement` need that there are no
system-level effects and no SIGUSR1 (`SessionInv`: between the run and the record
the session is the log, with the statement at hand if and only if it had no error);
`LibraryReplays` needs that there is no SIGUSR1 (`LibraryInv`: the library is
ahead of the log by the statement at hand at most, its backup never).

**CorpusQueueProofs.** All six invariants of the run, from one inductive
invariant `IInv`. `LooseType` types the counters as integers: that they are
naturals follows only from what they count, so `TypeOK` is not inductive.
`PlaceInv` says what the dry run has done so far; it is why a seed that takes a
byte never takes it from itself. `RefInv` is `RefCounts` and `HoldersKeepTrace`
at each byte; `FavoredBound` bounds the favored counters from below, which is
what keeps the decrement in `abandon_entry` safe even when the counts are too
high; `CoverInv` follows the loop of `cull_queue`: bytes before `bit` are
covered, and bytes out of `temp_v` are in the trace of a favored entry;
`QuietInv` makes the counts exact as long as `disturbed` is false.

**FeedbackProofs.** All three invariants, for every size of map and word and
any number of background writes, whatever `ScanEarly` takes out. `DropInv` says
that no examination has dropped anything; `PlaceInv` that a scan that has taken
something out has a result other than 0, which is why a verdict that drops the
input drops no coverage. `EdgeInv` is about executions without a background
write: only then do the second and the third read of a word agree. `ComInv`
accounts for the first execution of each command.

**FleetProofs.** The three invariants, for every number of instances and deaths.
`FileInv` says who may have `shm_env.txt` open at each step of the launch, which
is one afl-fuzz at a time because the script waits; `InstInv` that panes and
servers are idle before the launch of their instance is over. `WatchInv` holds
until a pane is late: only the pane that was asked has an answer outstanding,
and no pane has a mysqld typed while one runs.

**DataLibraryProofs.** All three invariants, for every number of generated
names. `StateInv` states both properties twice while a statement runs: of the
backup with the database as it is, and of the library with the database as it
will be if the statement succeeds. Either result then restores it. `Good` adds
what makes the passes safe: a name that has not been given out is nowhere in the
library (`Fresh`), so a new table takes over no columns, and no view is ever
called `v0` (`ViewsAreNamed`), so a raw `v0` only hits a table. What a pass
does to the lists of names is proved in lemmas, the `erase(remove(...))` and
the `remove` without `erase` among them; that the first drops every occurrence,
and nothing else, is an induction over the list. Where the columns of a statement
go, and which of them the database gets, is proved for any two tables and any
set of mentioned columns; what `Muddles` names is left out of the conclusion.

**RsgGeneratorProofs.** The four invariants and the action property
`SeedsAreKept`, for every grammar, depth and bound. Any symbols may be cut,
composite ones or not; the MySQL grammar of the code cuts `table_factor`, which
`IsMySQLCompNode` does not accept. `TreesAreTrees` and
`SeedsReplay` are not inductive: they say nothing of a derivation that is still
being generated, and soon is a saved one. The invariant speaks of the heap as a
whole. `HeapOK`: children are on the heap, no node is a child at two places, and
a child has no rule or one of the symbol it stands for. `RootOK`: each saved
derivation, the last one and the one under way has a root that nothing refers
to, with a rule of its type. `StackOK` follows the recursion: the activations
lie on one branch of the tree under way, at nodes that no saved derivation
has; each has handled as many children as its rule has symbols before the
item it is at (`FrameOK`); each was called for the item before its caller's
(`LinkOK`); and none that generates has called one that replays. `WholeOK`: a node with a
rule has all its children, but for those whose activation still adds some. A cut
forgets the rule, which is why what a replay would find incomplete has no
rule to replay.

The argument needs facts about `Tree`, whose levels are counted up to
`MaxNodes`: by the pigeonhole principle some level adds nothing, so a tree is
the least set that has its roots and is closed under children (`TreeFacts`).
From it follow the lemmas that most steps cite: a tree does not change when the
heap changes elsewhere (`TreeSame`), the children of a node outside of a tree are
outside of it (`TreeOutside`), and `DeepCopy` yields a tree of the same shape on
new nodes.

**SetInduction.** The induction theorems of the TLAPS library take a predicate
as a parameter, which the provers at hand cannot instantiate. With a set in its
place they can: `NatSetInduction`, from well-foundedness, and `IteratesExist`,
that a recursive function on `0 .. m` exists.

Every invariant and action property of a passing run, and both refinements, are
stated by a theorem. Only model-checked: the liveness properties
(`ExecutionReturns`, `EntryEnds`, `EntriesAreFuzzed`, `GenerationEnds`,
`ServersComeBack`), since the prover does not reason about fairness. What the
four refuted runs show are counterexamples, with nothing to prove.

## 6. What the code does not do as it says

Each is a run with a counterexample; `PROJECT.json` quotes the lines.

1. `MysqlClientLost`: `execute` compares the result of `mysql_real_query` with
   client error numbers it never returns. A mysqld that dies and is back before
   `check_server_alive` is reported as normal, on a dead connection, to which
   the statements left of the input are then sent.
2. `MysqlClientKill`: KILL names a connection by its number. A watchdog has found
   `is_timeout` set; before it sends the KILL, mysqld dies and comes back; the
   next execution gets the number again, and is killed though it has not timed
   out. It takes a watchdog held up for as long as a restart takes.
3. `FuzzOneSqlcom`: a CREATE TABLE times out, so the next call resets the
   session. mysqld cannot parse the statement of that call and stores nothing for
   it, so that `run_target` finds the command of a statement of the reset or of
   the replay, and counts it as the new statement's.
4. `RsgSeen`: hashes are assigned only to productions whose name is repeated, and
   the grammar repeats none: all rules have hash 0, and all count as seen after
   the first choice. For the same reason no path is ever a favorite with that
   grammar: `FavPathsHaveFav` is about grammars that repeat a production, as the
   one of the `Rsg` run does.

Five more properties that a comment of the code suggests do not hold; they are
stated in the modules, and a configuration that names one shows it:

- `CoveredAfterExec` (Feedback): `execute` calls `has_new_bits` on `virgin_bits`
  before it sends the statement (534) and drops the result. What the reset and
  background threads have counted until then stops being new, with no input kept.
- `TimeoutSeedsTimedOut` (CorpusQueue): a seed that does not parse is judged by an
  uninitialised `res`, and can be marked as a timeout.
- `FavoredCounted` (CorpusQueue): `queued_favored` counts an entry twice when a
  byte was set in the map after its trace had been compressed.
- `SkipAbandonsInput` (FuzzOne, `SkipSignals = TRUE`): SIGUSR1 is to abandon the
  input; the request is consumed, and the input goes on.
- `SavedPathsRan` (FuzzOne): the derivation of a statement that did not parse,
  and never ran, is saved as a success of the next input's CREATE TABLE.

What `DataLibrary` and `Fleet` model and their properties allow for:

- Columns that are put down to a table or view that does not have them, once
  the statement has taken effect (`Muddles`):
  - CREATE TABLE AS: the new table gets every column that the statement mentions,
    also those in WHERE, in expressions and in subqueries (mutate.cpp 3044), or
    those of all tables used if it mentions none (3073), whatever it shows.
  - CREATE VIEW: all that goes to the first table it selects from, because the
    view's own name is not below `kViewTail` (3003). That is wrong when the view
    selects from a second table or lists its columns.
  - A subquery of either: its first table gets all that as well.
  - RENAME of two tables: the columns of both go to the first new name (1412).
    RENAME of a table whose columns are wrong hands them on.
  - ALTER TABLE ADD COLUMN, and a query with a derived table that lists its
    columns: the column goes to a table that is guessed (1818).
  - A raw `v0` that is created takes over what is put down to `v0`.
- `last_sqlcom_is_new` is lost when a caller of `run_target` returns early (3181):
  `CommandsKept` counts these commands (`lostComs`) and does not rule them out.
- A derivation may be credited for a later statement (rsgEntry.go 231):
  `CreditedOnce` only says that it is credited once.
- `remove` without `erase` leaves the last name, or an empty string, in the
  lists of views and tables (mutate.cpp 1652).
- The table of an ALTER TABLE, and any but the first of a DROP TABLE, is not
  marked and stays `v0`.
- An answer file that does not exist yet when it is read ends run_parallel.py
  (203); an empty one makes it start a second mysqld, which finds the lock.
- An afl-fuzz that fails to start leaves run_parallel.py waiting at line 146,
  and the servers already started are not watched.

## 7. What is not modelled

- Wording of statements and results, statistics, files, the display.
- The time a statement takes, but for the order of a time limit and `sleep(2)`.
- Metadata locks inside mysqld. `reset_database` runs before the watchdog is
  started, so a DROP that waits for a lock would not be killed; the session that
  could hold it has been closed just before.
- Which of the names it knows `fix_one_stmt` picks, and the probabilities of the
  generator: free choices, so that properties hold whatever is picked.
- Indexes, partitions, databases and literals of the data library, and the kinds
  of statements that change neither a table or view nor the library.
- The parser and the oracle keep no state between calls; the first is generated
  code for the most part, and enters as the choice whether a text parses.
- `mysql_rebooter.py`: it opens `all_share_mem_file.txt` first (24), a file that
  no program of the repository writes any more, and ends there.
- `sync_fuzzers`: run_parallel.py passes neither `-M` nor `-S`, so it is not called.
- `pick_weighted_node`: a weighted random choice.
- The options `-F` and `-G`, which switch the feedback off, and the map files.
- Vendored AFL and AFLTriage, one-shot scripts, `node_mapper`.

## 8. Plan

Done, in this order: the client with `TimedCall` and its proofs; the statement
loop with `ReplayLog` and its proofs; the seed queue and its proofs; the
generator; the fleet and the coverage feedback, each with its proofs; the data
library; the proofs of the data library and of the generator.

Next:

1. `IRTree`: detachment, replacement and `deep_drop` in `ir_wrapper.cpp` and
   `ast.cpp` on a heap, with `split_to_substmt` and `connect_back` of
   `fix_one_stmt` as inverses. The lemmas about trees on a heap that
   `RsgGeneratorProofs` has would serve it.
2. `NodeWeights` and `Bandit`: the arithmetic of weights, rewards and classes of
   rules in `mabPrioritization.go` and `categorizedPrioritization.go`.
