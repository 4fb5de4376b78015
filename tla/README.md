# gaman in TLA+

gaman keeps database schemas in step with schema files: it generates migrations
from the difference between the replayed history and the desired schema, keeps
them as YAML files in a dependency graph, and applies and rolls them back on
PostgreSQL, MySQL, MariaDB and SQLite.  This directory holds TLA+ models of the
parts of gaman that keep state or decide an order, the TLC configurations that
check them on small instances, and proofs of what holds for every instance.

All paths below are relative to the root of the repository.

## 1. Inventory

| Component | State | Operations | Interacts with |
|---|---|---|---|
| Migration graph (`gaman-core/src/graphs.rs`) | nodes: id to dependencies | `add`, `heads`, `next_number`, `detect_conflict`, `topological_order`, `create_merge_migration`, `resolve_id` | every command builds one from what the store loaded |
| History growth (`migration_engine/engine.rs`, `offline_planner.rs`, `replay.rs`) | none of its own: a snapshot per command | `make`, `make_empty`, `make_merge`, dry runs and `make_check` | graph, diff, clarifier, store |
| Migration stores (`src/migration_store`) | the migrations directory; the tree compiled into the program | `load_all`, `save` | other writers of the directory, version control, the build |
| Migration engine (`migration_engine/engine.rs`) | the plan of one command (reverts, pending), its transaction | `apply`, `rollback_to`, `status`, `plan`, `sql`, `execute_untracked` | tracking store, executor, other runners through the database |
| Executors (`src/executor`, `src/runner_factory/lazy_executor.rs`) | one connection: transaction, advisory lock | `begin`, `commit`, `rollback`, `execute`, `execute_affected`, `acquire_lock`, `release_lock`, inspection | the database server |
| Tracking table (`migration_engine/adapters.rs`) | rows of `gaman_migrations` | `install`, `applied_ids`, `record`, `unrecord` | the engine |
| Runner protocol (`gaman-core/src/runner`) | one request at a time | all commands; verified fake apply; repair | engine, drift, clarifier |
| Schema replay (`states/replay.rs`, `operations.rs`) | a schema | apply an operation, its inverse | make, SQL rendering, drift |
| Diff and ordering (`diff`, dialect `reorder`) | none | two schemas to ordered operations | make, repair |
| Filter (`migration_filter.rs`, `entity_selector.rs`) | none | select operations and their closure | make, drift |
| Clarifier (`clarifier`) | decisions of one make | find questions, apply answers | make, prompter |
| Managed rows (`managed_rows`) | row sets in a schema | diff, replay, checked SQL, drift | replay, engine |
| SQL plan renderer and SQLite rebuild (`sql_plan.rs`, `dialects/sqlite`) | the replayed baseline per migration | render forward and backward | engine |
| Schema state (`states`) | a validated schema | build, load, validate, normalise, canonicalise | everything |
| Drift and repair (`drift`, `repair.rs`) | none | inspect, compare, classify, repair | runner, engine |
| Parsers (`parsers`) | none | SQL schema text to entities | schema loading |
| Adoption (`src/cli/dispatch.rs`, `runner/selector.rs`, `src/schema_file.rs`) | the schema files | inspect, merge, preview, write, make | inspection, make, stores |
| Command line, configuration, prompter, evidence tools, WebAssembly bindings | none shared | input and output | runner |

What is hard here:

- **Concurrency between processes.** Runners meet at the target database and at
  the migrations directory, and nowhere else.  Within a process everything is
  one task; each `.await` is a place where other processes move, where the
  connection may end and where the process may die.
- **Partial failure.** Statements, the tracking row and the commit fail
  separately; the answer to a commit may be lost; not every migration is atomic;
  SQLite has no migration lock.
- **Order.** Replay, apply, rollback and rendering all use the one order that
  `topological_order` computes, on histories that grow concurrently on branches.
- **Staleness.** Histories, applied ids and inspected schemas are read before
  the lock and used after it; an embedded history is older than its directory.

- **Agreement of several computations.** Replay, diff, ordering, clarification,
  rollback and rendering are written separately and have to agree on every
  operation; so have inspection, comparison and rendering, against what four
  database servers make of a definition.

What makes each component correct is stated by the properties of section 4.  The
hazards, each at the line where it bites, are listed in `PROJECT.json`.

## 2. Modules

| Module | Models | State and actions |
|---|---|---|
| `GraphOps` | the algorithms of `graphs.rs` as operators | none; an id is a number whose order is the order of the id strings |
| `GraphOps_proofs` | induction, recursive functions and folds, as lemmas the provers can cite; theorems about the searches of `GraphOps` | |
| `MigrationGraph` | `graph_from`: migrations added one by one | `nodes`, `loading`; `Add` |
| `MigrationGraph_proofs` | theorems about `MigrationGraph` | |
| `MigrationHistory` | `make`, `make_empty`, `make_merge` over directory and embedded stores | `files`, `compiled`, `pc`, `job`; `Make`, `MakeEmpty`, `MakeMerge` (load and plan), `CheckExists`, `Persist`, `Abandon`; outside gaman: `Pull`, `Rebuild` |
| `MigrationHistory_proofs` | theorems about `MigrationHistory` | |
| `AppliedLedger` | what the applied record promises: one owner, one migration per move, never past a dependency | `applied`, `owner`; `Own`, `Disown`, `Apply`, `Revert` |
| `MigrationEngine` | `apply` and `rollback_to` by several runners on one database | below |
| `MigrationEngine_proofs` | theorems about `MigrationEngine` | |
| `DriftRepair` | `verify`, `repair` and `apply --fake-verified`, while others migrate and change the database | below |
| `DriftRepair_proofs` | theorems about `DriftRepair` | |
| `SchemaOps` | the canonical schema, the operations, replay and inverse (`operations.rs`, `states/replay.rs`, `managed_rows/replay.rs`) | none: operators on a schema |
| `SchemaOps_proofs` | theorems about `SchemaOps` | |
| `SchemaRules` | validation: the references a schema must satisfy (`states/validate.rs`, `managed_rows/validation.rs`) | none |
| `SchemaDiff` | diff, decomposition, dependency order, folding, row order (`diff/mod.rs`, `managed_rows/diff.rs`) | none |
| `Clarifier` | questions and what answers leave of the operations (`clarifier`) | none |
| `SchemaMake` | a project that is edited and migrated (`offline_planner.rs`, `migration_filter.rs`, `run_with_clarifications`) | below |
| `SchemaAdopt` | `gaman adopt` beside it (`cli/dispatch.rs`, `runner/selector.rs`) | below |
| `SchemaMake_proofs` | theorems about the order of the operations and the conversation of make | |
| `SqliteRebuild` | rendering and execution of migrations on SQLite (`sql_plan.rs`, `dialects/sqlite`) | below |
| `SqliteRebuild_proofs` | theorems about `SqliteRebuild` | |
| `CatalogExpressions` | comparison of expressions as token sequences (`drift/*.rs`) | none |
| `LiveCatalog` | a live database and what the executors read from it (`src/executor/*/inspection.rs`) | none: `Inspect` is a function of the database |
| `SchemaVerify` | the comparison of two schemas under each dialect's registry (`drift`) | none |
| `DriftStatements` | operations of a report, their rendering, their effect (`repair.rs`, dialects) | none |
| `SchemaDrift` | one database changed from outside, verified and repaired | below |
| `MC...` | constants for TLC: `MCMigrationGraph`, `MCMigrationHistory`, `MCMigrationEngine`, `MCDriftRepair`, `MCSchemaMake`, `MCSqliteRebuild`, `MCSchemaDrift` | |

The modules build on each other in three towers: `GraphOps` under
`MigrationGraph` and `MigrationHistory`; `SchemaOps`, `SchemaRules`,
`SchemaDiff`, `Clarifier`, `SchemaMake`, `SchemaAdopt` (each extends the one
before; `SqliteRebuild` extends `SchemaRules` and `GraphOps`); `CatalogExpressions`,
`LiveCatalog`, `SchemaVerify`, `DriftStatements`, `SchemaDrift`.
`MigrationEngine` and `DriftRepair` stand beside them and treat a migration or
a finding as a whole.

Operators with an underscore in their name (`Begin_NoTransaction`) follow a
comment `Slip:`.  They are not part of any specification: each is a plausible
mistake in the definition that follows it, and the property it is paired with in
`PROJECT.json` is violated when it takes that definition's place.  They show
that the properties depend on what the code does.

### MigrationEngine

| Variable | In the code or the database |
|---|---|
| `tracked` | rows of `gaman_migrations` |
| `effect[m][k]` | how often statement k of migration m took effect, less how often it was undone (committed) |
| `faked` | history variable: migrations ever moved with `fake` |
| `lock` | holder of the advisory lock |
| `pc[p]` | the await runner p is at |
| `cmd[p]`, `base[p]`, `reverts[p]`, `pending[p]` | the command, `applied` as read, and the two lists of `apply_locked` / `rollback_locked` |
| `cur[p]`, `step[p]`, `open[p]`, `local[p]` | the migration in `apply_one` / `rollback_one`, its statements so far, the open transaction and what it has changed |
| `outcome[p]` | the `Result` that `release_lock` follows |
| `left` | bound on the commands started |

`Start` is everything before the first await on the database (load, graph,
conflict, preflight); `Install`, `AcquireLock`, `ReadApplied`, `Begin`, `Exec`,
`Track`, `Commit`, `Release` are the awaits that succeed; `GiveUp`, `Refuse`,
`BeginFails`, `ExecFails`, `TrackFails`, `CommitFails`, `CommitUnacknowledged`
the ones that do not; `Crash` is the end of the process or of its connection
anywhere.  The history of a command is a checkout: a set of migrations with the
order the graph gives it.  That checkouts are closed and orders are linear
extensions is the assumption `PosAssumption` here and a checked property
of `MigrationGraph` there.  `apply` and `rollback_to` share their actions: the
command decides the two lists, and everything after that is the same code shape
(`apply_one` and `rollback_one` differ in the direction of the statements).

MySQL and MariaDB commit implicitly before a DDL statement, also in the middle of a
migration that is loaded as atomic (`ImplicitCommit`, for the statements in
`Committing`): what the transaction held takes effect, it is over, and the `COMMIT` or
`ROLLBACK` the runner sends later does nothing.

A statement counts, instead of having a text.  DDL and checked row writes
(`ensure_one_affected`) are refused unless they take their count from 0 to 1 or
back, which is how databases treat `CREATE TABLE` of a table that exists;
the raw SQL of a `Repeatable` migration is not.  Any statement may also fail for
no reason the model knows.

### MigrationHistory

A make command is one snapshot (`load_all`), a plan, the existence check of
`save` and the rename of `durable_save`.  Several workers may share a directory
(two developers' shells, two CI jobs), or have one each and exchange files as
branches do (`Pull`: file by file, never a content conflict).  An embedded
history loads what the binary was built with; `Rebuild` builds it again.  Of a
migration's operations only the namespaces of the entities they touch matter
(`compute_deps`); they are chosen freely.  `saw` is a history variable: the ids
the author's snapshot held.

### DriftRepair

| Variable | In the code or the database |
|---|---|
| `dialect` | the dialect of the database; PostgreSQL has transactional DDL, MySQL and MariaDB do not |
| `live`, `undo` | the database with all its uncommitted work, and what an open transaction would restore; `Visible` is what other sessions read |
| `recorded` | rows of `gaman_migrations`, as a prefix of a linear history |
| `lock` | holder of the advisory lock |
| `pc[r]`, `job[r]` | the await runner r is at, and its command with its options |
| `seen[r]` | the inspected schema and rows of `verify` |
| `ops[r]` | `plan.operations`, as far as they are not executed |
| `report[r]` | the report or error the command returned |
| `disturbed[r]` | history variable: somebody else moved the database during the command |
| `manual` | bound on the changes by hand |

A verification is three reads: the catalog queries (`Inspect`), the rows one by
one (`InspectRows`, `RowsUnreadable`) and the tracking table (`ReadPending`).
A repair goes on to `AcquireLock`, a statement at a time (`Exec`, `ExecFails`),
`Commit`, and verifies again; an adoption reads the tracking table first
(`PlanAdoption`), then inspects, judges and records (`Move`).  `Interrupted` is an
error or a death at any await.  The database is a map from *parts* to values: a
part is what one finding is about, and its value is its definition as the
dialect compares it.  DDL is admitted when what it creates is missing and what it
changes is there; a row statement when the row is still as observed.  `Move` is
a whole `apply` in one step under the lock: that this is how it looks from
outside is what `MutualExclusion` and `AllOrNothing` say of `MigrationEngine`.

### SchemaMake and SchemaAdopt

| Variable | In the code or the project |
|---|---|
| `history` | the committed migrations, each a sequence of operations |
| `desired` | what the schema files say, loaded and canonical |
| `filters` | the roots `--filter` narrows the last call to |
| `decisions` | the answers the last call was given |
| `reply` | what it returned: created, no changes, questions, or an error |
| `edits` | bound on the edits |
| `adopting` | history variable: the last call was made by an adoption |

A schema is a function from entity keys to definitions; a table's columns, keys,
indexes, constraints, triggers and managed rows are entities of their own, which
makes a reference a relation between keys.  `Edit` changes the files.  `Make` is a
whole call of make: replay, validate, diff, filter, clarify, order, commit
(`Response` is the function, `Respond` the step).  `AnswerAll` repeats the call
with one choice per question, as the command-line program does.  `Adopt` inspects
a live database, merges the chosen roots into the files when the preview of the
make that follows only adds, writes the files and makes the migration, or is
interrupted in between.

Replay with all its error paths is `ReplayOp`; an error is a value, so "the
history does not replay" is a state the model reaches and not a stuck step.

### SqliteRebuild

| Variable | In the code or the database |
|---|---|
| `history` | the committed migrations as a graph |
| `applied` | rows of the tracking table |
| `db` | the schema SQLite holds, and what rows hold in each column |
| `intended` | history variable: the database if every operation had been done in place |
| `straight` | history variable: every migration met the schema it was rendered for |
| `acted` | history variable: the `DROP TABLE` of a rebuild changed rows that stay |
| `last` | how the last movement ended, and the operations that failed |

`Move` applies the next pending migration of a checkout or rolls the last one
back, as one transaction of rendered steps; `Use` writes the first rows.  A
rebuild creates the new table from the replayed schema, copies the columns, drops
the old table and renames.  `DROP TABLE` deletes the rows first, as SQLite does with
foreign keys on: rows that refer to them go, lose their reference or make the
transaction fail, and the new table may be among them, because a foreign key of a table
to itself still names the old one.  A rebuild also fails on a `NULL`, a duplicate or a
value that the new constraints refuse, and at its end on any foreign key of the
database without its row.  What the rows of a column hold is one of a few kinds of
value, told apart by what a constraint or a foreign key makes of them.

### SchemaDrift

| Variable | In the code or the database |
|---|---|
| `project` | dialect, managed schemas, the replayed schema, and what may happen from outside |
| `db` | the rows of the live catalog |
| `changes` | bound on the changes from outside |
| `last` | the last repair: how it ended, what it was told, where it began |

`Outside` puts an entity and what is stored with it, or drops one.  Verification changes nothing, so it is a
function of the state (`Report`) and not an action.  `Repair` is
`gaman repair --apply --allow-partial` of that report, executed statement by
statement; it may fail at any of them.  A statement is refused where the renderer
refuses it (a SQLite rebuild of a table with triggers, views or references to it) or the
server does (a type without an assignment cast, a character set on a number, a view
that reads a dropped table).  `LiveCatalog` gives the catalog rows
the form the server gives them (types as it spells them, expressions as it
prints them), and reads them back the way the executors do; the comparison sees
only what was read.  What an expression means is kept beside its tokens as a
formula that the comparison never looks at: only the properties do.

## 3. Plan

The modules were written in this order, the ones a failure of which costs most
first.  Items 1 to 8 are done.

1. Graph algorithms and the growth of the history (`GraphOps`, `MigrationGraph`,
   `MigrationHistory`).
2. The engine with failures, crashes and several runners, and the abstract
   ledger it implements (`MigrationEngine`, `AppliedLedger`).
3. The engine's inductive invariant and its theorems.
4. Verification, repair and verified adoption as sessions that read without the
   lock and act under it (`DriftRepair`).
5. Replay and inverse of operations, with theorems (`SchemaOps`), and what a
   schema must satisfy (`SchemaRules`).
6. Diff, order, filter, clarification and the loop around them (`SchemaDiff`,
   `Clarifier`, `SchemaMake`), managed rows included; `adopt` (`SchemaAdopt`).
7. SQLite table rebuilds and the baseline a migration is rendered against
   (`SqliteRebuild`).
8. Inspection, comparison and repair statements of the four dialects
   (`CatalogExpressions`, `LiveCatalog`, `SchemaVerify`, `DriftStatements`,
   `SchemaDrift`).
9. `LazyExecutor`: one connection for several commands of a library host,
   cancelled futures, a commit that fails with the transaction still open.
10. `Segments`: statement boundaries of the SQL schema parser.
11. A schema made of a directory of files: collisions and precedence.

Theorems worth proving next, in this order: that folding children into their tables
keeps the order that `DiffArranges` gives (the part of `PrefixesKeepReferences` that is
about order); that a diff applied to the schema it was made from gives the
other one (`PlainMakeReachesDesired`), one lemma for each kind of entity, from which
`AdoptionOnlyAdds` and the equivalence of `MigrationReplays` would follow; and that the
undo of a diff is lossless outside the exceptions (`RollbackRestores`, from
`MigrationUndone`).

## 4. Runs

| Run | Configuration | Asks | Shows |
|---|---|---|---|
| `graph` | 4 ids (two with one number, one of a child namespace), at most 2 dependencies each, cyclic and dangling ones included | do the algorithms agree with definitions by transitive closure | 41 471 graphs: an order exists exactly for well-formed graphs and is a linear extension; a new migration never moves committed ones; a prefix is never retargeted |
| `history` | 2 authors with a directory each, and 2 writers in one embedded directory with a child namespace | can histories grown apart be merged and ordered; what do races between make commands and working on an old binary cost | 239 596 states up to symmetry: never a file; duplicate numbers and forks only from a stale snapshot, which a merge ends; order and dependencies stay right, and what a migration was generated against stays before it |
| `history_mysql` | a dialect without transactional DDL | is a migration loaded as it was made | **no**, section 5 |
| `engine_lock` | 2 runners, 4 commands of 7 kinds, a history that forked and was merged (2 branches and the whole as checkouts), with raw SQL, an empty merge migration; a MySQL server, where every migration is loaded as atomic and DDL commits implicitly | is the applied record right under failures and crashes | 175 682 states: yes, and the ledger of `AppliedLedger` is refined |
| `engine_sqlite` | the same history without a lock, atomic and not, 3 commands | what is left without a lock | 403 014 states: atomic migrations stay all or nothing (section 6 proves it with and without a lock) |
| `engine_live` | fairness, 3 commands | does every command end | 5 490 states: yes, and never with the lock in its hands |
| `repair` | a history of two migrations over a table, an index, a primary key and a row; one runner verifies, repairs, adopts and migrates forward, one with an older checkout repairs and migrates back; one change by hand; a dialect with and one without transactional DDL | do repair and adoption do right, whoever else moves the database | 809 186 states: rows are overwritten only as they were observed, a failure leaves nothing where DDL is transactional, undisturbed reports are true, undisturbed repairs complete, and adopting the newest migration proves that what it creates or alters is there |
| `make` | thirteen families of four to seven schemas (keys, enums, triggers, dependencies, rows, renamings, types, others, tables that wait for a sequence, tables of a database schema, what is replaced with a sequence, columns that come to need a value, tables that refer to each other), two edits or adoptions, three migrations, every filter on one root, every answer | is what make and adopt generate right | 163 284 states: the properties below, with their exceptions |
| `make_replays` | the enum family | is a generated migration replayed before it is accepted | **no**, section 5 |
| `rebuild` | a base migration and two of some twenty changes, in a row or on merged branches (552 histories); foreign keys with and without an action, also of a table to itself; any order of checkouts, forward and back, rows good and bad written in between | do table rebuilds keep schema and data, and do they go through | 51 144 states: yes, as long as every migration meets the schema it was rendered for, no `DROP TABLE` changed rows that stay, and the rows fit what is declared |
| `rebuild_merged` | the same | and on merged branches | **no**, section 5 |
| `drift` | thirteen projects (PostgreSQL tables; functions, views, enums and triggers; two schemas; SQLite tables, some of which can be rebuilt and some not; MySQL; MariaDB; and on each server definitions that it gives back in other words), each changed from outside twice, in every two ways of its list | is the report true, does it accuse nobody, does a repair settle it and touch nothing else | 3 069 states: yes, but for the exceptions the properties name, each of which occurs |

What the properties say, in short; each is stated in full above its definition.

- `graph`: `OrderExistsExactlyWhenWellFormed`, `OrderIsLinearExtension`,
  `NewestMigrationOnlyExtendsTheOrder`, `PrefixIsNeverRetargeted`.
- `history`: `HistoryAlwaysOrders`, `NumbersGrowAlongDependencies`,
  `OrderedAfterWhatItsAuthorSaw`, `CommittedFilesNeverChange`,
  `UpToDateMakeNeverForks`, `UpToDateMergeEndsTheConflict`.
- `engine_*`: `TypeOK`; `MutualExclusion`; `DependencyClosed` (nothing is recorded
  without its dependencies, whatever branch a runner knows); `AllOrNothing`;
  `ConvergedOnSuccess`; `RecordFollowsWork`; `ImplementsLedger`;
  `EveryCommandEnds`.
- `repair`: `QuietRepairRestores`, `QuietReportIsTrue`, `LastAdoptionIsProved`,
  `RowsChangeOnlyAsObserved`, `FailedRepairLeavesNothing`.
- `make`: `MigrationReplays` (what was generated replays, except in exactly the
  seven cases it names), `HistoryStaysUsable`, `PlainMakeReachesDesired` (a second
  make finds nothing), `NotAskedAgain`, `RollbackRestores`,
  `PrefixesKeepReferences` (after each single operation no reference dangles, but for
  four kinds of reference it names), `CycleOnlyThrough` (three reasons), `ConversationEnds` (two rounds of questions, no answer to them
  refused as unknown), `AdoptionOnlyAdds`.
- `rebuild`: `DatabaseIsAsReplayed`, `RebuildKeepsValues`, `NeverRefusedMidway` (what
  preflight accepted renders again when its turn comes), `ExpectedSchemaExecutes` (what
  fails on the expected schema fails on rows that fit no declaration or refer to their
  own table).
- `drift`: `CleanReportIsTrue` (but for what `SeenAs` names), `NoFalseAlarm` (but for
  `AlwaysReported`), `RepairSettles` (but for `Stays`), `RepairKeepsTheRest` (what was
  not reported, and what the declaration leaves open; but for `LostOrRewritten`).

Where a property of `make` has an exception, the exception is a named condition
on the two schemas (`RecreatesEnum`, `SwitchesFunction`, `RenamesTable` and the
like) and stands for a defect of section 5.  A condition of `MigrationReplays` is
an equivalence: the migration fails to replay if and only if one of the seven holds.
Every exception of `make`, `rebuild` and `drift` was seen to occur in its run: without
it TLC finds the property violated.

**Bounds.** Four migrations are enough for a fork, its merge and a chain; the
smallest graph on which a walk by ids could miss an order has three.  Two
runners suffice for every pairwise race; a third only waits.  In `history` the
commands of a directory and the directories are interchangeable (nothing in the
code looks at who they are), which `SYMMETRY` uses.  Four commands let
a failure be followed by a retry while another runner intervenes twice.  Two
statements are the fewest with a state in between.  `MaxEffect` = 2 lets raw SQL
run once too often in either direction.  In `DriftRepair` commands start again
without bound, so a repair follows one that failed; one part of each kind
(altered in place, recreated, without repair, row) is enough, because parts meet
only in the plan and in the table of a row.  In `make`, `MaxEdits` = 2 and
`MaxMigrations` = 3: a migration to start from, one to change it, and one to
find out what the second left behind; a family holds the schemas whose
differences meet, the product of families would only add operations that share
no entity.  In `rebuild` two changes after the base are the fewest that can be
on different branches, and the fewest for a rebuild to rely on another.  In
`drift`, `MaxChanges` = 2: changes of two entities that a repair has to order,
or of one entity twice.

**Fairness.** `engine_live` assumes weak fairness of each runner's steps: a
runner is one future that its host polls to the end; every database call
returns, with an error at worst; the wait for the lock is bounded
(`lock_timeout`, `GET_LOCK(?, 30)`), so waiting is never for ever.  Nothing is
assumed of `Start` and `Crash`.  No fairness is needed for safety.

**Deadlock** checking is off where the bounds on commands, edits or changes let
a system that has done all of them stop.

## 5. Findings

With a run that shows them:

- **`atomic: false` does not survive a file** (`gaman-core/src/migrations.rs:24`,
  run `history_mysql`).  The field is skipped when it is false, and a missing field
  is read as true.  Every migration generated for MySQL or MariaDB has `atomic:
  false`, is written without the field and loaded with `atomic: true`.
- **A generated migration is not replayed before it is accepted**
  (`offline_planner.rs:188`, run `make_replays`), although `ARCHITECTURE.md:135`
  says so; only filtered candidates are.  An enum that loses a value is created
  before it is dropped, and the committed history replays no more.
- **A migration merged behind an applied one rebuilds a SQLite table without
  what the applied one added** (`sql_plan.rs:159`, run `rebuild_merged`): it is
  rendered against its predecessors in the order, not against what is applied.

Found while modelling; the first group are the named exceptions of properties
of `make`.

- An answered rename of a table in a database schema carries the bare name
  (`clarifier/resolve.rs:234`): the migration does not replay
  (`states/replay.rs:34`), or renames the table that has the bare name.
- An answered rename of a table has the place of its `DROP TABLE`, and the
  `CREATE TABLE` of the new one goes (`clarifier/resolve.rs:244`).  What is left of the
  creation, a foreign key to another new table, waits for neither: where the drop is
  held up, by a view that is replaced or a function that is dropped, it comes first and
  finds no table.
- A renamed column keeps its definition: where the old one was NOT NULL without a
  default and the files now let it be empty and leave it out of a managed row, the
  committed schema is invalid and every later make is refused.
- A changed extension is created before it is dropped, as the enum is
  (`diff/mod.rs:985`).  Renaming an enum value by an answer fails in the same way.
- A row may be written before its table is created (`managed_rows/diff.rs:107`,
  exception `RowsLead`).  Row writes are put in order among themselves and then into the
  places the sort gave to row writes.  A sequence that changes is dropped late, and
  every new table waits for it, so the rows of existing tables come first: the row of a
  new table may take their place.  Replay accepts the migration, the database does not;
  without its exception `RollbackRestores` shows it in the family `Waiting`.
- A trigger that switches functions while the old one goes is dropped and then
  altered; a trigger whose function loses an overload is dropped and never created
  again (`diff/mod.rs:558`).
- The decomposed children of a table in a database schema carry its bare name
  (`diff/mod.rs:701`): they do not replay, or go to a table of that name.
- A renamed table keeps the derived name of its primary key, and every later make
  is refused (`PrimaryKeyMutation`).  What else changed in the table is lost with
  the answer.
- Foreign keys have no order against the columns and keys they point at, neither
  when created nor when dropped; a trigger folded into its table's creation comes
  before a function that depends, itself or through others, on this or another table
  that is created (`diff/mod.rs:841`).
- A column that comes to need a value (added, or made NOT NULL, or without its default)
  changes before the managed rows get one, and a sequence that is replaced is for a
  while not there under the function that uses it.  Replay accepts both; a database
  refuses the column where the table has rows, and to drop the sequence.
- "Allow NULL" for a column the files say is NOT NULL never converges; "use this
  type" is asked again; after "default" the next make drops the default again.
- Dropping a column of a kept managed row makes the row's update mismatch on
  replay.
- Reported as dependency cycles: two rows at once of a table that refers to itself, or
  of tables that refer to each other (`managed_rows/diff.rs:161`); functions that depend
  on a view; a view or a function that is replaced in place together with any sequence,
  because it waits for the new one and holds up the drop of the old one
  (`diff/mod.rs:979`, `:1015`).
- Rolling back a `DropTable` does not restore its managed rows.
- A filtered make leaves out columns and keys that a chosen foreign key needs, and
  the function of a trigger that is written with its table
  (`diff/mod.rs:1101`, against `ARCHITECTURE.md:142`); a filtered drop of a
  qualified table loses its children.
- One round of questions may choose one target for two renames; the answer is then
  refused (`ConflictingRenameTarget`) instead of the choice.
- A hand-written `RenameColumn` leaves index definitions behind, and replay
  accepts a rename onto a column that exists.
- At end of input the prompter repeats its question for ever
  (`src/prompter.rs:61`).

Adoption:

- The inspected fragment is validated alone (`runner/selector.rs:26`), so a table
  whose foreign key names an already managed table is refused, although
  `ensure_adoption_dependencies` allows it.
- `ensure_adoption_preflight` is given `non_interactive` where it expects
  `interactive` (`cli/dispatch.rs:226`).
- The questions are asked twice, and only the preview is checked to be additive
  (`cli/dispatch.rs:352`); renamed enum values count as additions.  It does no
  harm today because those migrations do not replay.
- Merging schema files overwrites views, extensions and enums of the same name
  without a word (`states/load.rs:65`); merging a directory drops sequences
  (`src/schema_file.rs:343`).

SQLite rebuilds and rendering:

- A rebuild drops columns and indexes of its table that gaman does not manage
  (against `ARCHITECTURE.md:168`), and gives its primary key the name gaman derives.
- A rebuild of a table with a foreign key to itself (`sqlite/mod.rs:643`) drops the old
  table while the new one still refers to it (`:439`): with `ON DELETE CASCADE` the
  copied rows are deleted, with `SET NULL` their references, and the rebuild succeeds;
  with no action it fails.  Later rebuilds of the table do the same.
- A rebuild fails on bad rows of any other table: the check at its end is of the whole
  database (`sqlite/mod.rs:448`, `tests/sqlite_dialect.rs:1631` for its own rows).
- The rollback of a migration on one branch is rendered against a baseline with
  the other branch, applied or not (`sql_plan.rs:238`).

Sessions:

- Only the statements of managed rows carry observed values; the DDL of a repair
  overwrites changes made after its inspection (`engine.rs:221`, against
  `ARCHITECTURE.md:173`).
- Verified adoption compares with the replay of the whole history
  (`runner/dispatch.rs:408`), and plans without the lock (`:386`): migrations
  that another runner applied in between leave the record.
- Findings without an operation are not reported as skipped when any other has one
  (`repair.rs:34`).

Drift, by what it costs:

- Never reported: what a migration should have removed (`drift/mod.rs:245`); on
  PostgreSQL a lost default of a `serial` column; the grouping of `XOR` in a check of
  the MySQL family; that a foreign key there leads to a table of that name in another
  database.
- Always reported: a `BETWEEN` in a check and a number cast in the predicate of an
  index on PostgreSQL; `XOR` over operators on MySQL; the order of a PostgreSQL trigger's events; PostgreSQL triggers
  with a query of their own; foreign keys on SQLite with a name of their own;
  expression defaults of non-numeric columns on MariaDB; generated columns on
  PostgreSQL whose text the server prints differently; `UPDATE OF` triggers on
  SQLite (as missing).
- Not repairable though reported with an operation: a type whose change needs `USING`
  on PostgreSQL, where the repair writes a cast for one pair only
  (`drift/postgres.rs:23`); a text column that should be a number or JSON on MySQL and
  MariaDB, whose observed `CHARACTER SET` is written with it
  (`dialects/mysql_family.rs:432`, `:564`); on SQLite a table that has triggers or that
  views or other tables refer to (`sqlite/mod.rs:573`), and any table while an unmanaged
  view reads it; enums and PostgreSQL generated
  columns render no SQL; a repair's operations carry emptied bodies of functions
  and views; the repair of a PostgreSQL trigger loses its `WHEN`, and the next
  verify is clean; a MySQL comment that is not set in the files never converges.
- Verify fails where a table with managed rows is missing (`managed_rows/drift.rs:29`),
  and the repair that would create it is never planned.
- Verify fails on live schemas that gaman's own validation refuses: foreign keys
  to tables or schemas that are not managed, to columns without a key, and on
  SQLite and MySQL to a managed table that is missing.
- With two schemas, unqualified names belong to the first, and two tables of one
  name are compared under one key.

## 6. Proofs

**`GraphOps_proofs.tla`** says what the searches of `graphs.rs` compute, for every
finite graph, with cycles, unknown dependencies and all:

| Theorem | States |
|---|---|
| `TopologicalOrderIsRight` | `topological_order` succeeds exactly when no dependency is unknown and none is cyclic; its order then lists every migration once, each after what it depends on |
| `NewestComesLast` | a migration that sorts after all others and that nothing depends on is last, and the rest is ordered as without it |
| `PrefixesOrderedAlike` | where dependencies have smaller ids, what the order begins with is the order of that part alone |

The searches are recursive functions, and the provers have no induction to offer
for them: the library's induction theorems take an operator as a parameter.
The first part of the module does without.  A predicate is the set of the numbers that
satisfy it (`NatInduct`, from the well-foundedness of `<`); a function that is
defined by recursion is the one fixed point of a function on functions, and it
exists because the functions on its smaller arguments do; what a fold keeps is
the set of the states that satisfy it.  On these stand three inductions:

- `dfs` terminates because its stack grows within a finite set of nodes; the
  invariant of the search is that what was visited and left reaches no cycle,
  and that a cycle was reported only if there is one.
- `topo_visit` recurses along the dependencies.  It is only reached without
  cycles, where they are well founded, and keeps this of its walk: visited is
  what is listed plus the nodes still open above the current one, and whatever
  is listed comes after its dependencies.
- `VisitAll`, the loop both use, keeps what each visit keeps (`VisitAllInOrder`).

**`MigrationGraph_proofs.tla`** draws from this, for every finite set of ids, what
the run `graph` checks for four of them:

| Theorem | States |
|---|---|
| `OrderExists` | `Spec => []OrderExistsExactlyWhenWellFormed` |
| `LinearExtension` | `Spec => []OrderIsLinearExtension` |
| `NewestOnlyExtends` | `Spec => NewestMigrationOnlyExtendsTheOrder` |
| `NeverRetargeted` | `Spec => PrefixIsNeverRetargeted` |

The reference definition, `Below`, composes the edges up to the number of ids;
that this is enough to see every path, and that a path without repetition cannot
be longer, is part of the proof.  `GraphOverIds` is the invariant they need.

**`MigrationHistory_proofs.tla`**, for every number of commands, directories and
names, every embedded child history and every bound on the numbers:

| Theorem | States |
|---|---|
| `HistoryInvariant` | `Spec => []HistoryInv` |
| `FilesNeverChange` | `Spec => CommittedFilesNeverChange` |
| `AlwaysOrders` | `Spec => []HistoryAlwaysOrders` |
| `NumbersGrow` | `Spec => []NumbersGrowAlongDependencies` |
| `OrderedAfterSeen` | `Spec => []OrderedAfterWhatItsAuthorSaw` |
| `NeverForks` | `Spec => UpToDateMakeNeverForks` |
| `MergeEndsConflict` | `Spec => UpToDateMergeEndsTheConflict` |

`HistoryInv`, which TLC checks with the constants of the run `history` as well,
says of every file, and of the migration every command is about to save, what
its author knew: it depends only on what the snapshot held, all of that is still
in the directory (or in a child history), and the root migrations among it have
smaller numbers.  It says of a binary that the history it embeds is one the
directory once had.  Neither half is inductive alone: a compiled history that
was not closed would let a command depend on what its directory lacks, and a
pull keeps orders only because every file brings all that its author saw.

- A history that satisfies it is acyclic, because dependencies have smaller ids
  or lie in a child history (`TreeGraphAcyclic`), so it can be ordered.
- `OrderedAfterSeen`: the walk lists root migrations in ascending order of their
  ids, whatever their dependencies are (`Ascends`), since a dependency always has
  the smaller id; and whatever the author saw has a smaller number.
- `NeverForks`: hence the last root migration in graph order is a head, and it is
  among the dependencies that `compute_deps` returns (`Planned`).  A migration
  saved on the history it was planned from takes that head away and adds itself.

The assumptions beside the types: a child history can be ordered by itself, has
no ids of the root namespace, and, where there is one, is compiled into every
directory (`SetupsAssumption`); numbers keep four digits.

**`MigrationEngine_proofs.tla`**, for every set of runners and migrations, every
dependency relation, every set of checkouts and commands, and every bound:

| Theorem | States |
|---|---|
| `TypeCorrect` | `Spec => []TypeOK` |
| `MutualExclusionCorrect` | `Spec => []MutualExclusion` |
| `DependencyClosedCorrect` | `Spec => []DependencyClosed` |
| `ConvergedOnSuccessCorrect` | `Spec => []ConvergedOnSuccess` |
| `LedgerImplemented` | with a lock, `Spec => ImplementsLedger` |
| `AllOrNothingCorrect` | `Spec => []AllOrNothing`, for the migrations none of whose statements commits implicitly |
| `RecordFollowsWorkCorrect` | `Spec => RecordFollowsWork` |

They rest on the named assumptions of `MigrationEngine`: checkouts are closed
under dependencies, positions order a checkout and put dependencies first (what
the `graph` run checks of `topological_order`), statement counts are natural
numbers.  TLC evaluates these assumptions in every engine run.

The argument is one inductive invariant, `IInv`, which TLC checks with the
constants of `engine_lock` and of `engine_sqlite` as well:

- `HolderIsLocked`: whoever is past `acquire_lock` is the holder.  So while a
  runner is under the lock nobody else changes the record or an effect
  (`LockFrame`, `DatabaseFrame`).
- `PlanStaysCurrent`: the two lists are computed once, before the first migration
  moves, but stay what they would be if they were computed now.  This is what
  makes each single move right (`TurnIsSound`): the revert whose turn it is has
  no recorded dependent, because a dependent would be later in the order, hence
  beyond the target too and still in the list; the pending migration whose turn
  it is has all its dependencies recorded, by the mirrored argument.
  `DependencyClosed`, `ConvergedOnSuccess` and the refinement follow.
- `TransactionIsSteps`: an open transaction holds exactly the statements up to
  `step`, in the direction of the movement; `WorkIsInPlace`: outside a
  transaction the same is true of the committed effects.  An implicit commit leads
  from the one to the other (`Settle`), which is why `RecordFollowsWork` holds on MySQL
  too; what it takes away is only that a failure leaves nothing, and `AllOrNothing`
  speaks of `Transactional` migrations.  With them a commit or
  a tracking row finds the work of its migration complete.
- Without a lock (SQLite) a runner plans from a record that may be out of date.
  What remains is the database: `OneWriter` says that it admits one transaction
  that has written, and `WorkIsAdmitted` that every statement of that
  transaction found, and still would find, what is committed as it needs it (a
  table is created only where there is none).  So a migration that another
  runner applied meanwhile is refused, not applied twice, and `AllOrNothing`
  needs no lock, for every number of runners.

Without `PlanStaysCurrent` none of this is inductive: `DependencyClosed` alone
does not exclude a list that skips a dependency.

**`DriftRepair_proofs.tla`**, for any runners, options, checkouts, histories, parts
and changes by hand, with and without transactional DDL:

| Theorem | States |
|---|---|
| `IInvCorrect` | only the holder of the lock executes, only who executes has uncommitted work |
| `RInvCorrect` | `Spec => []RInv`: what a command knows |
| `FailedRepairLeavesNothingCorrect` | `Spec => FailedRepairLeavesNothing` |
| `QuietRepairRestoresCorrect` | `Spec => []QuietRepairRestores` |
| `QuietReportIsTrueCorrect` | `Spec => []QuietReportIsTrue` |
| `LastAdoptionIsProvedCorrect` | `Spec => []LastAdoptionIsProved` |
| `RowsChangeOnlyAsObservedCorrect` | `Spec => RowsChangeOnlyAsObserved` |

`IInv` makes what others see one runner's transaction undone.  `RInv` says, for
every command and every point it can be at, what it knows: the statements still
to execute are what is left of a plan from what it read (`Plannable`), where a
later statement of a part starts from what the earlier one leaves; and, unless a
change by hand, a movement or another repair came between (`disturbed`), the
catalog or the rows it read are there (`ReadOk`), whatever drifts and can be
repaired still has a statement (`StillToDo`), an adoption that got past its
judgement was right (`AdoptOk`), and the last report is true (`ReportOk`).  The
database it speaks of is the command's own transaction while it executes and
what everybody sees otherwise (`Base`), so a commit changes who knows but not
what is known, and an abort takes the knowledge away with the transaction.  The
part about rows holds disturbed or not: a statement carries the observed row,
and a row that is not as observed is not touched.

The assumptions (`PartsAssumption`, `HistoryAssumption`) are the types of the
constants, and that the table of a managed row is neither a row nor one of the
parts whose repair is to recreate them: tables are altered in place.  TLC checks `RInv` too,
with the constants of `repair`.

**`SchemaOps_proofs.tla`** proves that the inverse of an operation undoes it, for
every schema, name and definition:

| Theorem | An operation that | Hypotheses beside a well-shaped schema |
|---|---|---|
| `CreateUndone` | creates anything but a table | it is not there, its owner is; a column has no value in a row yet |
| `DropUndone` | drops anything but a table | it is as the operation says; a column is in no row |
| `AlterUndone` | alters anything but a table or an enum | it is as the operation says; a key column was not nullable |
| `CreateTableUndone`, `DropTableUndone` | creates or drops a table with its children | nothing of the table is there; the flags of its columns agree with its key |
| `RenameTableUndone`, `RenameColumnUndone` | renames | nothing has or refers to the new name |
| `RenameValueUndone` | renames a value of an enum | the type has no value of the new name |
| `AcknowledgedUndone` | acknowledges a change of table options | the options are as it says |

These are lemmas about the operators that `RollbackRestores` runs; each takes
one case per kind of dependent that follows the change (rows, foreign keys,
indexes) and shows that it follows back.  The hypotheses are the exact limits: a
dropped column loses the values of managed rows, a dropped table its rows, and a
rename onto a name that something refers to cannot be told apart afterwards.
`Lossless` (in `SchemaOps`) puts them together: an operation and a schema on which
one of the theorems applies to it.

`MigrationUndone` is about sequences: a migration that replays, and each of whose
operations is lossless on the schema it meets, is undone by `rollback_migrations`;
every inverse is accepted, last operation first, and the schema is the one before.
`Replay` is a recursive function over the number of operations; it is unrolled into
the sequence of schemas it goes through (`ReplayTrace`), and the schemas of the
rollback are the same ones backwards (`UndoneInReverse`).

**`SqliteRebuild_proofs.tla`** is about what the SQL rendered for a migration does, for
every schema, every migration and every way its operations are grouped into
rebuilds:

| Theorem | States |
|---|---|
| `RenderedAsReplayed` | rendering a migration, if it succeeds, ends with the schema its replay ends with |
| `ExecutedAsReplayed`, `MigrationExecutedAsReplayed` | its steps, run on a database with the schema they were rendered for, give that schema to the database |
| `AppliedIsNextSchema` | along a history, an apply takes the database from one place in the order to the next |
| `RolledBackIsPreviousSchema` | and a rollback of lossless operations takes it back |
| `DatabaseIsAsReplayedCorrect` | `Spec => []DatabaseIsAsReplayed` |
| `RebuildActsOnItself` | a rebuild that validation lets through changes no rows by its `DROP TABLE`, unless the new table refers to itself with `CASCADE` or `SET NULL` |
| `ExecutedAsInPlace` | run where they were rendered for, the steps of a plan leave the values that the operations, done in place one by one, would leave, unless a `DROP TABLE` changed rows that stay |
| `RebuildKeepsValuesCorrect` | `Spec => []RebuildKeepsValues`: so it is after all movements, until a `DROP TABLE` did (`acted`) |
| `NeverRefusedMidwayCorrect` | `Spec => []NeverRefusedMidway` |

- Grouping, rendering and execution are folds.  `LoopTrace` unrolls the three into
  the states they go through.
- `Grouped`: the groups cut the operations into consecutive pieces, each a
  single operation or a run of operations that rebuild one table.  So the plan's
  schema after a group is that of the replay after its last operation
  (`PlanFollowsReplay`).
- A rebuild creates one table as it should become and touches nothing else; that is
  the replay of its group because no operation of it reaches outside its table
  (`RebuildTouchesOne`, `ReplacedIsReplayed`).
- `SInv`, the invariant under the last theorem: as long as every migration met the
  schema it was rendered for (`straight`), the recorded migrations are closed under
  dependencies, each renders on those before it in the order of the recorded ones
  alone, and the database has the schema of the last.  `DatabaseIsAsReplayed` is
  not inductive: a rollback rests on all earlier migrations having rendered, which
  its own preflight does not check again.
- Values.  `SInv` says of them that, until `acted`, the database *is* the one of
  operations done in place (`db = intended`), and that it is tidy (`Tidy`): a value for each column, and a
  table has rows in all its columns or in none.  `RebuildKeepsValues` alone is not
  inductive: what a copy leaves in a column depends on whether the table has rows,
  what an operation in place leaves there on the column alone, and tidiness is what
  makes the two agree.  A rebuild is compared with the operations of its group one
  after the other: a column that none of them is about is copied as it is, one that a
  single operation is about is copied as that operation would change it.
- `NeverRefusedMidway`: the preflight reaches a migration from its own side (a rollback
  by undoing what is behind it from the end of the order, `UndosTo`), execution from
  the database's side.  Rollbacks that lose nothing make both meet the schema of the
  place (`UndoneToIs`).
- A movement renders against the order of its checkout, and the property speaks of
  the order of what is recorded; that these agree (`PrefixAlike`) is where
  `PrefixesOrderedAlike` is needed.  It needs dependencies with smaller ids.

The assumption, `HistoriesAssumption`, says of each history what the theorem depends
on, and TLC evaluates it for every history of the run `rebuild`:

- `Numbered`: dependencies have smaller ids.  `make` gives such numbers in one
  namespace (`NumbersGrow`); a dependency on another namespace need not have one.
- `PlainAlong`: no managed rows, which SQLite holds as values and not as schema; and
  no rename of a column that an index or a constraint still names or of a table that
  a view reads, which SQLite carries through and replay does not.
- `CreatedAsLeft`: no column of a table is changed by the migration that creates it.
- `ValuesAlong`, for values: each column belongs to a table and no table is without
  columns; an operation says what its column was; and no two operations of a migration
  that rebuild a table are about one column.  A diff gives one operation per column; a
  migration written by hand may have more, and its copy then skips what the one in the
  middle would do to the values.
- `Lossless`, for the rollbacks that can be rendered.

Only places whose migrations render are asked for the last three.  The run has
1 918 places in 552 histories; 1 699 of them render forward and 1 687 backward, and 432
and 528 of these contain a rebuild.

**`SchemaMake_proofs.tla`**, for every set of projects, dialect catalog and bound, and
for every number of edits, calls, answers and adoptions:

| Theorem | States |
|---|---|
| `SortedIsRight` | `sort_operations` of any operations: each at most once, after all that must precede it; complete, and not refused, exactly when none wait for each other in a circle |
| `DiffArranges` | the diff of any two schemas is refused for a cycle or orders all changes, rows included, and loses none (`OrdersAll`) |
| `MakeArranges` | `AdoptSpec => []OrdersAll(desired, Current)`: so it is for every make |
| `ConversationEndsCorrect` | `AdoptSpec => []ConversationEnds` |

- Sorting.  `Listed` is a fold over a set and `Kahn` recurses over the subsets of the
  positions; both are unfolded once and then reasoned about by induction over finite
  sets (`SubsetInduct`).  What Kahn's algorithm leaves is a set whose members all
  wait for each other, and such a set stops it (`KahnRight`).
- Rows.  The rows of one group go back to the places the group had (`GroupReplaced`),
  so everything else keeps the order of the sort.  `DiffArranges` says nothing of a
  row against an operation that is not about rows: nothing can be
  said (`RowsLead`, section 5).
- What make meets.  `Named` says of a schema that it is finite, that its keys are made
  of names, and that its enums are lists; `MadeOps` says of a migration that each
  operation has such a key and carries what a schema has under it.  The project
  files are `Named` by assumption; a diff of such schemas, folded, narrowed and
  clarified is `MadeOps` (`ChangesMade`, `FoldedMade`, `FilteredMade`, `ApplyMade`), and
  replay of `MadeOps` from a `Named` schema is `Named` (`ReplayNamed`).
- The conversation.  A call is a function of the history, the files, the roots and the
  answers, and only the answers change while it lasts.  Whatever they are, the call
  comes to the same questions about types (`ResponseIs`); when those are settled, to
  the same operations (`PlannedIs`), whose questions are none of them about types.
  Answering them all, each with one of its choices, settles them, although a rename
  that is answered takes its candidate away from the others (`AnswersSettle`).
- `MakeInv`, the invariant under the last two theorems: the files are `Named`, the
  history consists of `MadeOps`, and a reply with questions *is* the response to what
  was answered so far, which was about types alone.  `ConversationEnds` is not
  inductive: it does not say what the open questions are.

The assumptions are the types of the constants (`NamesAssumption`,
`MergeKindsAssumption`, `ProjectsAssumption`): bare names of tables are names, and what
the files say is `Named`.  TLC evaluates them in every run of make.

Only model-checked:

- liveness, and with it fairness: the provers do not reach it;
- what the catalogs print and the comparisons read back (`drift`):
  `CatalogExpressions` and `DriftStatements` compute on strings of tokens with
  `RECURSIVE` operators, which the provers cannot unfold;
- what the migrations of make do (`make`, but for `ConversationEnds`): these properties
  are about the difference of two schemas of which nothing is known but that they are
  valid, and about histories that make has made; they hold with the exceptions of
  section 5, one case for each pair of kinds.  `CycleOnlyThrough` in particular needs
  that no other circle exists among the dependencies of all kinds;
- that SQLite does not fail on what preflight accepted (`ExpectedSchemaExecutes`): it
  depends on the values that are in the database, which the histories say nothing of.

## 7. Not modelled

- The text of SQL, YAML and messages; redaction; output formats; the SQL tokenizer
  and the schema parsers.
- In `SchemaMake`: the `reorder` of the PostgreSQL dialect, which is never
  reached by make; filters that match by pattern, several at once, or nothing;
  the score by which rename candidates are listed (here by name); trusted marks of
  accepted risks; operations that only a person writes, other than those the
  theorems cover.
- In `SchemaAdopt`: schema directories (the files are one YAML file); entities
  that cannot be exported other than tables with options; `--apply`, which is the
  verified adoption of `DriftRepair`.
- In `SqliteRebuild`: a rebuild outside a transaction is refused, as in the code,
  and not modelled further; raw statements, trigger queries, `ON DELETE SET DEFAULT`,
  foreign keys whose parent columns do not match, and double-quoted strings that are
  names.  The values of a column are all of one kind, a table with rows has several, a
  default is a key that a foreign key finds where its target has rows, and values that
  differ still differ after a cast.
- In `SchemaDrift`: managed rows (they are in `DriftRepair`) and the data in the
  tables, which DDL may fail on; that the bodies of functions and views are not
  compared is in the model, what they mean is not; expressions are chains of one
  operator with the groupings and casts the servers add; partition children; the
  rules for auto-increment and invisible columns; properties that are compared by
  plain equality only.
- In `DriftRepair`: references between parts, so the order of repair operations
  (`SchemaDrift` has it); databases without a migration lock.  A movement is one step
  on MySQL and MariaDB too, where its DDL commits statement by statement: a session that
  reads without the lock may then see the middle of a migration, which is no state of
  this model (`MigrationEngine` has it, as `ImplicitCommit`).  The properties about other
  sessions speak of undisturbed commands, and a movement disturbs whether it is seen in
  its middle or at its end; `RowsChangeOnlyAsObserved` does not depend on what was
  read.  The catalog queries of one inspection are one step: a change between two of
  them is not modelled; it would make a report that mixes two states, and disturbs it
  like any other.  Movements that fail half way are movements to a nearer target.  Not
  modelled is a `COMMIT` of a repair that fails without ending the session.
- A directory that changes during one `load_all`: a load is one step.  Files
  appear by rename only and are never changed, so a load that overlaps a save
  sees the directory as it was before or after it.
- In `MigrationEngine` a failed commit ends the transaction.  In SQLite a
  `COMMIT` that is refused as busy leaves it open; the command then ends and the
  connection of the command-line program with it.  A library host that reuses the
  connection is the subject of `LazyExecutor` in the plan.
- Configuration, argument parsing, terminal interaction, evidence tools, bindings:
  they hold no state that a property could be about.
