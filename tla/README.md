# Schemic in TLA+

A verification project for [Schemic](../src/README.md), a schema toolkit for
SurrealDB and Postgres: one authoring surface, migrations generated from it, a
CLI that applies, pulls and pushes schemas, and typed clients. The modules here
model the parts that keep state or order things (the migration runner and its
lock, the workflow of the commands, the planner, pushes, checks, pulls, the
resolution of connections, the watch loop) and the translations whose two ends
must agree: a schema and the database that was made from it, a query and what the
database reads in it, a row and what comes back.

Paths below are relative to the repository. `PROJECT.json` maps every definition
to the lines it stands for.

## 1. Inventory

| component | code | state it keeps | operations | modelled in |
|---|---|---|---|---|
| migration runner and store | `packages/cli/src/cli/migrate.ts`, stores in `drivers/surrealdb/src/driver/surreal.ts`, `drivers/postgres/src/driver.ts` | migration files, table of applied migrations, lock row, the schema in the database | `migrate`, `rollback`, `unlock`, `status` | `MigrationRunner`, `MigrationHistory`, `MigrationRunnerProofs` |
| migration workflow | `packages/cli/src/cli/index.ts`, `migrate.ts`, `packages/core/src/cli-kit/meta.ts`, `filter.ts`, `drivers/surrealdb/src/cli/pull.ts` | schema files, snapshot (`meta/`), migration files, records, database | `gen`, `gen --baseline`, `snapshot reset`, `migrate`, `rollback`, `pull --write`, `push` | `MigrationWorkflow`, `LeftFold`, `MigrationWorkflowProofs`, `LeftFoldProofs` (partly: pull per object) |
| migration planner | `packages/core/src/kind/plan.ts` and the kinds of both drivers | none (an algorithm with counters) | `orderObjects`, `orderedChanges`, `planKinds` | `TopoOrder`, `KindOrder`, `KindPlan`, `Planner`, `PlannerProofs` |
| live push | `drivers/surrealdb/src/cli/surreal-diff.ts`, `introspect.ts`, `ddl.ts` | the live database, a plan computed from a reading of it | `diffLive`, `syncPlan`, `applyStatements` | `LivePush`, `Planner`, `PlannerProofs`, `PushSession`, `TableTrip` |
| runtime connections | `packages/core/src/client.ts` | cache of opened siblings, the set `resolving` | `resolveFromConfig`, `connections.<name>.query` | `CallGraph`, `ConnectionResolve`, `Connections`, `ConnectionsProofs` |
| CLI targets | `packages/cli/src/cli/resolve.ts` | cache of open connections, the set `resolving` | `resolveTargets`, `resolveOne` | `CallGraph`, `TargetResolve`, `Connections`, `ConnectionsProofs` |
| watch loop | `index.ts` (`watchLoop`), `packages/core/src/cli-kit/schema.ts` | debounce timer, `running`, `queued` | `diff --watch`, `push --watch` | `WatchLoop`, `PushSession`, `PushSessionProofs` |
| file merge of pull | `packages/core/src/cli-kit/merge.ts`, `pull.ts` | schema files: consts, imports | `planPull`, `mergeUnits`, `planFile`, `applyPull` | `PullFiles`, `PullFilesProofs` |
| pull polling | `index.ts` (`pullPollLoop`) | `stopped`, the connection | `pull --watch` | `PullFiles` (the passes; not the timer) |
| shadow databases, replay check | `surreal.ts`, `introspect.ts`, Postgres `driver.ts` | a database with a fixed name, the session's selected database | `applyToShadow`, `checkReplay` | `CheckReplay`, `PushSession`, `PushSessionProofs` |
| ephemeral server | `drivers/surrealdb/src/cli/engine.ts` | a child process | start, readiness, stop, exit hook | `CheckReplay`, `PushSessionProofs` |
| SurrealDB DDL, lowering, introspection | `ddl.ts`, `cli/lower.ts`, `struct.ts`, `structure.ts`, `kinds/`, `cli/pull.ts` | none | schema to statements, database to structure, comparison, `ALTER`, rendering | `SurrealTypes`, `TableForms`, `TableTrip` (tables; not functions, access methods, params, analyzers) |
| SurrealDB authoring surface | `pure.ts`, `fn.ts`, `frag.ts` | none | fields and clauses, shape operations, presets, codecs | `SurrealFields`, `Zod`, `RowCodec`, `QueryText` (partly) |
| Postgres authoring and emission | `drivers/postgres/src/authoring.ts`, `lower.ts`, `emit.ts`, `kinds.ts`, `driver.ts` | none | schema to statements, catalog to schema, shape operations, codecs | `PgForms`, `PgTrip`, `PgFields`, `PgRows` |
| query builders and clients | `query/`, `client.ts` of both drivers, `packages/core/src/query.ts` | builders (immutable), the counters of placeholders and closures | rendering, binding, chaining, decoding | `QueryText`, `QueryMeaning`, `QueryCalls`, `QueryChain`, `QueryChainProofs`, `PgQuery`, `PgRows` |
| migration tags | `migrate.ts` (`nextTag`), `meta.ts` (`listMigrations`) | file names | `prepareMigration`, `commitMigration` | not modelled: clock and text |
| driver commands | `packages/cli/src/cli/driver-commands.ts`, both `commands.ts` | access methods of the database | `access rotate`, `access push`, sequence and enum commands | not modelled: single loops over statements |
| config, project, secrets | `packages/core/src/cli-kit/config.ts`, `config.ts`, `secrets.ts`, `connection.ts` | none after loading | discovery, merging, secret lookup | not modelled: straight-line reading of files and environment |
| display, scaffolding, release scripts, test kit | `style.ts`, `pager.ts`, `init.ts`, `scripts/`, `testing.ts` | none | output, templates | not modelled |

**How they interact.** A command resolves its target (`TargetResolve`), whose
config may open sibling connections; a program that uses the clients does the
same through `ConnectionResolve`. The command then loads the schema files, which
in watch mode is what a task of `WatchLoop` does, and calls one of the workflow's
operations. `gen` diffs the snapshot with the schema (`KindPlan`, whose order is
`KindOrder`; the statements of one table are `TableTrip`'s, those of a Postgres
schema `PgTrip`'s) and writes a migration and the snapshot; `migrate` and
`rollback` run migrations under the lock row (`MigrationRunner`); `push` takes the
schema through the scratch database (`PushSession`) and diffs the live database
instead (`LivePush`); `check` uses the same scratch database (`CheckReplay`); `pull`
writes the files (`PullFiles`). A program then writes rows through the codecs that
the same schema gives (`RowCodec`, `PgRows`) with statements the builders render
(`QueryCalls`, `QueryChain`, `PgQuery`).

`PushSession` composes the watch loop, the push and the check step by step. The rest
of the composition is by contract: `MigrationWorkflow` takes a migration to be the
step from one schema state to another that `KindPlan` shows its scripts to be, its
records to be those `MigrationRunner` keeps, and a pull to do to an object what
`PullFiles` shows it to do to the files.

**What is hard**, and what must hold:

- *Runner.* Several processes share one database. The lock is a row, not a
  session lock, so it outlives a crash; the plan is computed before the lock is
  taken; one migration of several may fail; an operator may clear the row of a
  live run. Runs must be kept apart and the records must always be the
  migrations `1..k`, with the schema in state `k`.
- *Workflow.* Four copies of one schema are written one after the other, by
  commands used in any order, restricted by filters, that may die half way. The
  files must replay to the snapshot, the database must be what its records say,
  an edit must not be forgotten, local schema must not be lost unasked.
- *Planner.* Dependencies, ownership clusters and tie-breaks together, both ways;
  drops, recreates and cascades.
- *Resolution.* Asynchronous resolvers share siblings, fail, and may be cyclic.
  Every sibling is opened once and closed, and the resolution ends.
- *Watch loop and scratch database.* Edits arrive during a debounce, a load or a
  task; the session of a push is moved to another database and back; whatever
  fails, the last task must have seen the last edit, the session must be back and
  the scratch database and the spawned server gone.
- *Definitions on their way round.* The schema, the emitted statements, the
  structure read back and the snapshot are four notations for one thing, and each
  command compares two of them. Nothing may differ that was not edited, and the
  statements of a difference must run and be undone.
- *Files of a pull.* The files are modules; what is merged must still load.
- *Queries.* A predicate is built before it is known where it will stand: operators
  bind, rows nest, placeholders of several fragments meet.
- *Rows.* Types, definitions and codecs of a table follow every shape operation
  separately; what is accepted must come back.

## 2. Modules

### The runner: MigrationRunner, MigrationHistory

`MigrationHistory` is the promise: migrations are generated at the end, applied
at the head and reverted from the head. `MigrationRunner` is the code, one action
per await: `List` (ensure the table, list the directory), `Plan` (read the
records, compute what to do), `Acquire` or `Refused` (the insert of the lock
row), `ApplyUp`/`ApplyDown` (one migration and its record in a transaction),
`Fail`, `Release` (the `finally`), plus `Crash`, `Unlock`, `Generate` and
`Delete` (a file disappears). `pc`, `listing`, `todo` are the local variables of
`migrate`/`rollback`; `rec`, `lock`, `schema` are the database. The code deletes
the lock row whoever inserted it, so `Release` does too; `lock` names the
inserter only for the properties. `fresh`, `disturbed`, `misused`, `crashed` are
history variables no guard reads.

Every migration redefines one schema object, so a migration applied out of order
shows in `schema`. `AbortSticks` chooses what a failed transaction does to the
session: the Postgres store sends `BEGIN; ...; COMMIT;` as one string and no
`ROLLBACK`, which leaves the one PGlite session unusable for the unlock.

### The commands: MigrationWorkflow, LeftFold

Objects are tables (sets of fields) or objects without fields. A command that
writes in several places is several actions that `pc` and `job` chain, and
`Crash` may come between any two: `Gen` then `WriteSnapshot`; `Squash` (the files
are deleted) then `WriteBaseline` or `NoBaseline`, `WriteSnapshot`, and
`LeavePending` or `ClearRecords` and `Record`; `Pull`, then `Baseline` or
`BaselineUnchanged`, `WriteSnapshot`, `Record`. `driver` says what the project's
driver can do: SurrealDB migration files re-mark every `DEFINE` as `OVERWRITE`
(`renderMigration`) and so run on a database that has the objects; only SurrealDB
has the live commands. `incidents` notes what happened that is outside a plain
history of commands: `reset`, `pushed`, `drift`, `raced`, `torn` (a crash),
`cleared` (a squash that deleted the files and wrote none), `squashed` (a baseline left
pending, by the code's choice or because the reconciliation failed), `mixed` (a pull over pending migrations). Each property names the
incidents under which the code makes no promise.

Running migration files one after another, and sorting out which of them are recorded,
are loops over a list. `LeftFold` is that loop for any step; `MigrationWorkflow` has it three
times (`Replayed`, `Recorded`, `Waiting`).

### The planner: TopoOrder, KindOrder, KindPlan, Planner

`TopoOrder` defines the order `orderObjects` promises: among the nodes whose
dependencies are done, one of the open cluster first, then the lowest. `KindOrder`
is the loop itself, with its counters and its `done` set, one iteration a step.
`KindPlan` uses the order to build the `up` and `down` scripts as `planKinds`
does, and runs them statement by statement on a database that accepts a
definition only on top of what it needs. Its loops over the changes are folds of `LeftFold`, so
that it can be proved about. The database is stricter than SurrealDB, whose migration files may
overwrite: what passes here passes there.

A definition says what the engine reports as its dependencies and which columns it uses.
`DefinitionsAssumption` is what the kinds of both drivers make of these. A column is used by an object
that depends on its table (an index, a constraint, a trigger or a policy; a SurrealDB table
on the functions of its fields), or by a view, whose query is text to the planner: views declare no dependency and are
registered after the tables, enums and, for a materialized view, the plain views they read
(`drivers/postgres/src/kinds.ts:431,449`), which have none either. A view over another of its own kind with a later name is
outside the assumption: nothing orders the two. The only kind migrations
leave out is `access`, which depends on functions and which nothing depends on
(`drivers/surrealdb/src/kinds/explode.ts`).

### Pushes and checks: LivePush, CheckReplay, PushSession

In `LivePush` an object is one `DEFINE` statement. `Up` orders the statements as
`diffSnapshots` does (drops child-first, additions, changes; the group of the
table before the rank of the kind), `SyncPlan` leaves out the drops with
`--no-prune`, and `Apply` runs the plan in one transaction. Its three loops, over the changes,
over the statements that are kept and over those that are applied, are folds of `LeftFold`.
`Planner` puts the sort, the migrations and the pushes together: a behaviour is one of
one of them.

`CheckReplay` is `check`: the choice of the engine (in the process, a server it
spawns, the server it is connected to), the replay, the scratch database
(`CheckRemove`, `CheckDefine`, `CheckFill`, `CheckRead`, `CheckDrop`: one action per
statement of `applyToShadow`), `stop()` and the exit hook of the spawned server, which
may fail to come up, exit or be killed at any point; `Drain` is what Node does when the
only thing awaited is an event that has already happened.

`PushSession` composes `WatchLoop` and `CheckReplay`: the task of the watch loop is a
push, whose session is moved to the scratch database and back (`using`), and the
check may use the scratch database of the same server. `pushMixed` and `checkMixed`
note that one used it while the other did.

### Connections: CallGraph, ConnectionResolve, TargetResolve, Connections

`uses` is an arbitrary graph of connections whose resolvers query siblings, one
at a time or (`together`) all at once. The two implementations differ and are
modelled apart: the runtime keeps the *promise* of a sibling, the CLI the *open
connection*, and the CLI refuses whoever asks for one that is opening. The runtime
keeps the promise when `open(name)` has returned (`client.ts:103`), and that call runs
the sibling's resolver up to its first await (`connection.ts:107`). So the resolvers that run
in one go are a `stack`: `Ask` pushes the resolver of a new sibling if it may query before its
first await (`eager`), `Return` pops the one that comes to an await and keeps its promise,
and a query of a sibling that is still in the stack is `refused` as a cycle. A query of a sibling
whose promise is kept waits for it, whatever it waits for itself. A resolver or an attempt to connect may fail anywhere (`Fault`);
`faults` counts how often, so that properties can tell such a failure from one
the code makes by itself. `Connections` puts both side by side: a behaviour is one of
the application's resolver or one of the CLI's, never of both.

### The watch loop: WatchLoop

`Fire` is the code's `fire`; a task loads the files one by one (`Load`; modules
are never cached), so an edit can fall between two reads of a load. `tasks` counts
running tasks, where the code has the Boolean `running`: that they do not overlap
is then part of the invariant.

### The files of a pull: PullFiles

A schema file is a list of `export const`s and a set of imports; a definition is the
set of its keys, of which `by` are the tables it refers to by import. The loops over units are
folds of `LeftFold`; `Sorted` is the recursion of `topoSort`, as a recursive function of what is
emitted, what is being visited and what is to visit. `Plan` is
`planPull` and the guard of `pullPass` (in a directory the plan loads every file),
`Write` is one file of `applyPull`, `Crash` may come between two; `AddKey`,
`AddReference`, `AddEntity`, `AddHelper` are edits, which leave a schema that loads if it did
before; `Drift` changes the database. `Loads` evaluates the modules: every import leads
somewhere, none in a circle, nothing is used before it is defined. `marks` notes what a
pull is known not to cope with (section 5).

### SurrealDB tables: SurrealTypes, TableForms, TableTrip

`SurrealTypes` has a type in its four notations: the `s.*` schema, the emitted text
(`inferField`, `ddl.ts`), what `INFO` reports, the normal form (`struct.ts`), and back to
`s.*` (`szType` of `pull.ts`). `TableForms` does the same for whole definitions: emission,
lowering, normal form, canonical statements. `TableTrip` runs the commands on them:
`Edit`, `Migrate` (gen and migrate), `Rollback`, `Reapply`, `Push`, `Pull`, with
`planMigration` (`alterField` and its siblings) and `overwriteStatement` as the
statements, and `Run` as the database.

### Postgres schemas: PgForms, PgTrip

`PgForms` takes a schema through `lower.ts` and `emit.ts` (names, columns, keys, indexes)
and back from the catalog (`introspectType`, defaults, constraints of `driver.ts`).
`PgTrip` has the twelve kinds with their dependencies, `planUp`/`planDown` of the core
over them, and a database that checks every statement. `ByHand` and `BackByHand` are the
changes the planner cannot make, named one by one (section 5).

### Queries: QueryText, QueryMeaning, QueryCalls, QueryChain, PgQuery

A text is a sequence of tokens with brackets as trees. `QueryText` is the renderer:
`RhsParen`, negation, derived values, `$parent` and row tokens, renaming of placeholders
on merge. `QueryMeaning` gives both ends the same kind of tree: `Read` is SurrealQL's
reading of the text (precedence, scopes), `Intended` what the author of the calls meant.
`QueryCalls` is the author: callbacks open and close, columns and variables of any open
callback may be used. `PgQuery` is the same for positional placeholders (`Binder`,
`splice`). `QueryChain` is the chains of calls on every statement builder of SurrealDB:
each call copies the builder's clauses by the list the code has for it, and `run()`
refuses or decodes.

### Rows: Zod, SurrealFields, RowCodec, PgFields, PgRows

`Zod` runs a schema node over a value, both ways. `SurrealFields` and `PgFields` are the
vocabularies `s.*`: a field is its Zod node and its clauses. `RowCodec` and `PgRows` put a
table together with the shape operations (`pick`, `omit`, `extend`, `partial`, `use`,
merging of `s.object()`s, ...), keep beside it the fields its TypeScript type has
(`typed`), and write to a row with every input of the types; `meant` is the record the
calls describe in the program's values.

### MC modules

`MCMigrationWorkflow`, `MCPgTrip` and `MCTableTrip` instantiate one model with definitions of
their own; `MigrationRunner`, `Connections` and `PushSession` need no more than the model values
of their configurations. `MCPlanner` extends `Planner`. `MCDefinitions` (`PullFiles`, and `TableTrip` as an instance) and
`MCQueries` (`QueryChain`, and the other models of queries and rows) hold several models that do not
share state: a behaviour is one of either, chosen by the initial state, and the others' variables
rest. What they extend, theorems are about.

## 3. Runs

| run | question and properties | bounds | why they are enough |
|---|---|---|---|
| `runner_concurrent` | Do lock row and plans keep the history in order, and does every run end? `MutualExclusion`, `OrderlyHistory`, `StaleLockMeansCrash`, `OrderlySteps`, `EveryRunEnds` | 2 processes, 2 migrations, deletion of files, sticky aborts; 452 k states | an outdated plan takes one other run and one migration; the theorems cover every size |
| `runner_race` | violation of `HistoryInOrder`: the lock does not keep concurrent runs from racing | 2 processes, 2 migrations | a counterexample |
| `planner` | Is the sort right (`DepsFirst`, `SortEnds`), do scripts run, reach the schema and take it back (`MigrationsArrive`), does a push (`PushDoesAsAsked`)? | every dependency relation and ownership of 3 nodes and one external reference; all pairs of sound schemas of 6 SurrealDB and 5 Postgres objects; all pairs of database and schema of 5 statements with 2 definitions each; 545 k states | a tie-break against a dependency takes three nodes, and the theorems on the three invariants cover every number of objects; every kind of dependency the kinds report, every way to change an object (in place, recreate, cascade); every pair of ranks |
| `flow` | Do the four copies of the schema agree? `ReplayIsSnapshot`, `MigrationsRun`, `EditStaysPending`, `PullResyncs`, `NothingIsLost` | 2 objects, 1 field, 3 generated files, both drivers, one incident; 1.98 M states | three files allow gen, gen, squash and gen, migrate, squash, gen; the theorems cover every number of objects, fields and files |
| `flow_pull_filter` | violation of `DiscardsOnlyLocal` | 2 objects, a filter on one | a counterexample |
| `connections` | Opened once and closed, right outcome, settles, for both resolvers: `OpenedAndClosed`, `OutcomesAreRight`, `BothSettle` | all graphs of 3 connections: the target may query all at once, one sibling before its first await, the other either or both (CLI: any target, one parallel); failures; 1.76 M states | a sibling shared by two others, a cycle with and without the target, and of two siblings that ask in one go, later, or one so and the other not; the theorems on `OpenedAndClosed` and `OutcomesAreRight` cover every graph |
| `sessions` | Is no edit lost, does the database follow the schema, is the scratch database gone and the exit code right? `NoEditLost`, `LiveIsSchema`, `NothingIsLeft`, `ZeroMeansSame`, `BothEnd` | 1 file, 2 edits, a check of each engine at any time; 261 k states | one edit in a debounce or a load and one in the push itself; the theorems on the four invariants cover every number of files and edits |
| `definitions` | Does a table come round (`ScriptsRun`, `NothingToDiff`, `RollbackRestores`), do pulled files load and keep what they should, and does a second pull leave them alone (`PulledFilesLoad`, `PullDoesAsAsked`, `PullSettles`)? | 60 tables of one or two fields, from each to each; 2 tables and a function in directories and single files, 1 edit, 1 change of the database, passes of every mode and two filters; 580 k states | the statements of two fields do not depend on each other; references both ways and to itself; an edit and a drift are what a pull merges; the theorems on `PulledFilesLoad`, `PullDoesAsAsked` and `PullSettles` cover every number of tables, edits and changes |
| `definitions_perms` | violation of `PermissionsAsDeclared` | fields with partly open permissions | a counterexample |
| `postgres` | Does a Postgres schema come round? `ScriptsRun`, `NothingToDiff`, `StepsArrive`, `RollbackRestores` | 53 schemas of up to three objects, from each to each, one migration after the other; 251 k states | every kind, every dependency between kinds, every change of a column's clauses |
| `queries` | Does what is sent read as written (`ReadsAsWritten`, `PlaceholdersAgree`, `ClausesStand`), do rows come back and typed inputs pass (`RowsComeBack`, `TypedIsAccepted`, `UseNarrows`, `PgRowsComeBack`, `PgTypedIsAccepted`)? | 7 kits of up to 7 calls and 4 open callbacks; 4 Postgres calls; chains of 3 calls on every builder; every word of both vocabularies plain, optional, in lists and in objects, 4 tables under one or two shape operations, 2 writes; 1.78 M states | two fragments with equal placeholder names, three precedence levels and three rows in scope; the third call of a chain can undo the first, and the theorem on `ClausesStand` covers every chain; two wrappers and two operations are where codec, type and definition part |
| `rows_optional` | violation of `PgRowsComeBack` | the table of the driver's README | a counterexample |

`CHECK_DEADLOCK FALSE` is set where the modelled activity ends: a sort, a plan, a
push, a query or a resolution is over, the migration files are used up, the edits are
and the watch loop was stopped, or the script of a table or schema was refused or a
change has to be made by hand. The runner never stops, and its runs check deadlock.

**Fairness.** `MigrationRunner!FairSpec` has weak fairness of the own steps of each
started run: the JavaScript runtime continues a promise chain unless the process
dies. Nothing makes anyone start a run, call `unlock` or generate. The resolution
modules have weak fairness of each resolver's steps and of the `finally`: every
query is answered or fails, and what runs comes to its next await or returns. `PushSession` has weak fairness of `SessionLoop` (callbacks
that are due are called, statements are answered) and of `CheckStep` (the same for the
check, and a spawned server comes up or fails, and ends when told to). Its edits
are bounded, so they stop: a directory edited for ever may postpone the debounce for
ever, which the code allows. `planner` has weak fairness of the sort's loop, which is synchronous.

**External behaviour the models rest on**, marked `external` in the map:

- *SurrealDB definitions* (`TableTrip`): a plain `DEFINE` of what exists is refused; the
  elements of a list are made, retyped and removed with it; a field's permissions default
  to `FULL`, a table's to `NONE`; types are reported as `none | T` in authored order.
- *Postgres* (`PgTrip`): empty tables; one transaction per script; `DROP TABLE ... CASCADE`,
  every other drop refuses while used; the casts of `ALTER COLUMN TYPE` (same base, to text
  types, among the numeric and among the timestamp types); a foreign key needs a unique key of the
  same base type, a gin index a `jsonb`. Bodies and expressions are atoms, column order
  is left out, triggers and policies are known by their names, names of different kinds are disjoint,
  and predicates that differ are reported as different texts.
- *SurrealQL* (`QueryMeaning`): the precedence `OR < AND < comparison < + - < *`, `$parent`
  one level, block and closure scopes; `ONLY` wants exactly one row
  to return, or with `LIMIT 1` at most one (`QueryChain`).
- *Rows of SurrealDB* (`RowCodec`): `DEFAULT` for new records only; fields of an absent optional
  object are not checked; a schemafull table refuses unknown keys unless the object is flexible;
  `MERGE` merges objects deeply; `AND` binds before `OR`; the `ASSERT` of a format takes texts and is
  skipped for `NONE`; a changed `READONLY` field is refused; the SDK returns small integers as numbers, large ones as bigints, bytes
  possibly as `ArrayBuffer`.
- *Rows of Postgres* (`PgRows`): `numeric` comes back as text, `int8` as number or bigint, absence
  as `null`, `jsonb` through JSON; `NOT NULL`, `DEFAULT`, identity and generated columns.
- *Zod* (`Zod`): a default applies when decoding only, an optional runs what it wraps for any other value, a
  union takes its first option that fits.

## 4. Theorems

TLAPS proves, for every value of the constants under the modules' assumptions
(the runner's processes do not include `NoOne`, bounds are naturals, no file is called
`"no database"`, there are finitely many objects, what belongs to a table belongs to a table,
definitions use what section 2 says they do):

- `MigrationRunnerProofs`: `TypeCorrect`, `RunnerMutualExclusion`,
  `HistoryStaysInOrder`, `StepsAreOrderly`, `LockIsReleased`, all from `Invariance`.
- `MigrationWorkflowProofs`: `FilesTellTheDatabase` (`ReplayIsSnapshot`), `EditsAreKept`
  (`EditStaysPending`) and `MigrationsAreAccepted` (`MigrationsRun`), from `DatabaseInvariance`;
  `PullTakesNothing` (`NothingIsLost`) and `PullBringsTogether` (`PullResyncs`), from
  `FlowInvariance`.
- `ConnectionsProofs`: `ClosesWhatItOpens` (`OpenedAndClosed`) and `ResolvesWithoutCycle`
  (`OutcomesAreRight`), from `ConnectionsInvariance`.
- `PushSessionProofs`: `NothingIsLost` (`NoEditLost`), from `LoopInvariance`; `LiveFollowsSchema`, from `SessionInvariance`; `ExitCodeIsRight`
  (`ZeroMeansSame`) and `CommandsCleanUp` (`NothingIsLeft`), from `CheckInvariance`.
- `PlannerProofs`: `DependenciesComeFirst` (`DepsFirst`), from `CountersAreRight`; `MigrationsArriveAlways`
  (`MigrationsArrive`), from `PlanInvariance`; `PushReaches` (`PushDoesAsAsked`), from `PushInvariance`.
- `PullFilesProofs`: `PulledSchemaLoads` (`PulledFilesLoad`), `PullsDoAsAsked` (`PullDoesAsAsked`) and
  `PullsComeToRest` (`PullSettles`), from `PullInvariance`.
- `QueryChainProofs`: `ClausesAlwaysStand` (`ClausesStand`), from `ChainInvariance`.

`LeftFoldProofs` holds no result about the code, only the lemmas on the fold the loops are
written with, which the others cite: what one more element does (`FoldAppend`) and what holds all
the way along (`FoldThrough`).

*The runner's invariant* `IInv` has three parts. `TypeOK`. `LockInv`: unless the row
of a live run was cleared, a run in its critical section is the one that
inserted the row; mutual exclusion follows because the row has one inserter.
`HistoryInv`: until an outdated plan is executed or a file vanishes, the files
are `1..born`, the records `1..schema`, and every process whose reading no other
run has outdated holds a *segment*: it listed `1..k`, and what it has left to do is
`schema+1..k` (up) or `k+1..schema` (down). The last part is why the order of the history is not
inductive by itself: a plan is executed long after it was computed. The lemmas
about intervals show that `UpPlan` and `DownPlan` cut segments from segments,
whatever `--to` and `count` are, and that a step at the end of a segment leaves a
segment. `StepsAreOrderly` is the step simulation of the refinement: every step
is a step of `MigrationHistory` or leaves it, until the history is disturbed.
`LockIsReleased` needs no more than `TypeOK`: only a crash, or a session that an aborted
transaction has made useless, leaves a row whose inserter is in no run.

*The workflow's invariant* has two halves. `FlowInv` is the bookkeeping, and holds whatever
happens: the files form a chain, each starting at the stage the ones before it lead to
(`ChainInv`), since a command writes the delta of the snapshot and the snapshot is where the
files end; the recorded files are the first `k` (`PrefixInv`), since `migrate` and
`rollback` work at the end of the records and a pull records its baseline only when
all other files are recorded; and what a command still has to write is in its job (`JobInv`,
`PullInv`). The properties speak of the moments between two commands and are not inductive:
in between, the snapshot is behind the files or the records are. `DatabaseInv` adds that the
database is at stage `k`, and after a squash that left its baseline pending at least has the objects
of that stage. A migration and its way back cancel out (`ThereAndBack`), so `rollback`
leads from stage `k` to stage `k - 1`.

`DatabaseInv`, and the three theorems that follow from it, assume `WholeSchema`: squashes and
pulls are not filtered, and no pull merges. The hypothesis is that of the run `flow` and is
necessary: with any of the three relaxed TLC finds `ReplayIsSnapshot` violated (section 5).
`gen`, whose filter is arbitrary, and `push`, drift and crashes, after which the properties
promise less, are in the theorems. `PullTakesNothing` and `PullBringsTogether` need no such hypothesis.

*The resolvers' invariants.* In an application the list of opened siblings holds every sibling
that is open or opening, except those whose opening call still runs and will put them there,
so that closing the list closes all; that what resolves reaches no
cycle follows backwards along the queries: a sibling that is open has had all it queries open
(`ResolveInv`). A query is refused only when what was asked for is in the stack, and in the stack
each was queried by the one below it (`Chain`), so that there is a cycle. The CLI has no list. It closes what is open when the resolution is over, which is
enough only because nothing is opening then, and that is so because its resolvers form a
stack: each was opened by the one below it, the target's is at the bottom, and the bottom
ends last. `StackInv` says that some ranking of the resolvers is such a stack; the refusal of a
sibling that is opening (`resolve.ts:231`) means that it is in the stack, and so on a cycle of the graph.

*The watch loop's invariant*: each file whose last reading is stale is excused by
something still to come: an event, an armed timer, a noted task, or a running
task that has not loaded it yet (or failed).

*The session's invariant* is the loop's, kept because whatever a push does, the loop
around it takes a step of `WatchLoop` or none (`TaskIsTask`), and one about the way of the schema:
the scratch database is empty when the task fills it, holds the schema that was loaded
until it is read back, and the live database is as the task read it until the difference
is applied, since the session is in the scratch database only from `use` to the `finally`. Two conditions
remain: no `check` in the scratch database at the same time (`pushMixed`) and no SIGINT.

*The check's invariant* `CheckInv` holds next to a session that runs all the time, which
touches of it only the scratch database (`SessionSpares`). What the check read back is
the schema unless its scratch database was not its own, and the verdict is right about it (`VerdictInv`); the exit code is set from that verdict
once, unless the server was killed from outside (`ZeroMeansSame`); a spawned server that is up
belongs to a check that has yet to stop it (`ServerInv`); and the scratch database exists only
on the way from its definition to its drop, on every path (`ScratchInv`).

*The sort's invariant*: each counter of `orderObjects` is the number of edges from the objects
of its key to keys that are not done, so that a counter of zero means what the code
takes it to mean. It is kept because a key is done once: an object whose key is done is not
emitted, also where two objects share a key.

*The migration's invariant* `PlanInv` says where a script is. Let `A` be the objects that are
as they will be, the others as they were: the database is `Mix(A)`, or that without one object
which is dropped to be created again (`Gap`). What makes the statements run is that `A` is
*complete*: what has changed has the changed objects it needs, and what has not needs nothing that is gone. This is
where the order matters. `OrderIsRight` shows of the order, for every acyclic graph, that it lists
each object once and after its dependencies, and what depends on nothing before what has a higher number
and no owner, on which the views rely; its reverse serves the drops and the way back (`CompleteParts`). In a complete state
everything has what it needs (`MixIsFine`, `GapIsFine`), so each
statement is accepted, and a cascade, which keeps the largest part that has what it needs, takes nothing managed along
(`NothingIsTaken`). Each hypothesis of `Planned` is used once: no object loses a column that was used, so
that the column is still there; and nothing stood on an object that is created again. What
migrations do not manage may be taken along by a cascade, which `At` allows.

The first half of `BothWays` promises more: also where a used column goes, a script that got to its end has
reached the schema. There the cascade of a table that is created again, or of one that is dropped, may
take objects along. `Loose` is the invariant: what is as it will be, and what is to be changed in place, is still there, or
an object that is to be changed in place is gone, and the script does not get past it, since `ALTER` of what is not there is
refused (`TakenOrKept`, `LooseStep`).

*The push's invariant* `PushInv` says that a plan is still the script between the database and
the schema when it is applied. The rest is about the script. A sort by a total order lists
each statement once and in that order (`SortedFacts`: the number of elements below one is its
place), and both comparators of `diffSnapshots` are total orders on any statements, the group of the
table first. `Leads(s, a, t)` says that the database `s` accepts the script `a` and is `t` after it.
Drops are accepted in any order, and what goes with its table is not dropped again; the
additions are accepted because a table's rank is below that of its parts and its group the
same; a change is accepted where the table is, and dropping an index on the way takes nothing
along. Without its drops a script *settles* what was added or changed: the last word on each
such object is the schema's, and the rest is not touched (`SettledResult`); this needs no word on
what is accepted, which is why the property of `--no-prune` speaks of accepted plans only: a
definition may still be refused, when an index that changed is not dropped first.

*The chain's invariant* `IInv` reads the builder off the calls: each clause is what the last call of its
method gave (`ClausesInv`), or, after `count()`, only the filter is. The property says this of what is sent
and not of the builder, so it is not inductive: that a later call of another method disturbs nothing
has to be known of every clause, also of those the statement does not show. `Effect` says for each class what a call may change, one
lemma a class (`SelectEffect` to `RelateEffect`), and `CallKeeps` carries the invariant over any such
call. `relate()` is the exception: its expressions are those of the last `set(fn)` it got, not of the last
patch (`ExprsInv`), and the deviation `relate(...).set(fn).set(obj)` is what keeps that apart from
what was asked for (`PatchIsAsked`). A chain may be of any length, and any number of rows may match.

*The pull's invariant* `PullInv` says that each table has one *home*, the only file that defines it,
and that while a pull writes there is a plan which loads and does what was asked for, every file being as it
was, and to be written still, or as planned. Neither property is inductive: that the last write leaves a
schema that loads has to be known when the first one is made. So the weight is on the plan
(`PlanHolds`). What a merge leaves in a file are the units, what they did not replace, and, where local keys are kept,
units with those keys (`MergeFacts`); a unit goes to the home of its table (`PlaceFacts`). If nothing is
marked, every table that is still used in the plan is a pulled one that a pulled definition refers to (`UsedIsPulled`), and its unit lies
where the import says (`PulledUses`). The plan's imports are then a part of the references that do
not lead back, and a circle of them would be one of those (`PlannedNoCircle`). In the combined module of a new single file
nothing is imported, and the order must do: `Sorted` lists each table after those it refers to
(`SortedFacts`). This is a depth-first search, and its recursion is shown to be defined at all
from a rank that falls with every call (`RankFalls`, `RightExists`). That `--merge` keeps everything (`PlannedKeeps`) and
`--discard` leaves what the database says (`PlannedMirrors`) does not depend on marks; the second holds also
of files an earlier pull left torn. Nor does it depend on marks that a second pull finds nothing to write:
the invariant says of the plan that a merge would leave each of its files as it is (`Settled`: the units are there,
what was grafted to them would be grafted again, the imports are those it would add), and this needs the home of a table to be
the same before the pull and after it. The assumption, `FilesAssumption`, only says that tables, functions, keys and the user's
file have different names and that the directory listing has every file.

The proof showed two marks of the model to be too narrow: a kept reference closes a circle also by way of
several pulled ones, and an import that the user wrote stays in a file although a unit of that name
is now put there (section 5).

*What stays with TLC.* Liveness under fairness (`EveryRunEnds`, `SortEnds`, `BothSettle`,
`BothEnd`) and everything about `ENABLED` are beyond the prover. Induction over
lists and numbers is not: the library's induction rules cannot be instantiated, but a statement
that fails for some number fails for a least one (`LeftFoldProofs`), and that is how the
proofs above go along the files. Nested data is out of reach: the modules of types, definitions, queries and rows
(`SurrealTypes`, `TableForms`, `TableTrip`, `PgTrip`, `QueryText`, `QueryMeaning`,
`QueryCalls`, `PgQuery`, `Zod`, `RowCodec`, `PgRows`) recurse over it with
`RECURSIVE` operators, which the prover does not take. Those are model-checked on the instances above.

## 5. Deviations found

Four disagreements between the code and what it says of itself are runs that
TLC must find violated (`PROJECT.json`, findings):

1. `runner_race`. `migrate` and `rollback` read files and records before they take
   the lock and do not read them again, so "concurrent runs can't race"
   (`migrate.ts:367`) does not hold: a `rollback` may wait behind a `migrate` with a plan
   made before it.
2. `flow_pull_filter`. `pull --tables x --write --discard` deletes the files of all other
   tables as local-only (`pull.ts:886`). Its baseline then records a migration that removes them, and
   the database still has them: one reason for `WholeSchema` in the theorems on the workflow.
3. `definitions_perms`. The open operations of a field's `$permissions` are lost, and what is
   missing is taken for `NONE` (`structure.ts:263`), where `pure.ts:1059` says that omitted
   operations default to `FULL`.
4. `rows_optional`. A row that was written without its `.optional()` column cannot be read:
   the database returns `NULL`, which `z.optional` refuses (`postgres/src/query/index.ts:448`).

The others were met while modelling. Each is excluded by a named guard of a property, by a
mark or by the instance, as said.

**Runner and workflow**

- A failed migration leaves the PGlite session in an aborted transaction, the unlock fails in it, and
  the lock row stays though nothing runs (`postgres/src/driver.ts:733`; `AbortSticks`).
- `pull --merge` records a local-only field of a live table as applied; it is never
  generated (`migrate.ts:250-313`; `PullModes` of `flow`, `WholeSchema`).
- `gen --baseline --tables x` deletes every migration file, but its baseline and the new snapshot cover
  only `x`: the files no longer make the other objects, which the database has, and the next
  `gen` makes them again (`index.ts:646`; `WholeSchema`).
- `gen --baseline` deletes the migrations before the schema is loaded and planned
  (`index.ts:646`; mark `cleared`). Without `diffLive` (Postgres), and when the comparison or a call
  of the store fails (`index.ts:712`), the squashed baseline stays pending over a database that has
  its objects, and `migrate` fails (`index.ts:692`; mark `squashed`). The drift check of a squash and the records are separate reads (`index.ts:697`).
- A crash between the snapshot and the record of a pull is not retried: the next pull finds
  nothing to change (`migrate.ts:310`; mark `torn`).
- Two `gen`s in one second, or at once, may number two files alike (`migrate.ts:151`).
- `access push` changes several access methods one statement at a time (`commands.ts:323`).

**Planner and push**

- Two objects of one kind and name under different owners share a counter; the sort then
  reports a cycle that is not there (`plan.ts:51-76`; `Key` of `KindOrder`).
- A statement alters away a column that a view still uses (`plan.ts:246-269`; `LosesUsedColumn`);
  a recreate cascades to unchanged indexes, foreign keys and views, which nothing creates
  again (Postgres `kinds.ts:272`; `RecreatesUnder`).
- `--no-prune` drops the `REMOVE INDEX` of an index change and keeps its `DEFINE`, which fails
  (`introspect.ts:266`); a full-text index is defined before its analyzer (`surreal-diff.ts:203` sorts by
  table first; the comment at `surreal-diff.ts:114` says that analyzers are "defined first"), which
  the database of `LivePush` does not mind: it asks an object for its table only.
- Two commands on one server share the scratch database of a fixed name, and make each other's
  schema of it (`surreal.ts:377` logs "isolated scratch databases"; `pushMixed`, `checkMixed`).
- `stop()` looks at `exitCode` only: if a signal killed the spawned server it waits for an event that
  has passed, the process drains, and `check` exits 0 without a verdict (`engine.ts`; `struck`). `check`
  has no SIGINT handler, so the exit hook does not run; a connect that fails after the
  spawn is outside the `try`.
- After SIGINT a tick of `pull --watch` or a task in flight goes on with the closed
  connection (`index.ts:1266`, `index.ts:243`).

**Connections**

- Siblings that query each other may wait for each other's promise for ever: `openOnce`
  returns it before `open` looks at `resolving` (`client.ts:101`; `client.ts:53` speaks of cycle
  detection). The cycle is found, and ends with the error, only if every query in it is made in the
  call that opens the sibling, that is before the first await and, of several, first or together;
  `await ctx.connections.x` itself is not such a query, since `then` is called a microtask later.
  `SettlesWithoutCycle` excepts the other cycles (`LateCycle`).
- CLI: two concurrent queries of one sibling are reported as a cycle (`resolve.ts:231`), and a
  sibling that opens after the `finally` is never closed (`resolve.ts:303`; `together` of
  `TargetResolve`).

**Files of a pull** (marks of `PullFiles`)

- `strayed`: in the single-file layout, or if a table is kept in a file not its own, pull writes
  imports that lead nowhere; and an import the user wrote stays in a file into which a definition of
  that name is now pulled. `torn`: a crash between two files leaves one that imports
  what is not written, and the next plan has to load it. The pull that makes the single file
  imports nothing, and the next one adds the imports (`PullSettles` says when). `grafted`: `--merge` keeps a local
  reference, which may close a circle with pulled ones: the resolver looks for circles among these only. `reported`: `--discard`
  deletes a file that a mixed one, which is only reported, still imports.
- Functions, access methods, analyzers and params are planned at their default path and so defined
  twice if kept elsewhere, and then keep `--discard` from deleting a removed table next to them (it is only
  reported); a table under a const of the user's own name gets a second const
  with `--merge` and is replaced with `--discard`; exported helpers of a planned file are removed
  by `--discard`; edits between planning and writing are overwritten; access methods are off
  in the default filter and secret params are kept out of a pull, so their files count as local-only.

**SurrealDB definitions**

- A change from a list to an object of any keys is refused (`MCTableTrip` with `Extra = "maps"`
  shows `ScriptsRun` violated).
- The normal form loses a table's `view`, an event's `async`, `retry`, `maxdepth` and `comment`, an
  index's `comment` (`docs/COVERAGE.md:36,107`, `SYNTAX-COVERAGE.md:140` list them as supported), and
  `idx.spec ?? UNIQUE` loses `unique` (`lower.ts:264`).
- A union with an optional member is emitted as `option<a> | b`; nested lists of objects and
  optional ones emit `.*` plainly; the order of a `record<b|a>` shows as drift.
- `pull` has no words for unions, sizes, the values of maps and the order `null | T`; the offline
  rendering loses element shapes; the removal of an access method always says `ON DATABASE`.

**SurrealDB vocabulary and rows**

- `.array()` and `.nullable()` keep the `ASSERT` of a format field, which then refuses lists and
  `NULL`. `s.json()`, discriminated unions and unions of objects have a type `object` without `FLEXIBLE`
  and are refused keys. `exclude`/`extract` of an enum emit literal types, where the comment says `string`.
- `safeEncode` throws on `null` for a nullable object, though documented as not throwing; a value that
  is no object passes as `{}`; unknown keys pass; `.partial()`/`.required()` of an `s.object()`
  keep its field map, so columns made of it are not what their types say (`pure.ts:1541`; the
  composition `objectPartial`, `extend` is left out); nested `$internal()` fields are not stripped;
  nested `$default` keys are not create-shaped (`pure.ts:2877` says they are); an `id` column of
  `extend` or a preset replaces the smart id; `omit` and `pick` keep indexes and events on what they
  remove; `.create` takes every `$value` for optional, its type only those that say so.
- `content()` has optional `$default` keys whose `DEFAULT` an update does not apply; optional
  fields cannot be unset by `merge`; `set` of a nested object replaces it (documented).
- `.use()` on a table without a permission takes the preset's rule (the comment: "can only NARROW").

**SurrealDB queries**

- A nested traversal filter renames placeholders twice and loses the first value
  (`pure.ts:4923`); a hand-written binding `b1` is overwritten by the next generated one.
- Plain columns of an outer row render bare in a nested `.return`, `.value`, `orderBy` and in
  a traversal's filter, and the inner row captures them; rows of writes and traversals carry no token
  (`docs/proposals/typed-fragments.md:118`); `$parent` reaches one level only.
- A block's variable called `v` or `acc` is captured by closure parameters, and closures in lazily
  resolved blocks inside another closure reuse `$v`.
- `select(T, id).count()` counts the whole table: the id is not handed on (`index.ts:373`). A write with
  `.only()` that returns nothing (`delete` by default, `.return("none")`) is refused by the database, which
  wants one row for `ONLY`, where the types say `undefined`. Both are in `Deviates`, like the next three.
- `.return(row => ...).raw()` still decodes; `.one().limit(n)` keeps `ONLY` with `LIMIT n`;
  `relate(...).set(fn).set(obj)` keeps the earlier expressions; a traversal's `.where` drops an earlier
  `.return` and chained `.where`s AND there, while they replace elsewhere; awaiting a builder twice runs it twice.

**Postgres**

- Definitions: an added column's comment is never emitted (`kinds.ts:280`; `COVERAGE.md:118` says it
  is); a sequence cannot be dropped with the default that used it; changes of defaults, checks,
  comments and bodies are recorded by the next `gen` and never made (documented as not diffed);
  recreating a table drops its unchanged indexes, keys, triggers, policies and views; removing a
  policy leaves row level security on; views on views are ordered by name; the rollback of an enum's
  extension fails while the enum is used; the down script makes an index before its column; a type
  change from text has no `USING`; that of a column with a gin index fails; triggers and policies of
  one name on two tables collide (`kinds.ts:580` says their presence per table is what counts).
- Definitions that read back differently: `s.char()` without a length, arrays of `bigint`, `smallint`, `real`,
  `varchar(n)`, `numeric(p,s)` and `char`, nested arrays, a text `id` as primary key, a field `id`
  without one, nullable key columns, a foreign key from a column that is not text to a single `id` or under a name of its
  own, descending sequences, domains over `int` or `numeric(10,2)`.
- Rows: `numeric` comes back as text and is decoded as a number (`authoring.ts:537` says so), a
  `Date` in `jsonb` does not decode and a bigint cannot be written; `.required()`/`.partial()` of an object keep the field map;
  `update().content(row)` keeps omitted columns, where the comment says that it "REPLACES every column"; a declared `id`
  without default is optional in the types; `$identity("always")` columns are accepted and
  then refused by the database; only a primary key called `id` is found among fields; `s.array` takes over the
  clauses of its element; `update` skips only a field-level primary key.
- Queries: `count()` ignores limit and start; `create().content({})` renders `() VALUES ()`; `$n` in string
  literals of a fragment is renumbered; the wire type `int` is never matched.

## 6. Not modelled, and limits

- Wording and layout of statements, and expressions: a definition's expression is an atom, so
  that normalisation of expressions and the drift it may show are not covered.
- Functions, access methods, params and analyzers are single definitions in `KindPlan` and
  `LivePush`; their clauses are not modelled. Relations, events and the typed
  functions of the authoring surface, tuples, sets, maps, intersections and JSON in rows are not.
- Checksums of migration files: the code stores them and never compares them. Tags, the
  clock and the listing's order: migrations are numbered by the order of their names.
- Row data in migrations: a statement the data refuses is `Fail` in the runner.
- Raw queries, `IF`, `FOR` and `THROW` of blocks, recursive traversals and calls of functions.
- Postgres: the replay check runs in a database of its own process; values the database itself
  normalises (money, char, interval, inet, time, date).
- Writes inside one command are ordered but each is atomic: a half-written file is not modelled.
- Configuration, secrets, display, scaffolding, release tooling: straight-line code.

## 7. Plan

A theorem that is left, in a module without `RECURSIVE`: that the loop of `KindOrder` returns the order
of `TopoOrder`, the safety half of `SortEnds`.

Extensions of the model: the clauses of functions and access methods in `TableForms`; the events and
relations of a table, its `id`, `VALUE` and `COMPUTED` columns in `RowCodec`; `if`, `for` and `throw` of
blocks in `QueryCalls`.
