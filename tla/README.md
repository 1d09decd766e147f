# A verification project for uqal-core

uqal-core is a query language over several databases: a script is parsed,
type-checked, planned into steps and executed against connections, each bound to a *module* (a PostgreSQL, MongoDB or Neo4j adapter). This directory holds
TLA+ models of its stateful parts and of its translators, the configurations that check them with TLC,
and proofs checked by TLAPS. Paths below are relative to `src/uqal_core/` in
the repository.

Contents: 1 inventory, 2 how the parts interact, 3 the modules and the code,
4 the runs, 5 bounds and fairness, 6 the proofs, 7 findings, 8 what is not
modelled, 9 what could come next, 10 how to run it.

## 1 Inventory

| component | state it keeps | operations | what makes it correct |
|---|---|---|---|
| QueryPlanner (`planner/query_planner.py`) | `_steps`, `_var_to_step`; one instance per engine | `plan`, `_add_step`, `_plan_*`, `_collect_deps` | every step after all it depends on; a name means its latest earlier binding; one plan per script |
| Executor (`execution/executor.py`) | contexts (`variables`, `parent`), results, native connections it builds | `execute`, `execute_in_context`, step kinds, control flow | a failing step stops, skips or renumbers nothing; blocks nest; loops end; results agree with the steps |
| Engine (`engine.py`) | the registries, `_parser`, the planner | `load_modules`, `connect`, `run_script` | a script is parsed with what is registered; early returns leave no half state |
| ModuleLoader (`module_loader.py`, `module_interface.py`) | discovered classes | `discover`, `load` (closure, topological sort, validation, registration) | registry closed under `requires`; dependencies first; nothing replaced; a cycle is an exception |
| ModuleRegistry (`registry/module_registry.py`) | modules by name, module by connection, schema store | `register`, `bind_module_to_connection`, `store_schema` | a connection has a schema only when bound |
| GrammarBuilder (`parser/grammar_builder.py`) | cached parser and its key; `_extra_rules`, the rules of an assembly until they are in its text | `build` (`_assemble`), `invalidate` | what is filed under a key was built from it; each module's rules are in a grammar once |
| Config loader (`config/loader.py`) | none; moves each connection through register, bind, freshness test, load or sync, save | `load_connections_into_engine`, `_sync_schema` | a load without a warning leaves a recent schema |
| CacheManager (`cache/cache_manager.py`) | one JSON file per connection, shared by processes | `load`, `save`, `is_expired`, `clear` | the timestamp is honest; unreadable files count as expired |
| ConnectionRegistry (`registry/connection_registry.py`) | configurations, native connections | `register`, `set_native`, `get` | one live native connection per name |
| REPL (`cli/commands/repl.py`) | buffer, multi-line mode, `_CANCEL_EVENT`; QueryRunner's thread, result and error | `QueryRunner.run`, SIGINT handler, commands, reload | the user sees the outcome of the query asked; the prompt comes back |
| ConfigManager and connection commands (`config/config_manager.py`, `cli/commands/add_connection.py`) | `uqal_config.json`, `.env` | read-modify-write add, update, remove | no lost or half-written connection |
| TypeChecker (`typecheck/checker.py`) | scope of variables while it walks | `check` | what it accepts resolves in the executor, and reads it accepts do not fail for a missing table or field |
| Standard modules (`modules/standard/*`) | native handles, the database | `translate`, `execute`, `create_view`, `sync_schema_from_source`, `build_connection` | a statement does to the database what it says, on every database; a view is not lost |
| Scripts and editor (`scripts/`) | one buffer, `unsaved` | edit, save, quit, run | no edit lost without a warning (not modelled) |
| Parser, AST transformer, condition registry, types | none that changes | pure functions | trees mean what is written |

The behaviours that are hard: control flow that is planned twice (into the
script's plan and again in a child context), failures that are recorded and not
raised, loads that raise half-way, query threads that are abandoned and run on
beside later ones with shared objects and no lock, a cache file that several
processes read twice, empty, write and remove, two configuration files that are
read, changed and written back without a lock, and one condition language that
is translated three ways. `PROJECT.json` lists the
hazards line by line.

## 2 Interactions

`run_script` calls in order the parser (from GrammarBuilder, with the
extensions of the registered modules), the transformer, the type checker (with
the schema store), the planner, a new Executor. The Executor calls the planner
class again, with an instance of its own, for every block it runs. The REPL
runs `run_script` in a daemon thread per query and loads modules and
configuration in its main thread; all threads share the engine, its planner,
grammar builder and registries. Processes share the cache files, the
configuration file and the databases.

## 3 Modules and code

**ScriptExecution** models `plan` and `execute` for one program. The constant
`Ast` gives the statements; `Program` and the blocks refer to them. The constant
`Source` gives the statements in the text of each one, itself first, as
`SourceAssumption` says; only the property about the order of a plan uses it. The planner
is a record of steps and `varToStep`; `PlanStatement` is `_plan_statement` with
`_add_step`, and it plans the statements of a block right after their
control-flow statement, as the code does. Execution is a stack of frames: the
context's variables, its plan, its program counter, and for a block what it is
the body of. `ExecLet`, `ExecDbCall`, `ExecOutput` are the leaf kinds;
`ExecIf`, `ExecFor`, `ExecWhile` enter a child context; `NextInBlock` plans and
runs one statement of a block with a planner of its own; `IfEnds`, `ForNext`,
`WhileNext` leave or go on; `Finish` returns. What a module answers is any value
or an exception. Exceptions in a step become a failed result and the plan goes
on (`Advance`). Values are small integers, null and result sets by length.

**PartialFailure** is the abstract promise of `execute`: results appear one by
one, in plan order, each a success or a failure, and a failure binds nothing.
ScriptExecution implements it (`ImplementsPartialFailure`).

**ModuleLoading** models discovery in two stages, `_resolve` (closure under
`requires`), the topological sort in groups, validation and registration, each
with the exceptions that end a load half-way, over any sequence of loads with
packages installed in between. A class is found under the name of its file or
package and registered under the name of its manifest, which may differ.

**ParserCache** extends it with `Engine.load_modules`, `_get_parser` and
`GrammarBuilder.build`: the parser is built from the registered modules, filed,
and named, in separate steps by query threads that may be abandoned at any of
them while the main thread loads more modules or starts another query.
`_collect_extensions` leaves the rules of the extensions in the shared field
`_extra_rules` (`CollectRules`); for each extension point with alternatives
`_replace_extension_point` tests that field, appends it to the text and empties
it, three accesses with other threads in between (`TestRules`, `AppendRules`,
`EraseRules`). A parser is the set of modules it was built for; a text is the set
of modules whose rules are in it, and whether some are there twice. `Compiles`
says which texts Lark accepts.

**ReplQueries** models `QueryRunner.run` (start, `is_alive`, `join(0.1)` with
the test of the event, then `_error`, then `_result`), the SIGINT handler, and
the query threads in `run_script`, where the shared planner's list is replaced
by `plan`, and appended to in two steps. A list is named after the query whose
`plan` made it, so aliasing is explicit. A statement is one step here; what it
does is ScriptExecution's matter.

**SchemaCache** models one connection: the loader's loop body step by step with
its warnings and `continue`s, CacheManager's two reads and the two halves of
`save` (open, which empties; write), the `sync_schema` command's read and store,
and the environment: other processes, crashes anywhere, `uqal cache clear`,
migrations, hours. A schema is the number of the migration it was read after.

**Syntax** has the nodes the transformer builds of conditions and statements.
**Conditions** gives the meaning of conditions over rows
(three-valued, as in SQL and Cypher), and the three translations of
`_build_condition`/`_build_filter`: SQL with placeholders and a list of
parameters, Cypher with named parameters and a dict of them, a filter document.
SQL and Cypher texts are trees of the same shape with placeholders for literals,
so binding the parameters gives back a condition whose meaning can be compared
with the original's. It has each of these for one node, given what the nodes it
consists of become (`SqlAt`, `BoundAt`, `CypherAt`, `SuppliedAt`, `FilterAt`,
`MatchesAt`, `TruthAt`). **Translation** closes the recursions.

**TypeCheck** is `TypeChecker.check` as a function from statements and schema to
the set of errors. What it finds wrong with a database statement (connection,
tables, fields) is in **StatementChecks**, which leaves the errors of conditions
open (`ConditionErrors`) and so is free of recursion. ScriptExecution takes the checker as a constant: `Accepted`,
the blocks it finds no error in and the scopes it finds none in. MCScriptExecution
composes the two: it asks TypeCheck about every block and every scope of its
programs, and runs the programs that are accepted. `CheckAssumption` is what the
executor relies on, and TLC evaluates it on TypeCheck's answers: were a block's
names still in scope after it, or the loop variable, it would fail.

**StandardModules** gives for each module what a statement, a `create_view` and a
schema discovery make of the contents of a database. PostgreSQL, MongoDB and
Neo4j themselves are modelled from how the modules use them, and marked external
in the map. What a condition is translated to and what the database makes of it
are parameters of the module (`SqlOf`, `SqlBound`, `TruthOf`, `FilterOf`, ...):
`MCDatabaseCalls` instantiates them with the definitions of Translation and
TypeCheck, which are recursive, and so out of the provers' reach. **ConditionNodes**
says of these parameters what the proofs need: there is a set of `Nodes`, closed
under the nodes they consist of and each higher than these (`NodesAssumption`),
and on it the parameters go from a node to those it consists of by the steps of
Conditions (`TranslationAssumption`, `EvaluationAssumption`). These are the
equations Translation's recursions are, no more; TLC evaluates them with
Translation's definitions on the conditions of the run.

**DatabaseCalls** runs such statements from their type check to their answer, in
two query threads of one REPL session: `_ensure_connection` in its three
unlocked steps (test, build, store), `_execute_db_query` with its unwrapping,
`create_view` as the separate commands each module sends (PostgreSQL: drop,
create; MongoDB: list, drop, create), and `sync_schema` as listing and then
describing, so that statements of the other thread come in between.

**Connections**, **ConnectionTable**, **ConfigStore**: Connections has the
commands and what each means for one entry and the secrets of one connection.
ConnectionTable is the abstract specification: a table that each command reads
and changes in one step; a killed command may have done part of its work in
order, or lose the file it was saving. ConfigStore is the code: every command
reads `uqal_config.json` and `.env`, changes what it read, empties the file and
writes it, step by step, several processes at once, each killable anywhere. One
of them is the REPL, which loads the connections at its start and after each
command it succeeds with. `settled` is the state of the files when a command
last ended, and the table of the refinement mapping; while commands overlap the
mapping says so (`disturbed`), and holds again for the commands after them.

The proof modules **ScriptExecutionProofs**, **ParserCacheProofs** (of
ModuleLoading too, which ParserCache extends), **ReplQueriesProofs**,
**SchemaCacheProofs**, **ConfigStoreProofs**, **ConditionProofs** and
**DatabaseCallsProofs** extend their component's module.
**Induction** has what two of them need of numbers and sequences: a least
element, induction, and that functions defined by recursion on a sequence exist.
Definitions marked `Seeded fault` are wrong variants of the definition that
follows; no behaviour uses them. They show, put in its place, that the property
they are listed with in `PROJECT.json` fails.

History variables (`outdated`, `raced`, `mixed`, `alone`, `shown`, `created`,
`lost`, `last`, `overlapped`, `settled`, `disturbed` and `crowded` in ParserCache) only record; no guard of the code's actions
reads them.

## 4 Runs

| run | question | answer |
|---|---|---|
| `script_execution` | Are plans and sub-plans in dependency order and the preorder of the program? Do contexts nest? Is a failure contained? Does every script end? | yes; and a `while` that has run its body can only end by the iteration limit, since its body cannot change what the condition reads |
| | Has a name the type checker accepted a value where a statement reads it (`NamesResolve`)? | yes, in a statement that runs in its place and unless the step that binds it failed; not in the copies that the flattening makes of a body's statements (section 7) |
| `inner_variables_leak`, `failures_recorded` | Does the code keep two sentences of its own comments? | no: findings 1 and 2 |
| `module_loading` | Over any sequence of loads, failed ones included: is the registry closed, the order right, a finished load complete, nothing replaced, and does a load end? | yes |
| `parser_cache` | Is a parser filed under the key it was built from, and is the user's script, if it is parsed, parsed with the registered modules and no others? | yes, if the last load returned and no thread was building when it began |
| | Does a build raise for anything but an extension Lark rejects (`LoneBuildsSucceed`)? | not if no other thread assembles a grammar at the same time; else it may (section 7) |
| `repl_queries` | With abandoned queries around: own statements only, own outcome only, the prompt back? | yes, unless two queries were in `plan` at the same time |
| `schema_cache` | Is the file's timestamp honest, is a loaded schema recent, does it go back? | yes; yes if the load has not warned; only by the loader's fallback or overlapping commands |
| `database_calls` | On each of the three databases: do reads, writes and joins do what the statement means? Does a read the checker accepted fail? Does anything else change a row? Can a view get lost, a connection be built twice by one thread? | reads and writes yes, for conditions that compare fields with literals (on Neo4j with one number; on MongoDB where documents have the fields); MongoDB writes one document of those meant; no other statement changes a row; joins yes with literals on one side only; a read fails only for what the checker does not look at; a view is lost only if its replacement fails |
| `neo_conditions_mean`, `create_view_drops_views` | Are several numbers in a Cypher condition bound safely? Does MongoDB's `create_view` drop views only? | no: findings 3 and 4 |
| `config_store` | Do the connection commands keep what they promise together, killed anywhere and run by two processes? Does a command that fails leave the files alone? | yes for commands that do not overlap, and again for those after an overlap |
| `parameters_reach_the_module` | Do the parameters a module declares reach it? | no, those that are not secret do not: finding 5 |

## 5 Bounds and fairness

Every bound is a constant.

- *ScriptExecution*: eight programs over a library of seventeen statements with
  each kind of control flow, nested two deep, names bound again inside blocks,
  and `MaxIterations` 2. They have empty and non-empty `for` loops, branches not
  taken, conditions that raise and calls that fail at every place, which are the
  cases the code tells apart; a deeper nesting repeats the same frames. The
  proofs have no such bound.
- *ModuleLoading*: eight classes: dependencies, a pair that require each other, a
  class that does not import, one that is invalid, a package and a built-in
  module with one manifest name, a package that takes the key of a built-in one;
  six requests, in any order and number.
- *ParserCache*: three query threads, so that two abandoned ones can be building
  while the current one is; three modules: one with two extension points, as
  Neo4j's, one that is rejected after the module it requires has been registered,
  one with an extension Lark rejects. More points repeat the test of an empty
  field. Two threads are enough for one to
  take the other's rules.
- *ReplQueries*: two queries of three and two statements, so that an abandoned
  query can be anywhere in planning and executing when the next is planned,
  executed and shown. Three short queries were checked as well during
  development and showed nothing new.
- *SchemaCache*: two processes, two threads, a TTL of one hour (a file can be
  fresh, exactly at its TTL, and older), two migrations, so that there is an
  older, a middle and a current schema. Processes and threads are symmetric; only
  safety is checked under that symmetry.
- *DatabaseCalls*: two threads, two statements in a behaviour out of thirty, on
  two tables of two rows, one relationship, and a view that is there or not; the
  schema is loaded or not. Thirty statements in pairs give each kind of call
  before, during and after each other one; the conditions cover each node the
  translators tell apart, two numbers included, and tables where no, one and all
  rows match. Threads are symmetric; only safety is checked. `TranslationAssumption` and
  `EvaluationAssumption` are evaluated for every node of the conditions of these
  statements, with every list or dict of parameters any of them leads to, on every
  row that has 1, 2, 3, null, a node's text or an object id in any of five fields.
- *ConfigStore*: a REPL and a command line, two connections, eight commands, four
  started in a behaviour, of which each of the REPL's is followed by a load. Two
  overlapping commands can be at any pair of steps, and two more can follow to
  show what is made of the files they leave.

Deadlock is not checked where a system really stops: the program is done, all
queries, statements or commands have been run.

Fairness: *Termination* assumes that the executor's thread goes on
(`WF_vars(Next)`): it waits for nothing but the module's call, which returns or
raises. Likewise the load loop for *LoadEnds*. *PromptComesBack* assumes weak
fairness of the main thread alone, which polls with a timeout; nothing is
assumed of query threads, which may hang in a driver for ever.

## 6 Proofs

All are proved for every value of the constants, from the named assumptions on
them and nothing else. TLC evaluates the assumptions in the runs.

**Induction** states induction and recursion for the set of the elements a
property holds of, and derives them from minimal counterexamples
(`WellFoundedInduction`): a set of sequences with `<<>>` in it that is closed
under prefixing an element has all of them (`InductSeq`), and a function given
by its value for `<<>>` and for `<<e>> \o s` exists (`Recursion`).

**ScriptExecutionProofs** (`ScriptAssumption`: statements are well formed;
`SourceAssumption`: `Source` lists a statement and then its blocks).
The invariant: the planner's `varToStep` names the latest binding of every
name (`PlannerInv`); every frame of the stack is well typed and its plan
is one the planner made (`GoodFrame`); every frame but the innermost stands at
the control-flow step whose body the next frame runs, a loop's with a condition
that is true where it is evaluated (`GoodStack`); results are those of the
steps before the program counter (`Bookkeeping`). From it: `TypeCorrect`,
`DependencyOrderHolds`, `StackDisciplineHolds`, `WhileConditionNeverChanges`,
and the action properties `OuterContextsKept` and `WhileEndsByLimitOnly`. It is
needed because a step's effect on the outer contexts follows only from where
they wait. `PartialFailureImplemented` is the refinement: each step adds the
next outcome or stutters.
`PlansFollowTheSource` is about what the planner computes: `PlanIsPreorder` says
that a plan that is executed lists the statements of the text in their order,
those of blocks included. While a planner is at work, the statements it has
planned followed by the text of those on its work list are the whole text
(`Planned`): planning a statement moves it from the text to the plan and puts its
blocks in front of what is left, which is the recursion of `Text`, one step
unfolded. That texts and their concatenations are what their recursive definitions say
is proved by induction on the sequences of statements and of blocks.

`AcceptedNamesResolve` is about the checker and the executor together
(`CheckAssumption`, which TLC evaluates with TypeCheck's own verdicts). The checker
follows the tree and one scope; the executor follows a flattened plan and a stack of
contexts. A name is `Known` to a frame if it has a value in it or a frame around
it, or was to be bound by a step that failed. The invariant `NamesInv` says of every
frame that the names of the steps it has run are known (`StepsBound`), and, where
the frames around it stand in their places, that what is left of its block was
accepted with no more names in scope than it knows (`Fits`). It is kept because
nothing known is forgotten while a frame lives (`KnownKept`), a step's own name
becomes known as the step ends (`StepEndsNames`), and a child's block was accepted in the
scope its statement was reached with (`EnterNames`). `NamesResolve` alone says
nothing of the statements a frame has still to run. Where a statement of the
program stands in the flattened plan is what `PositionOfStatement` computes.

**ParserCacheProofs**, on ModuleLoading (`LoadingAssumption`): the invariant adds to the checked ones what the
registration loop has still to do: the names pending are resolved, their
dependencies are registered or in an earlier group, and the current group is
minimal. From it `RegistryAlwaysClosed`, `DependenciesComeFirst`,
`LoadsAreComplete`, `NothingEverReplaced`, `LoadTypeCorrect`.

On ParserCache (`ParserAssumption` as well): for any modules and any number of query threads, `ParserTypeCorrect`, `CacheAlwaysFiledRightly`,
`AlwaysParsesWithRegistered`, `LoneBuildsAlwaysSucceed`, and `ThreadsDoNotLoad`: every step is one of
ModuleLoading's or leaves its variables alone, so the loader's theorems and its
invariant hold here too. If nobody was building when the last load began, nobody
builds until it has cleared the three fields, since the main thread starts no
query meanwhile (`ClearedSoFar`); whatever is built, cached and stored
afterwards is built from the registered names, which stay until the next load
(`SharedCurrent`, with a conjunct for each place a thread can be at). Both
properties say nothing of a thread between reading a name and storing a parser,
so neither is inductive. That a script is parsed at all is not among them:
`LoneBuildsSucceed` says when a build can raise. Its invariant (`AssemblyInv`) says
where the rules of a thread's modules are while it assembles alone: in
the shared field or in its text, in both only until they are erased
(`Assembled`, a conjunct for each place); of two threads that assemble at once both are
recorded in `crowded`; and a thread's names stay registered, so that what their
modules contribute stays the same (`OwnKept`). The property speaks only of the
step that compiles, when the field has long been another thread's.

**ReplQueriesProofs** (`QueriesAssumption`: lengths are naturals): for any number of
queries, `OwnScriptExecuted`. While a query that overlapped no other in `plan`
is in `plan`, the planner's list is its own and no other query can append to
it (`OwnPlanner`); a query that has not reached `plan` owns no list
(`NotPlanned`); so the list is always a prefix of its script and the script
itself when `plan` returns (`OwnPlan`). The property alone is not inductive: it
says nothing of plans in the making. On top of that invariant, `OwnOutcomeShown`:
a query started with no thread alive is the only one to move while the main
thread waits, so only its thread writes `result` and `error`, once, at its end
(`OnlyRunning`), and by `OwnPlan` it then has executed all its steps (`Progress`).

**SchemaCacheProofs** (`CacheAssumption`: TTL and migrations are naturals): for any number
of processes, threads and migrations and any TTL, `TypeCorrect`,
`TimestampsHonest`, `LoadsAreRecent` and `SchemaNeverGoesBack`. What a loader
holds between its sync and the end of its save was the database's within the
hour (`InFlight`), a file found fresh still is when it is read a second time
(`FreshWhenRead`), nothing is newer than the database (`NotNewer`), and a
command that overlaps no other has read a schema at least as new as the one it
replaces (`CommandSound`).

**ConfigStoreProofs** (`ConnectionsAssumption`, `ConfigStoreAssumption`; the
refinement also assumes `NamesApart`): for any processes, names and commands.
The invariant `IInv` says, while no commands overlap, what the one running
command holds: that what it has read is the settled table, which of the files
it has already written and with what, and that a REPL's load has registered the
entries with the secrets in `.env` (a conjunct per step of a command). It is
needed because the abstract step happens when a command ends, after the files
have been read, emptied and written several times; the property says nothing of
those states. From it: `TypeCorrect`, `CleanFailures`, and `Refinement`, where
each step of ConfigStore is shown to be a stutter, `Overlap` or `Settle`, or,
where a command ends, the abstract `Run`, `Refuse` or `Killed` of that command.
`NamesApart` is used where secrets are found by prefix: without it,
`remove-connection --secrets db` also removes those of `db_test`.

**DatabaseCallsProofs** (`CallsAssumption`: statements are of the kinds and
commands the modules tell apart, their conditions are `Nodes`, a database's tables
have rows with identities and a highest one, and their rows fit): for any number of threads, any
statements and databases. First, what every outcome of
every statement does to a database (`OutcomesAreRight`, from a lemma per module
and command): it leaves the views alone, keeps tables well formed, gives a new
row an identity no row has, and changes or deletes rows only of the
table of an update or delete that succeeds. Then the inductive invariant
`CallsInv`: a thread that has built a connection is about to store it or it is
stored (`ConnectionOK`), which makes `OneConnectionPerThread` inductive; a thread in
`create_view` runs such a statement, and drops collections only on MongoDB
(`ThreadOK`), which gives the view that `ViewsSurvive` says is about to be
created a name. From it: `CallsTypes`, `OneConnection`, `ViewsSurviveOrAreLost`
and, with the outcomes, the action property `OtherRowsAreUntouched`. These hold
whatever the translators and the checker return.

**ConditionProofs** (`NodesAssumption`, `TranslationAssumption`,
`EvaluationAssumption`, `CallsAssumption`): `TranslationsKeepMeaning`. A condition of
fields and literals (`Understood`), however deep, is true of a row if and only if
the row is selected by what its module sends, for any row whose fields the
databases compare alike (`Comparable`). The induction is on the height of the
condition, once for each module, and each needs more than the theorem says:

- PostgreSQL (`SqlMeans`): binding a text takes the text's own parameters from the
  front of any list and leaves the others (`BoundLeaves`), so the second operand of
  an AND finds its own in front. The claim is about a text and whatever follows
  its parameters (`Bindable`).
- MongoDB (`FilterMeans`): the filter matches two-valuedly, the condition is
  three-valued. Where all fields of the condition have numbers (`Numbers`) it is never null,
  without which a `not` would part the two.
- Neo4j (`CypherMeans`): the text of a part is looked up in the dict of the whole.
  With one number at most, one of the two dicts merged is empty (`NoIntsNoParams`),
  so the dict of the whole has each part's values (`FitsParts`). With two numbers it
  has not: finding 3.

What reads answer and writes change rests on it. The rows of a table have the shape its module
gives them (`DataInv`, proved of every outcome of every statement as
`RowsAlwaysFit`): without it a read of all fields says nothing, for a
PostgreSQL row could lack a column, a document its `_id`. So the set of rows a
read or write selects is that of the rows meant (`SelectsMeant`). Then, module by
module and command by command: the answer lists each of these rows once
(`InOrderHasAll`), projected to the fields asked for, and the unwrapping of
`_execute_db_query` keeps it or takes the right value of its first row
(`ReadsAnswerRight`); an update or delete changes these rows, on MongoDB one of
them, and fails otherwise without a change (`WritesChangeRight`).

`AcceptedReadsAnswer` is about the checker, the schema store and the database,
between which other threads sync, write and create views. On PostgreSQL it needs
`PgInv` (`SchemaStaysTrue`): a table in the stored schema, one a sync has listed and not yet
described, and the table and fields of a read that has passed
the check are in the database with these columns, unless the name is or was a
view's. It is kept because PostgreSQL's `create_view` drops views only, so tables
stay and keep their columns (`SoundStays`), because every view there is was created
(`ViewsAreCreated`), and because a read passes the check only with fields of the stored
schema (`CheckedReads`). `AcceptedReadsSucceed` says nothing of
what is stored or listed and so is not inductive.

Only model-checked: the liveness properties (`Termination`, `LoadEnds`,
`PromptComesBack`), which TLAPS cannot treat; `JoinsAreRight`, for its proof would
need the evaluation's equations for every choice of a row per alias, and the
assumptions give them for single rows (`Single(alias, row)`): `Rows` are too many
for TLC to check such equations of all pairs of them, and an assumption no run
evaluates is not made; `TranslationAssumption` and `EvaluationAssumption`, the equations of
recursive operators that the provers cannot expand, and `CheckAssumption`, which
says what the checker, another such operator, answers; and the violated properties.

## 7 Findings

1. `executor.py:72` says inner variables do not leak; the flattened copy of a
   body runs in the root context, even for a branch that is not taken.
2. `executor.py:139` says failed steps are recorded; the results of a block are
   dropped (`executor.py:516`).
3. `neo4j/translator.py:46` speaks of safe parameter binding; the two sides of an
   AND or OR name their parameters alike (`:391`), so `age = 1 and id = 2` is sent
   with both compared with 2.
4. `mongodb/module.py:414` says an existing view is dropped; a collection of that
   name is dropped as well (`:417`).
5. `connection_schema.py:4`: modules declare the parameters they need; those that
   are neither host, port, database nor secret are saved
   (`add_connection.py:158`) and not passed on (`loader.py:61`).

Other behaviours noticed, on which no run is spent; the models have them except
where it says otherwise:

- `engine.py:42` promises one entry per top-level statement; statements in blocks
  are flattened into the plan (`query_planner.py:365`) and get entries too.
- `repl.py:64` says Ctrl+C aborts the query; its thread runs on (`repl.py:211`).
- `engine.py:100` says `load_modules` invalidates the parser; if it raises after
  registering some modules it does not.
- It also says that the parser is rebuilt on the next `run_script`. The rules of the
  extensions pass through a field of the builder that all query threads share:
  `grammar_builder.py:146` writes it, `:175` tests, `:176` appends and `:177` erases
  it. A cancelled query that has collected its rules and still assembles, and then
  erases the field between the next query's `:146` and `:175`, takes that
  one's rules with it: Lark raises for alternatives without rules, out of
  `_get_parser` and `run_script`, and the user's script ends with that error. The
  other way round a query can find rules in its text twice. The attempt after it
  builds again.
- A `for` whose body has an `if` with a block that reads the loop variable is
  accepted and runs; then the copy of that `if` in the flattened plan
  (`query_planner.py:384`) runs its block in the root context, where the variable
  has no value: the block's statements fail with NameError, without a trace
  in the results.
- `checker.py:262` advises `sync_schema`; the refreshed schema stays in memory
  (`executor.py:477`) and the next process loads the old cache file.
- `postgresql/translator.py:294` puts the parameters of WHERE before those of the
  joins that precede it in the text: literals in both are swapped.
- MongoDB's `update` and `delete` change one document (`mongodb/translator.py:142`),
  those of the other modules all that match.
- A read that was accepted against the stored schema fails on PostgreSQL if its table
  was a view when the schema was stored and has other columns now, or none: nothing refreshes the
  schema after `create_view` (`executor.py:615`).
- A PostgreSQL view whose conditions have literals cannot be created: the text
  keeps its placeholders; the old view is already dropped then.
- The editor warns of unsaved changes once (`scripts/editor.py:188`): after a
  warning, a save and another change, Ctrl+Q discards without one; and it reports
  a new script as saved that was left unchanged and has no file (`:191`). These
  two were read, not modelled.
- `remove-connection --secrets` removes those of a connection whose name begins
  with the removed one's and `_`.

## 8 Not modelled, and abstractions to know of

- SQL, Cypher and aggregation text, JSON fields, messages and rendering.
- Generic and native calls (`sql(...)`, `cypher(...)`), their validators, and the
  complexity estimate: text goes to the driver as it is.
- Strings, floats, null literals and multiplication in conditions: literals are
  integers and booleans, which the code treats alike but for Cypher's booleans.
- Writing through PostgreSQL views, views over views, nested documents, property
  conditions on Neo4j's relationships, labels with more than 100 nodes, columns
  of other types than integer.
- In ConfigStore: the priority of environment variables in `get_secrets`, the
  order of an entry's modules, `config` path settings; the text of a file is
  written in one piece, both files being smaller than Python's buffer.
- In SchemaCache: native connections (a call returns or raises); `auto_sync`,
  which no caller sets to false; the `connect` command of a script, which does
  nothing for a configured connection and binds no module for another; and
  time during a load: no hour passes while a loader or a command is between
  two steps.
- In ParserCache: the text of grammars. Modules are taken to name their rules
  differently; Lark, which is external, rejects a text with an alternative whose
  rule is missing or with a rule given twice.
- In ReplQueries: the sub-steps of one statement, and the registries.
- Scripts and editor, and the prompt's multi-line mode: single-threaded loops
  over one local buffer. The condition registry, Dummy module, list and validate
  commands have no state worth a model.

## 9 What could come next

A composition of SchemaCache with ConfigStore, for `update-connection` keeps the
cache file of the database it points away from; the script files and the editor.

## 10 Running it

    tlc -config MCScriptExecution.cfg MCScriptExecution.tla
    tlapm ScriptExecutionProofs.tla

Each `MC*.cfg` must report no error, each `V*.cfg` a violation of its one
property. `MCSchemaCache`, `MCDatabaseCalls` and `MCConfigStore` take about a
minute, `MCParserCache` two.
