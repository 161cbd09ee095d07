# A verification project for dw_refactor_agent

`dw_refactor_agent` helps engineers refactor a Doris data warehouse: it extracts
lineage from task SQL, assesses models, runs jobs in schedule order, and, for a
refactoring session (a *run*), executes the changed jobs in an isolated QA
database and compares the result with production. This directory holds TLA+
models of the parts of it that keep state, are used concurrently or can stop half
way, the TLC runs that check them on small instances, and TLAPS proofs for
every instance. Paths below are relative to `src/dw_refactor_agent/`.

## 1. Inventory

| Component | State it keeps | Operations | Interacts with | What is hard | What makes it correct |
|---|---|---|---|---|---|
| `refactor/qa_pool.py` | marker table and tables of each QA database (in Doris) | claim, inspect, require ownership, select, release | shadow-run, compare, cleanup, on any machine | no transaction spans two statements; replies get lost; commands are killed; cleanup races claims | a slot has one user; evidence is kept until released; nothing is left that nobody owns |
| `refactor/shadow_run.py` | phases and job results of one execution, `qa_ready_tables` | claim, create baseline, prefill, run jobs in batches, write result | qa_pool, dag_executor, run lock | thread pools in a thread pool; failed batches leave others running; a crash leaves a "running" result | jobs read what their upstreams wrote in this slot; the result says what happened |
| `refactor/compare.py` | comparison result | check ownership, run checks, verdict | qa_pool, plan artifacts | reads the slot long after checking it | a verdict is about this execution and this plan |
| `refactor/run.py`, `session.py`, `plan_artifact.py`, `artifact_contract.py`, `execution_provenance.py`, `workspace_snapshot.py`, `incremental_lineage.py` | run manifest, plan, results, fingerprints on disk | start, analyze, replan, semantic-mode, shadow-run, compare, cleanup | all of refactor | commands of one run interleave; files change while they are read | a plan that is executed is fresh; a result belongs to the plan beside it |
| `refactor/semantic_mode.py` | declared modes | resolve, propagate | verification_plan, compare | declarations of older runs, renames, propagation over a graph | a table is equivalent only if nothing upstream changed it; nothing changed escapes comparison |
| `refactor/verification_plan.py`, `verification_checks.py`, `change_analysis.py` | plan | choose anchors, jobs, slices and checks; accept schema changes | job_dag, schedule, planner | closure over two graphs that need not agree, windows of inputs | the selected jobs and slices suffice; the trusted order is kept; schema changes mean what they say |
| `refactor/shadow_manifest.py`, `shadow_scope.py`, `shadow_rewrite.py` | compiled manifest | compile the manifest, rewrite SQL | shadow-run | partial recomputation, several writers, temporary tables, conditions as intervals | a read is prefilled or recomputed; every row a statement can read is copied; production is never written |
| `refactor/issue_diff.py` | - | match issues | assessment | duplicate and moved issues | no issue is counted twice |
| `execution/dag_executor.py`, `thread_pool.py` | remaining, running, results | execute a graph | task_run, shadow-run | completions in any order, failures, cycles, interrupts | order, limit, exact blocking, an end |
| `execution/task_run.py`, `run_lock.py`, `sql_executor.py` | lock file, date, job states | run dates | dag_executor, planner, schedule | two processes, interrupts, failed dates | one writer; no date on an incomplete one |
| `execution/planner.py`, `model_config.py`, `date_window.py` | - | invocations of a job | task_run, shadow-run | window and replay boundaries | slices cover the dates once |
| `execution/schedule_graph.py`, `schedule_cli.py`, `lineage/schedule_inference.py` | schedule file | infer, generate, reconcile, sort, select | task_run, plans | edits between check and save; merge of inferred edges | no order is lost; readers come after their writers |
| `execution/reinit_project.py` | databases | drop, create, load | Doris | stops half way | safe to repeat |
| `lineage/job_dag.py`, `job_lineage.py` | job graph | resolve producers | schedule, task_run | several producers of a dataset | no edge is invented or lost |
| `lineage/task_cache.py`, `lineage_tasks.py`, `lineage_schema.py` | cache file of a project, schemas of process tables | get, put, rounds of schemas | extractor | entries keyed by a slice of the schema; workers fail; the process is killed while writing | an extraction with the cache equals one without |
| `lineage/import_lineage.py`, `contract.py`, `lineage_output.py`, `identifiers.py` | lineage file; snapshots in the lineage database | write and validate the file, import, delete and activate snapshots | task_run, queries | names of three lengths; imports overlap, repeat ids and stop between statements | a snapshot holds its file under the tables it means; one is active |
| `lineage/*` extraction and views | snapshot files | parse, trace, project, query | everything | SQL | faithful lineage |
| `assessment/llm/model_metadata_checkpoint.py` | run manifest, journal, sidecars | open, record, recover, resume, reject, prune | generation | crashes between journal and file | no answer that may be resumed is paid twice or lost |
| `assessment/llm/table_inspector.py` and contracts | cache, attempts | inspect tables concurrently | model service | retries, late answers, cache races | each table has one valid result |
| `assessment/llm/metadata_flow.py`, `model_metadata_generation.py`, `..._updates.py`, `..._writer.py` | model files | generate, validate, publish | checkpoint, inspector | partial publication | all or nothing |
| `assessment/rules`, `scoring`, `scoped_plan.py`, `result_model.py` | - | run rules, score | report | selection, weights | scores are bounded and monotone |
| `ddl_deriver/*` | schema ids | derive changes | verification_plan | rename chains, swaps | derived DDL reaches the target schema |
| `config/*`, `assessment/project_facts/*`, `sql/doris.py` | - | load | everything | - | - |

## 2. The models

| Module | Models | Extends |
|---|---|---|
| `SlotLease` | abstract: what the QA pool promises its users | - |
| `QaPool` | `refactor/qa_pool.py` and what shadow-run, compare and cleanup do to a slot | - |
| `QaPoolProofs` | proofs about `QaPool` | `QaPool`, TLAPS |
| `JobGraph` | when a job may start, when it is blocked, which jobs a failure reaches | - |
| `JobRun` | abstract: what a dependency-aware run of jobs promises | `JobGraph` |
| `DagExecutor` | `execution/dag_executor.py`, `thread_pool.py` | `JobGraph` |
| `DagExecutorProofs` | proofs about `DagExecutor`, among them that it implements `JobRun`, and about `LineageFile`, `LineageStore` and `Planner` | `DagExecutor`, `LineageStore`, `Planner`, `RecursionProofs`, TLAPS |
| `TaskRun` | `execution/task_run.py`, `run_lock.py`, the end of statements in `sql_executor.py` | `JobGraph` |
| `TaskRunProofs` | proofs about `TaskRun` and `ScheduleFile` | `TaskRun`, `ScheduleFile`, `RecursionProofs`, TLAPS |
| `ShadowRun` | one shadow execution in its slot: `shadow_manifest.py`, `shadow_scope.py`, the ready check of `shadow_rewrite.py`, phases, jobs and batches of `shadow_run.py` | `JobGraph` |
| `ShadowRunProofs` | proofs about `ShadowRun` and `RowScopes` | `ShadowRun`, `RowScopes`, TLAPS |
| `RowScopes` | conditions and statements as scopes, partitions, the prefill of one table: `shadow_scope.py`, `shadow_manifest.py`, `sql/doris.py` | - |
| `Tables` | tables, what is derived from what, paths | - |
| `SemanticModes` | `refactor/semantic_mode.py`: modes, declarations, the walk to the compared tables | `Tables` |
| `VerificationPlan` | `refactor/verification_plan.py`: affected tables, jobs, order, slices | `JobGraph`, `Tables` |
| `AnalyzeRun` | edits, declarations, new schedules and plans of one run | `SemanticModes`, `VerificationPlan` |
| `Verdict` | `refactor/compare.py`, `verification_checks.py`: checks, samples and the verdict over a plan | `AnalyzeRun` |
| `AnalyzeRunProofs` | proofs about `SemanticModes`, `VerificationPlan`, `AnalyzeRun` and `Verdict`, and about `SchemaChanges` | `Verdict`, `SchemaChanges`, `RecursionProofs`, TLAPS |
| `SchemaChanges` | `ddl_deriver/ddl_deriver.py`, `change_analysis.py`, the relations of `shadow_manifest.py`: from two catalogs to statements | - |
| `ScheduleFile` | `execution/schedule_graph.py`, `schedule_cli.py`, `lineage/schedule_inference.py`: the file, and commands beside people who edit it | `JobGraph` |
| `TaskCache` | `lineage/task_cache.py`, `lineage_tasks.py`, `lineage_schema.py`: extractions with a cache, workers that fail, and kills | - |
| `Planner` | `execution/date_window.py`, `model_config.py`, `planner.py`, the dates of `task_run.py` and the slice values of `verification_plan.py` | - |
| `AssetLineage` | `lineage/sql_task_facts.py`, `lineage_output.py`, `job_lineage.py`, `job_dag.py`, `asset_graph.py`, `view.py`, `query.py`: from facts of tasks to graphs and queries | - |
| `LineageFile` | `lineage/lineage_output.py`, `identifiers.py`, `contract.py`, the rows of `import_lineage.py`: how tables are named in the lineage file, and who is meant | - |
| `LineageStore` | `lineage/import_lineage.py`: imports into the lineage database | `LineageFile` |
| `InspectionStore` | abstract: what the checkpoint promises about answers of the model service | - |
| `MetadataGeneration` | `assessment/llm`: generate commands over journal, cache, inspector, pipeline and publication | - |
| `MetadataGenerationProofs` | proofs about `MetadataGeneration` | `MetadataGeneration`, `RecursionProofs`, TLAPS |
| `Assessment` | `assessment/rules`, `project_facts`: what is wrong with a warehouse | - |
| `IssueDiff` | `refactor/change_analysis.py`, `assessment/scoped_plan.py`, `refactor/issue_diff.py`: which issues a run says it made and mended | `Assessment` |
| `RefactorRun` | the commands of one refactor run and the files between them: `run.py`, `plan_artifact.py`, `artifact_contract.py`, `execution_provenance.py`, `shadow_run.py` and `compare.py` at the level of files | - |
| `RefactorRunProofs` | proofs about `RefactorRun` and `TaskCache` | `RefactorRun`, `TaskCache`, `RecursionProofs`, TLAPS |
| `RecursionProofs` | induction over numbers and recursive functions, for the proofs | TLAPS |
| `MC*` | the constants of the instances TLC checks | the module they are named after |

Five instances hold parts that share no variable and are checked by one run:
`MCDagExecutor` (graphs; dates of commands; lineage; imports), `MCTaskRun` (runs; the schedule file),
`MCRefactorRun` (commands; extractions; issues, whose warehouses are in `MCIssues`),
`MCShadowRun` (executions; scopes of readers), `MCAnalyzeRun` (plans and verdicts;
schema changes).

`PROJECT.json` maps every definition to the lines it stands for. A definition
whose comment begins with "Fault:" is not part of any specification: it is the
definition after it with a plausible bug, kept to show that a property notices.

### 2.1 QaPool: a lock made of tables

Doris has no transaction over two statements, so the pool makes ownership out of
one that is atomic: `CREATE TABLE` without `IF NOT EXISTS`. A slot is free when it
has neither tables nor a marker table; a claim creates the marker table, inserts
its row, and reads it back.

* State. `marker[d]` is the marker table of slot `d`: absent, created and still
  empty (`Blank`), of an older release of the tool (`Legacy`), or with the row of
  an execution. `tables[d]` and `rows[d][t]` are the other objects and who wrote
  their rows. `pc`, `queue`, `todo` are an execution's place in `claim_qa_slot` /
  `execute_shadow_plan` / `run_checks`; `clean[c]` is one pass of
  `release_qa_slot` with what it selected and what it inspected since. A
  database's contents are this much and no more: names, columns, row counts and
  the wording of marker rows do not decide anything here.
* Actions. One statement each: `InspectSlot`, `CreateMarker`, `InsertMarker`,
  `ReadBack` are `_try_claim_slot`; `Recheck` is the second
  `require_slot_ownership`; `CreateTable`, `LoadTable` are baseline creation,
  prefill and jobs; `BeginCompare`, `CompareTable` are compare; `Survey`,
  `ListSlot`, `ReadMarker`, `DropTable`, `DropMarker` are cleanup, which inspects
  in two statements and drops the marker last.
* Failures. A reply is lost although the server has created the marker or
  inserted the row; any statement fails; a process is killed; a failed job leaves
  batches in its thread pool that go on writing (`late`).
* Refinement. `ImplementsLease` maps a slot's lease to its ownership row and
  "working" to executions that may still touch it: `CreateMarker` is invisible,
  `InsertMarker` is the grant.

What the code leaves to its operators is in three policies, each a constant, so
that every run and theorem says which of them it needs:

| Constant | TRUE means | Without it |
|---|---|---|
| `Solo` | two cleanups of one slot do not overlap, an ownerless slot's included, nor a cleanup and a comparison | the slower cleanup drops the marker of the next owner, for `release_qa_slot` looks once and then drops; a comparison may read rows of the next owner, since `compare` holds only the run's file lock, which cleanup does not take |
| `Patient` | nobody releases a slot that batches of a failed execution still write | two executions share the slot (`QaPoolStraggler`) |
| `Forced` | operators release ownerless slots by `--database` | (it widens what is done; the run has it) |

One more is built in: no cleanup selects a slot whose execution has not written
its result yet, or that a claim is working on. `select_cleanup_slots` does not
look at that; the operator who names a run or an age is expected to.

### 2.2 JobGraph, JobRun, DagExecutor: running a graph

* State. `remaining`, `running`, `results` are the coordinator's variables of
  these names; `outcome[j]` is what the worker of `j` has come to, which the
  coordinator learns when it collects the future. `step`, `scan`, `progressed`
  are its place in the `while` loop.
* Actions. `Visit` is one iteration of the blocking pass in sort order, `Submit`
  one submission, `Settle` the decision at the end of a pass (wait, cycle error,
  or another pass), `Collect` the return of `wait(FIRST_COMPLETED)` with all that
  is done by then, `Work` the end of one worker, `Interrupt` a
  `KeyboardInterrupt`, after which workers go on and nobody collects them.
* Refinement. `JobRun` is the same run without coordinator: start, finish, block.
  The mapping `Observed` shows a job as over when its worker is, so `Work` is a
  finish, `Submit` a start, `Visit` a block or nothing, and the rest is invisible.

`TaskRun` uses `JobRun`'s view of one date, which `DagExecutor` implements.

### 2.3 TaskRun and ScheduleFile: processes, lock, dates and lists of jobs

* State. `lock` is the flock on the target's file, `pc`, `date` and `state[p]` are
  a process's place in `main` and `_run_scheduled_jobs`, `chosen[p]` its list of
  jobs, and `loaded[j]` tells which run and date last wrote the table of job `j`.
* Actions. `Lock` (`LOCK_EX | LOCK_NB`, refused if taken) with a list whose process
  tables have their producers in it (`Safe`), `StartJob`, `BlockJob`, `FinishJob` (a
  failed job may have written some of its table), `NextDate` and `EndRun` (the
  first incomplete date ends the run), `Interrupt`. Dates count in the order given.
* `Deps` are the edges between listed jobs only, as in `selected_dependencies`.
  `Gapless` says that operators list all jobs between two they list. Without it a
  reader may start before the producer it was scheduled after
  (`schedule_graph.py:249`): the direct edge between the two is not in the file if
  a path implies it.
* `Patient` says that no run is started while workers of an interrupted one still
  execute. Nothing in the code waits for them.

`ScheduleFile` is the file those edges come from. A command hashes it, loads it,
reads the lineage, proposes a merge (`Proposal`: tasks added and removed, inferred
edges added one by one unless a path implies them, conflicts blocking), checks the
hash again and saves; `generate` looks only whether the file exists. People edit
the file, tasks and lineage at any step. `Careful` says that nobody writes between
the last check and the write, nor brings back a content that a command has hashed.

### 2.4 RefactorRun: commands and the files between them

A run's directory holds a manifest with the declared modes, the lineage, the
change analysis, the plan, a shadow result and a compare result. Commands read
and write these one at a time. A fingerprint is modelled by what it is a hash of:
the workspace has a version, and each part of an artifact carries the version it
was computed from, so "fingerprints agree" is equality of versions.

* State. `ws` is the workspace; `intent`, `lineage`, `changes`, `plan`, `shadow`,
  `verdict` are the files; `lock` is `run_execution_lock`; `slots[c]` is what
  execution `c` has in the slot it claimed; `seen[c]` is what a command holds in
  memory, and `at[c]` where it is.
* Actions. Every read, deletion and write of a file is a step of its own:
  freshness (`Load`, `Check`, twice for shadow-run and compare), invalidation
  (`DropPlan`, `DropShadow`, `DropVerdict`), planning (`Lineage`, `Analyse`,
  `Build`, `Snapshot`, `Declare`, `Replan`, `Recheck`, `Publish`), executing
  (`Lock`, `Announce`, `Claim`, `Compile`, `Execute`, `Finish`) and comparing
  (`Match`, `Own`, `Judge`, `Report`). `Die` ends a command anywhere, `Edit`
  changes the workspace, `Release` is a cleanup.
* `Separate` says that analyze and semantic-mode overlap no other command of the
  run: they take no lock. Without it the later of two commands writes back the
  manifest it read first and loses the declaration of the other, and a compare
  that was under way leaves its verdict beside the plan that replaced its own.
* `Quiet` says that the workspace is edited carefully: not while analyze or a
  shadow-run reads it, and not back to an earlier content during semantic-mode.
  `RefactorRunEdited` shows what happens otherwise.

### 2.5 ShadowRun: one execution in its slot

What `Execute` of `RefactorRun` and loading of `QaPool` do in one step is here a
manifest, four phases, and jobs that run their batches in pools of their own,
under one semaphore.

* Data. A plan is a record of what the compiler learns of each job: upstreams,
  outputs, how it is sliced, which scope it reads of each table, whether it
  mutates existing rows or creates tables. A scope is a set of slices, or
  `Unknown`; a row is known by its slice and by where it came from (`Empty`,
  `Base` for production, or the job that wrote it). Here a prefill copies exactly what
  is asked for; how scopes are found in SQL and become partitions is `RowScopes`.
* Manifest. `Coverage`, `Written`, `NeedsPrefill`, `Prefilled`, `Required` and
  `Blocked` are the case analysis of `compile_shadow_manifest`, as operators on a
  plan. `is_subset_of` answers yes, no or `None`; the compiler treats the last two
  alike, and so does `Within`. Scopes over different columns are `Unknown`.
* Actions. `Compile`, `CreateBaseline`, `Prefill`, `ApplyDdl` and `Fail` are the
  phases; `StartJob` and `BlockJob` are `JobRun`'s; `BeginBatch` is a thread taking
  a batch, `Acquire` its session, its copy of the ready tables and the routing of
  its statements, `EndBatch` the end of its script, after all or some of its writes;
  `Succeed` and `FailJob` are the two ways out of `_execute_shadow_job`, the second
  with batches still running; `Interrupt` leaves threads of jobs behind. Rows that an
  UPDATE or DELETE needs of the table it changes are looked at for a job's primary target
  only, not for its side outputs.

### 2.6 InspectionStore and MetadataGeneration: answers that cost money

A generate command asks a model service about tables, upstream first, and publishes
model files. It may be killed anywhere and started again, to resume or, with
`--no-cache`, from the beginning.

* State. On disk: the manifest of the project with an entry for each table and the
  pending write of a result, the sidecar files of the results, `inspect.json` (the
  ordinary cache), and the published files. One generation runs at a time, under a
  lock on the project. In
  memory: the phase of the command and what it has in hand. A context is what a
  question is asked with, known by the versions of the model files and of the
  upstream answer it was built from. `paid`, `rejected` and `torn` are histories.
* Actions. `Journal`, `Place` and `Commit` are the three writes of one result, and a
  kill may come between any two; `Recover`, `Prune`, `Announce` and `OpenInspector`
  open a run; batches ask several tables at once, with attempts; answers that
  change an upstream table's metrics send its readers back; `MoveAway`, `MoveIn` and
  `PutBack` publish file by file and undo; `Die`, `Leave` and `Interrupt` end a
  command, `Edit` changes the project. Left out is that a
  table whose columns cannot be read from its DDL is asked once only
  (`table_inspector.py:2221`): its answer is blocked in either case, after one attempt
  or after all.
* Altered results. After a batch a result may be promoted (`Promoted`: a consumer's SQL
  aggregates a column of it), or judged again together with the structure found
  before (`Rejudged`); at the end it may be enriched from the results of other tables
  or from the catalog (`Settle`, for the tables in `Enriched`). Promotion and
  enrichment switch `resume_eligible` off and have the result validated again, with
  either verdict unless it carries a mark (`Altered`). The pipeline goes on with it
  and may publish it, but `Finalize` does not cache it and the journal records it as
  one not to be resumed: its kind is `transient`, as that of an answer of an earlier
  attempt that is kept because the last one failed. So `NothingPaidTwice` is about results
  whose last record says that they are good and may be resumed, and the next
  generation pays again for one that was altered, although no input has changed. The metrics
  of a table are one thing, there or not: a second one found later sends no reader back again.
* Refinement. `ImplementsStore` maps journal, sidecars and pending write to
  `InspectionStore`, a store of results by table and context that knows no kills: a
  result is recorded, at the cost of at most one other context of its table, refused,
  rejected or forgotten. A result counts as kept when a resumed generation would find it.
* `Careful` says that no generation with `--no-cache` ends, or is killed, between
  its new manifest, which has no marks, and the removal of the cache of refused
  results; `MetadataGenerationNoCache` shows why.

### 2.7 SemanticModes, VerificationPlan, AnalyzeRun, Verdict

One run of `analyze` after another, between edits, declarations and changes of the
schedule, and the comparison of a plan.

* `SemanticModes`: a table has identities and a normal form before and after. It is
  equivalent automatically if the normal forms agree and all it is derived from is;
  people declare modes, older runs' declarations count while the contents they were
  made for are unchanged; the walk goes downstream through equivalent tables until it
  meets one that must be compared.
* `VerificationPlan`: affected tables, direct jobs, the jobs on paths between them,
  the schedule's edges between selected jobs, the windows that ask upstream jobs for
  more slices, and the checks that refuse a plan. `BuildPlan` is one command: its
  partition is an input, its result a plan or an error (`NotPlanned`).
* `Verdict`: per compared table a method (rows, aggregates, schema), sampled or not,
  and the set of checks that differ; statuses combine to the verdict as
  `_overall_status` does. Which queries a check sends is data.

### 2.8 SchemaChanges

Two catalogs of tables with identities, names, layouts and columns. `Changes` matches
them by identity into drops, creates, renames and alters, in the code's order: renamed
tables, dropped ones, new ones, the others, each kind sorted by name. `BaselineNeeded` is what
the plan makes first; `Relations`, `Route` and `Blockers` are what the shadow manifest makes of
the names; `CompileManifest`, `ApplyChange` and `Applied` run the statements on a database one
by one. `needed` are the tables of which some job needs production rows (it reads what it
writes, changes rows that are there, or reads more than is written before it, the part of
`ShadowRun`): `request_prefill` refuses such a job when the table has no baseline table, which
a created one and one rebuilt by DROP and CREATE have not (`bare`). `OrderlyChangeAccepted`
therefore says that an orderly change is refused if rows of such a table are needed
(`Remade`), and for nothing else, and that all statements run otherwise.
`Reuse` says that a name may pass from one identity to another in one change.
Without it `UsedAsDeclared` and `OrderlyChangeAccepted` hold (and are proved, see 4); with it
`SchemaReuse` shows jobs routed to the renamed table where they mean the new one.

### 2.9 TaskCache

A world is a directory of scripts and catalogs; a script is a list of statements
(create, insert, drop) over tables. An extraction hashes for every task the slice
of the schema it is known to use, takes entries of the cache, has workers compute
the rest, some of which fail, collects the columns of process tables, and goes
round again until the schemas are stable; then it writes the cache, or is killed
while writing and leaves a damaged file. `CacheTransparent` compares with an
extraction without cache, `Converges` says that the rounds are enough unless a worker failed.
Both are about worlds `InOrder`. They are `Orderly`: tasks can be put in an order in
which each comes after those that create what it reads. An order of the tables is not
enough: where one task makes `a` of `t` and `c` of `b`, and another `b` of `a` and `d` of
`c`, every round settles one more table, and the two tasks need a fourth round where
`lineage_tasks.py:943` allows three. And they are `Tidy`: a script drops a table before it
creates it or makes another of it, and one that names columns without a table refers
to some table with a DDL. The first of these is needed: after a `CREATE`
without `DROP`, columns of a table that is gone linger in the schema
(`lineage_schema.py:772`), and TLC finds cache and recomputation to differ.

### 2.10 RowScopes

Which rows of a partitioned table one job needs. Rows are known by the instant in
the partition column. `RowScope` and its operations (`Intersection`, `Union`,
`Included`) are the code's, with values of two types that do not compare;
`AtomScope` to `FilterScope` turn conditions, joins and statements into scopes;
`Lookup` and `Request` are the loops over statements and invocations and the choice
of partitions. The reference is what Doris would read: `NeededBy` quantifies over
all combinations of rows and asks whether the condition can be true of them. Tables
without partitions are left out, as they are copied whole. Four conditions on the
reader, each an operator, are needed: `ReadsOnce`, `ValuesListed` (no values of the
column are taken from a query), `OneType` (no dates mixed with
datetimes) and `OneOrigin` (partitions are all in the DDL or all made at run time).
`RowScopesTwice` shows the first. The second (the cfg of `ShadowRun` with
`Jobs <- Subqueries` shows it): `column IN (SELECT ...)` has no list of expressions, so `AtomScope` is, as in the code, the scope of no points,
`NoRows`, while the query may let any row through. TLC refutes the others in the same way: a column
equal to a datetime and not before a date intersects to nothing, and with some
partitions in the DDL only those are copied. An `IN` list of both types ends the
command with a TypeError.

### 2.11 Planner

Which rows one job loads for the dates of a command. `Dates` are the dates given or
looked back to, `Regular` and `Refresh` the invocations that the planner makes of
them (a value of the slice parameter, a window of days, or neither), `ValuesFor` the
values a plan asks of a shadow run, `BadConfig`, `BadRegular` and `BadRefresh` the
reasons to refuse. `Validate` plans everything once before anything runs, `RunDate` and
`RunAll` plan again when it is due, and `Midnight` may come between. `AsAsked`
compares what has been loaded with slices defined as a partition of the calendar:
that is where `task_run`, planner and verification plan, each with calendar
arithmetic of its own, must agree. Rows are known by day and hour. Jobs that only
hold current state are left out of the property when the day changes meanwhile:
such a job is skipped or fails then, after validation had let it pass.

### 2.12 AssetLineage

From the facts of the tasks (statements that drop, create and fill tables, with the
columns their columns and conditions come from) to the graph of assets. `OutputsOf`,
`InputsOf` and `Kind` are the facts, `Supplies` and `Unresolved` the producers of a
dataset, `Node` the occurrence of a table in a job, `AssetEdges` and `LineageView`
the graph and columns with tables of tasks bypassed, `Near`, `Hidden`, `PathsTo` and
`PathsFrom` the queries. The reference runs: `StartTask` and `RunTask` execute the scripts in
an order the job graph allows, and rows remember the assets, columns and jobs they
come from. `LineageTellsAll` asks that whatever has flowed from one asset to another
is in the graph with all its jobs, in the lineage of its column with the conditions,
and in every query that is deep enough. It takes tasks whose tables are resolved,
and `OwnTablesOnly`: a task that reads from a table it writes itself what another
one has put there loses edge and dependency without a diagnostic. Conditions on a
table of tasks are in the lineage of the column it feeds first, not of those after it.

The claim is for the tasks of the library, not for all tasks: a task that creates `p`
out of `a`, fails, and so never drops it leaves rows in a table that is no output of
its own. If another task inserts into `p` and a third one reads it, `a` has flowed into
what the third one writes, and the graph has the second task's sources only (TLC
shows it in ten states once three such scripts are in the library; no three of them
are). And `deep` counts the columns of assets: names of `Process` that no task writes,
which the graph takes for external tables, would have to be counted as well.

### 2.13 LineageFile and LineageStore

* The file. A table has a catalog, a database and a name, and texts name it with one,
  two or three words. The writer takes the shortest that no other table shares
  (`Reference`), or the full one for jobs; `Contract` resolves a text against
  the tables of the file and refuses one that several answer to; the importer looks the same
  text up in maps of its own (`TableIdForRef`, `ColumnIdForRef`). `ImportRows` are the rows it makes,
  `MeantRows` those of the tables the contract has resolved.
* State. `rows` and `header` are the nine tables and `lineage_snapshot`, each row with
  the import that wrote it, which no column says and only properties read; `import`
  is where each process is, with the file and the rows still to insert.
* Actions. `BeginImport` reads, validates and makes the rows, `CheckLayer` and `DropLayer`
  are the migration, `DeleteRows` and `DeleteHeader` the deletion, a table at a
  time, `InsertBatch` one `INSERT`, `InsertHeader` the header, `DeactivateOthers` and
  `ActivateItself` the two `UPDATE`s, `StopImport` a refused statement or a kill.

A statement takes effect as a whole and at once; nothing the models rely on joins
two of them. `SnapshotIsWhole` says what a header is worth, `OneActive` that only imports
that overlap leave two snapshots active. Both are silent where the code is: an id that two
overlapping imports share (the default id is a time in milliseconds) mixes their rows,
so `SnapshotIsWhole` asks for an import that is `Alone`, one since whose beginning
no other import of its id has run; an import killed between its two `UPDATE`s leaves
nothing active; the header is deleted last, so an import of the active id that is
killed before leaves an active snapshot without rows until it is repeated, and
`SnapshotIsWhole` says nothing of a header whose id has been imported again. The counts the importer prints at the end are compared with nothing.

Files that people edit are `Tidy`: an entry's short name belongs to its full name. With an untidy one
(a table with the full name `t`, beside another that has `t` for a short name) the
contract and the importer disagree on which table a text means. Files of format 1 and other
default catalogs than the one project setting are left out.

### 2.14 Assessment and IssueDiff

What a refactor run says it has made worse and better. A warehouse is what its files
say: DDL, models, tasks, naming rules, business catalogs and settings. `AssessAll` is
the 56 rules of seven dimensions (reuse, depth, model design, naming, completeness of
assets, health of the metadata, code quality), each rule a condition on the facts, and
an issue is a rule, a thing and the detail that tells two issues of one rule apart.
`start` keeps the issues of the baseline. After edits (`EditDdl`, `EditModel`, `EditTask`, `EditConfig`,
`RenameTable`, which moves a table's files with or without `git mv`), `Analyze` finds
the changed files as git lists them (`ListedTables`, `ListedJobs`), the tables these
reach in the lineage before or after (`AffectedTables`), from them the scope of each
dimension (`Scopes`), assesses these alone, calls renamed tables alike, and takes the
difference; an analyze that is refused, or is made again of the same workspace, changes
nothing (`AnalyzeInVain`). `DiffTellsAll` compares with two full assessments: what is told
is so in these; what came or went is told, unless an old name of a renamed table is left
or it lies outside what the lineage of today knows (`Unseen`); and a new name alone is news
for the rules of names only.

## 3. Runs

| Run | Instance | Shows |
|---|---|---|
| `QaPool` | 2 executions, 2 cleanups, 2 slots, one of which starts with leftovers, 1 table; `Solo`, `Patient`, `Forced` | one user per slot; verdicts are about the execution's own rows; no ownership row is lost; nothing is orphaned; claims end; `SlotLease` is implemented |
| `QaPoolStraggler` | without `Patient` | violation: a slot released under leftover batches is shared |
| `DagExecutor` | every graph on 4 jobs with at most 4 dependencies, parallel 2; 109 kinds of jobs, 22 commands with dates, 3 months; 680 triples out of 15 scripts over 3 assets and 2 process tables; 2 imports of 4 files under 2 ids, batches of 3 | a run ends and implements `JobRun`; a command loads the slices of its dates and nothing else; lineage and queries tell all that flows between assets; a snapshot is its file; only overlapping imports leave two active |
| `TaskRun` | 2 processes, gapless lists over a diamond of 4 jobs, 2 dates, parallel 2; 2 schedule commands, 3 jobs, 2 changes by people | one writer; inputs of the same run and date; no order is lost from the file; readers follow their writers |
| `ShadowRun` | 105 plans over 3 jobs, 3 tables and 3 slices, parallel 2, batches of 1; 4,631 readers over 5 instants, 3 days and a month | a statement finds every row it needs, recomputed where that was planned; writers before a reader are over; self-reading jobs go slice by slice; the nested pools come to rest; every row a condition lets through is copied |
| `RowScopesTwice` | statements that read the table twice | violation: rows of the second reading are not copied |
| `RefactorRun` | 3 commands at a time, 1 table, 2 modes, 2 versions; `Separate`, `Quiet`; extractions over 3 scripts, 4 tables and 9 worlds, 2 edits, 1 failing worker; 2 baselines of 5 tables, 2 edits out of a catalogue | what a fresh plan and a verdict are worth; declarations stay; the cache changes nothing; schemas come to rest; the difference of issues tells all that came and went |
| `RefactorRunEdited` | without `Quiet` | violation: a plan certified by the hash of a content it was not made from |
| `MetadataGeneration` | 2 tables, one upstream of the other and perhaps promoted or enriched, 2 attempts, 2 runs, 2 files to publish and 1 to remove; `Careful` | answers are for the context asked; publication is all or nothing; no answer that may be resumed is paid twice; what was refused or altered is not used; `InspectionStore` is implemented |
| `MetadataGenerationNoCache` | 3 runs, without `Careful` | violation: a refused answer is used again |
| `AnalyzeRun` | 4 tables, 5 jobs, 4 instants, four mixes of edits, schedules, declarations and restarts, every comparison of every plan; catalogs of 3 names, 2 identities, 2 layouts, 2 columns, at most one table whose rows are needed | declarations apply to what they were made for; automatic modes are grounded; nothing changed escapes comparison; the trusted order is kept; windows are closed; a pass is proven; schema changes are used as declared, and refused exactly when rows of a remade table are needed |
| `SchemaReuse` | 2 names; `Reuse` | violation: a table is read under a name another one had |

### Bounds

Two slots are the least with "on to the next slot" and "exhausted" both reachable;
a second execution is the least that can race a claim, follow a release, or meet
a straggler, and two cleanups the least that can overlap. One table is enough: a
release is cut between its tables and its marker, a comparison between its check
and its reading. Four jobs give chains of failures that sort in both orders,
diamonds, self-loops and cycles beside jobs that can run; two of them at a time
give two completions between two waits. Two dates are one step across a date.
Of the three slices two are execution values at most: one is left that nobody
recomputes, and two can be computed in either order. The plans of `ShadowRun` are
grouped by question: what `a` is known to write against what `b` reads of it; a
third job that writes the same table as a side output, before and after the reader;
self-reads and stage tables; tables that the DDL changes create or drop. Two jobs
with two batches each ask for more sessions than the two there are. A job that
writes whole tables has all three slices in one batch, so a batch may fail after some.
Three commands give two that overlap and one that comes between them; two versions give
a plan that is stale and one that is not, and the second version inherits a
declaration, the first does not. The guards that bound are `MaxRuns`, `MaxEdits` and the like, each a constant of its
module with a comment that says so; the numbers of the code (variants and marks of a
checkpoint entry, attempts) are constants too, and smaller in the instances.

Execution ids are used once, in `QaPool` and in `RefactorRun`, as in the code; so
an instance of `QaPool` comes to rest when its executions are used up, and
`DagExecutor`, `TaskRun` and `ShadowRun` are single runs that end, and the runs of
`MetadataGeneration` and the budgets of `AnalyzeRun` are used up: `CHECK_DEADLOCK FALSE`
stands in their configurations for that reason. `RefactorRun` may always edit,
and is checked for deadlock. Commands of `RefactorRun` are symmetric.

One table feeding another is the least at which `MetadataGeneration` can send a
reader back; two attempts have one that fails and one that does not; one table whose
results are altered gives its reader altered metrics; two targets
and an obsolete file put a kill between any two moves. Four tables and five jobs
give `AnalyzeRun` a job between two changed ones that nobody changed, and two ways to
one table; four instants give a window that looks back past its input. Three names
for two identities let a rename meet a free name, a taken one and one in a chain. Five
instants put one inside each day, so datetimes between two midnights exist; every
pair of two conditions on the column is looked at, and every pair of statements.

The warehouses of `IssueDiff` have eight names of tables: a source, a dimension, a fact,
sums, an output, a new one, and two that look like temporary or work tables. One
baseline is healthy, the other wrong in many ways, so two edits out of the catalogue
make and mend issues of every one of the 56 rules, and a rename may precede or follow
an edit.

The months of `Planner` have 10, 7 and 10 days and begin inside weeks, so a slice of
one kind crosses slices of the other, and a month can be looked back to that has fewer days. Three tasks
are the least with a process table of a process table between two assets; the
scripts replace, reuse, hide and append to each other's tables.

Two imports are the least that overlap, or come one after the other under one id;
with two ids, each may also have its own. Of the files one is written from a graph in which
two tables share a name in different databases, one is edited, and two are refused. A
batch of 3 splits the largest table and leaves the others whole.

### Fairness

* `QaPool`: weak fairness of each execution's `ClaimStep`, used by `ClaimEnds`
  only. Every step of a claim is a call that returns or raises, as the MySQL client
  has a timeout, and nothing it waits for is another process. Executions that run,
  comparisons and cleanups get no fairness: they may stay forever where they are.
* `DagExecutor`: weak fairness of the coordinator and of each worker, used by
  `Terminates`. The loop never sleeps without `wait`, and a worker's statements end
  by their client's timeout at the latest. `Interrupt` is not fair.
* `TaskRun`, `TaskCache`, `ScheduleFile`, `AnalyzeRun`, `RowScopes`,
  `Planner`, `AssetLineage`, `LineageStore`, `IssueDiff`: none; their properties are safety
  properties.
* `MetadataGeneration`: weak fairness of `Working`, a command that can
  go on does; no property of the runs needs it now. Calls to the service time out, attempts and passes are bounded. `Die`,
  `Leave` and `Edit` are not fair.
* `ShadowRun`: weak fairness of `Progress`, used by `RunEnds`: something that can
  go on does. Every call to the database returns or times out, threads are
  scheduled, and a run has only so many steps. `Interrupt` is not fair.
* `RefactorRun`: none. Its properties are safety properties; a command may die or
  stay at any step.

### Findings

1. `execution/thread_pool.py:9` shuts a pool down without waiting, and
   `shadow_run.py:934` leaves a failed job that way: its other batches go on writing
   the QA database after the result says "failed" and the lock is released
   (`QaPoolStraggler`; `docs/design/refactor-verification.md:24` has a slot used by
   one execution exclusively).
2. `_analyze` certifies its plan with a hash of the workspace taken after it has
   read it; `_replan` compares with one taken before, `_analyze` does not
   (`RefactorRunEdited`; `docs/design/refactor-verification.md:171`).
3. A generation with `--no-cache` drops the marks of refused contexts before it drops
   the cache of their results: if it ends in between, the next one uses again what
   had been refused (`MetadataGenerationNoCache`;
   `model_metadata_writer.py:984`, `docs/assess_metadata_initialization.md:143`).
4. A name that one table gives up and another takes in the same change is resolved
   by name when shadow-run prefills (`SchemaReuse`; `shadow_manifest.py:351`,
   `docs/design/schema-evolution.md:46`).
5. The rows a statement reads are taken from its first `WHERE`, for all occurrences
   of the table together (`RowScopesTwice`; `shadow_scope.py:807`,
   `docs/design/refactor-verification.md:129`).

Met on the way, without a run of their own: a condition `column IN (SELECT ...)` becomes
the scope of no rows (`shadow_scope.py:686`; the cfg of `ShadowRun` with `Jobs <- Subqueries`
shows it), though the docstring promises an unknown one for what cannot be folded
(`shadow_scope.py:629`); a result that promotion or enrichment altered is asked for
again by the next generation though it passed and no input changed (`metadata_flow.py:870`,
as `tests/assess/test_metadata_flow.py:454` wants it), while
`docs/assess_metadata_initialization.md:137` has such results restored; an interrupted `task_run` unlocks its
target before its workers are done; two cleanups of one slot (2.1); lists of jobs
with a gap (2.3); lingering columns (2.9; the cfg of `RefactorRun` with
`Worlds <- MCUntidy`, `Parts = {"cache"}` and `Failures = 0` shows it,
`docs/design/lineage-and-execution.md:74`); two tasks that create tables out of each other's by
turns end the extraction with "did not converge" (2.9); a task with no known table is hashed with an
empty slice of the schema but computed with all of it (`lineage_schema.py:616`); the
planner always begins weeks on Monday (`execution/planner.py:510`) while
`verification_plan.py` reads `week_start`, which every configuration sets to Monday;
an equation of `ON` under an `OR` counts as if it always held (`shadow_scope.py:721`);
a job by the month or week that holds current state only runs on the first day of its period
(`planner.py:153`), and one by the hour gets from `task_run` the hour of midnight alone.

Of the difference of issues: the scope of code quality has tasks only, so its issues
on temporary tables never pass a scoped difference (`issue_diff.py:271`); new names
are given to current issues too, so with names that are swapped or used again an issue
is told of the wrong table; readers of another task's temporary table are looked for
among the tasks in scope only (`docs/design/metadata-and-assessment.md:142`); tables
are kept in scope only if the lineage of today knows them, so a new table that no
job touches has no issue and those of a deleted one are never called mended; a task
not named after its output is outside naming and code quality; `git diff --name-only
HEAD` lists a moved file under its new name alone; `asset_catalog` looks for
`source_file` in edges that have had `job` instead since version 2
(`lineage/contract.py:24`), so the rule that compares lineage with a task's output
fails for every task (`docs/design/assess_scoring_guide.md:156`); and `start` in a
workspace with edits takes its baseline from the workspace while changed files are
counted from the commit (`run.py:200`, `docs/design/refactor-verification.md:42`).

## 4. Proofs

All theorems hold for every value of the constants that satisfies the named
assumptions of the modules: any number of executions, cleanups, slots, jobs,
graphs, dates, commands, tables, modes, versions, plans, slices, batch sizes, conditions,
statements, partitions, lineage files and imports. Type invariants are proved for every specification with a
proof module and not listed among the runs' properties; so are properties that the
runs no longer repeat (`EveryJobOnce`, `WithinParallel`, `UpstreamsFirst`,
`RaisesOnlyForCycle`, `CompletedWhole`, `DatesComplete`, `FailuresBlockDependents`,
`ReleasesOnlySeenOwner`, `NeverUnready`).

**QaPoolProofs.** `TypeCorrect` needs no policy. The others assume `Disciplined ==
Solo /\ Patient` and hold with and without forced releases: `Exclusive`
(`SlotExclusive`), `ReleaseSeen` (`ReleasesOnlySeenOwner`), `VerdictOwn`
(`VerdictOnOwnRows`), `NoOrphans` (`NoNewOrphans`), `OwnerKept`
(`OwnerKeptUntilReleased`) and `ImplementsTheLease` (`ImplementsLease`). Exclusivity is
not inductive: that two active executions do not share a slot follows from the marker
naming each of them, and that survives only because nobody drops or overwrites a
marker of an active execution. `PoolInv` says so: a blank marker has one creator, who
has yet to insert (`BlankHasCreator`); an ownership row is in the slot its owner is at
(`MarkerAtSlot`); whoever uses a slot is its marker's owner (`UserOwns`); what a
cleanup has selected belongs to an execution at rest, and still does when it drops
(`ReleasesRested`, `OneDropper`). A forced release found no owner to ask, so it is the
state itself that must be as it was seen: it is alone in its slot, what is left is
what it has seen, and no claim gets in before the last object is gone
(`OwnerlessAlone`, `OwnerlessStill`). `EvidenceInv` adds the rows: a claim gets no
further than its marker in a slot with tables, rows go with their table, only the owner
writes them, and a release has listed every table the slot still has. Most steps
change one execution and no marker; `QuietStep` and `EvidenceQuiet` treat them together.
The refinement maps the steps that change who may touch a slot to `SlotLease`'s grant,
return and end, and every other step to a stutter.

**DagExecutorProofs.** `TypeCorrect`, `Once`, `Limited`, `Ordered`,
`FailuresContained`, `RaisedForCycle`, `Implements`. The invariant `DagInv` adds to
the properties what the pass knows: every job it has already looked at was left
because an upstream is not resolved, which is why a pass without progress and
without running jobs leaves a set of jobs that wait for each other. The set behind
`FailuresContained` is the least one closed under "downstream", which `Reaches`
states without recursion. `Implements` shows that initial states map to
initial states and every step to a start, a finish, a block, or a stutter.

Of lineage files: `WrittenIsAccepted` (what the extractor writes of a graph, the importer takes)
and `FiledAsMeant` (the rows of an importable, tidy file are those of the tables the
contract resolves), both for any graph and file; they rest on what each text of a written file
answers to, case by case of the three lengths. Of imports: `StoreTypeCorrect`,
`WholeSnapshots` (`SnapshotIsWhole`), `ActivatedInTurn` (`OneActive`). `StoreInv` has, beside
these, `Met`, that of two imports that have begun the one still running is known
to the other; `InTurn`, how far the rows under an id are (`Progress`: deleted tables
are empty, inserted rows and rows left together are the file's; `Filled`: with a header, all are); and
`Activators`, that who stands in a header's `active` has begun and has deactivated the
others. Rows are counted as a set per import, so nothing hangs on the size of a batch.

Of the planner: `LoadedAsAsked` (`AsAsked`), for any calendar, job and command, midnight
included. Days have one month (`MonthFound`, `MonthOnly`); what a calendar rounds a day to
is monotone, a fixed point, and the same for two days exactly if their slices are
(`StartOf`, `StartsOrdered`, `OneSlice`); so a value names the slice of its date (`DateLoads`),
and the values of a window name the slices the window touches (`WindowLoads`). `Planned` then
relates what a command has loaded to the dates still to come. The hypothesis `WeeksAgree`
is that `verification.week_start` is a Monday, as in every `warehouse.yaml`: the planner
rounds to Mondays whatever is configured, and TLC refutes the property with any other day.
`AskingAssumption` says that windows of plans are periods, hence not empty, and that the
calendar begins before the months looked back to.

**TaskRunProofs.** `TypeCorrect`, `ListsKept`; under `Patient`, `OneWriterAlways`,
`DatesInOrder`, and with `Gapless` `InputsKept`. `RunInv`: the process in `run` has
the lock (`LockHeld`), only one process has jobs running (`OneActive`), who has not begun
has no jobs (`IdleFresh`), who has started a job has its upstreams done
(`UpstreamsDone`), and what was loaded by the run stays (`LoadsKept`). Interrupts
are why `LockHeld` alone does not do: workers outlive the lock. That a gapless list
keeps every path between its jobs is `PathInList`.

Of the schedule file: `OrderNeverLost` (`OrdersKept`, under `Careful`) and `WritersFirst`
(`ReadersOrdered`, under no policy), for any jobs, commands and lists. The hash
of the file is what joins them: as long as the file is what a command hashed, the
command has read just that (`OrderInv`), so its proposal keeps every path of the file; and
a proposal has an edge for each edge of the lineage it read, or a path already said so
(`MergeInv`). Below are lemmas about the merge, a recursive function over the sorted
edges: nothing is taken from the graph on the way (`MergeSteps`, by induction
over the places), and since places are counts of what sorts before, no two edges
share one (`PlacesDiffer`, `SortedAll`).

**ShadowRunProofs.** `TypeCorrect`, `Fresh` (`ReadsFresh`), `Settled`
(`InputsSettled`), `Ready` (`NeverUnready`), `Whole` (`CompletedWhole`), `InOrder`
(`SlicesInOrder`), `RunsJobs`, `ScopesSound` (below). None of them is inductive. `RunInv` adds what happened before: a started job has successful
direct upstreams (`OrderInv`), from which `UpstreamDone` takes all that `Reaches`
it; the batches of a successful job are done and a job that has not started has
none (`BatchInv`); a batch that is done has written its slices (`WrittenInv`); outputs
are announced before a result lets anybody start (`ReadyInv`); jobs run only under
a plan without blockers (`CompileInv`), with everything prefilled that the DDL has
not dropped (`LoadInv`). `Fresh` then follows the compiler's case analysis: a
read that is not prefilled lies in what preceding writers are known to write
(`CoveredRead`), and they have written it (`KnownWritten`). `InOrder` rests on the batches
being chunks of a sorted list (`BatchesOrdered`) and on `TurnInv`, which says of any two
batches of a serial job what the state of one tells of the other: when one runs, all
before it are done and all after it queued. `RunsJobs` is the refinement: jobs are run as
`JobRun` promises, with no invariant needed, for batches, leftover threads and
interrupts touch no job's state.

`ScopesSound` (`RowsAtHand`) is about `RowScopes`, for readers whose statements read the
table once, whose values, partitions included, are of one type, and which take no value of
the column from a query. From the bottom:
scopes describe what their operations say (`UnionAllows`, `IntersectionAllows`,
`IncludedDescribes`), conditions become scopes that allow all they can be true of
(`AtomStands`, `ClauseStands`, `PredicateStands`), statements too (`FilterStands`), the
partitions chosen cover a scope (`PrefillCopies`); the invariant `ScopesInv` says that
what was gathered covers every statement already looked at. The run needs one type in
the script only, so it is wider there.

**RefactorRunProofs.** Under `Disciplined == Separate /\ Quiet`: `TypeCorrect`,
`FreshIsCurrent`, `Sound`, `ResultsBelong`, `OneHolder`, `DeclarationsStay`. The
invariant `RunInv` has a part about the files (a plan is made in all its parts
from one version; a result beside it is of that plan; a slot holds what tasks of
that version computed) and a part about every command's memory: what it holds
fits its step, what it has checked still holds as far as the policies keep it, and
what it is going to delete or write is consistent with what others hold. A step
of one command leaves the part about another alone if it touches only files the
other does not rely on (the lemma on polite steps); with it each action is proved
by looking at its own command and at the files. TLC checked `RunInv` on the
instance of the run `RefactorRun` before it was proved.

Of extractions with a cache: `Transparent` (`CacheTransparent`) and `Converging` (`Converges`),
for any scripts, tables and worlds that are `InOrder` (2.9; the worlds of the run are), any edits,
failures and kills, and any sequence of extractions with and without the cache. What the
run's own results are is told by their fixed point. A result is told by the slice of the schema it was
made from (`ExtractTold`): where that slice is empty the task is given the whole schema, but then
it names no column without a table (`Anchored`); and the tables it makes for others are told by
what it reads and does not create (`MadeTold`), since it drops before it creates. So results of which
none is stale and none failed are those of one more round (`NotStaleTells`), and such results
are the only ones (`FixedPointsEqual`). Why the rounds suffice is `RoundSettles`: when two sets of
results agree on the tables made by the first `k` ranks, one round more makes them agree on
`k + 1`, whatever the rest is, so the last round of `Clean` is a fixed point (`CleanIsFixed`) and
an extraction that began from any cache has arrived there after as many rounds as there are
files; nobody reads what the last rank makes, which is why it takes no further one. `CacheInv`
adds what failures do: an entry of the cache is what its text gives under some schema, or a
failure; a failure taken from the cache is stale in the first round unless the extraction is
done, because it is filed under the whole schema; and one that comes later stays (`RoundInv`).

**AnalyzeRunProofs.** `ModesTypeCorrect`; `AutomaticGrounded` (an automatic equivalence
goes back to equal normal forms); `Contained` (whatever a change reaches is compared
or behind something compared), from the invariants `Grounded` and `Walked` by
induction on the smallest set (`SmallestOf`). `AnalyzeRun` implements `SemanticModes`
and `VerificationPlan` (`ImplementsModes`, `ImplementsPlan`), which carries their
theorems (`DeclarationsFit` below too) over (`AnalyzeIsSound`, `PlanIsSound`); `PassIsProven` adds that a passing
verdict has no escape and no sampled or missing evidence.

`DeclarationsFit` (`DeclarationsApply`): a declaration that is applied, of this run or an
older one, vouches for the assets and upstream modes the table has. The code
compares contexts, fingerprints that nest the contexts of the upstreams, while the
property speaks of assets. `Told` reads a context as a statement about assets: its parts are the
smallest set closed under "upstream context", each with the asset it was made
of and the mode its readers saw. `DeclarationInv` says that every declaration on file was
made for what its context tells (`Faithful`), and `ToldNow` that the context a table has
now tells what the table and its sources are now; equal contexts then are equal
assets. It rests on the name of the table being part of its fingerprint. TLC checks the
property, but not this invariant, which quantifies over all sets of contexts.

Of plans: `PlanTypeCorrect`; `OrderKept` (a trusted path between
selected jobs below a changed one is a path of the plan), `Closed` (what a window asks
for is planned). They rest on lemmas about the edges between selected jobs
(`EdgesOfSchedule`), paths inside the selection (`SelectedPath`) and windows
(`WindowsFollowed`).

Of the change of the DDL files: `DeclaredIsUsed` (`UsedAsDeclared`) and `OrderlyAccepted`
(`OrderlyChangeAccepted`), for any two catalogs over any finite set of names, whatever is
added, dropped, renamed, rebuilt and altered together, and whatever rows the jobs
need: a change is refused exactly if a needed table is new or rebuilt (`WhyBlocked`,
`CreatedIsRemade`). `DeclaredIsUsed` has the hypothesis
`~ReuseIn(old, new)`, that every name keeps its table, since `SchemaReuse` refutes the property
without it; `NoReuseDeclared` states it for the instances with `Reuse` false, as the run
`AnalyzeRun` has them. `SchemaInv` says that some first `k` of the statements have run and that
the database holds what these make of the baseline (`Holds`): which names are there is told by
the creates, renames and drops among them, and each has the old definition, the old one with
new columns, or the new one. Each kind of statement then finds what it needs (`DropHolds`,
`CreateHolds`, `RenameHolds`, `AlterHolds`), and after the last one what is written or has
changed is new (`AllRan`). All that is used of the order is that a rebuild drops before it
creates and that a rename comes before its alter (`InTurn`); that the order of the code has
this, with every statement once, is `ChangesArranged`: names sort each once (`SortedNames`),
sequences put together keep the order inside their groups (`GroupsJoined`), no two tables share
a statement (`NamesInOrder`). The same induction over `k` gives the manifest's
relations (`RelationsSteps`, `NewNamesStand`), so a new name is routed to itself
(`RoutesToItself`), is not dropped, and has no baseline table exactly if it is created.

**MetadataGenerationProofs.** `TypeCorrect`, `Published` (`PublishedIsWhole`), `AnswersMade`
(`AnswersForContext`), `PaidOnce` (`NothingPaidTwice`), `RefusedAskedAgain`
(`RejectedNotReused`), for any tables, replies, attempts, files and number of
generations, killed wherever they are. The types themselves take two invariants: in
which phases a table can be at which stage, and how many are between journal and
commit (`StagesInv`, one at most), and what is then in each file and variable
(`DataInv`). `PublicationInv` says how far the moves have come: before the
first none, then backups of the old files exactly where new ones have not been put,
until nothing of the old ones is left or all of them are back. `MatchInv` says of every
place an answer can be in (manifest, pending write, sidecar, cache, memory, the pair of
contexts that propagation changes) that it was made for the context it is filed under.
What was altered is only ever paired with the context it was made for (`AlteredIs`,
`PromotedIs`, `SettleIs`), or is blocked.
`JournalInv` relates the three writes of a result: a context has one sidecar, the entry
of a pending write already holds the result written, nothing is pending between
two writes, and at the end every table has an entry about the context it ended with. On it rest `PaidInv`, that an answer whose last record is good
and may be resumed is held by sidecar and entry, at each phase in the copy that is going to be read, and `RejectInv`,
the opposite: wherever a refused result can still be found there is a mark with it, or the
sidecar under it is gone. An entry has room for 4 results and 8 marks
(`MAX_CHECKPOINT_VARIANTS_PER_TABLE`, `MAX_CHECKPOINT_INVALIDATIONS_PER_TABLE`) and drops the oldest
beyond that, so `PaidOnce` assumes `[]RoomForVariants`, that no table is asked under more
contexts, and `RefusedAskedAgain` `[]RoomForMarks`, and `Careful`.
`ImplementsTheStore` (`ImplementsStore`) is the refinement: placing a result or
recovering it is `Keep` or `Refuse` of the store, the pruning of `--no-cache` is `Forget`, the
last commit of a run `Reject`, and nothing else changes what is kept, no kill either.
It needs `ShelfInv`: the entry of a pending write is the one on disk but for the context
written (`PendingAdds`), each sidecar belongs to an entry in memory (`Shelved`), and
what a resumed generation would find, were this one killed now, is what it would find if
the memory were written (`Mirrored`). It assumes `[]RoomForVariants` too, and TLC
shows why: with room for one result and two tables upstream of each other, a write that
fails between journal and sidecar leaves a change in memory that the next table's
journal record makes good, so that one step changes two tables. TLC checked
each of these invariants on a run before it was proved. `Only`, the recursive
function that keeps the tables still in the project, is reasoned about through the
function that `RecursionProofs` shows to exist.

**Only model-checked.** Liveness under fairness (`ClaimEnds`, `Terminates`, `RunEnds`). `LineageTellsAll`
and `DiffTellsAll` compare an algorithm with a reference that is itself recursive, or is computed
by folding over scripts: to prove them takes induction over data, which these provers
cannot do, and `AssetLineage` and `Assessment` declare RECURSIVE operators. `UsedAsDeclared` is proved, and holds, only where no name passes to another table.

## 5. Not modelled

* How statements are parsed, rewritten and executed: the adapter in `sql/doris.py`, the
  tracers of `lineage/`, the external parser. What they compute is data to these models.
* What the Doris server does with a statement whose client was killed. The models
  take the client's end for the statement's end; nothing in the code asks.
* Of metadata generation: prompts and answers, the merge of model files, runs in
  refresh mode (which share `inspect.json` without a lock), reading of the catalog
  before the lock is taken, an interrupt from the keyboard during publication. `Edit`
  brings only new contents.
* Of analysis: the fallback without lineage edges (`verification_plan.py:1355`),
  which schedule diagnostics lower a verdict, ALTERs column by column, and jobs that
  share a stage table without a path between them (`shadow_run.py:765`). Older
  declarations count in the order of run ids (`semantic_mode.py:598`), as in the code.
* Of the caches of lineage: those of one refactor run (`incremental_lineage.py`), the
  fallback when a pool of processes cannot be made, and process tables in cycles.
* Of assessment: scores and weights, rules that ask a language model, texts of issues,
  DDL and model files not named after what they declare, cycles inside one job, a focus given by hand.
* `reinit_project`, HTML views and queries of lineage snapshots, configuration: see their notes
  in `PROJECT.json`.
* Reports, HTML views, formats and wording.
* Everything marked `not_modelled` in `PROJECT.json`, with its reason there; the
  plan says in what order it comes.

## 6. Plan

| Step | Module | Question | Abstract specification, theorems |
|---|---|---|---|
| done | `SlotLease`, `QaPool` | does a slot have one user, and is its evidence kept? | `SlotLease`; all safety, refinement |
| done | `JobGraph`, `JobRun`, `DagExecutor`, `TaskRun` | does a run keep order, limit and dates? | `JobRun`; all safety, refinement |
| done | `RefactorRun` | is a verdict about its plan, and the plan about the workspace? | all safety |
| done | `ShadowRun` | does a job find its input rows in the slot, and does completed mean whole? | all safety; `JobRun` |
| done | `SemanticModes`, `VerificationPlan`, `AnalyzeRun`, `Verdict` | is a table called equivalent only if nothing upstream changed it; are jobs and slices sufficient; can a verdict pass on incomplete evidence? | modes, plan and verdict; refinement of both parts |
| done | `MetadataGeneration` | is an answer that may be resumed paid once, and is publication whole or not at all? | all safety, refinement |
| done | `ScheduleFile`, `TaskCache` | are orders lost beside people's edits; does a cache hit equal a recomputation? | all safety |
| done | `SchemaChanges` | do derived statements and routes mean what was declared? | all safety, without reuse of names |
| done | `RowScopes` | are all rows a statement can read at hand? | row scopes are sound |
| done | `Planner` | do the calendars of commands, planner and plans agree? | all safety |
| done | `Assessment`, `IssueDiff` | are the issues told that a change made and mended? | - |
| done | `AssetLineage` | does the graph of assets show all that flows? | - |
| done | `LineageFile`, `LineageStore` | does a snapshot hold what its file means; is one active? | all safety |
| later | `reinit_project`, schema ids of `ddl_deriver` | is a reinitialisation safe to repeat; do ids survive edits? | - |

Components that interact are composed in one module where the interaction is
the question (pool, shadow-run, compare and cleanup in `QaPool`; all commands in
`RefactorRun`; generation, journal and inspector in `MetadataGeneration`; modes, plan
and verdict in `AnalyzeRun` and `Verdict`), and
otherwise through the abstract specification of the part (`TaskRun` and
`ShadowRun` over `JobRun`). Modules that are proved about use no RECURSIVE
operators; reference definitions that need recursion stay in modules only TLC reads.
