------------------------------ MODULE TaskCache -------------------------------
(***************************************************************************)
(* Extraction of lineage from task files with a cache of the results per   *)
(* task (lineage/lineage_tasks.py, lineage/task_cache.py, main of          *)
(* lineage/lineage_extractor.py), over the facts a task's statements give  *)
(* (lineage/sql_task_facts.py, lineage/lineage_schema.py).                 *)
(*                                                                         *)
(* The columns of a process table, which has no DDL, come from the one     *)
(* task that creates it.  So a result depends on results of other tasks,   *)
(* and extraction goes on in rounds until no result is stale.              *)
(***************************************************************************)
EXTENDS Integers, FiniteSetsExt, SequencesExt

CONSTANTS
    File,       \* task files
    Dataset,    \* tables
    Column,
    Script,     \* what a text of a task file says
    Worlds,     \* contents the workspace may have
    Absent,     \* there is no such file, or no such hash
    Torn        \* a file that is being written, or whose writer was killed

\* A world has the columns of every table with a DDL, a text or Absent for every
\* file, and the version of the extractor's code and of the project's configuration.
\* A text is a sequence of statements and may not parse.  A statement has the table it
\* is about, the tables it reads, the columns it names, whether a star takes those of
\* the tables it reads, and whether it names columns without a table.
Kinds == {"create", "create temporary", "drop", "alter", "write"}
Statements == [do : Kinds, about : Dataset, from : SUBSET Dataset, columns : SUBSET Column,
               star : BOOLEAN, loose : BOOLEAN]
Schemas == [Dataset -> SUBSET Column]
ASSUME WorldsAssumption ==
    /\ IsFiniteSet(File)
    /\ Absent \notin DOMAIN Script \cup Schemas
    /\ \A x \in DOMAIN Script : /\ Script[x].statements \in Seq(Statements)
                               /\ Script[x].parses \in BOOLEAN
    /\ \A w \in Worlds : w.ddl \in Schemas /\ w.sql \in [File -> DOMAIN Script \cup {Absent}]

VARIABLES
    world,      \* the workspace
    cacheFile,  \* task_lineage_cache.json: an entry or Absent for every file
    lineageFile,\* lineage_data.json
    refresh     \* the extraction under way

cacheVars == <<world, cacheFile, lineageFile, refresh>>

-----------------------------------------------------------------------------
(* What one task says, by its statements *)

Creating == {"create", "create temporary"}
NoColumns == [t \in Dataset |-> {}]

\* collect_statement_table_names: the table of a CREATE or a DROP does not count.
Referenced(q) ==
    UNION {s.from \cup (IF s.do \in {"alter", "write"} THEN {s.about} ELSE {}) : s \in Range(q)}
Read(q) == UNION {s.from : s \in Range(q)}
Created(q) == {s.about : s \in {r \in Range(q) : r.do \in Creating}}
\* The last CREATE is temporary, or a DROP comes after it.
Passing(q, t) ==
    LET last == Max({i \in DOMAIN q : q[i].about = t /\ q[i].do \in Creating})
    IN  q[last].do = "create temporary" \/ \E i \in last + 1..Len(q) : q[i].do = "drop" /\ q[i].about = t
Outputs(q) ==
    (Created(q) \cup {s.about : s \in {r \in Range(q) : r.do = "write"}})
    \ {t \in Created(q) : Passing(q, t)}

\* What is hashed of a schema for a task: the tables it refers to, or all.
SliceOf(schema, refs) ==
    IF refs = {} THEN schema ELSE [t \in Dataset |-> IF t \in refs THEN schema[t] ELSE {}]
\* What a task is given of it: all too when it refers to no table that is known.
Given(schema, refs) ==
    IF SliceOf(schema, refs) = NoColumns THEN schema ELSE SliceOf(schema, refs)

NewColumns(s, known) ==
    s.columns \cup (IF s.star /\ \A t \in s.from : known[t] # {}
                    THEN UNION {known[t] : t \in s.from} ELSE {})
\* The schema after a statement.  A CREATE whose columns are unknown leaves it alone.
After(s, known) ==
    CASE s.do = "drop" -> [known EXCEPT ![s.about] = {}]
      [] s.do = "alter" -> [known EXCEPT ![s.about] = @ \cup s.columns]
      [] s.do \in Creating /\ NewColumns(s, known) # {} ->
             [known EXCEPT ![s.about] = NewColumns(s, known)]
      [] OTHER -> known
\* The lineage of a statement, by what it is derived from: the columns of its tables,
\* and any table with a column it names without a table when its own are unknown.
Entry(s, known) ==
    [from |-> [t \in s.from |-> known[t]],
     into |-> IF s.do = "write" THEN known[s.about] ELSE {},
     guessed |-> IF s.loose /\ \A t \in s.from : known[t] = {}
                 THEN {t \in Dataset : known[t] \cap s.columns # {}} ELSE {}]

TaskResult(q, refs, slice, entries, made, failed) ==
    [reads |-> Read(q), writes |-> Outputs(q), refs |-> refs, slice |-> slice,
     entries |-> entries, made |-> made, failed |-> failed]
\* The result of a task whose worker failed says nothing of its tables.
Failure == TaskResult(<<>>, {}, Absent, <<>>, NoColumns, TRUE)

Extract(text, schema) ==
    LET q == Script[text].statements
        refs == Referenced(q)
        Known[i \in 0..Len(q)] == IF i = 0 THEN Given(schema, refs) ELSE After(q[i], Known[i - 1])
        kept == Created(q) \cap Outputs(q)
        made == [t \in Dataset |-> IF t \in kept THEN Known[Len(q)][t] ELSE {}]
    IN  IF ~Script[text].parses THEN TaskResult(q, {}, schema, <<>>, NoColumns, TRUE)
        ELSE TaskResult(q, refs, SliceOf(schema, refs),
                    [i \in {k \in DOMAIN q : q[k].do \in Creating \cup {"write"}} |->
                        Entry(q[i], Known[i - 1])],
                    made, FALSE)

-----------------------------------------------------------------------------
(* What the tasks say of process tables *)

\* Created for others by one task whose columns are known, and without a DDL.
Creators(results, t) ==
    {f \in DOMAIN results :
        /\ t \in results[f].writes
        /\ results[f].made[t] # {}
        /\ \E g \in DOMAIN results \ {f} : t \in results[g].reads}
Catalog(results, ddl) ==
    [t \in Dataset |->
        IF ddl[t] = {} /\ Cardinality(Creators(results, t)) = 1
        THEN UNION {results[f].made[t] : f \in Creators(results, t)} ELSE {}]
WithCatalog(ddl, catalog) == [t \in Dataset |-> IF ddl[t] # {} THEN ddl[t] ELSE catalog[t]]

\* A cached entry is the result with what it was made from.
CacheEntry(result, text, version, schema) ==
    [result |-> [result EXCEPT !.slice = IF @ = Absent THEN SliceOf(schema, result.refs) ELSE @],
     text |-> text, version |-> version]
SameTask(entry, text, version) ==
    entry # Absent /\ entry.text = text /\ entry.version = version
\* Fault: a cached result is taken whatever the schema is now.
ReusableUnsliced(entry, text, version, schema) == SameTask(entry, text, version)
Reusable(entry, text, version, schema) ==
    /\ SameTask(entry, text, version)
    /\ entry.result.slice = SliceOf(schema, entry.result.refs)
Stale(result, final) ==
    /\ result.slice # Absent
    /\ result.slice # SliceOf(final, result.refs)
\* Fault: one round for each file but the first.
MaxRoundsShort(files) == Cardinality(files) - 1
MaxRounds(files) == Cardinality(files) + 1

-----------------------------------------------------------------------------
(* One extraction *)

Idle == [step |-> "idle"]
NoCache == [f \in File |-> Absent]
CacheInit ==
    /\ world \in Worlds
    /\ cacheFile = NoCache
    /\ lineageFile = Absent
    /\ refresh = Idle

EditWorld(w) ==
    /\ world' = w
    /\ UNCHANGED <<cacheFile, lineageFile, refresh>>

ReadSchema(cached, force) ==
    /\ refresh = Idle
    /\ refresh' = [step |-> "tasks", cached |-> cached, force |-> force, ddl |-> world.ddl]
    /\ UNCHANGED <<world, cacheFile, lineageFile>>

\* A damaged cache ends the command with the parser's exception.
ReadTaskFiles ==
    /\ refresh.step = "tasks"
    /\ refresh' = IF refresh.cached /\ cacheFile = Torn THEN Idle
                  ELSE [step |-> "extract", cached |-> refresh.cached, force |-> refresh.force,
                        ddl |-> refresh.ddl, sql |-> world.sql, version |-> world.version,
                        old |-> IF refresh.cached THEN cacheFile ELSE NoCache]
    /\ UNCHANGED <<world, cacheFile, lineageFile>>

Texts(sql) == {f \in File : sql[f] # Absent}
\* The process tables as the cached results of unchanged tasks had them.
Seeds(r) == {f \in Texts(r.sql) : SameTask(r.old[f], r.sql[f], r.version)}
Initial(r) == Catalog([f \in Seeds(r) |-> r.old[f].result], r.ddl)

\* Workers of some of the tasks that are not in the cache fail.
ExtractTasks(broken) ==
    /\ refresh.step = "extract"
    /\ LET schema == WithCatalog(refresh.ddl, Initial(refresh))
           reused == {f \in Texts(refresh.sql) :
                         Reusable(refresh.old[f], refresh.sql[f], refresh.version, schema)}
       IN  /\ broken \subseteq Texts(refresh.sql) \ reused
           /\ refresh' = [step |-> "propagate", cached |-> refresh.cached, force |-> refresh.force,
                          ddl |-> refresh.ddl, sql |-> refresh.sql, version |-> refresh.version,
                          old |-> refresh.old, round |-> 0, schema |-> schema,
                          results |-> [f \in Texts(refresh.sql) |->
                              IF f \in reused THEN refresh.old[f].result
                              ELSE IF f \in broken THEN Failure
                              ELSE Extract(refresh.sql[f], schema)]]
    /\ UNCHANGED <<world, cacheFile, lineageFile>>

\* _propagate_process_table_schemas, a round: done, or again for the stale ones.
Propagate(broken) ==
    /\ refresh.step = "propagate"
    /\ LET catalog == Catalog(refresh.results, refresh.ddl)
           final == WithCatalog(refresh.ddl, catalog)
           stale == {f \in Texts(refresh.sql) : Stale(refresh.results[f], final)}
           done == refresh.round = 0 /\ catalog = Initial(refresh)
       IN  /\ broken \subseteq stale
           /\ done => broken = {}
           /\ refresh' =
                IF done THEN [refresh EXCEPT !.step = "publish"]
                ELSE IF stale = {} THEN [refresh EXCEPT !.step = "publish", !.schema = final]
                ELSE [refresh EXCEPT
                        !.round = @ + 1,
                        !.step = IF refresh.round + 1 < MaxRounds(Texts(refresh.sql))
                                 THEN "propagate" ELSE "did not converge",
                        !.results = [f \in Texts(refresh.sql) |->
                            IF f \in broken THEN Failure
                            ELSE IF f \in stale THEN Extract(refresh.sql[f], final) ELSE @[f]]]
    /\ UNCHANGED <<world, cacheFile, lineageFile>>

HasErrors(r) == \E f \in DOMAIN r.results : r.results[f].failed
\* Errors do not replace a lineage file unless they are told to.
OpenLineage ==
    /\ refresh.step = "publish"
    /\ IF HasErrors(refresh) /\ ~refresh.force /\ lineageFile # Absent
       THEN refresh' = Idle /\ UNCHANGED lineageFile
       ELSE lineageFile' = Torn /\ refresh' = [refresh EXCEPT !.step = "lineage"]
    /\ UNCHANGED <<world, cacheFile>>
WriteLineage ==
    /\ refresh.step = "lineage"
    /\ lineageFile' = [ddl |-> refresh.ddl, sql |-> refresh.sql, results |-> refresh.results]
    /\ IF refresh.cached
       THEN cacheFile' = Torn /\ refresh' = [refresh EXCEPT !.step = "cache"]
       ELSE UNCHANGED cacheFile /\ refresh' = Idle
    /\ UNCHANGED world
WriteCache ==
    /\ refresh.step = "cache"
    /\ cacheFile' = [f \in File |->
           IF f \notin Texts(refresh.sql) THEN Absent
           ELSE CacheEntry(refresh.results[f], refresh.sql[f], refresh.version, refresh.schema)]
    /\ refresh' = Idle
    /\ UNCHANGED <<world, lineageFile>>

\* Killed; or the exception of an extraction that did not converge; or people
\* remove a damaged file.
DieRefreshing ==
    /\ refresh # Idle
    /\ refresh' = Idle
    /\ UNCHANGED <<world, cacheFile, lineageFile>>
RemoveCache ==
    /\ cacheFile' = NoCache
    /\ UNCHANGED <<world, lineageFile, refresh>>

RefreshStep ==
    \/ \E cached, force \in BOOLEAN : ReadSchema(cached, force)
    \/ ReadTaskFiles
    \/ \E broken \in SUBSET File : ExtractTasks(broken) \/ Propagate(broken)
    \/ OpenLineage \/ WriteLineage \/ WriteCache
    \/ DieRefreshing \/ RemoveCache
CacheNext == RefreshStep \/ \E w \in Worlds : EditWorld(w)
CacheSpec == CacheInit /\ [][CacheNext]_cacheVars

-----------------------------------------------------------------------------
(* Assumptions about worlds, for those who choose them *)

Of(sql, f) == Script[sql[f]].statements

\* Tasks can be put in an order in which each comes after those that create what it reads.
Orderly(sql) ==
    \E rank \in [Texts(sql) -> 1..Cardinality(Texts(sql))] :
        \A f, g \in Texts(sql) :
            f # g /\ Created(Of(sql, g)) \cap Read(Of(sql, f)) # {} => rank[g] < rank[f]
\* A script drops a table before it creates it, and before it creates another of it.
DropsFirst(q) ==
    \A i \in DOMAIN q : q[i].do \in Creating =>
        \A t \in {q[i].about} \cup (q[i].from \cap Created(q)) :
            \E k \in 1..i - 1 : q[k].do = "drop" /\ q[k].about = t
\* A script that names a column without its table refers to some known table.
Anchored(q, ddl) == (\E s \in Range(q) : s.loose) => \E t \in Referenced(q) : ddl[t] # {}
Tidy(ddl, sql) == \A f \in Texts(sql) : DropsFirst(Of(sql, f)) /\ Anchored(Of(sql, f), ddl)
\* An extraction may read the DDL of one world and the tasks of the next.
InOrder == \A v, w \in Worlds : Orderly(w.sql) /\ Tidy(v.ddl, w.sql)

-----------------------------------------------------------------------------
(* Properties *)

\* The results of an extraction that has no cache, never fails, and extracts every
\* task again in every round.
Clean(ddl, sql) ==
    LET Under(schema) == [f \in Texts(sql) |-> Extract(sql[f], schema)]
        Round[k \in 0..Cardinality(Texts(sql))] ==
            IF k = 0 THEN Under(ddl) ELSE Under(WithCatalog(ddl, Catalog(Round[k - 1], ddl)))
    IN  Round[Cardinality(Texts(sql))]

\* A lineage file without errors is what its DDL and scripts give from nothing,
\* whatever was in the cache, which tasks failed before, or who was killed: no table,
\* column or task that is gone lingers.
CacheTransparent ==
    lineageFile \in {Absent, Torn} \/
    (~HasErrors(lineageFile) => lineageFile.results = Clean(lineageFile.ddl, lineageFile.sql))

\* Where tasks can be put in an order, the rounds are enough to settle process tables,
\* unless a worker failed in one of them.
Converges == refresh.step = "did not converge" => HasErrors(refresh)
=============================================================================
