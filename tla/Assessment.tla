------------------------------- MODULE Assessment ------------------------------
(***************************************************************************)
(* What is wrong with a warehouse (assessment/): the facts of its assets   *)
(* (project_facts/) and the rules of seven dimensions (rules/) that look   *)
(* at them, each within a scope of tables, tasks and edges.  Scores, texts *)
(* and the rules that ask a language model are left out; a DDL and a model *)
(* file are named after the table they declare, and a task's SQL parses.   *)
(***************************************************************************)
EXTENDS Naturals, Sequences, FiniteSets

CONSTANTS
    TableName,
    ColumnName,
    DwsNamed,       \* names of tables that begin with dws_
    TempNamed,      \* names of tables with temp or tmp in them
    EventNamed,     \* columns named like the key of an event
    SameColumn,     \* columns with the case of their letters taken away
    Unset           \* no such entry, not given

\* A warehouse.  ddl, model: tables to what the files of the table say; task: files of
\* tasks to what their SQL does; naming, semantics, settings: naming_config.yaml, the
\* catalogs of business codes, warehouse.yaml.
TaskName == [stem : TableName, full : BOOLEAN]
HasDdl(w, t) == t \in DOMAIN w.ddl
HasModel(w, t) == t \in DOMAIN w.model
Tasks(w) == DOMAIN w.task
LayerOf(w, t) == IF HasModel(w, t) THEN w.model[t].layer ELSE "OTHER"
TypeOf(w, t) == IF HasModel(w, t) THEN w.model[t].type ELSE Unset
MiddleLayers == {"DWD", "DWS", "DIM"}

\* Jobs of the lineage are the daily files, and the lineage knows the tables that
\* they read and write.
Jobs(w) == {f \in Tasks(w) : ~f.full}
DependsOn(w) == (UNION {w.task[f].reads \X w.task[f].writes : f \in Jobs(w)}) \ {<<t, t>> : t \in TableName}
KnownTables(w) == UNION {w.task[f].reads \cup w.task[f].writes : f \in Jobs(w)}
ColumnsOf(w, t) ==
    IF HasDdl(w, t) THEN w.ddl[t].columns
    ELSE UNION {w.task[f].aggregates \cup DOMAIN w.task[f].plain : f \in {g \in Jobs(w) : t \in w.task[g].writes}}
Upstream(w, t) == {e[1] : e \in {d \in DependsOn(w) : d[2] = t}}
Downstream(w, t) == {e[2] : e \in {d \in DependsOn(w) : d[1] = t}}

\* The assets, and the tasks that belong to each: those that write it, or are named
\* after it if they write nothing and make nothing.
TasksOf(w, t) == {f \in Tasks(w) :
    IF w.task[f].writes = {} /\ w.task[f].temporaries = {} THEN f.stem = t ELSE t \in w.task[f].writes}
AssetTables(w) == KnownTables(w) \cup DOMAIN w.ddl \cup DOMAIN w.model \cup {t \in TableName : TasksOf(w, t) # {}}
WriterStems(w, t) == {f.stem : f \in {g \in Tasks(w) : t \in w.task[g].writes}}

-----------------------------------------------------------------------------
(* Issues, by their fingerprint.                                           *)

IssueOn(dimension, rule, kind, name, rest) ==
    [dimension |-> dimension, rule |-> rule, type |-> kind, name |-> name, rest |-> rest]
TableIssues(dimension, broken, t) ==
    {IssueOn(dimension, r, "table", t, Unset) : r \in {s \in DOMAIN broken : broken[s]}}
FileOf(f) == IF f.full THEN "full refresh" ELSE "daily"
TaskIssues(dimension, kind, broken, f) ==
    {IssueOn(dimension, r, kind, f.stem, FileOf(f)) : r \in {s \in DOMAIN broken : broken[s]}}

-----------------------------------------------------------------------------
(* reuse, depth.                                                           *)

ReuseIssues(w, scope) == UNION {
    TableIssues("reuse", [REUSE_DOWNSTREAM_REACHES_TARGET |-> Cardinality(Downstream(w, t)) < 3], t) :
    t \in {u \in KnownTables(w) \cap scope.tables : LayerOf(w, u) \in MiddleLayers}}

\* Tables of the middle layers on the longest way up, of a graph without cycles.
Larger(S) == IF S = {} THEN 0 ELSE CHOOSE x \in S : \A y \in S : y <= x
RECURSIVE MiddleDepth(_, _)
MiddleDepth(w, t) ==
    (IF LayerOf(w, t) \in MiddleLayers THEN 1 ELSE 0)
        + Larger({MiddleDepth(w, u) : u \in Upstream(w, t)})
DepthIssues(w, scope) == UNION {
    TableIssues("depth", [DEPTH_MIDDLE_LAYER_IS_OPTIMAL |-> MiddleDepth(w, t) # 2], t) :
    t \in {u \in KnownTables(w) \cap scope.tables : LayerOf(w, u) = "ADS"}}

-----------------------------------------------------------------------------
(* model_design.                                                           *)

Ranks == [ODS |-> 0, DIM |-> 1, DWD |-> 1, DWS |-> 2, ADS |-> 3]
RankOf(w, t) == Ranks[LayerOf(w, t)]
DependencyBreaks(w, e) ==
    LET up == RankOf(w, e[1])
        own == RankOf(w, e[2])
        next == up + 1 = own \/ (LayerOf(w, e[1]) = "DIM" /\ LayerOf(w, e[2]) = "ADS")
    IN  [ARCH_REVERSE_DEPENDENCY |-> up > own,
         ARCH_SAME_LAYER_DEPENDENCY |-> up = own,
         ARCH_SKIP_LAYER_DEPENDENCY |-> up < own /\ ~next]
DependencyIssues(w, scope) == UNION {TableIssues("model_design", DependencyBreaks(w, e), e[2]) :
    e \in {d \in DependsOn(w) \cap scope.edges : LayerOf(w, d[1]) # "OTHER" /\ LayerOf(w, d[2]) # "OTHER"}}

Primaries(m) == SelectSeq(m.entities, LAMBDA e : e.kind = "primary")
GrainKeys(m) ==
    IF m.grain = Unset THEN {} ELSE IF m.grain.keys # {} THEN m.grain.keys
    ELSE UNION {m.entities[n].keys : n \in {k \in DOMAIN m.entities : m.entities[k].code \in m.grain.entities}}
EntityKeys(m) == UNION {m.entities[n].keys : n \in DOMAIN m.entities}
\* Requested columns that are missing, or spelled in another case.
Folded(columns) == {SameColumn[c] : c \in columns}
MissingFrom(requested, available) == {c \in requested : SameColumn[c] \notin Folded(available)}
Misspelled(requested, available) == (requested \ MissingFrom(requested, available)) \ available

\* What the tasks of a table do, as their SQL and the lineage of the jobs tell it.
SqlOf(w, t) == {w.task[f] : f \in TasksOf(w, t)}
JobsInto(w, t) == {w.task[f] : f \in {g \in Jobs(w) : t \in w.task[g].writes}}
Groups(w, t) == UNION {s.group : s \in SqlOf(w, t) \cup JobsInto(w, t)}
Aggregates(w, t) == UNION {s.aggregates : s \in SqlOf(w, t) \cup JobsInto(w, t)}
WindowMetrics(w, t) == UNION {s.windows : s \in SqlOf(w, t)}
\* Columns the rows are grouped by, and what they are called in the output.
GroupOutputs(w, t) == UNION {s.group \cup {c \in DOMAIN s.plain : s.plain[c] \in s.group} : s \in SqlOf(w, t)}
PlainColumns(w, t) == UNION {{<<c, s.plain[c]>> : c \in DOMAIN s.plain} : s \in JobsInto(w, t)}
Leaked(w, t) == {p \in PlainColumns(w, t) :
    /\ SameColumn[p[1]] \notin Folded(GrainKeys(w.model[t]))
    /\ SameColumn[p[2]] \notin Folded(UNION {s.group : s \in JobsInto(w, t)})}

\* A base metric is that of the one table above that has it, and says so.
AtomicOf(w, t) == IF HasModel(w, t) THEN w.model[t].atomic ELSE {}
BaseIsBroken(w, t, d) ==
    LET have == {u \in Upstream(w, t) : d.base \in AtomicOf(w, u)}
    IN  \/ d.base = Unset \/ ~d.aggregated
        \/ d.from = Unset       \* missing, ambiguous, or unknown
        \/ d.from \notin have

DimensionBreaks(w, t) == [
    MODEL_DIM_NO_METRIC_GROUPS |->
        /\ LayerOf(w, t) = "DIM" \/ TypeOf(w, t) = "dimension"
        /\ HasModel(w, t) /\ w.model[t].atomic \cup w.model[t].derived \cup w.model[t].calculated # {},
    MODEL_DIM_INFO_DIRECT_ODS_ONLY |->
        /\ LayerOf(w, t) = "DIM" /\ TypeOf(w, t) = "dimension" /\ w.model[t].content = "INFO"
        /\ \/ \E u \in Upstream(w, t) : LayerOf(w, u) # "ODS"
           \/ Aggregates(w, t) # {} \/ WindowMetrics(w, t) # {},
    MODEL_DATE_PARTITION_USES_DATA_DT |->
        LayerOf(w, t) \in MiddleLayers /\ HasDdl(w, t) /\ w.ddl[t].partition \notin {Unset, "data_dt"}]
DwdBreaks(w, t, m) == [
    MODEL_DWD_FACT_NO_AGGREGATION |-> Groups(w, t) # {} \/ Aggregates(w, t) # {},
    MODEL_DWD_FACT_SINGLE_BUSINESS_PROCESS |-> Cardinality(m.processes) > 1,
    MODEL_DWD_FACT_HAS_PRIMARY_ENTITY_OR_GRAIN |->
        (\A n \in DOMAIN Primaries(m) : Primaries(m)[n].keys = {}) /\ GrainKeys(m) = {},
    MODEL_DWD_FACT_NO_DERIVED_METRICS |-> m.derived # {} \/ m.calculated # {},
    MODEL_DWD_FACT_HAS_EVENT_KEY |-> (ColumnsOf(w, t) \cup EntityKeys(m)) \cap EventNamed = {}]
DwsBreaks(w, t, m) == [
    MODEL_DWS_GRAIN_PRESENT |-> m.grain = Unset,
    MODEL_DWS_FACT_HAS_AGGREGATION |-> SqlOf(w, t) \cup JobsInto(w, t) # {} /\ Aggregates(w, t) = {},
    MODEL_DERIVED_METRIC_BASE_ATOMIC |-> \E d \in m.derived : BaseIsBroken(w, t, d),
    MODEL_DWS_GRAIN_MATCHES_GROUP_BY |->
        /\ m.grain # Unset /\ Groups(w, t) # {}
        /\ \/ MissingFrom(GrainKeys(m), GroupOutputs(w, t)) # {}
           \/ MissingFrom(GroupOutputs(w, t), GrainKeys(m)) # {},
    MODEL_DWS_SELECT_FIELDS_MATCH_GRAIN |-> m.grain # Unset /\ Groups(w, t) # {} /\ Leaked(w, t) # {}]
DesignIssues(w, scope) == DependencyIssues(w, scope) \cup UNION {
    TableIssues("model_design", DimensionBreaks(w, t), t)
    \cup (IF LayerOf(w, t) = "DWD" /\ TypeOf(w, t) = "fact"
          THEN TableIssues("model_design", DwdBreaks(w, t, w.model[t]), t) ELSE {})
    \cup (IF LayerOf(w, t) = "DWS" /\ TypeOf(w, t) = "fact"
          THEN TableIssues("model_design", DwsBreaks(w, t, w.model[t]), t) ELSE {}) :
    t \in KnownTables(w) \cap scope.tables}

-----------------------------------------------------------------------------
(* asset_completeness.                                                     *)

\* The edges of the lineage name the job they come from and no source file, so that no
\* target is ever found for a task.
LineageTargets(w, f) == {}
AssetIssues(w, t) == TableIssues("asset_completeness", [
    ASSET_DDL_HAS_MODEL |-> HasDdl(w, t) /\ ~HasModel(w, t),
    ASSET_EXECUTABLE_DDL_HAS_TASK |-> HasDdl(w, t) /\ LayerOf(w, t) # "ODS" /\ WriterStems(w, t) = {},
    ASSET_MODEL_HAS_DDL |-> HasModel(w, t) /\ ~HasDdl(w, t),
    ASSET_TASK_OUTPUT_HAS_DDL |-> WriterStems(w, t) # {} /\ ~HasDdl(w, t),
    ASSET_TASK_OUTPUT_HAS_MODEL |-> WriterStems(w, t) # {} /\ ~HasModel(w, t),
    ASSET_TABLE_SINGLE_WRITER |-> Cardinality(WriterStems(w, t)) > 1], t)
WriterIssues(w, f) == TaskIssues("asset_completeness", "task", [
    ASSET_TASK_SINGLE_OUTPUT |-> Cardinality(w.task[f].writes) # 1,
    ASSET_TASK_LINEAGE_MATCHES_OUTPUT |-> w.task[f].writes = {} \/ LineageTargets(w, f) # w.task[f].writes], f)
CompletenessIssues(w, scope) ==
    (UNION {AssetIssues(w, t) : t \in AssetTables(w) \cap scope.tables})
    \cup UNION {WriterIssues(w, f) : f \in {g \in Tasks(w) : g.stem \in scope.tasks}}

-----------------------------------------------------------------------------
(* metadata_health.                                                        *)

RoleLayers == [ods |-> {"ODS"}, mid |-> MiddleLayers, ads |-> {"ADS"}]
PrimaryCode(m) == IF Primaries(m) = <<>> THEN Unset ELSE Primaries(m)[1].code
Related(m) == {m.entities[n] : n \in {k \in DOMAIN m.entities : m.entities[k].kind # "primary"}}
\* What a business code is called in the models, and whether it fits its type.
Coded(w, catalog, name) ==
    IF name \in DOMAIN catalog /\ catalog[name] \in w.naming.codes THEN catalog[name] ELSE Unset
DomainOf(w, m) == Coded(w, w.semantics.domain, m.domain)
AreaOf(w, m) == Coded(w, w.semantics.area, m.area)
DomainLayers == {"DWD"}
AreaLayers == {"DWD", "DWS"}
HealthBreaks(w, t, m) ==
    LET columns == ColumnsOf(w, t)
        present == HasDdl(w, t) \/ t \in KnownTables(w)
        codes == {m.entities[n].code : n \in DOMAIN m.entities}
        primary == PrimaryCode(m)
        grain == IF m.grain = Unset THEN {} ELSE m.grain.entities
    IN  [METADATA_DIM_HAS_PRIMARY_ENTITY |-> m.layer = "DIM" /\ primary = Unset,
         METADATA_DIM_SEMANTIC_SUBJECT_MATCHES_PRIMARY |->
             m.layer = "DIM" /\ (primary = Unset \/ m.subject # primary),
         METADATA_ENTITY_KEYS_EXIST |-> present /\ MissingFrom(EntityKeys(m), columns) # {},
         METADATA_RELATIONSHIP_FROM_PRIMARY |->
             present /\ primary # Unset /\ \E e \in Related(m) : e.from \notin {Unset, primary},
         METADATA_ENTITY_NOT_DUPLICATE_PRIMARY |->
             present /\ primary # Unset /\ \E e \in Related(m) : e.code = primary,
         METADATA_GRAIN_KEYS_EXIST |-> present /\ MissingFrom(GrainKeys(m), columns) # {},
         METADATA_MODEL_COLUMN_SPELLING_MATCHES_DDL |->
             present /\ Misspelled(EntityKeys(m) \cup GrainKeys(m), columns) # {},
         METADATA_GRAIN_ENTITIES_PRESENT |-> m.layer = "DWS" /\ grain = {},
         METADATA_GRAIN_ENTITIES_DEFINED |-> ~(grain \subseteq codes),
         METADATA_DATA_DOMAIN_VALID |->
             m.layer \in DomainLayers /\ DOMAIN w.semantics.domain # {} /\ DomainOf(w, m) = Unset,
         METADATA_BUSINESS_AREA_VALID |->
             m.layer \in AreaLayers /\ DOMAIN w.semantics.area # {} /\ AreaOf(w, m) = Unset]
HealthIssues(w, scope) == UNION {
    TableIssues("metadata_health", HealthBreaks(w, t, w.model[t]), t)
    \cup {IssueOn("metadata_health", "METADATA_MODEL_LAYER_MATCHES_ASSET_PATH", "file", t, "model") :
          r \in {x \in {w.model[t].role} : w.model[t].layer \notin RoleLayers[x]}} :
    t \in DOMAIN w.model \cap scope.tables}

-----------------------------------------------------------------------------
(* naming.                                                                 *)

\* What a name says by the first template of a layer that fits it, or Unset.
Reading(w, t) == IF LayerOf(w, t) \in DOMAIN w.naming.reading
    THEN w.naming.reading[LayerOf(w, t)][t] ELSE Unset
MetricColumns(m) == m.atomic \cup {d.name : d \in m.derived}
Misnamed(w, t, says, m) == [
    NAMING_DWS_ENTITY_ALIGNMENT |->
        /\ m.layer = "DWS" /\ m.grain # Unset /\ m.grain.entities # {}
        /\ \/ says.entities = <<>>
           \/ ~({says.entities[n] : n \in DOMAIN says.entities} \subseteq m.grain.entities),
    NAMING_DIM_ENTITY_ALIGNMENT |->
        /\ m.layer = "DIM"
        /\ \/ Primaries(m) = <<>>
           \/ says.entities # [n \in DOMAIN Primaries(m) |-> Primaries(m)[n].code],
    NAMING_DIM_CLASSIFICATION_ALIGNMENT |->
        /\ m.layer = "DIM" /\ ~(says.role = Unset /\ says.content = Unset)
        /\ \/ m.dimRole = Unset \/ says.role # m.dimRole
           \/ m.content = Unset \/ says.content # m.content,
    NAMING_SEMANTIC_METADATA_ALIGNMENT |->
        \/ m.layer \in DomainLayers /\ DomainOf(w, m) \notin {Unset, says.domain}
        \/ m.layer \in AreaLayers /\ AreaOf(w, m) \notin {Unset, says.area}]
NamesOf(w, t, m) ==
    TableIssues("naming", [
        NAMING_TABLE_TEMPLATE |-> Reading(w, t) = Unset,
        NAMING_TABLE_MAX_LENGTH |-> t \in w.naming.tooLong], t)
    \cup {IssueOn("naming", "NAMING_COLUMN_NAME", "column", t, c) :
          c \in ColumnsOf(w, t) \ (MetricColumns(m) \cup w.naming.columns)}
    \cup {IssueOn("naming", "NAMING_ATOMIC_METRIC", "metric", t, c) : c \in m.atomic \ w.naming.atomic}
    \cup {IssueOn("naming", "NAMING_DERIVED_METRIC", "metric", t, d.name) :
          d \in {e \in m.derived : e.name \notin w.naming.derived}}
    \cup (IF Reading(w, t) = Unset THEN {}
          ELSE TableIssues("naming", Misnamed(w, t, Reading(w, t), m), t))
TaskNameIssues(w, f) == TaskIssues("naming", "file",
    [NAMING_TASK_OUTPUT_NAME |-> w.task[f].writes # {f.stem}], f)
NamingIssues(w, scope) ==
    (UNION {NamesOf(w, t, w.model[t]) :
            t \in {u \in DOMAIN w.ddl \cap scope.tables : LayerOf(w, u) \in MiddleLayers}})
    \cup UNION {TaskNameIssues(w, f) : f \in {g \in Tasks(w) : g.stem \in scope.tasks}}

-----------------------------------------------------------------------------
(* code_quality.                                                           *)

Governed(w, t) == HasDdl(w, t) \/ HasModel(w, t)
IsDwsTask(w, f) == f.stem \in DwsNamed \/ LayerOf(w, f.stem) = "DWS"
\* A join to a table whose whole unique key is compared keeps the number of rows.
ManyToOne(w, j) == HasDdl(w, j.table) /\ w.ddl[j.table].unique # {} /\ w.ddl[j.table].unique \subseteq j.on
\* Tables that a task makes for itself: created, and dropped before or after that.
OwnTables(w, f) == {x \in w.task[f].temporaries : x.name # f.stem /\ ~Governed(w, x.name)}
LeftBehind(w, f) == {x \in w.task[f].temporaries : ~x.dropped /\ ~Governed(w, x.name)}
ReadersAmong(w, files, t) == {f \in files : t \in w.task[f].borrows}
TemporaryIssues(w, files, f) ==
    (UNION {TableIssues("code_quality", [
        CODE_TEMP_TABLE_NAME_HAS_TEMP_OR_TMP |-> x.name \notin TempNamed,
        CODE_TEMP_TABLE_DROPPED_IN_SAME_TASK |-> ~x.dropped], x.name) : x \in OwnTables(w, f)})
    \cup UNION {TableIssues("code_quality", [
        CODE_TEMP_TABLE_CREATED_WITH_PRE_DROP_NOT_CLEANED |-> x.droppedBefore,
        CODE_TEMP_TABLE_USED_ACROSS_TASKS |-> ReadersAmong(w, files, x.name) \ {f} # {}], x.name) :
        x \in LeftBehind(w, f)}
ScriptIssues(w, f) == TaskIssues("code_quality", "task", [
    CODE_NO_SELECT_STAR_IN_WRITE |-> w.task[f].star,
    CODE_CARTESIAN_JOIN_RISK |-> w.task[f].cartesian,
    CODE_DWS_JOIN_BEFORE_AGGREGATION |->
        /\ IsDwsTask(w, f) /\ w.task[f].aggregates # {}
        /\ \E j \in w.task[f].joins : ~ManyToOne(w, j),
    CODE_FILTER_COLUMN_WRAPPED_IN_FUNCTION |-> w.task[f].wrapped], f)
QualityIssues(w, scope) ==
    LET files == {f \in Tasks(w) : f.stem \in scope.tasks}
    IN  UNION {TemporaryIssues(w, files, f) \cup ScriptIssues(w, f) : f \in files}

-----------------------------------------------------------------------------
(* An assessment looks at each dimension within its scope.                 *)

Dimensions == {"reuse", "depth", "model_design", "naming", "asset_completeness", "metadata_health",
               "code_quality"}
Assess(w, scopes) ==
    ReuseIssues(w, scopes["reuse"]) \cup DepthIssues(w, scopes["depth"])
    \cup DesignIssues(w, scopes["model_design"]) \cup NamingIssues(w, scopes["naming"])
    \cup CompletenessIssues(w, scopes["asset_completeness"])
    \cup HealthIssues(w, scopes["metadata_health"]) \cup QualityIssues(w, scopes["code_quality"])
Everything == [tables |-> TableName, tasks |-> TableName, edges |-> TableName \X TableName]
AssessAll(w) == Assess(w, [d \in Dimensions |-> Everything])
=============================================================================
