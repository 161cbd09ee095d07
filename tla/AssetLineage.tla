------------------------------ MODULE AssetLineage ----------------------------
(***************************************************************************)
(* Which tables and columns come from which: the facts of the tasks        *)
(* (lineage/sql_task_facts.py), the lineage they are written down as       *)
(* (lineage_output.py, job_lineage.py), the order of jobs that follows     *)
(* (job_dag.py), and the graph of assets, in which the tables that tasks   *)
(* make for each other or for themselves are bypassed (asset_graph.py,     *)
(* view.py).  Against it, the jobs run, and rows remember their origin.    *)
(***************************************************************************)
EXTENDS Naturals, Sequences, FiniteSets

CONSTANTS
    Asset,          \* tables with a DDL, or that no task writes
    Process,        \* names of tables that tasks make
    Column,
    Task,           \* jobs
    TaskScripts,    \* what the tasks may be
    Nothing         \* no task, no table

Dataset == Asset \cup Process
Ref == Dataset \X Column
TaskStatement == [do : {"drop", "create", "create temporary", "insert"}, about : Dataset,
                  from : [Column -> SUBSET Ref], where : SUBSET Ref]

VARIABLES
    script,     \* of each task
    store,      \* what the tables hold: nothing, or where it comes from
    session,    \* the same for temporary tables of the job that runs
    at,         \* the job that runs, and its next statement
    over,       \* jobs that have run, or failed
    seen        \* what has flowed into assets

lineageVars == <<script, store, session, at, over, seen>>

-----------------------------------------------------------------------------
(* The facts of a task.                                                    *)

Values(s) == UNION {s.from[c] : c \in Column}
ReadBy(s) == {r[1] : r \in Values(s) \cup s.where}
StatementsOf(j) == {script[j][n] : n \in DOMAIN script[j]}
At(j, t, kinds) == {n \in DOMAIN script[j] : script[j][n].about = t /\ script[j][n].do \in kinds}
Creation == {"create", "create temporary"}
TemporaryOf(j) == {t \in Dataset : At(j, t, {"create temporary"}) # {}}
CreatedBy(j) == {t \in Dataset : At(j, t, Creation) # {}}
\* Created and dropped later on, or temporary.
LocalTo(j) == TemporaryOf(j) \cup
    {t \in Dataset : \E n \in At(j, t, Creation), m \in At(j, t, {"drop"}) : n < m}
Fleeting(j, t) ==
    \E n \in At(j, t, Creation) :
        /\ \A m \in At(j, t, Creation) : m <= n
        /\ n \in At(j, t, {"create temporary"}) \/ \E m \in At(j, t, {"drop"}) : n < m
OutputsOf(j) == {t \in {s.about : s \in {r \in StatementsOf(j) : r.do # "drop"}} : ~Fleeting(j, t)}
InputsOf(j) == {t \in UNION {ReadBy(s) : s \in StatementsOf(j)} : t \notin LocalTo(j) \/ t \in OutputsOf(j)}

\* Edges from column to column, and from the column of a condition to a table.
ColumnEdges == UNION {UNION {UNION {{[source |-> r, target |-> <<s.about, c>>, job |-> j] :
    r \in s.from[c]} : c \in Column} : s \in StatementsOf(j)} : j \in Task}
ConditionEdges == UNION {UNION {{[source |-> r, target |-> s.about, job |-> j] :
    r \in s.where} : s \in StatementsOf(j)} : j \in Task}

\* _dataset_type of build_lineage_output.
Kind(t) ==
    IF t \in Asset THEN "managed"
    ELSE IF \/ \E j \in Task : t \in OutputsOf(j) \cup (CreatedBy(j) \ TemporaryOf(j))
            \/ /\ \A j \in Task : t \notin TemporaryOf(j)
               /\ \E e \in ColumnEdges : e.target[1] = t
         THEN "process"
    ELSE IF \E j \in Task : t \in TemporaryOf(j) THEN "temporary"
    ELSE "external"

-----------------------------------------------------------------------------
(* Who makes what a job reads.                                             *)

Makers(t, reader) == {j \in Task \ {reader} : t \in OutputsOf(j)}
Needs(j) == InputsOf(j) \ OutputsOf(j)
Supplies(u, j, t) == t \in Needs(j) /\ Kind(t) # "temporary" /\ Makers(t, j) = {u}
\* UNRESOLVED_DATASET_PRODUCER
Unresolved ==
    {<<j, t>> \in Task \X Process : t \in Needs(j) /\ Kind(t) \in {"process", "temporary"}
                                    /\ \A u \in Task : ~Supplies(u, j, t)}
UpstreamOf(j) == {u \in Task : \E t \in Dataset : Supplies(u, j, t)}
\* bfs_downstream
DownstreamOf(u) ==
    LET reached[n \in Nat] == IF n = 0 THEN {u}
                              ELSE reached[n - 1] \cup {j \in Task : UpstreamOf(j) \cap reached[n - 1] # {}}
    IN  reached[Cardinality(Task)] \ {u}

-----------------------------------------------------------------------------
(* The graph of assets.                                                    *)

\* Fault: a table that nobody resolves is everybody's, one that is resolved the reader's.
NodeOfReader(t, j, writing) ==
    IF Kind(t) \notin {"process", "temporary"} THEN [table |-> t, job |-> Nothing]
    ELSE [table |-> t, job |-> j]
\* The occurrence of a table in a job: a process table belongs to the job that makes it.
Node(t, j, writing) ==
    IF Kind(t) \notin {"process", "temporary"} THEN [table |-> t, job |-> Nothing]
    ELSE IF writing \/ Kind(t) = "temporary" \/ t \in OutputsOf(j) THEN [table |-> t, job |-> j]
    ELSE [table |-> t, job |-> IF \E u \in Task : Supplies(u, j, t)
                               THEN CHOOSE u \in Task : Supplies(u, j, t) ELSE j]
Bypassed(node) == node.job # Nothing

TableEdges ==
    LET between(r, t, j) == [source |-> Node(r[1], j, FALSE), target |-> Node(t, j, TRUE), job |-> j]
    IN  {e \in {between(c.source, c.target[1], c.job) : c \in ColumnEdges}
               \cup {between(c.source, c.target, c.job) : c \in ConditionEdges} : e.source # e.target}

\* The assets that a node leads to, with the jobs on the way.
RECURSIVE Beyond(_, _, _, _)
Beyond(edges, node, visiting, jobs) ==
    UNION {LET along == jobs \cup {f.job : f \in {f \in edges : f.source = node /\ f.target = e.target}}
           IN  IF e.target \in visiting THEN {}
               ELSE IF Bypassed(e.target) THEN Beyond(edges, e.target, visiting \cup {e.target}, along)
               ELSE {[to |-> e.target.table, jobs |-> along]} : e \in {e \in edges : e.source = node}}
\* build_asset_table_graph, and build_asset_table_edge_metadata
AssetEdges ==
    LET edges == TableEdges
    IN  UNION {{[from |-> n.table, to |-> b.to, jobs |-> b.jobs] : b \in Beyond(edges, n, {n}, {})} :
            n \in {n \in {e.source : e \in edges} \cup {e.target : e \in edges} : ~Bypassed(n)}}
JobsAlong(edges, a, b) == UNION {e.jobs : e \in {e \in edges : e.from = a /\ e.to = b}}

\* The columns of assets that a column of a job comes from.
RECURSIVE Origins(_, _, _)
Origins(ref, node, visiting) ==
    IF ~Bypassed(node) THEN {ref}
    ELSE IF <<node, ref[2]>> \in visiting THEN {}
    ELSE UNION {Origins(e.source, Node(e.source[1], e.job, FALSE), visiting \cup {<<node, ref[2]>>}) :
            e \in {e \in ColumnEdges : Node(e.target[1], e.job, TRUE) = node /\ e.target[2] = ref[2]}}
OriginsIn(r, j) == Origins(r, Node(r[1], j, FALSE), {})

ConditionLineage(t, j) ==
    UNION {OriginsIn(e.source, j) : e \in {e \in ConditionEdges : e.target = t /\ e.job = j}}
ColumnLineage(t) ==
    UNION {{[source |-> r, target |-> e.target, job |-> e.job, where |-> ConditionLineage(t, e.job)] :
            r \in OriginsIn(e.source, e.job)} : e \in {e \in ColumnEdges : e.target[1] = t}}
\* LineageView
LineageView == [t \in Dataset |-> ColumnLineage(t)]

-----------------------------------------------------------------------------
(* Queries (lineage/query.py), to a depth.                                 *)

Steps(edges, t, direction) ==
    {e \in edges : direction # "downstream" /\ e.to = t} \cup {e \in edges : direction # "upstream" /\ e.from = t}
\* build_table_subgraph: the tables it shows, and the edges it counts as hidden.
Near(edges, root, direction, depth) ==
    LET near[n \in 0..depth] ==
            IF n = 0 THEN {root}
            ELSE near[n - 1] \cup UNION {{e.from, e.to} : e \in UNION {Steps(edges, t, direction) : t \in near[n - 1]}}
    IN  near
Shown(edges, root, direction, depth) == Near(edges, root, direction, depth)[depth]
Hidden(edges, root, direction, depth) ==
    LET near == Near(edges, root, direction, depth)
    IN  UNION {Steps(edges, t, direction) : t \in near[depth] \ near[depth - 1]}

\* The paths to and from a column, in columns of assets.
RECURSIVE PathsTo(_, _, _, _)
PathsTo(steps, ref, depth, visiting) ==
    IF depth = 0 \/ ref \in visiting THEN {}
    ELSE UNION {LET before == PathsTo(steps, r.source, depth - 1, visiting \cup {ref})
                IN  IF before = {} THEN {<<r.source, ref>>} ELSE {Append(path, ref) : path \in before} :
                r \in {r \in steps : r.target = ref}}
RECURSIVE PathsFrom(_, _, _, _)
PathsFrom(steps, ref, depth, visiting) ==
    IF depth = 0 \/ ref \in visiting THEN {}
    ELSE UNION {LET after == PathsFrom(steps, r.target, depth - 1, visiting \cup {ref})
                IN  IF after = {} THEN {<<ref, r.target>>} ELSE {<<ref>> \o path : path \in after} :
                r \in {r \in steps : r.source = ref}}
OnPaths(paths) == UNION {{path[n] : n \in DOMAIN path} : path \in paths}

-----------------------------------------------------------------------------
(* The jobs run.  A table holds, by column, columns of assets, and it depends on *)
(* assets, each by way of jobs.                                            *)

Missing == [values |-> [c \in Column |-> {}], tables |-> Nothing]
Exists(t) == session[t] # Missing \/ store[t] # Missing
Held(t) == IF session[t] # Missing THEN session[t] ELSE store[t]
ValuesAt(r) == IF r[1] \in Asset THEN {r} ELSE Held(r[1]).values[r[2]]
TablesAt(t) == IF t \in Asset THEN {[table |-> t, jobs |-> {}]} ELSE Held(t).tables
\* What the rows of a statement are made of.
Made(s, j) ==
    [values |-> [c \in Column |-> UNION {ValuesAt(r) : r \in s.from[c]}],
     tables |-> {[d EXCEPT !.jobs = @ \cup {j}] : d \in UNION {TablesAt(t) : t \in ReadBy(s)}}]
Merged(x, y) == [values |-> [c \in Column |-> x.values[c] \cup y.values[c]], tables |-> x.tables \cup y.tables]

LineageInit ==
    /\ script \in TaskScripts
    /\ store = [t \in Process |-> Missing] /\ session = [t \in Process |-> Missing]
    /\ at = [job |-> Nothing, next |-> 0]
    /\ over = {}
    /\ seen = [tables |-> {}, columns |-> {}, conditions |-> {}]

StartTask(j) ==
    /\ at.job = Nothing /\ j \notin over /\ UpstreamOf(j) \subseteq over
    /\ at' = [job |-> j, next |-> 1]
    /\ UNCHANGED <<script, store, session, over, seen>>

EndTask ==
    /\ over' = over \cup {at.job}
    /\ at' = [job |-> Nothing, next |-> 0]
    /\ session' = [t \in Process |-> Missing]

Execute(s) ==
    LET made == Made(s, at.job)
        conditions == UNION {ValuesAt(r) : r \in s.where}
        held == IF s.do = "insert" THEN Merged(Held(s.about), made) ELSE made
    IN  IF s.do = "drop"
        THEN IF session[s.about] # Missing
             THEN session' = [session EXCEPT ![s.about] = Missing] /\ UNCHANGED <<store, seen>>
             ELSE store' = [store EXCEPT ![s.about] = Missing] /\ UNCHANGED <<session, seen>>
        ELSE IF s.about \in Asset
        THEN /\ seen' = [tables |-> seen.tables \cup
                                    {[from |-> d.table, to |-> s.about, jobs |-> d.jobs] : d \in made.tables},
                         columns |-> seen.columns \cup
                                     UNION {{[source |-> r, target |-> <<s.about, c>>, job |-> at.job] :
                                             r \in made.values[c]} : c \in Column},
                         conditions |-> seen.conditions \cup
                                        {[source |-> r, target |-> s.about, job |-> at.job] : r \in conditions}]
             /\ UNCHANGED <<store, session>>
        ELSE IF s.do = "create temporary" \/ (s.do = "insert" /\ session[s.about] # Missing)
        THEN session' = [session EXCEPT ![s.about] = held] /\ UNCHANGED <<store, seen>>
        ELSE store' = [store EXCEPT ![s.about] = held] /\ UNCHANGED <<session, seen>>

\* Statements that read or fill tables that are not there fail, and so does another CREATE.
Fits(s) ==
    /\ \A t \in ReadBy(s) \cap Process : Exists(t)
    /\ s.do = "insert" /\ s.about \in Process => Exists(s.about)
    /\ s.do = "create" => store[s.about] = Missing
    /\ s.do = "create temporary" => session[s.about] = Missing

RunTask ==
    /\ at.job # Nothing
    /\ IF at.next > Len(script[at.job]) THEN EndTask /\ UNCHANGED <<store, seen>>
       ELSE LET s == script[at.job][at.next]
            IN  IF Fits(s) THEN /\ Execute(s)
                                 /\ at' = [at EXCEPT !.next = @ + 1]
                                 /\ UNCHANGED over
                ELSE EndTask /\ UNCHANGED <<store, seen>>
    /\ UNCHANGED script

LineageNext == RunTask \/ \E j \in Task : StartTask(j)

-----------------------------------------------------------------------------
\* A task does not read what others have put into a table that it writes itself.
OwnTablesOnly ==
    \A j \in Task : \A n \in DOMAIN script[j] : \A t \in ReadBy(script[j][n]) \cap Process :
        At(j, t, {"create", "create temporary", "insert"}) # {} =>
            \E m \in At(j, t, Creation) : m < n /\ \A k \in At(j, t, {"drop"}) : k < m \/ n < k

(* Of tasks whose tables are resolved, whatever has flowed from one asset into *)
(* another, through any tables of other tasks, is an edge of the graph with all *)
(* the jobs it passed, which are up or down stream of each other; the column it *)
(* came from is in the column's lineage, with the conditions of the statement; *)
(* and a query that is deep enough shows every table and column that another   *)
(* one has been made from, and hides nothing.  Tasks may fail, but not before *)
(* they drop a table of their own that another one fills, too.                *)
LineageTellsAll ==
    over = Task /\ Unresolved = {} /\ OwnTablesOnly =>
        LET edges == AssetEdges
            lineage == LineageView
            steps == UNION {lineage[t] : t \in Dataset}
            deep == Cardinality(Asset \X Column)
            flows == {[from |-> f.source, to |-> f.target] : f \in seen.columns}
        IN  /\ \A f \in seen.tables :
                  /\ f.from # f.to => f.jobs \subseteq JobsAlong(edges, f.from, f.to)
                  /\ \A u, j \in f.jobs : u = j \/ u \in DownstreamOf(j) \/ j \in DownstreamOf(u)
            /\ \A f \in seen.columns : \E r \in lineage[f.target[1]] :
                  r.source = f.source /\ r.target = f.target /\ r.job = f.job
            /\ \A f \in seen.conditions : \A r \in lineage[f.target] :
                  r.job = f.job => f.source \in r.where
            /\ \A t \in Asset, direction \in {"upstream", "downstream", "both"} :
                  /\ Shown(seen.tables, t, direction, deep) \subseteq Shown(edges, t, direction, deep)
                  /\ Hidden(edges, t, direction, deep) = {}
            /\ \A ref \in Asset \X Column :
                  /\ Shown(flows, ref, "upstream", deep) \subseteq {ref} \cup OnPaths(PathsTo(steps, ref, deep, {}))
                  /\ Shown(flows, ref, "downstream", deep) \subseteq {ref} \cup OnPaths(PathsFrom(steps, ref, deep, {}))
=============================================================================
