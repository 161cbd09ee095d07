------------------------------- MODULE IssueDiff -------------------------------
(***************************************************************************)
(* What a refactor run says of the issues it made and mended               *)
(* (refactor/change_analysis.py, assessment/scoped_plan.py,                *)
(* refactor/issue_diff.py): the baseline is assessed in full, the current  *)
(* warehouse only where the changes reach, and issues are told apart by    *)
(* their fingerprints, once the tables that were renamed are called alike. *)
(***************************************************************************)
EXTENDS Assessment

CONSTANTS
    Baselines,          \* warehouses a run may start from
    DdlVersions,        \* for each table, what its DDL may say, Unset if it is deleted
    ModelVersions,
    TaskVersions,       \* for each file of a task
    NamingVersions, SemanticsVersions, SettingsVersions,
    NewNames,           \* names a table may get
    MaxEdits            \* how often the user edits

VARIABLES
    baseline, current,  \* the warehouse at the start of the run, and in the workspace
    staged,             \* names of tables whose files were moved with git
    edits,              \* how often the user has edited
    issueDiff           \* what analyze said of the workspace as it is, or Unset
diffVars == <<baseline, current, staged, edits, issueDiff>>

-----------------------------------------------------------------------------
(* The user edits the workspace.                                           *)

Replaced(files, x, v) ==
    IF v = Unset THEN [y \in DOMAIN files \ {x} |-> files[y]]
    ELSE [y \in DOMAIN files \cup {x} |-> IF y = x THEN v ELSE files[y]]
Edited(w) ==
    /\ edits < MaxEdits /\ w # current
    /\ current' = w /\ edits' = edits + 1 /\ issueDiff' = Unset
    /\ UNCHANGED baseline
EditDdl == /\ \E t \in TableName : \E v \in DdlVersions[t] : Edited([current EXCEPT !.ddl = Replaced(@, t, v)])
           /\ UNCHANGED staged
EditModel == /\ \E t \in TableName : \E v \in ModelVersions[t] :
                    Edited([current EXCEPT !.model = Replaced(@, t, v)])
             /\ UNCHANGED staged
EditTask == /\ \E f \in TaskName : \E v \in TaskVersions[f] : Edited([current EXCEPT !.task = Replaced(@, f, v)])
            /\ UNCHANGED staged
EditConfig == /\ \/ \E v \in NamingVersions : Edited([current EXCEPT !.naming = v])
                 \/ \E v \in SemanticsVersions : Edited([current EXCEPT !.semantics = v])
                 \/ \E v \in SettingsVersions : Edited([current EXCEPT !.settings = v])
              /\ UNCHANGED staged

\* A table gets another name: its files are moved, and every file that names it follows.
Called(from, to, t) == IF t = from THEN to ELSE t
Moved(files, from, to) == IF from \notin DOMAIN files THEN files
    ELSE [x \in (DOMAIN files \ {from}) \cup {to} |-> files[IF x = to THEN from ELSE x]]
WithName(w, from, to) ==
    LET N(S) == {Called(from, to, t) : t \in S}
        Following(s) == [s EXCEPT !.reads = N(@), !.writes = N(@), !.borrows = N(@),
            !.joins = {[j EXCEPT !.table = Called(from, to, @)] : j \in @}]
        moved == Moved(Moved(w.task, [stem |-> from, full |-> FALSE], [stem |-> to, full |-> FALSE]),
                       [stem |-> from, full |-> TRUE], [stem |-> to, full |-> TRUE])
        models == Moved(w.model, from, to)
    IN  [w EXCEPT !.ddl = Moved(@, from, to),
            !.model = [t \in DOMAIN models |-> [models[t] EXCEPT
                !.derived = {[d EXCEPT !.from = Called(from, to, @)] : d \in @}]],
            !.task = [f \in DOMAIN moved |-> Following(moved[f])]]
RenameTable(from, to) ==
    /\ from \in DOMAIN current.ddl
    /\ to \notin AssetTables(current) \cup {f.stem : f \in Tasks(current)}
    /\ Edited(WithName(current, from, to))
    /\ staged' \in {staged, staged \cup {from}}

-----------------------------------------------------------------------------
(* What changed, and what that reaches (change_analysis.py).               *)

Changed(old, new) ==
    {x \in DOMAIN old \cup DOMAIN new : x \notin DOMAIN old \cap DOMAIN new} \cup
    {x \in DOMAIN old \cap DOMAIN new : old[x] # new[x]}
\* git names a moved file by its new name only.
Hidden(t) == t \in staged
ListedTables ==
    {t \in Changed(baseline.ddl, current.ddl) : t \in DOMAIN current.ddl \/ ~Hidden(t)}
    \cup {t \in Changed(baseline.model, current.model) : t \in DOMAIN current.model \/ ~Hidden(t)}
ListedJobs == {f.stem :
    f \in {g \in Changed(baseline.task, current.task) : g \in DOMAIN current.task \/ ~Hidden(g.stem)}}
NothingListed ==
    /\ ListedTables = {} /\ ListedJobs = {}
    /\ \A x \in {"naming", "semantics", "settings"} : baseline[x] = current[x]

Daily(j) == [stem |-> j, full |-> FALSE]
ManagedOutputs(w, j) == {t \in w.task[Daily(j)].writes : HasDdl(w, t)}
Holders(j) == {w \in {baseline, current} : Daily(j) \in Tasks(w)}
Resolves(j) == Holders(j) # {} /\ \A w \in Holders(j) : Cardinality(ManagedOutputs(w, j)) = 1
DirectTables == ListedTables \cup UNION {UNION {ManagedOutputs(w, j) : w \in Holders(j)} : j \in ListedJobs}

\* A set of tables and all that depend on them.
RECURSIVE Reached(_, _)
Reached(edges, S) ==
    LET more == {e[2] : e \in {d \in edges : d[1] \in S}}
    IN  IF more \subseteq S THEN S ELSE Reached(edges, S \cup more)
AddedEdges == DependsOn(current) \ DependsOn(baseline)
RemovedEdges == DependsOn(baseline) \ DependsOn(current)
EndsOf(E) == {e[1] : e \in E} \cup {e[2] : e \in E}
\* Fault: tables that lost a source are forgotten.
AffectedTablesForgetful ==
    Reached(DependsOn(baseline), DirectTables) \cup Reached(DependsOn(current), DirectTables)
        \cup EndsOf(AddedEdges)
AffectedTables ==
    Reached(DependsOn(baseline), DirectTables) \cup Reached(DependsOn(current), DirectTables)
        \cup EndsOf(AddedEdges \cup RemovedEdges)

-----------------------------------------------------------------------------
(* The scope of each dimension (scoped_plan.py).                           *)

OfThese(names, known) == IF known = {} THEN names ELSE names \cap known
BaseTables == OfThese(AffectedTables, KnownTables(current))
BaseTasks == OfThese(ListedJobs \cup AffectedTables, {f.stem : f \in Tasks(current)} \cup KnownTables(current))

\* Tasks of the tables, what they write, who else writes that, and so on.
RECURSIVE Closure(_, _)
Closure(tables, tasks) ==
    LET mine == {f \in Tasks(current) : f.stem \in tasks \/ current.task[f].writes \cap tables # {}}
        wider == tables \cup UNION {current.task[f].writes : f \in mine}
        more == tasks \cup {f.stem : f \in mine}
    IN  IF wider = tables /\ more = tasks THEN [tables |-> tables, tasks |-> tasks, edges |-> {}]
        ELSE Closure(wider, more)

IsFull(dimension) ==
    \/ baseline.settings # current.settings
    \/ dimension \in {"naming", "metadata_health"}
       /\ (baseline.naming # current.naming \/ baseline.semantics # current.semantics)
OnTables(S) == [tables |-> S, tasks |-> {}, edges |-> {}]
ScopesOf(tables, tasks) == [
    reuse |-> OnTables(tables),
    depth |-> OnTables({t \in tables \cap KnownTables(current) : LayerOf(current, t) = "ADS"}),
    model_design |-> [OnTables(tables) EXCEPT !.edges =
        AddedEdges \cup {e \in DependsOn(current) : e[1] \in tables \/ e[2] \in tables}],
    naming |-> [OnTables(tables) EXCEPT !.tasks = tasks],
    asset_completeness |-> Closure(tables, tasks \cup {f.stem : f \in UNION {TasksOf(current, t) : t \in tables}}),
    metadata_health |-> OnTables(tables),
    code_quality |-> [OnTables({}) EXCEPT !.tasks = tasks]]
Scopes ==
    LET scoped == ScopesOf(BaseTables, BaseTasks)
    IN  [d \in Dimensions |-> IF IsFull(d) THEN Everything ELSE scoped[d]]

-----------------------------------------------------------------------------
(* The difference of the issues (issue_diff.py).                           *)

\* Tables of one identity under two names, whose layout is the same.
Discarded == {t \in DOMAIN baseline.ddl : t \in DOMAIN current.ddl => current.ddl[t].id # baseline.ddl[t].id}
Brought == {t \in DOMAIN current.ddl : t \in DOMAIN baseline.ddl => current.ddl[t].id # baseline.ddl[t].id}
Layout(d) == [partition |-> d.partition, unique |-> d.unique]
Renames == {p \in Discarded \X Brought :
    /\ baseline.ddl[p[1]].id = current.ddl[p[2]].id
    /\ Layout(baseline.ddl[p[1]]) = Layout(current.ddl[p[2]])}
NewName(renames, t) == IF \E p \in renames : p[1] = t THEN (CHOOSE p \in renames : p[1] = t)[2] ELSE t
WithNewNames(renames, issues) == {[i EXCEPT !.name = NewName(renames, @)] : i \in issues}

\* An issue is in a scope by its own name or by the new one.
Told(issues, scopes) ==
    LET renames == Renames
        Either(names) == names \cup {NewName(renames, t) : t \in names}
        tables == [d \in Dimensions |-> Either(scopes[d].tables)]
        tasks == [d \in Dimensions |-> Either(scopes[d].tasks)]
        InScope(i) ==
            LET name == NewName(renames, i.name)
            IN  \/ IsFull(i.dimension)
                \/ i.type \in {"task", "file"} /\ name \in tasks[i.dimension]
                \/ i.type # "task" /\ name \in tables[i.dimension]
    IN  WithNewNames(renames, {i \in issues : InScope(i)})

\* The run starts with the issues of the baseline.
BaselineIssues == [w \in Baselines |-> AssessAll(w)]
IdsOf(w) == {w.ddl[t].id : t \in DOMAIN w.ddl}
\* A lineage whose jobs run in a circle is refused (no job reads two tables it writes).
Acyclic(w) == \A t \in KnownTables(w) : t \notin Reached(DependsOn(w), Downstream(w, t))
CanAnalyze ==
    /\ Acyclic(current)
    /\ Cardinality(IdsOf(current)) = Cardinality(DOMAIN current.ddl)
    /\ \A j \in ListedJobs : Resolves(j)
Analyze ==
    /\ issueDiff = Unset /\ CanAnalyze
    /\ LET scopes == Scopes
           before == Told(BaselineIssues[baseline], scopes)
           now == Told(Assess(current, scopes), scopes)
       IN  issueDiff' = IF NothingListed THEN [new |-> {}, fixed |-> {}, remaining |-> {}]
           ELSE [new |-> now \ before, fixed |-> before \ now, remaining |-> before \cap now]
    /\ UNCHANGED <<baseline, current, staged, edits>>

\* An analyze that is refused says nothing, one of the same workspace the same again.
AnalyzeInVain ==
    /\ issueDiff # Unset \/ ~CanAnalyze
    /\ UNCHANGED diffVars

DiffInit ==
    /\ baseline \in Baselines /\ current = baseline
    /\ staged = {} /\ edits = 0 /\ issueDiff = Unset
DiffNext ==
    \/ EditDdl \/ EditModel \/ EditTask \/ EditConfig
    \/ \E from \in TableName, to \in NewNames : RenameTable(from, to)
    \/ Analyze \/ AnalyzeInVain

-----------------------------------------------------------------------------
(* Properties.                                                             *)

\* Every issue of the baseline and of the workspace, the tables called alike.
Before == WithNewNames(Renames, BaselineIssues[baseline])
Now == WithNewNames(Renames, AssessAll(current))

\* Where the diff is known to be blind: temporary tables, which have no place in a scope
\* of tasks, and what no job of the current lineage reads or writes.
Unseen(i) ==
    \/ i.dimension = "code_quality" /\ i.type = "table"
    \/ i.name \notin KnownTables(current)
\* Old names of renamed tables that are still, or again, in use.
LeftOver == (staged \cup {p[1] : p \in Renames}) \cap (AssetTables(current) \cup {f.stem : f \in Tasks(current)})

\* One table has another name and nothing else changed.
OnlyRenamed == edits = 1 /\
    \E from \in DOMAIN baseline.ddl, to \in NewNames : current = WithName(baseline, from, to)

\* The scoped assessment says what assessments of everything would say.  An issue is
\* called new only if the warehouse had it nowhere at the start of the run, fixed only if
\* it has it nowhere now, and remaining only if it has had it all along; and every issue
\* that came or went anywhere in the warehouse is told, however far from the edit, if no
\* old name of a renamed table is left, and but for what the diff cannot see.  A new name
\* alone is news for the rules of names only (scoped_plan.py, change_analysis.py, issue_diff.py).
DiffTellsAll == issueDiff # Unset =>
    LET before == Before
        now == Now
    IN  /\ issueDiff.new \subseteq now \ before
        /\ issueDiff.fixed \subseteq before \ now
        /\ issueDiff.remaining \subseteq before \cap now
        /\ LeftOver = {} =>
               /\ \A i \in (now \ before) \ issueDiff.new : Unseen(i)
               /\ \A i \in (before \ now) \ issueDiff.fixed : Unseen(i)
        /\ OnlyRenamed => \A i \in issueDiff.new \cup issueDiff.fixed : i.dimension = "naming"
=============================================================================
