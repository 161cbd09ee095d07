---------------------------- MODULE MCDagExecutor -----------------------------
(* Parts that share nothing.  Executions of every graph over four jobs with at *)
(* most four dependencies: chains, diamonds, self-loops and cycles, in every   *)
(* order against the rank.  Commands with dates, for every kind of job.  Three *)
(* tasks out of a library of scripts, with the lineage of their tables.  Two   *)
(* imports of lineage files, of which one tells three tables of two names apart, *)
(* one names tables in other words than an extractor, and two are refused.     *)
EXTENDS DagExecutor, Planner, AssetLineage, LineageStore

CONSTANTS j1, j2, j3, j4, i1, i2,
    Parts       \* which parts to check: "graphs", "dates", "lineage", "store"

VARIABLE part

MCRank == [j \in Job |-> CASE j = j1 -> 1 [] j = j2 -> 2 [] j = j3 -> 3 [] OTHER -> 4]

Edges(g) == {<<u, d>> \in Job \X Job : u \in g[d]}
MCGraphs == {g \in [Job -> SUBSET Job] : Cardinality(Edges(g)) <= 4}

\* Three months of 10, 7 and 10 days, whose weeks begin on the days 3, 10, 17 and 24.
MCMonths == <<0, 10, 17, 27>>
Conf(materialized, strategy, slice, default, window) ==
    [materialized |-> materialized, strategy |-> strategy, slice |-> slice, default |-> default,
     window |-> window, column |-> TRUE, companion |-> TRUE, history |-> TRUE]
Sound == {Conf("incremental", s, p, d, w) :
              s \in {"unset", "companion", "legacy_full_refresh"}, p \in {"unset", "D", "W", "M"},
              d \in {"unset", "D"}, w \in {"unset", "set"}}
         \cup {Conf("full", s, "unset", d, "set") : s \in {"unset", "replace_all"}, d \in {"unset", "D"}}
Daily == Conf("unset", "companion", "D", "unset", "set")
Plain == Conf("incremental", "companion", "D", "unset", "set")
Unsound == {[Daily EXCEPT !.materialized = "bad"], [Daily EXCEPT !.materialized = "full"],
            [Daily EXCEPT !.strategy = "replace_all"], [Daily EXCEPT !.strategy = "bad"],
            [Daily EXCEPT !.slice = "bad"], [Daily EXCEPT !.window = "bad"],
            [Daily EXCEPT !.column = FALSE], [Daily EXCEPT !.companion = FALSE]}
Kept == Sound \cup Unsound
MCJobs == Kept \cup {[j EXCEPT !.history = FALSE] : j \in Kept}
          \cup {Conf("incremental", "unset", "H", "D", "unset")}

Given(kind, s, skip) ==
    [kind |-> kind, dates |-> s, back |-> None, end |-> None, skip |-> skip]
LookBack(kind, back, end) ==
    [kind |-> kind, dates |-> <<>>, back |-> back, end |-> end, skip |-> FALSE]
MCCommands ==
    {Given("regular", s, skip) : s \in {<<>>, <<10>>, <<16, 9, 10, 9>>}, skip \in BOOLEAN}
    \cup {Given("refresh", s, FALSE) : s \in {<<10>>, <<9, 11, 10>>, <<9, 11>>}}
    \cup {Given("refresh", <<10>>, TRUE), [Given("regular", <<10>>, FALSE) EXCEPT !.back = 1],
          [Given("regular", <<10>>, FALSE) EXCEPT !.end = 9]}
    \cup {LookBack(kind, back, end) : kind \in {"regular", "refresh"}, back \in {0, 1}, end \in {None, 20}}
    \cup {[kind |-> "shadow", from |-> f, to |-> t] :
              f \in {<<9, 1>>, <<10, 0>>}, t \in {<<11, 0>>, <<11, 1>>, <<18, 0>>}}
\* A regular run gives jobs by the hour no hours.
Asks(c, j) == j.slice = "H" => c.kind = "shadow"

Stmt(do, about, from, where) == [do |-> do, about |-> about, from |-> from, where |-> where]
Nil == [c \in Column |-> {}]
Same(t) == [c \in Column |-> {<<t, c>>}]
Crossed(t) == [c \in Column |-> IF c = "x" THEN {<<t, "y">>} ELSE {<<t, "x">>, <<t, "y">>}]
Gone(t) == Stmt("drop", t, Nil, {})
New(t, u) == Stmt("create", t, Same(u), {})
Temp(t, u) == Stmt("create temporary", t, Crossed(u), {})
Put(t, u) == Stmt("insert", t, Same(u), {})
Library ==
    <<<<Gone("p"), New("p", "a")>>,
      <<Gone("p"), New("p", "a"), Put("b", "p")>>,
      <<Put("b", "p")>>,
      <<Stmt("insert", "b", Crossed("p"), {<<"q", "x">>})>>,
      <<Gone("q"), New("q", "p")>>,
      <<Gone("q"), New("q", "b"), Put("c", "q")>>,
      <<Put("c", "q")>>,
      <<Temp("p", "a"), Put("b", "p")>>,
      <<New("p", "c"), Put("b", "p"), Gone("p")>>,
      <<Stmt("insert", "c", Same("a"), {<<"a", "y">>, <<"p", "y">>})>>,
      <<Put("p", "c")>>,
      <<Put("b", "p"), Gone("p"), New("p", "a")>>,
      <<Temp("p", "a"), New("q", "p"), Put("b", "q")>>,
      <<New("p", "a"), Put("p", "b"), Put("a", "c")>>,
      <<New("p", "a"), Gone("p"), New("p", "b"), Put("c", "p")>>>>
\* The tasks are jobs of the graphs, too; one of them is left out.
MCTasks == Job \ {j4}
MCScripts ==
    {[t \in Task |-> Library[IF t = j1 THEN n[1] ELSE IF t = j2 THEN n[2] ELSE n[3]]] :
        n \in {n \in (1..Len(Library)) \X (1..Len(Library)) \X (1..Len(Library)) :
                n[1] <= n[2] /\ n[2] <= n[3]}}

ColumnEnd(t, c) == [type |-> "column", table |-> t, column |-> c]
TableEnd(t) == [type |-> "table", table |-> t]
Literal == [type |-> "literal"]
Edge(from, to, relation) == [source |-> from, target |-> to, relation |-> relation, job |-> "j"]
Reads(in, out) == "j" :> [io \in {"INPUT", "OUTPUT"} |-> IF io = "INPUT" THEN in ELSE out]
SA == <<"internal", "shop", "a">>
CB == <<"internal", "crm", "b">>
HB == <<"hive", "crm", "b">>
MCLineageGraphs == {
    [tables |-> {SA, CB, HB}, columns |-> [t \in {SA, CB, HB} |-> {"x"}], jobs |-> Reads({CB, HB}, {SA}),
     edges |-> {Edge(ColumnEnd(CB, "x"), ColumnEnd(SA, "x"), "DIRECT"), Edge(Literal, ColumnEnd(SA, "x"), "DIRECT"),
                Edge(ColumnEnd(HB, "x"), TableEnd(SA), "FILTER")}]}
Entry(name, full) == [name |-> name, full |-> full, columns |-> {"x"}]
A == Entry(<<"a">>, SA)
B == Entry(<<"internal", "shop", "b">>, <<"shop", "b">>)
MCEditedFiles == {
    [tables |-> {A, B}, jobs |-> Reads({<<"shop", "a">>}, {<<"internal", "shop", "b">>}),
     edges |-> {Edge(ColumnEnd(SA, "x"), ColumnEnd(<<"b">>, "x"), "DIRECT")}],
    [tables |-> {A}, jobs |-> Reads({<<"crm", "a">>}, {}), edges |-> {}],
    [tables |-> {A}, jobs |-> Reads({}, {}), edges |-> {Edge(ColumnEnd(<<"a">>, "x"), TableEnd(<<"a">>), "DIRECT")}]}

\* Imports are alike: the first one begins first.
InOrderOfName == import'[i2] # NotBegun => import'[i1] # NotBegun

MCInit ==
    /\ part \in Parts
    /\ IF part = "lineage" THEN TRUE ELSE script = [t \in Task |-> Library[3]]
    /\ IF part = "dates" THEN TRUE
       ELSE job = Plain /\ began = (CHOOSE d \in Days : TRUE) /\ command = Given("regular", <<>>, FALSE)
    /\ IF part = "graphs" THEN TRUE ELSE upstream = [j \in Job |-> {}]
    /\ IF part = "store" THEN TRUE ELSE layer = FALSE
    /\ Init /\ PlannerInit /\ LineageInit /\ StoreInit
    /\ Asks(command, job)

MCNext ==
    \/ part = "graphs" /\ Next /\ UNCHANGED <<part, plannerVars, lineageVars, storeVars>>
    \/ part = "dates" /\ PlannerNext /\ UNCHANGED <<part, vars, lineageVars, storeVars>>
    \/ part = "lineage" /\ LineageNext /\ UNCHANGED <<part, vars, plannerVars, storeVars>>
    \/ part = "store" /\ StoreNext /\ InOrderOfName /\ UNCHANGED <<part, vars, plannerVars, lineageVars>>
MCSpec ==
    /\ MCInit /\ [][MCNext]_<<part, vars, plannerVars, lineageVars, storeVars>>
    /\ WF_vars(Coordinate) /\ \A j \in Job : WF_vars(Work(j))
=============================================================================
