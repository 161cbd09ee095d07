---------------------------- MODULE MCRefactorRun -----------------------------
(* Three parts that share nothing.  Commands of one refactor run: three          *)
(* processes, two contents of the workspace, and a table that inherits a         *)
(* declaration in the second of them.  Extractions of lineage with a cache:      *)
(* three task files, whose workspace changes a few times, also while it is read, *)
(* and whose workers fail.  Issues: a warehouse that is edited and assessed.     *)
EXTENDS RefactorRun, TaskCache, MCIssues

CONSTANTS
    equivalent, changed,
    Parts,      \* which parts to check: "commands", "cache", "issues"
    Edits,      \* how often the workspace of the extractions changes
    Failures    \* how many workers fail

VARIABLES part, left

MCHistory == [v \in Version |-> [t \in Table |-> IF v = 2 THEN changed ELSE None]]
Commands == Permutations(Cmd)

Statement(do, about, from, columns, star) ==
    [do |-> do, about |-> about, from |-> from, columns |-> columns, star |-> star, loose |-> FALSE]
DropTable(t) == Statement("drop", t, {}, {}, FALSE)
CreateAs(t, u) == Statement("create", t, {u}, {}, TRUE)
Insert(t, u) == Statement("write", t, {u}, {}, TRUE)
Text(statements) == [parses |-> TRUE, statements |-> statements]
MCScript ==
    "p of t" :> Text(<<DropTable("p"), CreateAs("p", "t"), Insert("f", "p")>>)
    @@ "p of x" :> Text(<<DropTable("p"), Statement("create", "p", {}, {"x"}, FALSE)>>)
    @@ "p of y and x" :> Text(<<DropTable("p"), Statement("create", "p", {}, {"y"}, FALSE),
                               Statement("alter", "p", {}, {"x"}, FALSE)>>)
    @@ "temporary p" :> Text(<<DropTable("p"), Statement("create temporary", "p", {"t"}, {}, TRUE)>>)
    @@ "garbled p" :> [parses |-> FALSE, statements |-> <<DropTable("p"), CreateAs("p", "t")>>]
    @@ "p kept" :> Text(<<CreateAs("p", "t"), Insert("f", "p")>>)
    @@ "q of p" :> Text(<<DropTable("q"), CreateAs("q", "p")>>)
    @@ "f of p" :> Text(<<Insert("f", "p")>>)
    @@ "f of q" :> Text(<<[Statement("write", "f", {"q"}, {"x"}, FALSE) EXCEPT !.loose = TRUE]>>)
World(t, p, first, second, third, version) ==
    [ddl |-> "t" :> t @@ "p" :> p @@ "q" :> {} @@ "f" :> {"x"},
     sql |-> <<first, second, third>>, version |-> version]
xy == {"x", "y"}
FirstWorld == World(xy, {}, "p of t", "q of p", "f of q", 1)
\* Columns and tables that go, a DDL for a process table, tasks that change, are gone,
\* do not parse, or make the same table; and a new version of the extractor.
TidyWorlds == {
    FirstWorld, World({"x"}, {}, "p of t", "q of p", "f of q", 1),
    World({}, {}, "p of t", "q of p", "f of q", 1), World(xy, {"x"}, "p of t", "q of p", "f of q", 1),
    World(xy, {}, "p of x", "q of p", "f of q", 1), World(xy, {}, "temporary p", "q of p", "f of q", 1),
    World(xy, {}, "garbled p", "q of p", "f of q", 1), World(xy, {}, "p of t", "p of y and x", "f of p", 1),
    World({"x"}, {}, "p of t", "q of p", Absent, 2)}
UntidyWorlds == {
    World(xy, {}, "p kept", "q of p", "f of q", 1), World({}, {}, "p kept", "q of p", "f of q", 1)}
ASSUME WorldsAreWhatTheyAreCalled ==
    /\ \A v, w \in TidyWorlds : Orderly(w.sql) /\ Tidy(v.ddl, w.sql)
    /\ \A w \in UntidyWorlds : Orderly(w.sql) /\ ~Tidy(w.ddl, w.sql)
MCWorlds == TidyWorlds
MCUntidy == TidyWorlds \cup UntidyWorlds

MCInit ==
    /\ part \in Parts
    /\ Init /\ CacheInit /\ world = FirstWorld
    /\ left = [edits |-> Edits, failures |-> Failures]
    /\ part # "commands" => ws = CHOOSE v \in Version : TRUE
    /\ \/ part = "issues" /\ DiffInit
       \/ part # "issues" /\ baseline = Unset /\ current = Unset
          /\ staged = {} /\ edits = 0 /\ issueDiff = Unset

\* An edit while an extraction computes is as good as one after it.
CacheStep ==
    /\ part = "cache"
    /\ \/ /\ \/ \E cached, force \in BOOLEAN : ReadSchema(cached, cached /\ force)
             \/ ReadTaskFiles \/ OpenLineage \/ WriteLineage \/ WriteCache
             \/ DieRefreshing \/ (cacheFile = Torn /\ RemoveCache)
          /\ UNCHANGED left
       \/ \E broken \in {b \in SUBSET File : Cardinality(b) <= left.failures} :
              /\ ExtractTasks(broken) \/ Propagate(broken)
              /\ left' = [left EXCEPT !.failures = @ - Cardinality(broken)]
       \/ /\ left.edits > 0 /\ refresh.step \in {"idle", "tasks"}
          /\ \E w \in Worlds : EditWorld(w)
          /\ left' = [left EXCEPT !.edits = @ - 1]
    /\ UNCHANGED <<part, vars, diffVars>>
CommandStep ==
    /\ part = "commands" /\ Next
    /\ UNCHANGED <<part, left, cacheVars, diffVars>>
IssueStep ==
    /\ part = "issues" /\ DiffNext
    /\ UNCHANGED <<part, left, vars, cacheVars>>

MCNext == CommandStep \/ CacheStep \/ IssueStep
MCSpec == MCInit /\ [][MCNext]_<<part, left, vars, cacheVars, diffVars>>
=============================================================================
