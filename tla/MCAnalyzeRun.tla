----------------------------- MODULE MCAnalyzeRun -----------------------------
(* Two parts that share nothing: analyses of a small warehouse, and changes *)
(* of small catalogs.  Table 2 has no slices, 1 is daily, 3 weekly, 4 "monthly"; *)
(* the job 5 writes table 3 as well.                                        *)
EXTENDS Verdict, SchemaChanges, TLC

CONSTANTS
    Parts,      \* which parts to check: "analyze", "schema"
    Scenes      \* budgets: how many edits, reschedules, declarations, restarts

VARIABLES part, left

File(d, t, m) == [ddl |-> d, task |-> t, model |-> m]
First == 1 :> File("d1", "t1", "m1") @@ 2 :> File("d2", "t2", "m2")
         @@ 3 :> File("d3", "t3", "m3") @@ 4 :> File("d4", "t4", "m4")
\* A reformatted task, another one, one that closes a circle; a model; tasks that
\* read other tables; a DDL with another table_id.
MCAsset ==
    1 :> {First[1], File("d1", "t1 fmt", "m1"), File("d1", "t1 other", "m1"),
          File("d1", "t1 of 4", "m1")}
    @@ 2 :> {First[2], File("d2", "t2", "m2 other")}
    @@ 3 :> {First[3], File("d3", "t3 of 2", "m3"), File("d3 new id", "t3", "m3")}
    @@ 4 :> {First[4], File("d4", "t4 of 2 3", "m4")}
Texts == UNION {{a.ddl, a.task, a.model} : a \in UNION {MCAsset[t] : t \in 1..4}}
MCForm == [x \in Texts |-> IF x = "t1 fmt" THEN "t1" ELSE x]
MCIdentity == [x \in Texts |-> x]
MCReads == [x \in Texts |->
    CASE x \in {"t2", "t3"} -> {1}
      [] x = "t3 of 2" -> {2}
      [] x = "t4" -> {3}
      [] x = "t4 of 2 3" -> {2, 3}
      [] x = "t1 of 4" -> {4}
      [] OTHER -> {}]

MCWrites == [j \in 1..5 |-> IF j = 5 THEN 3 ELSE j]
MCNamesake == [t \in 1..4 |-> t]
MCSlices == 1 :> {{1}, {2}, {3}, {4}} @@ 2 :> {} @@ 3 :> {{1, 2}, {3, 4}}
            @@ 4 :> {{1, 2, 3}, {4}}
Usual == 1 :> {} @@ 2 :> {1} @@ 3 :> {1, 2} @@ 4 :> {3, 5} @@ 5 :> {3}
MCSchedule == {Usual, [Usual EXCEPT ![5] = {1}, ![3] = {5}], [Usual EXCEPT ![3] = {1}, ![4] = {3}]}

Scene(edits, reschedules, declares, restarts) ==
    [edits |-> edits, reschedules |-> reschedules, declares |-> declares, restarts |-> restarts]
Spend(what) == left[what] > 0 /\ left' = [left EXCEPT ![what] = @ - 1]
MCScenes == {Scene(3, 0, 1, 0), Scene(2, 1, 0, 0), Scene(2, 0, 1, 1), Scene(1, 0, 2, 1)}

Init ==
    /\ part \in Parts
    /\ left \in IF part = "analyze" THEN Scenes ELSE {Scene(0, 0, 0, 0)}
    /\ AnalyzeInit /\ assets = First
    /\ left.reschedules > 0 \/ trusted = Usual
    /\ IF part = "schema" THEN SchemaInit /\ Cardinality(needed) <= 1 /\ trusted = Usual
       ELSE /\ old = <<>> /\ new = <<>> /\ targets = {} /\ anchors = {} /\ needed = {} /\ qa = <<>>
            /\ statements = <<>> /\ outcome = "applied"

AnalyzeStep ==
    /\ part = "analyze"
    /\ \/ Spend("edits") /\ \E t \in Table : \E a \in Asset[t] : EditAsset(t, a)
       \/ Spend("reschedules") /\ \E s \in Schedule : EditSchedule(s)
       \/ Spend("declares") /\ \E t \in Table, mode \in Mode : SetMode(t, mode)
       \/ Spend("restarts") /\ \E committed \in BOOLEAN : Restart(committed)
       \/ UNCHANGED left /\ (ResolveAndWalk \/ PlanStep \/ WritePlan)
       \/ UNCHANGED left /\ \E p \in Time \cup {None} :
              (p \in {None, 1} \/ left.reschedules > 0) /\ BuildPlan(p)
    /\ UNCHANGED <<part, schemaVars>>
SchemaStep ==
    /\ part = "schema" /\ SchemaNext
    /\ UNCHANGED <<part, left, analyzeVars>>

Next == AnalyzeStep \/ SchemaStep
Spec == Init /\ [][Next]_<<part, left, analyzeVars, schemaVars>>
=============================================================================
