------------------------------- MODULE MCTaskRun ------------------------------
(* Two parts that share nothing: two runs over a diamond of four jobs, where the *)
(* last reads process tables of the first; and two commands on a schedule file   *)
(* of three jobs, among people who make a few changes.                           *)
EXTENDS TaskRun, ScheduleFile, TLC

CONSTANTS
    p1, p2, c1, c2,
    Parts,      \* which parts to check: "runs", "file"
    Changes     \* how often people touch the schedule, the tasks or lineage

VARIABLES part, left

Alike == Permutations({p1, p2}) \cup Permutations({c1, c2})

MCUpstream == 1 :> {} @@ 2 :> {1} @@ 3 :> {1} @@ 4 :> {2, 3}
MCProducers == [j \in Job |-> IF j = 4 THEN {1} ELSE {}]
MCJobLists == {Job, {2, 3}, {1, 2}, {1, 4}, {2, 4}}

Snapshot(jobs, reads, writes, temporary) ==
    [jobs |-> jobs, temporary |-> temporary, unresolved |-> FALSE,
     reads |-> [j \in Job |-> IF j \in DOMAIN reads THEN reads[j] ELSE {}],
     writes |-> [j \in Job |-> IF j \in DOMAIN writes THEN writes[j] ELSE {}]]
\* A chain whose last job reads the first one's table as well; two writers of one
\* dataset, one of them alone in writing another; a circle; the chain backwards;
\* a task that is gone; a temporary table that crosses jobs.
MCFacts == {
    Snapshot({1, 2, 3}, 2 :> {"a"} @@ 3 :> {"a", "b"}, 1 :> {"a"} @@ 2 :> {"b"}, {}),
    Snapshot({1, 2, 3}, 2 :> {"c"} @@ 3 :> {"a", "b"}, 1 :> {"a", "c"} @@ 2 :> {"a", "b"}, {}),
    Snapshot({1, 2, 3}, 1 :> {"b"} @@ 2 :> {"a"}, 1 :> {"a"} @@ 2 :> {"b"}, {}),
    Snapshot({1, 2, 3}, 1 :> {"b"} @@ 2 :> {"a"}, 3 :> {"a"} @@ 2 :> {"b"}, {}),
    Snapshot({1, 2}, 2 :> {"a"}, 1 :> {"a"}, {}),
    Snapshot({1, 2, 3}, 2 :> {"a"}, 1 :> {"a"}, {"a"})}
Deps3(jobs, up) ==
    [jobs |-> jobs, up |-> [j \in Job |-> IF j \in DOMAIN up THEN up[j] ELSE {}]]
MCWritten == {Deps3({1, 2, 3}, 3 :> {1}), Deps3({1, 2, 3}, 1 :> {3}),
              Deps3({1, 2}, 2 :> {1}), Deps3({1, 2, 3}, 2 :> {1} @@ 3 :> {2})}

MCInit ==
    /\ part \in Parts
    /\ Init /\ ScheduleInit
    /\ IF part = "runs" THEN left = 0 /\ file = NoFile /\ facts = CHOOSE f \in Facts : TRUE
       ELSE left = Changes /\ chosen = [p \in Proc |-> Job]

ScheduleStep ==
    /\ part = "file"
    /\ \/ UNCHANGED left /\ \E c \in Cmd : CommandStep(c)
       \/ /\ left > 0 /\ left' = left - 1
          /\ \/ \E g \in Written : EditFile(g)
             \/ \E f \in Facts : Refresh(f) \/ EditTasks(f.jobs)
    /\ UNCHANGED <<part, vars>>
RunStep ==
    /\ part = "runs" /\ Next
    /\ UNCHANGED <<part, left, scheduleVars>>

MCNext == RunStep \/ ScheduleStep
MCSpec == MCInit /\ [][MCNext]_<<part, left, vars, scheduleVars>>
=============================================================================
