------------------------------ MODULE AnalyzeRun ------------------------------
(***************************************************************************)
(* refactor analyze, and semantic-mode set after it (refactor/run.py): the *)
(* tables are resolved and walked (SemanticModes), and a plan is built from*)
(* the walk, the lineage and the trusted schedule (VerificationPlan), which*)
(* may refuse.  Both halves are deterministic and run one after the other; *)
(* people edit assets and schedule, declare modes and start runs between   *)
(* two plans.                                                              *)
(***************************************************************************)
EXTENDS SemanticModes, VerificationPlan

CONSTANT Schedule       \* trusted schedules the project may have

ASSUME AnalyzeAssumption ==
    /\ \A t \in Table : \A a \in Asset[t] : Reads[a.task] \subseteq Table
    /\ Schedule \subseteq [Job -> SUBSET Job]

VARIABLES
    trusted,        \* the schedule file of the project
    trustedAtStart  \* artifacts/baseline_schedule of the run

schedules == <<trusted, trustedAtStart>>
analyzeVars == <<modesVars, planVars, schedules>>

AnalyzeInit ==
    /\ ModesInit
    /\ PlanInit
    /\ trusted \in Schedule
    /\ trustedAtStart = trusted

\* Tables whose file of a kind differs from the baseline's.
Touched(kind) == {t \in Table : assets[t][kind] # base[t][kind]}

\* _build_plan_for_run: what build_verification_plan is called with.
RequestFor(partition) ==
    [changedJobs |-> {Namesake[t] : t \in Touched("task")} \ {None},
     changedTables |-> Touched("ddl"),
     tables |-> selected, anchors |-> authority \cup observational,
     lineage |-> CurrentUp, lineageAtStart |-> BaseUp,
     schedule |-> trusted, scheduleAtStart |-> trustedAtStart,
     partition |-> partition]

-----------------------------------------------------------------------------
Outside == UNCHANGED <<planVars, schedules>>

EditAsset(t, a) == Edit(t, a) /\ Outside
EditSchedule(s) ==
    /\ Outdate
    /\ s # trusted /\ trusted' = s
    /\ UNCHANGED <<trustedAtStart, planVars>>
Restart(committed) ==
    /\ StartRun(committed)
    /\ trustedAtStart' = IF committed THEN trusted ELSE trustedAtStart
    /\ UNCHANGED <<trusted, planVars>>
SetMode(t, mode) == Declare(t, mode) /\ Outside

ResolveAndWalk ==
    /\ Analyze \/ Resolve \/ Cycle \/ StartWalk \/ Visit \/ WalkEnds
    /\ Outside

BuildPlan(partition) ==
    /\ phase = "bounded" /\ Take(RequestFor(partition))
    /\ UNCHANGED <<modesVars, schedules>>
PlanStep ==
    /\ SelectJobs \/ Raise \/ Pop \/ Finish
    /\ UNCHANGED <<modesVars, schedules>>
WritePlan ==
    \/ stage = "done" /\ Planned /\ Leave /\ UNCHANGED schedules
    \/ stage = "raised" /\ NotPlanned /\ Leave /\ UNCHANGED schedules

AnalyzeNext ==
    \/ \E t \in Table : \E a \in Asset[t] : EditAsset(t, a)
    \/ \E s \in Schedule : EditSchedule(s)
    \/ \E committed \in BOOLEAN : Restart(committed)
    \/ \E t \in Table, mode \in Mode : SetMode(t, mode)
    \/ \E partition \in Time \cup {None} : BuildPlan(partition)
    \/ ResolveAndWalk \/ PlanStep \/ WritePlan

AnalyzeSpec == AnalyzeInit /\ [][AnalyzeNext]_analyzeVars
=============================================================================
