--------------------------- MODULE VerificationPlan ---------------------------
(***************************************************************************)
(* From the tables to compare to the jobs to run, their order and the      *)
(* slices of each (build_verification_plan, refactor/verification_plan.py).*)
(*                                                                         *)
(* Time is a set of instants; a slice, and a window, is a set of them.     *)
(* Slices[t] are the slices of a table's period, none without one.  A      *)
(* period cuts a window into the slices that meet it (D, W, M and H alike, *)
(* weeks crossing the ends of months).                                     *)
(***************************************************************************)
EXTENDS JobGraph, Tables

CONSTANTS
    Writes,     \* Writes[j]: the managed table that the job j writes
    Namesake,   \* Namesake[t]: the job that has the name of t, or None
    Time,       \* instants
    Slices      \* Slices[t]

ASSUME PlanAssumption ==
    /\ Writes \in [Job -> Table]
    /\ Namesake \in [Table -> Job \cup {None}]
    /\ Slices \in [Table -> SUBSET SUBSET Time]

\* What a plan is built from: the changed tasks and DDL, the tables the semantic
\* walk selected and those it will compare, lineage (the tables each table is
\* made from) and trusted schedule (each job's upstreams), now and at the start
\* of the run, and the value of --partition.
Request == [changedJobs : SUBSET Job, changedTables : SUBSET Table,
            tables : SUBSET Table, anchors : SUBSET Table,
            lineage : [Table -> SUBSET Table], lineageAtStart : [Table -> SUBSET Table],
            schedule : [Job -> SUBSET Job], scheduleAtStart : [Job -> SUBSET Job],
            partition : Time \cup {None}]

VARIABLES
    stage,      \* "idle", "select", "slice", "done", "raised"
    request,
    jobs,       \* jobs_to_run
    deps,       \* execution_graph: deps[j], the selected upstreams of a selected job
    capped,     \* result_cap: the verdict will be inconclusive at best
    queue,      \* <<table, window>> pairs to be cut into slices
    visited,    \* and those that have been
    assigned    \* assigned[t]: execution_values of the jobs that write t

planVars == <<stage, request, jobs, deps, capped, queue, visited, assigned>>

Entry == Table \X SUBSET Time
PlanTypeOK ==
    /\ stage \in {"idle", "select", "slice", "done", "raised"}
    /\ stage # "idle" => request \in Request
    /\ jobs \subseteq Job /\ deps \in [Job -> SUBSET Job] /\ capped \in BOOLEAN
    /\ queue \subseteq Entry /\ visited \subseteq Entry
    /\ assigned \in [Table -> SUBSET SUBSET Time]

-----------------------------------------------------------------------------
(* The jobs *)

Producers(T) == {j \in Job : Writes[j] \in T}
\* _explicit_job_entries: by the name of a job before that of a dataset.
Entries(T) == {j \in Job : \E t \in T : j = Namesake[t] \/ (Namesake[t] = None /\ Writes[j] = t)}
\* Ends of schedule edges that have come or gone since the run started.
RescheduledJobs(r) ==
    {j \in Job : r.schedule[j] # r.scheduleAtStart[j]}
    \cup {j \in Job : \E k \in Job : (j \in r.schedule[k]) # (j \in r.scheduleAtStart[k])}

Initial(r) == Entries(r.tables \cup r.anchors) \cup r.changedJobs
DirectJobs(r) == r.changedJobs \cup Producers(r.changedTables) \cup RescheduledJobs(r)
FinalWriters(r) == Producers(r.anchors)
Below(r, S) == {j \in Job : \E a \in S : Reaches(r.schedule, a, j)}
Above(r, S) == {j \in Job : \E b \in S : Reaches(r.schedule, j, b)}
\* Fault: jobs between two selected ones are left out.
SelectedEnds(r) == Initial(r) \cup DirectJobs(r) \cup FinalWriters(r)
Selected(r) ==
    Initial(r) \cup DirectJobs(r) \cup FinalWriters(r)
    \cup (Below(r, DirectJobs(r)) \cap Above(r, FinalWriters(r)))

\* A selected consumer of a dependency that lineage did not have at the start and
\* the schedule does not order: NEW_LINEAGE_DEPENDENCY_NOT_SCHEDULED.
Consumes(lineage, u, d) == Writes[u] # Writes[d] /\ Writes[u] \in lineage[Writes[d]]
Unscheduled(r) == \E u \in Job, d \in Selected(r) :
    /\ Consumes(r.lineage, u, d) /\ ~Consumes(r.lineageAtStart, u, d)
    /\ ~Reaches(r.schedule, u, d)

-----------------------------------------------------------------------------
(* The slices *)

Cut(t, window) == {s \in Slices[t] : s \cap window # {}}
Sliced(t) == Slices[t] # {}
IsRun(t) == \E j \in jobs : Writes[j] = t

\* _build_compare_scopes: the slice of each sliced anchor that the value is in.
AnchorWindows(r) ==
    IF r.partition = None THEN {}
    ELSE {e \in r.anchors \X SUBSET Time : e[2] \in Cut(e[1], {r.partition})}
\* _partition_required_jobs
NeedsPartition(r) == r.partition = None /\ \E j \in Selected(r) : Sliced(Writes[j])

\* Fault: the window goes on as it came, not as the slices that t runs for it.
OnwardUncut(t, window) == request.lineage[t] \X {window}
\* What is queued for the tables t is made from.
Onward(t, window) ==
    request.lineage[t] \X (IF Sliced(t) THEN Cut(t, window) ELSE {window})

-----------------------------------------------------------------------------
Unassigned == [t \in Table |-> {}]

PlanInit ==
    /\ stage = "idle"
    /\ request = None
    /\ jobs = {} /\ deps = [j \in Job |-> {}] /\ capped = FALSE
    /\ queue = {} /\ visited = {} /\ assigned = Unassigned

Take(r) ==
    /\ stage = "idle"
    /\ stage' = "select"
    /\ request' = r
    /\ UNCHANGED <<jobs, deps, capped, queue, visited, assigned>>

SelectJobs ==
    /\ stage = "select" /\ ~NeedsPartition(request)
    /\ stage' = "slice"
    /\ jobs' = Selected(request)
    /\ deps' = [j \in Job |->
           IF j \in Selected(request) THEN request.schedule[j] \cap Selected(request) ELSE {}]
    /\ capped' = Unscheduled(request)
    /\ queue' = AnchorWindows(request)
    /\ UNCHANGED <<request, visited, assigned>>

\* "refactor analyze requires --partition"
Raise ==
    /\ stage = "select" /\ NeedsPartition(request)
    /\ stage' = "raised"
    /\ UNCHANGED <<request, jobs, deps, capped, queue, visited, assigned>>

Pop ==
    /\ stage = "slice" /\ queue # {}
    /\ LET e == CHOOSE q \in queue : TRUE
           t == e[1]
       IN  /\ visited' = visited \cup {e}
           /\ assigned' = IF IsRun(t) /\ Sliced(t)
                          THEN [assigned EXCEPT ![t] = @ \cup Cut(t, e[2])] ELSE assigned
           /\ queue' = (queue \cup Onward(t, e[2])) \ visited'
    /\ UNCHANGED <<stage, request, jobs, deps, capped>>

Finish ==
    /\ stage = "slice" /\ queue = {}
    /\ stage' = "done"
    /\ UNCHANGED <<request, jobs, deps, capped, queue, visited, assigned>>

\* The plan has been written, or the command has ended without one.
Leave ==
    /\ stage \in {"done", "raised"}
    /\ stage' = "idle"
    /\ request' = None
    /\ jobs' = {} /\ deps' = [j \in Job |-> {}] /\ capped' = FALSE
    /\ queue' = {} /\ visited' = {} /\ assigned' = Unassigned

PlanNext ==
    \/ \E r \in Request : Take(r)
    \/ SelectJobs \/ Raise \/ Pop \/ Finish \/ Leave

PlanSpec == PlanInit /\ [][PlanNext]_planVars

-----------------------------------------------------------------------------
(* Properties *)

HasPlan == stage \in {"slice", "done"}

\* Shadow-run waits between two jobs only where the plan has an edge.  When the
\* schedule puts a job after a changed one, directly or through jobs nobody
\* changed, and something compared is at or after it, the plan orders the two.
TrustedOrderKept ==
    HasPlan => \A a \in DirectJobs(request) :
        \A b \in Below(request, {a}) \cap Above(request, FinalWriters(request)) :
            Reaches(deps, a, b)

\* Tables t reads, through tables without slices of their own.
Through(t) == {u \in Table : \A S \in SUBSET Table :
    /\ request.lineage[t] \subseteq S
    /\ \A k \in S : ~Sliced(k) => request.lineage[k] \subseteq S
    => u \in S}

\* What is compared has been computed from what was computed: the compared slice
\* of every anchor is run, and for every slice that is run, so is every slice of
\* a selected job upstream that meets it, whatever the periods.
WindowsClosed ==
    stage = "done" =>
        /\ \A e \in AnchorWindows(request) : IsRun(e[1]) => e[2] \in assigned[e[1]]
        /\ \A t \in Table : \A s \in assigned[t] : \A u \in Through(t) :
               IsRun(u) => Cut(u, s) \subseteq assigned[u]
=============================================================================
