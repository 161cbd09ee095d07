----------------------------- MODULE DagExecutor ------------------------------
(***************************************************************************)
(* execute_dag of execution/dag_executor.py: one coordinator that scans    *)
(* the remaining jobs, submits ready ones to a thread pool and waits for   *)
(* the first of them to complete, and the pool's workers.  task_run.py     *)
(* runs the jobs of one date through it, shadow_run.py those of a plan.    *)
(***************************************************************************)
EXTENDS JobGraph, Naturals, FiniteSets

CONSTANTS
    Graphs,     \* the dependency graphs callers may pass, [Job -> SUBSET Job]
    Rank,       \* sort_key: the position of each job, all different
    Parallel    \* how many jobs may be submitted and not yet collected

ASSUME GraphAssumption == Graphs \subseteq [Job -> SUBSET Job]
ASSUME RankAssumption ==
    /\ Rank \in [Job -> Nat]
    /\ \A j, k \in Job : Rank[j] = Rank[k] => j = k
ASSUME ParallelAssumption == Parallel \in Nat \ {0}    \* else ValueError
ASSUME JobAssumption == IsFiniteSet(Job) /\ Job # {}

VARIABLES
    upstream,   \* upstreams: the graph of this call
    remaining,  \* jobs not yet submitted or blocked
    running,    \* jobs whose future has not been collected
    outcome,    \* how the worker of a job has ended, or "none"
    results,    \* the result of each job, or "none"
    step,       \* where the coordinator is
    scan,       \* jobs the current pass has yet to look at
    progressed  \* the current pass has blocked or submitted a job

vars == <<upstream, remaining, running, outcome, results, step, scan, progressed>>

TypeOK ==
    /\ upstream \in [Job -> SUBSET Job]
    /\ remaining \subseteq Job
    /\ running \subseteq Job
    /\ outcome \in [Job -> Outcome \cup {"none"}]
    /\ results \in [Job -> Terminal \cup {"none"}]
    /\ step \in {"scan", "wait", "returned", "raised", "interrupted"}
    /\ scan \subseteq Job
    /\ progressed \in BOOLEAN

First(S) == {j \in S : \A k \in S : Rank[j] <= Rank[k]}

\* The jobs as the coordinator knows them.
Known == [j \in Job |-> IF results[j] # "none" THEN results[j]
                       ELSE IF j \in running THEN "running" ELSE "waiting"]

Ready == {j \in remaining : Startable(upstream, Known, j)}

\* Jobs a worker is executing: what the database sees.
Executing == {j \in running : outcome[j] = "none"}

Init ==
    /\ upstream \in Graphs
    /\ remaining = Job
    /\ running = {}
    /\ outcome = [j \in Job |-> "none"]
    /\ results = [j \in Job |-> "none"]
    /\ step = "scan"
    /\ scan = Job
    /\ progressed = FALSE

\* while remaining or running: the next pass, or the return.
Loop(left) ==
    /\ step' = IF remaining \cup left = {} THEN "returned" ELSE "scan"
    /\ scan' = remaining
    /\ progressed' = FALSE

-----------------------------------------------------------------------------
\* The pass looks at the remaining jobs in order and blocks those whose
\* upstreams are over and not all successful.
Visit(j) ==
    /\ step = "scan"
    /\ j \in First(scan)
    /\ scan' = scan \ {j}
    /\ LET blocked == IF Blockable(upstream, Known, j) THEN {j} ELSE {}
       IN  /\ remaining' = remaining \ blocked
           /\ results' = [k \in Job |-> IF k \in blocked THEN "blocked" ELSE results[k]]
           /\ progressed' = (progressed \/ blocked # {})
    /\ UNCHANGED <<upstream, running, outcome, step>>

\* Ready jobs go to the pool in order, as long as there is room.
Submit(j) ==
    /\ step = "scan" /\ scan = {}
    /\ Cardinality(running) < Parallel
    /\ j \in First(Ready)
    /\ remaining' = remaining \ {j}
    /\ running' = running \cup {j}
    /\ progressed' = TRUE
    /\ UNCHANGED <<upstream, outcome, results, step, scan>>

Submitted == Ready = {} \/ Cardinality(running) >= Parallel

\* Fault: the pass is repeated without asking whether it has done anything.
SettleForever ==
    /\ step = "scan" /\ scan = {} /\ Submitted
    /\ \/ running # {} /\ step' = "wait" /\ UNCHANGED <<scan, progressed>>
       \/ running = {} /\ Loop({})
    /\ UNCHANGED <<upstream, remaining, running, outcome, results>>

\* The end of a pass: wait for a worker, give up on a cycle, or pass again.
Settle ==
    /\ step = "scan" /\ scan = {} /\ Submitted
    /\ \/ /\ running # {}
          /\ step' = "wait"
          /\ UNCHANGED <<scan, progressed>>
       \/ /\ running = {} /\ remaining # {} /\ ~progressed
          /\ step' = "raised"
          /\ UNCHANGED <<scan, progressed>>
       \/ /\ running = {} /\ (remaining = {} \/ progressed)
          /\ Loop({})
    /\ UNCHANGED <<upstream, remaining, running, outcome, results>>

\* Fault: a callback's exception is dropped.
CollectLenient ==
    LET done == running \ Executing
    IN  /\ step = "wait" /\ done # {}
        /\ results' = [j \in Job |-> IF j \in done THEN "success" ELSE results[j]]
        /\ running' = Executing
        /\ Loop(Executing)
        /\ UNCHANGED <<upstream, remaining, outcome>>

\* wait(..., FIRST_COMPLETED): every future that is done by then is collected.
Collect ==
    LET done == running \ Executing
    IN  /\ step = "wait" /\ done # {}
        /\ results' = [j \in Job |-> IF j \in done THEN outcome[j] ELSE results[j]]
        /\ running' = Executing
        /\ Loop(Executing)
        /\ UNCHANGED <<upstream, remaining, outcome>>

\* A worker's run_job returns or raises, whatever became of the coordinator.
Work(j) ==
    /\ j \in Executing
    /\ \E o \in Outcome : outcome' = [outcome EXCEPT ![j] = o]
    /\ UNCHANGED <<upstream, remaining, running, results, step, scan, progressed>>

\* KeyboardInterrupt in the coordinator: shutdown_executor does not wait for
\* the workers, and nobody collects them.
Interrupt ==
    /\ step \in {"scan", "wait"}
    /\ step' = "interrupted"
    /\ UNCHANGED <<upstream, remaining, running, outcome, results, scan, progressed>>

Coordinate == Settle \/ Collect \/ \E j \in Job : Visit(j) \/ Submit(j)

Next == Coordinate \/ Interrupt \/ \E j \in Job : Work(j)

\* The coordinator never stops by itself, and every statement a worker waits
\* for ends, if only by its client's timeout (sql_executor.py).
Spec == Init /\ [][Next]_vars /\ WF_vars(Coordinate) /\ \A j \in Job : WF_vars(Work(j))

-----------------------------------------------------------------------------
(* Properties.                                                             *)

\* Every job is in exactly one place: still remaining, submitted, or with its
\* result.  None is lost between two passes and none is submitted twice.
EveryJobOnce ==
    \A j \in Job :
        /\ (j \in remaining) = (j \notin running /\ results[j] = "none")
        /\ j \in running => results[j] = "none"

\* "parallel" bounds the jobs, and with them the database sessions, that
\* exist at one time, collected or not.
WithinParallel == Cardinality(running) <= Parallel

\* No job has been started while one of its upstreams had not succeeded.
UpstreamsFirst ==
    \A j \in Job :
        j \in running \/ results[j] \in Outcome
            => \A u \in upstream[j] : results[u] = "success"

\* A failed job blocks the jobs that transitively depend on it and no others:
\* a blocked job has a failed ancestor, and no ancestor of a successful job has
\* failed.
FailuresBlockDependents ==
    \A j \in Job :
        /\ results[j] = "blocked" =>
              \E f \in Job : results[f] = "failed" /\ Reaches(upstream, f, j)
        /\ results[j] = "success" =>
              \A f \in Job : Reaches(upstream, f, j) => results[f] = "success"

\* The cycle error is raised only for a cycle, and only when nothing runs: some
\* of the jobs left wait for each other.
RaisesOnlyForCycle ==
    step = "raised" =>
        /\ running = {}
        /\ \E S \in SUBSET remaining :
              S # {} /\ \A j \in S : upstream[j] \cap S # {}

\* execute_dag comes to an end on every graph, with a result for every job when
\* it returns.
Terminates ==
    <>(\/ step = "returned" /\ \A j \in Job : results[j] # "none"
       \/ step \in {"raised", "interrupted"})

\* What the database sees of the jobs is a run as JobRun describes it: a job is
\* over when its worker is, collected or not.
Observed == [j \in Job |-> IF j \in running /\ outcome[j] # "none"
                          THEN outcome[j] ELSE Known[j]]
Run == INSTANCE JobRun WITH state <- Observed
ImplementsJobRun == Run!Spec
=============================================================================
