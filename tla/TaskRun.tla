------------------------------- MODULE TaskRun --------------------------------
(***************************************************************************)
(* task_run processes that load one physical Doris target: the advisory    *)
(* lock of execution/run_lock.py around the whole run, and inside it, date *)
(* by date, a run of the selected jobs as JobRun describes it (DagExecutor *)
(* implements that).  A full refresh is a run of one date.                 *)
(*                                                                         *)
(* The jobs are those of --job-list, or all; the executor gets the edges   *)
(* of the trusted schedule that have both ends among them.                 *)
(***************************************************************************)
EXTENDS JobGraph, Naturals, FiniteSets

CONSTANTS
    Proc,       \* task_run processes, from any checkout
    NoProc,     \* nobody holds the lock
    Upstream,   \* the trusted schedule: the direct upstreams of each job
    Producers,  \* Producers[j]: the jobs whose process tables j reads, from lineage
    JobLists,   \* the lists of jobs that runs are asked for
    Gapless,    \* a list has every job that the schedule puts between two of its jobs
    Parallel,
    Dates,      \* how many ETL dates a run replays, in the order given
    Patient     \* no run is started while an interrupted one still executes

ASSUME RunAssumption ==
    /\ Upstream \in [Job -> SUBSET Job]
    /\ Producers \in [Job -> SUBSET Job]
    /\ JobLists \subseteq SUBSET Job
    /\ Gapless \in BOOLEAN
    /\ Parallel \in Nat \ {0}
    /\ Dates \in Nat \ {0}
    /\ NoProc \notin Proc
    /\ Patient \in BOOLEAN
    /\ IsFiniteSet(Job)

VARIABLES
    chosen,     \* job_set of each process
    lock,       \* the holder of the target's lock file
    pc,         \* where each process is
    date,       \* the date each process has reached, 1..Dates
    state,      \* per process, the jobs of that date
    loaded      \* per job, the run and date that last loaded its table

vars == <<chosen, lock, pc, date, state, loaded>>

NeverLoaded == [by |-> NoProc, date |-> 0]
Load == [by : Proc \cup {NoProc}, date : 0..Dates]
Fresh == [j \in Job |-> "waiting"]

TypeOK ==
    /\ chosen \in [Proc -> SUBSET Job]
    /\ lock \in Proc \cup {NoProc}
    /\ pc \in [Proc -> {"idle", "run", "done", "failed", "refused", "interrupted"}]
    /\ date \in [Proc -> 1..Dates]
    /\ state \in [Proc -> [Job -> State]]
    /\ loaded \in [Job -> Load]

\* The jobs of a process that have a statement at the server.
Running(p) == {j \in Job : state[p][j] = "running"}

\* _validate_process_plan_safety: who reads a process table is not run without
\* the jobs that write it.
Safe(list) == \A j \in list : Producers[j] \subseteq list
\* What an operator who leaves no gaps asks for.
Convex(list) == \A a, b \in list : \A j \in Job :
    Reaches(Upstream, a, j) /\ Reaches(Upstream, j, b) => j \in list

\* selected_dependencies
Deps(p) == [j \in Job |-> IF j \in chosen[p] THEN Upstream[j] \cap chosen[p] ELSE {}]

Init ==
    /\ chosen \in [Proc -> {list \in JobLists : Safe(list) /\ (Gapless => Convex(list))}]
    /\ lock = NoProc
    /\ pc = [p \in Proc |-> "idle"]
    /\ date = [p \in Proc |-> 1]
    /\ state = [p \in Proc |-> Fresh]
    /\ loaded = [j \in Job |-> NeverLoaded]

-----------------------------------------------------------------------------
\* Fault: the lock is not asked for.
LockIgnored(p) ==
    /\ pc[p] = "idle"
    /\ lock' = p
    /\ pc' = [pc EXCEPT ![p] = "run"]
    /\ UNCHANGED <<chosen, date, state, loaded>>

\* What a patient operator waits for.
QuietTarget == \A p \in Proc : pc[p] # "run" => Running(p) = {}

\* execution_target_run_lock: LOCK_EX | LOCK_NB, an error if it is taken.
Lock(p) ==
    /\ pc[p] = "idle"
    /\ Patient => QuietTarget
    /\ \/ /\ lock = NoProc
          /\ lock' = p
          /\ pc' = [pc EXCEPT ![p] = "run"]
       \/ /\ lock # NoProc
          /\ pc' = [pc EXCEPT ![p] = "refused"]
          /\ UNCHANGED lock
    /\ UNCHANGED <<chosen, date, state, loaded>>

StartJob(p, j) ==
    /\ pc[p] = "run" /\ j \in chosen[p]
    /\ Startable(Deps(p), state[p], j)
    /\ Cardinality(Running(p)) < Parallel
    /\ state' = [state EXCEPT ![p][j] = "running"]
    /\ UNCHANGED <<chosen, lock, pc, date, loaded>>

BlockJob(p, j) ==
    /\ pc[p] = "run" /\ j \in chosen[p]
    /\ Blockable(Deps(p), state[p], j)
    /\ state' = [state EXCEPT ![p][j] = "blocked"]
    /\ UNCHANGED <<chosen, lock, pc, date, loaded>>

\* _run_job returns or raises.  A job that failed may have loaded some of its
\* table.  The worker gets here even if its process has lost its coordinator.
FinishJob(p, j) ==
    /\ state[p][j] = "running"
    /\ \E o \in Outcome, written \in BOOLEAN :
          /\ o = "success" => written
          /\ state' = [state EXCEPT ![p][j] = o]
          /\ loaded' = [loaded EXCEPT ![j] =
                IF written THEN [by |-> p, date |-> date[p]] ELSE @]
    /\ UNCHANGED <<chosen, lock, pc, date>>

\* execute_dag has returned: every job has a result.
DateOver(p) == pc[p] = "run" /\ \A j \in chosen[p] : state[p][j] \in Terminal
Completed(p) == \A j \in chosen[p] : state[p][j] = "success"

Release(p, end) ==
    /\ pc' = [pc EXCEPT ![p] = end]
    /\ lock' = NoProc
    /\ UNCHANGED <<chosen, date, state, loaded>>

\* Fault: a failed date is reported and the next one run.
NextDateAnyway(p) ==
    /\ DateOver(p)
    /\ date[p] < Dates
    /\ date' = [date EXCEPT ![p] = @ + 1]
    /\ state' = [state EXCEPT ![p] = Fresh]
    /\ UNCHANGED <<chosen, lock, pc, loaded>>

\* The next date, once every job of this one has succeeded.
NextDate(p) ==
    /\ DateOver(p)
    /\ Completed(p)
    /\ date[p] < Dates
    /\ date' = [date EXCEPT ![p] = @ + 1]
    /\ state' = [state EXCEPT ![p] = Fresh]
    /\ UNCHANGED <<chosen, lock, pc, loaded>>

\* The first date with a failed or blocked job ends the run, and so does the
\* last date.  The lock goes back with the with-statement.
EndRun(p) ==
    /\ DateOver(p)
    /\ \/ ~Completed(p) /\ Release(p, "failed")
       \/ Completed(p) /\ date[p] = Dates /\ Release(p, "done")

\* KeyboardInterrupt: the with-statement unlocks the file, while the workers of
\* the pool run on until the interpreter has joined them.  A kill frees the
\* lock as well, and leaves the mysql clients it had started.
Interrupt(p) ==
    /\ pc[p] = "run"
    /\ Release(p, "interrupted")

JobStep(p) == \E j \in Job : StartJob(p, j) \/ BlockJob(p, j) \/ FinishJob(p, j)
Proceed(p) == JobStep(p) \/ NextDate(p) \/ EndRun(p)

Next == \E p \in Proc : Lock(p) \/ Proceed(p) \/ Interrupt(p)

Spec == Init /\ [][Next]_vars

-----------------------------------------------------------------------------
(* Properties.                                                             *)

\* Statements of two processes are never at the target at the same time: the
\* lock is held for as long as anything of the run is executing.
OneWriter ==
    \A p, q \in Proc : Running(p) # {} /\ Running(q) # {} => p = q

\* A job runs on what its own run has made for the same date: of every job of the
\* run that the trusted schedule puts before it, directly or through others, the
\* load is there, and nobody has reloaded it since.
InputsOfSameDate ==
    \A p \in Proc, j \in Job :
        state[p][j] = "running" =>
            \A u \in chosen[p] \ {j} :
                Reaches(Upstream, u, j) => loaded[u] = [by |-> p, date |-> date[p]]

\* A date is begun only on top of the complete previous date: while a run is at
\* date d > 1, every table of its jobs holds its load for d or for d - 1.
DatesComplete ==
    \A p \in Proc : pc[p] = "run" =>
        \A j \in chosen[p] :
            /\ date[p] > 1 => loaded[j].by = p /\ loaded[j].date \in {date[p] - 1, date[p]}
            /\ state[p][j] = "success" => loaded[j] = [by |-> p, date |-> date[p]]
=============================================================================
