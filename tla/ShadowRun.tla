------------------------------ MODULE ShadowRun -------------------------------
(***************************************************************************)
(* One shadow execution in the slot it has claimed: the manifest that is   *)
(* compiled from the plan (refactor/shadow_manifest.py, shadow_scope.py),  *)
(* the phases of execute_shadow_plan, and the jobs with their batches of   *)
(* slices (refactor/shadow_run.py), whose statements are routed by         *)
(* shadow_rewrite.py.  Jobs run as JobRun describes it.                    *)
(*                                                                         *)
(* A relation is known by its name after the DDL changes.  Rows are told   *)
(* apart by slice (a partition or date), never further; a read that can be *)
(* seen to select nothing counts as none.                                  *)
(***************************************************************************)
EXTENDS JobGraph, Naturals, FiniteSets

CONSTANTS
    Table, Slice,
    Unknown,        \* the row scope that could not be determined
    Empty, Base,    \* rows that are missing, or were copied from production
    Plans,          \* the plans analyze may have frozen; their jobs are Job
    Parallel,       \* --parallel: jobs, batch threads of a job, and sessions
    BatchSize

Scope == (SUBSET Slice) \cup {Unknown}

Plan == [up : [Job -> SUBSET Job],          \* execution_graph; ScheduleGraph refuses cycles
         target : [Job -> Table],
         out : [Job -> SUBSET Table],       \* what its statements insert or update
         sliced : [Job -> BOOLEAN],         \* it runs once per execution value
         known : [Job -> BOOLEAN],          \* its slice column, if declared, partitions its target
         values : [Job -> SUBSET Slice],    \* execution_values
         reads : [Job -> [Table -> Scope]],
         mutates : [Job -> Scope],          \* rows of its target that UPDATE or DELETE needs
         stages : [Job -> BOOLEAN],         \* it creates tables on its way
         ddl : SUBSET Table,                \* tables with baseline DDL
         created : SUBSET Table,            \* by ddl_changes
         dropped : SUBSET Table]

\* No list of execution values is all there ever was: scope ALL is not POINTS.
ASSUME PlansAssumption ==
    /\ Plans \subseteq Plan
    /\ \A p \in Plans, j \in Job :
          /\ p.target[j] \in p.out[j]
          /\ p.sliced[j] => p.values[j] # {} /\ p.values[j] # Slice
ASSUME SizeAssumption ==
    /\ Slice \subseteq Nat /\ IsFiniteSet(Slice) /\ Slice # {}
    /\ IsFiniteSet(Job) /\ Job # {}
    /\ Parallel \in Nat \ {0}               \* _effective_parallel
    /\ BatchSize \in Nat \ {0}              \* _effective_batch_size
ASSUME NameAssumption ==
    /\ Unknown \notin SUBSET Slice
    /\ Empty # Base /\ {Empty, Base} \cap Job = {}

VARIABLES
    plan,       \* the frozen plan
    phase,      \* the phase the execution is in, or how it has ended
    rows,       \* per table and slice, where the rows of the slot come from
    state,      \* the state of each job
    batch,      \* per job, the state of each of its batches
    ready       \* qa_ready_tables

vars == <<plan, phase, rows, state, batch, ready>>

Phases == {"compile", "create", "prefill", "ddl", "jobs"}
Over == {"completed", "failed", "interrupted"}
Started == {"waiting", "executing"}         \* for the semaphore, in the database
Ended == {"done", "failed", "unready"}
Content == {Empty, Base} \cup Job

TypeOK ==
    /\ plan \in Plan
    /\ phase \in Phases \cup Over
    /\ rows \in [Table -> [Slice -> Content]]
    /\ state \in [Job -> State]
    /\ batch \in [Job -> [SUBSET Slice -> {"none", "queued", "cancelled"} \cup Started \cup Ended]]
    /\ ready \subseteq Table

-----------------------------------------------------------------------------
(* Row scopes.                                                             *)

\* is_subset_of(...) is True; None and False are the same to the compiler.
Within(a, b) ==
    \/ a = {}
    \/ b = Slice
    \/ Unknown \notin {a, b} /\ a \subseteq b

\* The slices a scope may stand for, and those that are copied for it.
Meant(a) == IF a = Unknown THEN Slice ELSE a

-----------------------------------------------------------------------------
(* compile_shadow_manifest, for a plan p.                                  *)

Writers(p, t) == {w \in Job : t \in p.out[w]}
Preceding(p, t, j) == {w \in Writers(p, t) \ {j} : Reaches(p.up, w, j)}
SelfReads(p, j) == \E t \in p.out[j] : p.reads[j][t] # {}

\* relations: what has a place in the slot.  Anything else is read in production.
Relations(p) == p.ddl \cup p.created \cup p.dropped \cup UNION {p.out[j] : j \in Job}

\* What a job is known to write of one of its outputs.
Coverage(p, w, t) ==
    IF t # p.target[w] \/ ~p.known[w] THEN Unknown
    ELSE IF p.sliced[w] THEN p.values[w] ELSE Slice

\* What all preceding writers are known to write.
Written(p, t, j) ==
    LET known == {Coverage(p, w, t) : w \in Preceding(p, t, j)}
    IN  IF Unknown \in known THEN Unknown ELSE UNION known

\* Fault: any preceding writer is taken to write all that is read.
NeedsPrefillLenient(p, t, j) ==
    /\ t \in Relations(p)
    /\ p.reads[j][t] # {}
    /\ \/ j \in Writers(p, t)
       \/ Preceding(p, t, j) = {}

\* j reads rows of t that no preceding writer is known to write.
NeedsPrefill(p, t, j) ==
    /\ t \in Relations(p)
    /\ p.reads[j][t] # {}
    /\ \/ j \in Writers(p, t)
       \/ Preceding(p, t, j) = {}
       \/ ~Within(p.reads[j][t], Written(p, t, j))

\* prefill_actions: the slices of t to be copied from production.
Prefilled(p, t) ==
    LET asked == {Meant(p.reads[j][t]) : j \in {x \in Job : NeedsPrefill(p, t, x)}}
        kept == {Meant(p.mutates[j]) : j \in {x \in Job : p.target[x] = t}}
    IN  UNION (asked \cup kept)

\* required_qa_tables: reading them too early is an error of the rewriter.
Required(p, j) == {t \in Relations(p) : p.reads[j][t] # {} /\ Preceding(p, t, j) # {}}

\* The blockers that the shape of the plan decides; any other ends in Fail.
Blocked(p) ==
    \/ \E t \in Table : Prefilled(p, t) # {} /\ t \notin p.ddl \ p.created
    \/ \E j \in Job : \E t \in p.dropped : p.reads[j][t] # {} \/ (t \in p.out[j] /\ ~p.stages[j])

-----------------------------------------------------------------------------
(* _execute_shadow_job: invocations, in the order of their values, are put *)
(* into batches; a batch is known by the slices it writes.                 *)

Position(V, s) == Cardinality({x \in V : x < s})
Chunk(V, v) == {s \in V : Position(V, s) \div BatchSize = Position(V, v) \div BatchSize}

Batches(p, j) ==
    IF p.sliced[j] THEN {Chunk(p.values[j], v) : v \in p.values[j]} ELSE {Slice}

Before(b, c) == \A x \in b, y \in c : x < y

\* Fault: every job runs its batches side by side.
SerialNever(p, j) == Parallel = 1

\* invocation_parallel is 1.
Serial(p, j) == Parallel = 1 \/ SelfReads(p, j) \/ p.stages[j]

BatchesIn(j, states) == {b \in Batches(plan, j) : batch[j][b] \in states}

AllIn(states) == {u \in Job \X SUBSET Slice : batch[u[1]][u[2]] \in states}

\* Fault: the semaphore is not released when a batch fails.
SessionsLeaked == AllIn({"executing", "failed", "unready"})

Sessions == AllIn({"executing"})
InFlight == AllIn(Started)

Init ==
    /\ plan \in Plans
    /\ phase = "compile"
    /\ rows = [t \in Table |-> [s \in Slice |-> Empty]]
    /\ state = [j \in Job |-> "waiting"]
    /\ batch = [j \in Job |-> [b \in SUBSET Slice |-> "none"]]
    /\ ready = {}

-----------------------------------------------------------------------------
(* The phases before the jobs.  Every one of them may fail, and that ends  *)
(* the execution.                                                          *)

Fail ==
    /\ phase \in Phases \ {"jobs"}
    /\ phase' = "failed"
    /\ UNCHANGED <<plan, rows, state, batch, ready>>

Compile ==
    /\ phase = "compile"
    /\ ~Blocked(plan)
    /\ phase' = "create"
    /\ UNCHANGED <<plan, rows, state, batch, ready>>

CreateBaseline ==
    /\ phase = "create"
    /\ phase' = "prefill"
    /\ UNCHANGED <<plan, rows, state, batch, ready>>

Prefill ==
    /\ phase = "prefill"
    /\ phase' = "ddl"
    /\ rows' = [t \in Table |-> [s \in Slice |-> IF s \in Prefilled(plan, t) THEN Base ELSE Empty]]
    /\ UNCHANGED <<plan, state, batch, ready>>

ApplyDdl ==
    /\ phase = "ddl"
    /\ phase' = "jobs"
    /\ rows' = [t \in Table |-> [s \in Slice |-> IF t \in plan.dropped THEN Empty ELSE rows[t][s]]]
    /\ UNCHANGED <<plan, state, batch, ready>>

-----------------------------------------------------------------------------
(* execute_dag with _execute_shadow_job as its callback.                   *)

StartJob(j) ==
    /\ phase = "jobs"
    /\ Startable(plan.up, state, j)
    /\ Cardinality({k \in Job : state[k] = "running"}) < Parallel
    /\ state' = [state EXCEPT ![j] = "running"]
    /\ batch' = [batch EXCEPT ![j] =
         [b \in SUBSET Slice |-> IF b \in Batches(plan, j) THEN "queued" ELSE "none"]]
    /\ UNCHANGED <<plan, phase, rows, ready>>

BlockJob(j) ==
    /\ phase = "jobs"
    /\ Blockable(plan.up, state, j)
    /\ state' = [state EXCEPT ![j] = "blocked"]
    /\ UNCHANGED <<plan, phase, rows, batch, ready>>

\* The next batch is called, or taken from the queue by a thread of the pool;
\* it waits for the semaphore there.
BeginBatch(j, b) ==
    /\ batch[j][b] = "queued"
    /\ \A c \in BatchesIn(j, {"queued"}) : c = b \/ Before(b, c)
    /\ IF Serial(plan, j) \/ Cardinality(Batches(plan, j)) = 1
       THEN BatchesIn(j, Started \cup {"failed", "unready"}) = {}
       ELSE Cardinality(BatchesIn(j, Started)) < Parallel
    /\ batch' = [batch EXCEPT ![j][b] = "waiting"]
    /\ UNCHANGED <<plan, phase, rows, state, ready>>

\* The semaphore is acquired, the tables that are ready are looked up, and the
\* statements are routed: a required table that is not ready is an error.
Acquire(j, b) ==
    /\ batch[j][b] = "waiting"
    /\ Cardinality(Sessions) < Parallel
    /\ batch' = [batch EXCEPT ![j][b] =
         IF Required(plan, j) \subseteq ready THEN "executing" ELSE "unready"]
    /\ UNCHANGED <<plan, phase, rows, state, ready>>

\* The script of the batch ends: it has written its slices of the target and
\* what it likes of the other outputs, or has failed after some of that.
EndBatch(j, b) ==
    /\ batch[j][b] = "executing"
    /\ \E end \in {"done", "failed"}, part \in SUBSET b,
         other \in SUBSET {s \in Slice : plan.out[j] # {plan.target[j]}} :
          /\ end = "done" => part = b
          /\ batch' = [batch EXCEPT ![j][b] = end]
          /\ rows' = [t \in Table |-> [s \in Slice |->
                IF \/ t = plan.target[j] /\ s \in part
                   \/ t \in plan.out[j] \ {plan.target[j]} /\ s \in other
                THEN j ELSE rows[t][s]]]
    /\ UNCHANGED <<plan, phase, state, ready>>

\* Fault: a job is over as soon as one of its batches is.
SucceedEarly(j) ==
    /\ state[j] = "running"
    /\ BatchesIn(j, {"done"}) # {}
    /\ state' = [state EXCEPT ![j] = "success"]
    /\ ready' = ready \cup plan.out[j]
    /\ UNCHANGED <<plan, phase, rows, batch>>

\* All batches are over: the outputs are announced, and the job returns.
Succeed(j) ==
    /\ state[j] = "running"
    /\ Batches(plan, j) = BatchesIn(j, {"done"})
    /\ state' = [state EXCEPT ![j] = "success"]
    /\ ready' = ready \cup plan.out[j]
    /\ UNCHANGED <<plan, phase, rows, batch>>

\* The job cannot be planned, or one of its batches has failed: queued batches
\* are cancelled, and started ones go on without the job.
FailJob(j) ==
    /\ state[j] = "running"
    /\ \/ Batches(plan, j) = BatchesIn(j, {"queued"})
       \/ BatchesIn(j, {"failed", "unready"}) # {}
    /\ state' = [state EXCEPT ![j] = "failed"]
    /\ batch' = [batch EXCEPT ![j] =
         [b \in SUBSET Slice |-> IF batch[j][b] = "queued" THEN "cancelled" ELSE batch[j][b]]]
    /\ UNCHANGED <<plan, phase, rows, ready>>

EndRun ==
    /\ phase = "jobs"
    /\ \A j \in Job : state[j] \in Terminal
    /\ phase' = IF \A j \in Job : state[j] = "success" THEN "completed" ELSE "failed"
    /\ UNCHANGED <<plan, rows, state, batch, ready>>

\* KeyboardInterrupt: no further job is started.  Those that run go on in their
\* threads, which the interpreter joins.
Interrupt ==
    /\ phase \notin Over
    /\ phase' = "interrupted"
    /\ UNCHANGED <<plan, rows, state, batch, ready>>

PhaseStep == Compile \/ CreateBaseline \/ Prefill \/ ApplyDdl \/ EndRun \/ Fail
JobStep(j) ==
    \/ StartJob(j) \/ BlockJob(j) \/ Succeed(j) \/ FailJob(j)
    \/ \E b \in SUBSET Slice : BeginBatch(j, b) \/ Acquire(j, b) \/ EndBatch(j, b)
Progress == PhaseStep \/ \E j \in Job : JobStep(j)

Next == Progress \/ Interrupt

\* Every call returns, if only by a timeout, and threads are scheduled.  That
\* something goes on is all it takes: an execution has only so many steps.
Spec == Init /\ [][Next]_vars /\ WF_vars(Progress)

-----------------------------------------------------------------------------
(* Properties.                                                             *)

\* What w is known to write of t.
Knows(w, t) == IF Coverage(plan, w, t) = Unknown THEN {} ELSE Coverage(plan, w, t)

\* The rows of t that j reads, or finds there to update or delete.
Needed(j, t) ==
    Meant(plan.reads[j][t])
    \cup IF t = plan.target[j] /\ t \notin plan.dropped THEN Meant(plan.mutates[j]) ELSE {}

\* A statement finds every row it needs in the slot: those that a preceding job
\* was planned to recompute are recomputed, and the rest is there, whichever
\* jobs are selected and however much of a table each of them writes.
ReadsFresh ==
    \A j \in Job, t \in Relations(plan) : BatchesIn(j, {"executing"}) # {} =>
        \A s \in Needed(j, t) :
            /\ rows[t][s] # Empty
            /\ \A w \in Preceding(plan, t, j) : s \in Knows(w, t) => rows[t][s] \in Job

\* The order of the jobs is enough for the rewriter, which asks for the tables
\* that are ready when a batch has its session: it never has to refuse.
NeverUnready == \A j \in Job : BatchesIn(j, {"unready"}) = {}

\* While a job reads a table, the jobs before it that write the table are over
\* and successful, with all their batches: no leftover of a failed one is among
\* its inputs.
InputsSettled ==
    \A j \in Job, t \in Relations(plan) :
        BatchesIn(j, {"executing"}) # {} /\ plan.reads[j][t] # {} =>
            \A w \in Preceding(plan, t, j) :
                state[w] = "success" /\ Batches(plan, w) = BatchesIn(w, {"done"})

\* A job that reads its own table, or creates tables on its way, computes its
\* slices one after the other, each on top of all earlier ones.
SlicesInOrder ==
    \A j \in Job : SelfReads(plan, j) \/ plan.stages[j] =>
        \A b \in BatchesIn(j, {"executing"}) : \A c \in Batches(plan, j) \ {b} :
            batch[j][c] = IF Before(c, b) THEN "done" ELSE "queued"

\* "completed" means that every slice that was planned has been recomputed, that
\* nothing else is under way, and that comparing the slot makes sense.
CompletedWhole ==
    phase = "completed" =>
        /\ InFlight = {}
        /\ \A j \in Job : \A b \in Batches(plan, j) : \A s \in b : rows[plan.target[j]][s] \in Job

\* Every execution ends, and what a failed job or an interrupt has left running
\* ends as well: threads of jobs, their pools and the semaphore they all share
\* never wait for each other.
RunEnds == <>(phase \in Over /\ InFlight = {})
=============================================================================
