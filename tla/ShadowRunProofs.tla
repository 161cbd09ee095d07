--------------------------- MODULE ShadowRunProofs ----------------------------
(***************************************************************************)
(* Proofs about ShadowRun for any plans, jobs, tables, slices, batch size  *)
(* and degree of parallelism; and about RowScopes: scopes describe what    *)
(* statements read, for any instants, days, months and readers, and what   *)
(* is copied for a job is enough, if the readers keep to the policies.     *)
(***************************************************************************)
EXTENDS ShadowRun, RowScopes, TLAPS, FiniteSetTheorems

-----------------------------------------------------------------------------
(* The batches of a job are sets of slices, and cover what it is to write. *)
LEMMA BatchesCover ==
    ASSUME NEW p \in Plan, NEW j \in Job
    PROVE  /\ Batches(p, j) \subseteq SUBSET Slice
           /\ \A s \in Slice : (p.sliced[j] => s \in p.values[j]) =>
                \E b \in Batches(p, j) : s \in b
<1>1. p.values[j] \subseteq Slice
  BY DEF Plan
<1>2. CASE ~p.sliced[j]
  BY <1>2 DEF Batches
<1>3. CASE p.sliced[j]
  <2>1. Batches(p, j) = {Chunk(p.values[j], v) : v \in p.values[j]}
    BY <1>3 DEF Batches
  <2>2. \A v \in p.values[j] : v \in Chunk(p.values[j], v) /\ Chunk(p.values[j], v) \subseteq Slice
    BY <1>1 DEF Chunk
  <2> QED
    BY <1>1, <1>3, <2>1, <2>2
<1> QED
  BY <1>2, <1>3

\* What is copied are slices.
LEMMA PrefilledSlices ==
    ASSUME NEW p \in Plan, NEW t \in Table
    PROVE  Prefilled(p, t) \subseteq Slice
<1>1. \A x \in Job : p.reads[x][t] \in Scope /\ p.mutates[x] \in Scope
  BY DEF Plan
<1>2. ASSUME NEW a \in Scope PROVE Meant(a) \subseteq Slice
  <2>1. CASE a = Unknown
    BY <2>1 DEF Meant
  <2>2. CASE a # Unknown
    BY <2>2 DEF Meant, Scope
  <2> QED
    BY <2>1, <2>2
<1>3. /\ \A x \in Job : Meant(p.reads[x][t]) \subseteq Slice
      /\ \A x \in Job : Meant(p.mutates[x]) \subseteq Slice
  BY <1>1, <1>2
<1> QED
  BY <1>3 DEF Prefilled

\* A batch that ends writes nothing but rows of its own job, and all its slices
\* of the target when it is done.
LEMMA EndBatchEffect ==
    ASSUME TypeOK, NEW j \in Job, NEW b \in SUBSET Slice, EndBatch(j, b)
    PROVE  /\ UNCHANGED <<plan, phase, state, ready>>
           /\ batch[j][b] = "executing"
           /\ rows' \in [Table -> [Slice -> Content]]
           /\ \A t \in Table, s \in Slice : rows'[t][s] \in {j, rows[t][s]}
           /\ \E end \in {"done", "failed"} :
                /\ batch' = [batch EXCEPT ![j][b] = end]
                /\ end = "done" => \A s \in b : rows'[plan.target[j]][s] = j
<1>1. PICK end \in {"done", "failed"}, part \in SUBSET b,
             other \in SUBSET {s \in Slice : plan.out[j] # {plan.target[j]}} :
        /\ end = "done" => part = b
        /\ batch' = [batch EXCEPT ![j][b] = end]
        /\ rows' = [t \in Table |-> [s \in Slice |->
              IF \/ t = plan.target[j] /\ s \in part
                 \/ t \in plan.out[j] \ {plan.target[j]} /\ s \in other
              THEN j ELSE rows[t][s]]]
  BY DEF EndBatch
<1>2. plan.target[j] \in Table
  BY DEF TypeOK, Plan
<1>3. \A t \in Table, s \in Slice : rows[t][s] \in Content /\ j \in Content
  BY DEF TypeOK, Content
<1>4. /\ rows' \in [Table -> [Slice -> Content]]
      /\ \A t \in Table, s \in Slice : rows'[t][s] \in {j, rows[t][s]}
  BY <1>1, <1>3
<1>5. end = "done" => \A s \in b : rows'[plan.target[j]][s] = j
  BY <1>1, <1>2
<1> QED
  BY <1>1, <1>4, <1>5 DEF EndBatch

-----------------------------------------------------------------------------
\* Every step keeps the types.
LEMMA TypeStep == TypeOK /\ [Next]_vars => TypeOK'
<1> SUFFICES ASSUME TypeOK, [Next]_vars PROVE TypeOK'
  OBVIOUS
<1>1. CASE Compile \/ CreateBaseline \/ Fail \/ EndRun \/ Interrupt
  BY <1>1 DEF Compile, CreateBaseline, Fail, EndRun, Interrupt, TypeOK, Phases, Over
<1>2. CASE Prefill
  <2>1. rows' \in [Table -> [Slice -> Content]]
    BY <1>2 DEF Prefill, Content
  <2> QED
    BY <1>2, <2>1 DEF Prefill, TypeOK, Phases
<1>3. CASE ApplyDdl
  <2>1. \A t \in Table, s \in Slice : rows[t][s] \in Content
    BY DEF TypeOK
  <2>2. rows' \in [Table -> [Slice -> Content]]
    BY <1>3, <2>1 DEF ApplyDdl, Content
  <2> QED
    BY <1>3, <2>2 DEF ApplyDdl, TypeOK, Phases
<1>4. ASSUME NEW j \in Job, StartJob(j) PROVE TypeOK'
  BY <1>4 DEF StartJob, TypeOK, State
<1>5. ASSUME NEW j \in Job, BlockJob(j) PROVE TypeOK'
  BY <1>5 DEF BlockJob, TypeOK, State, Terminal
<1>6. ASSUME NEW j \in Job, Succeed(j) PROVE TypeOK'
  <2>1. plan.out[j] \subseteq Table
    BY DEF TypeOK, Plan
  <2> QED
    BY <1>6, <2>1 DEF Succeed, TypeOK, State, Terminal, Outcome
<1>7. ASSUME NEW j \in Job, FailJob(j) PROVE TypeOK'
  BY <1>7 DEF FailJob, TypeOK, State, Terminal, Outcome
<1>8. ASSUME NEW j \in Job, NEW b \in SUBSET Slice, BeginBatch(j, b) PROVE TypeOK'
  BY <1>8 DEF BeginBatch, TypeOK, Started
<1>9. ASSUME NEW j \in Job, NEW b \in SUBSET Slice, Acquire(j, b) PROVE TypeOK'
  BY <1>9 DEF Acquire, TypeOK, Started, Ended
<1>10. ASSUME NEW j \in Job, NEW b \in SUBSET Slice, EndBatch(j, b) PROVE TypeOK'
  <2>1. PICK end \in {"done", "failed"} : batch' = [batch EXCEPT ![j][b] = end]
    BY <1>10, EndBatchEffect
  <2>2. rows' \in [Table -> [Slice -> Content]] /\ UNCHANGED <<plan, phase, state, ready>>
    BY <1>10, EndBatchEffect
  <2> QED
    BY <2>1, <2>2 DEF TypeOK, Ended
<1>11. CASE UNCHANGED vars
  BY <1>11 DEF vars, TypeOK
<1> QED
  BY <1>1, <1>2, <1>3, <1>4, <1>5, <1>6, <1>7, <1>8, <1>9, <1>10, <1>11
  DEF Next, Progress, PhaseStep, JobStep

(* Type correctness: in particular, a job has one of the five states of    *)
(* execute_dag, and rows come from nowhere but the baseline and the jobs.  *)
THEOREM TypeCorrect == Spec => []TypeOK
<1>1. Init => TypeOK
  BY PlansAssumption DEF Init, TypeOK, Phases, Content, State
<1> QED
  BY <1>1, TypeStep, PTL DEF Spec

-----------------------------------------------------------------------------
(* The inductive invariant.  A started job has successful upstreams; the   *)
(* batches of a successful one are done, have written what they were       *)
(* planned to, and its outputs are announced; the jobs start from a plan   *)
(* that is not blocked and with everything in place that was prefilled.    *)

EarlyPhases == {"compile", "create", "prefill", "ddl"}
Untouched == {"waiting", "blocked"}

PhaseInv ==
    /\ phase \in EarlyPhases => \A j \in Job : state[j] = "waiting"
    /\ phase = "completed" => \A j \in Job : state[j] = "success"

OrderInv ==
    \A j \in Job : state[j] \notin Untouched => \A u \in plan.up[j] : state[u] = "success"

BatchInv ==
    \A j \in Job, b \in SUBSET Slice :
        /\ state[j] \in Untouched => batch[j][b] = "none"
        /\ b \notin Batches(plan, j) => batch[j][b] = "none"
        /\ state[j] = "success" /\ b \in Batches(plan, j) => batch[j][b] = "done"

ReadyInv == \A j \in Job : state[j] = "success" => plan.out[j] \subseteq ready

WrittenInv ==
    \A j \in Job, b \in SUBSET Slice :
        batch[j][b] = "done" => \A s \in b : rows[plan.target[j]][s] \in Job

CompileInv ==
    phase \in {"create", "prefill", "ddl", "jobs"} \/ (\E j \in Job : state[j] # "waiting")
        => ~Blocked(plan)

LoadInv ==
    /\ phase = "ddl" => \A t \in Table : \A s \in Prefilled(plan, t) : rows[t][s] # Empty
    /\ phase = "jobs" \/ (\E j \in Job : state[j] # "waiting") =>
         \A t \in Table \ plan.dropped : \A s \in Prefilled(plan, t) : rows[t][s] # Empty

RunInv ==
    /\ TypeOK
    /\ PhaseInv
    /\ OrderInv
    /\ BatchInv
    /\ ReadyInv
    /\ WrittenInv
    /\ CompileInv
    /\ LoadInv

LEMMA RunInit == Init => RunInv
<1> SUFFICES ASSUME Init PROVE RunInv
  OBVIOUS
<1>1. TypeOK
  BY PlansAssumption DEF Init, TypeOK, Phases, Content, State
<1>2. PhaseInv /\ OrderInv /\ BatchInv /\ ReadyInv /\ WrittenInv /\ CompileInv /\ LoadInv
  BY DEF Init, PhaseInv, OrderInv, BatchInv, ReadyInv, WrittenInv, CompileInv, LoadInv,
         Untouched, EarlyPhases
<1> QED
  BY <1>1, <1>2 DEF RunInv

\* What a started job depends on, however far upstream, has succeeded.
LEMMA UpstreamDone ==
    ASSUME RunInv, NEW w \in Job, NEW j \in Job, w # j,
           Reaches(plan.up, w, j), state[j] \notin Untouched
    PROVE  state[w] = "success"
<1> SUFFICES ASSUME state[w] # "success" PROVE FALSE
  OBVIOUS
<1> DEFINE S == {k \in Job : state[k] \in Untouched} \cup {w}
<1>1. S \in SUBSET Job /\ w \in S /\ j \notin S
  OBVIOUS
<1>2. \A u \in S : state[u] # "success"
  BY DEF Untouched
<1>3. \A k \in Job : plan.up[k] \cap S # {} => k \in S
  BY <1>2 DEF RunInv, OrderInv
<1> QED
  BY <1>1, <1>3 DEF Reaches

\* The phases before the jobs.
LEMMA PhaseKeeps == RunInv /\ (PhaseStep \/ Interrupt) => RunInv'
<1> SUFFICES ASSUME RunInv, PhaseStep \/ Interrupt PROVE RunInv'
  OBVIOUS
<1>1. TypeOK' /\ UNCHANGED <<plan, state, batch, ready>>
  <2>1. TypeOK'
    BY TypeStep DEF RunInv, Next, Progress
  <2> QED
    BY <2>1 DEF PhaseStep, Interrupt, Compile, CreateBaseline, Prefill, ApplyDdl, EndRun, Fail
<1>2. OrderInv' /\ BatchInv' /\ ReadyInv'
  BY <1>1 DEF RunInv, OrderInv, BatchInv, ReadyInv
<1>3. CASE Prefill
  <2>1. phase = "prefill" /\ phase' = "ddl" /\ \A j \in Job : state[j] = "waiting"
    BY <1>3 DEF Prefill, RunInv, PhaseInv, EarlyPhases
  <2>2. PhaseInv' /\ CompileInv'
    BY <1>1, <2>1 DEF RunInv, PhaseInv, CompileInv, EarlyPhases
  <2>3. WrittenInv'
    BY <1>1, <2>1 DEF RunInv, WrittenInv, BatchInv, Untouched
  <2>4. \A t \in Table, s \in Slice :
          s \in Prefilled(plan, t) => rows'[t][s] # Empty
    BY <1>3, NameAssumption DEF Prefill
  <2>5. \A t \in Table : Prefilled(plan, t) \subseteq Slice
    BY PrefilledSlices DEF RunInv, TypeOK
  <2>6. LoadInv'
    BY <1>1, <2>1, <2>4, <2>5 DEF LoadInv
  <2> QED
    BY <1>1, <1>2, <2>2, <2>3, <2>6 DEF RunInv
<1>4. CASE ApplyDdl
  <2>1. phase = "ddl" /\ phase' = "jobs" /\ \A j \in Job : state[j] = "waiting"
    BY <1>4 DEF ApplyDdl, RunInv, PhaseInv, EarlyPhases
  <2>2. PhaseInv' /\ CompileInv'
    BY <1>1, <2>1 DEF RunInv, PhaseInv, CompileInv, EarlyPhases
  <2>3. WrittenInv'
    BY <1>1, <2>1 DEF RunInv, WrittenInv, BatchInv, Untouched
  <2>4. \A t \in Table \ plan.dropped, s \in Slice : rows'[t][s] = rows[t][s]
    BY <1>4 DEF ApplyDdl
  <2>5. \A t \in Table : Prefilled(plan, t) \subseteq Slice
    BY PrefilledSlices DEF RunInv, TypeOK
  <2>6. LoadInv'
    BY <1>1, <2>1, <2>4, <2>5 DEF RunInv, LoadInv
  <2> QED
    BY <1>1, <1>2, <2>2, <2>3, <2>6 DEF RunInv
<1>5. CASE Compile \/ CreateBaseline \/ EndRun \/ Fail \/ Interrupt
  <2>1. UNCHANGED rows /\ WrittenInv'
    BY <1>1, <1>5
    DEF Compile, CreateBaseline, EndRun, Fail, Interrupt, RunInv, WrittenInv
  <2>2. PhaseInv'
    BY <1>1, <1>5
    DEF Compile, CreateBaseline, EndRun, Fail, Interrupt, RunInv, PhaseInv, EarlyPhases, Phases, Over
  <2>3. CompileInv'
    BY <1>1, <1>5
    DEF Compile, CreateBaseline, EndRun, Fail, Interrupt, RunInv, CompileInv, Phases, Over
  <2>4. LoadInv'
    BY <1>1, <1>5, <2>1
    DEF Compile, CreateBaseline, EndRun, Fail, Interrupt, RunInv, LoadInv, Phases, Over
  <2> QED
    BY <1>1, <1>2, <2>1, <2>2, <2>3, <2>4 DEF RunInv
<1> QED
  BY <1>3, <1>4, <1>5 DEF PhaseStep

\* A job starts, or is blocked by an upstream that has not succeeded.
LEMMA StartKeeps == \A j \in Job : RunInv /\ (StartJob(j) \/ BlockJob(j)) => RunInv'
<1> SUFFICES ASSUME NEW j \in Job, RunInv, StartJob(j) \/ BlockJob(j) PROVE RunInv'
  OBVIOUS
<1>1. TypeOK' /\ UNCHANGED <<plan, phase, rows, ready>> /\ phase = "jobs" /\ state[j] = "waiting"
  <2>1. TypeOK'
    BY TypeStep DEF RunInv, Next, Progress, JobStep
  <2> QED
    BY <2>1 DEF StartJob, BlockJob, Startable, Blockable
<1>2. /\ state'[j] \in {"running", "blocked"}
      /\ state'[j] = "running" => \A u \in plan.up[j] : state[u] = "success"
      /\ \A k \in Job \ {j} : state'[k] = state[k]
  BY DEF StartJob, BlockJob, Startable, RunInv, TypeOK
<1>3. /\ \A k \in Job \ {j} : batch'[k] = batch[k]
      /\ \A b \in SUBSET Slice :
           /\ batch'[j][b] \in {"none", "queued"}
           /\ state'[j] = "blocked" => batch'[j][b] = "none"
           /\ b \notin Batches(plan, j) => batch'[j][b] = "none"
  <2>1. CASE StartJob(j)
    BY <2>1 DEF StartJob, RunInv, TypeOK
  <2>2. CASE BlockJob(j)
    BY <1>1, <2>2 DEF BlockJob, RunInv, BatchInv, Untouched
  <2> QED
    BY <2>1, <2>2
<1>4. PhaseInv' /\ CompileInv' /\ LoadInv'
  BY <1>1 DEF RunInv, PhaseInv, CompileInv, LoadInv, EarlyPhases
<1>5. OrderInv'
  <2>1. \A k \in Job : plan.up[k] \subseteq Job
    BY DEF RunInv, TypeOK, Plan
  <2> QED
    BY <1>1, <1>2, <2>1 DEF RunInv, OrderInv, Untouched
<1>6. BatchInv'
  BY <1>1, <1>2, <1>3 DEF RunInv, BatchInv, Untouched
<1>7. ReadyInv' /\ WrittenInv'
  BY <1>1, <1>2, <1>3 DEF RunInv, ReadyInv, WrittenInv
<1> QED
  BY <1>1, <1>4, <1>5, <1>6, <1>7 DEF RunInv

\* A job returns.
LEMMA ReturnKeeps == \A j \in Job : RunInv /\ (Succeed(j) \/ FailJob(j)) => RunInv'
<1> SUFFICES ASSUME NEW j \in Job, RunInv, Succeed(j) \/ FailJob(j) PROVE RunInv'
  OBVIOUS
<1>1. TypeOK' /\ UNCHANGED <<plan, phase, rows>> /\ state[j] = "running"
  <2>1. TypeOK'
    BY TypeStep DEF RunInv, Next, Progress, JobStep
  <2> QED
    BY <2>1 DEF Succeed, FailJob
<1>2. /\ state'[j] \in Outcome
      /\ \A k \in Job \ {j} : state'[k] = state[k]
  BY DEF Succeed, FailJob, RunInv, TypeOK, Outcome
<1>3. /\ \A k \in Job \ {j} : batch'[k] = batch[k]
      /\ \A b \in SUBSET Slice :
           /\ batch'[j][b] \in {batch[j][b], "cancelled"}
           /\ batch[j][b] = "none" => batch'[j][b] = "none"
           /\ state'[j] = "success" /\ b \in Batches(plan, j) => batch'[j][b] = "done"
  <2>1. CASE Succeed(j)
    BY <2>1 DEF Succeed, BatchesIn
  <2>2. CASE FailJob(j)
    <3>1. state'[j] = "failed"
      BY <2>2 DEF FailJob, RunInv, TypeOK
    <3>2. \A b \in SUBSET Slice : batch'[j][b] =
            IF batch[j][b] = "queued" THEN "cancelled" ELSE batch[j][b]
      BY <2>2 DEF FailJob, RunInv, TypeOK
    <3>3. \A k \in Job \ {j} : batch'[k] = batch[k]
      BY <2>2 DEF FailJob, RunInv, TypeOK
    <3> QED
      BY <3>1, <3>2, <3>3
  <2> QED
    BY <2>1, <2>2
<1>4. ready \subseteq ready' /\ (state'[j] = "success" => plan.out[j] \subseteq ready')
  BY DEF Succeed, FailJob, RunInv, TypeOK
<1>5. PhaseInv' /\ CompileInv' /\ LoadInv'
  BY <1>1 DEF RunInv, PhaseInv, CompileInv, LoadInv
<1>6. OrderInv'
  <2>1. \A k \in Job : plan.up[k] \subseteq Job
    BY DEF RunInv, TypeOK, Plan
  <2> QED
    BY <1>1, <1>2, <2>1 DEF RunInv, OrderInv, Untouched
<1>7. BatchInv'
  BY <1>1, <1>2, <1>3 DEF RunInv, BatchInv, Untouched, Outcome
<1>8. ReadyInv' /\ WrittenInv'
  BY <1>1, <1>2, <1>3, <1>4 DEF RunInv, ReadyInv, WrittenInv
<1> QED
  BY <1>1, <1>5, <1>6, <1>7, <1>8 DEF RunInv

\* A batch begins, gets its session, or ends.
LEMMA BatchKeeps ==
    \A j \in Job, b \in SUBSET Slice :
        RunInv /\ (BeginBatch(j, b) \/ Acquire(j, b) \/ EndBatch(j, b)) => RunInv'
<1> SUFFICES ASSUME NEW j \in Job, NEW b \in SUBSET Slice, RunInv,
                    BeginBatch(j, b) \/ Acquire(j, b) \/ EndBatch(j, b)
             PROVE  RunInv'
  OBVIOUS
<1>1. TypeOK' /\ UNCHANGED <<plan, phase, state, ready>>
  <2>1. TypeOK'
    BY TypeStep DEF RunInv, Next, Progress, JobStep
  <2> QED
    BY <2>1 DEF BeginBatch, Acquire, EndBatch
<1>2. /\ batch[j][b] \in {"queued", "waiting", "executing"}
      /\ \A k \in Job, c \in SUBSET Slice :
           <<k, c>> # <<j, b>> => batch'[k][c] = batch[k][c]
      /\ batch'[j][b] = "done" => \A s \in b : rows'[plan.target[j]][s] = j
  <2>1. CASE BeginBatch(j, b)
    BY <2>1 DEF BeginBatch, RunInv, TypeOK
  <2>2. CASE Acquire(j, b)
    BY <2>2 DEF Acquire, RunInv, TypeOK
  <2>3. CASE EndBatch(j, b)
    <3>1. PICK end \in {"done", "failed"} :
            /\ batch' = [batch EXCEPT ![j][b] = end]
            /\ end = "done" => \A s \in b : rows'[plan.target[j]][s] = j
      BY <2>3, EndBatchEffect DEF RunInv
    <3>2. batch[j][b] = "executing"
      BY <2>3 DEF EndBatch
    <3> QED
      BY <3>1, <3>2 DEF RunInv, TypeOK
  <2> QED
    BY <2>1, <2>2, <2>3
<1>3. \A t \in Table, s \in Slice : rows'[t][s] \in {j, rows[t][s]}
  <2>1. CASE EndBatch(j, b)
    BY <2>1, EndBatchEffect DEF RunInv
  <2>2. CASE BeginBatch(j, b) \/ Acquire(j, b)
    BY <2>2 DEF BeginBatch, Acquire
  <2> QED
    BY <2>1, <2>2
<1>4. PhaseInv' /\ OrderInv' /\ ReadyInv' /\ CompileInv'
  BY <1>1 DEF RunInv, PhaseInv, OrderInv, ReadyInv, CompileInv
<1>5. BatchInv'
  <2>1. b \in Batches(plan, j) /\ state[j] \notin Untouched /\ state[j] # "success"
    BY <1>2 DEF RunInv, BatchInv
  <2> QED
    BY <1>1, <1>2, <2>1 DEF RunInv, BatchInv
<1>6. WrittenInv'
  <2>1. \A k \in Job : plan.target[k] \in Table
    BY DEF RunInv, TypeOK, Plan
  <2> QED
    BY <1>1, <1>2, <1>3, <2>1 DEF RunInv, WrittenInv
<1>7. LoadInv'
  <2>1. \A t \in Table, s \in Slice : rows[t][s] # Empty => rows'[t][s] # Empty
    BY <1>3, NameAssumption
  <2>2. \A t \in Table : Prefilled(plan, t) \subseteq Slice
    BY PrefilledSlices DEF RunInv, TypeOK
  <2> QED
    BY <1>1, <2>1, <2>2 DEF RunInv, LoadInv
<1> QED
  BY <1>1, <1>4, <1>5, <1>6, <1>7 DEF RunInv

LEMMA RunStep == RunInv /\ [Next]_vars => RunInv'
<1> SUFFICES ASSUME RunInv, [Next]_vars PROVE RunInv'
  OBVIOUS
<1>1. CASE PhaseStep \/ Interrupt
  BY <1>1, PhaseKeeps
<1>2. ASSUME NEW j \in Job, JobStep(j) PROVE RunInv'
  BY <1>2, StartKeeps, ReturnKeeps, BatchKeeps DEF JobStep
<1>3. CASE UNCHANGED vars
  <2>1. UNCHANGED <<plan, phase, rows, state, batch, ready>>
    BY <1>3 DEF vars
  <2>2. TypeOK' /\ PhaseInv' /\ OrderInv'
    BY <2>1 DEF RunInv, TypeOK, PhaseInv, OrderInv
  <2>3. BatchInv' /\ ReadyInv' /\ WrittenInv'
    BY <2>1 DEF RunInv, BatchInv, ReadyInv, WrittenInv
  <2>4. CompileInv' /\ LoadInv'
    BY <2>1 DEF RunInv, CompileInv, LoadInv
  <2> QED
    BY <2>2, <2>3, <2>4 DEF RunInv
<1> QED
  BY <1>1, <1>2, <1>3 DEF Next, Progress

\* The invariant holds throughout an execution.
THEOREM RunInvariant == Spec => []RunInv
BY RunInit, RunStep, PTL DEF Spec

-----------------------------------------------------------------------------
\* What a job that executes a batch may rely on.
LEMMA Executing ==
    ASSUME RunInv, NEW j \in Job, BatchesIn(j, {"executing"}) # {}
    PROVE  /\ state[j] \notin Untouched
           /\ \A t \in Table : \A w \in Preceding(plan, t, j) :
                w \in Job /\ t \in plan.out[w] /\ state[w] = "success"
<1>1. plan \in Plan
  BY DEF RunInv, TypeOK
<1>2. Batches(plan, j) \subseteq SUBSET Slice
  BY <1>1, BatchesCover
<1>3. state[j] \notin Untouched
  BY <1>2 DEF BatchesIn, RunInv, BatchInv
<1>4. ASSUME NEW t \in Table, NEW w \in Preceding(plan, t, j)
      PROVE  w \in Job /\ t \in plan.out[w] /\ w # j /\ Reaches(plan.up, w, j)
  BY <1>4 DEF Preceding, Writers
<1> QED
  BY <1>3, <1>4, UpstreamDone

(* The jobs before a reader that write what it reads are over, successful, *)
(* and have no batch left: execute_dag and the graph of the plan see to it *)
(* also for writers that are far upstream.                                 *)
THEOREM Settled == Spec => []InputsSettled
<1>1. RunInv => InputsSettled
  <2> SUFFICES ASSUME RunInv, NEW j \in Job, NEW t \in Relations(plan),
                      BatchesIn(j, {"executing"}) # {},
                      NEW w \in Preceding(plan, t, j)
               PROVE  state[w] = "success" /\ Batches(plan, w) = BatchesIn(w, {"done"})
    BY DEF InputsSettled
  <2>1. plan \in Plan /\ t \in Table
    <3>1. plan \in Plan
      BY DEF RunInv, TypeOK
    <3>2. /\ plan.ddl \subseteq Table /\ plan.created \subseteq Table
          /\ plan.dropped \subseteq Table /\ \A k \in Job : plan.out[k] \subseteq Table
      BY <3>1 DEF Plan
    <3> QED
      BY <3>1, <3>2 DEF Relations
  <2>2. w \in Job /\ state[w] = "success"
    BY <2>1, Executing
  <2>3. Batches(plan, w) \subseteq SUBSET Slice
    BY <2>1, <2>2, BatchesCover
  <2> QED
    BY <2>2, <2>3 DEF BatchesIn, RunInv, BatchInv
<1> QED
  BY <1>1, RunInvariant, PTL

-----------------------------------------------------------------------------
(* The rewriter never has to refuse a statement because a table is not     *)
(* ready: qa_ready_tables is updated before the job's result lets anything *)
(* downstream start.                                                       *)
THEOREM Ready == Spec => []NeverUnready
<1> DEFINE NoneUnready == \A j \in Job, b \in SUBSET Slice : batch[j][b] # "unready"
<1>1. Init => NoneUnready
  BY DEF Init
<1>2. RunInv /\ NoneUnready /\ [Next]_vars => NoneUnready'
  <2> SUFFICES ASSUME RunInv, NoneUnready, [Next]_vars PROVE NoneUnready'
    OBVIOUS
  <2> USE DEF NoneUnready
  <2>1. CASE PhaseStep \/ Interrupt \/ UNCHANGED vars
    BY <2>1
    DEF PhaseStep, Interrupt, Compile, CreateBaseline, Prefill, ApplyDdl, EndRun, Fail, vars
  <2>2. ASSUME NEW j \in Job, StartJob(j) PROVE NoneUnready'
    BY <2>2 DEF StartJob, RunInv, TypeOK
  <2>3. ASSUME NEW j \in Job, FailJob(j) PROVE NoneUnready'
    BY <2>3 DEF FailJob, RunInv, TypeOK
  <2>4. ASSUME NEW j \in Job, BlockJob(j) \/ Succeed(j) PROVE NoneUnready'
    BY <2>4 DEF BlockJob, Succeed
  <2>5. ASSUME NEW j \in Job, NEW b \in SUBSET Slice, BeginBatch(j, b) PROVE NoneUnready'
    BY <2>5 DEF BeginBatch, RunInv, TypeOK
  <2>6. ASSUME NEW j \in Job, NEW b \in SUBSET Slice, EndBatch(j, b) PROVE NoneUnready'
    <3>1. PICK end \in {"done", "failed"} : batch' = [batch EXCEPT ![j][b] = end]
      BY <2>6, EndBatchEffect DEF RunInv
    <3> QED
      BY <3>1 DEF RunInv, TypeOK
  <2>7. ASSUME NEW j \in Job, NEW b \in SUBSET Slice, Acquire(j, b) PROVE NoneUnready'
    <3>1. state[j] \notin Untouched
      BY <2>7 DEF Acquire, RunInv, BatchInv
    <3>2. ASSUME NEW t \in Required(plan, j) PROVE t \in ready
      <4>1. PICK w \in Preceding(plan, t, j) : TRUE
        BY <3>2 DEF Required
      <4>2. w \in Job /\ t \in plan.out[w] /\ w # j /\ Reaches(plan.up, w, j)
        BY DEF Preceding, Writers
      <4>3. state[w] = "success"
        BY <3>1, <4>2, UpstreamDone
      <4> QED
        BY <4>2, <4>3 DEF RunInv, ReadyInv
    <3>3. batch' = [batch EXCEPT ![j][b] = "executing"]
      BY <2>7, <3>2 DEF Acquire
    <3> QED
      BY <3>3 DEF RunInv, TypeOK
  <2> QED
    BY <2>1, <2>2, <2>3, <2>4, <2>5, <2>6, <2>7 DEF Next, Progress, JobStep
<1>3. RunInv /\ NoneUnready => NeverUnready
  <2>1. RunInv => plan \in Plan
    BY DEF RunInv, TypeOK
  <2> QED
    BY <2>1, BatchesCover DEF NeverUnready, BatchesIn, NoneUnready
<1> QED
  BY <1>1, <1>2, <1>3, RunInvariant, PTL DEF Spec

-----------------------------------------------------------------------------
\* A slice that a job is known to write, and has written, is in the slot.
LEMMA KnownWritten ==
    ASSUME RunInv, NEW w \in Job, NEW t \in Table, t \in plan.out[w],
           state[w] = "success", NEW s \in Knows(w, t)
    PROVE  s \in Slice /\ rows[t][s] \in Job
<1>1. plan \in Plan /\ plan.values[w] \subseteq Slice
  BY DEF RunInv, TypeOK, Plan
<1>2. Coverage(plan, w, t) # Unknown /\ s \in Coverage(plan, w, t)
  BY DEF Knows
<1>3. /\ t = plan.target[w] /\ s \in Slice
      /\ plan.sliced[w] => s \in plan.values[w]
  BY <1>1, <1>2 DEF Coverage
<1>4. PICK b \in Batches(plan, w) : s \in b
  BY <1>1, <1>3, BatchesCover
<1>5. b \in SUBSET Slice
  BY <1>1, BatchesCover
<1>6. batch[w][b] = "done"
  BY <1>5 DEF RunInv, BatchInv
<1> QED
  BY <1>3, <1>4, <1>5, <1>6 DEF RunInv, WrittenInv

\* A read that needs no prefill reads what preceding writers are known to write.
LEMMA CoveredRead ==
    ASSUME NEW p \in Plan, NEW t \in Relations(p), NEW j \in Job,
           ~NeedsPrefill(p, t, j), NEW s \in Meant(p.reads[j][t])
    PROVE  \E w \in Preceding(p, t, j) :
             Coverage(p, w, t) # Unknown /\ s \in Coverage(p, w, t)
<1> DEFINE known == {Coverage(p, w, t) : w \in Preceding(p, t, j)}
<1>1. {} # Unknown /\ Slice # Unknown
  BY NameAssumption
<1>2. p.reads[j][t] # {}
  BY <1>1 DEF Meant
<1>3. Within(p.reads[j][t], Written(p, t, j))
  BY <1>2 DEF NeedsPrefill
<1>4. Written(p, t, j) = IF Unknown \in known THEN Unknown ELSE UNION known
  BY DEF Written
<1>5. Unknown \notin known /\ s \in UNION known
  <2>1. t \in Table /\ p.reads[j][t] \in Scope
    <3>1. /\ p.ddl \subseteq Table /\ p.created \subseteq Table
          /\ p.dropped \subseteq Table /\ \A k \in Job : p.out[k] \subseteq Table
          /\ p.reads \in [Job -> [Table -> Scope]]
      BY DEF Plan
    <3> QED
      BY <3>1 DEF Relations
  <2>2. s \in Slice
    BY <2>1 DEF Meant, Scope
  <2>3. CASE Written(p, t, j) = Slice
    BY <1>1, <1>4, <2>2, <2>3
  <2>4. CASE Unknown \notin {p.reads[j][t], Written(p, t, j)}
             /\ p.reads[j][t] \subseteq Written(p, t, j)
    BY <1>4, <2>4 DEF Meant
  <2> QED
    BY <1>2, <1>3, <2>3, <2>4 DEF Within
<1> QED
  BY <1>5

(* Every row that a statement needs is in the slot, and is a recomputed    *)
(* one if a preceding job was planned to recompute it: the manifest's case *)
(* analysis leaves no read between prefill and recomputation.              *)
THEOREM Fresh == Spec => []ReadsFresh
<1>1. RunInv => ReadsFresh
  <2> SUFFICES ASSUME RunInv, NEW j \in Job, NEW t \in Relations(plan),
                      BatchesIn(j, {"executing"}) # {}, NEW s \in Needed(j, t)
               PROVE  /\ rows[t][s] # Empty
                      /\ \A w \in Preceding(plan, t, j) : s \in Knows(w, t) => rows[t][s] \in Job
    BY DEF ReadsFresh
  <2>1. plan \in Plan /\ t \in Table
    <3>1. plan \in Plan
      BY DEF RunInv, TypeOK
    <3>2. /\ plan.ddl \subseteq Table /\ plan.created \subseteq Table
          /\ plan.dropped \subseteq Table /\ \A k \in Job : plan.out[k] \subseteq Table
      BY <3>1 DEF Plan
    <3> QED
      BY <3>1, <3>2 DEF Relations
  <2>2. \A w \in Preceding(plan, t, j) : s \in Knows(w, t) => rows[t][s] \in Job
    BY <2>1, Executing, KnownWritten
  <2>3. /\ ~Blocked(plan)
        /\ t \notin plan.dropped => \A x \in Prefilled(plan, t) : rows[t][x] # Empty
    <3>1. state[j] # "waiting"
      BY Executing DEF Untouched
    <3> QED
      BY <2>1, <3>1 DEF RunInv, CompileInv, LoadInv
  <2>4. CASE s \in Meant(plan.reads[j][t])
    <3>1. t \notin plan.dropped
      <4>1. plan.reads[j][t] # {}
        BY <2>4, NameAssumption DEF Meant
      <4> QED
        BY <2>1, <2>3, <4>1 DEF Blocked
    <3>2. CASE NeedsPrefill(plan, t, j)
      <4>1. s \in Prefilled(plan, t)
        BY <2>4, <3>2 DEF Prefilled
      <4> QED
        BY <2>2, <2>3, <3>1, <4>1
    <3>3. CASE ~NeedsPrefill(plan, t, j)
      <4>1. PICK w \in Preceding(plan, t, j) :
              Coverage(plan, w, t) # Unknown /\ s \in Coverage(plan, w, t)
        BY <2>1, <2>4, <3>3, CoveredRead
      <4>2. rows[t][s] \in Job
        BY <2>2, <4>1 DEF Knows
      <4> QED
        BY <2>2, <4>2, NameAssumption
    <3> QED
      BY <3>2, <3>3
  <2>5. CASE s \notin Meant(plan.reads[j][t])
    <3>1. t = plan.target[j] /\ t \notin plan.dropped /\ s \in Meant(plan.mutates[j])
      BY <2>5 DEF Needed
    <3>2. s \in Prefilled(plan, t)
      BY <3>1 DEF Prefilled
    <3> QED
      BY <2>2, <2>3, <3>1, <3>2
  <2> QED
    BY <2>4, <2>5
<1> QED
  BY <1>1, RunInvariant, PTL

-----------------------------------------------------------------------------
(* A completed execution is whole: no batch is under way, and every slice  *)
(* of every target that was planned has been recomputed.                   *)
THEOREM Whole == Spec => []CompletedWhole
<1>1. RunInv => CompletedWhole
  <2> SUFFICES ASSUME RunInv, phase = "completed"
               PROVE  /\ InFlight = {}
                      /\ \A j \in Job : \A b \in Batches(plan, j) : \A s \in b :
                           rows[plan.target[j]][s] \in Job
    BY DEF CompletedWhole
  <2>1. \A j \in Job : state[j] = "success"
    BY DEF RunInv, PhaseInv
  <2>2. \A j \in Job, b \in SUBSET Slice : batch[j][b] \in {"none", "done"}
    BY <2>1 DEF RunInv, BatchInv
  <2>3. InFlight = {}
    BY <2>2 DEF InFlight, AllIn, Started
  <2>4. ASSUME NEW j \in Job, NEW b \in Batches(plan, j)
        PROVE  b \in SUBSET Slice /\ batch[j][b] = "done"
    <3>1. b \in SUBSET Slice
      BY BatchesCover DEF RunInv, TypeOK
    <3> QED
      BY <2>1, <3>1 DEF RunInv, BatchInv
  <2>5. \A j \in Job : \A b \in Batches(plan, j) : \A s \in b : rows[plan.target[j]][s] \in Job
    BY <2>4 DEF RunInv, WrittenInv
  <2> QED
    BY <2>3, <2>5
<1> QED
  BY <1>1, RunInvariant, PTL

-----------------------------------------------------------------------------
(* The order of the batches of one job.  Chunks of a sorted list of values *)
(* lie one after the other, and a serial job begins with the lowest that   *)
(* is queued, when nothing of it is under way and nothing has failed.      *)

\* A later slice has no fewer slices before it.
LEMMA PositionRises ==
    ASSUME NEW V \in SUBSET Slice, NEW s \in Slice, NEW r \in Slice, s <= r
    PROVE  Position(V, s) \in Nat /\ Position(V, r) \in Nat /\ Position(V, s) <= Position(V, r)
<1>1. IsFiniteSet(Slice) /\ Slice \subseteq Nat
  BY SizeAssumption
<1>2. IsFiniteSet({x \in V : x < r})
  BY <1>1, FS_Subset
<1>3. {x \in V : x < s} \subseteq {x \in V : x < r}
  <2>1. ASSUME NEW x \in V, x < s PROVE x < r
    <3>1. x \in Nat /\ s \in Nat /\ r \in Nat
      BY <1>1
    <3> QED
      BY <2>1, <3>1
  <2> QED
    BY <2>1
<1>4. IsFiniteSet({x \in V : x < s})
  BY <1>2, <1>3, FS_Subset
<1> QED
  BY <1>2, <1>3, <1>4, FS_Subset, FS_CardinalityType DEF Position

\* Whole numbers of batches keep the order.
LEMMA QuotientRises ==
    ASSUME NEW m \in Nat, NEW n \in Nat, m <= n, NEW k \in Nat \ {0}
    PROVE  m \div k \in Nat /\ n \div k \in Nat /\ m \div k <= n \div k
OBVIOUS

\* Of two batches of a job one lies before the other, and never both.
LEMMA BatchesOrdered ==
    ASSUME NEW p \in Plan, NEW j \in Job,
           NEW b \in Batches(p, j), NEW c \in Batches(p, j), b # c
    PROVE  /\ Before(b, c) \/ Before(c, b)
           /\ ~(Before(b, c) /\ Before(c, b))
<1>1. p.values[j] \in SUBSET Slice /\ Slice \subseteq Nat /\ BatchSize \in Nat \ {0}
  BY SizeAssumption DEF Plan
<1> DEFINE V == p.values[j]
           Index(s) == Position(V, s) \div BatchSize
<1>2. p.sliced[j]
  BY DEF Batches
<1>3. PICK v \in V, w \in V : b = Chunk(V, v) /\ c = Chunk(V, w)
  BY <1>2 DEF Batches
<1>4. /\ \A x \in b : x \in Slice /\ Index(x) = Index(v)
      /\ \A y \in c : y \in Slice /\ Index(y) = Index(w)
      /\ v \in b /\ w \in c /\ v \in Slice /\ w \in Slice
  BY <1>1, <1>3 DEF Chunk
<1>5. Index(v) # Index(w)
  BY <1>3 DEF Chunk
<1>6. \A x \in Slice, y \in Slice : x <= y =>
        Index(x) \in Nat /\ Index(y) \in Nat /\ Index(x) <= Index(y)
  <2>1. ASSUME NEW x \in Slice, NEW y \in Slice, x <= y
        PROVE  Index(x) \in Nat /\ Index(y) \in Nat /\ Index(x) <= Index(y)
    <3>1. Position(V, x) \in Nat /\ Position(V, y) \in Nat /\ Position(V, x) <= Position(V, y)
      BY <1>1, <2>1, PositionRises
    <3> QED
      BY <1>1, <3>1, QuotientRises
  <2> QED
    BY <2>1
<1>7. Index(v) \in Nat /\ Index(w) \in Nat
  BY <1>1, <1>4, <1>6
<1> HIDE DEF Index, V
<1>8. ASSUME Index(v) < Index(w), NEW x \in b, NEW y \in c
      PROVE  x < y
  <2>1. x \in Slice /\ y \in Slice /\ Index(x) = Index(v) /\ Index(y) = Index(w)
    BY <1>4
  <2>2. y <= x => Index(y) <= Index(x)
    BY <1>6, <2>1
  <2>3. ~(y <= x)
    BY <1>7, <1>8, <2>1, <2>2
  <2>4. x \in Nat /\ y \in Nat
    BY <1>1, <2>1
  <2> QED
    BY <2>3, <2>4
<1>9. ASSUME Index(w) < Index(v), NEW x \in b, NEW y \in c
      PROVE  y < x
  <2>1. x \in Slice /\ y \in Slice /\ Index(x) = Index(v) /\ Index(y) = Index(w)
    BY <1>4
  <2>2. x <= y => Index(x) <= Index(y)
    BY <1>6, <2>1
  <2>3. ~(x <= y)
    BY <1>7, <1>9, <2>1, <2>2
  <2>4. x \in Nat /\ y \in Nat
    BY <1>1, <2>1
  <2> QED
    BY <2>3, <2>4
<1>10. Before(b, c) \/ Before(c, b)
  BY <1>5, <1>7, <1>8, <1>9 DEF Before
<1>11. ~(Before(b, c) /\ Before(c, b))
  BY <1>1, <1>4 DEF Before
<1> QED
  BY <1>10, <1>11

Turn(j, b, c) ==
    /\ batch[j][c] # "none"
    /\ batch[j][b] \in Started => batch[j][c] = IF Before(c, b) THEN "done" ELSE "queued"
    /\ batch[j][b] \in {"failed", "unready"} =>
         batch[j][c] \in IF Before(c, b) THEN {"done"} ELSE {"queued", "cancelled"}
    /\ batch[j][b] = "done" /\ Before(c, b) => batch[j][c] = "done"
    /\ batch[j][b] = "cancelled" => batch[j][c] # "queued"

TurnInv ==
    \A j \in Job : Serial(plan, j) /\ state[j] \notin Untouched =>
        \A b, c \in Batches(plan, j) : b # c => Turn(j, b, c)

LEMMA TurnInit == Init => TurnInv
BY DEF Init, TurnInv, Untouched

\* Steps that leave the batches alone start no job.
LEMMA TurnQuiet ==
    ASSUME TurnInv, UNCHANGED <<plan, batch>>,
           \A j \in Job : state'[j] \notin Untouched => state[j] \notin Untouched
    PROVE  TurnInv'
BY DEF TurnInv, Turn, Serial

\* Steps of one batch that is not done yet.
LEMMA TurnBatch ==
    ASSUME RunInv, TurnInv, NEW j \in Job, NEW b \in SUBSET Slice,
           BeginBatch(j, b) \/ Acquire(j, b) \/ EndBatch(j, b)
    PROVE  TurnInv'
<1>1. UNCHANGED <<plan, state>> /\ plan \in Plan
  BY DEF BeginBatch, Acquire, EndBatch, RunInv, TypeOK
<1>2. /\ \A k \in Job, c \in SUBSET Slice : <<k, c>> # <<j, b>> => batch'[k][c] = batch[k][c]
      /\ \/ batch[j][b] = "queued" /\ batch'[j][b] = "waiting"
         \/ batch[j][b] = "waiting" /\ batch'[j][b] \in {"executing", "unready"}
         \/ batch[j][b] = "executing" /\ batch'[j][b] \in {"done", "failed"}
  <2>1. CASE BeginBatch(j, b)
    BY <2>1 DEF BeginBatch, RunInv, TypeOK
  <2>2. CASE Acquire(j, b)
    BY <2>2 DEF Acquire, RunInv, TypeOK
  <2>3. CASE EndBatch(j, b)
    <3>1. PICK end \in {"done", "failed"} : batch' = [batch EXCEPT ![j][b] = end]
      BY <2>3, EndBatchEffect DEF RunInv
    <3> QED
      BY <2>3, <3>1 DEF EndBatch, RunInv, TypeOK
  <2> QED
    BY <2>1, <2>2, <2>3
<1>3. \A k \in Job : Batches(plan, k) \subseteq SUBSET Slice
  BY <1>1, BatchesCover
<1>4. b \in Batches(plan, j) /\ state[j] \notin Untouched
  BY <1>2 DEF RunInv, BatchInv
<1>5. ASSUME NEW k \in Job, k # j, Serial(plan, k), state[k] \notin Untouched,
             NEW c \in Batches(plan, k), NEW d \in Batches(plan, k), c # d
      PROVE  Turn(k, c, d)'
  <2>1. Turn(k, c, d)
    BY <1>5 DEF TurnInv
  <2>2. batch'[k][c] = batch[k][c] /\ batch'[k][d] = batch[k][d]
    BY <1>2, <1>3, <1>5
  <2> QED
    BY <2>1, <2>2 DEF Turn
<1>6. ASSUME Serial(plan, j), NEW c \in Batches(plan, j), NEW d \in Batches(plan, j), c # d
      PROVE  Turn(j, c, d)'
  <2>1. Turn(j, c, d) /\ Turn(j, d, c)
    BY <1>4, <1>6 DEF TurnInv
  <2>2. \A a \in Batches(plan, j) : a # b => batch'[j][a] = batch[j][a]
    BY <1>2, <1>3
  <2>3. /\ Before(c, d) \/ Before(d, c)
        /\ ~(Before(c, d) /\ Before(d, c))
    BY <1>1, <1>6, BatchesOrdered
  <2>4. CASE c # b /\ d # b
    BY <2>1, <2>2, <2>4 DEF Turn
  <2>5. CASE BeginBatch(j, b) /\ b \in {c, d}
    <3>1. /\ \A a \in BatchesIn(j, {"queued"}) : a = b \/ Before(b, a)
          /\ BatchesIn(j, Started \cup {"failed", "unready"}) = {}
          /\ batch[j][b] = "queued" /\ batch'[j][b] = "waiting"
      BY <1>2, <1>6, <2>5 DEF BeginBatch
    <3>2. /\ batch[j][c] \notin Started \cup {"failed", "unready"}
          /\ batch[j][d] \notin Started \cup {"failed", "unready"}
          /\ batch[j][c] = "queued" => c = b \/ Before(b, c)
          /\ batch[j][d] = "queued" => d = b \/ Before(b, d)
      BY <1>6, <3>1 DEF BatchesIn
    <3>3. batch[j] \in [SUBSET Slice -> {"none", "queued", "cancelled"} \cup Started \cup Ended]
      BY DEF RunInv, TypeOK
    <3>4. /\ batch[j][c] \in {"none", "queued", "cancelled"} \cup Started \cup Ended
          /\ batch[j][d] \in {"none", "queued", "cancelled"} \cup Started \cup Ended
      BY <1>3, <1>6, <3>3
    <3>5. batch'[j][c] = (IF c = b THEN "waiting" ELSE batch[j][c])
          /\ batch'[j][d] = (IF d = b THEN "waiting" ELSE batch[j][d])
      BY <2>2, <3>1, <1>6
    <3> HIDE DEF Before
    <3> QED
      BY <1>6, <2>1, <2>3, <2>5, <3>1, <3>2, <3>4, <3>5 DEF Turn, Started, Ended
  <2>6. CASE ~BeginBatch(j, b) /\ b \in {c, d}
    <3>1. \/ batch[j][b] = "waiting" /\ batch'[j][b] \in {"executing", "unready"}
          \/ batch[j][b] = "executing" /\ batch'[j][b] \in {"done", "failed"}
      BY <1>2, <2>6 DEF Acquire, EndBatch
    <3>2. (c # b => batch'[j][c] = batch[j][c]) /\ (d # b => batch'[j][d] = batch[j][d])
      BY <1>6, <2>2
    <3> HIDE DEF Before
    <3> QED
      BY <1>6, <2>1, <2>3, <2>6, <3>1, <3>2 DEF Turn, Started
  <2> QED
    BY <2>4, <2>5, <2>6
<1>7. \A k \in Job : Serial(plan, k)' = Serial(plan, k) /\ Batches(plan, k)' = Batches(plan, k)
  BY <1>1 DEF Serial, Batches
<1> QED
  BY <1>1, <1>4, <1>5, <1>6, <1>7 DEF TurnInv

LEMMA TurnStep == RunInv /\ TurnInv /\ [Next]_vars => TurnInv'
<1> SUFFICES ASSUME RunInv, TurnInv, [Next]_vars PROVE TurnInv'
  OBVIOUS
<1>1. CASE PhaseStep \/ Interrupt \/ UNCHANGED vars
  <2>1. UNCHANGED <<plan, state, batch>>
    BY <1>1 DEF PhaseStep, Compile, CreateBaseline, Prefill, ApplyDdl, EndRun, Fail, Interrupt, vars
  <2> QED
    BY <2>1, TurnQuiet
<1>2. ASSUME NEW j \in Job, BlockJob(j) \/ Succeed(j) PROVE TurnInv'
  <2>1. UNCHANGED <<plan, batch>> /\ \A k \in Job : k # j => state'[k] = state[k]
    BY <1>2 DEF BlockJob, Succeed, RunInv, TypeOK
  <2>2. state'[j] \notin Untouched => state[j] \notin Untouched
    BY <1>2 DEF BlockJob, Succeed, RunInv, TypeOK, Untouched
  <2> QED
    BY <2>1, <2>2, TurnQuiet
<1>3. ASSUME NEW j \in Job, StartJob(j) \/ FailJob(j) PROVE TurnInv'
  <2>1. /\ UNCHANGED plan /\ plan \in Plan
        /\ \A k \in Job : k # j => state'[k] = state[k] /\ batch'[k] = batch[k]
        /\ state[j] \in {"waiting", "running"} /\ state'[j] \notin Untouched
    BY <1>3 DEF StartJob, FailJob, Startable, RunInv, TypeOK, Untouched
  <2>2. Batches(plan, j) \subseteq SUBSET Slice
    BY <2>1, BatchesCover
  <2>3. ASSUME Serial(plan, j), NEW b \in Batches(plan, j), NEW c \in Batches(plan, j), b # c
        PROVE  Turn(j, b, c)'
    <3>1. CASE StartJob(j)
      <4>1. batch'[j][b] = "queued" /\ batch'[j][c] = "queued"
        BY <2>2, <2>3, <3>1 DEF StartJob, RunInv, TypeOK
      <4> QED
        BY <4>1 DEF Turn, Started
    <3>2. CASE FailJob(j)
      <4>1. /\ state[j] = "running"
            /\ batch'[j][b] = (IF batch[j][b] = "queued" THEN "cancelled" ELSE batch[j][b])
            /\ batch'[j][c] = (IF batch[j][c] = "queued" THEN "cancelled" ELSE batch[j][c])
            /\ \/ Batches(plan, j) = BatchesIn(j, {"queued"})
               \/ BatchesIn(j, {"failed", "unready"}) # {}
        BY <2>2, <2>3, <3>2 DEF FailJob, RunInv, TypeOK
      <4>2. \A a \in Batches(plan, j) : a # b => Turn(j, b, a)
        BY <2>3, <4>1 DEF TurnInv, Untouched
      <4>3. Turn(j, b, c) /\ Turn(j, c, b)
        BY <2>3, <4>1 DEF TurnInv, Untouched
      <4>4. CASE Batches(plan, j) = BatchesIn(j, {"queued"})
        <5>1. batch'[j][b] = "cancelled" /\ batch'[j][c] = "cancelled"
          BY <2>3, <4>1, <4>4 DEF BatchesIn
        <5> QED
          BY <5>1 DEF Turn, Started
      <4>5. CASE BatchesIn(j, {"failed", "unready"}) # {}
        <5>1. PICK f \in Batches(plan, j) : batch[j][f] \in {"failed", "unready"}
          BY <4>5 DEF BatchesIn
        <5>2. batch[j][b] \notin Started
          BY <4>2, <5>1 DEF Turn, Started
        <5> QED
          BY <4>1, <4>3, <5>2 DEF Turn, Started
      <4> QED
        BY <4>1, <4>4, <4>5
    <3> QED
      BY <1>3, <3>1, <3>2
  <2>4. ASSUME NEW k \in Job, k # j, Serial(plan, k), state'[k] \notin Untouched,
               NEW b \in Batches(plan, k), NEW c \in Batches(plan, k), b # c
        PROVE  Turn(k, b, c)'
    BY <2>1, <2>4 DEF TurnInv, Turn
  <2>5. \A k \in Job : Serial(plan, k)' = Serial(plan, k) /\ Batches(plan, k)' = Batches(plan, k)
    BY <2>1 DEF Serial, Batches
  <2> QED
    BY <2>3, <2>4, <2>5 DEF TurnInv
<1> QED
  BY <1>1, <1>2, <1>3, TurnBatch DEF Next, Progress, JobStep

(* A job that builds on its own rows works through its slices from the     *)
(* first to the last: while one batch runs, all earlier ones are done and  *)
(* no later one has begun, whatever the batch size and the parallelism.    *)
THEOREM InOrder == Spec => []SlicesInOrder
<1>1. Spec => [](RunInv /\ TurnInv)
  BY RunInit, RunStep, TurnInit, TurnStep, PTL DEF Spec
<1>2. RunInv /\ TurnInv => SlicesInOrder
  <2> SUFFICES ASSUME RunInv, TurnInv, NEW j \in Job, SelfReads(plan, j) \/ plan.stages[j],
                      NEW b \in BatchesIn(j, {"executing"}), NEW c \in Batches(plan, j) \ {b}
               PROVE  batch[j][c] = IF Before(c, b) THEN "done" ELSE "queued"
    BY DEF SlicesInOrder
  <2>1. b \in Batches(plan, j) /\ batch[j][b] = "executing" /\ Serial(plan, j)
    BY DEF BatchesIn, Serial
  <2>2. state[j] \notin Untouched
    <3>1. b \in SUBSET Slice
      BY <2>1, BatchesCover DEF RunInv, TypeOK
    <3> QED
      BY <2>1, <3>1 DEF RunInv, BatchInv
  <2>3. Turn(j, b, c)
    BY <2>1, <2>2 DEF TurnInv
  <2> QED
    BY <2>1, <2>3 DEF Turn, Started
<1> QED
  BY <1>1, <1>2, PTL

-----------------------------------------------------------------------------
(* The jobs of an execution are run as JobRun promises.                    *)
DagRun == INSTANCE JobRun WITH upstream <- plan.up

\* The executor's conditions, as the promise states them.
LEMMA ConditionsOfJobs ==
    ASSUME NEW j \in Job
    PROVE  /\ Startable(plan.up, state, j) => DagRun!Startable(plan.up, state, j)
           /\ Blockable(plan.up, state, j) => DagRun!Blockable(plan.up, state, j)
           /\ Cardinality({k \in Job : state[k] = "running"}) = DagRun!Cardinality(DagRun!Running)
<1>1. DagRun!Cardinality(DagRun!Running) = Cardinality(DagRun!Running)
  BY DEF DagRun!Cardinality, Cardinality
<1>2. /\ Startable(plan.up, state, j) => DagRun!Startable(plan.up, state, j)
      /\ Blockable(plan.up, state, j) => DagRun!Blockable(plan.up, state, j)
  BY DEF Startable, Blockable, Resolved, Terminal, Outcome,
         DagRun!Startable, DagRun!Blockable, DagRun!Resolved, DagRun!Terminal, DagRun!Outcome
<1> QED BY <1>1, <1>2 DEF DagRun!Running

\* Steps of batches, phases and interrupts are not seen; a job that returns, with all
\* its batches or with threads left running, finishes.
LEMMA StepOfJobs == [Next]_vars => [DagRun!Next]_(DagRun!vars)
<1> SUFFICES ASSUME [Next]_vars PROVE [DagRun!Next]_(DagRun!vars)
  OBVIOUS
<1>0. UNCHANGED plan
  BY DEF Next, Progress, PhaseStep, JobStep, Compile, CreateBaseline, Prefill, ApplyDdl, EndRun, Fail,
         StartJob, BlockJob, Succeed, FailJob, BeginBatch, Acquire, EndBatch, Interrupt, vars
<1>1. ASSUME NEW j \in Job, StartJob(j) PROVE DagRun!Next
  <2>1. DagRun!Start(j)
    BY <1>0, <1>1, ConditionsOfJobs DEF StartJob, DagRun!Start
  <2> QED BY <2>1 DEF DagRun!Next
<1>2. ASSUME NEW j \in Job, BlockJob(j) PROVE DagRun!Next
  <2>1. DagRun!Block(j)
    BY <1>0, <1>2, ConditionsOfJobs DEF BlockJob, DagRun!Block
  <2> QED BY <2>1 DEF DagRun!Next
<1>3. ASSUME NEW j \in Job, Succeed(j) \/ FailJob(j) PROVE DagRun!Next
  <2>1. DagRun!Finish(j)
    BY <1>0, <1>3 DEF Succeed, FailJob, DagRun!Finish, DagRun!Outcome
  <2> QED BY <2>1 DEF DagRun!Next
<1>4. ASSUME UNCHANGED state PROVE UNCHANGED DagRun!vars
  BY <1>0, <1>4 DEF DagRun!vars
<1>5. ASSUME NEW j \in Job, NEW b \in SUBSET Slice, BeginBatch(j, b) \/ Acquire(j, b) \/ EndBatch(j, b)
      PROVE  UNCHANGED state
  BY <1>5 DEF BeginBatch, Acquire, EndBatch
<1>6. ASSUME PhaseStep \/ Interrupt \/ UNCHANGED vars PROVE UNCHANGED state
  BY <1>6 DEF PhaseStep, Compile, CreateBaseline, Prefill, ApplyDdl, EndRun, Fail, Interrupt, vars
<1> QED BY <1>1, <1>2, <1>3, <1>4, <1>5, <1>6 DEF Next, Progress, JobStep

\* Whatever becomes of the batches of its jobs, and of the threads that failed jobs leave
\* behind, a shadow execution runs its jobs as JobRun promises: once each, after all
\* their upstreams have succeeded, at most Parallel at a time, each with one final result
\* (execute_dag with _execute_shadow_job as its callback).
THEOREM RunsJobs == Spec => DagRun!Spec
<1>1. Init => DagRun!Init
  <2> SUFFICES ASSUME Init PROVE DagRun!Init
    OBVIOUS
  <2>1. plan.up \in [Job -> SUBSET Job]
    BY PlansAssumption DEF Init, Plan
  <2> QED BY <2>1 DEF Init, DagRun!Init
<1> QED BY <1>1, StepOfJobs, PTL DEF Spec, DagRun!Spec

-----------------------------------------------------------------------------
(* Scopes.                                                                 *)

(* A scope that is not known, or that ended the command, may be any row.   *)
Allows(s, v) == s.kind \in {"unknown", "error"} \/ Describes(s, v)
\* All values of a scope are of one type.
Typed(s, type) ==
    /\ \A w \in s.points : w.type = type
    /\ \A i \in s.intervals : /\ i.from.value # None => i.from.value.type = type
                              /\ i.to.value # None => i.to.value.type = type

(* Bounds look at instants only. *)
LEMMA SameInstant ==
    ASSUME NEW w \in Value, NEW b
    PROVE  /\ From(Date(w.at), b) <=> From(w, b)
           /\ To(Date(w.at), b) <=> To(w, b)
BY DEF From, To, Date

(* Points and intervals put together describe what each of them does.       *)
LEMMA FromPartsAllows ==
    ASSUME NEW points \in SUBSET Value, NEW intervals \in SUBSET Interval, NEW v,
           \/ \E w \in points : w.at = v
           \/ \E i \in intervals : From(Date(v), i.from) /\ To(Date(v), i.to)
    PROVE  Allows(FromParts(points, intervals), v)
<1> DEFINE apart == {w \in points : \A i \in intervals : ~Inside(w, i)}
<1>1. CASE \E w, x \in points : ~Comparable(w, x)
  BY <1>1 DEF FromParts, Allows, Plain
<1>2. CASE \E i \in intervals : From(Date(v), i.from) /\ To(Date(v), i.to)
  BY <1>1, <1>2 DEF FromParts, Allows, Describes
<1>3. ASSUME NEW w \in points, w.at = v, NEW i \in intervals, Inside(w, i)
      PROVE  \E j \in intervals : From(Date(v), j.from) /\ To(Date(v), j.to)
  BY <1>3, SameInstant DEF Inside
<1>4. CASE \E w \in apart : w.at = v
  <2> ~ (\E w, x \in points : ~Comparable(w, x)) => FromParts(points, intervals) = [kind |-> "parts", points |-> apart, intervals |-> intervals]
    BY <1>4 DEF FromParts
  <2> QED  BY <1>1, <1>4 DEF Allows, Describes
<1> QED  BY <1>2, <1>3, <1>4

(* They make a scope of no other points and intervals.                      *)
LEMMA FromPartsScope ==
    ASSUME NEW points \in SUBSET Value, NEW intervals \in SUBSET Interval
    PROVE  /\ FromParts(points, intervals) \in RowScope
           /\ FromParts(points, intervals).points \subseteq points
           /\ FromParts(points, intervals).intervals \subseteq intervals
           /\ FromParts(points, intervals).kind \in {"error", "empty", "parts"}
BY DEF FromParts, RowScope, Plain, NoRows

LEMMA PlainScopes == {NoRows, AllRows, UnknownRows, Plain("error")} \subseteq RowScope
BY DEF NoRows, AllRows, UnknownRows, Plain, RowScope

(* The union of two scopes describes what each of them does.                *)
LEMMA UnionAllows ==
    ASSUME NEW s \in RowScope, NEW t \in RowScope
    PROVE  /\ Union(s, t) \in RowScope
           /\ \A v : Allows(s, v) \/ Allows(t, v) => Allows(Union(s, t), v)
           /\ \A type : Typed(s, type) /\ Typed(t, type) => Typed(Union(s, t), type)
<1>1. s.points \cup t.points \in SUBSET Value /\ s.intervals \cup t.intervals \in SUBSET Interval
  BY DEF RowScope
<1>2. Union(s, t) \in RowScope
  BY <1>1, FromPartsScope, PlainScopes DEF Union
<1>3. ASSUME NEW v, Allows(s, v) \/ Allows(t, v) PROVE Allows(Union(s, t), v)
  <2>1. CASE Either(s, t, "error") \/ Either(s, t, "unknown") \/ Either(s, t, "all")
    BY <2>1 DEF Union, Either, Allows, Describes, Plain, UnknownRows, AllRows
  <2>2. CASE ~(Either(s, t, "error") \/ Either(s, t, "unknown") \/ Either(s, t, "all"))
    <3>1. Union(s, t) = FromParts(s.points \cup t.points, s.intervals \cup t.intervals)
      BY <2>2 DEF Union
    <3>2. \/ \E w \in s.points \cup t.points : w.at = v
          \/ \E i \in s.intervals \cup t.intervals : From(Date(v), i.from) /\ To(Date(v), i.to)
      BY <1>3, <2>2 DEF Allows, Describes, Either
    <3> QED  BY <1>1, <3>1, <3>2, FromPartsAllows
  <2> QED  BY <2>1, <2>2
<1>4. ASSUME NEW type, Typed(s, type), Typed(t, type) PROVE Typed(Union(s, t), type)
  <2>1. \/ Union(s, t) = FromParts(s.points \cup t.points, s.intervals \cup t.intervals)
        \/ Union(s, t) \in {UnknownRows, AllRows, Plain("error")}
    BY DEF Union
  <2>2. /\ Union(s, t).points \subseteq s.points \cup t.points
        /\ Union(s, t).intervals \subseteq s.intervals \cup t.intervals
    <3>1. CASE Union(s, t) = FromParts(s.points \cup t.points, s.intervals \cup t.intervals)
      BY <1>1, <3>1, FromPartsScope
    <3>2. CASE Union(s, t) \in {UnknownRows, AllRows, Plain("error")}
      BY <3>2 DEF UnknownRows, AllRows, Plain
    <3> QED  BY <2>1, <3>1, <3>2
  <2> QED  BY <1>4, <2>2 DEF Typed
<1> QED  BY <1>2, <1>3, <1>4

(* The tighter of two bounds lets through what both do; an instant between two *)
(* bounds shows that there is something between them.                       *)
LEMMA BoundsHold ==
    ASSUME NEW b \in Bound, NEW c \in Bound, NEW v \in Instant
    PROVE  /\ Later(b, c) \in Bound /\ Earlier(b, c) \in Bound
           /\ From(Date(v), b) /\ From(Date(v), c) <=> From(Date(v), Later(b, c))
           /\ To(Date(v), b) /\ To(Date(v), c) <=> To(Date(v), Earlier(b, c))
           /\ From(Date(v), b) /\ To(Date(v), c) => ~Hollow(b, c)
<1>1. Later(b, c) \in Bound /\ Earlier(b, c) \in Bound
  BY DEF Later, Earlier, Tighter, Bound
<1>2. /\ b.value # None => b.value.at \in Int
      /\ c.value # None => c.value.at \in Int
      /\ v \in Int /\ Date(v).at = v
  BY InstantAssumption DEF Bound, Value, Date
<1>3. From(Date(v), b) /\ From(Date(v), c) <=> From(Date(v), Later(b, c))
  BY <1>2 DEF Later, Tighter, From, Bound
<1>4. To(Date(v), b) /\ To(Date(v), c) <=> To(Date(v), Earlier(b, c))
  BY <1>2 DEF Earlier, Tighter, To, Bound
<1>5. From(Date(v), b) /\ To(Date(v), c) => ~Hollow(b, c)
  BY <1>2 DEF Hollow, From, To, Bound
<1> QED  BY <1>1, <1>3, <1>4, <1>5

(* Two intervals share what each of them contains, and the shared one is one.  *)
LEMMA CommonHolds ==
    ASSUME NEW i \in Interval, NEW j \in Interval, NEW v \in Instant
    PROVE  /\ Common(i, j) \in Interval
           /\ /\ From(Date(v), i.from) /\ To(Date(v), i.to)
              /\ From(Date(v), j.from) /\ To(Date(v), j.to)
              => /\ From(Date(v), Common(i, j).from) /\ To(Date(v), Common(i, j).to)
                 /\ ~Disjoint(i, j)
<1>1. /\ i.from \in Bound /\ i.to \in Bound /\ j.from \in Bound /\ j.to \in Bound
  BY DEF Interval
<1>2. Later(i.from, j.from) \in Bound /\ Earlier(i.to, j.to) \in Bound
  BY <1>1, BoundsHold
<1>3. Common(i, j) \in Interval
  BY <1>2 DEF Common, Interval
<1> QED  BY <1>1, <1>2, <1>3, BoundsHold DEF Common, Disjoint

(* The intersection of two scopes with values of one type describes what both do. *)
LEMMA IntersectionAllows ==
    ASSUME NEW s \in RowScope, NEW t \in RowScope
    PROVE  /\ Intersection(s, t) \in RowScope
           /\ \A type : Typed(s, type) /\ Typed(t, type) =>
                 /\ Typed(Intersection(s, t), type)
                 /\ \A v \in Instant : Allows(s, v) /\ Allows(t, v) => Allows(Intersection(s, t), v)
<1> DEFINE meeting == {p \in s.intervals \X t.intervals : ~Disjoint(p[1], p[2])}
           points == (s.points \cap t.points)
                     \cup {w \in s.points : \E i \in t.intervals : Inside(w, i)}
                     \cup {w \in t.points : \E i \in s.intervals : Inside(w, i)}
           shared == {Common(p[1], p[2]) : p \in meeting}
<1>1. /\ s.points \in SUBSET Value /\ s.intervals \in SUBSET Interval
      /\ t.points \in SUBSET Value /\ t.intervals \in SUBSET Interval
  BY DEF RowScope
<1>2. points \in SUBSET Value
  BY <1>1
<1>3. shared \in SUBSET Interval
  <2> SUFFICES ASSUME NEW p \in meeting PROVE Common(p[1], p[2]) \in Interval
    OBVIOUS
  <2>1. p[1] \in Interval /\ p[2] \in Interval
    BY <1>1
  <2>2. \A i \in Interval, j \in Interval : Common(i, j) \in Interval
    <3> SUFFICES ASSUME NEW i \in Interval, NEW j \in Interval PROVE Common(i, j) \in Interval
      OBVIOUS
    <3> QED  BY DEF Common, Interval, Later, Earlier, Tighter, Bound
  <2> QED  BY <2>1, <2>2
<1>4. \/ Intersection(s, t) \in {Plain("error"), NoRows, UnknownRows}
      \/ Intersection(s, t) = t /\ s.kind = "all"
      \/ Intersection(s, t) = s /\ t.kind = "all"
      \/ Intersection(s, t) = FromParts(points, shared)
  BY DEF Intersection
<1>5. Intersection(s, t) \in RowScope
  BY <1>2, <1>3, <1>4, PlainScopes, FromPartsScope
<1>6. ASSUME NEW type, Typed(s, type), Typed(t, type)
      PROVE  Typed(Intersection(s, t), type)
  <2>1. \A i \in shared : /\ i.from.value # None => i.from.value.type = type
                          /\ i.to.value # None => i.to.value.type = type
    <3> SUFFICES ASSUME NEW p \in meeting
                 PROVE  LET i == Common(p[1], p[2])
                        IN  /\ i.from.value # None => i.from.value.type = type
                            /\ i.to.value # None => i.to.value.type = type
      OBVIOUS
    <3>1. p[1] \in s.intervals /\ p[2] \in t.intervals /\ p[1] \in Interval /\ p[2] \in Interval
      BY <1>1
    <3> QED  BY <1>6, <3>1 DEF Common, Later, Earlier, Tighter, Typed, Interval, Bound
  <2>2. \A w \in points : w.type = type
    BY <1>6 DEF Typed
  <2>3. Typed(FromParts(points, shared), type)
    BY <1>2, <1>3, <2>1, <2>2, FromPartsScope DEF Typed
  <2> QED  BY <1>4, <1>6, <2>3 DEF Typed, Plain, NoRows, UnknownRows
<1>7. ASSUME NEW type, Typed(s, type), Typed(t, type), NEW v \in Instant, Allows(s, v), Allows(t, v)
      PROVE  Allows(Intersection(s, t), v)
  <2>1. CASE s.kind # "parts" \/ t.kind # "parts"
    BY <1>7, <2>1 DEF Intersection, Allows, Describes, Either, RowScope, Plain, UnknownRows
  <2>2. CASE s.kind = "parts" /\ t.kind = "parts"
    <3>1. CASE \E i \in s.intervals, j \in t.intervals : Incomparable(i, j)
      BY <2>2, <3>1 DEF Intersection, Either, Allows, UnknownRows, Plain
    <3>2. CASE ~(\E i \in s.intervals, j \in t.intervals : Incomparable(i, j))
      <4>1. Intersection(s, t) = FromParts(points, shared)
        BY <2>2, <3>2 DEF Intersection, Either
      <4>2. \/ \E w \in points : w.at = v
            \/ \E i \in shared : From(Date(v), i.from) /\ To(Date(v), i.to)
        <5>1. ASSUME NEW w \in s.points, NEW x \in t.points, w.at = v, x.at = v
              PROVE  w \in points
          <6>1. w.type = x.type /\ w \in Value /\ x \in Value
            BY <1>1, <1>7 DEF Typed
          <6>2. w = x
            BY <5>1, <6>1 DEF Value
          <6> QED  BY <6>2
        <5>2. ASSUME NEW w \in Value, w.type = type, w.at = v,
                     NEW i \in Interval, From(Date(v), i.from), To(Date(v), i.to),
                     /\ i.from.value # None => i.from.value.type = type
                     /\ i.to.value # None => i.to.value.type = type
              PROVE  Inside(w, i)
          BY <5>2, SameInstant DEF Inside, Undecided, Comparable
        <5>3. ASSUME NEW i \in s.intervals, From(Date(v), i.from), To(Date(v), i.to),
                     NEW j \in t.intervals, From(Date(v), j.from), To(Date(v), j.to)
              PROVE  /\ Common(i, j) \in shared
                     /\ From(Date(v), Common(i, j).from) /\ To(Date(v), Common(i, j).to)
          <6>1. i \in Interval /\ j \in Interval
            BY <1>1
          <6>2. ~Disjoint(i, j) /\ From(Date(v), Common(i, j).from) /\ To(Date(v), Common(i, j).to)
            BY <5>3, <6>1, CommonHolds
          <6>3. <<i, j>> \in meeting
            BY <6>2
          <6> QED  BY <6>2, <6>3
        <5>4. \/ \E w \in s.points : w.at = v
              \/ \E i \in s.intervals : From(Date(v), i.from) /\ To(Date(v), i.to)
          BY <1>7, <2>2 DEF Allows, Describes
        <5>5. \/ \E w \in t.points : w.at = v
              \/ \E i \in t.intervals : From(Date(v), i.from) /\ To(Date(v), i.to)
          BY <1>7, <2>2 DEF Allows, Describes
        <5>6. ASSUME NEW w \in s.points, w.at = v,
                     NEW j \in t.intervals, From(Date(v), j.from), To(Date(v), j.to)
              PROVE  w \in points
          <6>1. Inside(w, j)
            BY <1>1, <1>7, <5>2, <5>6 DEF Typed
          <6> QED  BY <6>1
        <5>7. ASSUME NEW w \in t.points, w.at = v,
                     NEW j \in s.intervals, From(Date(v), j.from), To(Date(v), j.to)
              PROVE  w \in points
          <6>1. Inside(w, j)
            BY <1>1, <1>7, <5>2, <5>7 DEF Typed
          <6> QED  BY <6>1
        <5> HIDE DEF points, shared
        <5> QED  BY <5>1, <5>3, <5>4, <5>5, <5>6, <5>7
      <4> QED  BY <1>2, <1>3, <4>1, <4>2, FromPartsAllows
    <3> QED  BY <3>1, <3>2
  <2> QED  BY <2>1, <2>2
<1> QED  BY <1>5, <1>6, <1>7

(* A scope that is included in another describes no row that the other does not. *)
LEMMA IncludedDescribes ==
    ASSUME NEW s \in RowScope, NEW t \in RowScope, NEW v \in Instant,
           Included(s, t), Allows(s, v)
    PROVE  Describes(t, v)
<1>1. CASE s.kind # "parts" \/ t.kind = "all"
  BY <1>1 DEF Included, Allows, Describes, RowScope
<1>2. CASE s.kind = "parts" /\ t.kind # "all"
  <2>1. /\ t.kind = "parts"
        /\ \A w \in s.points \ t.points : \E j \in t.intervals : Inside(w, j)
        /\ \A i \in s.intervals : \E j \in t.intervals : Part(i, j)
    BY <1>2 DEF Included
  <2>2. s.points \subseteq Value /\ s.intervals \subseteq Interval /\ t.intervals \subseteq Interval
    BY DEF RowScope
  <2>3. ASSUME NEW w \in s.points, w.at = v PROVE Describes(t, v)
    <3>1. CASE w \in t.points
      BY <2>3, <3>1 DEF Describes
    <3>2. CASE w \notin t.points
      <4>1. PICK j \in t.intervals : Inside(w, j)
        BY <2>1, <3>2
      <4>2. From(Date(v), j.from) /\ To(Date(v), j.to)
        BY <2>2, <2>3, <4>1, SameInstant DEF Inside
      <4> QED  BY <4>2 DEF Describes
    <3> QED  BY <3>1, <3>2
  <2>4. ASSUME NEW i \in s.intervals, From(Date(v), i.from), To(Date(v), i.to)
        PROVE  Describes(t, v)
    <3>1. PICK j \in t.intervals : Part(i, j)
      BY <2>1
    <3>2. /\ i.from \in Bound /\ i.to \in Bound /\ j.from \in Bound /\ j.to \in Bound
      BY <2>2 DEF Interval
    <3>3. i.from = Later(i.from, j.from) /\ i.to = Earlier(i.to, j.to)
      BY <3>1 DEF Part, Common
    <3>4. From(Date(v), j.from) /\ To(Date(v), j.to)
      BY <2>4, <3>2, <3>3, BoundsHold
    <3> QED  BY <3>4 DEF Describes
  <2> QED  BY <1>2, <2>3, <2>4 DEF Allows, Describes
<1> QED  BY <1>1, <1>2

(* A scope made of points, and one made of two bounds.                      *)
LEMMA PointsAllow ==
    ASSUME NEW S \in SUBSET Value
    PROVE  /\ Points(S) \in RowScope
           /\ \A v : (\E w \in S : w.at = v) => Allows(Points(S), v)
           /\ \A type : (\A w \in S : w.type = type) => Typed(Points(S), type)
<1>1. {} \in SUBSET Interval
  OBVIOUS
<1>2. \A v : (\E w \in S : w.at = v) => Allows(Points(S), v)
  BY <1>1, FromPartsAllows DEF Points
<1> QED  BY <1>1, <1>2, FromPartsScope DEF Points, Typed

LEMMA BetweenAllows ==
    ASSUME NEW b \in Bound, NEW c \in Bound
    PROVE  /\ Between(b, c) \in RowScope
           /\ \A v \in Instant : From(Date(v), b) /\ To(Date(v), c) => Allows(Between(b, c), v)
           /\ \A type : (b.value # None => b.value.type = type) /\ (c.value # None => c.value.type = type)
                        => Typed(Between(b, c), type)
<1> DEFINE i == [from |-> b, to |-> c]
<1>1. i \in Interval /\ {i} \in SUBSET Interval /\ {} \in SUBSET Value
  BY DEF Interval
<1>2. Between(b, c) = IF Hollow(b, c) THEN NoRows ELSE FromParts({}, {i})
  BY DEF Between
<1>3. Between(b, c) \in RowScope
  BY <1>1, <1>2, FromPartsScope, PlainScopes
<1>4. ASSUME NEW v \in Instant, From(Date(v), b), To(Date(v), c) PROVE Allows(Between(b, c), v)
  <2>1. Between(b, c) = FromParts({}, {i})
    BY <1>2, <1>4, BoundsHold
  <2>2. \E k \in {i} : From(Date(v), k.from) /\ To(Date(v), k.to)
    BY <1>4
  <2> QED  BY <1>1, <2>1, <2>2, FromPartsAllows
<1>5. ASSUME NEW type, b.value # None => b.value.type = type, c.value # None => c.value.type = type
      PROVE  Typed(Between(b, c), type)
  <2>1. Between(b, c).points \subseteq {} /\ Between(b, c).intervals \subseteq {i}
    <3>1. /\ FromParts({}, {i}).points \subseteq {} /\ FromParts({}, {i}).intervals \subseteq {i}
      BY <1>1, FromPartsScope
    <3>2. NoRows.points = {} /\ NoRows.intervals = {}
      BY DEF NoRows, Plain
    <3> QED  BY <1>2, <3>1, <3>2
  <2>2. i.from = b /\ i.to = c
    OBVIOUS
  <2>3. \A k \in Between(b, c).intervals : k.from = b /\ k.to = c
    BY <2>1, <2>2
  <2>4. \A w \in Between(b, c).points : w.type = type
    BY <2>1
  <2> HIDE DEF i
  <2> QED  BY <1>5, <2>3, <2>4 DEF Typed
<1> QED  BY <1>3, <1>4, <1>5

-----------------------------------------------------------------------------
(* Conditions.                                                             *)

\* What is needed of the scope of a condition that may be true of v.
Stands(s, may, v, vt) == s \in RowScope /\ Typed(s, vt) /\ (may => Allows(s, v))
Holds(op, v, x) ==
    \/ v = x /\ op \in {"=", "<=", ">="}
    \/ v < x /\ op \in {"<", "<=", "<>"}
    \/ v > x /\ op \in {">", ">=", "<>"}
\* TypesIn for one condition.
TypesOf(a) == {x.type : x \in Terms(a)} \cup (IF a.op = "month" THEN {"date"} ELSE {})

(* A term whose date is known is a value.                                   *)
LEMMA FoldedValue ==
    ASSUME NEW x \in Term, NEW run \in Invocation, ~Unset(x, run)
    PROVE  /\ Folded(x, run) \in Value
           /\ Folded(x, run).at \in Int
           /\ Folded(x, run).type = x.type
<1>1. PICK d \in Instant : Folded(x, run) = [type |-> x.type, at |-> d]
  <2>1. run.date # None => run.date \in Instant
    BY InstantAssumption DEF Invocation
  <2>2. CASE x.at = None
    BY <2>1, <2>2 DEF Folded, Term, Unset
  <2>3. CASE x.at # None
    BY <2>3 DEF Folded, Term
  <2> QED  BY <2>2, <2>3
<1>2. x.type \in Types /\ d \in Int
  BY InstantAssumption DEF Term
<1> QED  BY <1>1, <1>2 DEF Value

(* What a bound made of a value lets through.                               *)
LEMMA LimitBound ==
    ASSUME NEW w \in Value, NEW closed \in BOOLEAN
    PROVE  /\ Limit(w, closed) \in Bound /\ Open \in Bound
           /\ w # None
           /\ Limit(w, closed).value = w
           /\ \A v \in Instant : From(Date(v), Open) /\ To(Date(v), Open)
           /\ \A v \in Instant : From(Date(v), Limit(w, closed)) <=> v > w.at \/ (v = w.at /\ closed)
           /\ \A v \in Instant : To(Date(v), Limit(w, closed)) <=> v < w.at \/ (v = w.at /\ closed)
BY InstantAssumption DEF Limit, Open, Bound, From, To, Date

(* A comparison describes the instants for which it holds.                  *)
LEMMA ComparedStands ==
    ASSUME NEW op \in Comparison, NEW x \in Value, NEW v \in Instant
    PROVE  Stands(Compared(op, x), Holds(op, v, x.at), v, x.type)
<1>0. v \in Int /\ x.at \in Int
  BY InstantAssumption DEF Value
<1>1. CASE op = "="
  <2>1. Stands(Points({x}), Holds(op, v, x.at), v, x.type)
    BY <1>0, <1>1, PointsAllow DEF Stands, Holds
  <2> QED  BY <1>1, <2>1 DEF Compared
<1>2. CASE op \in {">", ">="}
  <2> DEFINE b == Limit(x, op = ">=")
  <2>1. b \in Bound /\ b.value = x /\ Open \in Bound /\ Open.value = None
    BY LimitBound DEF Open
  <2>2. Holds(op, v, x.at) => From(Date(v), b) /\ To(Date(v), Open)
    BY <1>0, <1>2, LimitBound DEF Holds
  <2>3. Compared(op, x) = Between(b, Open)
    BY <1>2 DEF Compared
  <2> HIDE DEF b
  <2> QED  BY <2>1, <2>2, <2>3, BetweenAllows DEF Stands
<1>3. CASE op \in {"<", "<="}
  <2> DEFINE b == Limit(x, op = "<=")
  <2>1. b \in Bound /\ b.value = x /\ Open \in Bound /\ Open.value = None
    BY LimitBound DEF Open
  <2>2. Holds(op, v, x.at) => From(Date(v), Open) /\ To(Date(v), b)
    BY <1>0, <1>3, LimitBound DEF Holds
  <2>3. Compared(op, x) = Between(Open, b)
    BY <1>3 DEF Compared
  <2> HIDE DEF b
  <2> QED  BY <2>1, <2>2, <2>3, BetweenAllows DEF Stands
<1>4. CASE op = "<>"
  BY <1>4, PlainScopes DEF Compared, Stands, Typed, Allows, UnknownRows, Plain
<1> QED  BY <1>1, <1>2, <1>3, <1>4 DEF Comparison

(* The days of a month, and the time from its beginning to the next one.    *)
LEMMA MonthStands ==
    ASSUME NEW m \in Month, NEW type \in Types, NEW v \in Axis(type)
    PROVE  Stands(InMonth(m, type), m[1] <= v /\ v < m[2], v, "date")
<1>1. /\ m[1] \in Day /\ m[2] \in Day /\ m[1] \in Int /\ m[2] \in Int
      /\ v \in Instant /\ v \in Int
  BY InstantAssumption DEF Axis
<1>2. \A d \in Day : Date(d) \in Value /\ Date(d).type = "date" /\ Date(d).at = d
  BY InstantAssumption DEF Date, Value, Types
<1>3. CASE type = "date"
  <2> DEFINE S == {Date(d) : d \in DaysOf(m)}
  <2>1. S \in SUBSET Value /\ (\A w \in S : w.type = "date")
    BY <1>2 DEF DaysOf
  <2>2. m[1] <= v /\ v < m[2] => v \in DaysOf(m)
    BY <1>1, <1>3 DEF DaysOf, Axis
  <2>3. m[1] <= v /\ v < m[2] => \E w \in S : w.at = v
    BY <1>2, <2>2 DEF DaysOf
  <2>4. InMonth(m, type) = Points(S)
    BY <1>3 DEF InMonth
  <2> HIDE DEF S
  <2> QED  BY <2>1, <2>3, <2>4, PointsAllow DEF Stands
<1>4. CASE type # "date"
  <2> DEFINE b == Limit(Date(m[1]), TRUE)
             c == Limit(Date(m[2]), FALSE)
  <2>1. b \in Bound /\ b.value = Date(m[1]) /\ c \in Bound /\ c.value = Date(m[2])
    BY <1>1, <1>2, LimitBound
  <2>2. m[1] <= v => v > m[1] \/ (v = m[1] /\ TRUE)
    BY <1>1
  <2>3. m[1] <= v => From(Date(v), b)
    BY <1>1, <1>2, <2>2, LimitBound
  <2>4. v < m[2] => To(Date(v), c)
    BY <1>1, <1>2, LimitBound
  <2>5. InMonth(m, type) = Between(b, c)
    BY <1>4 DEF InMonth
  <2> HIDE DEF b, c
  <2>6. Typed(Between(b, c), "date")
    BY <1>1, <1>2, <2>1, BetweenAllows
  <2>7. Between(b, c) \in RowScope /\ (m[1] <= v /\ v < m[2] => Allows(Between(b, c), v))
    BY <1>1, <2>1, <2>3, <2>4, BetweenAllows
  <2> QED  BY <2>5, <2>6, <2>7 DEF Stands
<1> QED  BY <1>3, <1>4

(* Where a single condition can be true, its scope describes the row.       *)
LEMMA AtomStands ==
    ASSUME NEW a \in Atom, NEW tracked \in SUBSET Column, NEW run \in Invocation,
           NEW type \in Types, NEW v \in Axis(type), NEW row \in [Column -> Instant], NEW vt,
           a.of \in tracked => row[a.of] = v, TypesOf(a) \subseteq {vt},
           a.op = "subquery" => a.of \notin tracked
    PROVE  Stands(AtomScope(a, tracked, run, type), AtomMay(a, row, run), v, vt)
<1> DEFINE scope == AtomScope(a, tracked, run, type)
           may == AtomMay(a, row, run)
<1>1. v \in Instant /\ Instant \subseteq Int /\ Day \subseteq Instant
  BY InstantAssumption DEF Axis
<1>2. Stands(AllRows, may, v, vt) /\ Stands(UnknownRows, may, v, vt) /\ Stands(NoRows, FALSE, v, vt)
  BY PlainScopes DEF Stands, Typed, Allows, Describes, AllRows, UnknownRows, NoRows, Plain
<1>3. CASE a.op \in {"true", "false", "opaque", "subquery"} \/ a.of \notin tracked \/ \E x \in Terms(a) : Unset(x, run)
  <2>1. CASE a.op = "false"
    <3>1. Terms(a) = {}
      BY <2>1 DEF Terms, Comparison
    <3>2. may = FALSE /\ scope = NoRows
      BY <2>1, <3>1 DEF AtomMay, AtomScope
    <3> QED  BY <1>2, <3>2
  <2>2. CASE a.op # "false"
    <3>1. scope \in {AllRows, UnknownRows}
      BY <1>3, <2>2 DEF AtomScope
    <3> QED  BY <1>2, <3>1
  <2> QED  BY <2>1, <2>2
<1>4. CASE /\ a.op \notin {"true", "false", "opaque", "subquery"} /\ a.of \in tracked
           /\ \A x \in Terms(a) : ~Unset(x, run)
  <2>1. row[a.of] = v
    BY <1>4
  <2>2. CASE a.op \in Comparison
    <3>1. a.term \in Term /\ Terms(a) = {a.term} /\ a.term.type = vt
      BY <2>2 DEF Atom, Comparison, Terms, TypesOf
    <3>2. Folded(a.term, run) \in Value /\ Folded(a.term, run).type = vt
      BY <1>4, <3>1, FoldedValue
    <3>3. scope = Compared(a.op, Folded(a.term, run))
      BY <1>4, <2>2 DEF AtomScope, Comparison
    <3>4. may = Holds(a.op, v, Folded(a.term, run).at)
      BY <1>4, <2>1, <2>2 DEF AtomMay, Comparison, Holds
    <3>5. Stands(Compared(a.op, Folded(a.term, run)), Holds(a.op, v, Folded(a.term, run).at), v, vt)
      BY <1>1, <2>2, <3>2, ComparedStands
    <3> QED  BY <3>3, <3>4, <3>5
  <2>3. CASE a.op = "in"
    <3> DEFINE S == {Folded(x, run) : x \in a.among}
    <3>1. Terms(a) = a.among /\ a.among \subseteq Term
      BY <2>3 DEF Atom, Comparison, Terms
    <3>2. \A x \in a.among : Folded(x, run) \in Value /\ Folded(x, run).type = vt
      BY <1>4, <3>1, FoldedValue DEF TypesOf
    <3>3. may => \E w \in S : w.at = v
      BY <1>4, <2>1, <2>3 DEF AtomMay
    <3>4. scope = Points(S)
      BY <1>4, <2>3 DEF AtomScope
    <3>5. S \in SUBSET Value /\ \A w \in S : w.type = vt
      BY <3>2
    <3> HIDE DEF S
    <3> QED  BY <3>3, <3>4, <3>5, PointsAllow DEF Stands
  <2>4. CASE a.op = "between"
    <3> DEFINE b == Limit(Folded(a.low, run), TRUE)
               c == Limit(Folded(a.high, run), TRUE)
    <3>1. Terms(a) = {a.low, a.high} /\ a.low \in Term /\ a.high \in Term
      BY <2>4 DEF Atom, Comparison, Terms
    <3>2. /\ Folded(a.low, run) \in Value /\ Folded(a.low, run).type = vt
          /\ Folded(a.high, run) \in Value /\ Folded(a.high, run).type = vt
          /\ Folded(a.low, run).at \in Int /\ Folded(a.high, run).at \in Int
      BY <1>4, <3>1, FoldedValue DEF TypesOf
    <3>3. may => Folded(a.low, run).at <= v /\ v <= Folded(a.high, run).at
      BY <1>4, <2>1, <2>4 DEF AtomMay
    <3>4. scope = Between(b, c)
      BY <1>4, <2>4 DEF AtomScope
    <3>5. b \in Bound /\ b.value.type = vt /\ c \in Bound /\ c.value.type = vt
      BY <3>2, LimitBound
    <3>6. may => v > Folded(a.low, run).at \/ (v = Folded(a.low, run).at /\ TRUE)
      BY <1>1, <3>2, <3>3
    <3>7. may => v < Folded(a.high, run).at \/ (v = Folded(a.high, run).at /\ TRUE)
      BY <1>1, <3>2, <3>3
    <3>8. may => From(Date(v), b)
      BY <1>1, <3>2, <3>6, LimitBound
    <3>9. may => To(Date(v), c)
      BY <1>1, <3>2, <3>7, LimitBound
    <3> HIDE DEF b, c
    <3> QED  BY <1>1, <3>4, <3>5, <3>8, <3>9, BetweenAllows DEF Stands
  <2>5. CASE a.op = "month"
    <3>1. a.month \in Month /\ vt = "date"
      BY <2>5 DEF Atom, Comparison, TypesOf
    <3>2. may <=> a.month[1] <= v /\ v < a.month[2]
      BY <1>4, <2>1, <2>5 DEF AtomMay
    <3>3. scope = InMonth(a.month, type)
      BY <1>4, <2>5 DEF AtomScope
    <3> QED  BY <3>1, <3>2, <3>3, MonthStands DEF Stands
  <2> QED  BY <1>4, <2>2, <2>3, <2>4, <2>5 DEF Atom
<1> QED  BY <1>3, <1>4

(* AND, OR and IF.                                                          *)
LEMMA JoinedStands ==
    ASSUME NEW op \in Connective, NEW s, NEW t, NEW l, NEW r, NEW run \in Invocation,
           NEW v \in Instant, NEW vt, Stands(s, l, v, vt), Stands(t, r, v, vt)
    PROVE  Stands(Joined(op, s, t, run), JoinedMay(op, l, r, run), v, vt)
<1>1. s \in RowScope /\ t \in RowScope /\ Typed(s, vt) /\ Typed(t, vt)
  BY DEF Stands
<1>2. CASE op = "and"
  <2>1. Stands(Intersection(s, t), l /\ r, v, vt)
    BY <1>1, IntersectionAllows DEF Stands
  <2> QED  BY <1>2, <2>1 DEF Joined, JoinedMay
<1>3. CASE op = "or"
  <2>1. Stands(Union(s, t), l \/ r, v, vt)
    BY <1>1, UnionAllows DEF Stands
  <2> QED  BY <1>3, <2>1 DEF Joined, JoinedMay
<1>4. CASE op \notin {"and", "or"}
  BY <1>4 DEF Joined, JoinedMay, Stands
<1> QED  BY <1>2, <1>3, <1>4

\* The atoms of a condition track the row v as far as they are about tracked columns.
Tracks(atoms, tracked, row, v, vt) ==
    \A a \in atoms : /\ a.of \in tracked => row[a.of] = v
                     /\ TypesOf(a) \subseteq {vt}
                     /\ a.op = "subquery" => a.of \notin tracked

(* An atom is no connective.                                                *)
LEMMA AtomOps == \A a \in Atom : a.op \notin Connective
<1> DEFINE Ops == Comparison \cup {"between", "in", "month", "subquery", "opaque", "true", "false"}
<1>1. \A a \in Atom : a.op \in Ops
  BY DEF Atom
<1>2. \A op \in Ops : op \notin Connective
  BY DEF Comparison, Connective
<1> QED  BY <1>1, <1>2

(* Where two conditions are joined.                                         *)
LEMMA ClauseStands ==
    ASSUME NEW c \in Clause, NEW tracked \in SUBSET Column, NEW run \in Invocation,
           NEW type \in Types, NEW v \in Axis(type), NEW row \in [Column -> Instant], NEW vt,
           Tracks(IF c.op \in Connective THEN {c.left, c.right} ELSE {c}, tracked, row, v, vt)
    PROVE  Stands(ClauseScope(c, tracked, run, type), ClauseMay(c, row, run), v, vt)
<1>1. v \in Instant
  BY InstantAssumption DEF Axis
<1>2. CASE c.op \in Connective
  <2>1. c.left \in Atom /\ c.right \in Atom
    BY <1>2, AtomOps DEF Clause
  <2>2. /\ Stands(AtomScope(c.left, tracked, run, type), AtomMay(c.left, row, run), v, vt)
        /\ Stands(AtomScope(c.right, tracked, run, type), AtomMay(c.right, row, run), v, vt)
    BY <1>2, <2>1, AtomStands DEF Tracks
  <2> QED  BY <1>1, <1>2, <2>2, JoinedStands DEF ClauseScope, ClauseMay
<1>3. CASE c.op \notin Connective
  <2>1. c \in Atom
    BY <1>3 DEF Clause
  <2>2. Stands(AtomScope(c, tracked, run, type), AtomMay(c, row, run), v, vt)
    BY <1>3, <2>1, AtomStands DEF Tracks
  <2> QED  BY <1>3, <2>2 DEF ClauseScope, ClauseMay
<1> QED  BY <1>2, <1>3

(* Where a condition can be true, its scope describes the row.              *)
LEMMA PredicateStands ==
    ASSUME NEW p \in Predicate, NEW tracked \in SUBSET Column, NEW run \in Invocation,
           NEW type \in Types, NEW v \in Axis(type), NEW row \in [Column -> Instant], NEW vt,
           Tracks(AtomsOf(p), tracked, row, v, vt)
    PROVE  Stands(PredicateScope(p, tracked, run, type), PredicateMay(p, row, run), v, vt)
<1>1. v \in Instant
  BY InstantAssumption DEF Axis
<1>2. CASE p.op \in Connective
  <2>1. p.left \in Clause /\ p.right \in Clause
    BY <1>2, AtomOps DEF Predicate, Clause
  <2>2. /\ Tracks(IF p.left.op \in Connective THEN {p.left.left, p.left.right} ELSE {p.left}, tracked, row, v, vt)
        /\ Tracks(IF p.right.op \in Connective THEN {p.right.left, p.right.right} ELSE {p.right}, tracked, row, v, vt)
    BY <1>2 DEF Tracks, AtomsOf
  <2>3. /\ Stands(ClauseScope(p.left, tracked, run, type), ClauseMay(p.left, row, run), v, vt)
        /\ Stands(ClauseScope(p.right, tracked, run, type), ClauseMay(p.right, row, run), v, vt)
    BY <2>1, <2>2, ClauseStands
  <2> QED  BY <1>1, <1>2, <2>3, JoinedStands DEF PredicateScope, PredicateMay
<1>3. CASE p.op \notin Connective
  <2>1. p \in Clause
    BY <1>3 DEF Predicate
  <2>2. Stands(ClauseScope(p, tracked, run, type), ClauseMay(p, row, run), v, vt)
    BY <1>3, <2>1, ClauseStands DEF AtomsOf
  <2> QED  BY <1>3, <2>2 DEF PredicateScope, PredicateMay
<1> QED  BY <1>2, <1>3

-----------------------------------------------------------------------------
(* Statements.                                                             *)

\* A statement that the theorem is about.
Regular(s, vt) ==
    /\ s \in Statement /\ ReadsOnce(s)
    /\ LET q == s.queries[1]
       IN  /\ q.where # None => TypesIn(q.where) \subseteq {vt} /\ ListsValues(q)
           /\ q.where # None /\ "twin" \in Mentions(q.where) => q.twin

(* The columns of a combination of rows.                                    *)
LEMMA CombinationOf ==
    ASSUME NEW type \in Types, NEW row \in Combinations(type)
    PROVE  row \in [Column -> Instant] /\ row["bare"] = row["own"]
<1>1. PICK r \in Axis(type) \X Axis(type) \X Instant \X Instant :
        row = [c \in Column |-> IF c = "twin" THEN r[2] ELSE IF c = "same" THEN r[3]
                               ELSE IF c = "else" THEN r[4] ELSE r[1]]
  BY DEF Combinations
<1>2. r[1] \in Instant /\ r[2] \in Instant /\ r[3] \in Instant /\ r[4] \in Instant
  BY InstantAssumption DEF Axis
<1> QED  BY <1>1, <1>2 DEF Column

(* The scope of a statement's condition describes every row the statement needs. *)
LEMMA FilterStands ==
    ASSUME NEW vt, NEW s, Regular(s, vt), NEW run \in Invocation, NEW type \in Types, NEW v \in Axis(type)
    PROVE  Stands(FilterScope(s, run, type), v \in NeededBy(s, run, type), v, vt)
<1> DEFINE q == s.queries[1]
           needed == v \in NeededBy(s, run, type)
<1>1. /\ DOMAIN s.queries = {1} /\ q \in Query /\ ~q.twin /\ ~q.loose
  BY DEF Regular, ReadsOnce, Statement
<1>2. Stands(AllRows, needed, v, vt) /\ Stands(UnknownRows, needed, v, vt)
  BY PlainScopes DEF Stands, Typed, Allows, Describes, AllRows, UnknownRows, Plain
<1>3. CASE q.where = None
  <2>1. Filtered(s) = {}
    BY <1>1, <1>3 DEF Filtered
  <2>2. FilterScope(s, run, type) = AllRows
    BY <2>1 DEF FilterScope
  <2> QED  BY <1>2, <2>2
<1>4. CASE q.where # None
  <2> DEFINE p == q.where
  <2>1. Filtered(s) = {1}
    BY <1>1, <1>4 DEF Filtered
  <2>2. FirstFiltered(s) = q
    BY <2>1 DEF FirstFiltered
  <2>3. p \in Predicate /\ TypesIn(p) \subseteq {vt} /\ "twin" \notin Mentions(p)
    BY <1>1, <1>4 DEF Regular, Query
  <2>4. \A a \in AtomsOf(p) : TypesOf(a) \subseteq {vt}
    BY <2>3 DEF TypesIn, TypesOf
  <2>4a. \A a \in AtomsOf(p) : a.op = "subquery" => a.of = "same" \/ (a.of = "else" /\ ~Equivalent(q))
    BY <1>1, <1>4 DEF Regular, ListsValues
  <2>5. CASE "same" \in Mentions(p) \/ ("bare" \in Mentions(p) /\ Several(s))
    <3>1. FilterScope(s, run, type) = UnknownRows
      BY <2>1, <2>2, <2>5 DEF FilterScope
    <3> QED  BY <1>2, <3>1
  <2>6. CASE ~("same" \in Mentions(p) \/ ("bare" \in Mentions(p) /\ Several(s)))
    <3> DEFINE direct == PredicateScope(p, SameName, run, type)
               wider == PredicateScope(p, SameName \cup {"else"}, run, type)
    <3>1. FilterScope(s, run, type) = IF direct.kind = "all" /\ Equivalent(q) THEN wider ELSE direct
      BY <2>1, <2>2, <2>6 DEF FilterScope
    <3>2. ASSUME NEW row \in Combinations(type), row["own"] = v, Meets(q, row)
          PROVE  /\ Stands(direct, PredicateMay(p, row, run), v, vt)
                 /\ Equivalent(q) => Stands(wider, PredicateMay(p, row, run), v, vt)
      <4>1. row \in [Column -> Instant] /\ row["bare"] = v
        BY <3>2, CombinationOf
      <4>2. \A a \in AtomsOf(p) : a.of \in SameName => a.of \in {"own", "bare"}
        BY <2>3, <2>6 DEF Mentions, SameName
      <4>2a. \A a \in AtomsOf(p) : a.op = "subquery" => a.of = "else" /\ ~Equivalent(q)
        BY <2>6, <2>4a DEF Mentions
      <4>3. Tracks(AtomsOf(p), SameName, row, v, vt)
        BY <2>4, <3>2, <4>1, <4>2, <4>2a DEF Tracks, SameName
      <4>4. Equivalent(q) => row["else"] = v
        BY <1>1, <3>2 DEF Equivalent, Meets
      <4>5. Equivalent(q) => Tracks(AtomsOf(p), SameName \cup {"else"}, row, v, vt)
        BY <4>3, <4>4, <4>2a DEF Tracks
      <4>6. SameName \in SUBSET Column /\ SameName \cup {"else"} \in SUBSET Column
        BY DEF SameName, Column
      <4> QED  BY <2>3, <4>1, <4>3, <4>5, <4>6, PredicateStands
    <3>3. /\ direct \in RowScope /\ Typed(direct, vt)
          /\ Equivalent(q) => wider \in RowScope /\ Typed(wider, vt)
      <4> DEFINE row == [c \in Column |-> v]
      <4>1. v \in Instant
        BY InstantAssumption DEF Axis
      <4>2. row \in Combinations(type)
        <5>1. <<v, v, v, v>> \in Axis(type) \X Axis(type) \X Instant \X Instant
          BY <4>1
        <5>2. row = [c \in Column |-> IF c = "twin" THEN v ELSE IF c = "same" THEN v
                                     ELSE IF c = "else" THEN v ELSE v]
          OBVIOUS
        <5> QED  BY <5>1, <5>2 DEF Combinations
      <4>3. row["own"] = v /\ Meets(q, row)
        BY DEF Column, Meets
      <4> HIDE DEF row
      <4> QED  BY <3>2, <4>2, <4>3 DEF Stands
    <3>4. ASSUME needed
          PROVE  Allows(direct, v) /\ (Equivalent(q) => Allows(wider, v))
      <4>1. PICK row \in Combinations(type) :
              /\ row["own"] = v /\ Meets(q, row) /\ PredicateMay(p, row, run)
        BY <1>1, <1>4, <3>4 DEF NeededBy
      <4> QED  BY <3>2, <4>1 DEF Stands
    <3> QED  BY <3>1, <3>3, <3>4 DEF Stands
  <2> QED  BY <2>5, <2>6
<1> QED  BY <1>3, <1>4

-----------------------------------------------------------------------------
(* The prefill of one table for one job.                                   *)

(* Rows that a scope describes and that exist are in the partitions copied for it. *)
LEMMA PrefillCopies ==
    ASSUME NEW job \in Reader, OneOrigin(job), NEW vt, \A p \in job.partitions : Typed(p, vt),
           NEW s \in RowScope, Typed(s, vt), s.kind # "error",
           NEW v \in Instant, Allows(s, v), job.complete => \E p \in job.partitions : Describes(p, v)
    PROVE  \E p \in PrefillOf(job, s) : Describes(p, v)
<1>1. s.kind # "empty"
  BY DEF Allows, Describes, RowScope
<1>2. Describes(AllRows, v)
  BY DEF Describes, AllRows, Plain
<1>3. CASE \/ s.kind = "unknown"
           \/ \E p \in job.partitions : Intersection(p, s).kind = "unknown"
           \/ Overlapping(job, s) = {}
  <2>1. PrefillOf(job, s) = {AllRows}
    BY <1>1, <1>3 DEF PrefillOf
  <2> QED  BY <1>2, <2>1
<1>4. CASE ~ (\/ s.kind = "unknown"
              \/ \E p \in job.partitions : Intersection(p, s).kind = "unknown"
              \/ Overlapping(job, s) = {})
  <2>1. PrefillOf(job, s) = Overlapping(job, s)
    BY <1>1, <1>4 DEF PrefillOf
  <2>2. job.partitions # {}
    BY <1>4 DEF Overlapping
  <2>3. PICK p \in job.partitions : Describes(p, v)
    BY <2>2 DEF OneOrigin
  <2>4. p \in RowScope
    BY DEF Reader
  <2>5. Allows(Intersection(p, s), v) /\ Intersection(p, s) \in RowScope
    BY <2>3, <2>4, IntersectionAllows DEF Allows
  <2>6. Intersection(p, s).kind # "empty"
    BY <2>5 DEF Allows, Describes, RowScope
  <2>7. p \in Overlapping(job, s)
    BY <1>4, <2>6 DEF Overlapping
  <2> QED  BY <2>1, <2>3, <2>7
<1> QED  BY <1>3, <1>4

(* Division of a position by the length of a row.                           *)
LEMMA DivMod ==
    ASSUME NEW b \in Nat \ {0}, NEW x \in Nat
    PROVE  x = b * (x \div b) + (x % b) /\ (x % b) \in 0..(b-1) /\ x \div b \in Nat
OBVIOUS

(* The statement and the date at a position are there.                      *)
LEMMA RowAndColumn ==
    ASSUME NEW a \in Nat, NEW b \in Nat, NEW k \in 1..(a * b)
    PROVE  ((k - 1) \div b) \in 0..(a - 1) /\ ((k - 1) % b) \in 0..(b - 1)
<1>1. b # 0
  <2> SUFFICES ASSUME b = 0 PROVE FALSE
    OBVIOUS
  <2>1. a * b = 0
    BY Z3
  <2> QED  BY <2>1
<1> DEFINE q == (k - 1) \div b
<1>2. k - 1 \in Nat /\ k - 1 < a * b /\ b \in Nat \ {0} /\ a * b \in Nat
  BY <1>1
<1>3. k - 1 = b * q + ((k - 1) % b) /\ ((k - 1) % b) \in 0..(b - 1) /\ q \in Nat
  BY <1>2, DivMod
<1> HIDE DEF q
<1>4. ASSUME q >= a PROVE FALSE
  <2>1. b * q >= b * a
    BY <1>3, <1>4
  <2>2. b * a = a * b /\ b * q \in Int /\ b * a \in Int
    BY <1>3
  <2> QED  BY <1>2, <1>3, <2>1, <2>2
<1>5. q \in 0..(a - 1)
  BY <1>3, <1>4
<1> QED  BY <1>3, <1>5 DEF q

\* Readers the theorem is about: each statement reads the table once and takes no value
\* of the column from a query, all values, those of the partitions too, have one type,
\* and partitions have one origin.
Suits(job, vt) ==
    /\ OneOrigin(job)
    /\ \A p \in job.partitions : Typed(p, vt)
    /\ \A n \in DOMAIN job.script :
          /\ ReadsOnce(job.script[n])
          /\ \A m \in Filtered(job.script[n]) :
                LET q == job.script[n].queries[m]
                IN  TypesIn(q.where) \subseteq {vt} /\ ListsValues(q)

(* What is looked up are statements of the job, for dates it is run for.    *)
LEMMA LookupsOfJob ==
    ASSUME NEW job \in Jobs, NEW vt, Suits(job, vt)
    PROVE  /\ Len(Lookups(job)) \in Nat /\ DOMAIN Lookups(job) = 1..Len(Lookups(job))
           /\ job \in Reader
           /\ \A k \in DOMAIN Lookups(job) :
                 Regular(Lookups(job)[k][1], vt) /\ Lookups(job)[k][2] \in Invocation
           /\ Lookups(job) \in Seq(Statement \X Invocation)
<1>1. job \in Reader /\ job.script \in Seq(Statement) /\ job.runs \in Seq(Invocation)
  BY ReaderAssumption DEF Reader
<1> DEFINE a == Len(job.script)
           b == Len(job.runs)
<1>2. a \in Nat /\ b \in Nat /\ DOMAIN job.script = 1..a /\ DOMAIN job.runs = 1..b
  BY <1>1
<1>3. Lookups(job) = [k \in 1..(a * b) |-> <<job.script[((k - 1) \div b) + 1], job.runs[((k - 1) % b) + 1]>>]
  BY DEF Lookups
<1> HIDE DEF a, b
<1>4. a * b \in Nat
  BY <1>2
<1>5. DOMAIN Lookups(job) = 1..(a * b) /\ Len(Lookups(job)) = a * b
  BY <1>3, <1>4
<1>6. ASSUME NEW k \in 1..(a * b)
      PROVE  /\ Regular(Lookups(job)[k][1], vt) /\ Lookups(job)[k][2] \in Invocation
             /\ Lookups(job)[k] \in Statement \X Invocation
  <2> DEFINE q == (k - 1) \div b
             r == (k - 1) % b
             n == q + 1
             m == r + 1
  <2>1. n \in 1..a /\ m \in 1..b
    <3>1. q \in 0..(a - 1) /\ r \in 0..(b - 1)
      BY <1>2, RowAndColumn
    <3>2. \A x \in 0..(a - 1), y \in 0..(b - 1) : x + 1 \in 1..a /\ y + 1 \in 1..b
      BY <1>2
    <3> QED  BY <3>1, <3>2
  <2>2. Lookups(job)[k] = <<job.script[n], job.runs[m]>>
    BY <1>3
  <2> HIDE DEF n, m
  <2>3. n \in DOMAIN job.script /\ job.script[n] \in Statement /\ job.runs[m] \in Invocation
    BY <1>1, <1>2, <2>1
  <2>4. Regular(job.script[n], vt)
    <3> DEFINE s == job.script[n]
    <3>1. ReadsOnce(s) /\ DOMAIN s.queries = {1}
      BY <2>3 DEF Suits, ReadsOnce, Statement
    <3>2. s.queries[1].where # None /\ "twin" \in Mentions(s.queries[1].where) => s.queries[1].twin
      BY <2>3, <3>1, ReaderAssumption
    <3>3. s.queries[1].where # None =>
             TypesIn(s.queries[1].where) \subseteq {vt} /\ ListsValues(s.queries[1])
      BY <2>3, <3>1 DEF Suits, Filtered
    <3> QED  BY <2>3, <3>1, <3>2, <3>3 DEF Regular
  <2> QED  BY <2>2, <2>3, <2>4
<1>7. Lookups(job) \in [1..(a * b) -> Statement \X Invocation]
  BY <1>3, <1>6
<1>8. Lookups(job) \in Seq(Statement \X Invocation)
  BY <1>4, <1>7
<1> QED  BY <1>1, <1>4, <1>5, <1>6, <1>8

\* Rows that a lookup needs and that must be read, or that must be there to be changed.
ReadNeeds(l, type, v) == ~Mutates(l[1]) /\ v \in NeededBy(l[1], l[2], type)
KeptNeeds(l, type, v) ==
    /\ Mutates(l[1]) /\ ~(l[1].kind = "delete" /\ Filtered(l[1]) = {})
    /\ v \in NeededBy(l[1], l[2], type)

(* The two scopes that a lookup adds.                                       *)
LEMMA LookupStands ==
    ASSUME NEW vt, NEW l, Regular(l[1], vt), l[2] \in Invocation,
           NEW type \in Types, NEW v \in Axis(type)
    PROVE  /\ Stands(ReadScope(l[1], l[2], type), ReadNeeds(l, type, v), v, vt)
           /\ Stands(ExistingScope(l[1], l[2], type), KeptNeeds(l, type, v), v, vt)
<1>1. Stands(FilterScope(l[1], l[2], type), v \in NeededBy(l[1], l[2], type), v, vt)
  BY FilterStands
<1>2. Stands(NoRows, FALSE, v, vt) /\ \A may \in BOOLEAN : Stands(UnknownRows, may, v, vt)
  BY PlainScopes DEF Stands, Typed, Allows, NoRows, UnknownRows, Plain
<1>3. Stands(ReadScope(l[1], l[2], type), ReadNeeds(l, type, v), v, vt)
  BY <1>1, <1>2 DEF ReadScope, ReadNeeds, Stands
<1>4. Stands(ExistingScope(l[1], l[2], type), KeptNeeds(l, type, v), v, vt)
  BY <1>1, <1>2 DEF ExistingScope, KeptNeeds, Mutates, Stands
<1> QED  BY <1>3, <1>4

(* Lookups are done in order, and the two scopes describe what those done need. *)
Covers(d, vt, v) ==
    /\ reads \in RowScope /\ Typed(reads, vt)
    /\ existing \in RowScope /\ Typed(existing, vt)
    /\ \A k \in 1..d : /\ ReadNeeds(Lookups(reader)[k], reader.type, v) => Allows(reads, v)
                       /\ KeptNeeds(Lookups(reader)[k], reader.type, v) => Allows(existing, v)
Gathered(vt) ==
    /\ todo \in Seq(Statement \X Invocation)
    /\ \E d \in 0..Len(Lookups(reader)) :
          /\ Len(todo) = Len(Lookups(reader)) - d
          /\ \A i \in 1..Len(todo) : todo[i] = Lookups(reader)[d + i]
          /\ \A v \in Axis(reader.type) : Covers(d, vt, v)
ScopesInv ==
    /\ reader \in Jobs
    /\ \E vt : Suits(reader, vt) /\ (copied = None => Gathered(vt))
    /\ copied # None => todo = <<>>
    /\ RowsAtHand

\* The policies, for all readers.
Uniform == \A job \in Jobs : \E vt : Suits(job, vt)

(* Nothing is looked up yet.                                                *)
LEMMA ScopesBegin ==
    ASSUME Uniform, ScopeInit
    PROVE  ScopesInv
<1>1. reader \in Jobs /\ todo = Lookups(reader) /\ reads = NoRows /\ existing = NoRows /\ copied = None
  BY DEF ScopeInit
<1>2. PICK vt : Suits(reader, vt)
  BY <1>1 DEF Uniform
<1>3. /\ Len(Lookups(reader)) \in Nat /\ Lookups(reader) \in Seq(Statement \X Invocation)
  BY <1>1, <1>2, LookupsOfJob
<1>4. ASSUME NEW v PROVE Covers(0, vt, v)
  BY <1>1, PlainScopes DEF Covers, Typed, NoRows, Plain
<1>5. /\ 0 \in 0..Len(Lookups(reader)) /\ Len(todo) = Len(Lookups(reader)) - 0
      /\ \A i \in 1..Len(todo) : todo[i] = Lookups(reader)[0 + i]
  BY <1>1, <1>3
<1>6. Gathered(vt)
  <2>1. todo \in Seq(Statement \X Invocation)
    BY <1>1, <1>3
  <2>2. \E d \in 0..Len(Lookups(reader)) :
          /\ Len(todo) = Len(Lookups(reader)) - d
          /\ \A i \in 1..Len(todo) : todo[i] = Lookups(reader)[d + i]
          /\ \A v \in Axis(reader.type) : Covers(d, vt, v)
    <3> WITNESS 0 \in 0..Len(Lookups(reader))
    <3> QED  BY <1>4, <1>5
  <2> QED  BY <2>1, <2>2 DEF Gathered
<1> QED  BY <1>1, <1>2, <1>6 DEF ScopesInv, RowsAtHand

(* A lookup adds what it needs to what is gathered.                         *)
LEMMA LookupKeeps ==
    ASSUME ScopesInv, Lookup
    PROVE  ScopesInv'
<1>1. /\ todo # <<>> /\ todo' = Tail(todo) /\ copied' = copied /\ copied = None /\ reader' = reader
      /\ reads' = Union(reads, ReadScope(Head(todo)[1], Head(todo)[2], reader.type))
      /\ existing' = Union(existing, ExistingScope(Head(todo)[1], Head(todo)[2], reader.type))
  BY DEF Lookup, ScopesInv
<1> DEFINE L == Lookups(reader)
<1>2. PICK vt : Suits(reader, vt) /\ Gathered(vt)
  BY <1>1 DEF ScopesInv
<1>3. PICK d \in 0..Len(L) :
        /\ Len(todo) = Len(L) - d
        /\ \A i \in 1..Len(todo) : todo[i] = L[d + i]
        /\ \A v \in Axis(reader.type) : Covers(d, vt, v)
  BY <1>2 DEF Gathered
<1>4. /\ reader \in Jobs /\ reader.type \in Types
      /\ Len(L) \in Nat /\ DOMAIN L = 1..Len(L)
      /\ \A k \in DOMAIN L : Regular(L[k][1], vt) /\ L[k][2] \in Invocation
      /\ todo \in Seq(Statement \X Invocation)
  BY <1>2, LookupsOfJob DEF ScopesInv, Reader, Gathered
<1>5. L' = L
  BY <1>1
<1> HIDE DEF L
<1>6. Len(todo) \in Nat /\ Len(todo) # 0 /\ Head(todo) = todo[1]
  BY <1>1, <1>4
<1>7. d + 1 \in 1..Len(L) /\ Head(todo) = L[d + 1]
  BY <1>3, <1>4, <1>6
<1>8. todo' \in Seq(Statement \X Invocation) /\ Len(todo') = Len(todo) - 1
  BY <1>1, <1>4, <1>6
<1>9. \A i \in 1..Len(todo') : todo'[i] = L[(d + 1) + i]
  <2>1. \A i \in 1..Len(todo') : todo'[i] = todo[i + 1] /\ i + 1 \in 1..Len(todo)
    BY <1>1, <1>4, <1>6, <1>8
  <2> QED  BY <1>3, <1>4, <2>1
<1>10. ASSUME NEW v \in Axis(reader.type)
       PROVE  Covers(d + 1, vt, v)'
  <2> DEFINE s == ReadScope(L[d + 1][1], L[d + 1][2], reader.type)
             t == ExistingScope(L[d + 1][1], L[d + 1][2], reader.type)
  <2>1. /\ s \in RowScope /\ Typed(s, vt) /\ (ReadNeeds(L[d + 1], reader.type, v) => Allows(s, v))
        /\ t \in RowScope /\ Typed(t, vt) /\ (KeptNeeds(L[d + 1], reader.type, v) => Allows(t, v))
    BY <1>4, <1>7, LookupStands DEF Stands
  <2>2. reads' = Union(reads, s) /\ existing' = Union(existing, t)
    BY <1>1, <1>7
  <2> HIDE DEF s, t
  <2>3. /\ reads \in RowScope /\ Typed(reads, vt) /\ existing \in RowScope /\ Typed(existing, vt)
        /\ \A k \in 1..d : /\ ReadNeeds(L[k], reader.type, v) => Allows(reads, v)
                           /\ KeptNeeds(L[k], reader.type, v) => Allows(existing, v)
    BY <1>3 DEF Covers, L
  <2>4. /\ reads' \in RowScope /\ Typed(reads', vt)
        /\ existing' \in RowScope /\ Typed(existing', vt)
        /\ Allows(reads, v) \/ Allows(s, v) => Allows(reads', v)
        /\ Allows(existing, v) \/ Allows(t, v) => Allows(existing', v)
    BY <2>1, <2>2, <2>3, UnionAllows
  <2>5. \A k \in 1..(d + 1) : k \in 1..d \/ k = d + 1
    BY <1>3, <1>4
  <2>6. \A k \in 1..(d + 1) : /\ ReadNeeds(L[k], reader.type, v) => Allows(reads', v)
                              /\ KeptNeeds(L[k], reader.type, v) => Allows(existing', v)
    BY <2>1, <2>3, <2>4, <2>5
  <2>7. Lookups(reader') = L /\ reader'.type = reader.type
    BY <1>1 DEF L
  <2> QED  BY <2>4, <2>6, <2>7 DEF Covers
<1>11. Gathered(vt)'
  <2>1. Lookups(reader') = L /\ reader'.type = reader.type
    BY <1>1 DEF L
  <2>2. d + 1 \in 0..Len(L) /\ Len(todo') = Len(L) - (d + 1)
    BY <1>3, <1>4, <1>7, <1>8
  <2> QED  BY <1>8, <1>9, <1>10, <2>1, <2>2 DEF Gathered
<1> QED  BY <1>1, <1>2, <1>4, <1>11 DEF ScopesInv, RowsAtHand

(* The request copies what is not written before: every row needed is there. *)
LEMMA RequestKeeps ==
    ASSUME ScopesInv, Request
    PROVE  ScopesInv'
<1> DEFINE L == Lookups(reader)
           asked == IF Writes(reader) \/ ~reader.preceded \/ ~Included(reads, reader.written)
                    THEN reads ELSE NoRows
<1>1. /\ todo = <<>> /\ todo' = todo /\ copied = None /\ reader' = reader
      /\ reads.kind # "error" /\ existing.kind # "error" /\ Requested.kind # "error"
      /\ copied' = PrefillOf(reader, Requested)
  BY DEF Request
<1>2. PICK vt : Suits(reader, vt) /\ Gathered(vt)
  BY <1>1 DEF ScopesInv
<1>3. /\ reader \in Jobs /\ reader \in Reader /\ reader.type \in Types /\ reader.written \in RowScope
      /\ Len(L) \in Nat /\ DOMAIN L = 1..Len(L)
      /\ \A k \in DOMAIN L : Regular(L[k][1], vt) /\ L[k][2] \in Invocation
  BY <1>2, LookupsOfJob DEF ScopesInv, Reader
<1>4. \A v \in Axis(reader.type) : Covers(Len(L), vt, v)
  <2>1. Len(todo) = 0
    BY <1>1
  <2>2. PICK d \in 0..Len(L) : Len(todo) = Len(L) - d /\ \A v \in Axis(reader.type) : Covers(d, vt, v)
    BY <1>2 DEF Gathered
  <2>3. \A n \in Nat : \A x \in 0..n : 0 = n - x => x = n
    OBVIOUS
  <2>4. d = Len(L)
    <3>1. Len(L) \in Nat
      BY <1>3
    <3>2. d \in 0..Len(L)
      OBVIOUS
    <3>3. 0 = Len(L) - d
      BY <2>1, <2>2
    <3> QED  BY <2>3, <3>1, <3>2, <3>3
  <2> QED  BY <2>2, <2>4
<1>5. ASSUME NEW k \in DOMAIN L, NEW v \in NeededBy(L[k][1], L[k][2], reader.type),
             Exists(v), ~(L[k][1].kind = "delete" /\ Filtered(L[k][1]) = {})
      PROVE  \/ \E p \in PrefillOf(reader, Requested) : Describes(p, v)
             \/ ~Mutates(L[k][1]) /\ reader.preceded /\ Describes(reader.written, v)
  <2>1. v \in Axis(reader.type) /\ v \in Instant
    BY InstantAssumption DEF NeededBy, Axis
  <2>2. /\ reads \in RowScope /\ Typed(reads, vt) /\ existing \in RowScope /\ Typed(existing, vt)
        /\ ~Mutates(L[k][1]) => Allows(reads, v)
        /\ Mutates(L[k][1]) => Allows(existing, v)
    BY <1>3, <1>4, <1>5, <2>1 DEF Covers, ReadNeeds, KeptNeeds
  <2>3. asked \in RowScope /\ Typed(asked, vt)
    BY <2>2, PlainScopes DEF Typed, NoRows, Plain
  <2>4. Requested = Union(asked, existing)
    BY DEF Requested
  <2>5. CASE Allows(asked, v) \/ Allows(existing, v)
    <3>1. Requested \in RowScope /\ Typed(Requested, vt) /\ Allows(Requested, v)
      BY <2>2, <2>3, <2>4, <2>5, UnionAllows
    <3>2. OneOrigin(reader) /\ \A p \in reader.partitions : Typed(p, vt)
      BY <1>2 DEF Suits
    <3>3. reader.complete => \E p \in reader.partitions : Describes(p, v)
      BY <1>5 DEF Exists
    <3> QED  BY <1>1, <1>3, <2>1, <3>1, <3>2, <3>3, PrefillCopies
  <2>6. CASE ~(Allows(asked, v) \/ Allows(existing, v))
    <3>1. ~Mutates(L[k][1]) /\ Allows(reads, v)
      BY <2>2, <2>6
    <3>2. reader.preceded /\ Included(reads, reader.written)
      BY <2>6, <3>1
    <3>3. Describes(reader.written, v)
      BY <1>3, <2>1, <2>2, <3>1, <3>2, IncludedDescribes
    <3> QED  BY <3>1, <3>2, <3>3
  <2> QED  BY <2>5, <2>6
<1>6. RowsAtHand'
  <2>1. Lookups(reader') = L
    BY <1>1
  <2>2. \A v : Copied(v)' <=> \E p \in PrefillOf(reader, Requested) : Describes(p, v)
    BY <1>1 DEF Copied
  <2>3. \A v : Exists(v)' <=> Exists(v)
    BY <1>1 DEF Exists
  <2> HIDE DEF L
  <2> QED  BY <1>1, <1>5, <2>1, <2>2, <2>3 DEF RowsAtHand
<1>7. Gathered(vt)'
  BY <1>1, <1>2 DEF Gathered, Covers, Request
<1> QED  BY <1>1, <1>2, <1>3, <1>6, <1>7 DEF ScopesInv

(* Under the policies, whatever a statement can read in production is copied or *)
(* recomputed before, and whatever it can change is copied: prefill, from       *)
(* shadow_scope and shadow_manifest.                                            *)
THEOREM ScopesSound ==
    ASSUME Uniform
    PROVE  ScopeSpec => []RowsAtHand
<1>1. ScopeInit => ScopesInv
  BY ScopesBegin
<1>2. ScopesInv /\ [ScopeNext]_scopeVars => ScopesInv'
  <2>1. ScopesInv /\ UNCHANGED scopeVars => ScopesInv'
    BY DEF ScopesInv, Gathered, Covers, RowsAtHand, Copied, Exists, scopeVars
  <2> QED  BY <2>1, LookupKeeps, RequestKeeps DEF ScopeNext
<1>3. ScopesInv => RowsAtHand
  BY DEF ScopesInv
<1> QED  BY <1>1, <1>2, <1>3, PTL DEF ScopeSpec
=============================================================================
