-------------------------- MODULE DagExecutorProofs ---------------------------
(***************************************************************************)
(* Proofs about DagExecutor for any finite set of jobs, any graphs, any    *)
(* order and any degree of parallelism; about LineageFile and LineageStore *)
(* for any graphs, any tidy files and any number of imports; and about     *)
(* Planner for any calendar, any jobs and any commands.                    *)
(***************************************************************************)
EXTENDS DagExecutor, LineageStore, Planner, RecursionProofs, FiniteSetTheorems, TLAPS

-----------------------------------------------------------------------------
(* Type correctness: the coordinator's books hold jobs, and every result   *)
(* is one of the three execute_dag returns.                                *)
THEOREM TypeCorrect == Spec => []TypeOK
<1>1. Init => TypeOK
  BY GraphAssumption DEF Init, TypeOK, Terminal, Outcome
<1>2. TypeOK /\ [Next]_vars => TypeOK'
  <2> SUFFICES ASSUME TypeOK, [Next]_vars PROVE TypeOK'
    OBVIOUS
  <2>1. CASE Settle
    BY <2>1 DEF Settle, Loop, TypeOK
  <2>2. CASE Collect
    BY <2>2 DEF Collect, Loop, TypeOK, Executing, Terminal, Outcome
  <2>3. ASSUME NEW j \in Job, Visit(j) PROVE TypeOK'
    BY <2>3 DEF Visit, TypeOK, Terminal
  <2>4. ASSUME NEW j \in Job, Submit(j) PROVE TypeOK'
    BY <2>4 DEF Submit, TypeOK
  <2>5. ASSUME NEW j \in Job, Work(j) PROVE TypeOK'
    BY <2>5 DEF Work, TypeOK, Executing
  <2>6. CASE Interrupt
    BY <2>6 DEF Interrupt, TypeOK
  <2>7. CASE UNCHANGED vars
    BY <2>7 DEF vars, TypeOK
  <2> QED
    BY <2>1, <2>2, <2>3, <2>4, <2>5, <2>6, <2>7 DEF Next, Coordinate
<1> QED
  BY <1>1, <1>2, PTL DEF Spec

-----------------------------------------------------------------------------
(* What the coordinator knows of a job, case by case.                      *)
LEMMA KnownJob ==
    ASSUME TypeOK, NEW j \in Job
    PROVE  /\ results[j] # "none" => Known[j] = results[j]
           /\ results[j] = "none" /\ j \in running => Known[j] = "running"
           /\ results[j] = "none" /\ j \notin running => Known[j] = "waiting"
           /\ (Known[j] \in Terminal) <=> (results[j] # "none")
           /\ Known[j] = "success" <=> results[j] = "success"
           /\ Known[j] = "waiting" => results[j] = "none"
<1>1. Known[j] = IF results[j] # "none" THEN results[j]
                 ELSE IF j \in running THEN "running" ELSE "waiting"
  BY DEF Known
<1>2. results[j] \in {"success", "failed", "blocked", "none"}
  BY DEF TypeOK, Terminal, Outcome
<1>3. CASE results[j] # "none"
  <2>1. Known[j] = results[j]
    BY <1>1, <1>3
  <2> QED
    BY <1>2, <1>3, <2>1 DEF Terminal, Outcome
<1>4. CASE results[j] = "none"
  <2>1. Known[j] = IF j \in running THEN "running" ELSE "waiting"
    BY <1>1, <1>4
  <2> QED
    BY <1>4, <2>1 DEF Terminal, Outcome
<1> QED
  BY <1>3, <1>4

\* Downstream of what f reaches is reached by f.
LEMMA ReachesStep ==
    ASSUME NEW up \in [Job -> SUBSET Job], NEW f \in Job, NEW u \in Job, NEW j \in Job,
           Reaches(up, f, u), u \in up[j]
    PROVE  Reaches(up, f, j)
BY DEF Reaches

\* A job reaches itself.
LEMMA ReachesSelf ==
    ASSUME NEW up, NEW j \in Job
    PROVE  Reaches(up, j, j)
BY DEF Reaches

-----------------------------------------------------------------------------
(* The inductive invariant.  A blocked job has a failed ancestor; a started *)
(* one has successful upstreams; and a pass that has made no progress has   *)
(* left no job it has looked at that it could have blocked.                 *)

BlockedByFailure ==
    \A j \in Job : results[j] = "blocked" =>
        \E f \in Job : results[f] = "failed" /\ Reaches(upstream, f, j)

PassSeen ==
    step = "scan" /\ ~progressed =>
        \A j \in remaining \ scan : ~Blockable(upstream, Known, j)

\* The worker of a job that has not been submitted has not ended.
NotYetRun == \A j \in remaining : outcome[j] = "none"

Raised ==
    step = "raised" =>
        /\ running = {} /\ Ready = {} /\ remaining # {}
        /\ \A j \in remaining : ~Blockable(upstream, Known, j)

DagInv ==
    /\ TypeOK
    /\ EveryJobOnce
    /\ WithinParallel
    /\ UpstreamsFirst
    /\ BlockedByFailure
    /\ PassSeen
    /\ NotYetRun
    /\ Raised

\* A call begins with every job remaining and nothing submitted.
LEMMA DagInit == Init => DagInv
<1> SUFFICES ASSUME Init PROVE DagInv
  OBVIOUS
<1>1. TypeOK
  BY GraphAssumption DEF Init, TypeOK, Terminal, Outcome
<1>2. Cardinality(running) = 0
  BY FS_EmptySet DEF Init
<1>3. WithinParallel
  BY <1>2, ParallelAssumption DEF WithinParallel
<1> QED
  BY <1>1, <1>3
  DEF Init, DagInv, EveryJobOnce, UpstreamsFirst, BlockedByFailure, PassSeen, Raised,
      NotYetRun, Outcome

\* Known depends on running and results only.
LEMMA KnownStable ==
    ASSUME UNCHANGED <<running, results>>
    PROVE  Known' = Known
BY DEF Known

\* The end of a pass keeps the invariant; before it raises, the pass has seen
\* every remaining job without blocking or submitting one.
LEMMA SettleStep == DagInv /\ Settle => DagInv'
<1> SUFFICES ASSUME DagInv, Settle PROVE DagInv'
  OBVIOUS
<1>1. UNCHANGED <<upstream, remaining, running, outcome, results>>
  BY DEF Settle
<1>2. Known' = Known
  BY <1>1, KnownStable
<1>3. EveryJobOnce' /\ WithinParallel' /\ UpstreamsFirst' /\ BlockedByFailure' /\ NotYetRun'
  BY <1>1 DEF DagInv, EveryJobOnce, WithinParallel, UpstreamsFirst, BlockedByFailure, NotYetRun
<1>4. TypeOK'
  BY DEF Settle, Loop, DagInv, TypeOK
<1>5. PassSeen'
  BY <1>1, <1>2 DEF Settle, Loop, PassSeen
<1>6. Raised'
  <2> SUFFICES ASSUME step' = "raised" PROVE Raised'
    BY DEF Raised
  <2>1. running = {} /\ remaining # {} /\ ~progressed /\ step = "scan" /\ scan = {} /\ Submitted
    BY DEF Settle, Loop
  <2>2. Cardinality(running) = 0
    BY <2>1, FS_EmptySet
  <2>3. Ready = {}
    BY <2>1, <2>2, ParallelAssumption DEF Submitted
  <2>4. \A j \in remaining : ~Blockable(upstream, Known, j)
    BY <2>1 DEF DagInv, PassSeen
  <2>5. Ready' = Ready
    BY <1>1, <1>2 DEF Ready
  <2> QED
    BY <1>1, <1>2, <2>1, <2>3, <2>4, <2>5 DEF Raised
<1> QED
  BY <1>3, <1>4, <1>5, <1>6 DEF DagInv

\* Blocking a job keeps it: the upstream that did not succeed has failed, or
\* has a failed ancestor.
LEMMA VisitStep == ASSUME DagInv, NEW j \in Job, Visit(j) PROVE DagInv'
<1> USE DEF DagInv
<1>1. TypeOK'
  BY DEF Visit, TypeOK, Terminal
<1>2. CASE ~Blockable(upstream, Known, j)
  <2>1. /\ UNCHANGED <<upstream, remaining, running, outcome, step, results>>
        /\ progressed' = progressed /\ scan' = scan \ {j}
    BY <1>2 DEF Visit, TypeOK
  <2>2. Known' = Known
    BY <2>1, KnownStable
  <2>3. EveryJobOnce' /\ WithinParallel' /\ UpstreamsFirst' /\ BlockedByFailure' /\ NotYetRun'
    BY <2>1 DEF EveryJobOnce, WithinParallel, UpstreamsFirst, BlockedByFailure, NotYetRun
  <2>4. PassSeen'
    BY <1>2, <2>1, <2>2 DEF PassSeen
  <2>5. Raised'
    BY <2>1 DEF Visit, Raised
  <2> QED
    BY <1>1, <2>3, <2>4, <2>5
<1>3. CASE Blockable(upstream, Known, j)
  <2>1. /\ UNCHANGED <<upstream, running, outcome>>
        /\ step = "scan" /\ step' = "scan" /\ progressed'
        /\ remaining' = remaining \ {j}
        /\ \A k \in Job : results'[k] = IF k = j THEN "blocked" ELSE results[k]
    BY <1>3 DEF Visit
  <2>2. results[j] = "none" /\ j \notin running /\ j \in remaining
    BY <1>3, KnownJob DEF Blockable, EveryJobOnce
  <2>3. PICK u \in upstream[j] : Known[u] # "success" /\ Known[u] \in Terminal
    BY <1>3 DEF Blockable, Resolved
  <2>4. u \in Job /\ results[u] \in {"failed", "blocked"}
    BY <2>3, KnownJob DEF TypeOK, Terminal, Outcome
  <2>5. EveryJobOnce'
    BY <2>1, <2>2 DEF EveryJobOnce
  <2>6. WithinParallel'
    BY <2>1 DEF WithinParallel
  <2>7. UpstreamsFirst'
    BY <2>1, <2>2 DEF UpstreamsFirst, Outcome, TypeOK
  <2>8. PICK f \in Job : results[f] = "failed" /\ Reaches(upstream, f, u)
    BY <2>4, ReachesSelf DEF BlockedByFailure
  <2>9. Reaches(upstream, f, j) /\ results'[f] = "failed"
    BY <2>1, <2>2, <2>3, <2>4, <2>8, ReachesStep DEF TypeOK
  <2>10. \A k \in Job : results[k] = "failed" => results'[k] = "failed"
    BY <2>1, <2>2
  <2>11. BlockedByFailure'
    BY <2>1, <2>9, <2>10 DEF BlockedByFailure
  <2> QED
    BY <1>1, <2>1, <2>5, <2>6, <2>7, <2>11 DEF PassSeen, Raised, NotYetRun
<1> QED
  BY <1>2, <1>3

\* The submitted jobs can be counted.
LEMMA RunningFinite == ASSUME TypeOK PROVE IsFiniteSet(running) /\ Cardinality(running) \in Nat
BY JobAssumption, FS_Subset, FS_CardinalityType DEF TypeOK

\* Submitting a job keeps it: there is room, and its upstreams have succeeded.
LEMMA SubmitStep == ASSUME DagInv, NEW j \in Job, Submit(j) PROVE DagInv'
<1> USE DEF DagInv
<1>1. TypeOK'
  BY DEF Submit, TypeOK
<1>2. /\ j \in remaining /\ results[j] = "none" /\ j \notin running
      /\ \A u \in upstream[j] : results[u] = "success"
  BY KnownJob DEF Submit, First, Ready, Startable, EveryJobOnce, TypeOK
<1>3. /\ UNCHANGED <<upstream, results, outcome, step>>
      /\ remaining' = remaining \ {j} /\ running' = running \cup {j}
      /\ progressed' /\ step = "scan"
  BY DEF Submit
<1>4. EveryJobOnce'
  BY <1>2, <1>3 DEF EveryJobOnce
<1>5. WithinParallel'
  <2>1. IsFiniteSet(running) /\ Cardinality(running) \in Nat
    BY RunningFinite
  <2>2. Cardinality(running') = Cardinality(running) + 1
    BY <1>2, <1>3, <2>1, FS_AddElement
  <2>3. Cardinality(running) < Parallel
    BY DEF Submit
  <2> QED
    BY <2>1, <2>2, <2>3, ParallelAssumption DEF WithinParallel
<1>6. UpstreamsFirst'
  BY <1>2, <1>3 DEF UpstreamsFirst
<1>7. BlockedByFailure'
  BY <1>3 DEF BlockedByFailure
<1> QED
  BY <1>1, <1>3, <1>4, <1>5, <1>6, <1>7 DEF PassSeen, Raised, NotYetRun

\* Collecting the workers that have ended keeps it: none of them had a result.
LEMMA CollectStep == ASSUME DagInv, Collect PROVE DagInv'
<1> USE DEF DagInv
<1>1. TypeOK'
  BY DEF Collect, Loop, TypeOK, Executing, Terminal, Outcome
<1> DEFINE done == running \ Executing
<1>2. /\ UNCHANGED <<upstream, remaining, outcome>>
      /\ running' = running \ done
      /\ step' \in {"scan", "returned"} /\ scan' = remaining'
      /\ \A k \in Job : results'[k] = IF k \in done THEN outcome[k] ELSE results[k]
  BY DEF Collect, Loop, Executing
<1>3. \A k \in done : results[k] = "none" /\ outcome[k] \in Outcome
  BY DEF EveryJobOnce, Executing, TypeOK
<1>4. EveryJobOnce'
  BY <1>2, <1>3 DEF EveryJobOnce, TypeOK, Outcome
<1>5. WithinParallel'
  <2>1. IsFiniteSet(running) /\ Cardinality(running) \in Nat /\ running' \subseteq running
    BY <1>2, RunningFinite
  <2>2. Cardinality(running') \in Nat /\ Cardinality(running') <= Cardinality(running)
    BY <2>1, FS_Subset, FS_CardinalityType
  <2> QED
    BY <2>1, <2>2, ParallelAssumption DEF WithinParallel
<1>6. \A k \in Job : results[k] # "none" => results'[k] = results[k]
  BY <1>2, <1>3
<1>7. UpstreamsFirst'
  BY <1>2, <1>3, <1>6 DEF UpstreamsFirst, TypeOK
<1>8. BlockedByFailure'
  BY <1>2, <1>3, <1>6 DEF BlockedByFailure, Outcome
<1> QED
  BY <1>1, <1>2, <1>4, <1>5, <1>7, <1>8 DEF PassSeen, Raised, NotYetRun

\* The workers and an interrupt leave the coordinator's books alone.
LEMMA OtherStep ==
    ASSUME DagInv, Interrupt \/ (\E j \in Job : Work(j)) \/ UNCHANGED vars
    PROVE  DagInv'
<1> USE DEF DagInv
<1>1. /\ UNCHANGED <<upstream, remaining, running, results, scan, progressed>>
      /\ step' \in {step, "interrupted"}
  BY DEF Interrupt, Work, vars
<1>2. Known' = Known
  BY <1>1, KnownStable
<1>3. TypeOK'
  BY DEF Interrupt, Work, vars, TypeOK, Executing
<1>4. Ready' = Ready
  BY <1>1, <1>2 DEF Ready
<1>5. NotYetRun'
  BY <1>1 DEF Interrupt, Work, vars, Executing, NotYetRun, EveryJobOnce, TypeOK
<1> QED
  BY <1>1, <1>2, <1>3, <1>4, <1>5
  DEF EveryJobOnce, WithinParallel, UpstreamsFirst, BlockedByFailure, PassSeen, Raised

\* The invariant holds throughout every call of execute_dag.
LEMMA DagInductive == Spec => []DagInv
<1>1. DagInv /\ [Next]_vars => DagInv'
  BY SettleStep, VisitStep, SubmitStep, CollectStep, OtherStep DEF Next, Coordinate
<1> QED
  BY <1>1, DagInit, PTL DEF Spec

-----------------------------------------------------------------------------
\* No job is lost between passes, and none is submitted twice.
THEOREM Once == Spec => []EveryJobOnce
<1>1. DagInv => EveryJobOnce
  BY DEF DagInv
<1> QED
  BY <1>1, DagInductive, PTL

\* The number of submitted jobs never exceeds the limit.
THEOREM Limited == Spec => []WithinParallel
<1>1. DagInv => WithinParallel
  BY DEF DagInv
<1> QED
  BY <1>1, DagInductive, PTL

\* Whatever fails or completes in whatever order, a started job has successful
\* upstreams.
THEOREM Ordered == Spec => []UpstreamsFirst
<1>1. DagInv => UpstreamsFirst
  BY DEF DagInv
<1> QED
  BY <1>1, DagInductive, PTL

\* Failures block their dependents and nothing else.  The second half follows
\* from the first invariant: the jobs that have not succeeded are closed under
\* going downstream.
THEOREM FailuresContained == Spec => []FailuresBlockDependents
<1>1. DagInv => FailuresBlockDependents
  <2> SUFFICES ASSUME DagInv PROVE FailuresBlockDependents
    OBVIOUS
  <2>1. ASSUME NEW j \in Job, results[j] = "success", NEW f \in Job,
               Reaches(upstream, f, j), results[f] # "success"
        PROVE  FALSE
    <3> DEFINE S == {k \in Job : results[k] # "success"}
    <3>1. \A k \in Job : upstream[k] \cap S # {} => k \in S
      BY DEF DagInv, UpstreamsFirst, Outcome
    <3>2. f \in S /\ S \in SUBSET Job
      BY <2>1
    <3> HIDE DEF S
    <3>3. j \in S
      BY <2>1, <3>1, <3>2 DEF Reaches
    <3> QED
      BY <2>1, <3>3 DEF S
  <2> QED
    BY <2>1 DEF DagInv, BlockedByFailure, FailuresBlockDependents
<1> QED
  BY <1>1, DagInductive, PTL

\* The cycle error tells the truth: the jobs that are left wait for each other.
THEOREM RaisedForCycle == Spec => []RaisesOnlyForCycle
<1>1. DagInv => RaisesOnlyForCycle
  <2> SUFFICES ASSUME DagInv, step = "raised" PROVE RaisesOnlyForCycle
    BY DEF RaisesOnlyForCycle
  <2>1. running = {} /\ Ready = {} /\ remaining # {} /\ remaining \subseteq Job
    BY DEF DagInv, Raised, TypeOK
  <2>2. ASSUME NEW j \in remaining PROVE upstream[j] \cap remaining # {}
    <3>1. ~Blockable(upstream, Known, j) /\ ~Startable(upstream, Known, j)
      BY <2>1 DEF DagInv, Raised, Ready
    <3>2. j \in Job /\ Known[j] = "waiting"
      BY <2>1, KnownJob DEF DagInv, EveryJobOnce
    <3>3. PICK u \in upstream[j] : Known[u] \notin Terminal
      BY <3>1, <3>2 DEF Blockable, Startable, Resolved
    <3>4. u \in Job /\ results[u] = "none"
      BY <3>2, <3>3, KnownJob DEF DagInv, TypeOK
    <3> QED
      BY <2>1, <3>4 DEF DagInv, EveryJobOnce
  <2> QED
    BY <2>1, <2>2 DEF RaisesOnlyForCycle
<1> QED
  BY <1>1, DagInductive, PTL

-----------------------------------------------------------------------------
(* Refinement.  To the observer a job is what its worker made of it.       *)
LEMMA ObservedJob ==
    ASSUME DagInv, NEW j \in Job
    PROVE  Observed[j] = IF results[j] # "none" THEN results[j]
                         ELSE IF j \notin running THEN "waiting"
                         ELSE IF outcome[j] = "none" THEN "running" ELSE outcome[j]
<1>1. Observed[j] = IF j \in running /\ outcome[j] # "none" THEN outcome[j] ELSE Known[j]
  BY DEF Observed
<1>2. j \in running => results[j] = "none"
  BY DEF DagInv, EveryJobOnce
<1> QED
  BY <1>1, <1>2, KnownJob DEF DagInv

\* The detailed executor implements JobRun: every step starts, finishes or
\* blocks one job as JobRun allows, or is not seen.
THEOREM Implements == Spec => ImplementsJobRun
<1>1. Init => Run!Init
  <2> SUFFICES ASSUME Init PROVE Run!Init
    OBVIOUS
  <2>1. upstream \in [Job -> SUBSET Job]
    BY GraphAssumption DEF Init
  <2>2. Observed = [j \in Job |-> "waiting"]
    BY DEF Init, Observed, Known
  <2> QED
    BY <2>1, <2>2 DEF Run!Init
<1>2. DagInv /\ DagInv' /\ [Next]_vars => [Run!Next]_(Run!vars)
  <2> SUFFICES ASSUME DagInv, DagInv', [Next]_vars
               PROVE  [Run!Next]_(Run!vars)
    OBVIOUS
  <2>0. upstream' = upstream
    BY DEF Next, Coordinate, Settle, Collect, Visit, Submit, Work, Interrupt, vars
  <2>1. \A k \in Job :
          Observed'[k] = IF results'[k] # "none" THEN results'[k]
                         ELSE IF k \notin running' THEN "waiting"
                         ELSE IF outcome'[k] = "none" THEN "running" ELSE outcome'[k]
    BY DEF Observed, Known, DagInv, EveryJobOnce
  <2>2. \A k \in Job :
          Observed[k] = IF results[k] # "none" THEN results[k]
                        ELSE IF k \notin running THEN "waiting"
                        ELSE IF outcome[k] = "none" THEN "running" ELSE outcome[k]
    BY ObservedJob
  <2>3. /\ Observed = [k \in Job |-> Observed[k]]
        /\ Observed' = [k \in Job |-> Observed'[k]]
    BY DEF Observed
  <2>4. ASSUME \A k \in Job : Observed'[k] = Observed[k]
        PROVE  UNCHANGED Run!vars
    BY <2>0, <2>3, <2>4 DEF Run!vars
  <2>5. ASSUME NEW j \in Job, NEW v,
               \A k \in Job : Observed'[k] = IF k = j THEN v ELSE Observed[k]
        PROVE  Observed' = [Observed EXCEPT ![j] = v]
    BY <2>3, <2>5
  <2>6. ASSUME UNCHANGED <<running, outcome, results>>
        PROVE  UNCHANGED Run!vars
    BY <2>1, <2>2, <2>4, <2>6
  <2>7. CASE Collect
    <3>1. \A k \in Job : k \in running => results[k] = "none"
      BY DEF DagInv, EveryJobOnce
    <3>2. \A k \in Job : Observed'[k] = Observed[k]
      BY <2>1, <2>2, <2>7, <3>1 DEF Collect, Executing
    <3> QED
      BY <2>4, <3>2
  <2>8. ASSUME NEW j \in Job, Submit(j)
        PROVE  Run!Next
    <3>1. /\ j \in remaining /\ Startable(upstream, Known, j)
          /\ j \notin running /\ results[j] = "none"
      BY <2>8 DEF Submit, First, Ready, DagInv, EveryJobOnce
    <3>2. outcome[j] = "none"
      BY <3>1 DEF DagInv, NotYetRun
    <3>3. /\ UNCHANGED <<results, outcome>> /\ running' = running \cup {j}
          /\ Cardinality(running) < Parallel
      BY <2>8 DEF Submit
    <3>4. \A k \in Job : Observed'[k] = IF k = j THEN "running" ELSE Observed[k]
      BY <2>1, <2>2, <3>1, <3>2, <3>3
    <3>5. Observed' = [Observed EXCEPT ![j] = "running"] /\ Observed[j] = "waiting"
      BY <2>2, <2>5, <3>1, <3>4
    <3>6. \A u \in upstream[j] : Observed[u] = "success"
      BY <2>2, <3>1, KnownJob DEF Startable, DagInv, TypeOK
    <3>7. Cardinality(Run!Running) < Parallel
      <4>1. Run!Running \subseteq running
        BY <2>2 DEF Run!Running, DagInv, TypeOK, Terminal, Outcome
      <4>2. /\ IsFiniteSet(running) /\ Cardinality(running) \in Nat
        BY RunningFinite DEF DagInv
      <4>3. IsFiniteSet(Run!Running) /\ Cardinality(Run!Running) <= Cardinality(running)
        BY <4>1, <4>2, FS_Subset
      <4>4. Cardinality(Run!Running) \in Nat
        BY <4>3, FS_CardinalityType
      <4> QED
        BY <3>3, <4>2, <4>3, <4>4, ParallelAssumption
    <3>8. Run!Startable(upstream, Observed, j)
      BY <3>5, <3>6 DEF Run!Startable
    <3>9. Run!Cardinality(Run!Running) = Cardinality(Run!Running)
      BY DEF Run!Cardinality, Cardinality
    <3>10. Run!Start(j)
      BY <2>0, <3>5, <3>7, <3>8, <3>9 DEF Run!Start
    <3> QED
      BY <3>10 DEF Run!Next
  <2>9. ASSUME NEW j \in Job, Work(j)
        PROVE  Run!Next
    <3>1. PICK o \in Outcome : outcome' = [outcome EXCEPT ![j] = o]
      BY <2>9 DEF Work
    <3>2. /\ j \in running /\ outcome[j] = "none" /\ results[j] = "none"
          /\ UNCHANGED <<running, results>>
      BY <2>9 DEF Work, Executing, DagInv, EveryJobOnce
    <3>3. \A k \in Job : outcome'[k] = IF k = j THEN o ELSE outcome[k]
      BY <3>1 DEF DagInv, TypeOK
    <3>4. \A k \in Job : Observed'[k] = IF k = j THEN o ELSE Observed[k]
      BY <2>1, <2>2, <3>2, <3>3 DEF Outcome
    <3>5. Observed' = [Observed EXCEPT ![j] = o] /\ Observed[j] = "running"
      BY <2>2, <2>5, <3>2, <3>4
    <3> QED
      BY <2>0, <3>5 DEF Run!Next, Run!Finish, Run!Outcome, Outcome
  <2>10. ASSUME NEW j \in Job, Visit(j)
         PROVE  Run!Next \/ UNCHANGED Run!vars
    <3>1. CASE ~Blockable(upstream, Known, j)
      BY <2>6, <2>10, <3>1 DEF Visit, DagInv, TypeOK
    <3>2. CASE Blockable(upstream, Known, j)
      <4>1. /\ \A k \in Job : results'[k] = IF k = j THEN "blocked" ELSE results[k]
            /\ UNCHANGED <<running, outcome>>
        BY <2>10, <3>2 DEF Visit
      <4>2. results[j] = "none" /\ j \notin running
        BY <3>2, KnownJob DEF Blockable, DagInv, EveryJobOnce, Known
      <4>3. \A k \in Job : Observed'[k] = IF k = j THEN "blocked" ELSE Observed[k]
        BY <2>1, <2>2, <4>1, <4>2
      <4>4. Observed' = [Observed EXCEPT ![j] = "blocked"] /\ Observed[j] = "waiting"
        BY <2>2, <2>5, <4>2, <4>3
      <4>5. \A u \in upstream[j] : u \in Job /\ Known[u] \in Terminal /\ Observed[u] = Known[u]
        BY <2>2, <3>2, KnownJob DEF Blockable, Resolved, DagInv, TypeOK
      <4>6. Run!Blockable(upstream, Observed, j)
        BY <3>2, <4>4, <4>5
        DEF Blockable, Run!Blockable, Run!Resolved, Run!Terminal, Run!Outcome, Terminal, Outcome
      <4> QED
        BY <2>0, <4>4, <4>6 DEF Run!Next, Run!Block
    <3> QED
      BY <3>1, <3>2
  <2>11. CASE Settle \/ Interrupt \/ UNCHANGED vars
    BY <2>6, <2>11 DEF Settle, Interrupt, vars
  <2> QED
    BY <2>7, <2>8, <2>9, <2>10, <2>11 DEF Next, Coordinate
<1> QED
  BY <1>1, <1>2, DagInductive, PTL DEF Spec, ImplementsJobRun, Run!Spec

-----------------------------------------------------------------------------
(* Lineage files: the importer looks up what the contract has found.       *)

\* What a text and a key have to do with each other.
LEMMA TextsOfKeys ==
    ASSUME NEW text, NEW k, Len(k) = 3, text \in {k, Middle(k), Short(k)}
    PROVE  /\ text = k \/ text = <<k[2], k[3]>> \/ text = <<k[3]>>
           /\ text = k => Len(text) = 3
           /\ text = Middle(k) => Len(text) = 2
           /\ text = Short(k) => Len(text) = 1
BY DEF Middle, Short

\* Whatever a text of a table is made of, its identity has three parts.
LEMMA KeysOfTexts ==
    ASSUME NEW text, Len(text) \in 1..3
    PROVE  Len(Identity(text)) = 3
BY DEF Identity

\* A text stands for what its identity stands for.
LEMMA TextOfIdentity ==
    ASSUME NEW k, Len(k) = 3, NEW text, text \in {k, Middle(k), Short(k)}
    PROVE  text \in {Identity(text), Middle(Identity(text)), Short(Identity(text))}
<1>1. CASE text = k
  BY <1>1 DEF Identity
<1>2. CASE text = Middle(k)
  BY <1>2 DEF Identity, Middle
<1>3. CASE text = Short(k)
  BY <1>3 DEF Identity, Short
<1> QED BY <1>1, <1>2, <1>3

\* The importer looks nowhere but where the contract does.
LEMMA OneCandidate ==
    ASSUME NEW f, Tidy(f), NEW text, NEW e \in f.tables, Answering(f, text) = {e}
    PROVE  Named(f, text) \subseteq {e} /\ Alike(f, text) \subseteq {e}
<1>1. \A d \in f.tables : Len(Key(d)) = 3
  BY KeysOfTexts DEF Tidy, Key
<1>2. text \in {Identity(text), Middle(Identity(text)), Short(Identity(text))}
  <2>1. text \in {Key(e), Middle(Key(e)), Short(Key(e))}
    BY DEF Answering
  <2> QED BY <2>1, <1>1, TextOfIdentity
<1>3. ASSUME NEW d \in f.tables, Identity(text) = Key(d) PROVE d = e
  <2>1. d \in Answering(f, text)
    BY <1>2, <1>3 DEF Answering
  <2> QED BY <2>1
<1>4. ASSUME NEW d \in f.tables, text = Short(Key(d)) PROVE d = e
  <2>1. d \in Answering(f, text)
    BY <1>4 DEF Answering
  <2> QED BY <2>1
<1>5. Key(e)[2] # NoDatabase /\ text \in {Key(e), Middle(Key(e)), Short(Key(e))} /\ Len(Key(e)) = 3
  BY <1>1 DEF Tidy, Answering
<1>6. ASSUME NEW k, Len(k) = 3, Identity(text) = Identity(Short(k)) PROVE text = Short(k)
  <2>1. Identity(Short(k)) = <<Internal, NoDatabase, k[3]>>
    BY DEF Identity, Short
  <2>2. CASE text = Key(e)
    <3>1. Identity(text) = text
      BY <2>2, <1>5 DEF Identity
    <3>2. text[2] = NoDatabase
      BY <3>1, <2>1, <1>6
    <3> QED BY <3>2, <2>2, <1>5
  <2>3. CASE text = Middle(Key(e))
    <3>1. Identity(text) = <<Internal, Key(e)[2], Key(e)[3]>>
      BY <2>3 DEF Identity, Middle
    <3>2. Key(e)[2] = NoDatabase
      BY <3>1, <2>1, <1>6
    <3> QED BY <3>2, <1>5
  <2>4. CASE text = Short(Key(e))
    <3>1. Identity(text) = <<Internal, NoDatabase, Key(e)[3]>>
      BY <2>4 DEF Identity, Short
    <3>2. Key(e)[3] = k[3]
      BY <3>1, <2>1, <1>6
    <3> QED BY <3>2, <2>4 DEF Short
  <2> QED BY <1>5, <2>2, <2>3, <2>4
<1>7. ASSUME NEW d \in f.tables, text \in {d.name, d.full} PROVE d = e
  <2>1. d.name = Short(Key(d)) \/ Identity(d.name) = Key(d)
    BY DEF Tidy
  <2>2. Identity(d.full) = Key(d)
    BY DEF Key
  <2> QED BY <2>1, <2>2, <1>3, <1>4, <1>7
<1>8. ASSUME NEW d \in f.tables, Identity(text) \in {Identity(d.name), Identity(d.full)} PROVE d = e
  <2>1. CASE Identity(text) = Identity(d.full)
    BY <2>1, <1>3 DEF Key
  <2>2. CASE Identity(text) = Identity(d.name) /\ Identity(d.name) = Key(d)
    BY <2>2, <1>3
  <2>3. CASE Identity(text) = Identity(d.name) /\ d.name = Short(Key(d))
    BY <2>3, <1>1, <1>6, <1>4
  <2> QED BY <2>1, <2>2, <2>3, <1>8 DEF Tidy
<1> QED BY <1>7, <1>8 DEF Named, Alike

\* The text and the column are found where the contract has found them.
LEMMA FoundWhereMeant ==
    ASSUME NEW f, Tidy(f), NEW text, Resolves(f, text)
    PROVE  /\ Candidates(f, text) # {} => TableIdForRef(f, text) = Meant(f, text)
           /\ \A c : Holders(f, text, c) # {} => ColumnIdForRef(f, text, c) = <<Meant(f, text), c>>
<1>1. PICK e \in f.tables : Answering(f, text) = {e}
  BY DEF Resolves
<1>2. Meant(f, text) = e
  <2>1. \A d \in f.tables : Answering(f, text) = {d} => d = e
    BY <1>1
  <2> QED BY <1>1, <2>1 DEF Meant
<1>3. Named(f, text) \subseteq {e} /\ Alike(f, text) \subseteq {e}
  BY <1>1, OneCandidate
<1>4. Candidates(f, text) # {} => TableIdForRef(f, text) = e
  <2>1. Candidates(f, text) \subseteq {e}
    BY <1>3 DEF Candidates
  <2> QED BY <2>1 DEF TableIdForRef
<1>5. ASSUME NEW c, Holders(f, text, c) # {} PROVE ColumnIdForRef(f, text, c) = <<e, c>>
  <2>1. Holders(f, text, c) \subseteq {e}
    BY <1>3 DEF Holders, Having
  <2>2. (CHOOSE d \in Holders(f, text, c) : TRUE) = e
    BY <2>1, <1>5
  <2> QED BY <2>2 DEF ColumnIdForRef
<1> QED BY <1>2, <1>4, <1>5

\* The columns of a table are filed under its own entry.
LEMMA OwnColumns ==
    ASSUME NEW f, Tidy(f), Contract(f), NEW e \in f.tables
    PROVE  TableIdForRef(f, e.full) = e
<1>1. e \in Named(f, e.full)
  BY DEF Named
<1>2. ASSUME NEW d \in Named(f, e.full) PROVE d = e
  <2>1. d \in f.tables /\ (d.name = e.full \/ d.full = e.full)
    BY <1>2 DEF Named
  <2>2. d.name = e.full => Identity(d.name) = Key(e)
    BY DEF Key
  <2>3. Identity(Short(Key(d)))[2] = NoDatabase
    BY DEF Identity, Short
  <2>4. Key(e)[2] # NoDatabase
    BY DEF Tidy
  <2>5. Key(d) = Key(e)
    BY <2>1, <2>2, <2>3, <2>4 DEF Tidy, Key
  <2> QED BY <2>1, <2>5 DEF Contract
<1>3. Candidates(f, e.full) = {e}
  BY <1>1, <1>2 DEF Candidates
<1> QED BY <1>3 DEF TableIdForRef

(* Of any tidy file, the importer files every row under the tables and columns *)
(* that the contract has found the texts of the file to mean.                  *)
THEOREM FiledAsMeant ==
    ASSUME NEW f, Tidy(f), Importable(f)
    PROVE  ImportRows(f) = MeantRows(f)
<1>1. Contract(f)
  BY DEF Importable
<1>2. [e \in f.tables |-> TableIdForRef(f, e.full)] = [e \in f.tables |-> e]
  BY <1>1, OwnColumns
<1>3. ASSUME NEW x \in UNION {Ends(e) : e \in f.edges}, x.type # "literal"
      PROVE  Resolves(f, x.table) /\ Candidates(f, x.table) # {}
             /\ (x.type = "column" => Holders(f, x.table, x.column) # {})
  <2>1. PICK e \in f.edges : x \in Ends(e)
    BY <1>3
  <2>2. ValidEnd(f, x)
    BY <2>1, <1>1 DEF Contract, Ends
  <2>3. FoundEnd(f, x)
    BY <2>1 DEF Importable
  <2> QED BY <2>2, <2>3, <1>3 DEF ValidEnd, FoundEnd
<1>4. ASSUME NEW x \in Texts(f) PROVE Resolves(f, x) /\ Candidates(f, x) # {}
  <2>1. CASE \E y \in UNION {Ends(e) : e \in f.edges} : y.type # "literal" /\ x = y.table
    BY <2>1, <1>3
  <2>2. CASE \E j \in DOMAIN f.jobs, io \in {"INPUT", "OUTPUT"} : x \in f.jobs[j][io]
    BY <2>2, <1>1 DEF Contract, ValidJob, Importable
  <2> QED BY <2>1, <2>2, <1>4 DEF Texts
<1>5. [x \in Texts(f) |-> TableIdForRef(f, x)] = [x \in Texts(f) |-> Meant(f, x)]
  BY <1>4, FoundWhereMeant
<1>6. [x \in ColumnEnds(f) |-> ColumnIdForRef(f, x.table, x.column)]
      = [x \in ColumnEnds(f) |-> <<Meant(f, x.table), x.column>>]
  <2>1. ASSUME NEW x \in ColumnEnds(f)
        PROVE ColumnIdForRef(f, x.table, x.column) = <<Meant(f, x.table), x.column>>
    <3>1. x \in UNION {Ends(e) : e \in f.edges} /\ x.type = "column"
      BY DEF ColumnEnds
    <3> QED BY <3>1, <1>3, FoundWhereMeant
  <2> QED BY <2>1
<1> QED BY <1>2, <1>5, <1>6 DEF ImportRows, MeantRows

-----------------------------------------------------------------------------
\* The entry of a table in a file that the extractor has written.
EntryOf(g, t) == [name |-> Stored(t), full |-> Display(t), columns |-> g.columns[t]]

\* Every name that the extractor has for a table stands for it or for its short names.
LEMMA WrittenNames ==
    ASSUME NEW g, IsGraph(g), NEW t \in g.tables
    PROVE  /\ Len(t) = 3 /\ t = <<t[1], t[2], t[3]>> /\ t[2] # NoDatabase
           /\ Identity(Display(t)) = t /\ Len(Display(t)) \in 1..3 /\ Len(Stored(t)) \in 1..3
           /\ Display(t) \in {t, Middle(t)} /\ Stored(t) \in {Short(t), Display(t)}
           /\ Key(EntryOf(g, t)) = t
<1>1. t = <<t[1], t[2], t[3]>> /\ t[2] # NoDatabase
  BY DEF IsGraph
<1>2. Len(t) = 3
  <2> DEFINE a == t[1]  b == t[2]  c == t[3]
  <2>1. Len(<<a, b, c>>) = 3
    OBVIOUS
  <2> QED BY <1>1, <2>1
<1>3. Display(t) \in {t, Middle(t)} /\ Stored(t) \in {Short(t), Display(t)}
  BY DEF Display, Stored
<1>4. Len(Middle(t)) = 2 /\ Len(Short(t)) = 1
  BY DEF Middle, Short
<1>5. Identity(Display(t)) = t
  <2>1. CASE t[1] = Internal
    <3>1. Identity(Middle(t)) = <<Internal, t[2], t[3]>>
      BY DEF Identity, Middle
    <3> QED BY <2>1, <3>1, <1>1 DEF Display
  <2>2. CASE t[1] # Internal
    BY <2>2, <1>2 DEF Identity, Display
  <2> QED BY <2>1, <2>2
<1>6. Key(EntryOf(g, t)) = t
  BY <1>5 DEF Key, EntryOf
<1>7. Len(Display(t)) \in 1..3 /\ Len(Stored(t)) \in 1..3
  BY <1>2, <1>3, <1>4
<1> QED BY <1>1, <1>2, <1>3, <1>5, <1>6, <1>7

\* The extractor leaves no name without a database that is not short.
LEMMA WrittenIsTidy == ASSUME NEW g, IsGraph(g) PROVE Tidy(Written(g))
<1>1. Written(g).tables = {EntryOf(g, t) : t \in g.tables}
  BY DEF Written, EntryOf
<1>2. ASSUME NEW e \in Written(g).tables
      PROVE  /\ Len(e.full) \in 1..3 /\ Key(e)[2] # NoDatabase
             /\ e.name = Short(Key(e)) \/ Identity(e.name) = Key(e)
  <2>1. PICK t \in g.tables : e = EntryOf(g, t)
    BY <1>1
  <2>2. e.full = Display(t) /\ e.name = Stored(t)
    BY <2>1 DEF EntryOf
  <2>3. Key(e) = t
    BY <2>1, WrittenNames
  <2> QED BY <2>2, <2>3, WrittenNames
<1> QED BY <1>2 DEF Tidy

\* A reference to a table means its entry.
LEMMA WrittenReference ==
    ASSUME NEW g, IsGraph(g), NEW t \in g.tables, NEW preferred \in {Stored(t), Display(t)}
    PROVE  LET r == Reference(g, t, preferred) IN
           /\ Answering(Written(g), r) = {EntryOf(g, t)}
           /\ EntryOf(g, t) \in Named(Written(g), r) \cup Alike(Written(g), r)
<1> DEFINE r == Reference(g, t, preferred)
           f == Written(g)
<1>1. f.tables = {EntryOf(g, u) : u \in g.tables}
  BY DEF Written, EntryOf
<1>2. \A u \in g.tables : Key(EntryOf(g, u)) = u /\ Len(u) = 3 /\ u = <<u[1], u[2], u[3]>>
  BY WrittenNames
<1>3. \A u \in g.tables : Len(Short(u)) = 1 /\ Len(Middle(u)) = 2
  BY DEF Short, Middle
<1>4. \A u \in g.tables : Middle(u) = Middle(t) => Short(u) = Short(t)
  BY DEF Short, Middle
<1>5. preferred \in {Short(t), Middle(t), t} /\ Display(t) \in {Middle(t), t}
  BY WrittenNames
<1>6. /\ r \in {Short(t), Middle(t), t}
      /\ \A u \in g.tables : r \in {u, Middle(u), Short(u)} => u = t
  <2>1. CASE \A u \in g.tables : Short(u) = Short(t) => u = t
    <3>1. r = preferred
      BY <2>1 DEF Reference
    <3> HIDE DEF r
    <3>2. ASSUME NEW u \in g.tables, r \in {u, Middle(u), Short(u)} PROVE u = t
      <4>1. CASE r = Short(t)
        BY <4>1, <3>2, <1>2, <1>3, <2>1
      <4>2. CASE r = Middle(t)
        BY <4>2, <3>2, <1>2, <1>3, <1>4, <2>1
      <4>3. CASE r = t
        BY <4>3, <3>2, <1>2, <1>3
      <4> QED BY <4>1, <4>2, <4>3, <3>1, <1>5
    <3> QED BY <3>1, <3>2, <1>5
  <2>2. CASE /\ ~ (\A u \in g.tables : Short(u) = Short(t) => u = t)
             /\ \A u \in g.tables : Middle(u) = Middle(t) => u = t
    <3>1. r = Display(t)
      BY <2>2 DEF Reference
    <3> HIDE DEF r
    <3>2. ASSUME NEW u \in g.tables, r \in {u, Middle(u), Short(u)} PROVE u = t
      <4>1. CASE r = Middle(t)
        BY <4>1, <3>2, <1>2, <1>3, <2>2
      <4>2. CASE r = t
        BY <4>2, <3>2, <1>2, <1>3
      <4> QED BY <4>1, <4>2, <3>1, <1>5
    <3> QED BY <3>1, <3>2, <1>5
  <2>3. CASE /\ ~ (\A u \in g.tables : Short(u) = Short(t) => u = t)
             /\ ~ (\A u \in g.tables : Middle(u) = Middle(t) => u = t)
    <3>1. r = t
      BY <2>3 DEF Reference
    <3> QED BY <3>1, <1>2, <1>3
  <2> QED BY <2>1, <2>2, <2>3
<1>7. r \in {preferred, Display(t), t}
  BY DEF Reference
<1> HIDE DEF r, f
<1>8. Answering(f, r) = {EntryOf(g, t)}
  <2>1. EntryOf(g, t) \in Answering(f, r)
    BY <1>1, <1>2, <1>6 DEF Answering
  <2>2. ASSUME NEW d \in Answering(f, r) PROVE d = EntryOf(g, t)
    <3>1. PICK u \in g.tables : d = EntryOf(g, u)
      BY <2>2, <1>1 DEF Answering
    <3>2. r \in {u, Middle(u), Short(u)}
      BY <2>2, <3>1, <1>2 DEF Answering
    <3> QED BY <3>1, <3>2, <1>6
  <2> QED BY <2>1, <2>2
<1>9. EntryOf(g, t) \in Named(f, r) \cup Alike(f, r)
  <2>1. EntryOf(g, t).name = Stored(t) /\ EntryOf(g, t).full = Display(t) /\ EntryOf(g, t) \in f.tables
    BY <1>1 DEF EntryOf
  <2>2. CASE r \in {preferred, Display(t)}
    BY <2>1, <2>2 DEF Named
  <2>3. CASE r = t
    <3>1. Identity(t) = t
      BY <1>2 DEF Identity
    <3>2. Identity(Display(t)) = t
      BY WrittenNames
    <3> QED BY <3>1, <3>2, <2>1, <2>3 DEF Alike
  <2> QED BY <1>7, <2>2, <2>3
<1> QED BY <1>8, <1>9 DEF r, f

(* What the extractor writes of any graph keeps the contract, and the importer *)
(* takes it: a reference to a table means it even where tables of one name, or *)
(* of one database and name, are many.                                         *)
THEOREM WrittenIsAccepted ==
    ASSUME NEW g, IsGraph(g)
    PROVE  Contract(Written(g)) /\ Tidy(Written(g)) /\ Importable(Written(g))
<1> DEFINE f == Written(g)
           Ref(t, preferred) == Reference(g, t, preferred)
<1>1. f.tables = {EntryOf(g, t) : t \in g.tables}
  BY DEF Written, EntryOf
<1>2. \A t \in g.tables : Key(EntryOf(g, t)) = t
  BY WrittenNames
<1>3. \A t, u \in g.tables : EntryOf(g, t) = EntryOf(g, u) => t = u
  BY <1>2
<1>4. ASSUME NEW t \in g.tables, NEW preferred \in {Stored(t), Display(t)}
      PROVE  /\ Resolves(f, Ref(t, preferred)) /\ Meant(f, Ref(t, preferred)) = EntryOf(g, t)
             /\ Candidates(f, Ref(t, preferred)) # {}
             /\ \A c \in g.columns[t] : Holders(f, Ref(t, preferred), c) # {}
  <2> DEFINE r == Reference(g, t, preferred)
  <2>1. /\ Answering(f, r) = {EntryOf(g, t)}
        /\ EntryOf(g, t) \in Named(f, r) \cup Alike(f, r)
    BY WrittenReference
  <2>2. EntryOf(g, t) \in f.tables
    BY <1>1
  <2> HIDE DEF f, r
  <2>3. Resolves(f, r)
    BY <2>1, <2>2 DEF Resolves
  <2>4. Meant(f, r) = EntryOf(g, t)
    <3>1. \A d \in f.tables : Answering(f, r) = {d} => d = EntryOf(g, t)
      BY <2>1
    <3> QED BY <3>1, <2>1, <2>2 DEF Meant
  <2>5. Candidates(f, r) # {}
    BY <2>1 DEF Candidates
  <2>6. ASSUME NEW c \in g.columns[t] PROVE Holders(f, r, c) # {}
    <3>1. c \in EntryOf(g, t).columns
      BY DEF EntryOf
    <3> QED BY <3>1, <2>1 DEF Holders, Having
  <2> QED BY <2>3, <2>4, <2>5, <2>6 DEF r
<1>5. ASSUME NEW x \in ColumnsAndTables(g)
      PROVE  LET y == WrittenEnd(g, x) IN
             /\ ValidEnd(f, y) /\ FoundEnd(f, y) /\ y.type = x.type /\ x.type \in {"column", "table"}
  <2> DEFINE y == WrittenEnd(g, x)
  <2>1. /\ x.type \in {"column", "table"} /\ x.table \in g.tables
        /\ x.type = "column" => x.column \in g.columns[x.table] /\ "column" \in DOMAIN x
        /\ x = [n \in DOMAIN x |-> x[n]] /\ {"type", "table"} \subseteq DOMAIN x
    <3>1. CASE x \in [type : {"table"}, table : g.tables]
      <4>1. DOMAIN x = {"type", "table"} /\ x = [n \in DOMAIN x |-> x[n]]
        BY <3>1
      <4>2. x.type = "table" /\ x.table \in g.tables
        BY <3>1
      <4> QED BY <4>1, <4>2
    <3>2. CASE \E t \in g.tables : x \in [type : {"column"}, table : {t}, column : g.columns[t]]
      <4>1. PICK t \in g.tables : x \in [type : {"column"}, table : {t}, column : g.columns[t]]
        BY <3>2
      <4>2. x.type = "column" /\ x.table = t /\ x.column \in g.columns[t]
        BY <4>1
      <4>3. DOMAIN x = {"type", "table", "column"} /\ x = [n \in DOMAIN x |-> x[n]]
        BY <4>1
      <4> QED BY <4>2, <4>3
    <3>3. (\E t \in g.tables : x \in [type : {"column"}, table : {t}, column : g.columns[t]])
          \/ x \in [type : {"table"}, table : g.tables]
      <4> DEFINE ends(t) == [type : {"column"}, table : {t}, column : g.columns[t]]
                 tables == [type : {"table"}, table : g.tables]
      <4>1. x \in (UNION {ends(t) : t \in g.tables}) \cup tables
        BY DEF ColumnsAndTables
      <4> HIDE DEF ends, tables
      <4>2. (\E t \in g.tables : x \in ends(t)) \/ x \in tables
        BY <4>1
      <4> QED BY <4>2 DEF ends, tables
    <3> QED BY <3>1, <3>2, <3>3
  <2>2. y = [x EXCEPT !.table = Ref(x.table, Stored(x.table))]
    BY <2>1 DEF WrittenEnd
  <2>3. y.type = x.type /\ y.table = Ref(x.table, Stored(x.table)) /\ (x.type = "column" => y.column = x.column)
    BY <2>1, <2>2
  <2> HIDE DEF y
  <2>4. /\ Resolves(f, y.table) /\ Meant(f, y.table) = EntryOf(g, x.table)
        /\ Candidates(f, y.table) # {}
        /\ \A c \in g.columns[x.table] : Holders(f, y.table, c) # {}
    <3>1. x.table \in g.tables /\ Stored(x.table) \in {Stored(x.table), Display(x.table)}
      BY <2>1
    <3> QED BY <3>1, <2>3, <1>4
  <2>5. x.type = "column" => y.column \in Meant(f, y.table).columns
    BY <2>1, <2>3, <2>4 DEF EntryOf
  <2>6. ValidEnd(f, y)
    BY <2>1, <2>3, <2>4, <2>5 DEF ValidEnd
  <2>7. FoundEnd(f, y)
    BY <2>1, <2>3, <2>4 DEF FoundEnd
  <2> QED BY <2>1, <2>3, <2>6, <2>7 DEF y
<1>6. WrittenEnd(g, [type |-> "literal"]) = [type |-> "literal"]
  BY DEF WrittenEnd
<1>7. ASSUME NEW e \in f.edges
      PROVE  /\ ValidEnd(f, e.source) /\ e.source.type # "table"
             /\ ValidEnd(f, e.target) /\ e.target.type # "literal"
             /\ e.job \in DOMAIN f.jobs
             /\ Shape(e) /\ \A x \in Ends(e) : FoundEnd(f, x)
  <2>1. PICK d \in g.edges :
            e = [source |-> WrittenEnd(g, d.source), target |-> WrittenEnd(g, d.target),
                 relation |-> d.relation, job |-> d.job]
    BY DEF Written
  <2>2. /\ d.source \in ColumnsAndTables(g) \cup {[type |-> "literal"]} /\ d.source.type # "table"
        /\ d.target \in ColumnsAndTables(g)
        /\ Shape(d) /\ d.job \in DOMAIN g.jobs
    BY DEF IsGraph
  <2>3. /\ e.source = WrittenEnd(g, d.source) /\ e.target = WrittenEnd(g, d.target)
        /\ e.relation = d.relation /\ e.job = d.job
    BY <2>1
  <2>4. DOMAIN f.jobs = DOMAIN g.jobs
    BY DEF Written
  <2> HIDE DEF f
  <2>5. ValidEnd(f, e.target) /\ FoundEnd(f, e.target) /\ e.target.type = d.target.type
        /\ d.target.type \in {"column", "table"}
    BY <2>2, <2>3, <1>5
  <2>6. ValidEnd(f, e.source) /\ FoundEnd(f, e.source) /\ e.source.type = d.source.type
    <3>1. CASE d.source \in ColumnsAndTables(g)
      BY <3>1, <2>3, <1>5
    <3>2. CASE d.source = [type |-> "literal"]
      BY <3>2, <2>3, <1>6 DEF ValidEnd, FoundEnd
    <3> QED BY <3>1, <3>2, <2>2
  <2>7. Shape(e)
    BY <2>2, <2>3, <2>5, <2>6 DEF Shape
  <2>8. \A x \in Ends(e) : FoundEnd(f, x)
    BY <2>5, <2>6 DEF Ends
  <2>9. e.source.type # "table" /\ e.target.type # "literal"
    BY <2>2, <2>5, <2>6
  <2> QED BY <2>2, <2>3, <2>4, <2>5, <2>6, <2>7, <2>8, <2>9
<1>8. ASSUME NEW j \in DOMAIN f.jobs, NEW io \in {"INPUT", "OUTPUT"}, NEW x \in f.jobs[j][io]
      PROVE  /\ Resolves(f, x) /\ Candidates(f, x) # {}
             /\ \A y \in f.jobs[j][io] : Meant(f, x) = Meant(f, y) => x = y
  <2>1. /\ g.jobs[j][io] \subseteq g.tables
        /\ f.jobs[j][io] = {Ref(t, Display(t)) : t \in g.jobs[j][io]}
    BY DEF Written, IsGraph
  <2> HIDE DEF f, Ref
  <2>2. PICK t \in g.tables : x = Ref(t, Display(t))
    BY <2>1
  <2>3. Resolves(f, x) /\ Candidates(f, x) # {} /\ Meant(f, x) = EntryOf(g, t)
    BY <2>2, <1>4
  <2>4. ASSUME NEW y \in f.jobs[j][io], Meant(f, x) = Meant(f, y) PROVE x = y
    <3>1. PICK u \in g.tables : y = Ref(u, Display(u))
      BY <2>1
    <3>2. Meant(f, y) = EntryOf(g, u)
      BY <3>1, <1>4
    <3> QED BY <3>1, <3>2, <2>2, <2>3, <2>4, <1>3
  <2> QED BY <2>3, <2>4
<1>9. ASSUME NEW d \in f.tables, NEW e \in f.tables, Key(d) = Key(e) PROVE d = e
  BY <1>1, <1>2, <1>9
<1>10. Tidy(f)
  BY WrittenIsTidy
<1> HIDE DEF f, Ref
<1>11. Contract(f)
  <2>1. \A j \in DOMAIN f.jobs : ValidJob(f, j)
    BY <1>8 DEF ValidJob
  <2> QED BY <2>1, <1>7, <1>9 DEF Contract
<1>12. Importable(f)
  <2>1. \A j \in DOMAIN f.jobs, io \in {"INPUT", "OUTPUT"} : \A x \in f.jobs[j][io] : Candidates(f, x) # {}
    BY <1>8
  <2>2. \A e \in f.edges : Shape(e) /\ \A x \in Ends(e) : FoundEnd(f, x)
    BY <1>7
  <2> QED BY <2>1, <2>2, <1>11 DEF Importable
<1> QED BY <1>10, <1>11, <1>12 DEF f

-----------------------------------------------------------------------------
(* The lineage database: invariants of the imports.                        *)

\* An import that runs has met every other that has begun.
Met == \A p, q \in Import : p # q /\ Running(q) /\ import[p].snapshot # Nobody => q \in since[p]

\* Rows that an import has to insert; tables that it has cleared.
AllRows(p) == Rows(ImportRows(import[p].file))
HasCleared(p, s) == \A i \in 1..(import[p].next - 1) : \A r \in RowsOf(s) : r.table # DeleteOrder[i]
\* What an import that nobody interferes with has made of its snapshot so far.
Progress(p) ==
    /\ import[p].at \in {"check", "alter", "delete"} => import[p].left = AllRows(p)
    /\ import[p].at \in {"check", "alter"} => import[p].next = 1
    /\ import[p].at = "delete" /\ Alone(p) => HasCleared(p, import[p].snapshot)
    /\ import[p].at = "insert" /\ Alone(p) =>
         RowsOf(import[p].snapshot) = Stamped(AllRows(p) \ import[p].left, import[p].snapshot, p)
\* A header tells who has filled the snapshot, all of it.
FilledBy(p, s) ==
    /\ import[p].at \in {"others", "itself", "done", "stopped"} /\ import[p].snapshot = s
    /\ Alone(p) => RowsOf(s) = Stamped(AllRows(p), s, p)
Filled(s) == \A p \in Import : header[s] # Nobody /\ header[s].by = p => FilledBy(p, s)
InTurn == (\A p \in Import : Progress(p)) /\ (\A s \in SnapshotId : Filled(s))

ActivatedBy(s) == IF header[s] = Nobody THEN Nobody ELSE header[s].active
\* Who has activated a snapshot is done, and has met whoever is about to.
Activators ==
    /\ \A s \in SnapshotId : ActivatedBy(s) # Nobody =>
         import[ActivatedBy(s)].at = "done" /\ import[ActivatedBy(s)].snapshot = s
    /\ \A p \in Import, s \in SnapshotId :
        import[p].at = "itself" /\ s # import[p].snapshot /\ ActivatedBy(s) # Nobody => Overlap(p, ActivatedBy(s))
StoreInv == StoreTypeOK /\ Met /\ InTurn /\ Activators /\ OneActive

Started(p) == import[p].snapshot # Nobody
\* An import begins, is refused, or does something.
Begins(p) ==
    /\ import[p] = NotBegun /\ Begun(import'[p]) /\ import' = [import EXCEPT ![p] = import'[p]]
    /\ import'[p].at = "check" /\ import'[p].left = Rows(ImportRows(import'[p].file)) /\ import'[p].next = 1
    /\ since' = [q \in Import |->
         IF q = p THEN {r \in Import : Running(r)}
         ELSE IF import[q].at = "new" THEN {} ELSE since[q] \cup {p}]
    /\ UNCHANGED <<rows, header, layer>>
IsRefused(p) ==
    /\ import[p] = NotBegun /\ import' = [import EXCEPT ![p] = [NotBegun EXCEPT !.at = "stopped"]]
    /\ UNCHANGED <<rows, header, layer, since>>
GoesOn(p) ==
    /\ Running(p) /\ Begun(import[p]) /\ Begun(import'[p]) /\ import' = [import EXCEPT ![p] = import'[p]]
    /\ import'[p].snapshot = import[p].snapshot /\ import'[p].file = import[p].file
    /\ UNCHANGED since

\* What going to another place leaves of an import.
LEMMA MovesOn ==
    ASSUME NEW p \in Import, StoreTypeOK, Begun(import[p]), NEW place \in Busy \cup {"done", "stopped"},
           Goto(p, place)
    PROVE  /\ Begun(import'[p]) /\ import' = [import EXCEPT ![p] = import'[p]]
           /\ import'[p] = [import[p] EXCEPT !.at = place]
           /\ import'[p].at = place /\ import'[p].snapshot = import[p].snapshot
           /\ import'[p].file = import[p].file /\ import'[p].left = import[p].left
           /\ import'[p].next = import[p].next
<1> DEFINE i == import[p]
<1>1. import'[p] = [i EXCEPT !.at = place] /\ import' = [import EXCEPT ![p] = import'[p]]
  BY DEF Goto, StoreTypeOK
<1>2. i = [at |-> i.at, snapshot |-> i.snapshot, next |-> i.next, file |-> i.file, left |-> i.left]
  BY DEF Begun
<1>3. [i EXCEPT !.at = place] =
        [at |-> place, snapshot |-> i.snapshot, next |-> i.next, file |-> i.file, left |-> i.left]
  BY <1>2
<1>4. Begun([i EXCEPT !.at = place])
  BY <1>3 DEF Begun
<1> QED BY <1>1, <1>3, <1>4

\* Who runs has begun; who has not begun is new, or was refused.
LEMMA RunningHasBegun ==
    ASSUME StoreTypeOK, NEW p \in Import
    PROVE  /\ Started(p) <=> Begun(import[p])
           /\ Running(p) => Begun(import[p])
           /\ import[p].at = "new" => import[p] = NotBegun
           /\ import[p].snapshot \in SnapshotId \cup {Nobody}
           /\ import[p].at = "stopped" \/ Begun(import[p]) \/ import[p] = NotBegun
BY StoreAssumption DEF StoreTypeOK, Begun, NotBegun, Running, Started, Busy

\* What a step of an import is, for the invariants that ask no more.
LEMMA Steps ==
    ASSUME StoreTypeOK, NEW p \in Import, ImportStep(p)
    PROVE  Begins(p) \/ IsRefused(p) \/ GoesOn(p)
<1>1. ASSUME NEW f \in LineageFiles, NEW s \in SnapshotId, BeginImport(p, f, s)
      PROVE  Begins(p) \/ IsRefused(p)
  <2>1. import[p] = NotBegun
    BY <1>1, RunningHasBegun DEF BeginImport
  <2>2. CASE Importable(f)
    <3> DEFINE i == [at |-> "check", snapshot |-> s, next |-> 1, file |-> f, left |-> Rows(ImportRows(f))]
    <3>1. import' = [import EXCEPT ![p] = i] /\ since' = [q \in Import |->
             IF q = p THEN {r \in Import : Running(r)}
             ELSE IF import[q].at = "new" THEN {} ELSE since[q] \cup {p}]
      BY <1>1, <2>2 DEF BeginImport
    <3>2. Begun(i) /\ i.at = "check" /\ i.left = Rows(ImportRows(i.file)) /\ i.next = 1
      BY <2>2 DEF Begun, Busy, DeleteOrder
    <3>3. import'[p] = i
      BY <3>1 DEF StoreTypeOK
    <3> HIDE DEF i
    <3> QED BY <2>1, <3>1, <3>2, <3>3, <1>1 DEF Begins, BeginImport
  <2>3. CASE ~Importable(f)
    <3>1. import' = [import EXCEPT ![p] = [NotBegun EXCEPT !.at = "stopped"]]
      BY <1>1, <2>1, <2>3 DEF BeginImport, Goto
    <3> QED BY <3>1, <2>1, <2>3, <1>1 DEF IsRefused, BeginImport
  <2> QED BY <2>2, <2>3
<1>2. ASSUME NEW place \in Busy \cup {"done", "stopped"}, Goto(p, place), Running(p), UNCHANGED since
      PROVE  GoesOn(p)
  BY <1>2, RunningHasBegun, MovesOn DEF GoesOn
<1>3. CASE CheckLayer(p)
  <2>1. Running(p)
    BY <1>3 DEF CheckLayer, Running
  <2> QED BY <1>2, <1>3, <2>1 DEF CheckLayer, Busy
<1>4. CASE DropLayer(p)
  <2>1. Running(p)
    BY <1>4 DEF DropLayer, Running
  <2> QED BY <1>2, <1>4, <2>1 DEF DropLayer, Busy
<1>5. CASE DeleteRows(p)
  <2>1. Running(p) /\ Begun(import[p])
    BY <1>5, RunningHasBegun DEF DeleteRows, Running
  <2> DEFINE i == import[p]
  <2>2. import'[p] = [i EXCEPT !.next = i.next + 1] /\ import' = [import EXCEPT ![p] = import'[p]]
    BY <1>5 DEF DeleteRows, StoreTypeOK
  <2>3. i = [at |-> i.at, snapshot |-> i.snapshot, next |-> i.next, file |-> i.file, left |-> i.left]
    BY <2>1 DEF Begun
  <2>4. [i EXCEPT !.next = i.next + 1] =
          [at |-> i.at, snapshot |-> i.snapshot, next |-> i.next + 1, file |-> i.file, left |-> i.left]
    BY <2>3
  <2>5. i.next + 1 \in 1..(Len(DeleteOrder) + 1)
    BY <1>5 DEF DeleteRows, DeleteOrder
  <2>6. Begun([i EXCEPT !.next = i.next + 1])
    BY <2>1, <2>4, <2>5 DEF Begun
  <2> QED BY <1>5, <2>1, <2>2, <2>4, <2>6 DEF GoesOn, DeleteRows
<1>6. CASE DeleteHeader(p)
  <2>1. Running(p)
    BY <1>6 DEF DeleteHeader, Running
  <2> QED BY <1>2, <1>6, <2>1 DEF DeleteHeader, Busy
<1>7. CASE InsertBatch(p)
  <2>1. Running(p) /\ Begun(import[p])
    BY <1>7, RunningHasBegun DEF InsertBatch, Running
  <2> DEFINE i == import[p]
  <2>2. PICK batch : import' = [import EXCEPT ![p].left = @ \ batch]
    BY <1>7 DEF InsertBatch
  <2>3. import'[p] = [i EXCEPT !.left = i.left \ batch] /\ import' = [import EXCEPT ![p] = import'[p]]
    BY <2>2 DEF StoreTypeOK
  <2>4. i = [at |-> i.at, snapshot |-> i.snapshot, next |-> i.next, file |-> i.file, left |-> i.left]
    BY <2>1 DEF Begun
  <2>5. [i EXCEPT !.left = i.left \ batch] =
          [at |-> i.at, snapshot |-> i.snapshot, next |-> i.next, file |-> i.file, left |-> i.left \ batch]
    BY <2>4
  <2>6. Begun([i EXCEPT !.left = i.left \ batch])
    BY <2>1, <2>5 DEF Begun
  <2>7. UNCHANGED since
    BY <1>7 DEF InsertBatch
  <2> QED BY <2>1, <2>3, <2>5, <2>6, <2>7 DEF GoesOn
<1>8. CASE InsertHeader(p)
  <2>1. Running(p)
    BY <1>8 DEF InsertHeader, Running
  <2> QED BY <1>2, <1>8, <2>1 DEF InsertHeader, Busy
<1>9. CASE DeactivateOthers(p)
  <2>1. Running(p)
    BY <1>9 DEF DeactivateOthers, Running
  <2> QED BY <1>2, <1>9, <2>1 DEF DeactivateOthers, Busy
<1>10. CASE ActivateItself(p)
  <2>1. Running(p)
    BY <1>10 DEF ActivateItself, Running
  <2> QED BY <1>2, <1>10, <2>1 DEF ActivateItself, Busy
<1>11. CASE StopImport(p)
  BY <1>2, <1>11 DEF StopImport, Busy
<1> QED BY <1>1, <1>3, <1>4, <1>5, <1>6, <1>7, <1>8, <1>9, <1>10, <1>11 DEF ImportStep

\* Rows are inserted into the tables that rows are deleted from.
LEMMA SameTables ==
    /\ \A n \in DOMAIN InsertOrder : \E m \in DOMAIN DeleteOrder : InsertOrder[n] = DeleteOrder[m]
    /\ DOMAIN InsertOrder = 1..9 /\ DOMAIN DeleteOrder = 1..9 /\ Len(DeleteOrder) = 9
<1>1. DOMAIN InsertOrder = 1..9 /\ DOMAIN DeleteOrder = 1..9 /\ Len(DeleteOrder) = 9
  BY DEF InsertOrder, DeleteOrder
<1>2. /\ InsertOrder[1] = DeleteOrder[9] /\ InsertOrder[2] = DeleteOrder[8] /\ InsertOrder[3] = DeleteOrder[7]
      /\ InsertOrder[4] = DeleteOrder[6] /\ InsertOrder[5] = DeleteOrder[5] /\ InsertOrder[6] = DeleteOrder[3]
      /\ InsertOrder[7] = DeleteOrder[2] /\ InsertOrder[8] = DeleteOrder[1] /\ InsertOrder[9] = DeleteOrder[4]
  BY DEF InsertOrder, DeleteOrder
<1>3. ASSUME NEW n \in 1..9 PROVE \E m \in 1..9 : InsertOrder[n] = DeleteOrder[m]
  <2>1. n = 1 \/ n = 2 \/ n = 3 \/ n = 4 \/ n = 5 \/ n = 6 \/ n = 7 \/ n = 8 \/ n = 9
    OBVIOUS
  <2> QED BY <1>2, <2>1
<1> QED BY <1>1, <1>3

\* Types, step by step.
LEMMA StoreTypeStep == StoreTypeOK /\ [StoreNext]_storeVars => StoreTypeOK'
<1> SUFFICES ASSUME StoreTypeOK, [StoreNext]_storeVars PROVE StoreTypeOK'
  OBVIOUS
<1> DEFINE RowOK(r) ==
      /\ r = [table |-> r.table, row |-> r.row, snapshot |-> r.snapshot, by |-> r.by]
      /\ (\E n \in DOMAIN DeleteOrder : r.table = DeleteOrder[n]) /\ r.snapshot \in SnapshotId
    HeaderOK == header \in [SnapshotId -> {Nobody} \cup [by : Import, active : Import \cup {Nobody}]]
    ImportOK ==
      /\ DOMAIN import = Import /\ import = [p \in Import |-> import[p]]
      /\ \A p \in Import : import[p] \in {NotBegun, [NotBegun EXCEPT !.at = "stopped"]} \/ Begun(import[p])
    SinceOK == since \in [Import -> SUBSET Import]
    RowsOK == \A r \in rows : RowOK(r)
<1>1. StoreTypeOK <=> RowsOK /\ HeaderOK /\ layer \in BOOLEAN /\ ImportOK /\ SinceOK
  BY DEF StoreTypeOK
<1>2. StoreTypeOK' <=> RowsOK' /\ HeaderOK' /\ (layer \in BOOLEAN)' /\ ImportOK' /\ SinceOK'
  BY DEF StoreTypeOK
<1>3. CASE UNCHANGED storeVars
  BY <1>1, <1>2, <1>3 DEF storeVars
<1>4. ASSUME NEW p \in Import, ImportStep(p) PROVE StoreTypeOK'
  <2>1. Begins(p) \/ IsRefused(p) \/ GoesOn(p)
    BY <1>4, Steps
  <2>2. ImportOK'
    <3>1. \E i : import' = [import EXCEPT ![p] = i] /\ (Begun(i) \/ i = [NotBegun EXCEPT !.at = "stopped"])
      BY <2>1 DEF Begins, IsRefused, GoesOn
    <3>2. PICK i : import' = [import EXCEPT ![p] = i] /\ (Begun(i) \/ i = [NotBegun EXCEPT !.at = "stopped"])
      BY <3>1
    <3> HIDE DEF RowOK
    <3> QED BY <3>2, <1>1
  <2>3. SinceOK'
    <3>1. CASE Begins(p)
      BY <3>1, <1>1 DEF Begins
    <3>2. CASE ~Begins(p)
      BY <3>2, <2>1, <1>1 DEF IsRefused, GoesOn
    <3> QED BY <3>1, <3>2
  <2> HIDE DEF ImportOK, SinceOK
  <2>4. RowsOK' /\ HeaderOK' /\ (layer \in BOOLEAN)'
    <3>1. \/ UNCHANGED <<rows, header>> /\ layer' \in {layer, FALSE}
          \/ DeleteRows(p) \/ DeleteHeader(p) \/ InsertBatch(p)
          \/ InsertHeader(p) \/ DeactivateOthers(p) \/ ActivateItself(p)
      BY <1>4 DEF ImportStep, BeginImport, CheckLayer, DropLayer, StopImport
    <3>2. CASE UNCHANGED <<rows, header>> /\ layer' \in {layer, FALSE}
      BY <3>2, <1>1
    <3>3. CASE DeleteRows(p)
      <4>1. rows' \subseteq rows /\ UNCHANGED <<header, layer>>
        BY <3>3 DEF DeleteRows
      <4> QED BY <4>1, <1>1
    <3>4. CASE DeleteHeader(p)
      <4>1. UNCHANGED <<rows, layer>> /\ header' = [header EXCEPT ![import[p].snapshot] = Nobody]
        BY <3>4 DEF DeleteHeader
      <4> QED BY <4>1, <1>1
    <3>5. CASE InsertBatch(p)
      <4>1. Begun(import[p]) /\ import[p].snapshot \in SnapshotId
        BY <3>5, RunningHasBegun DEF InsertBatch, Running, Begun
      <4>2. UNCHANGED <<header, layer>>
        BY <3>5 DEF InsertBatch
      <4>3. PICK n \in DOMAIN InsertOrder : \E batch \in SUBSET LeftIn(p, n) :
              rows' = rows \cup Stamped(batch, import[p].snapshot, p)
        BY <3>5 DEF InsertBatch
      <4>6. PICK batch \in SUBSET LeftIn(p, n) : rows' = rows \cup Stamped(batch, import[p].snapshot, p)
        BY <4>3
      <4>4. ASSUME NEW r \in Stamped(batch, import[p].snapshot, p) PROVE RowOK(r)
        <5>1. PICK b \in batch : r = [table |-> b.table, row |-> b.row, snapshot |-> import[p].snapshot, by |-> p]
          BY DEF Stamped
        <5>2. b.table = InsertOrder[n]
          BY DEF LeftIn
        <5>3. \E m \in DOMAIN DeleteOrder : InsertOrder[n] = DeleteOrder[m]
          BY SameTables
        <5> QED BY <5>1, <5>2, <5>3, <4>1
      <4> HIDE DEF RowOK
      <4> QED BY <4>2, <4>6, <4>4, <1>1
    <3>6. CASE InsertHeader(p)
      <4>1. UNCHANGED <<rows, layer>> /\ header' = [header EXCEPT ![import[p].snapshot] = [by |-> p, active |-> Nobody]]
        BY <3>6 DEF InsertHeader
      <4> QED BY <4>1, <1>1
    <3>7. CASE DeactivateOthers(p)
      <4>1. UNCHANGED <<rows, layer>> /\ header' = [s \in SnapshotId |->
              IF s = import[p].snapshot \/ header[s] = Nobody THEN header[s] ELSE [header[s] EXCEPT !.active = Nobody]]
        BY <3>7 DEF DeactivateOthers
      <4> QED BY <4>1, <1>1
    <3>8. CASE ActivateItself(p)
      <4>1. UNCHANGED <<rows, layer>> /\ header' = [header EXCEPT ![import[p].snapshot] =
              IF header[import[p].snapshot] = Nobody THEN Nobody ELSE [header[import[p].snapshot] EXCEPT !.active = p]]
        BY <3>8 DEF ActivateItself
      <4>2. import[p].snapshot \in SnapshotId
        BY <3>8, RunningHasBegun DEF ActivateItself, Running, Begun
      <4> QED BY <4>1, <4>2, <1>1
    <3> QED BY <3>1, <3>2, <3>3, <3>4, <3>5, <3>6, <3>7, <3>8
  <2> QED BY <2>2, <2>3, <2>4, <1>2
<1> QED BY <1>3, <1>4 DEF StoreNext

\* An import meets those that run when it begins, and those that begin after it.
LEMMA MetStep == StoreTypeOK /\ Met /\ [StoreNext]_storeVars => Met'
<1> SUFFICES ASSUME StoreTypeOK, Met, [StoreNext]_storeVars PROVE Met'
  OBVIOUS
<1>1. CASE UNCHANGED storeVars
  BY <1>1 DEF storeVars, Met, Running
<1>2. ASSUME NEW x \in Import, ImportStep(x) PROVE Met'
  <2> SUFFICES ASSUME NEW p \in Import, NEW q \in Import, p # q, Running(q)', import'[p].snapshot # Nobody
               PROVE  q \in since'[p]
    BY DEF Met
  <2>1. CASE Begins(x)
    <3>1. \A y \in Import : y # x => import'[y] = import[y]
      BY <2>1 DEF Begins, StoreTypeOK
    <3>2. CASE x = p
      <4>1. Running(q)
        BY <3>1, <3>2 DEF Running
      <4> QED BY <4>1, <3>2, <2>1 DEF Begins
    <3>3. CASE x = q
      <4>1. import[p].at # "new"
        BY <3>1, <3>3, RunningHasBegun DEF NotBegun
      <4> QED BY <4>1, <3>3, <2>1 DEF Begins
    <3>4. CASE x # p /\ x # q
      <4>1. Running(q) /\ import[p].snapshot # Nobody
        BY <3>1, <3>4 DEF Running
      <4>2. q \in since[p] /\ import[p].at # "new"
        BY <4>1, RunningHasBegun DEF Met, NotBegun
      <4> QED BY <4>2, <3>4, <2>1 DEF Begins
    <3> QED BY <3>2, <3>3, <3>4
  <2>2. CASE IsRefused(x)
    <3>1. x # p /\ x # q
      BY <2>2 DEF IsRefused, StoreTypeOK, Running, NotBegun
    <3>2. Running(q) /\ import[p].snapshot # Nobody
      BY <3>1, <2>2 DEF IsRefused, StoreTypeOK, Running
    <3> QED BY <3>2, <2>2 DEF Met, IsRefused
  <2>3. CASE GoesOn(x)
    <3>1. \A y \in Import : y # x => import'[y] = import[y]
      BY <2>3 DEF GoesOn, StoreTypeOK
    <3>2. Running(q)
      BY <3>1, <2>3 DEF GoesOn, Running
    <3>3. import[p].snapshot # Nobody
      BY <3>1, <2>3 DEF GoesOn
    <3> QED BY <3>2, <3>3, <2>3 DEF Met, GoesOn
  <2> QED BY <2>1, <2>2, <2>3, <1>2, Steps
<1> QED BY <1>1, <1>2 DEF StoreNext

\* What a step leaves of imports that have begun.
LEMMA Stays ==
    ASSUME StoreTypeOK, NEW x \in Import, ImportStep(x), NEW p \in Import, Started(p)
    PROVE  /\ import'[p].snapshot = import[p].snapshot /\ import'[p].file = import[p].file
           /\ since[p] \subseteq since'[p]
           /\ p # x => import'[p] = import[p]
           /\ Alone(p)' => Alone(p)
<1>1. p = x => GoesOn(x)
  BY Steps DEF Begins, IsRefused, Started, NotBegun
<1>2. p # x => import'[p] = import[p]
  BY Steps DEF Begins, IsRefused, GoesOn, StoreTypeOK
<1>3. import'[p].snapshot = import[p].snapshot /\ import'[p].file = import[p].file
  BY <1>1, <1>2 DEF GoesOn
<1>4. since[p] \subseteq since'[p]
  <2>1. import[p].at # "new"
    BY RunningHasBegun DEF Started, NotBegun
  <2>2. CASE Begins(x)
    <3>1. p # x
      BY <2>2, <1>1 DEF Begins, Started, NotBegun
    <3> QED BY <2>1, <2>2, <3>1 DEF Begins
  <2> QED BY <2>2, Steps DEF IsRefused, GoesOn
<1>5. ASSUME NEW q \in since[p], import[q].snapshot = import[p].snapshot
      PROVE  import'[q].snapshot = import'[p].snapshot
  <2>1. q \in Import /\ Started(q)
    BY <1>5 DEF StoreTypeOK, Started
  <2>2. import'[q].snapshot = import[q].snapshot
    <3>1. CASE q = x
      BY <3>1, <2>1, Steps DEF GoesOn, Begins, IsRefused, Started, NotBegun
    <3>2. CASE q # x
      BY <3>2, <2>1, Steps DEF GoesOn, Begins, IsRefused, StoreTypeOK
    <3> QED BY <3>1, <3>2
  <2> QED BY <2>2, <1>3, <1>5
<1>6. Alone(p)' => Alone(p)
  BY <1>4, <1>5 DEF Alone
<1> QED BY <1>2, <1>3, <1>4, <1>6

\* Others that work on a snapshot are seen by the import of it.
LEMMA SomeoneElse ==
    ASSUME StoreTypeOK, Met, NEW x \in Import, Running(x), NEW p \in Import, Started(p), p # x, Alone(p)
    PROVE  import[x].snapshot # import[p].snapshot
BY DEF Met, Alone, Started

\* Rows of a snapshot are changed by imports of it that run.
LEMMA OtherRows ==
    ASSUME StoreTypeOK, NEW x \in Import, ImportStep(x), NEW s \in SnapshotId,
           ~(Running(x) /\ import[x].snapshot = s)
    PROVE  RowsOf(s)' = RowsOf(s)
<1>1. CASE DeleteRows(x)
  <2>1. import[x].snapshot # s
    BY <1>1 DEF DeleteRows, Running
  <2> QED BY <1>1, <2>1 DEF DeleteRows, RowsOf
<1>2. CASE InsertBatch(x)
  <2>1. import[x].snapshot # s
    BY <1>2 DEF InsertBatch, Running
  <2>2. PICK batch : rows' = rows \cup Stamped(batch, import[x].snapshot, x)
    BY <1>2 DEF InsertBatch
  <2>3. \A r \in Stamped(batch, import[x].snapshot, x) : r.snapshot # s
    BY <2>1 DEF Stamped
  <2> QED BY <2>2, <2>3 DEF RowsOf
<1>3. CASE ~DeleteRows(x) /\ ~InsertBatch(x)
  <2>1. UNCHANGED rows
    BY <1>3 DEF ImportStep, BeginImport, CheckLayer, DropLayer, DeleteHeader, InsertHeader,
                DeactivateOthers, ActivateItself, StopImport
  <2> QED BY <2>1 DEF RowsOf
<1> QED BY <1>1, <1>2, <1>3

\* An import that nobody interferes with finds its rows as it has left them.
LEMMA OwnRowsStay ==
    ASSUME StoreTypeOK, Met, NEW x \in Import, ImportStep(x), NEW p \in Import, Started(p), p # x, Alone(p)'
    PROVE  Alone(p) /\ RowsOf(import[p].snapshot)' = RowsOf(import[p].snapshot)
<1>1. Alone(p) /\ import'[p] = import[p]
  BY Stays
<1>2. import[p].snapshot \in SnapshotId
  BY RunningHasBegun DEF Started
<1>3. ~(Running(x) /\ import[x].snapshot = import[p].snapshot)
  BY <1>1, SomeoneElse
<1>4. PICK s \in SnapshotId : s = import[p].snapshot
  BY <1>2
<1>5. RowsOf(s)' = RowsOf(s)
  BY <1>3, <1>4, OtherRows
<1>6. import[p].snapshot' = s
  BY <1>1, <1>4
<1> QED BY <1>1, <1>4, <1>5, <1>6 DEF RowsOf

\* An import that nobody interferes with gets on with its snapshot.
LEMMA ProgressStep ==
    ASSUME StoreTypeOK, Met, NEW x \in Import, ImportStep(x), NEW p \in Import, Progress(p)
    PROVE  Progress(p)'
<1>1. CASE p # x /\ Started(p)
  <2>1. import'[p] = import[p]
    BY <1>1, Stays
  <2>2. AllRows(p)' = AllRows(p)
    BY <2>1 DEF AllRows
  <2>3. Alone(p)' => Alone(p) /\ RowsOf(import[p].snapshot)' = RowsOf(import[p].snapshot)
    BY <1>1, OwnRowsStay
  <2>4. PICK s : s = import[p].snapshot /\ s = import'[p].snapshot
    BY <2>1
  <2>5. Alone(p)' => Alone(p) /\ RowsOf(s)' = RowsOf(s)
    BY <2>3, <2>4 DEF RowsOf
  <2>6. HasCleared(p, s) /\ RowsOf(s)' = RowsOf(s) => HasCleared(p, s)'
    BY <2>1 DEF HasCleared
  <2>7. import'[p].at = "delete" /\ Alone(p)' => HasCleared(p, s)'
    BY <2>1, <2>4, <2>5, <2>6 DEF Progress
  <2>8. import'[p].at = "insert" /\ Alone(p)' =>
          RowsOf(s)' = Stamped(AllRows(p)' \ import'[p].left, s, p)
    BY <2>1, <2>2, <2>4, <2>5 DEF Progress
  <2>9. Stamped(AllRows(p)' \ import'[p].left, s, p) = Stamped(AllRows(p) \ import[p].left, s, p)'
    BY <2>1, <2>2 DEF Stamped
  <2> QED BY <2>1, <2>2, <2>4, <2>7, <2>8, <2>9 DEF Progress, HasCleared, RowsOf
<1>2. CASE p # x /\ ~Started(p)
  <2>1. import'[p] = import[p] /\ import[p].at \in {"new", "stopped"}
    BY <1>2, Steps, RunningHasBegun DEF Begins, IsRefused, GoesOn, StoreTypeOK, NotBegun
  <2> QED BY <2>1 DEF Progress
<1>3. CASE p = x /\ Begins(x)
  BY <1>3 DEF Progress, Begins, AllRows
<1>4. CASE p = x /\ IsRefused(x)
  <2>1. import'[p] = [NotBegun EXCEPT !.at = "stopped"]
    BY <1>4 DEF IsRefused, StoreTypeOK
  <2>2. import'[p].at = "stopped"
    BY <2>1 DEF NotBegun
  <2> QED BY <2>2 DEF Progress
<1>5. CASE p = x /\ GoesOn(x)
  <2>1. AllRows(p)' = AllRows(p) /\ Begun(import[p]) /\ Started(p) /\ (Alone(p)' => Alone(p))
    BY <1>5, Stays, RunningHasBegun DEF AllRows, GoesOn
  <2>2. CASE import'[p].at \notin {"check", "alter", "delete", "insert"}
    BY <2>2 DEF Progress
  <2>3. CASE CheckLayer(p) \/ DropLayer(p)
    <3>1. /\ import'[p].at \in {"alter", "delete", "stopped"}
          /\ import'[p].left = import[p].left /\ import'[p].next = import[p].next
          /\ import[p].at \in {"check", "alter"}
      BY <2>1, <2>3, MovesOn DEF CheckLayer, DropLayer, Busy
    <3>2. HasCleared(p, import[p].snapshot)'
      BY <3>1 DEF HasCleared, Progress
    <3> QED BY <3>1, <3>2, <2>1 DEF Progress
  <2>4. CASE DeleteRows(p)
    <3>1. PICK k \in 1..10, s \in SnapshotId : k = import[p].next /\ s = import[p].snapshot
      BY <2>1, SameTables DEF Begun
    <3>2. /\ import'[p].at = "delete" /\ import[p].at = "delete" /\ import'[p].left = import[p].left
          /\ import'[p].next = k + 1 /\ import'[p].snapshot = s
          /\ rows' = {r \in rows : ~(r.snapshot = s /\ r.table = DeleteOrder[k])}
      BY <2>4, <2>1, <3>1 DEF DeleteRows, StoreTypeOK, Begun
    <3>3. HasCleared(p, s) => HasCleared(p, s)'
      BY <3>1, <3>2 DEF HasCleared, RowsOf
    <3>4. HasCleared(p, s)' => HasCleared(p, import[p].snapshot)'
      BY <3>2 DEF HasCleared, RowsOf
    <3> QED BY <3>1, <3>2, <3>3, <3>4, <2>1 DEF Progress
  <2>5. CASE DeleteHeader(p)
    <3>1. /\ import'[p].at = "insert" /\ import'[p].left = import[p].left /\ import'[p].snapshot = import[p].snapshot
          /\ import[p].at = "delete" /\ import[p].next = 10 /\ UNCHANGED rows
      <4>1. Goto(p, "insert") /\ import[p].at = "delete" /\ import[p].next = 10 /\ UNCHANGED rows
        BY <2>5, SameTables DEF DeleteHeader
      <4> QED BY <4>1, <2>1, MovesOn DEF Busy
    <3>2. HasCleared(p, import[p].snapshot) => RowsOf(import[p].snapshot) = {}
      BY <3>1, SameTables DEF HasCleared, RowsOf, StoreTypeOK
    <3>3. import[p].left = AllRows(p)
      BY <3>1 DEF Progress
    <3>4. Stamped(AllRows(p) \ import[p].left, import[p].snapshot, p) = {}
      BY <3>3 DEF Stamped
    <3>5. Alone(p) => RowsOf(import[p].snapshot) = Stamped(AllRows(p) \ import[p].left, import[p].snapshot, p)
      BY <3>1, <3>2, <3>4 DEF Progress
    <3>6. Alone(p)' => RowsOf(import[p].snapshot)' = Stamped(AllRows(p) \ import[p].left, import[p].snapshot, p)'
      BY <3>1, <3>5, <2>1 DEF RowsOf, Stamped
    <3> QED BY <3>1, <3>6 DEF Progress
  <2>6. CASE InsertBatch(p)
    <3>1. PICK s \in SnapshotId : s = import[p].snapshot
      BY <2>1 DEF Begun
    <3>2. PICK n \in DOMAIN InsertOrder : \E batch \in SUBSET LeftIn(p, n) :
            /\ rows' = rows \cup Stamped(batch, s, p)
            /\ import' = [import EXCEPT ![p].left = @ \ batch]
      BY <2>6, <3>1 DEF InsertBatch
    <3>3. PICK batch \in SUBSET LeftIn(p, n) :
            /\ rows' = rows \cup Stamped(batch, s, p)
            /\ import' = [import EXCEPT ![p].left = @ \ batch]
      BY <3>2
    <3>4. /\ import'[p].at = "insert" /\ import[p].at = "insert"
          /\ import'[p].left = import[p].left \ batch /\ import'[p].snapshot = s
      BY <2>6, <2>1, <3>1, <3>3 DEF InsertBatch, StoreTypeOK, Begun
    <3>5. batch \subseteq AllRows(p)
      BY <2>1 DEF LeftIn, Begun, AllRows
    <3>6. RowsOf(s)' = RowsOf(s) \cup Stamped(batch, s, p)
      BY <3>3 DEF RowsOf, Stamped
    <3>7. AllRows(p) \ import'[p].left = (AllRows(p) \ import[p].left) \cup batch
      BY <3>4, <3>5
    <3>8. Stamped(AllRows(p) \ import'[p].left, s, p) = Stamped(AllRows(p) \ import[p].left, s, p) \cup Stamped(batch, s, p)
      BY <3>7 DEF Stamped
    <3>9. Alone(p)' => RowsOf(s)' = Stamped(AllRows(p) \ import'[p].left, s, p)
      BY <3>1, <3>4, <3>6, <3>8, <2>1 DEF Progress
    <3>10. Alone(p)' => RowsOf(import[p].snapshot)' = Stamped(AllRows(p) \ import[p].left, import[p].snapshot, p)'
      BY <3>4, <3>9, <2>1 DEF RowsOf, Stamped
    <3> QED BY <3>4, <3>10 DEF Progress
  <2>7. CASE \E f \in LineageFiles, s \in SnapshotId : BeginImport(p, f, s)
    BY <2>7, <1>5 DEF BeginImport, GoesOn, Running
  <2>8. CASE InsertHeader(p) \/ DeactivateOthers(p) \/ ActivateItself(p) \/ StopImport(p)
    <3>1. import'[p].at \in {"others", "done", "itself", "stopped"}
      BY <2>1, <2>8, MovesOn DEF InsertHeader, DeactivateOthers, ActivateItself, StopImport, Busy
    <3> QED BY <2>2, <3>1
  <2> QED BY <1>5, <2>3, <2>4, <2>5, <2>6, <2>7, <2>8 DEF ImportStep
<1> QED BY <1>1, <1>2, <1>3, <1>4, <1>5, Steps

\* A header is inserted when all rows are, and goes before they do or with an overlap.
LEMMA FilledStep ==
    ASSUME StoreTypeOK, Met, InTurn, NEW x \in Import, ImportStep(x), NEW s \in SnapshotId
    PROVE  Filled(s)'
<1> SUFFICES ASSUME NEW p \in Import, header'[s] # Nobody, header'[s].by = p PROVE FilledBy(p, s)'
  BY DEF Filled
<1>1. CASE InsertHeader(x) /\ s = import[x].snapshot
  <2>1. Running(x) /\ Begun(import[x]) /\ Started(x)
    BY <1>1, RunningHasBegun DEF InsertHeader, Running
  <2>2. p = x /\ UNCHANGED rows /\ import[x].at = "insert" /\ import[x].left = {}
    BY <1>1 DEF InsertHeader, StoreTypeOK
  <2>3. /\ import'[x].at \in {"others", "done"} /\ import'[x].snapshot = s
        /\ AllRows(x)' = AllRows(x)
    BY <1>1, <2>1, MovesOn DEF InsertHeader, Busy, AllRows
  <2>4. Alone(x)' => Alone(x)
    BY <2>1, Stays
  <2>5. Alone(x) => RowsOf(s) = Stamped(AllRows(x) \ import[x].left, s, x)
    BY <1>1, <2>2 DEF InTurn, Progress
  <2>6. Stamped(AllRows(x) \ import[x].left, s, x) = Stamped(AllRows(x), s, x)
    BY <2>2 DEF Stamped
  <2>7. Alone(p)' => RowsOf(s)' = Stamped(AllRows(p), s, p)'
    BY <2>2, <2>3, <2>4, <2>5, <2>6 DEF RowsOf, Stamped
  <2> QED BY <2>2, <2>3, <2>7 DEF FilledBy
<1>2. CASE ~(InsertHeader(x) /\ s = import[x].snapshot)
  <2>1. header[s] # Nobody /\ header[s].by = p
    <3>1. CASE DeleteHeader(x)
      BY <3>1 DEF DeleteHeader, StoreTypeOK
    <3>2. CASE InsertHeader(x)
      BY <1>2, <3>2 DEF InsertHeader, StoreTypeOK
    <3>3. CASE DeactivateOthers(x)
      BY <3>3 DEF DeactivateOthers, StoreTypeOK
    <3>4. CASE ActivateItself(x)
      BY <3>4 DEF ActivateItself, StoreTypeOK
    <3>5. CASE UNCHANGED header
      BY <3>5
    <3> QED BY <3>1, <3>2, <3>3, <3>4, <3>5
            DEF ImportStep, BeginImport, CheckLayer, DropLayer, DeleteRows, InsertBatch, StopImport
  <2>2. FilledBy(p, s)
    BY <2>1 DEF InTurn, Filled
  <2>3. Started(p) /\ import[p].snapshot = s
    BY <2>2, StoreAssumption DEF FilledBy, Started
  <2>4. /\ import'[p].snapshot = s /\ AllRows(p)' = AllRows(p) /\ (Alone(p)' => Alone(p))
        /\ p # x => import'[p] = import[p]
    BY <2>3, Stays DEF AllRows
  <2>5. /\ import'[p].at \in {"others", "itself", "done", "stopped"}
        /\ Alone(p)' => RowsOf(s)' = RowsOf(s)
    <3>1. CASE p # x
      <4>1. Alone(p)' => RowsOf(import[p].snapshot)' = RowsOf(import[p].snapshot)
        BY <3>1, <2>3, OwnRowsStay
      <4> QED BY <4>1, <3>1, <2>2, <2>3, <2>4 DEF FilledBy, RowsOf
    <3>2. CASE p = x
      <4>1. DeactivateOthers(x) \/ ActivateItself(x) \/ StopImport(x)
        BY <3>2, <2>2 DEF FilledBy, ImportStep, BeginImport, CheckLayer, DropLayer, DeleteRows, DeleteHeader,
                          InsertBatch, InsertHeader
      <4>2. UNCHANGED rows
        BY <4>1 DEF DeactivateOthers, ActivateItself, StopImport
      <4>3. import'[p].at \in {"itself", "done", "stopped"}
        <5>1. PICK place \in {"itself", "done", "stopped"} : Goto(x, place)
          BY <4>1 DEF DeactivateOthers, ActivateItself, StopImport
        <5>2. Begun(import[x])
          BY <3>2, <2>3, RunningHasBegun
        <5>3. place \in Busy \cup {"done", "stopped"}
          BY DEF Busy
        <5> QED BY <5>1, <5>2, <5>3, <3>2, MovesOn
      <4> QED BY <4>2, <4>3 DEF RowsOf
    <3> QED BY <3>1, <3>2
  <2>6. Alone(p)' => RowsOf(s)' = Stamped(AllRows(p), s, p)'
    BY <2>2, <2>4, <2>5 DEF FilledBy, Stamped
  <2> QED BY <2>4, <2>5, <2>6 DEF FilledBy
<1> QED BY <1>1, <1>2

\* Snapshots and their imports, together.
LEMMA InTurnStep == StoreTypeOK /\ Met /\ InTurn /\ [StoreNext]_storeVars => InTurn'
<1> SUFFICES ASSUME StoreTypeOK, Met, InTurn, [StoreNext]_storeVars PROVE InTurn'
  OBVIOUS
<1>1. CASE UNCHANGED storeVars
  <2>1. ASSUME NEW p \in Import PROVE Progress(p)' = Progress(p)
    BY <1>1 DEF storeVars, Progress, AllRows, HasCleared, RowsOf, Alone, Stamped
  <2>2. ASSUME NEW s \in SnapshotId PROVE Filled(s)' = Filled(s)
    BY <1>1 DEF storeVars, Filled, FilledBy, AllRows, RowsOf, Alone, Stamped
  <2> QED BY <2>1, <2>2 DEF InTurn
<1>2. ASSUME NEW x \in Import, ImportStep(x) PROVE InTurn'
  <2>1. ASSUME NEW p \in Import PROVE Progress(p)'
    BY <1>2, ProgressStep DEF InTurn
  <2>2. ASSUME NEW s \in SnapshotId PROVE Filled(s)'
    BY <1>2, FilledStep
  <2> QED BY <2>1, <2>2 DEF InTurn
<1> QED BY <1>1, <1>2 DEF StoreNext

-----------------------------------------------------------------------------
\* Headers, and who has activated their snapshots, change as follows.
LEMMA HeadersAfter ==
    ASSUME StoreTypeOK, NEW x \in Import, ImportStep(x), NEW s \in SnapshotId
    PROVE  /\ ActivatedBy(s) \in Import \cup {Nobody} /\ ActivatedBy(s)' \in Import \cup {Nobody}
           /\ ActivatedBy(s)' \in {Nobody, ActivatedBy(s), x}
           /\ ActivatedBy(s)' # ActivatedBy(s) /\ ActivatedBy(s)' # Nobody =>
                /\ import[x].at = "itself" /\ import'[x].at = "done"
                /\ import[x].snapshot = s /\ ActivatedBy(s)' = x
           /\ DeactivateOthers(x) /\ s # import[x].snapshot => ActivatedBy(s)' = Nobody
<1>1. header[s] = Nobody \/ (header[s] \in [by : Import, active : Import \cup {Nobody}] /\ header[s] # Nobody)
  BY DEF StoreTypeOK
<1>2. StoreTypeOK'
  BY StoreTypeStep DEF StoreNext
<1>3. header'[s] = Nobody \/ (header'[s] \in [by : Import, active : Import \cup {Nobody}] /\ header'[s] # Nobody)
  BY <1>2 DEF StoreTypeOK
<1>4. ActivatedBy(s) \in Import \cup {Nobody} /\ ActivatedBy(s)' \in Import \cup {Nobody}
  BY <1>1, <1>3 DEF ActivatedBy
<1>5. CASE UNCHANGED header
  <2>1. ~DeactivateOthers(x) \/ s = import[x].snapshot \/ ActivatedBy(s) = Nobody
    BY <1>5, <1>1 DEF DeactivateOthers, ActivatedBy
  <2> QED BY <1>4, <1>5, <2>1 DEF ActivatedBy
<1>6. CASE DeleteHeader(x) \/ InsertHeader(x)
  <2>1. ActivatedBy(s)' \in {Nobody, ActivatedBy(s)}
    BY <1>6 DEF DeleteHeader, InsertHeader, ActivatedBy, StoreTypeOK
  <2>2. ~DeactivateOthers(x)
    BY <1>6 DEF DeleteHeader, InsertHeader, DeactivateOthers
  <2> QED BY <1>4, <2>1, <2>2
<1>7. CASE DeactivateOthers(x)
  <2>1. header'[s] = IF s = import[x].snapshot \/ header[s] = Nobody THEN header[s] ELSE [header[s] EXCEPT !.active = Nobody]
    BY <1>7 DEF DeactivateOthers
  <2>2. ActivatedBy(s)' \in {Nobody, ActivatedBy(s)} /\ (s # import[x].snapshot => ActivatedBy(s)' = Nobody)
    BY <2>1, <1>1 DEF ActivatedBy
  <2> QED BY <1>4, <2>2
<1>8. CASE ActivateItself(x)
  <2>1. Goto(x, "done") /\ import[x].at = "itself" /\ ~DeactivateOthers(x)
    BY <1>8 DEF ActivateItself, DeactivateOthers
  <2>2. import'[x].at = "done"
    BY <2>1, MovesOn, RunningHasBegun DEF Running, Busy
  <2>3. CASE s = import[x].snapshot
    <3>1. header'[s] = IF header[s] = Nobody THEN Nobody ELSE [header[s] EXCEPT !.active = x]
      BY <1>8, <2>3 DEF ActivateItself, StoreTypeOK
    <3>2. ActivatedBy(s)' \in {Nobody, x}
      BY <3>1, <1>1 DEF ActivatedBy
    <3> QED BY <1>4, <2>1, <2>2, <2>3, <3>2
  <2>4. CASE s # import[x].snapshot
    <3>1. header'[s] = header[s]
      BY <1>8, <2>4 DEF ActivateItself, StoreTypeOK
    <3>2. ActivatedBy(s)' = ActivatedBy(s)
      BY <3>1 DEF ActivatedBy
    <3> QED BY <1>4, <2>1, <3>2
  <2> QED BY <2>3, <2>4
<1> QED BY <1>5, <1>6, <1>7, <1>8 DEF ImportStep, BeginImport, CheckLayer, DropLayer, DeleteRows, InsertBatch, StopImport

\* Imports that have met stay so.
LEMMA OverlapStays ==
    ASSUME StoreTypeOK, NEW x \in Import, ImportStep(x), NEW p \in Import, NEW q \in Import,
           Started(p), Started(q), Overlap(p, q)
    PROVE  Overlap(p, q)'
BY Stays DEF Overlap

\* Only who has just deactivated the others is about to activate its own.
LEMMA AboutTo ==
    ASSUME StoreTypeOK, NEW x \in Import, ImportStep(x), import'[x].at = "itself"
    PROVE  DeactivateOthers(x) /\ import'[x].snapshot = import[x].snapshot
<1>1. ASSUME NEW place, Goto(x, place) PROVE import'[x].at = place \/ import[x] = NotBegun
  <2>1. import'[x] = [import[x] EXCEPT !.at = place]
    BY <1>1 DEF Goto, StoreTypeOK
  <2>2. CASE Begun(import[x])
    <3>1. "at" \in DOMAIN import[x]
      BY <2>2 DEF Begun
    <3> QED BY <2>1, <3>1
  <2>3. CASE import[x] = [NotBegun EXCEPT !.at = "stopped"]
    BY <2>1, <2>3 DEF NotBegun
  <2> QED BY <2>2, <2>3 DEF StoreTypeOK
<1>2. GoesOn(x)
  <2>1. ~Begins(x)
    BY DEF Begins
  <2>2. ASSUME IsRefused(x) PROVE FALSE
    <3>1. import'[x] = [NotBegun EXCEPT !.at = "stopped"]
      BY <2>2 DEF IsRefused, StoreTypeOK
    <3> QED BY <3>1 DEF NotBegun
  <2> QED BY <2>1, <2>2, Steps
<1>3. import[x] # NotBegun /\ ~\E f \in LineageFiles, s \in SnapshotId : BeginImport(x, f, s)
  BY <1>2 DEF GoesOn, Running, NotBegun, BeginImport
<1>4. CASE DeleteRows(x)
  <2>1. import'[x].at = import[x].at
    BY <1>4, <1>2 DEF DeleteRows, StoreTypeOK, GoesOn, Begun
  <2> QED BY <1>4, <2>1 DEF DeleteRows
<1>5. CASE InsertBatch(x)
  <2>1. import'[x].at = import[x].at
    BY <1>5, <1>2 DEF InsertBatch, StoreTypeOK, GoesOn, Begun
  <2> QED BY <1>5, <2>1 DEF InsertBatch
<1>6. CASE \E place \in {"alter", "delete", "stopped", "insert", "others", "done"} : Goto(x, place)
  BY <1>1, <1>3, <1>6
<1>7. DeactivateOthers(x)
  BY <1>3, <1>4, <1>5, <1>6 DEF ImportStep, CheckLayer, DropLayer, DeleteHeader, InsertHeader, ActivateItself, StopImport
<1> QED BY <1>2, <1>7 DEF GoesOn

\* Activations, step by step.
LEMMA ActivatorsStep ==
    ASSUME StoreTypeOK, Met, Activators, OneActive, NEW x \in Import, ImportStep(x)
    PROVE  Activators' /\ OneActive'
<1>1. \A s \in SnapshotId :
        /\ ActivatedBy(s) \in Import \cup {Nobody} /\ ActivatedBy(s)' \in Import \cup {Nobody}
        /\ ActivatedBy(s)' \in {Nobody, ActivatedBy(s), x}
        /\ ActivatedBy(s)' # ActivatedBy(s) /\ ActivatedBy(s)' # Nobody =>
             /\ import[x].at = "itself" /\ import'[x].at = "done"
             /\ import[x].snapshot = s /\ ActivatedBy(s)' = x
        /\ DeactivateOthers(x) /\ s # import[x].snapshot => ActivatedBy(s)' = Nobody
  BY HeadersAfter
<1>2. \A p \in Import : import[p].at \in {"done", "itself"} => Started(p)
  BY RunningHasBegun DEF NotBegun
<1>3. ASSUME NEW p \in Import, import[p].at = "done"
      PROVE  import'[p] = import[p]
  <2>1. p # x
    BY <1>3, Steps DEF Begins, IsRefused, GoesOn, Running, NotBegun
  <2> QED BY <2>1, <1>2, <1>3, Stays
<1>4. ASSUME NEW s \in SnapshotId, NEW p \in Import, ActivatedBy(s)' = p
      PROVE  import'[p].at = "done" /\ import'[p].snapshot = s
  <2>1. p # Nobody
    BY StoreAssumption
  <2>2. CASE ActivatedBy(s) = p
    BY <2>1, <2>2, <1>3 DEF Activators
  <2>3. CASE ActivatedBy(s) # p
    <3>1. import[x].at = "itself" /\ import'[x].at = "done" /\ import[x].snapshot = s /\ p = x
      BY <2>1, <2>3, <1>1, <1>4
    <3> QED BY <3>1, <1>2, Stays
  <2> QED BY <2>2, <2>3
\* Who is about to activate a snapshot has met who has activated another.
<1>5. ASSUME NEW p \in Import, NEW s \in SnapshotId, NEW q \in Import,
             import'[p].at = "itself", s # import'[p].snapshot, ActivatedBy(s)' = q
      PROVE  Overlap(p, q)'
  <2>1. q # Nobody /\ import'[q].at = "done" /\ p # q
    BY <1>4, <1>5, StoreAssumption
  <2>2. p # x
    BY <2>1, <1>1, <1>5, AboutTo
  <2>3. Started(p) /\ import'[p] = import[p]
    <3>1. import'[p] = import[p]
      BY <2>2, Steps DEF Begins, IsRefused, GoesOn, StoreTypeOK
    <3> QED BY <3>1, <1>2, <1>5
  <2>4. CASE ActivatedBy(s) = q
    <3>1. Overlap(p, q) /\ import[q].at = "done"
      BY <2>1, <2>3, <2>4, <1>5 DEF Activators
    <3> QED BY <3>1, <2>3, <1>2, OverlapStays
  <2>5. CASE ActivatedBy(s) # q
    <3>1. q = x /\ import[x].at = "itself"
      BY <2>1, <2>5, <1>1, <1>5
    <3>2. Running(x) /\ Running(p) /\ Started(x)
      BY <3>1, <2>3, <1>2, <1>5 DEF Running
    <3>3. Overlap(p, x)
      BY <3>2, <2>2, <2>3 DEF Met, Overlap, Started
    <3> QED BY <3>1, <3>2, <3>3, <2>3, OverlapStays
  <2> QED BY <2>4, <2>5
<1>6. ASSUME NEW s \in SnapshotId, NEW r \in SnapshotId, s # r,
             NEW p \in Import, NEW q \in Import, ActivatedBy(s)' = p, ActivatedBy(r)' = q
      PROVE  Overlap(p, q)'
  <2>1. p # Nobody /\ q # Nobody
    BY StoreAssumption
  <2>2. CASE ActivatedBy(s) = p /\ ActivatedBy(r) = q
    <3>1. header[s] # Nobody /\ header[r] # Nobody /\ header[s].active = p /\ header[r].active = q
      BY <2>1, <2>2 DEF ActivatedBy
    <3>2. Overlap(p, q)
      BY <3>1, <2>1, <1>6 DEF OneActive
    <3>3. Started(p) /\ Started(q)
      BY <2>1, <2>2, <1>2 DEF Activators
    <3> QED BY <3>2, <3>3, OverlapStays
  <2>3. CASE ActivatedBy(s) # p
    <3>1. p = x /\ import[x].at = "itself" /\ import[x].snapshot = s
      BY <2>1, <2>3, <1>1, <1>6
    <3>2. ActivatedBy(r) = q
      BY <2>1, <3>1, <1>1, <1>6
    <3>3. Overlap(p, q) /\ Started(p) /\ Started(q)
      BY <2>1, <3>1, <3>2, <1>2, <1>6 DEF Activators
    <3> QED BY <3>3, OverlapStays
  <2>4. CASE ActivatedBy(r) # q
    <3>1. q = x /\ import[x].at = "itself" /\ import[x].snapshot = r
      BY <2>1, <2>4, <1>1, <1>6
    <3>2. ActivatedBy(s) = p
      BY <2>1, <3>1, <1>1, <1>6
    <3>3. Overlap(q, p) /\ Started(p) /\ Started(q)
      BY <2>1, <3>1, <3>2, <1>2, <1>6 DEF Activators
    <3>4. Overlap(q, p)'
      BY <3>3, OverlapStays
    <3> QED BY <3>4 DEF Overlap
  <2> QED BY <2>2, <2>3, <2>4
<1>7. Activators'
  BY <1>1, <1>4, <1>5 DEF Activators
<1>8. OneActive'
  <2> SUFFICES ASSUME NEW s \in SnapshotId, NEW r \in SnapshotId, s # r,
                      header'[s] # Nobody, header'[r] # Nobody,
                      header'[s].active # Nobody, header'[r].active # Nobody
               PROVE  Overlap(header[s].active, header[r].active)'
    BY DEF OneActive
  <2>1. PICK p, q : p = header'[s].active /\ q = header'[r].active
    OBVIOUS
  <2>2. ActivatedBy(s)' = p /\ ActivatedBy(r)' = q
    BY <2>1 DEF ActivatedBy
  <2>3. p \in Import /\ q \in Import
    BY <2>1, <2>2, <1>1
  <2>4. Overlap(p, q)'
    BY <2>2, <2>3, <1>6
  <2> QED BY <2>1, <2>4 DEF Overlap
<1> QED BY <1>7, <1>8

\* The invariant is inductive.
LEMMA StoreInvStep == StoreInv /\ [StoreNext]_storeVars => StoreInv'
<1> SUFFICES ASSUME StoreInv, [StoreNext]_storeVars PROVE StoreInv'
  OBVIOUS
<1>1. StoreTypeOK' /\ Met' /\ InTurn'
  BY StoreTypeStep, MetStep, InTurnStep DEF StoreInv
<1>2. Activators' /\ OneActive'
  <2>1. CASE UNCHANGED storeVars
    <3>1. \A s : ActivatedBy(s)' = ActivatedBy(s)
      BY <2>1 DEF storeVars, ActivatedBy
    <3>2. \A p, q : Overlap(p, q)' = Overlap(p, q)
      BY <2>1 DEF storeVars, Overlap
    <3>3. import' = import /\ header' = header /\ Activators /\ OneActive
      BY <2>1 DEF storeVars, StoreInv
    <3>4. Activators'
      BY <3>1, <3>2, <3>3 DEF Activators, Overlap
    <3> QED BY <3>3, <3>4, <2>1 DEF OneActive, Overlap, storeVars
  <2>2. CASE StoreNext
    BY <2>2, ActivatorsStep DEF StoreInv, StoreNext
  <2> QED BY <2>1, <2>2
<1> QED BY <1>1, <1>2 DEF StoreInv

\* The invariant holds of an empty database.
LEMMA StoreInvInit == StoreInit => StoreInv
<1> SUFFICES ASSUME StoreInit PROVE StoreInv
  OBVIOUS
<1>1. \A p \in Import : import[p] = NotBegun
  BY DEF StoreInit
<1>2. StoreTypeOK
  BY <1>1 DEF StoreInit, StoreTypeOK
<1>3. \A p \in Import : import[p].at = "new" /\ import[p].snapshot = Nobody
  BY <1>1 DEF NotBegun
<1>4. \A s \in SnapshotId : header[s] = Nobody
  BY DEF StoreInit
<1>5. Met
  BY <1>3 DEF Met
<1>6. InTurn
  BY <1>3, <1>4 DEF InTurn, Progress, Filled
<1>7. Activators /\ OneActive
  BY <1>3, <1>4 DEF Activators, ActivatedBy, OneActive
<1> QED BY <1>2, <1>5, <1>6, <1>7 DEF StoreInv

(* The database holds rows of its tables and snapshots, and imports have rows of  *)
(* a file that can be imported left.                                              *)
THEOREM StoreTypeCorrect == StoreSpec => []StoreTypeOK
<1>1. StoreInv => StoreTypeOK
  BY DEF StoreInv
<1> QED BY <1>1, StoreInvInit, StoreInvStep, PTL DEF StoreSpec

(* Whatever imports overlap, use an id again and stop anywhere: a snapshot that has *)
(* a header, and whose import no other of the same id has met, holds all that its   *)
(* file says, filed under the tables that the file means, and nothing besides.      *)
THEOREM WholeSnapshots == StoreSpec => []SnapshotIsWhole
<1>1. StoreInv => SnapshotIsWhole
  <2> SUFFICES ASSUME StoreInv, NEW s \in SnapshotId, header[s] # Nobody, Alone(header[s].by)
               PROVE  RowsOf(s) = Stamped(Rows(MeantRows(import[header[s].by].file)), s, header[s].by)
    BY DEF SnapshotIsWhole
  <2>1. PICK p \in Import : p = header[s].by
    BY DEF StoreInv, StoreTypeOK
  <2>2. import[p].snapshot = s /\ RowsOf(s) = Stamped(AllRows(p), s, p)
    BY <2>1 DEF StoreInv, InTurn, Filled, FilledBy
  <2>3. Begun(import[p])
    BY <2>2, RunningHasBegun, StoreAssumption DEF StoreInv, Started
  <2>4. Tidy(import[p].file) /\ Importable(import[p].file)
    BY <2>3, WrittenIsAccepted, StoreAssumption DEF Begun, LineageFiles
  <2>5. ImportRows(import[p].file) = MeantRows(import[p].file)
    BY <2>4, FiledAsMeant
  <2> QED BY <2>1, <2>2, <2>5 DEF AllRows
<1> QED BY <1>1, StoreInvInit, StoreInvStep, PTL DEF StoreSpec

(* Imports that have not met leave one snapshot active between them at most: only   *)
(* of imports that ran at the same time can each have activated its own.            *)
THEOREM ActivatedInTurn == StoreSpec => []OneActive
<1>1. StoreInv => OneActive
  BY DEF StoreInv
<1> QED BY <1>1, StoreInvInit, StoreInvStep, PTL DEF StoreSpec

-----------------------------------------------------------------------------
(* The planner: commands, planner and plans agree on the calendar.         *)

LEMMA MonthsRise ==
    /\ Len(Months) \in Nat /\ Len(Months) > 1 /\ Months[1] = 0
    /\ \A m \in 1..Len(Months) : Months[m] \in Nat
    /\ \A m, n \in 1..Len(Months) : m < n => Months[m] < Months[n]
BY CalendarAssumption

\* A month has the day, and no other one has.
InMonth(d, m) == m \in 1..(Len(Months) - 1) /\ Months[m] <= d /\ d < Months[m + 1]

LEMMA MonthFound == ASSUME NEW d \in Day PROVE InMonth(d, MonthOf(d))
<1> DEFINE S == {n \in Nat : n \in 2..Len(Months) /\ d < Months[n]}
<1>1. Len(Months) \in S
  BY MonthsRise DEF Day
<1>2. PICK n \in S : \A m \in S : n <= m
  BY <1>1, SmallestOf
<1>3. n - 1 \in 1..(Len(Months) - 1) /\ n - 1 \in Nat /\ n \in 2..Len(Months)
  BY <1>2, MonthsRise
<1>4. Months[n - 1] <= d
  <2>1. CASE n - 1 = 1
    BY <2>1, MonthsRise DEF Day
  <2>2. CASE n - 1 # 1
    <3>1. n - 1 \notin S /\ n - 1 \in 2..Len(Months)
      BY <1>2, <1>3, <2>2
    <3> QED BY <1>3, <3>1, MonthsRise DEF Day
  <2> QED BY <2>1, <2>2
<1>5. d < Months[(n - 1) + 1]
  BY <1>2, <1>3
<1> HIDE DEF S
<1>6. \E m \in 1..(Len(Months) - 1) : Months[m] <= d /\ d < Months[m + 1]
  BY <1>3, <1>4, <1>5
<1> QED BY <1>6 DEF MonthOf, InMonth

LEMMA MonthOnly ==
    ASSUME NEW d \in Int, NEW m, InMonth(d, m)
    PROVE  d \in Day /\ MonthOf(d) = m
<1>1. ASSUME NEW n, InMonth(d, n), n < m PROVE FALSE
  <2>1. n + 1 <= m /\ n + 1 \in 1..Len(Months) /\ m \in 1..Len(Months)
    BY <1>1, MonthsRise DEF InMonth
  <2>2. Months[n + 1] <= Months[m]
    BY <2>1, MonthsRise
  <2> QED BY <1>1, <2>1, <2>2, MonthsRise DEF InMonth
<1>2. ASSUME NEW n, InMonth(d, n), m < n PROVE FALSE
  <2>1. m + 1 <= n /\ m + 1 \in 1..Len(Months) /\ n \in 1..Len(Months)
    BY <1>2, MonthsRise DEF InMonth
  <2>2. Months[m + 1] <= Months[n]
    BY <2>1, MonthsRise
  <2> QED BY <1>2, <2>1, <2>2, MonthsRise DEF InMonth
<1>3. m + 1 \in 1..Len(Months) /\ Len(Months) \in 1..Len(Months) /\ m \in 1..Len(Months)
  BY MonthsRise DEF InMonth
<1>4. Months[m + 1] <= Months[Len(Months)] /\ Months[m] >= 0
  BY <1>3, MonthsRise
<1>5. d \in Day
  BY <1>3, <1>4, MonthsRise DEF InMonth, Day
<1>6. InMonth(d, MonthOf(d))
  BY <1>5, MonthFound
<1> QED BY <1>1, <1>2, <1>5, <1>6, MonthsRise DEF InMonth

\* The first day of its month begins it.
LEMMA MonthBegins ==
    ASSUME NEW d \in Day
    PROVE  /\ Months[MonthOf(d)] \in Day /\ Months[MonthOf(d)] <= d
           /\ MonthOf(Months[MonthOf(d)]) = MonthOf(d)
           /\ MonthOf(d) \in 1..(Len(Months) - 1)
<1>1. InMonth(d, MonthOf(d))
  BY MonthFound
<1>2. Months[MonthOf(d)] \in Int /\ InMonth(Months[MonthOf(d)], MonthOf(d))
  BY <1>1, MonthsRise DEF InMonth
<1> QED BY <1>1, <1>2, MonthOnly DEF InMonth

LEMMA MonthsOrdered ==
    ASSUME NEW d \in Day, NEW e \in Day, d <= e
    PROVE  /\ Months[MonthOf(d)] <= Months[MonthOf(e)]
           /\ Months[MonthOf(d)] = Months[MonthOf(e)] => MonthOf(d) = MonthOf(e)
<1>1. InMonth(d, MonthOf(d)) /\ InMonth(e, MonthOf(e))
  BY MonthFound
<1>2. PICK m, n : m = MonthOf(d) /\ n = MonthOf(e)
  OBVIOUS
<1>3. m \in 1..Len(Months) /\ n \in 1..Len(Months) /\ n + 1 \in 1..Len(Months)
      /\ Months[m] <= d /\ e < Months[n + 1] /\ d \in Nat /\ e \in Nat
  BY <1>1, <1>2, MonthsRise DEF InMonth, Day
<1>4. m < n + 1
  <2>1. SUFFICES ASSUME n + 1 <= m PROVE FALSE
    BY <1>3, MonthsRise
  <2>2. Months[n + 1] <= Months[m]
    BY <1>3, <2>1, MonthsRise
  <2> QED BY <1>3, <2>2, MonthsRise
<1>5. m < n \/ m = n
  BY <1>3, <1>4, MonthsRise
<1>6. Months[m] <= Months[n] /\ (Months[m] = Months[n] => m = n)
  BY <1>3, <1>5, MonthsRise
<1> QED BY <1>2, <1>6

\* Weeks of seven days, from the day that begins them.
LEMMA Weeks ==
    ASSUME NEW d \in Int
    PROVE  /\ d - ((d - WeekStart) % 7) = WeekStart + 7 * ((d - WeekStart) \div 7)
           /\ (d - WeekStart) \div 7 \in Int
           /\ (d - WeekStart) % 7 \in 0..6
           /\ (d - WeekStart + 7) \div 7 = ((d - WeekStart) \div 7) + 1
<1>1. WeekStart \in Int
  BY CalendarAssumption
<1> DEFINE x == d - WeekStart
<1>2. x \in Int /\ x \div 7 \in Int /\ x % 7 \in 0..6 /\ x = 7 * (x \div 7) + (x % 7)
  BY <1>1
<1>3. (x + 7) \div 7 = (x \div 7) + 1
  BY <1>2
<1> QED BY <1>1, <1>2, <1>3

\* What rounds days, and where planner and plan have to agree on it.
Rounding == {"D", "W", "M"}
WeeksAgree == Monday = WeekStart

LEMMA StartOf ==
    ASSUME NEW d \in Day, NEW p \in Rounding
    PROVE  /\ Start(d, p) \in Int /\ Start(d, p) <= d /\ Start(Start(d, p), p) = Start(d, p)
           /\ p # "W" => Start(d, p) \in Day
<1>1. d \in Int
  BY MonthsRise DEF Day
<1>2. CASE p = "D"
  BY <1>1, <1>2 DEF Start
<1>3. CASE p = "M"
  BY <1>1, <1>3, MonthBegins DEF Start, Day
<1>4. CASE p = "W"
  <2> DEFINE s == d - ((d - WeekStart) % 7)
             q == (d - WeekStart) \div 7
  <2>1. s = WeekStart + 7 * q /\ q \in Int /\ s \in Int /\ s <= d /\ WeekStart \in Int
    BY <1>1, Weeks, CalendarAssumption
  <2>2. (s - WeekStart) % 7 = 0
    <3> HIDE DEF q, s
    <3>1. s - WeekStart = 7 * q
      BY <2>1
    <3> QED BY <2>1, <3>1
  <2>3. Start(d, p) = s /\ Start(s, p) = s - ((s - WeekStart) % 7)
    BY <1>4 DEF Start
  <2> HIDE DEF s
  <2> QED BY <1>4, <2>1, <2>2, <2>3
<1> QED BY <1>2, <1>3, <1>4 DEF Rounding

LEMMA StartsOrdered ==
    ASSUME NEW d \in Int, NEW e \in Int, NEW p \in Rounding, p # "W" => d \in Day /\ e \in Day, d <= e
    PROVE  Start(d, p) <= Start(e, p)
<1>2. CASE p = "D"
  BY <1>2 DEF Start
<1>3. CASE p = "M"
  BY <1>3, MonthsOrdered DEF Start
<1>4. CASE p = "W"
  <2>1. (d - WeekStart) \div 7 <= (e - WeekStart) \div 7
    BY CalendarAssumption
  <2>2. Start(d, p) = d - ((d - WeekStart) % 7) /\ Start(e, p) = e - ((e - WeekStart) % 7)
    BY <1>4 DEF Start
  <2> QED BY <2>1, <2>2, Weeks, CalendarAssumption
<1> QED BY <1>2, <1>3, <1>4 DEF Rounding

\* Two rows are of one slice of the calendar if their days are rounded to one day.
LEMMA OneSlice ==
    ASSUME NEW t \in Moment, NEW u \in Moment, NEW p \in Rounding
    PROVE  SliceOf(t, p) = SliceOf(u, p) <=> Start(t[1], p) = Start(u[1], p)
<1>1. PICK d, e : d = t[1] /\ e = u[1]
  OBVIOUS
<1>2. d \in Day /\ e \in Day
  BY <1>1 DEF Moment
<1>3. d \in Int /\ e \in Int
  BY <1>2, MonthsRise DEF Day
<1>4. CASE p = "D"
  BY <1>1, <1>4 DEF Start, SliceOf
<1>5. CASE p = "M"
  <2>1. Start(t[1], p) = Months[MonthOf(d)] /\ Start(u[1], p) = Months[MonthOf(e)]
        /\ SliceOf(t, p) = MonthOf(d) /\ SliceOf(u, p) = MonthOf(e)
    BY <1>1, <1>5 DEF Start, SliceOf
  <2>2. d <= e \/ e <= d
    BY <1>3
  <2> QED BY <1>2, <2>1, <2>2, MonthsOrdered
<1>6. CASE p = "W"
  <2>1. Start(t[1], p) = d - ((d - WeekStart) % 7) /\ Start(u[1], p) = e - ((e - WeekStart) % 7)
        /\ SliceOf(t, p) = (d - WeekStart + 7) \div 7 /\ SliceOf(u, p) = (e - WeekStart + 7) \div 7
    BY <1>1, <1>6 DEF Start, SliceOf
  <2>2. PICK q, r : q = (d - WeekStart) \div 7 /\ r = (e - WeekStart) \div 7
    OBVIOUS
  <2>3. /\ Start(t[1], p) = WeekStart + 7 * q /\ Start(u[1], p) = WeekStart + 7 * r
        /\ SliceOf(t, p) = q + 1 /\ SliceOf(u, p) = r + 1 /\ q \in Int /\ r \in Int /\ WeekStart \in Int
    BY <1>3, <2>1, <2>2, Weeks, CalendarAssumption
  <2> QED BY <2>3
<1> QED BY <1>4, <1>5, <1>6 DEF Rounding

\* A day that begins a slice names it, and the planner leaves it as it is.
LEMMA NamedByStart ==
    ASSUME WeeksAgree, NEW p \in Rounding, NEW e \in Int, Start(e, p) = e, p # "W" => e \in Day
    PROVE  /\ Slice(Text(e), p) = {t \in Moment : Start(t[1], p) = e}
           /\ Normal(Text(e), p) = Text(e)
<1>1. Text(e).day = e
  BY DEF Text
<1>2. ASSUME NEW t \in Moment PROVE t[1] \in Day /\ t[1] \in Int
  BY <1>2, MonthsRise DEF Moment, Day
<1>3. CASE p = "D"
  BY <1>1, <1>3 DEF Slice, Start, Normal
<1>4. CASE p = "M"
  <2>1. e = Months[MonthOf(e)] /\ e \in Day
    BY <1>4 DEF Start
  <2>2. ASSUME NEW t \in Moment PROVE MonthOf(t[1]) = MonthOf(e) <=> Months[MonthOf(t[1])] = e
    BY <1>2, <2>1, MonthBegins
  <2> QED BY <1>1, <1>4, <2>1, <2>2 DEF Slice, Start, Normal
<1>5. CASE p = "W"
  <2>1. e = e - ((e - WeekStart) % 7) /\ Normal(Text(e), p) = Text(e - ((e - Monday) % 7))
    BY <1>1, <1>5 DEF Start, Normal
  <2>2. PICK q : q = (e - WeekStart) \div 7
    OBVIOUS
  <2>3. e = WeekStart + 7 * q /\ q \in Int /\ WeekStart \in Int
    BY <2>1, <2>2, Weeks, CalendarAssumption
  <2>4. ASSUME NEW t \in Moment PROVE (e <= t[1] /\ t[1] < e + 7) <=> Start(t[1], p) = e
    <3>1. PICK d, r : d = t[1] /\ r = (d - WeekStart) \div 7
      OBVIOUS
    <3>2. d \in Int /\ Start(t[1], p) = WeekStart + 7 * r /\ r \in Int
      BY <1>2, <1>5, <3>1, Weeks DEF Start
    <3>3. (d - WeekStart) % 7 \in 0..6 /\ d - ((d - WeekStart) % 7) = WeekStart + 7 * r
      BY <3>1, <3>2, Weeks
    <3>4. WeekStart + 7 * r <= d /\ d < WeekStart + 7 * r + 7
      BY <2>3, <3>2, <3>3
    <3>5. (e <= d /\ d < e + 7) <=> r = q
      BY <2>3, <3>2, <3>4
    <3>6. r = q <=> WeekStart + 7 * r = e
      BY <2>3, <3>2
    <3> QED BY <3>1, <3>2, <3>5, <3>6
  <2>5. Slice(Text(e), p) = {t \in Moment : e <= t[1] /\ t[1] < e + 7}
    BY <1>1, <1>5 DEF Slice
  <2> QED BY <2>1, <2>4, <2>5 DEF WeeksAgree
<1> QED BY <1>3, <1>4, <1>5 DEF Rounding

\* The value that a date is normalised to names the slice of the date.
LEMMA NamedByDate ==
    ASSUME WeeksAgree, NEW p \in Rounding, NEW d \in Day
    PROVE  Slice(Normal(Text(d), p), p) = {t \in Moment : Start(t[1], p) = Start(d, p)}
<1>1. Normal(Text(d), p) = Text(Start(d, p))
  BY DEF Normal, Start, Text, WeeksAgree, Rounding
<1>2. /\ Start(d, p) \in Int /\ Start(Start(d, p), p) = Start(d, p)
      /\ p # "W" => Start(d, p) \in Day
  BY StartOf
<1> QED BY <1>1, <1>2, NamedByStart

\* What a value stands for is a value again.
DayValue == [day : Int, hour : Int \cup {None}]

LEMMA NormalNamed ==
    ASSUME NEW p, NEW v \in DayValue, p = "M" => v.day \in Day
    PROVE  Normal(v, p) # None
<1>1. Normal(v, p) \in DayValue
  <2>1. CASE p = "M"
    <3>1. Months[MonthOf(v.day)] \in Day
      BY <2>1, MonthBegins
    <3> QED BY <2>1, <3>1, MonthsRise DEF Normal, Text, DayValue, Day
  <2>2. CASE p = "W"
    <3>1. v.day - ((v.day - Monday) % 7) \in Int
      BY CalendarAssumption DEF DayValue
    <3> QED BY <2>2, <3>1 DEF Normal, Text, DayValue
  <2>3. CASE p \notin {"M", "W"}
    BY <2>3 DEF Normal
  <2> QED BY <2>1, <2>2, <2>3
<1> QED BY <1>1, AskingAssumption DEF DayValue

LEMMA TextNamed == ASSUME NEW d \in Int PROVE Text(d) \in DayValue /\ Text(d).day = d
BY DEF Text, DayValue

\* Invocations with values load the slices that their values name.
LEMMA EachLoads ==
    ASSUME NEW j, NEW values \in SUBSET DayValue,
           \A v \in values : Period(j) = "M" => v.day \in Day
    PROVE  LoadAll(j, Each(j, values)) = UNION {Slice(Normal(v, Period(j)), Period(j)) : v \in values}
<1> DEFINE p == Period(j)
<1>1. ASSUME NEW v \in values
      PROVE  Load(j, [Whole EXCEPT !.value = Normal(v, p)]) = Slice(Normal(v, p), p)
  <2>1. Normal(v, p) # None
    BY NormalNamed
  <2>2. [Whole EXCEPT !.value = Normal(v, p)].value = Normal(v, p)
    BY DEF Whole
  <2> QED BY <2>1, <2>2 DEF Load
<1>2. Each(j, values) = {[Whole EXCEPT !.value = Normal(v, p)] : v \in values}
  BY DEF Each, Replayed
<1> HIDE DEF p
<1> QED BY <1>1, <1>2 DEF LoadAll, p

LEMMA WholeLoads == ASSUME NEW j PROVE LoadAll(j, {Whole}) = Moment
BY DEF LoadAll, Load, Whole

LEMMA HoursAreThere == 0 \in Hour /\ \A h \in Hour : h \in Nat
BY CalendarAssumption DEF Hour

\* What a date loads is the slice of the date.
LEMMA DateLoads ==
    ASSUME WeeksAgree, NEW p \in Periods, NEW d \in Day
    PROVE  Slice(Normal(Text(d), p), p) = SlicesOf({<<d, 0>>}, p)
<1>1. <<d, 0>> \in Moment
  BY HoursAreThere DEF Moment
<1>2. CASE p = "H"
  <2>1. Slice(Normal(Text(d), p), p) = {<<d, 0>>}
    BY <1>2 DEF Slice, Normal, Text
  <2>2. SlicesOf({<<d, 0>>}, p) = {<<d, 0>>}
    BY <1>1, <1>2 DEF SlicesOf, SliceOf
  <2> QED BY <2>1, <2>2
<1>3. CASE p \in Rounding
  <2>1. \A t \in Moment : SliceOf(t, p) = SliceOf(<<d, 0>>, p) <=> Start(t[1], p) = Start(d, p)
    BY <1>1, <1>3, OneSlice
  <2>2. Slice(Normal(Text(d), p), p) = {t \in Moment : Start(t[1], p) = Start(d, p)}
    BY <1>3, NamedByDate
  <2> QED BY <2>1, <2>2 DEF SlicesOf
<1> QED BY <1>2, <1>3 DEF Periods, Rounding

Window(from, to) == {u \in Moment : ~Before(u, from) /\ Before(u, to)}
LastDay(to) == IF to[2] = 0 THEN to[1] - 1 ELSE to[1]

\* The days of a window that is not empty.
LEMMA DaysOfWindow ==
    ASSUME NEW from \in Moment, NEW to \in Moment, Before(from, to)
    PROVE  /\ from \in Window(from, to) /\ from[1] \in Day /\ from[1] <= LastDay(to)
           /\ LastDay(to) \in Int /\ from[1] \in Int
           /\ \A d \in from[1]..LastDay(to) : d \in Day /\ \E u \in Window(from, to) : u[1] = d
           /\ \A u \in Window(from, to) : u[1] \in from[1]..LastDay(to)
<1>1. /\ from[1] \in Day /\ to[1] \in Day /\ from[2] \in Hour /\ to[2] \in Hour
      /\ from = <<from[1], from[2]>>
  BY DEF Moment
<1>2. /\ \A d \in Day : d \in Nat
      /\ \A d \in Int : \A e \in Day : 0 <= d /\ d <= e => d \in Day
  BY MonthsRise DEF Day
<1>3. /\ from[1] \in Nat /\ to[1] \in Nat /\ from[2] \in Nat /\ to[2] \in Nat
      /\ from[1] < to[1] \/ (from[1] = to[1] /\ from[2] < to[2])
  BY <1>1, <1>2, HoursAreThere DEF Before
<1>4. from[1] <= LastDay(to) /\ LastDay(to) \in Int /\ LastDay(to) <= to[1]
  BY <1>3 DEF LastDay
<1>5. from \in Window(from, to)
  BY <1>3 DEF Window, Before
<1>6. ASSUME NEW d \in from[1]..LastDay(to)
      PROVE  d \in Day /\ \E u \in Window(from, to) : u[1] = d
  <2>1. d \in Day /\ d \in Int
    BY <1>1, <1>2, <1>3, <1>4
  <2>2. CASE d = from[1]
    BY <1>5, <2>1, <2>2
  <2>3. CASE d # from[1]
    <3>1. <<d, 0>> \in Moment
      BY <2>1, HoursAreThere DEF Moment
    <3>2. from[1] < d /\ (d < to[1] \/ (d = to[1] /\ 0 < to[2]))
      BY <1>3, <1>4, <2>1, <2>3 DEF LastDay
    <3>3. <<d, 0>> \in Window(from, to)
      BY <1>3, <2>1, <3>1, <3>2 DEF Window, Before
    <3> QED BY <2>1, <3>3
  <2> QED BY <2>2, <2>3
<1>7. ASSUME NEW u \in Window(from, to) PROVE u[1] \in from[1]..LastDay(to)
  <2>1. u[1] \in Day /\ u[2] \in Hour /\ ~Before(u, from) /\ Before(u, to)
    BY DEF Window, Moment
  <2>2. u[1] \in Nat /\ u[2] \in Nat
    BY <1>2, <2>1, HoursAreThere
  <2>3. u[1] >= from[1]
    BY <1>3, <2>1, <2>2 DEF Before
  <2>4. u[1] < to[1] \/ (u[1] = to[1] /\ u[2] < to[2])
    BY <2>1 DEF Before
  <2>5. u[1] <= LastDay(to)
    BY <1>3, <2>2, <2>4 DEF LastDay
  <2> QED BY <1>4, <2>2, <2>3, <2>5, <1>3
<1> QED BY <1>1, <1>3, <1>4, <1>5, <1>6, <1>7

\* The values that a plan names for a window load the slices that the window touches.
LEMMA WindowLoads ==
    ASSUME WeeksAgree, NEW p \in Periods, NEW from \in Moment, NEW to \in Moment, Before(from, to)
    PROVE  /\ ValuesFor(from, to, p) # {} /\ ValuesFor(from, to, p) \subseteq DayValue
           /\ p = "M" => \A v \in ValuesFor(from, to, p) : v.day \in Day
           /\ UNION {Slice(Normal(v, p), p) : v \in ValuesFor(from, to, p)} = SlicesOf(Window(from, to), p)
<1>1. CASE p = "H"
  <2> DEFINE V(t) == [day |-> t[1], hour |-> t[2]]
  <2>1. ValuesFor(from, to, p) = {V(t) : t \in Window(from, to)}
    BY <1>1 DEF ValuesFor, Window
  <2>2. ASSUME NEW t \in Window(from, to)
        PROVE  V(t) \in DayValue /\ Slice(Normal(V(t), p), p) = {t}
    <3>1. t = <<t[1], t[2]>> /\ t[1] \in Int /\ t[2] \in Int /\ t[2] # None
      BY HoursAreThere, MonthsRise, AskingAssumption DEF Window, Moment, Day
    <3>2. V(t) \in DayValue
      BY <3>1 DEF DayValue
    <3>3. Slice(Normal(V(t), p), p) = {<<t[1], t[2]>>}
      BY <1>1, <3>1 DEF Slice, Normal
    <3> QED BY <3>1, <3>2, <3>3
  <2>3. SlicesOf(Window(from, to), p) = Window(from, to)
    BY <1>1 DEF SlicesOf, SliceOf, Window
  <2>4. from \in Window(from, to)
    BY DaysOfWindow
  <2> HIDE DEF V
  <2> QED BY <1>1, <2>1, <2>2, <2>3, <2>4
<1>2. CASE p \in Rounding
  <2>1. PICK first, last : first = Start(from[1], p) /\ last = LastDay(to)
    OBVIOUS
  <2>2. PICK W : W = Window(from, to)
    OBVIOUS
  <2>3. /\ W \subseteq Moment /\ from[1] \in Day /\ from[1] \in Int /\ last \in Int /\ from[1] <= last
        /\ \A d \in from[1]..last : d \in Day /\ \E u \in W : u[1] = d
        /\ \A u \in W : u[1] \in from[1]..last
    BY <2>1, <2>2, DaysOfWindow DEF Window
  <2>4. first \in Int /\ first <= from[1] /\ Start(first, p) = first /\ (p # "W" => first \in Day)
    BY <1>2, <2>1, <2>3, StartOf
  <2> DEFINE E == {e \in first..last : Start(e, p) = e}
  <2>5. ValuesFor(from, to, p) = {Text(e) : e \in E}
    BY <1>2, <2>1 DEF ValuesFor, Rounding, LastDay
  <2>6. ASSUME NEW e \in E
        PROVE  /\ e \in Int /\ p # "W" => e \in Day
               /\ Slice(Normal(Text(e), p), p) = {t \in Moment : Start(t[1], p) = e}
    <3>1. e \in Int /\ Start(e, p) = e /\ first <= e /\ e <= last
      BY <2>4
    <3>2. p # "W" => e \in Day
      <4>1. CASE e < from[1]
        BY <2>3, <2>4, <3>1, <4>1, MonthsRise DEF Day
      <4>2. CASE e >= from[1]
        BY <2>3, <3>1, <4>2
      <4> QED BY <2>3, <3>1, <4>1, <4>2
    <3> QED BY <1>2, <3>1, <3>2, NamedByStart
  <2>7. first \in E
    BY <2>3, <2>4
  <2>8. ASSUME NEW t \in Moment
        PROVE  Start(t[1], p) \in E <=> \E u \in W : Start(t[1], p) = Start(u[1], p)
    <3>1. PICK s : s = Start(t[1], p)
      OBVIOUS
    <3>2. s \in Int /\ Start(s, p) = s
      <4>1. t[1] \in Day
        BY DEF Moment
      <4> QED BY <1>2, <3>1, <4>1, StartOf
    <3>3. ASSUME s \in E PROVE \E u \in W : s = Start(u[1], p)
      <4>1. CASE s >= from[1]
        <5>1. s \in from[1]..last
          BY <2>3, <3>2, <3>3, <4>1
        <5>2. PICK u \in W : u[1] = s
          BY <2>3, <5>1
        <5> QED BY <3>2, <5>2
      <4>2. CASE s < from[1]
        <5>1. PICK u \in W : u[1] = from[1]
          BY <2>3
        <5>2. first <= s
          BY <3>3
        <5>3. s <= first
          <6>1. p # "W" => s \in Day
            <7>1. t[1] \in Day
              BY DEF Moment
            <7> QED BY <1>2, <3>1, <7>1, StartOf
          <6> QED BY <1>2, <2>1, <2>3, <3>2, <4>2, <6>1, StartsOrdered
        <5> QED BY <2>1, <2>4, <3>2, <5>1, <5>2, <5>3
      <4> QED BY <2>3, <3>2, <4>1, <4>2
    <3>4. ASSUME NEW u \in W, s = Start(u[1], p) PROVE s \in E
      <4>1. u[1] \in Day /\ u[1] \in Int /\ from[1] <= u[1] /\ u[1] <= last
        BY <2>3
      <4>2. first <= s /\ s <= u[1]
        BY <1>2, <2>1, <2>3, <3>4, <4>1, StartOf, StartsOrdered
      <4> QED BY <2>3, <2>4, <3>2, <4>1, <4>2
    <3> QED BY <3>1, <3>3, <3>4
  <2>9. SlicesOf(W, p) = {t \in Moment : \E u \in W : Start(t[1], p) = Start(u[1], p)}
    <3>1. \A t \in Moment, u \in W : SliceOf(t, p) = SliceOf(u, p) <=> Start(t[1], p) = Start(u[1], p)
      BY <1>2, <2>3, OneSlice
    <3> QED BY <3>1 DEF SlicesOf
  <2>10. \A e \in E : Text(e) \in DayValue /\ Text(e).day = e /\ (p # "W" => e \in Day)
    BY <2>6, TextNamed
  <2> HIDE DEF E
  <2>11. UNION {Slice(Normal(Text(e), p), p) : e \in E} = {t \in Moment : Start(t[1], p) \in E}
    BY <2>6
  <2>12. UNION {Slice(Normal(v, p), p) : v \in ValuesFor(from, to, p)} = SlicesOf(W, p)
    BY <2>5, <2>8, <2>9, <2>11
  <2> QED BY <2>2, <2>5, <2>7, <2>10, <2>12
<1> QED BY <1>1, <1>2 DEF Periods, Rounding

\* What dates become, one after the other.
Drops(f, s) ==
    /\ f[0] = <<>> /\ Unique(s) = f[Len(s)]
    /\ \A n \in Nat \ {0} : f[n] = IF s[n] \in ToSet(f[n - 1]) THEN f[n - 1] ELSE Append(f[n - 1], s[n])

LEMMA UniqueSteps ==
    ASSUME NEW T, NEW s \in Seq(T)
    PROVE  \E f : Drops(f, s)
<1> DEFINE Q == Seq({s[n] : n \in Nat})
           G == [n \in Nat |-> [q \in Q |-> IF s[n] \in ToSet(q) THEN q ELSE Append(q, s[n])]]
           Upto(f) == f = [n \in Nat |-> IF n = 0 THEN <<>>
                              ELSE IF s[n] \in ToSet(f[n - 1]) THEN f[n - 1] ELSE Append(f[n - 1], s[n])]
           e == <<>>
<1>1. G \in [Nat -> [Q -> Q]]
  <2>1. ASSUME NEW n \in Nat, NEW q \in Q PROVE (IF s[n] \in ToSet(q) THEN q ELSE Append(q, s[n])) \in Q
    <3>1. s[n] \in {s[k] : k \in Nat}
      OBVIOUS
    <3> QED BY <3>1
  <2> HIDE DEF Q
  <2> QED BY <2>1
<1>2. \A n \in Nat : \A q \in Q : G[n][q] = IF s[n] \in ToSet(q) THEN q ELSE Append(q, s[n])
  BY DEF G
<1>3. e \in Q
  OBVIOUS
<1> HIDE DEF G, Q, e
<1>4. PICK f \in [Nat -> Q] : f[0] = e /\ \A n \in Nat \ {0} : f[n] = G[n][f[n - 1]]
  <2> DEFINE Made(SS, aa, GG) ==
               \E h \in [Nat -> SS] : h[0] = aa /\ \A n \in Nat \ {0} : h[n] = GG[n][h[n - 1]]
  <2>1. \A SS : \A aa \in SS : \A GG \in [Nat -> [SS -> SS]] : Made(SS, aa, GG)
    BY Recursion
  <2>2. Made(Q, e, G)
    <3> HIDE DEF Made
    <3> QED BY <2>1, <1>1, <1>3
  <2> QED BY <2>2
<1>5. ASSUME NEW n \in Nat \ {0}
      PROVE  f[n] = IF s[n] \in ToSet(f[n - 1]) THEN f[n - 1] ELSE Append(f[n - 1], s[n])
  <2>1. n - 1 \in Nat /\ f[n - 1] \in Q
    OBVIOUS
  <2> QED BY <2>1, <1>2, <1>4
<1>6. Upto(f)
  BY <1>4, <1>5 DEF e
<1> DEFINE g == CHOOSE h : Upto(h)
<1>7. Upto(g)
  <2> HIDE DEF Upto
  <2> QED BY <1>6
<1> HIDE DEF g
<1>8. g[0] = <<>> /\ \A n \in Nat \ {0} : g[n] = IF s[n] \in ToSet(g[n - 1]) THEN g[n - 1] ELSE Append(g[n - 1], s[n])
  BY <1>7
<1>9. Unique(s) = g[Len(s)]
  BY DEF Unique, g
<1> QED BY <1>8, <1>9 DEF Drops

\* Dates given twice are kept once, and none is lost.
LEMMA UniqueKeeps ==
    ASSUME NEW T, NEW s \in Seq(T)
    PROVE  Unique(s) \in Seq(T) /\ ToSet(Unique(s)) = ToSet(s)
<1>1. PICK f : Drops(f, s)
  BY UniqueSteps
<1> DEFINE Good(n) == f[n] \in Seq(T) /\ ToSet(f[n]) = {s[i] : i \in 1..n}
           P == {n \in Nat : n <= Len(s) => Good(n)}
<1>2. 0 \in P
  <2>1. f[0] = <<>> /\ f[0] \in Seq(T) /\ ToSet(f[0]) = {}
    BY <1>1 DEF Drops, ToSet
  <2>2. {s[i] : i \in 1..0} = {}
    OBVIOUS
  <2>3. Good(0)
    BY <2>1, <2>2
  <2> QED BY <2>3
<1>3. ASSUME NEW k \in P PROVE k + 1 <= Len(s) => Good(k + 1)
  <2> SUFFICES ASSUME k + 1 <= Len(s) PROVE Good(k + 1)
    OBVIOUS
  <2> DEFINE n == k + 1
  <2>1. n \in Nat \ {0} /\ n - 1 = k /\ n \in 1..Len(s) /\ k \in Nat /\ 1..n = (1..k) \cup {n}
    BY <1>3
  <2>2. Good(k)
    BY <1>3, <2>1
  <2> HIDE DEF n
  <2>3. s[n] \in T /\ {s[i] : i \in 1..n} = {s[i] : i \in 1..k} \cup {s[n]}
    BY <2>1
  <2>4. f[n] = IF s[n] \in ToSet(f[k]) THEN f[k] ELSE Append(f[k], s[n])
    BY <1>1, <2>1 DEF Drops
  <2>5. /\ Append(f[k], s[n]) \in Seq(T)
        /\ ToSet(Append(f[k], s[n])) = ToSet(f[k]) \cup {s[n]}
    <3>1. PICK q \in Seq(T), x \in T : q = f[k] /\ x = s[n]
      BY <2>2, <2>3
    <3>2. Append(q, x) \in Seq(T) /\ Len(Append(q, x)) = Len(q) + 1 /\ Len(q) \in Nat
          /\ DOMAIN q = 1..Len(q) /\ DOMAIN Append(q, x) = 1..(Len(q) + 1)
          /\ Append(q, x)[Len(q) + 1] = x /\ \A i \in 1..Len(q) : Append(q, x)[i] = q[i]
      OBVIOUS
    <3>3. ToSet(Append(q, x)) = ToSet(q) \cup {x}
      BY <3>2 DEF ToSet
    <3> QED BY <3>1, <3>2, <3>3
  <2> QED BY <2>2, <2>3, <2>4, <2>5 DEF n
<1>4. ASSUME NEW k \in P PROVE k + 1 \in P
  <2>1. k \in Nat /\ k + 1 \in Nat
    OBVIOUS
  <2>2. k + 1 <= Len(s) => Good(k + 1)
    <3> HIDE DEF P
    <3> QED BY <1>3
  <2> HIDE DEF Good
  <2> QED BY <2>1, <2>2
<1>5. P = Nat
  <2>1. P \in SUBSET Nat
    OBVIOUS
  <2> HIDE DEF P
  <2> QED BY <1>2, <1>4, <2>1, Induction
<1>6. Good(Len(s))
  <2>1. Len(s) \in Nat /\ Len(s) <= Len(s)
    OBVIOUS
  <2> HIDE DEF Good
  <2> QED BY <1>5, <2>1
<1>7. ToSet(s) = {s[i] : i \in 1..Len(s)}
  BY DEF ToSet
<1> QED BY <1>1, <1>6, <1>7 DEF Drops

\* Looking back ends in the calendar, not after it began.
LEMMA BackInCalendar ==
    ASSUME NEW d \in Day, NEW k \in Int, 1 <= k, k < MonthOf(d)
    PROVE  Back(d, k) \in Day /\ Back(d, k) <= d
<1>1. PICK m, n : m = MonthOf(d) - k /\ n = MonthOf(d)
  OBVIOUS
<1>2. InMonth(d, n)
  BY <1>1, MonthFound
<1>3. /\ n \in 1..Len(Months) /\ m \in 1..Len(Months) /\ m + 1 \in 1..Len(Months) /\ m < m + 1
      /\ Months[n] <= d /\ d \in Nat /\ m + 1 <= n
  BY <1>1, <1>2, MonthsRise DEF InMonth, Day
<1>4. Months[m] < Months[m + 1] /\ Months[m + 1] <= Months[n]
      /\ Months[m] \in Nat /\ Months[m + 1] \in Nat /\ Months[n] \in Nat
  BY <1>3, MonthsRise
<1>5. Back(d, k) = Months[m] + IF d - Months[n] < LengthOf(m) THEN d - Months[n] ELSE LengthOf(m) - 1
  BY <1>1 DEF Back
<1>6. Back(d, k) \in Nat /\ Back(d, k) <= d
  BY <1>3, <1>4, <1>5 DEF LengthOf
<1> QED BY <1>6, MonthsRise DEF Day

\* The dates of a command are days.
LEMMA DatesAreDays ==
    ASSUME NEW c \in Commands, NEW b \in Days, c.kind # "shadow", ~BadDates(c)
    PROVE  /\ Dates(c, b) \in Seq(Day)
           /\ c.dates # <<>> => ToSet(Dates(c, b)) = ToSet(c.dates)
           /\ c.dates = <<>> => c.back \in Int /\ 1 <= c.back
<1>1. /\ c.dates \in Seq(Day) /\ c.back \in {None} \cup Int /\ c.end \in Day \cup {None} /\ c.kind \in {"regular", "refresh"}
  BY AskingAssumption DEF Command
<1>2. CASE c.dates # <<>>
  BY <1>1, <1>2, UniqueKeeps DEF Dates
<1>3. CASE c.dates = <<>>
  <2>1. c.back # None
    BY <1>1, <1>3, AskingAssumption DEF BadDates
  <2>2. c.back \in Int /\ 1 <= c.back
    BY <1>1, <2>1 DEF BadDates
  <2>3. PICK end : end = LookedBackFrom(c, b)
    OBVIOUS
  <2>4. end \in Day /\ c.back < MonthOf(end)
    BY <1>1, <2>1, <2>3, AskingAssumption DEF LookedBackFrom
  <2>5. PICK first : first = Back(end, c.back)
    OBVIOUS
  <2>6. first \in Day /\ first <= end
    BY <2>2, <2>4, <2>5, BackInCalendar
  <2>7. Dates(c, b) = [n \in 1..(end - first + 1) |-> first + n - 1]
    BY <1>3, <2>3, <2>5 DEF Dates, LookedBackFrom
  <2>8. end - first + 1 \in Nat /\ \A n \in 1..(end - first + 1) : first + n - 1 \in Day
    BY <2>4, <2>6, MonthsRise DEF Day
  <2> QED BY <1>3, <2>2, <2>7, <2>8
<1> QED BY <1>2, <1>3

\* Days are between the first and the last of them.
LEMMA Extremes ==
    ASSUME NEW S \in SUBSET Day, S # {}
    PROVE  /\ Least(S) \in S /\ Greatest(S) \in S /\ S \subseteq Least(S)..Greatest(S)
<1>1. S \subseteq Nat /\ \A x \in S : x < Months[Len(Months)]
  BY MonthsRise DEF Day
<1>2. \E x \in S : \A y \in S : x <= y
  BY <1>1, SmallestOf
<1>3. \E x \in S : \A y \in S : x >= y
  <2> DEFINE N == Months[Len(Months)]
             T == {n \in Nat : N - n \in S}
  <2>1. N \in Nat
    BY MonthsRise
  <2>2. \A x \in S : N - x \in T /\ x \in Nat
    BY <1>1, <2>1
  <2>3. T # {} /\ T \in SUBSET Nat
    BY <2>2
  <2>4. PICK n \in T : \A m \in T : n <= m
    <3> HIDE DEF T
    <3> QED BY <2>3, SmallestOf
  <2>5. n \in Nat /\ N - n \in S
    BY <2>4
  <2>6. ASSUME NEW y \in S PROVE N - n >= y
    <3>1. n <= N - y /\ y \in Nat
      BY <2>2, <2>4
    <3> HIDE DEF N
    <3> QED BY <2>1, <2>5, <3>1
  <2> QED BY <2>5, <2>6
<1>4. Least(S) \in S /\ \A y \in S : Least(S) <= y
  BY <1>2 DEF Least
<1>5. Greatest(S) \in S /\ \A y \in S : Greatest(S) >= y
  BY <1>3 DEF Greatest
<1> QED BY <1>1, <1>4, <1>5

LEMMA PeriodOf ==
    ASSUME NEW j \in Jobs, ~BadConfig(j)
    PROVE  /\ Period(j) \in Periods \cup {"unset"}
           /\ Full(j) => Period(j) = "unset"
           /\ Strategy(j) = "replay_slices" => Period(j) \in Periods
<1>1. j.slice \in Periods \cup {"unset", "bad"} /\ j.default \in Periods \cup {"unset", "bad"}
  BY AskingAssumption DEF Config
<1> QED BY <1>1 DEF BadConfig, Period

\* A date of a regular run loads what was asked for on it.
LEMMA RegularLoads ==
    ASSUME WeeksAgree, NEW c \in Commands, NEW j \in Jobs, NEW d \in Day, c.kind = "regular", ~BadConfig(j)
    PROVE  LoadAll(j, Regular(j, {Text(d)})) = AskedOn(c, j, d)
<1>1. CASE Period(j) = "unset"
  BY <1>1, WholeLoads DEF Regular, AskedOn
<1>2. CASE Period(j) # "unset"
  <2>1. Period(j) \in Periods /\ ~Full(j)
    BY <1>2, PeriodOf
  <2>2. d \in Int
    BY MonthsRise DEF Day
  <2>3. LoadAll(j, Each(j, {Text(d)})) = UNION {Slice(Normal(v, Period(j)), Period(j)) : v \in {Text(d)}}
    <3>1. {Text(d)} \in SUBSET DayValue /\ \A v \in {Text(d)} : v.day \in Day
      BY <2>2, TextNamed
    <3> QED BY <3>1, EachLoads
  <2>4. LoadAll(j, Each(j, {Text(d)})) = SlicesOf({<<d, 0>>}, Period(j))
    BY <2>1, <2>3, DateLoads
  <2> QED BY <1>2, <2>1, <2>4 DEF Regular, AskedOn
<1> QED BY <1>1, <1>2

\* The one plan of a full refresh loads what was asked for on any of its dates.
LEMMA RefreshLoads ==
    ASSUME WeeksAgree, NEW c \in Commands, NEW j \in Jobs, NEW days \in SUBSET Day, days # {}, NEW b,
           c.kind = "refresh", ~BadConfig(j), ~BadRefresh(j, days, b)
    PROVE  LoadAll(j, Refresh(j, days)) = UNION {AskedOn(c, j, d) : d \in days}
<1>0. \A d \in days : d \in Day /\ d \in Int /\ d # None
  BY MonthsRise, AskingAssumption DEF Day
<1>1. CASE Strategy(j) = "replay_slices"
  <2>1. Period(j) \in Periods
    BY <1>1, PeriodOf
  <2>2. /\ {Text(d) : d \in days} \in SUBSET DayValue
        /\ \A v \in {Text(d) : d \in days} : v.day \in Day
    BY <1>0, TextNamed
  <2>3. LoadAll(j, Each(j, {Text(d) : d \in days})) =
          UNION {Slice(Normal(v, Period(j)), Period(j)) : v \in {Text(d) : d \in days}}
    BY <2>2, EachLoads
  <2>4. \A d \in days : Slice(Normal(Text(d), Period(j)), Period(j)) = AskedOn(c, j, d)
    <3>1. ~Windowed(j) /\ Period(j) # "unset"
      BY <1>1, <2>1 DEF Windowed, Periods
    <3> QED BY <1>0, <1>1, <2>1, <3>1, DateLoads DEF AskedOn
  <2>5. LoadAll(j, Each(j, {Text(d) : d \in days})) = UNION {AskedOn(c, j, d) : d \in days}
    BY <2>3, <2>4
  <2> QED BY <1>1, <2>5 DEF Refresh
<1>2. CASE Strategy(j) # "replay_slices" /\ Windowed(j)
  <2>1. PICK l, g : l = Least(days) /\ g = Greatest(days)
    OBVIOUS
  <2>2. l \in days /\ g \in days /\ days \subseteq l..g /\ \A d \in l..g : d \in days
    BY <1>2, <2>1, Extremes DEF BadRefresh, Contiguous
  <2>3. Refresh(j, days) = {[Whole EXCEPT !.from = l, !.to = g]}
    BY <1>2, <2>1 DEF Refresh
  <2>4. LoadAll(j, Refresh(j, days)) = {t \in Moment : l <= t[1] /\ t[1] <= g}
    <3>1. PICK i : i = [Whole EXCEPT !.from = l, !.to = g]
      OBVIOUS
    <3>2. i.value = None /\ i.from = l /\ i.to = g
      BY <3>1 DEF Whole
    <3>3. Load(j, i) = {t \in Moment : l <= t[1] /\ t[1] <= g}
      BY <1>0, <2>2, <3>2 DEF Load
    <3> QED BY <2>3, <3>1, <3>3 DEF LoadAll
  <2>5. \A t \in Moment : l <= t[1] /\ t[1] <= g <=> t[1] \in days
    <3>1. \A t \in Moment : t[1] \in Int
      BY MonthsRise DEF Moment, Day
    <3> QED BY <1>0, <2>2, <3>1
  <2>6. \A d \in days : AskedOn(c, j, d) = {t \in Moment : t[1] = d}
    BY <1>2 DEF AskedOn
  <2> QED BY <2>4, <2>5, <2>6
<1>3. CASE Strategy(j) # "replay_slices" /\ ~Windowed(j)
  <2>1. Refresh(j, days) = {Whole} /\ \A d \in days : AskedOn(c, j, d) = Moment
    BY <1>3 DEF Refresh, AskedOn
  <2> QED BY <2>1, WholeLoads
<1> QED BY <1>1, <1>2, <1>3

\* A shadow run loads the slices that the window of its plan touches.
LEMMA ShadowLoads ==
    ASSUME WeeksAgree, NEW c \in Commands, NEW j \in Jobs, c.kind = "shadow", ~BadConfig(j)
    PROVE  LoadAll(j, Regular(j, Wanted(c, j))) = AskedBetween(j, c.from, c.to)
<1>1. c.from \in Moment /\ c.to \in Moment /\ Before(c.from, c.to)
  BY AskingAssumption DEF Command
<1>2. CASE Period(j) = "unset"
  BY <1>2, WholeLoads DEF Regular, AskedBetween
<1>3. CASE Period(j) # "unset"
  <2>1. Period(j) \in Periods /\ ~Full(j)
    BY <1>3, PeriodOf
  <2> DEFINE V == ValuesFor(c.from, c.to, Period(j))
  <2>2. Wanted(c, j) = V
    BY <1>3, <2>1 DEF Wanted, ValuesOf
  <2>3. /\ V # {} /\ V \in SUBSET DayValue /\ (Period(j) = "M" => \A v \in V : v.day \in Day)
        /\ UNION {Slice(Normal(v, Period(j)), Period(j)) : v \in V} = SlicesOf(Window(c.from, c.to), Period(j))
    BY <1>1, <2>1, WindowLoads
  <2> HIDE DEF V
  <2>4. LoadAll(j, Each(j, V)) = SlicesOf(Window(c.from, c.to), Period(j))
    BY <2>3, EachLoads
  <2>5. Regular(j, Wanted(c, j)) = Each(j, V)
    BY <1>3, <2>1, <2>2, <2>3 DEF Regular
  <2> QED BY <1>3, <2>4, <2>5 DEF AskedBetween, Window
<1> QED BY <1>2, <1>3

-----------------------------------------------------------------------------
(* What a command has done so far, for job j, as it was planned on day b.  *)

\* The day does not matter to what the command does.
Steady(j, b) == b = today \/ j.history
PlanInv(c, j, b) ==
    /\ job = j /\ command = c /\ began = b
    /\ stage \in {"new", "running", "completed", "refused", "failed"}
    /\ stage = "new" => today = b /\ loaded = {}
    /\ stage = "refused" => loaded = {}
    /\ stage = "running" => ~Refused(c, j, b)
    /\ stage = "running" /\ c.kind = "shadow" => loaded = {}
    /\ stage = "running" /\ c.kind = "refresh" => loaded = {} /\ dates = Dates(c, b)
    /\ stage = "running" /\ c.kind = "regular" =>
          dates \in Seq(Day) /\ ToSet(dates) \subseteq ToSet(Dates(c, b))
    /\ stage = "running" /\ c.kind = "regular" /\ Steady(j, b) =>
          /\ loaded \subseteq Asked(c, j, b)
          /\ Asked(c, j, b) \subseteq
               loaded \cup UNION {AskedOn(c, j, d) : d \in AskedDates(c, j, b) \cap ToSet(dates)}
    /\ Steady(j, b) => /\ stage = "completed" => loaded = Asked(c, j, b)
                       /\ stage # "failed"
Planned == \E c \in Commands, j \in Jobs, b \in Days : PlanInv(c, j, b)

\* Whether a plan is bad depends on the day only for jobs that keep no history.
LEMMA BadAnyDay ==
    ASSUME NEW j \in Jobs, NEW v, NEW days, NEW d, NEW e, d = e \/ j.history
    PROVE  /\ BadRegular(j, v, d) => BadRegular(j, v, e)
           /\ BadRefresh(j, days, d) => BadRefresh(j, days, e)
BY AskingAssumption DEF BadRegular, BadRefresh, Historical, Config

LEMMA AskedUnion ==
    ASSUME NEW c, NEW j, NEW b, c.kind # "shadow"
    PROVE  /\ Asked(c, j, b) = UNION {AskedOn(c, j, d) : d \in AskedDates(c, j, b)}
           /\ \A d \in AskedDates(c, j, b) : AskedOn(c, j, d) \subseteq Asked(c, j, b)
           /\ AskedDates(c, j, b) \subseteq ToSet(Dates(c, b))
BY DEF Asked, AskedDates

\* The first of some dates, and the others.
LEMMA HeadAndTail ==
    ASSUME NEW T, NEW s \in Seq(T), s # <<>>
    PROVE  /\ Head(s) \in T /\ Tail(s) \in Seq(T)
           /\ ToSet(s) = {Head(s)} \cup ToSet(Tail(s))
<1>1. /\ Head(s) = s[1] /\ Head(s) \in T /\ Tail(s) \in Seq(T) /\ Len(s) \in Nat /\ Len(s) >= 1
      /\ Len(Tail(s)) = Len(s) - 1 /\ \A n \in 1..(Len(s) - 1) : Tail(s)[n] = s[n + 1]
  OBVIOUS
<1>2. DOMAIN s = 1..Len(s) /\ DOMAIN Tail(s) = 1..(Len(s) - 1)
  BY <1>1
<1>3. ToSet(s) \subseteq {Head(s)} \cup ToSet(Tail(s))
  <2> SUFFICES ASSUME NEW n \in 1..Len(s) PROVE s[n] \in {Head(s)} \cup ToSet(Tail(s))
    BY <1>2 DEF ToSet
  <2>1. CASE n = 1
    BY <1>1, <2>1
  <2>2. CASE n # 1
    <3>1. n - 1 \in 1..(Len(s) - 1) /\ (n - 1) + 1 = n
      BY <1>1, <2>2
    <3>2. Tail(s)[n - 1] = s[n]
      BY <1>1, <3>1
    <3> QED BY <1>2, <3>1, <3>2 DEF ToSet
  <2> QED BY <2>1, <2>2
<1>4. {Head(s)} \cup ToSet(Tail(s)) \subseteq ToSet(s)
  <2>1. \A n \in 1..(Len(s) - 1) : n + 1 \in 1..Len(s) /\ Tail(s)[n] = s[n + 1]
    BY <1>1
  <2>2. 1 \in 1..Len(s)
    BY <1>1
  <2> QED BY <1>1, <1>2, <2>1, <2>2 DEF ToSet
<1> QED BY <1>1, <1>3, <1>4

LEMMA ValidateKeeps ==
    ASSUME NEW c \in Commands, NEW j \in Jobs, NEW b \in Days, PlanInv(c, j, b), Validate
    PROVE  PlanInv(c, j, b)'
<1>1. /\ job = j /\ command = c /\ began = b /\ today = b /\ loaded = {}
      /\ UNCHANGED <<job, command, began, today, loaded>>
  BY DEF PlanInv, Validate
<1>2. CASE Refused(c, j, b)
  <2>1. stage' = "refused"
    BY <1>1, <1>2 DEF Validate
  <2> QED BY <1>1, <2>1 DEF PlanInv
<1>3. CASE ~Refused(c, j, b)
  <2>1. stage' = "running" /\ dates' = IF c.kind = "shadow" THEN <<>> ELSE Dates(c, b)
    BY <1>1, <1>3 DEF Validate
  <2>2. c.kind # "shadow" => dates' \in Seq(Day)
    BY <1>3, <2>1, DatesAreDays DEF Refused
  <2>3. c.kind = "regular" =>
          /\ dates' \in Seq(Day) /\ ToSet(dates') \subseteq ToSet(Dates(c, b))
          /\ Asked(c, j, b) \subseteq UNION {AskedOn(c, j, d) : d \in AskedDates(c, j, b) \cap ToSet(dates')}
    BY <2>1, <2>2, AskedUnion
  <2>4. ToSet(dates)' = ToSet(dates')
    BY DEF ToSet
  <2> QED BY <1>1, <1>3, <2>1, <2>3, <2>4 DEF PlanInv
<1> QED BY <1>2, <1>3

LEMMA RunDateKeeps ==
    ASSUME WeeksAgree, NEW c \in Commands, NEW j \in Jobs, NEW b \in Days, PlanInv(c, j, b), RunDate
    PROVE  PlanInv(c, j, b)'
<1>1. /\ job = j /\ command = c /\ began = b /\ c.kind = "regular" /\ stage = "running" /\ dates # <<>>
      /\ ~Refused(c, j, b) /\ dates \in Seq(Day) /\ ToSet(dates) \subseteq ToSet(Dates(c, b))
      /\ UNCHANGED <<job, command, began, today>>
  BY DEF PlanInv, RunDate
<1>2. PICK d : d = Head(dates)
  OBVIOUS
<1>3. d \in Day /\ Tail(dates) \in Seq(Day) /\ ToSet(dates) = {d} \cup ToSet(Tail(dates))
  BY <1>1, <1>2, HeadAndTail
<1>4. d \in ToSet(Dates(c, b)) /\ ~BadConfig(j) /\ j.history \in BOOLEAN /\ c.skip \in BOOLEAN
  BY <1>1, <1>3, AskingAssumption DEF Refused, Config, Command
<1>5. CASE Skipped(c, j, d, today)
  <2>1. dates' = Tail(dates) /\ UNCHANGED <<stage, loaded>>
    BY <1>1, <1>2, <1>5 DEF RunDate
  <2>2. Steady(j, b) => d \notin AskedDates(c, j, b)
    BY <1>5 DEF Steady, Skipped, AskedDates
  <2>3. ToSet(dates)' = ToSet(Tail(dates))
    BY <2>1 DEF ToSet
  <2>4. Steady(j, b) => AskedDates(c, j, b) \cap ToSet(dates) = AskedDates(c, j, b) \cap ToSet(Tail(dates))
    BY <1>3, <2>2
  <2> QED BY <1>1, <1>3, <2>1, <2>3, <2>4 DEF PlanInv, Steady
<1>6. CASE ~Skipped(c, j, d, today) /\ BadRegular(j, {Text(d)}, today)
  <2>1. ~Steady(j, b)
    <3> SUFFICES ASSUME Steady(j, b) PROVE FALSE
      OBVIOUS
    <3>1. BadRegular(j, {Text(d)}, b)
      BY <1>6, BadAnyDay DEF Steady
    <3>2. ~Skipped(c, j, d, b)
      BY <1>6 DEF Steady, Skipped
    <3> QED BY <1>1, <1>4, <3>1, <3>2 DEF Refused
  <2>2. stage' = "failed"
    BY <1>1, <1>2, <1>6 DEF RunDate
  <2> QED BY <1>1, <2>1, <2>2 DEF PlanInv, Steady
<1>7. CASE ~Skipped(c, j, d, today) /\ ~BadRegular(j, {Text(d)}, today)
  <2>1. dates' = Tail(dates) /\ loaded' = loaded \cup LoadAll(j, Regular(j, {Text(d)})) /\ UNCHANGED stage
    BY <1>1, <1>2, <1>7 DEF RunDate
  <2>2. loaded' = loaded \cup AskedOn(c, j, d)
    BY <1>1, <1>3, <1>4, <2>1, RegularLoads
  <2>3. Steady(j, b) => d \in AskedDates(c, j, b)
    BY <1>4, <1>7 DEF Steady, Skipped, AskedDates
  <2>4. ToSet(dates)' = ToSet(Tail(dates))
    BY <2>1 DEF ToSet
  <2>5. PICK S : S = ToSet(Tail(dates))
    OBVIOUS
  <2>6. Steady(j, b) =>
          /\ loaded' \subseteq Asked(c, j, b)
          /\ Asked(c, j, b) \subseteq loaded' \cup UNION {AskedOn(c, j, x) : x \in AskedDates(c, j, b) \cap S}
    <3> SUFFICES ASSUME Steady(j, b)
                 PROVE  /\ loaded' \subseteq Asked(c, j, b)
                        /\ Asked(c, j, b) \subseteq
                             loaded' \cup UNION {AskedOn(c, j, x) : x \in AskedDates(c, j, b) \cap S}
      OBVIOUS
    <3>1. /\ loaded \subseteq Asked(c, j, b)
          /\ Asked(c, j, b) \subseteq
               loaded \cup UNION {AskedOn(c, j, x) : x \in AskedDates(c, j, b) \cap ({d} \cup S)}
      BY <1>1, <1>3, <2>5 DEF PlanInv
    <3>2. AskedOn(c, j, d) \subseteq Asked(c, j, b)
      BY <1>1, <2>3, AskedUnion
    <3> QED BY <2>2, <3>1, <3>2
  <2> QED BY <1>1, <1>3, <2>1, <2>4, <2>5, <2>6 DEF PlanInv, Steady
<1> QED BY <1>5, <1>6, <1>7

LEMMA RunAllKeeps ==
    ASSUME WeeksAgree, NEW c \in Commands, NEW j \in Jobs, NEW b \in Days, PlanInv(c, j, b), RunAll
    PROVE  PlanInv(c, j, b)'
<1>1. /\ job = j /\ command = c /\ began = b /\ stage = "running" /\ ~Refused(c, j, b) /\ ~BadConfig(j)
      /\ UNCHANGED <<job, command, began, today>> /\ c.kind \in {"refresh", "shadow"}
      /\ j.history \in BOOLEAN
  BY AskingAssumption DEF PlanInv, RunAll, Refused, Command, Config
<1>2. CASE c.kind = "shadow"
  <2>1. CASE BadRegular(j, Wanted(c, j), today)
    <3>1. stage' = "failed"
      BY <1>1, <1>2, <2>1 DEF RunAll
    <3>2. ~Steady(j, b)
      BY <1>1, <1>2, <2>1, BadAnyDay DEF Steady, Refused
    <3> QED BY <1>1, <3>1, <3>2 DEF PlanInv, Steady
  <2>2. CASE ~BadRegular(j, Wanted(c, j), today)
    <3>1. stage' = "completed" /\ loaded' = LoadAll(j, Regular(j, Wanted(c, j)))
      BY <1>1, <1>2, <2>2 DEF RunAll
    <3>2. loaded' = Asked(c, j, b)
      BY <1>1, <1>2, <3>1, ShadowLoads DEF Asked
    <3> QED BY <1>1, <3>1, <3>2 DEF PlanInv, Steady
  <2> QED BY <2>1, <2>2
<1>3. CASE c.kind = "refresh"
  <2>1. PICK days : days = ToSet(Dates(c, b))
    OBVIOUS
  <2>2. dates = Dates(c, b) /\ dates # <<>> /\ ToSet(dates) = days
    BY <1>1, <1>3, <2>1 DEF PlanInv, RunAll
  <2>3. Dates(c, b) \in Seq(Day) /\ ~c.skip
    BY <1>1, <1>3, DatesAreDays DEF Refused, BadDates
  <2>4. days \in SUBSET Day /\ days # {}
    <3>1. PICK s \in Seq(Day) : s = dates
      BY <2>2, <2>3
    <3>2. ToSet(s) = {Head(s)} \cup ToSet(Tail(s))
      BY <2>2, <3>1, HeadAndTail
    <3>3. ToSet(s) \subseteq Day
      BY DEF ToSet
    <3> QED BY <2>2, <3>1, <3>2, <3>3
  <2>5. CASE BadRefresh(j, days, today)
    <3>1. stage' = "failed"
      BY <1>1, <1>3, <2>2, <2>5 DEF RunAll
    <3>2. ~Steady(j, b)
      BY <1>1, <1>3, <2>1, <2>5, BadAnyDay DEF Steady, Refused
    <3> QED BY <1>1, <3>1, <3>2 DEF PlanInv, Steady
  <2>6. CASE ~BadRefresh(j, days, today)
    <3>1. stage' = "completed" /\ loaded' = LoadAll(j, Refresh(j, days))
      BY <1>1, <1>3, <2>2, <2>6 DEF RunAll
    <3>2. AskedDates(c, j, b) = days
      BY <2>1, <2>3 DEF AskedDates
    <3>3. loaded' = Asked(c, j, b)
      BY <1>1, <1>3, <2>4, <2>6, <3>1, <3>2, RefreshLoads, AskedUnion
    <3> QED BY <1>1, <3>1, <3>3 DEF PlanInv, Steady
  <2> QED BY <2>5, <2>6
<1> QED BY <1>1, <1>2, <1>3

LEMMA EndOrMidnightKeeps ==
    ASSUME NEW c \in Commands, NEW j \in Jobs, NEW b \in Days, PlanInv(c, j, b), EndDates \/ Midnight
    PROVE  PlanInv(c, j, b)'
<1>1. CASE EndDates
  <2>1. /\ job = j /\ command = c /\ began = b /\ c.kind = "regular" /\ stage = "running" /\ dates = <<>>
        /\ stage' = "completed" /\ UNCHANGED <<job, command, began, today, dates, loaded>>
    BY <1>1 DEF PlanInv, EndDates
  <2>2. ToSet(dates) = {}
    BY <2>1 DEF ToSet
  <2>3. Steady(j, b) => loaded = Asked(c, j, b)
    BY <2>1, <2>2 DEF PlanInv
  <2> QED BY <2>1, <2>3 DEF PlanInv, Steady
<1>2. CASE Midnight
  <2>1. /\ job = j /\ command = c /\ began = b /\ today = b /\ stage = "running"
        /\ UNCHANGED <<job, command, began, stage, dates, loaded>>
    BY <1>2 DEF PlanInv, Midnight
  <2>2. Steady(j, b)
    BY <2>1 DEF Steady
  <2>3. ToSet(dates)' = ToSet(dates)
    BY <2>1 DEF ToSet
  <2> QED BY <2>1, <2>2, <2>3 DEF PlanInv
<1> QED BY <1>1, <1>2

\* A command that completes has loaded what was asked for, and nothing else, one that is
\* refused nothing, and none fails on its way for what planning could have seen: for any
\* calendar, jobs and commands, if planner and plans agree on the day that begins weeks
\* (_normalize_slice_value, _period_start, _plan_regular_invocations, resolve_etl_dates).
THEOREM LoadedAsAsked ==
    WeeksAgree /\ PlannerInit /\ [][PlannerNext]_plannerVars => []AsAsked
<1>1. PlannerInit => Planned
  <2> SUFFICES ASSUME PlannerInit PROVE Planned
    OBVIOUS
  <2>1. PlanInv(command, job, began)
    BY DEF PlannerInit, PlanInv
  <2> QED BY <2>1 DEF PlannerInit, Planned
<1>2. WeeksAgree /\ Planned /\ [PlannerNext]_plannerVars => Planned'
  <2> SUFFICES ASSUME WeeksAgree, NEW c \in Commands, NEW j \in Jobs, NEW b \in Days, PlanInv(c, j, b),
                      [PlannerNext]_plannerVars
               PROVE  PlanInv(c, j, b)'
    BY DEF Planned
  <2>1. CASE UNCHANGED plannerVars
    <3>1. ToSet(dates)' = ToSet(dates)
      BY <2>1 DEF plannerVars, ToSet
    <3> QED BY <2>1, <3>1 DEF plannerVars, PlanInv, Steady
  <2> QED BY <2>1, ValidateKeeps, RunDateKeeps, RunAllKeeps, EndOrMidnightKeeps DEF PlannerNext
<1>3. Planned => AsAsked
  BY AskingAssumption DEF Planned, PlanInv, Steady, AsAsked
<1>4. WeeksAgree => [](WeeksAgree)
  <2>1. WeeksAgree => WeeksAgree'
    BY DEF WeeksAgree
  <2> QED BY <2>1, PTL
<1> QED BY <1>1, <1>2, <1>3, <1>4, PTL
=============================================================================
