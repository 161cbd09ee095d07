---------------------------- MODULE TaskRunProofs -----------------------------
(***************************************************************************)
(* Proofs about TaskRun for any number of processes, jobs and dates, any   *)
(* schedule, any lists of jobs and any degree of parallelism.              *)
(***************************************************************************)
EXTENDS TaskRun, ScheduleFile, RecursionProofs, FiniteSetTheorems, TLAPS

-----------------------------------------------------------------------------
(* Type correctness.  No run goes past its last date.                      *)
THEOREM TypeCorrect == Spec => []TypeOK
<1> USE RunAssumption
<1>1. Init => TypeOK
  BY DEF Init, TypeOK, Fresh, State, Terminal, Outcome, NeverLoaded, Load
<1>2. TypeOK /\ [Next]_vars => TypeOK'
  <2> SUFFICES ASSUME TypeOK, [Next]_vars PROVE TypeOK'
    OBVIOUS
  <2>1. ASSUME NEW p \in Proc, Lock(p) PROVE TypeOK'
    BY <2>1 DEF Lock, TypeOK
  <2>2. ASSUME NEW p \in Proc, NEW j \in Job, StartJob(p, j) PROVE TypeOK'
    BY <2>2 DEF StartJob, TypeOK, State
  <2>3. ASSUME NEW p \in Proc, NEW j \in Job, BlockJob(p, j) PROVE TypeOK'
    BY <2>3 DEF BlockJob, TypeOK, State, Terminal
  <2>4. ASSUME NEW p \in Proc, NEW j \in Job, FinishJob(p, j) PROVE TypeOK'
    BY <2>4 DEF FinishJob, TypeOK, State, Terminal, Load
  <2>5. ASSUME NEW p \in Proc, NextDate(p) PROVE TypeOK'
    BY <2>5 DEF NextDate, TypeOK, Fresh, State
  <2>6. ASSUME NEW p \in Proc, EndRun(p) PROVE TypeOK'
    BY <2>6 DEF EndRun, Release, TypeOK
  <2>7. ASSUME NEW p \in Proc, Interrupt(p) PROVE TypeOK'
    BY <2>7 DEF Interrupt, Release, TypeOK
  <2>8. CASE UNCHANGED vars
    BY <2>8 DEF vars, TypeOK
  <2> QED
    BY <2>1, <2>2, <2>3, <2>4, <2>5, <2>6, <2>7, <2>8 DEF Next, Proceed, JobStep
<1> QED
  BY <1>1, <1>2, PTL DEF Spec

-----------------------------------------------------------------------------
(* The inductive invariant, for operators who wait for a quiet target.     *)

\* The process is in its run, or a worker it has left behind is.
Active(p) == pc[p] = "run" \/ Running(p) # {}

LockHeld == \A p \in Proc : pc[p] = "run" <=> lock = p

OneActive == \A p, q \in Proc : Active(p) /\ Active(q) => p = q

IdleFresh == \A p \in Proc : pc[p] = "idle" => state[p] = Fresh /\ date[p] = 1

\* A job that runs or has run found its upstreams successful.
UpstreamsDone ==
    \A p \in Proc, j \in Job :
        state[p][j] \in {"running", "success"} =>
            j \in chosen[p] /\ \A u \in Upstream[j] \cap chosen[p] : state[p][u] = "success"

\* Lists have no gaps, if operators leave none.
ListsKept == \A p \in Proc : Gapless => Convex(chosen[p])

\* What the active process has loaded nobody else has touched.
LoadsKept ==
    \A p \in Proc : Active(p) => \A j \in chosen[p] :
        /\ state[p][j] = "success" => loaded[j] = [by |-> p, date |-> date[p]]
        /\ date[p] > 1 => loaded[j].by = p /\ loaded[j].date \in {date[p] - 1, date[p]}

RunInv ==
    /\ TypeOK
    /\ LockHeld
    /\ OneActive
    /\ IdleFresh
    /\ UpstreamsDone
    /\ ListsKept
    /\ LoadsKept

\* No process has started, and nobody holds the lock.
LEMMA RunInit == Init => RunInv
<1> SUFFICES ASSUME Init PROVE RunInv
  OBVIOUS
<1>1. TypeOK
  BY RunAssumption DEF Init, TypeOK, Fresh, State, Terminal, Outcome, NeverLoaded, Load
<1>2. \A p \in Proc : ~Active(p)
  BY DEF Init, Active, Running, Fresh
<1>3. ListsKept
  BY DEF Init, ListsKept
<1>4. LockHeld /\ OneActive /\ IdleFresh /\ UpstreamsDone /\ LoadsKept
  BY <1>2, RunAssumption
  DEF Init, LockHeld, OneActive, IdleFresh, UpstreamsDone, LoadsKept, Fresh
<1> QED
  BY <1>1, <1>3, <1>4 DEF RunInv

\* A process that gets the lock finds nobody active, which is what the patience
\* is for, and has nothing loaded yet.
LEMMA LockStep == ASSUME Patient, RunInv, NEW p \in Proc, Lock(p) PROVE RunInv'
<1> USE DEF RunInv
<1>1. /\ UNCHANGED <<chosen, date, state, loaded>> /\ QuietTarget /\ pc[p] = "idle"
      /\ \A q \in Proc : Running(q)' = Running(q)
  BY DEF Lock, Running
<1>2. TypeOK' /\ ListsKept'
  BY <1>1 DEF Lock, TypeOK, ListsKept, Convex
<1>3. CASE lock = NoProc
  <2>1. lock' = p /\ \A q \in Proc : pc'[q] = IF q = p THEN "run" ELSE pc[q]
    BY <1>3 DEF Lock, TypeOK
  <2>2. \A q \in Proc : ~Active(q)
    BY <1>1, <1>3, RunAssumption DEF LockHeld, QuietTarget, Active
  <2>3. \A q \in Proc : Active(q)' <=> q = p
    BY <1>1, <2>1, <2>2 DEF Active
  <2>4. LockHeld'
    BY <1>3, <2>1, RunAssumption DEF LockHeld
  <2>5. OneActive'
    BY <2>3 DEF OneActive
  <2>6. IdleFresh' /\ UpstreamsDone'
    BY <1>1, <2>1 DEF IdleFresh, UpstreamsDone
  <2>7. state[p] = Fresh /\ date[p] = 1
    BY <1>1 DEF IdleFresh
  <2>8. LoadsKept'
    BY <1>1, <2>3, <2>7 DEF LoadsKept, Fresh, TypeOK
  <2> QED
    BY <1>2, <2>4, <2>5, <2>6, <2>8
<1>4. CASE lock # NoProc
  <2>1. lock' = lock /\ \A q \in Proc : pc'[q] = IF q = p THEN "refused" ELSE pc[q]
    BY <1>4 DEF Lock, TypeOK
  <2>2. \A q \in Proc : Active(q)' <=> Active(q)
    BY <1>1, <2>1 DEF Active
  <2>3. LockHeld'
    BY <1>1, <2>1 DEF LockHeld
  <2> QED
    BY <1>1, <1>2, <2>1, <2>2, <2>3 DEF OneActive, IdleFresh, UpstreamsDone, LoadsKept
<1> QED
  BY <1>3, <1>4

\* Starting or blocking a job loads nothing and makes nobody active.
LEMMA StartStep ==
    ASSUME RunInv, NEW p \in Proc, NEW j \in Job, StartJob(p, j) \/ BlockJob(p, j)
    PROVE  RunInv'
<1> USE DEF RunInv
<1>1. /\ UNCHANGED <<chosen, lock, pc, date, loaded>> /\ pc[p] = "run" /\ state[p][j] = "waiting"
  BY DEF StartJob, BlockJob, Startable, Blockable
<1>2. PICK s \in {"running", "blocked"} :
          /\ state' = [state EXCEPT ![p][j] = s]
          /\ s = "running" =>
                j \in chosen[p] /\ \A u \in Upstream[j] \cap chosen[p] : state[p][u] = "success"
  BY DEF StartJob, BlockJob, Startable, Deps
<1>3. TypeOK' /\ ListsKept'
  BY <1>1, <1>2 DEF TypeOK, State, Terminal, ListsKept, Convex
<1>4. /\ \A q \in Proc, k \in Job : q # p \/ k # j => state'[q][k] = state[q][k]
      /\ state'[p][j] = s
      /\ \A q \in Proc : q # p => state'[q] = state[q]
  BY <1>2 DEF TypeOK
<1>5. \A q \in Proc : Active(q)' <=> Active(q)
  BY <1>1, <1>4 DEF Active, Running
<1>6. LockHeld' /\ OneActive'
  BY <1>1, <1>5 DEF LockHeld, OneActive
<1>7. IdleFresh'
  BY <1>1, <1>4 DEF IdleFresh
<1>8. UpstreamsDone'
  BY <1>1, <1>2, <1>4, RunAssumption DEF UpstreamsDone
<1>9. LoadsKept'
  BY <1>1, <1>4, <1>5 DEF LoadsKept, TypeOK
<1> QED
  BY <1>3, <1>6, <1>7, <1>8, <1>9

\* A job that ends is the active process's own, and it is not one of the jobs
\* whose loads the invariant speaks of.
LEMMA FinishStep ==
    ASSUME RunInv, NEW p \in Proc, NEW j \in Job, FinishJob(p, j)
    PROVE  RunInv'
<1> USE DEF RunInv
<1>1. PICK o \in Outcome, written \in BOOLEAN :
          /\ o = "success" => written
          /\ state' = [state EXCEPT ![p][j] = o]
          /\ loaded' = [loaded EXCEPT ![j] =
                IF written THEN [by |-> p, date |-> date[p]] ELSE @]
  BY DEF FinishJob
<1>2. UNCHANGED <<chosen, lock, pc, date>> /\ state[p][j] = "running" /\ o \in {"success", "failed"}
  BY DEF FinishJob, Outcome
<1>3. TypeOK' /\ ListsKept'
  BY <1>1, <1>2 DEF TypeOK, State, Terminal, Outcome, Load, ListsKept, Convex
<1>4. /\ \A q \in Proc, k \in Job : q # p \/ k # j => state'[q][k] = state[q][k]
      /\ state'[p][j] = o
      /\ \A q \in Proc : q # p => state'[q] = state[q]
  BY <1>1 DEF TypeOK
<1>5. /\ \A k \in Job : k # j => loaded'[k] = loaded[k]
      /\ loaded'[j] = IF written THEN [by |-> p, date |-> date[p]] ELSE loaded[j]
  BY <1>1 DEF TypeOK
<1>6. Active(p) /\ \A q \in Proc : Active(q)' => Active(q)
  BY <1>2, <1>4 DEF Active, Running
<1>7. LockHeld' /\ OneActive'
  BY <1>2, <1>6 DEF LockHeld, OneActive
<1>8. IdleFresh'
  BY <1>2, <1>4, RunAssumption DEF IdleFresh, Fresh
<1>9. UpstreamsDone'
  BY <1>2, <1>4, RunAssumption DEF UpstreamsDone
<1>10. \A q \in Proc : Active(q)' => q = p
  BY <1>6 DEF OneActive
<1>11. ASSUME NEW k \in chosen[p]
       PROVE  /\ state'[p][k] = "success" => loaded'[k] = [by |-> p, date |-> date'[p]]
              /\ date'[p] > 1 => loaded'[k].by = p /\ loaded'[k].date \in {date'[p] - 1, date'[p]}
  <2>1. CASE k = j
    BY <1>1, <1>2, <1>4, <1>5, <1>6, <2>1 DEF LoadsKept
  <2>2. CASE k # j
    BY <1>2, <1>4, <1>5, <1>6, <2>2 DEF LoadsKept, TypeOK
  <2> QED
    BY <2>1, <2>2
<1>12. LoadsKept'
  BY <1>2, <1>10, <1>11 DEF LoadsKept
<1> QED
  BY <1>3, <1>7, <1>8, <1>9, <1>12

\* The next date begins with every table loaded for this one.
LEMMA NextDateStep == ASSUME RunInv, NEW p \in Proc, NextDate(p) PROVE RunInv'
<1> USE DEF RunInv
<1>1. /\ UNCHANGED <<chosen, lock, pc, loaded>> /\ pc[p] = "run" /\ date[p] < Dates
      /\ \A j \in chosen[p] : state[p][j] = "success"
  BY DEF NextDate, DateOver, Completed
<1>2. /\ \A q \in Proc : state'[q] = IF q = p THEN Fresh ELSE state[q]
      /\ \A q \in Proc : date'[q] = IF q = p THEN date[p] + 1 ELSE date[q]
      /\ date[p] \in Nat \ {0}
  BY RunAssumption DEF NextDate, TypeOK
<1>3. TypeOK' /\ ListsKept'
  BY <1>1, RunAssumption DEF NextDate, TypeOK, Fresh, State, ListsKept, Convex
<1>4. Active(p) /\ \A q \in Proc : Active(q)' => Active(q)
  BY <1>1, <1>2 DEF Active, Running, Fresh
<1>5. LockHeld' /\ OneActive'
  BY <1>1, <1>4 DEF LockHeld, OneActive
<1>6. IdleFresh' /\ UpstreamsDone'
  BY <1>1, <1>2 DEF IdleFresh, UpstreamsDone, Fresh
<1>7. \A q \in Proc : Active(q)' => q = p
  BY <1>4 DEF OneActive
<1>8. \A j \in chosen[p] : loaded'[j] = [by |-> p, date |-> date[p]]
  BY <1>1, <1>4 DEF LoadsKept
<1>9. ASSUME NEW j \in chosen[p]
      PROVE  /\ state'[p][j] = "success" => loaded'[j] = [by |-> p, date |-> date'[p]]
             /\ date'[p] > 1 => loaded'[j].by = p /\ loaded'[j].date \in {date'[p] - 1, date'[p]}
  <2>1. state'[p][j] = "waiting"
    BY <1>2 DEF Fresh, TypeOK
  <2> QED
    BY <1>2, <1>8, <2>1
<1>10. LoadsKept'
  BY <1>1, <1>7, <1>9 DEF LoadsKept
<1> QED
  BY <1>3, <1>5, <1>6, <1>10

\* The end of a run and an interrupt free the lock.
LEMMA ReleaseStep ==
    ASSUME RunInv, NEW p \in Proc, EndRun(p) \/ Interrupt(p)
    PROVE  RunInv'
<1> USE DEF RunInv
<1>1. /\ UNCHANGED <<chosen, date, state, loaded>> /\ lock' = NoProc /\ pc[p] = "run"
      /\ \E end \in {"failed", "done", "interrupted"} : pc' = [pc EXCEPT ![p] = end]
  BY DEF EndRun, Interrupt, Release, DateOver
<1>2. TypeOK' /\ ListsKept'
  BY <1>1 DEF TypeOK, ListsKept, Convex
<1>3. /\ \A q \in Proc : q # p => pc'[q] = pc[q]
      /\ pc'[p] \notin {"run", "idle"}
  BY <1>1 DEF TypeOK
<1>4. \A q \in Proc : Active(q)' => Active(q)
  BY <1>1, <1>3 DEF Active, Running
<1>5. LockHeld'
  BY <1>1, <1>3, RunAssumption DEF LockHeld
<1> QED
  BY <1>1, <1>2, <1>3, <1>4, <1>5 DEF OneActive, IdleFresh, UpstreamsDone, LoadsKept

\* The invariant holds of every behaviour of patient operators.
LEMMA RunInductive == ASSUME Patient PROVE Spec => []RunInv
<1>1. RunInv /\ [Next]_vars => RunInv'
  <2> SUFFICES ASSUME RunInv, [Next]_vars PROVE RunInv'
    OBVIOUS
  <2>1. CASE UNCHANGED vars
    BY <2>1 DEF vars, RunInv, TypeOK, LockHeld, OneActive, IdleFresh, UpstreamsDone,
                ListsKept, Convex, LoadsKept, Active, Running
  <2>2. CASE Next
    BY <2>2, LockStep, StartStep, FinishStep, NextDateStep, ReleaseStep
    DEF Next, Proceed, JobStep
  <2> QED
    BY <2>1, <2>2
<1> QED
  BY <1>1, RunInit, PTL DEF Spec

-----------------------------------------------------------------------------
\* One writer: the lock, together with the patience, keeps the statements of two
\* runs apart.
THEOREM OneWriterAlways == ASSUME Patient PROVE Spec => []OneWriter
<1>1. RunInv => OneWriter
  BY DEF RunInv, OneActive, Active, OneWriter
<1> QED
  BY <1>1, RunInductive, PTL

\* In a list without gaps a way through the schedule is a way through the edges
\* the executor gets.
LEMMA PathInList ==
    ASSUME NEW L \in SUBSET Job, Convex(L), NEW a \in L, NEW b \in L, Reaches(Upstream, a, b),
           NEW S \in SUBSET Job, a \in S,
           \A k \in L : Upstream[k] \cap L \cap S # {} => k \in S
    PROVE  b \in S
<1> DEFINE T == {k \in Job : Reaches(Upstream, a, k) /\ (k \in L => k \in S)}
<1>1. a \in T
  BY DEF Reaches
<1>2. ASSUME NEW k \in Job, Upstream[k] \cap T # {} PROVE k \in T
  <2>1. PICK m \in Upstream[k] : m \in T
    BY <1>2
  <2>2. Reaches(Upstream, a, k) /\ Reaches(Upstream, m, k)
    BY <2>1, RunAssumption DEF Reaches
  <2>3. ASSUME k \in L PROVE k \in S
    <3>1. m \in L
      BY <2>1, <2>2, <2>3 DEF Convex
    <3> QED
      BY <2>1, <2>3, <3>1
  <2> QED
    BY <2>2, <2>3
<1>3. b \in T
  BY <1>1, <1>2 DEF Reaches
<1> QED
  BY <1>3

\* Every running job has, of all the jobs of its run before it, what the run has
\* loaded for its date.
THEOREM InputsKept == ASSUME Patient, Gapless PROVE Spec => []InputsOfSameDate
<1>1. RunInv => InputsOfSameDate
  <2> SUFFICES ASSUME RunInv, NEW p \in Proc, NEW j \in Job, state[p][j] = "running",
                      NEW u \in chosen[p], u # j, Reaches(Upstream, u, j)
               PROVE  loaded[u] = [by |-> p, date |-> date[p]]
    BY DEF InputsOfSameDate
  <2> DEFINE S == {u} \cup {k \in Job : state[p][k] \notin {"running", "success"}}
  <2>1. chosen[p] \in SUBSET Job /\ Convex(chosen[p]) /\ j \in chosen[p]
    BY DEF RunInv, TypeOK, ListsKept, UpstreamsDone
  <2>2. ASSUME state[p][u] # "success" PROVE FALSE
    <3>1. \A k \in chosen[p] : Upstream[k] \cap chosen[p] \cap S # {} => k \in S
      <4> SUFFICES ASSUME NEW k \in chosen[p], NEW m \in Upstream[k] \cap chosen[p], m \in S,
                          k \notin S
                   PROVE  FALSE
        OBVIOUS
      <4>1. state[p][m] # "success"
        BY <2>2
      <4>2. state[p][k] \in {"running", "success"}
        BY <2>1
      <4> QED
        BY <2>1, <4>1, <4>2 DEF RunInv, UpstreamsDone
    <3>2. S \in SUBSET Job /\ u \in S
      BY <2>1
    <3>3. j \in S
      <4> HIDE DEF S
      <4> QED
        BY <2>1, <3>1, <3>2, PathInList
    <3> QED
      BY <3>3
  <2>3. Active(p)
    BY DEF Active, Running
  <2> QED
    BY <2>2, <2>3 DEF RunInv, LoadsKept
<1> QED
  BY <1>1, RunInductive, PTL

\* No date is begun on top of an incomplete one.
THEOREM DatesInOrder == ASSUME Patient PROVE Spec => []DatesComplete
<1>1. RunInv => DatesComplete
  BY DEF RunInv, LoadsKept, Active, DatesComplete
<1> QED
  BY <1>1, RunInductive, PTL
-----------------------------------------------------------------------------
(* The schedule file.                                                      *)

\* The order of edges is strict and total.
LEMMA EdgesOrdered ==
    ASSUME NEW e \in Job \X Job, NEW h \in Job \X Job
    PROVE  /\ ~Earlier(e, e)
           /\ e # h => Earlier(e, h) \/ Earlier(h, e)
           /\ \A y \in Job \X Job : Earlier(y, e) /\ Earlier(e, h) => Earlier(y, h)
<1>1. e[1] \in Nat /\ e[2] \in Nat /\ h[1] \in Nat /\ h[2] \in Nat
  BY ScheduleAssumption
<1>2. e # h => e[1] # h[1] \/ e[2] # h[2]
  OBVIOUS
<1>3. ASSUME NEW y \in Job \X Job, Earlier(y, e), Earlier(e, h) PROVE Earlier(y, h)
  <2>1. y[1] \in Nat /\ y[2] \in Nat
    BY ScheduleAssumption
  <2> QED BY <1>1, <1>3, <2>1 DEF Earlier
<1>4. ~Earlier(e, e)
  BY <1>1 DEF Earlier
<1>5. e # h => Earlier(e, h) \/ Earlier(h, e)
  BY <1>1, <1>2 DEF Earlier
<1> QED BY <1>3, <1>4, <1>5

\* What comes before one edge comes before every later one, so places count the edges.
LEMMA PlacesDiffer ==
    ASSUME NEW E \in SUBSET (Job \X Job), IsFiniteSet(E), NEW e \in E, NEW h \in E, Earlier(e, h)
    PROVE  Place(E, e) < Place(E, h)
<1> DEFINE B(x) == {y \in E : Earlier(y, x)}
<1>1. B(e) \subseteq B(h) /\ e \in B(h) /\ e \notin B(e)
  <2>1. ~Earlier(e, e)
    BY EdgesOrdered
  <2>2. ASSUME NEW y \in E, Earlier(y, e) PROVE Earlier(y, h)
    BY <2>2, EdgesOrdered
  <2> QED BY <2>1, <2>2
<1>2. IsFiniteSet(B(e)) /\ IsFiniteSet(B(h))
  BY FS_Subset
<1> HIDE DEF B
<1>3. B(e) \cup {e} \in SUBSET B(h)
  BY <1>1
<1>4. Cardinality(B(e) \cup {e}) = Cardinality(B(e)) + 1
  BY <1>1, <1>2, FS_AddElement
<1>5. Cardinality(B(e)) + 1 <= Cardinality(B(h))
  BY <1>2, <1>3, <1>4, FS_Subset
<1>6. Cardinality(B(e)) \in Nat /\ Cardinality(B(h)) \in Nat
  BY <1>2, FS_CardinalityType
<1>7. Cardinality(B(e)) < Cardinality(B(h))
  BY <1>5, <1>6
<1> QED BY <1>7 DEF Place, B

\* Every edge has its place among them, and every place its edge.
LEMMA SortedAll ==
    ASSUME NEW E \in SUBSET (Job \X Job), IsFiniteSet(E)
    PROVE  /\ Cardinality(E) \in Nat
           /\ \A n \in Nat : n < Cardinality(E) => Sorted(E, n) \in E
           /\ \A e \in E : /\ Place(E, e) \in Nat /\ Place(E, e) < Cardinality(E)
                           /\ Sorted(E, Place(E, e)) = e
<1>1. Cardinality(E) \in Nat
  BY FS_CardinalityType
<1>2. ASSUME NEW e \in E PROVE Place(E, e) \in Nat /\ Place(E, e) < Cardinality(E)
  <2> DEFINE B == {y \in E : Earlier(y, e)}
  <2>1. B \in SUBSET E /\ e \notin B
    BY EdgesOrdered
  <2>2. B # E
    BY <2>1
  <2> HIDE DEF B
  <2>3. /\ IsFiniteSet(B) /\ Cardinality(B) <= Cardinality(E)
        /\ Cardinality(E) = Cardinality(B) => E = B
    BY <2>1, FS_Subset
  <2>4. Cardinality(B) \in Nat
    BY <2>3, FS_CardinalityType
  <2>5. Cardinality(B) < Cardinality(E)
    BY <1>1, <2>2, <2>3, <2>4
  <2> QED BY <2>4, <2>5 DEF Place, B
<1>3. ASSUME NEW e \in E, NEW h \in E, Place(E, e) = Place(E, h) PROVE e = h
  <2>1. SUFFICES ASSUME e # h PROVE FALSE
    OBVIOUS
  <2>2. Earlier(e, h) \/ Earlier(h, e)
    BY <2>1, EdgesOrdered
  <2>3. Place(E, e) < Place(E, h) \/ Place(E, h) < Place(E, e)
    BY <2>2, PlacesDiffer
  <2> QED BY <1>2, <1>3, <2>3
<1>4. \A e \in E : Sorted(E, Place(E, e)) = e
  BY <1>3 DEF Sorted
<1>5. ASSUME NEW n \in Nat, n < Cardinality(E) PROVE Sorted(E, n) \in E
  <2> DEFINE N == 0..(Cardinality(E) - 1)
             rank == [e \in E |-> Place(E, e)]
  <2>1. IsFiniteSet(N) /\ Cardinality(N) = Cardinality(E)
    <3>1. PICK m : m = Cardinality(E)
      OBVIOUS
    <3>2. m - 1 \in Int /\ 0 \in Int /\ ~(0 > m - 1) /\ (m - 1) - 0 + 1 = m
      BY <1>1, <1>5, <3>1
    <3>3. IsFiniteSet(0..(m - 1)) /\ Cardinality(0..(m - 1)) = m
      BY <3>2, FS_Interval
    <3> QED BY <3>1, <3>3
  <2>2. rank \in Injection(E, N)
    <3>1. \A e \in E : Place(E, e) \in N
      BY <1>1, <1>2
    <3> QED BY <1>3, <3>1 DEF Injection, IsInjective
  <2>3. rank \in Surjection(E, N)
    <3> HIDE DEF rank, N
    <3> QED BY <2>1, <2>2, FS_Injection
  <2>4. n \in N
    BY <1>1, <1>5
  <2>5. PICK e \in E : rank[e] = n
    <3> HIDE DEF rank, N
    <3> QED BY <2>3, <2>4 DEF Surjection
  <2> QED BY <2>5 DEF Sorted
<1> QED BY <1>1, <1>2, <1>4, <1>5

\* A graph that keeps jobs and upstreams of another keeps its paths.
Grown(g, h) == g.jobs \subseteq h.jobs /\ \A j \in Job : g.up[j] \subseteq h.up[j]
LEMMA PathsKept ==
    ASSUME NEW g \in Graphs, NEW h \in Graphs, Grown(g, h), NEW u, NEW d, HasPath(g, u, d)
    PROVE  HasPath(h, u, d)
<1>1. u \in h.jobs /\ d \in h.jobs
  BY DEF HasPath, Grown
<1>2. ASSUME NEW S \in SUBSET Job, u \in S, \A k \in Job : h.up[k] \cap S # {} => k \in S
      PROVE  d \in S
  <2>1. \A k \in Job : g.up[k] \cap S # {} => k \in S
    BY <1>2 DEF Grown
  <2> QED BY <1>2, <2>1 DEF HasPath, Reaches
<1> QED BY <1>1, <1>2 DEF HasPath, Reaches

\* Adding an edge between jobs of a graph keeps the graph, and gives the path.
LEMMA EdgeAdded ==
    ASSUME NEW g \in Graphs, NEW e \in g.jobs \X g.jobs
    PROVE  /\ AddEdge(g, e) \in Graphs /\ AddEdge(g, e).jobs = g.jobs /\ Grown(g, AddEdge(g, e))
           /\ HasPath(AddEdge(g, e), e[1], e[2])
<1>1. CASE HasPath(g, e[1], e[2])
  BY <1>1 DEF AddEdge, Grown
<1>2. CASE ~HasPath(g, e[1], e[2])
  <2> DEFINE h == [g EXCEPT !.up[e[2]] = @ \cup {e[1]}]
  <2>1. e[1] \in g.jobs /\ e[2] \in g.jobs /\ e[1] \in Job /\ e[2] \in Job
    BY DEF Graphs
  <2>2. h.jobs = g.jobs /\ h.up = [g.up EXCEPT ![e[2]] = @ \cup {e[1]}]
    BY DEF Graphs
  <2>3. h \in Graphs
    BY <2>1 DEF Graphs
  <2>4. Grown(g, h) /\ e[1] \in h.up[e[2]]
    BY <2>1, <2>2 DEF Grown, Graphs
  <2> HIDE DEF h
  <2>5. HasPath(h, e[1], e[2])
    BY <2>1, <2>2, <2>4 DEF HasPath, Reaches
  <2> QED BY <1>2, <2>2, <2>3, <2>4, <2>5 DEF AddEdge, h
<1> QED BY <1>1, <1>2

\* The merge of a proposal, an edge at a time.
Merges(m, g, E) ==
    /\ m[0] = g
    /\ \A n \in Nat \ {0} : m[n] = AddEdge(m[n - 1], Sorted(E, n - 1))
SafeEdges(g, f, T) == {e \in Missing(g, f, T) : SingleWriter(f, T, e)}
LEMMA MergeSteps ==
    ASSUME NEW g \in Graphs, NEW f, NEW T \in SUBSET Job
    PROVE  \E m : /\ Merges(m, [g EXCEPT !.jobs = @ \cup T], SafeEdges(g, f, T))
                  /\ Proposal(g, f, T) = m[Cardinality(SafeEdges(g, f, T))]
<1> DEFINE safe == {e \in Missing(g, f, T) : SingleWriter(f, T, e)}
           start == [g EXCEPT !.jobs = @ \cup T]
           B == Job \cup {Sorted(safe, n)[1] : n \in Nat}
           S == [jobs : SUBSET Job, up : [Job -> SUBSET B]]
           G == [n \in Nat |-> [h \in S |-> IF n = 0 THEN h ELSE AddEdge(h, Sorted(safe, n - 1))]]
           Upto(m) == m = [n \in Nat |-> IF n = 0 THEN start ELSE AddEdge(m[n - 1], Sorted(safe, n - 1))]
<1>1. G \in [Nat -> [S -> S]]
  <2>1. ASSUME NEW n \in Nat, NEW h \in S, n # 0 PROVE AddEdge(h, Sorted(safe, n - 1)) \in S
    <3>1. PICK e : e = Sorted(safe, n - 1)
      OBVIOUS
    <3>2. n - 1 \in Nat
      BY <2>1
    <3>3. e[1] \in B
      BY <3>1, <3>2
    <3> HIDE DEF B, safe
    <3>4. [h EXCEPT !.up[e[2]] = @ \cup {e[1]}] \in S
      BY <3>3
    <3>5. AddEdge(h, e) \in S
      BY <3>4 DEF AddEdge
    <3> QED BY <3>1, <3>5
  <2> HIDE DEF S
  <2> QED BY <2>1
<1>2. start \in S
  BY DEF Graphs
<1>3. \A n \in Nat \ {0} : \A h \in S : G[n][h] = AddEdge(h, Sorted(safe, n - 1))
  BY DEF G
<1> HIDE DEF G, S, B, start, safe
<1>4. PICK m \in [Nat -> S] : m[0] = start /\ \A n \in Nat \ {0} : m[n] = G[n][m[n - 1]]
  <2> DEFINE Made(SS, aa, GG) ==
               \E h \in [Nat -> SS] : h[0] = aa /\ \A n \in Nat \ {0} : h[n] = GG[n][h[n - 1]]
  <2>1. \A SS : \A aa \in SS : \A GG \in [Nat -> [SS -> SS]] : Made(SS, aa, GG)
    BY Recursion
  <2>2. Made(S, start, G)
    <3> HIDE DEF Made
    <3> QED BY <1>1, <1>2, <2>1
  <2> QED BY <2>2
<1>5. \A n \in Nat \ {0} : m[n] = AddEdge(m[n - 1], Sorted(safe, n - 1))
  <2> SUFFICES ASSUME NEW n \in Nat \ {0} PROVE m[n] = AddEdge(m[n - 1], Sorted(safe, n - 1))
    OBVIOUS
  <2>1. n - 1 \in Nat /\ m[n - 1] \in S
    OBVIOUS
  <2> QED BY <1>3, <1>4, <2>1
<1>6. Upto(m)
  BY <1>4, <1>5
<1> DEFINE k == CHOOSE h : Upto(h)
<1>7. Upto(k)
  <2> HIDE DEF Upto
  <2> QED BY <1>6
<1> HIDE DEF k
<1>8. k[0] = start /\ \A n \in Nat \ {0} : k[n] = AddEdge(k[n - 1], Sorted(safe, n - 1))
  BY <1>7
<1>9. Proposal(g, f, T) = k[Cardinality(safe)]
  BY DEF Proposal, k, safe, start
<1> QED BY <1>8, <1>9 DEF Merges, SafeEdges, safe, start

\* A proposal has the tasks, keeps the trusted graph, and orders what is safe to order.
LEMMA ProposalKeeps ==
    ASSUME NEW g \in Graphs, NEW f, NEW T \in SUBSET Job
    PROVE  /\ Proposal(g, f, T) \in Graphs /\ Grown(g, Proposal(g, f, T))
           /\ T \subseteq Proposal(g, f, T).jobs
           /\ \A e \in SafeEdges(g, f, T) : HasPath(Proposal(g, f, T), e[1], e[2])
<1> DEFINE E == SafeEdges(g, f, T)
           start == [g EXCEPT !.jobs = @ \cup T]
<1>1. PICK m : Merges(m, start, E) /\ Proposal(g, f, T) = m[Cardinality(E)]
  BY MergeSteps
<1>2. E \subseteq T \X T
  BY DEF SafeEdges, Missing, Edges, Candidate, Inferred, Graph
<1>3. start \in Graphs /\ start.jobs = g.jobs \cup T /\ start.up = g.up
  BY DEF Graphs
<1>4. IsFiniteSet(E)
  <2>1. IsFiniteSet(Job \X Job)
    BY ScheduleAssumption, FS_Product
  <2>2. E \in SUBSET (Job \X Job)
    BY <1>2
  <2> HIDE DEF E
  <2> QED BY <2>1, <2>2, FS_Subset
<1> HIDE DEF E, start
<1>5. /\ Cardinality(E) \in Nat
      /\ \A n \in Nat : n < Cardinality(E) => Sorted(E, n) \in E
      /\ \A e \in E : /\ Place(E, e) \in Nat /\ Place(E, e) < Cardinality(E)
                      /\ Sorted(E, Place(E, e)) = e
  <2>1. E \in SUBSET (Job \X Job)
    BY <1>2
  <2> QED BY <1>4, <2>1, SortedAll
<1> DEFINE Good(n) ==
      /\ m[n] \in Graphs /\ m[n].jobs = start.jobs /\ Grown(start, m[n])
      /\ \A e \in E : Place(E, e) < n => HasPath(m[n], e[1], e[2])
    P == {n \in Nat : n <= Cardinality(E) => Good(n)}
<1>6. 0 \in P
  <2>1. Good(0)
    <3>1. \A e \in E : ~(Place(E, e) < 0)
      BY <1>5
    <3> QED BY <1>1, <1>3, <3>1 DEF Merges, Grown
  <2> QED BY <2>1
<1>7. ASSUME NEW n \in P PROVE n + 1 \in P
  <2>1. SUFFICES ASSUME n + 1 <= Cardinality(E) PROVE Good(n + 1)
    OBVIOUS
  <2>2. n \in Nat /\ n < Cardinality(E) /\ n <= Cardinality(E)
    BY <1>5, <2>1
  <2>3. Good(n)
    BY <2>2
  <2>4. PICK e \in E : e = Sorted(E, n)
    BY <1>5, <2>2
  <2>5. PICK h : h = m[n]
    OBVIOUS
  <2>6. m[n + 1] = AddEdge(h, e)
    <3>1. n + 1 \in Nat \ {0} /\ (n + 1) - 1 = n
      BY <2>2
    <3> QED BY <1>1, <2>4, <2>5, <3>1 DEF Merges
  <2>7. h \in Graphs /\ h.jobs = start.jobs /\ Grown(start, h) /\ e \in h.jobs \X h.jobs
    BY <1>2, <1>3, <2>3, <2>5
  <2>8. PICK k : k = AddEdge(h, e)
    OBVIOUS
  <2>9. /\ k \in Graphs /\ k.jobs = h.jobs /\ Grown(h, k) /\ HasPath(k, e[1], e[2])
    BY <2>7, <2>8, EdgeAdded
  <2>10. Grown(start, k) /\ k.jobs = start.jobs
    BY <2>7, <2>9 DEF Grown
  <2>11. ASSUME NEW d \in E, Place(E, d) < n + 1 PROVE HasPath(k, d[1], d[2])
    <3>1. Place(E, d) < n \/ Place(E, d) = n
      BY <1>5, <2>2, <2>11
    <3>2. CASE Place(E, d) < n
      <4>1. HasPath(h, d[1], d[2])
        BY <2>3, <2>5, <3>2
      <4> QED BY <2>7, <2>9, <4>1, PathsKept
    <3>3. CASE Place(E, d) = n
      <4>1. d = e
        BY <1>5, <2>4, <3>3
      <4> QED BY <2>9, <4>1
    <3> QED BY <3>1, <3>2, <3>3
  <2> QED BY <2>6, <2>8, <2>9, <2>10, <2>11
<1>8. P = Nat
  <2>1. P \in SUBSET Nat
    OBVIOUS
  <2> HIDE DEF P
  <2> QED BY <1>6, <1>7, <2>1, Induction
<1>9. Good(Cardinality(E))
  <2>1. Cardinality(E) \in P /\ Cardinality(E) <= Cardinality(E)
    BY <1>5, <1>8
  <2> QED BY <2>1
<1>10. PICK p : p = Proposal(g, f, T)
  OBVIOUS
<1>11. /\ p \in Graphs /\ p.jobs = g.jobs \cup T /\ Grown(start, p)
       /\ \A e \in E : HasPath(p, e[1], e[2])
  BY <1>1, <1>3, <1>5, <1>9, <1>10
<1>12. Grown(g, p)
  BY <1>3, <1>11 DEF Grown
<1> QED BY <1>10, <1>11, <1>12 DEF E

-----------------------------------------------------------------------------
(* What each command has found, and what the file is meanwhile.            *)

\* The graph a command starts from when it has hashed this file.
Trusted(base) == IF base = NoFile THEN Graph({}, NoEdges) ELSE base
Merging(r) == r.at \in {"hashed", "loaded", "read", "proposed"}

\* Every task is there, and after the only writer of what it reads.
Ordered(f, T, h) ==
    /\ T \subseteq h.jobs
    /\ \A u, d \in T : \A x \in f.reads[d] \ (f.writes[d] \cup f.temporary) :
          Writers(f, T, x) = {u} =>
              \/ HasPath(h, u, d)
              \/ \E y \in Inputs(f, d) : u \in Writers(f, T, y) /\ Writers(f, T, y) # {u}

CommandTypeOK(r) ==
    /\ r.at \in {"idle", "hashed", "loaded", "read", "proposed", "checked", "generating"}
    /\ r.at \in {"loaded", "read"} => r.trusted \in Graphs
    /\ r.at \in {"read", "generating"} => r.facts \in Facts
    /\ r.at \in {"proposed", "checked"} => r.proposal \in Graphs
    /\ Merging(r) => r.force = FALSE
    /\ r.at = "generating" => r.base = NoFile
    /\ r.at = "proposed" =>
         r = [at |-> "proposed", base |-> r.base, force |-> FALSE,
              facts |-> r.facts, tasks |-> r.tasks, proposal |-> r.proposal]
ScheduleTypeOK ==
    /\ file \in {NoFile} \cup Graphs /\ facts \in Facts /\ tasks \in SUBSET Job
    /\ cmd = [c \in Cmd |-> cmd[c]] /\ \A c \in Cmd : CommandTypeOK(cmd[c])

\* As long as the file, now, is what the command has hashed, it has read just that, and
\* what it proposes keeps it.
Founded(r, now) ==
    /\ r.at \in {"loaded", "read"} /\ now = r.base => r.trusted = Trusted(r.base)
    /\ r.at = "checked" /\ ~r.force => now = r.base
    /\ r.at = "proposed" \/ (r.at = "checked" /\ ~r.force) =>
         IsDag(r.proposal) /\ (now = r.base /\ now # NoFile => Grown(now, r.proposal))
\* What it proposes puts readers after writers.
Proposed(r) ==
    r.at = "proposed" \/ (r.at = "checked" /\ ~r.force) => Ordered(r.facts, r.tasks, r.proposal)

OrderInv == ScheduleTypeOK /\ \A c \in Cmd : Proposed(cmd[c])
MergeInv == ScheduleTypeOK /\ \A c \in Cmd : Founded(cmd[c], file)

\* A command that leaves the file alone changes what is known of itself only.
LEMMA OwnStep ==
    ASSUME ScheduleTypeOK, NEW c \in Cmd, NEW r, Set(c, r), UNCHANGED file, CommandTypeOK(r)
    PROVE  /\ ScheduleTypeOK'
           /\ OrderInv /\ Proposed(r) => OrderInv'
           /\ MergeInv /\ Founded(r, file) => MergeInv'
<1>1. /\ cmd'[c] = r /\ \A d \in Cmd \ {c} : cmd'[d] = cmd[d]
      /\ cmd' = [d \in Cmd |-> cmd'[d]]
  BY DEF Set, ScheduleTypeOK
<1>2. ScheduleTypeOK'
  <2>1. \A d \in Cmd : CommandTypeOK(cmd'[d])
    BY <1>1 DEF ScheduleTypeOK
  <2> QED BY <1>1, <2>1 DEF ScheduleTypeOK, Set
<1>3. ASSUME OrderInv, Proposed(r) PROVE OrderInv'
  <2>1. \A d \in Cmd : Proposed(cmd'[d])
    BY <1>1, <1>3 DEF OrderInv
  <2> QED BY <1>2, <2>1 DEF OrderInv
<1>4. ASSUME MergeInv, Founded(r, file) PROVE MergeInv'
  <2>1. \A d \in Cmd : Founded(cmd'[d], file')
    BY <1>1, <1>4 DEF MergeInv
  <2> QED BY <1>2, <2>1 DEF MergeInv
<1> QED BY <1>2, <1>3, <1>4

LEMMA IdleAgain == ASSUME NEW now PROVE CommandTypeOK(Idle) /\ Proposed(Idle) /\ Founded(Idle, now)
BY DEF Idle, CommandTypeOK, Proposed, Founded, Merging

\* What is inferred, when nothing is wrong with it, has every reader after its writer.
LEMMA InferredOrders ==
    ASSUME NEW f \in Facts, NEW T \in SUBSET f.jobs, ~InferenceErrors(f, T)
    PROVE  /\ Candidate(f, T) \in Graphs /\ IsDag(Candidate(f, T)) /\ Ordered(f, T, Candidate(f, T))
           /\ \A g \in Graphs : Ordered(f, T, Proposal(g, f, T))
<1>1. T \in SUBSET Job
  BY ScheduleAssumption
<1>2. PICK k : k = Candidate(f, T)
  OBVIOUS
<1>3. k = Inferred(f, T) /\ IsDag(k)
  BY <1>2 DEF InferenceErrors, Candidate
<1>4. /\ k.jobs = T
      /\ k.up = [d \in Job |-> IF d \in T THEN {u \in T : Evidence(f, T, u, d) # {}} ELSE {}]
  BY <1>3 DEF Inferred, Graph
<1>5. k \in Graphs
  BY <1>1, <1>3 DEF Graphs, Inferred, Graph
<1>6. ASSUME NEW u \in T, NEW d \in T, NEW x \in f.reads[d] \ (f.writes[d] \cup f.temporary),
             Writers(f, T, x) = {u}
      PROVE  <<u, d>> \in Edges(k) /\ x \in Evidence(f, T, u, d)
  <2>1. x \in Evidence(f, T, u, d)
    BY <1>6 DEF Evidence, Inputs
  <2> QED BY <1>1, <1>4, <1>6, <2>1 DEF Edges
<1>7. Ordered(f, T, k)
  <2>1. \A e \in Edges(k) : HasPath(k, e[1], e[2])
    BY <1>1, <1>4 DEF Edges, HasPath, Reaches
  <2>2. ASSUME NEW u \in T, NEW d \in T, <<u, d>> \in Edges(k) PROVE HasPath(k, u, d)
    BY <2>1, <2>2
  <2> QED BY <1>4, <1>6, <2>2 DEF Ordered
<1>8. ASSUME NEW g \in Graphs PROVE Ordered(f, T, Proposal(g, f, T))
  <2>1. PICK p : p = Proposal(g, f, T)
    OBVIOUS
  <2>2. /\ p \in Graphs /\ Grown(g, p) /\ T \subseteq p.jobs
        /\ \A e \in SafeEdges(g, f, T) : HasPath(p, e[1], e[2])
    BY <1>1, <2>1, ProposalKeeps
  <2>3. ASSUME NEW u \in T, NEW d \in T, NEW x \in f.reads[d] \ (f.writes[d] \cup f.temporary),
               Writers(f, T, x) = {u}, ~HasPath(p, u, d)
        PROVE  \E y \in Inputs(f, d) : u \in Writers(f, T, y) /\ Writers(f, T, y) # {u}
    <3>1. <<u, d>> \in Edges(k)
      BY <1>6, <2>3
    <3>2. ~HasPath(g, u, d)
      BY <2>2, <2>3, PathsKept
    <3>3. <<u, d>> \in Missing(g, f, T)
      BY <1>2, <3>1, <3>2 DEF Missing
    <3>4. <<u, d>> \notin SafeEdges(g, f, T)
      BY <2>2, <2>3
    <3>5. MultipleWriterInput(f, T, u, d)
      BY <3>3, <3>4 DEF SafeEdges, SingleWriter
    <3> QED BY <3>5 DEF MultipleWriterInput, Evidence
  <2> QED BY <2>1, <2>2, <2>3 DEF Ordered
<1> QED BY <1>2, <1>3, <1>5, <1>7, <1>8

\* Every step of a command but the last leaves the file alone.
LEMMA CommandChange ==
    ASSUME ScheduleTypeOK, NEW c \in Cmd, CommandStep(c), ~Save(c)
    PROVE  \E r : /\ Set(c, r) /\ UNCHANGED file /\ CommandTypeOK(r)
                  /\ OrderInv => Proposed(r)
                  /\ MergeInv => Founded(r, file)
<1> DEFINE Fits(r) == /\ Set(c, r) /\ UNCHANGED file /\ CommandTypeOK(r)
                      /\ OrderInv => Proposed(r)
                      /\ MergeInv => Founded(r, file)
<1> SUFFICES \E r : Fits(r)
  OBVIOUS
<1>1. CommandTypeOK(cmd[c]) /\ file \in {NoFile} \cup Graphs /\ facts \in Facts /\ tasks \in SUBSET Job
  BY DEF ScheduleTypeOK
<1>2. ASSUME Ends(c) PROVE Fits(Idle)
  BY <1>2, IdleAgain DEF Ends
<1>3. CASE Hash(c)
  <2> DEFINE r == [at |-> "hashed", base |-> file, force |-> FALSE]
  <2>1. CommandTypeOK(r) /\ Proposed(r) /\ Founded(r, file)
    BY DEF CommandTypeOK, Proposed, Founded, Merging
  <2> QED BY <1>3, <2>1 DEF Hash
<1>4. CASE LoadTrusted(c)
  <2> DEFINE g == IF file = NoFile THEN Graph({}, NoEdges) ELSE file
             r == [at |-> "loaded", base |-> cmd[c].base, force |-> FALSE, trusted |-> g]
  <2>1. g \in Graphs /\ (file = cmd[c].base => g = Trusted(cmd[c].base))
    BY <1>1 DEF Graphs, Graph, NoEdges, Trusted
  <2> HIDE DEF g
  <2>2. CommandTypeOK(r) /\ Proposed(r) /\ Founded(r, file)
    BY <2>1 DEF CommandTypeOK, Proposed, Founded, Merging
  <2>3. Set(c, r) /\ UNCHANGED file
    BY <1>4 DEF LoadTrusted, g
  <2> QED BY <2>2, <2>3
<1>5. CASE ReadLineage(c)
  <2> DEFINE r == [at |-> "read", base |-> cmd[c].base, force |-> FALSE,
                   trusted |-> cmd[c].trusted, facts |-> facts]
  <2>1. cmd[c].at = "loaded" /\ Set(c, r) /\ UNCHANGED file
    BY <1>5 DEF ReadLineage
  <2>2. CommandTypeOK(r) /\ Proposed(r)
    BY <1>1, <2>1 DEF CommandTypeOK, Proposed, Merging
  <2>3. MergeInv => Founded(r, file)
    BY <2>1 DEF MergeInv, Founded
  <2> QED BY <2>1, <2>2, <2>3
<1>6. CASE Propose(c)
  <2> DEFINE o == cmd[c]
             p == Proposal(o.trusted, o.facts, tasks)
             r == [at |-> "proposed", base |-> o.base, force |-> FALSE,
                   facts |-> o.facts, tasks |-> tasks, proposal |-> p]
  <2>1. CASE Ends(c)
    BY <1>2, <2>1
  <2>2. CASE ~Ends(c)
    <3>1. /\ o.at = "read" /\ Set(c, r) /\ UNCHANGED file
          /\ tasks \subseteq o.facts.jobs /\ IsDag(p) /\ ~Blocking(o.trusted, o.facts, tasks)
      BY <1>6, <2>2 DEF Propose
    <3>2. o.trusted \in Graphs /\ o.facts \in Facts
      BY <1>1, <3>1 DEF CommandTypeOK
    <3>3. p \in Graphs /\ Grown(o.trusted, p)
      BY <1>1, <3>2, ProposalKeeps
    <3>4. Ordered(o.facts, tasks, p)
      <4>1. ~InferenceErrors(o.facts, tasks)
        BY <3>1 DEF Blocking
      <4> QED BY <3>1, <3>2, <4>1, InferredOrders
    <3>5. MergeInv /\ file = o.base => o.trusted = Trusted(o.base)
      BY <3>1 DEF MergeInv, Founded
    <3> HIDE DEF p
    <3>6. CommandTypeOK(r) /\ Proposed(r)
      BY <3>3, <3>4 DEF CommandTypeOK, Proposed, Merging
    <3>7. MergeInv => Founded(r, file)
      BY <3>1, <3>3, <3>5 DEF Founded, Trusted
    <3> QED BY <3>1, <3>6, <3>7
  <2> QED BY <2>1, <2>2
<1>7. CASE Recheck(c)
  <2> DEFINE o == cmd[c]
             r == [o EXCEPT !.at = "checked"]
  <2>1. CASE Ends(c)
    BY <1>2, <2>1
  <2>2. CASE ~Ends(c)
    <3>1. o.at = "proposed" /\ file = o.base /\ Set(c, r) /\ UNCHANGED file
      BY <1>7, <2>2 DEF Recheck
    <3>2. DOMAIN o = {"at", "base", "force", "facts", "tasks", "proposal"} /\ o.force = FALSE
      BY <1>1, <3>1 DEF CommandTypeOK, Merging
    <3>3. /\ r.at = "checked" /\ r.base = o.base /\ r.force = o.force
          /\ r.facts = o.facts /\ r.tasks = o.tasks /\ r.proposal = o.proposal
      BY <3>2
    <3> HIDE DEF r
    <3>4. o.proposal \in Graphs
      BY <1>1, <3>1 DEF CommandTypeOK
    <3>5. CommandTypeOK(r)
      BY <3>3, <3>4 DEF CommandTypeOK, Merging
    <3>6. OrderInv => Proposed(r)
      BY <3>1, <3>3 DEF OrderInv, Proposed
    <3>7. MergeInv => Founded(r, file)
      BY <3>1, <3>3 DEF MergeInv, Founded
    <3> QED BY <3>1, <3>5, <3>6, <3>7
  <2> QED BY <2>1, <2>2
<1>8. CASE \E force \in BOOLEAN : GenerateReads(c, force)
  <2>1. PICK force \in BOOLEAN : GenerateReads(c, force)
    BY <1>8
  <2> DEFINE r == [at |-> "generating", base |-> NoFile, force |-> force, facts |-> facts]
  <2>2. CommandTypeOK(r) /\ Proposed(r) /\ Founded(r, file)
    BY <1>1 DEF CommandTypeOK, Proposed, Founded, Merging
  <2> QED BY <2>1, <2>2 DEF GenerateReads
<1>9. CASE Generate(c)
  <2> DEFINE o == cmd[c]
             k == Candidate(o.facts, tasks)
             r == [at |-> "checked", base |-> NoFile, force |-> o.force, facts |-> o.facts,
                   tasks |-> tasks, proposal |-> k]
  <2>1. CASE Ends(c)
    BY <1>2, <2>1
  <2>2. CASE ~Ends(c)
    <3>1. /\ o.at = "generating" /\ Set(c, r) /\ UNCHANGED file
          /\ tasks \subseteq o.facts.jobs /\ (o.force \/ file = NoFile) /\ ~InferenceErrors(o.facts, tasks)
      BY <1>9, <2>2 DEF Generate
    <3>2. o.facts \in Facts
      BY <1>1, <3>1 DEF CommandTypeOK
    <3>3. k \in Graphs /\ IsDag(k) /\ Ordered(o.facts, tasks, k)
      BY <3>1, <3>2, InferredOrders
    <3> HIDE DEF k
    <3>4. CommandTypeOK(r) /\ Proposed(r) /\ Founded(r, file)
      BY <3>1, <3>3 DEF CommandTypeOK, Proposed, Founded, Merging
    <3> QED BY <3>1, <3>4
  <2> QED BY <2>1, <2>2
<1>10. CASE Stop(c)
  BY <1>2, <1>10 DEF Stop
<1> HIDE DEF Fits
<1> QED BY <1>3, <1>4, <1>5, <1>6, <1>7, <1>8, <1>9, <1>10 DEF CommandStep

\* Who replaces the file disturbs nobody that is at work.
LEMMA Rewritten ==
    ASSUME NEW r, NEW now, NEW g, CommandTypeOK(r), Founded(r, now),
           r.at # "idle" => r.at # "checked" /\ (r.force \/ g = now \/ g # r.base)
    PROVE  Founded(r, g)
BY DEF CommandTypeOK, Founded, Merging

LEMMA SaveStep ==
    ASSUME ScheduleTypeOK, NEW c \in Cmd, Save(c)
    PROVE  /\ ScheduleTypeOK' /\ file' = cmd[c].proposal
           /\ OrderInv => OrderInv'
           /\ MergeInv /\ Careful => MergeInv'
<1>1. /\ cmd'[c] = Idle /\ \A d \in Cmd \ {c} : cmd'[d] = cmd[d]
      /\ cmd' = [d \in Cmd |-> cmd'[d]]
      /\ file' = cmd[c].proposal /\ cmd[c].at = "checked" /\ facts' = facts /\ tasks' = tasks
  BY DEF Save, Set, ScheduleTypeOK
<1>2. ScheduleTypeOK'
  <2>1. \A d \in Cmd : CommandTypeOK(cmd'[d])
    BY <1>1, IdleAgain DEF ScheduleTypeOK
  <2>2. file' \in Graphs
    BY <1>1 DEF ScheduleTypeOK, CommandTypeOK
  <2> QED BY <1>1, <2>1, <2>2 DEF ScheduleTypeOK
<1>3. ASSUME OrderInv PROVE OrderInv'
  <2>1. \A d \in Cmd : Proposed(cmd'[d])
    BY <1>1, <1>3, IdleAgain DEF OrderInv
  <2> QED BY <1>2, <2>1 DEF OrderInv
<1>4. ASSUME MergeInv, Careful PROVE MergeInv'
  <2>1. ASSUME NEW d \in Cmd \ {c} PROVE Founded(cmd[d], file')
    <3>1. cmd[d].at # "idle" =>
            cmd[d].at # "checked" /\ (cmd[d].force \/ file' = file \/ file' # cmd[d].base)
      BY <1>1, <1>4 DEF Save, Undisturbed, Busy
    <3>2. CommandTypeOK(cmd[d]) /\ Founded(cmd[d], file)
      BY <1>4 DEF MergeInv, ScheduleTypeOK
    <3> QED BY <3>1, <3>2, Rewritten
  <2>2. \A d \in Cmd : Founded(cmd'[d], file')
    BY <1>1, <2>1, IdleAgain
  <2> QED BY <1>2, <2>2 DEF MergeInv
<1> QED BY <1>1, <1>2, <1>3, <1>4

LEMMA PeopleStep ==
    ASSUME ScheduleTypeOK, UNCHANGED cmd,
           \/ \E g \in Written : EditFile(g)
           \/ \E f \in Facts : Refresh(f) \/ EditTasks(f.jobs)
    PROVE  /\ ScheduleTypeOK'
           /\ OrderInv => OrderInv'
           /\ MergeInv /\ Careful => MergeInv'
<1>1. ScheduleTypeOK'
  BY ScheduleAssumption DEF ScheduleTypeOK, EditFile, Refresh, EditTasks
<1>2. OrderInv => OrderInv'
  BY <1>1 DEF OrderInv
<1>3. ASSUME MergeInv, Careful PROVE MergeInv'
  <2>1. ASSUME NEW d \in Cmd PROVE Founded(cmd[d], file')
    <3>1. CommandTypeOK(cmd[d]) /\ Founded(cmd[d], file)
      BY <1>3 DEF MergeInv, ScheduleTypeOK
    <3>2. CASE UNCHANGED file
      BY <3>1, <3>2
    <3>3. CASE \E g \in Written : EditFile(g)
      <4>1. PICK g \in Written : EditFile(g)
        BY <3>3
      <4>2. Undisturbed(Cmd, g) /\ file' = g
        BY <4>1 DEF EditFile
      <4>3. cmd[d].at # "idle" =>
              cmd[d].at # "checked" /\ (cmd[d].force \/ g = file \/ g # cmd[d].base)
        BY <1>3, <4>2 DEF Undisturbed, Busy
      <4> QED BY <3>1, <4>2, <4>3, Rewritten
    <3> QED BY <3>2, <3>3 DEF Refresh, EditTasks
  <2> QED BY <1>1, <2>1 DEF MergeInv
<1> QED BY <1>1, <1>2, <1>3

LEMMA ScheduleStep ==
    ASSUME ScheduleTypeOK, [ScheduleNext]_scheduleVars
    PROVE  /\ ScheduleTypeOK'
           /\ OrderInv => OrderInv'
           /\ MergeInv /\ Careful => MergeInv'
<1>1. ASSUME NEW c \in Cmd, CommandStep(c), ~Save(c)
      PROVE  ScheduleTypeOK' /\ (OrderInv => OrderInv') /\ (MergeInv => MergeInv')
  <2>1. PICK r : /\ Set(c, r) /\ UNCHANGED file /\ CommandTypeOK(r)
                 /\ OrderInv => Proposed(r)
                 /\ MergeInv => Founded(r, file)
    BY <1>1, CommandChange
  <2> QED BY <2>1, OwnStep
<1>2. CASE UNCHANGED scheduleVars
  BY <1>2 DEF scheduleVars, ScheduleTypeOK, OrderInv, MergeInv
<1>3. CASE \E g \in Written : EditFile(g)
  BY <1>3, PeopleStep DEF EditFile
<1>4. CASE \E f \in Facts : Refresh(f) \/ EditTasks(f.jobs)
  BY <1>4, PeopleStep DEF Refresh, EditTasks
<1> QED BY <1>1, <1>2, <1>3, <1>4, SaveStep DEF ScheduleNext

LEMMA ScheduleStarts == ScheduleInit => OrderInv /\ MergeInv
<1> SUFFICES ASSUME ScheduleInit PROVE OrderInv /\ MergeInv
  OBVIOUS
<1>1. \A c \in Cmd : cmd[c] = Idle
  BY DEF ScheduleInit
<1>2. ScheduleTypeOK
  BY <1>1, IdleAgain, ScheduleAssumption DEF ScheduleInit, ScheduleTypeOK
<1> QED BY <1>1, <1>2, IdleAgain DEF OrderInv, MergeInv

\* Only a command that saves ends where it has written something else.
LEMMA WhoSaves ==
    ASSUME ScheduleTypeOK, ScheduleNext, NEW c \in Cmd, Saved(c)
    PROVE  Save(c)
<1>1. cmd[c].at = "checked" /\ cmd'[c].at = "idle" /\ file' # file
  BY DEF Saved, Idle
<1>2. ~UNCHANGED cmd
  BY <1>1
<1>3. PICK d \in Cmd : CommandStep(d)
  BY <1>2 DEF ScheduleNext, EditFile, Refresh, EditTasks
<1>4. Save(d)
  BY <1>1, <1>3, CommandChange
<1>5. d = c
  <2>1. d # c => cmd'[c] = cmd[c]
    BY <1>4 DEF Save, Set, ScheduleTypeOK
  <2> QED BY <1>1, <2>1
<1> QED BY <1>4, <1>5

\* A command that is not forced adds to the file that it replaces and loses no order,
\* if people and other commands leave the file alone between its last look and its write.
THEOREM OrderNeverLost == ASSUME Careful PROVE ScheduleSpec => OrdersKept
<1>1. ScheduleInit => MergeInv
  BY ScheduleStarts
<1>2. MergeInv /\ [ScheduleNext]_scheduleVars => MergeInv'
  BY ScheduleStep DEF MergeInv
<1> DEFINE Keeps(c) ==
      Saved(c) => /\ IsDag(file')
                  /\ file # NoFile => /\ file.jobs \subseteq file'.jobs
                                      /\ \A u, d \in file.jobs : HasPath(file, u, d) => HasPath(file', u, d)
<1>3. MergeInv /\ [ScheduleNext]_scheduleVars => [\A c \in Cmd : Keeps(c)]_scheduleVars
  <2> SUFFICES ASSUME MergeInv, ScheduleNext, NEW c \in Cmd, Saved(c)
               PROVE  /\ IsDag(file')
                      /\ file # NoFile => /\ file.jobs \subseteq file'.jobs
                                          /\ \A u, d \in file.jobs : HasPath(file, u, d) => HasPath(file', u, d)
    OBVIOUS
  <2>1. ScheduleTypeOK /\ Founded(cmd[c], file) /\ CommandTypeOK(cmd[c])
    BY DEF MergeInv, ScheduleTypeOK
  <2>2. Save(c)
    BY <2>1, WhoSaves
  <2>3. PICK p : p = cmd[c].proposal /\ p = file'
    BY <2>2 DEF Save
  <2>4. p \in Graphs /\ IsDag(p) /\ (file # NoFile => Grown(file, p))
    BY <2>1, <2>3 DEF Saved, Founded, CommandTypeOK
  <2>5. IsDag(file')
    BY <2>3, <2>4
  <2>6. ASSUME file # NoFile
        PROVE  /\ file.jobs \subseteq p.jobs
               /\ \A u, d \in file.jobs : HasPath(file, u, d) => HasPath(p, u, d)
    <3>1. file \in Graphs
      BY <2>1, <2>6 DEF ScheduleTypeOK
    <3> QED BY <2>4, <2>6, <3>1, PathsKept DEF Grown
  <2> QED BY <2>3, <2>5, <2>6
<1>4. ScheduleSpec => [][\A c \in Cmd : Keeps(c)]_scheduleVars
  <2> HIDE DEF Keeps
  <2> QED BY <1>1, <1>2, <1>3, PTL DEF ScheduleSpec
<1> QED BY <1>4 DEF OrdersKept

\* What a command writes schedules every task, and readers after their only writers,
\* whatever people and other commands do.
THEOREM WritersFirst == ScheduleSpec => ReadersOrdered
<1>1. ScheduleInit => OrderInv
  BY ScheduleStarts
<1>2. OrderInv /\ [ScheduleNext]_scheduleVars => OrderInv'
  BY ScheduleStep DEF OrderInv
<1> DEFINE Orders(c) == Saved(c) => Ordered(cmd[c].facts, cmd[c].tasks, file')
<1>3. OrderInv /\ [ScheduleNext]_scheduleVars => [\A c \in Cmd : Orders(c)]_scheduleVars
  <2> SUFFICES ASSUME OrderInv, ScheduleNext, NEW c \in Cmd, Saved(c)
               PROVE  Ordered(cmd[c].facts, cmd[c].tasks, file')
    OBVIOUS
  <2>1. ScheduleTypeOK /\ Proposed(cmd[c])
    BY DEF OrderInv
  <2>2. Save(c)
    BY <2>1, WhoSaves
  <2>3. file' = cmd[c].proposal
    BY <2>2 DEF Save
  <2> QED BY <2>1, <2>3 DEF Saved, Proposed
<1>4. ScheduleSpec => [][\A c \in Cmd : Orders(c)]_scheduleVars
  <2> HIDE DEF Orders
  <2> QED BY <1>1, <1>2, <1>3, PTL DEF ScheduleSpec
<1> QED BY <1>4 DEF ReadersOrdered, Ordered
=============================================================================
