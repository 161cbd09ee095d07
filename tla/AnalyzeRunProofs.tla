--------------------------- MODULE AnalyzeRunProofs ---------------------------
(***************************************************************************)
(* The plan of any request, over any jobs, tables, periods and schedule;   *)
(* what a resolution and a walk give, for any tables, contents, lineage,   *)
(* declarations and older runs.  An analysis is a resolution with a walk,  *)
(* and the building of a plan; neither disturbs the other, so what is      *)
(* proved of each holds of it, and of the verdicts on its plans.           *)
(*                                                                         *)
(* Last, beside them, the change of the DDL files that the plan takes to   *)
(* the database (SchemaChanges): any old and new catalogs over any names.  *)
(***************************************************************************)
EXTENDS Verdict, SchemaChanges, RecursionProofs, FiniteSetTheorems,
        SequenceTheorems, TLAPS

-----------------------------------------------------------------------------
(* Reaching *)

\* Every job reaches itself.
LEMMA ReachesItself == ASSUME NEW up, NEW a \in Job PROVE Reaches(up, a, a)
BY DEF Reaches

\* What reaches an upstream of k reaches k.
LEMMA ReachesOn ==
    ASSUME NEW up, NEW a \in Job, NEW u \in Job, NEW k \in Job,
           Reaches(up, a, u), u \in up[k]
    PROVE  Reaches(up, a, k)
BY DEF Reaches

\* An upstream of k reaches what k reaches.
LEMMA ReachesFrom ==
    ASSUME NEW up, NEW u \in Job, NEW k \in Job, NEW f \in Job,
           u \in up[k], Reaches(up, k, f)
    PROVE  Reaches(up, u, f)
<1> SUFFICES ASSUME NEW S \in SUBSET Job, u \in S, \A j \in Job : up[j] \cap S # {} => j \in S
             PROVE  f \in S
  BY DEF Reaches
<1>1. k \in S
  OBVIOUS
<1> QED BY <1>1 DEF Reaches

\* A path through selected jobs only is a path of the selected graph.
LEMMA SelectedPath ==
    ASSUME NEW sched \in [Job -> SUBSET Job], NEW Sel \in SUBSET Job,
           NEW a \in Job, NEW b \in Job, NEW f \in Job,
           Reaches(sched, a, b), Reaches(sched, b, f),
           \A j \in Job : Reaches(sched, a, j) /\ Reaches(sched, j, f) => j \in Sel
    PROVE  Reaches([j \in Job |-> IF j \in Sel THEN sched[j] \cap Sel ELSE {}], a, b)
<1> DEFINE d == [j \in Job |-> IF j \in Sel THEN sched[j] \cap Sel ELSE {}]
<1> SUFFICES ASSUME NEW S \in SUBSET Job, a \in S, \A k \in Job : d[k] \cap S # {} => k \in S
             PROVE  b \in S
  BY DEF Reaches
<1> DEFINE T == {j \in Job : Reaches(sched, a, j) /\ (Reaches(sched, j, f) => j \in S)}
<1>1. a \in T
  BY ReachesItself
<1>2. ASSUME NEW k \in Job, sched[k] \cap T # {}
      PROVE  k \in T
  <2>1. PICK u \in T : u \in sched[k]
    BY <1>2
  <2>2. u \in Job /\ Reaches(sched, a, k)
    BY <2>1, ReachesOn
  <2>3. ASSUME Reaches(sched, k, f)
        PROVE  k \in S
    <3>1. Reaches(sched, u, f)
      BY <2>1, <2>2, <2>3, ReachesFrom
    <3>2. u \in S /\ u \in Sel /\ k \in Sel
      BY <2>1, <2>2, <2>3, <3>1
    <3>3. u \in d[k]
      BY <2>1, <3>2
    <3> QED BY <3>2, <3>3
  <2> QED BY <2>2, <2>3
<1>3. b \in T
  <2>1. T \in SUBSET Job
    OBVIOUS
  <2> HIDE DEF T
  <2> QED BY <1>1, <1>2, <2>1 DEF Reaches
<1> QED BY <1>3

-----------------------------------------------------------------------------
(* Types *)

LEMMA SelectedJobs == ASSUME NEW r \in Request PROVE Selected(r) \in SUBSET Job
BY DEF Selected, Initial, DirectJobs, FinalWriters, Entries, Producers, RescheduledJobs,
       Below, Above, Request

LEMMA CutSlices ==
    ASSUME PlanAssumption, NEW t \in Table, NEW w
    PROVE  Cut(t, w) \in SUBSET SUBSET Time /\ Cut(t, w) \subseteq Slices[t]
BY DEF Cut, PlanAssumption

LEMMA OnwardEntries ==
    ASSUME PlanAssumption, request \in Request, NEW t \in Table, NEW w \in SUBSET Time
    PROVE  Onward(t, w) \subseteq Entry
<1>1. request.lineage[t] \subseteq Table
  BY DEF Request
<1>2. (IF Sliced(t) THEN Cut(t, w) ELSE {w}) \subseteq SUBSET Time
  BY CutSlices
<1> QED BY <1>1, <1>2 DEF Onward, Entry

\* Type correctness: a planned job is a job, a queued window a set of instants of
\* a table.
THEOREM PlanTypeCorrect == PlanSpec => []PlanTypeOK
<1> USE PlanAssumption
<1>1. PlanInit => PlanTypeOK
  BY DEF PlanInit, PlanTypeOK, Unassigned, Entry
<1>2. PlanTypeOK /\ [PlanNext]_planVars => PlanTypeOK'
  <2> SUFFICES ASSUME PlanTypeOK, [PlanNext]_planVars PROVE PlanTypeOK'
    OBVIOUS
  <2>1. ASSUME NEW r \in Request, Take(r) PROVE PlanTypeOK'
    BY <2>1 DEF Take, PlanTypeOK
  <2>2. CASE SelectJobs
    <3> DEFINE S == Selected(request)
    <3>1. request \in Request /\ S \in SUBSET Job
      BY <2>2, SelectedJobs DEF SelectJobs, PlanTypeOK
    <3>2. jobs' = S /\ deps' = [j \in Job |-> IF j \in S THEN request.schedule[j] \cap S ELSE {}]
      BY <2>2 DEF SelectJobs
    <3>3. AnchorWindows(request) \subseteq Entry
      BY <3>1 DEF AnchorWindows, Entry, Request
    <3>4. Unscheduled(request) \in BOOLEAN
      BY DEF Unscheduled
    <3>5. deps' \in [Job -> SUBSET Job]
      <4> HIDE DEF S
      <4> QED BY <3>1, <3>2
    <3> QED BY <2>2, <3>1, <3>2, <3>3, <3>4, <3>5 DEF SelectJobs, PlanTypeOK
  <2>3. CASE Raise
    BY <2>3 DEF Raise, PlanTypeOK
  <2>4. CASE Pop
    <3>1. PICK e \in queue : e = CHOOSE q \in queue : TRUE
      BY <2>4 DEF Pop
    <3>2. e[1] \in Table /\ e[2] \in SUBSET Time /\ request \in Request
      BY <2>4, <3>1 DEF Pop, PlanTypeOK, Entry
    <3>3. visited' = visited \cup {e} /\ queue' = (queue \cup Onward(e[1], e[2])) \ visited'
      BY <2>4, <3>1 DEF Pop
    <3>4. visited' \subseteq Entry /\ queue' \subseteq Entry
      BY <3>1, <3>2, <3>3, OnwardEntries DEF PlanTypeOK
    <3>5. assigned' \in [Table -> SUBSET SUBSET Time]
      <4>1. Cut(e[1], e[2]) \in SUBSET SUBSET Time
        BY <3>2, CutSlices
      <4>2. \/ assigned' = assigned
            \/ assigned' = [assigned EXCEPT ![e[1]] = @ \cup Cut(e[1], e[2])]
        BY <2>4, <3>1 DEF Pop
      <4> QED BY <3>2, <4>1, <4>2 DEF PlanTypeOK
    <3> QED BY <2>4, <3>4, <3>5 DEF Pop, PlanTypeOK
  <2>5. CASE Finish
    BY <2>5 DEF Finish, PlanTypeOK
  <2>6. CASE Leave
    BY <2>6 DEF Leave, PlanTypeOK, Unassigned, Entry
  <2>7. CASE UNCHANGED planVars
    BY <2>7 DEF planVars, PlanTypeOK, Entry
  <2> QED BY <2>1, <2>2, <2>3, <2>4, <2>5, <2>6, <2>7 DEF PlanNext
<1> QED BY <1>1, <1>2, PTL DEF PlanSpec

-----------------------------------------------------------------------------
(* The order *)

\* Once there is a plan its edges are those of the schedule between its jobs.
EdgesOfSchedule ==
    HasPlan => deps = [j \in Job |-> IF j \in Selected(request)
                                     THEN request.schedule[j] \cap Selected(request) ELSE {}]

LEMMA EdgesStay == PlanSpec => []EdgesOfSchedule
<1>1. PlanInit => EdgesOfSchedule
  BY DEF PlanInit, EdgesOfSchedule, HasPlan
<1>2. EdgesOfSchedule /\ [PlanNext]_planVars => EdgesOfSchedule'
  <2> SUFFICES ASSUME EdgesOfSchedule, [PlanNext]_planVars PROVE EdgesOfSchedule'
    OBVIOUS
  <2>1. ASSUME NEW r \in Request, Take(r) PROVE EdgesOfSchedule'
    BY <2>1 DEF Take, EdgesOfSchedule, HasPlan
  <2>2. CASE SelectJobs
    <3>1. Selected(request)' = Selected(request)
      BY <2>2 DEF SelectJobs, Selected, Initial, DirectJobs, FinalWriters, Entries,
                  Producers, RescheduledJobs, Below, Above, Reaches
    <3> QED BY <2>2, <3>1 DEF SelectJobs, EdgesOfSchedule
  <2>3. CASE Raise \/ Leave
    BY <2>3 DEF Raise, Leave, EdgesOfSchedule, HasPlan
  <2>4. CASE Pop \/ Finish \/ UNCHANGED planVars
    <3>1. request' = request /\ deps' = deps /\ (HasPlan' => HasPlan)
      BY <2>4 DEF Pop, Finish, planVars, HasPlan
    <3>2. Selected(request)' = Selected(request)
      BY <3>1 DEF Selected, Initial, DirectJobs, FinalWriters, Entries,
                  Producers, RescheduledJobs, Below, Above, Reaches
    <3> QED BY <3>1, <3>2 DEF EdgesOfSchedule
  <2> QED BY <2>1, <2>2, <2>3, <2>4 DEF PlanNext
<1> QED BY <1>1, <1>2, PTL DEF PlanSpec

\* The trusted order survives the selection: for any schedule, changes and
\* anchors, the plan orders a compared job, or one above it, after every
\* changed job the schedule puts before it.
THEOREM OrderKept == PlanSpec => []TrustedOrderKept
<1>1. PlanTypeOK /\ EdgesOfSchedule => TrustedOrderKept
  <2> SUFFICES ASSUME PlanTypeOK, EdgesOfSchedule, HasPlan,
                      NEW a \in DirectJobs(request),
                      NEW b \in Below(request, {a}) \cap Above(request, FinalWriters(request))
               PROVE  Reaches(deps, a, b)
    BY DEF TrustedOrderKept
  <2> DEFINE sched == request.schedule
             Sel == Selected(request)
  <2>1. request \in Request
    BY DEF PlanTypeOK, HasPlan
  <2>2. sched \in [Job -> SUBSET Job] /\ Sel \in SUBSET Job
    BY <2>1, SelectedJobs DEF Request
  <2>3. a \in Job
    BY <2>1 DEF DirectJobs, Request, Producers, RescheduledJobs
  <2>4. b \in Job /\ Reaches(sched, a, b)
    BY DEF Below
  <2>5. PICK f \in FinalWriters(request) : Reaches(sched, b, f)
    BY DEF Above
  <2>6. f \in Job
    BY DEF FinalWriters, Producers
  <2>7. \A j \in Job : Reaches(sched, a, j) /\ Reaches(sched, j, f) => j \in Sel
    BY DEF Selected, Below, Above
  <2>8. deps = [j \in Job |-> IF j \in Sel THEN sched[j] \cap Sel ELSE {}]
    BY DEF EdgesOfSchedule
  <2> HIDE DEF sched, Sel
  <2> QED BY <2>2, <2>3, <2>4, <2>5, <2>6, <2>7, <2>8, SelectedPath
<1> QED BY <1>1, PlanTypeCorrect, EdgesStay, PTL

-----------------------------------------------------------------------------
(* The windows *)

\* What has been or will be cut.
Met == visited \cup queue

\* Anchors are met; what has been cut is assigned, and its windows, and the
\* slices assigned to a table, have gone on to what the table is made from.
WindowsFollowed ==
    stage \in {"slice", "done"} =>
        /\ AnchorWindows(request) \subseteq Met
        /\ \A e \in visited : Onward(e[1], e[2]) \subseteq Met
        /\ \A e \in visited :
               IsRun(e[1]) /\ Sliced(e[1]) => Cut(e[1], e[2]) \subseteq assigned[e[1]]
        /\ \A t \in Table : \A s \in assigned[t] :
               request.lineage[t] \X {s} \subseteq Met
        /\ stage = "done" => queue = {}
NothingYet == stage \in {"idle", "select"} => visited = {} /\ assigned = Unassigned

LEMMA NothingBefore == PlanSpec => []NothingYet
<1>1. PlanInit => NothingYet
  BY DEF PlanInit, NothingYet
<1>2. NothingYet /\ [PlanNext]_planVars => NothingYet'
  BY DEF NothingYet, PlanNext, planVars, Take, SelectJobs, Raise, Pop, Finish, Leave, Unassigned
<1> QED BY <1>1, <1>2, PTL DEF PlanSpec

\* One entry is cut.
LEMMA PopFollows ==
    ASSUME PlanAssumption, PlanTypeOK, WindowsFollowed, Pop
    PROVE  WindowsFollowed'
<1>1. PICK e \in queue : e = CHOOSE q \in queue : TRUE
  BY DEF Pop
<1> DEFINE t == e[1]
           w == e[2]
<1>2. /\ t \in Table /\ w \in SUBSET Time /\ request \in Request
      /\ stage = "slice" /\ stage' = "slice" /\ request' = request /\ jobs' = jobs
  BY <1>1 DEF Pop, PlanTypeOK, Entry
<1>3. visited' = visited \cup {e} /\ queue' = (queue \cup Onward(t, w)) \ visited'
  BY <1>1 DEF Pop
<1>4. assigned' = IF IsRun(t) /\ Sliced(t)
                  THEN [assigned EXCEPT ![t] = @ \cup Cut(t, w)] ELSE assigned
  BY <1>1 DEF Pop
<1>5. Met' = Met \cup Onward(t, w)
  BY <1>1, <1>3 DEF Met
<1>6. AnchorWindows(request)' = AnchorWindows(request)
  BY <1>2 DEF AnchorWindows
<1>7. \A u \in Table : \A v : Onward(u, v)' = Onward(u, v)
  BY <1>2 DEF Onward
<1>8. \A u \in Table : IsRun(u)' = IsRun(u)
  BY <1>2 DEF IsRun
<1>9. \A d \in visited' : d[1] \in Table
  BY <1>1, <1>2, <1>3 DEF PlanTypeOK, Entry
<1>10. \A u \in Table : assigned[u] \subseteq assigned'[u]
  BY <1>2, <1>4 DEF PlanTypeOK
<1>11. \A d \in visited' : Onward(d[1], d[2])' \subseteq Met'
  BY <1>2, <1>3, <1>5, <1>7, <1>9 DEF WindowsFollowed
<1>12. ASSUME NEW d \in visited', IsRun(d[1])', Sliced(d[1])
       PROVE  Cut(d[1], d[2]) \subseteq assigned'[d[1]]
  <2>1. CASE d = e
    BY <1>2, <1>4, <1>8, <1>12, <2>1 DEF PlanTypeOK
  <2>2. CASE d \in visited
    BY <1>2, <1>8, <1>9, <1>10, <1>12, <2>2 DEF WindowsFollowed
  <2> QED BY <1>3, <2>1, <2>2
<1>13. ASSUME NEW u \in Table, NEW s \in assigned'[u]
       PROVE  request.lineage[u] \X {s} \subseteq Met'
  <2>1. CASE s \in assigned[u]
    BY <1>2, <1>5, <2>1 DEF WindowsFollowed
  <2>2. CASE s \notin assigned[u]
    <3>1. u = t /\ Sliced(t) /\ s \in Cut(t, w)
      BY <1>2, <1>4, <1>13, <2>2 DEF PlanTypeOK
    <3>2. request.lineage[u] \X {s} \subseteq Onward(t, w)
      BY <3>1 DEF Onward
    <3> QED BY <1>5, <3>2
  <2> QED BY <2>1, <2>2
<1>14. AnchorWindows(request)' \subseteq Met'
  BY <1>2, <1>5, <1>6 DEF WindowsFollowed
<1>15. \A d \in visited' :
          IsRun(d[1])' /\ Sliced(d[1]) => Cut(d[1], d[2]) \subseteq assigned'[d[1]]
  BY <1>12
<1>16. \A u \in Table : \A s \in assigned'[u] : request'.lineage[u] \X {s} \subseteq Met'
  BY <1>2, <1>13
<1> QED BY <1>2, <1>11, <1>14, <1>15, <1>16 DEF WindowsFollowed, Sliced, Cut

LEMMA Followed == PlanSpec => []WindowsFollowed
<1> USE PlanAssumption
<1>1. PlanInit => WindowsFollowed
  BY DEF PlanInit, WindowsFollowed
<1>2. PlanTypeOK /\ NothingYet /\ WindowsFollowed /\ [PlanNext]_planVars => WindowsFollowed'
  <2> SUFFICES ASSUME PlanTypeOK, NothingYet, WindowsFollowed, [PlanNext]_planVars
               PROVE  WindowsFollowed'
    OBVIOUS
  <2>1. ASSUME NEW r \in Request, Take(r) PROVE WindowsFollowed'
    BY <2>1 DEF Take, WindowsFollowed
  <2>2. CASE SelectJobs
    <3>1. visited' = {} /\ assigned' = Unassigned /\ stage' = "slice" /\ request' = request
          /\ queue' = AnchorWindows(request)
      BY <2>2 DEF SelectJobs, NothingYet
    <3>2. AnchorWindows(request)' = AnchorWindows(request)
      BY <3>1 DEF AnchorWindows
    <3>3. \A t \in Table : assigned'[t] = {}
      BY <3>1 DEF Unassigned
    <3> QED BY <3>1, <3>2, <3>3 DEF WindowsFollowed, Met
  <2>3. CASE Raise \/ Leave
    BY <2>3 DEF Raise, Leave, WindowsFollowed
  <2>4. CASE Pop
    BY <2>4, PopFollows
  <2>5. CASE Finish \/ UNCHANGED planVars
    <3>1. /\ request' = request /\ jobs' = jobs /\ queue' = queue
          /\ visited' = visited /\ assigned' = assigned
          /\ stage' \in {"slice", "done"} => stage \in {"slice", "done"}
          /\ stage' = "done" => stage = "done" \/ queue = {}
      BY <2>5 DEF Finish, planVars
    <3> QED BY <3>1 DEF WindowsFollowed, Met, AnchorWindows, Onward, IsRun, Sliced, Cut
  <2> QED BY <2>1, <2>2, <2>3, <2>4, <2>5 DEF PlanNext
<1> QED BY <1>1, <1>2, PlanTypeCorrect, NothingBefore, PTL DEF PlanSpec

\* Every compared slice, and every slice a computed one is made from, is
\* computed: for any lineage, any periods and any --partition.
THEOREM Closed == PlanSpec => []WindowsClosed
<1> USE PlanAssumption
<1>1. PlanTypeOK /\ WindowsFollowed => WindowsClosed
  <2> SUFFICES ASSUME PlanTypeOK, WindowsFollowed, stage = "done" PROVE WindowsClosed
    BY DEF WindowsClosed
  <2>1. Met = visited /\ request \in Request
    BY DEF WindowsFollowed, Met, PlanTypeOK
  <2>2. ASSUME NEW e \in AnchorWindows(request), IsRun(e[1])
        PROVE  e[2] \in assigned[e[1]]
    <3>1. e \in visited
      BY <2>1 DEF WindowsFollowed
    <3>2. e[2] \in Slices[e[1]] /\ e[2] \cap {request.partition} # {}
      BY DEF AnchorWindows, Cut
    <3>3. Sliced(e[1]) /\ e[2] \in Cut(e[1], e[2])
      BY <3>2 DEF Sliced, Cut
    <3> QED BY <2>2, <3>1, <3>3 DEF WindowsFollowed
  <2>3. ASSUME NEW t \in Table, NEW s \in assigned[t], NEW u \in Through(t), IsRun(u)
        PROVE  Cut(u, s) \subseteq assigned[u]
    <3> DEFINE S == {k \in Table : <<k, s>> \in visited}
    <3>1. request.lineage[t] \subseteq S
      <4>1. request.lineage[t] \subseteq Table
        BY <2>1 DEF Request
      <4>2. request.lineage[t] \X {s} \subseteq visited
        BY <2>1 DEF WindowsFollowed
      <4> QED BY <4>1, <4>2
    <3>2. ASSUME NEW k \in S, ~Sliced(k) PROVE request.lineage[k] \subseteq S
      <4>1. request.lineage[k] \subseteq Table
        BY <2>1 DEF Request
      <4>2. Onward(k, s) = request.lineage[k] \X {s}
        BY <3>2 DEF Onward
      <4>3. Onward(k, s) \subseteq visited
        BY <2>1 DEF WindowsFollowed
      <4> QED BY <4>1, <4>2, <4>3
    <3>3. u \in S
      BY <3>1, <3>2 DEF Through
    <3>4. IsRun(u) /\ Sliced(u) => Cut(u, s) \subseteq assigned[u]
      BY <3>3 DEF WindowsFollowed
    <3>5. ~Sliced(u) => Cut(u, s) = {}
      BY DEF Sliced, Cut
    <3> QED BY <2>3, <3>4, <3>5
  <2> QED BY <2>2, <2>3 DEF WindowsClosed
<1> QED BY <1>1, PlanTypeCorrect, Followed, PTL

-----------------------------------------------------------------------------
(* Choosing the least *)

LEMMA LeastOf == ASSUME TablesAssumption, NEW S \in SUBSET Table, S # {}
                 PROVE  Least(S) \in S
<1>1. \E t \in S : \A u \in S : t <= u
  BY SmallestOf DEF TablesAssumption
<1> QED BY <1>1 DEF Least

-----------------------------------------------------------------------------
(* Types *)

LEMMA HistoricalIsOne ==
    ASSUME ModesTypeOK, NEW t \in Table, Older(t) # {}
    PROVE  IsDeclaration(Historical(t))
<1>1. Older(t) \in SUBSET Nat
  BY DEF ModesTypeOK, Older
<1>2. \E n \in Older(t) : \A m \in Older(t) : n <= m
  BY <1>1, SmallestOf
<1> DEFINE i == CHOOSE n \in Older(t) : \A m \in Older(t) : n <= m
<1>3. i \in Older(t)
  BY <1>2
<1>4. \E d \in {past[i][k] : k \in Table} : d # None /\ Valid(d, t)
  BY <1>3 DEF Older
<1>5. Historical(t) \in {past[i][k] : k \in Table} /\ Historical(t) # None
  BY <1>4 DEF Historical
<1> QED BY <1>3, <1>5 DEF ModesTypeOK, Older

LEMMA DeclarationIsOne ==
    ASSUME ModesTypeOK, NEW t \in Table, Declaration(t) # None
    PROVE  IsDeclaration(Declaration(t))
<1>1. CASE declared[t] # None
  BY <1>1 DEF Declaration, ModesTypeOK
<1>2. CASE declared[t] = None
  <2>1. Older(t) # {} /\ Declaration(t) = [Historical(t) EXCEPT !.inherited = TRUE]
    BY <1>2 DEF Declaration
  <2>2. IsDeclaration(Historical(t))
    BY <2>1, HistoricalIsOne
  <2> QED BY <2>1, <2>2 DEF IsDeclaration
<1> QED BY <1>1, <1>2

LEMMA ModeIsOne ==
    ASSUME ModesTypeOK, NEW t \in Table
    PROVE  LET m == ModeAndSource(t, Declaration(t))
           IN  m[1] \in Mode /\ (m[2] \in User => Declaration(t) # None)
BY DeclarationIsOne DEF ModeAndSource, IsDeclaration, Mode, User

\* Type correctness: every mode is one of the three, the walk stays among the
\* affected tables, and boundaries are visited tables.
THEOREM ModesTypeCorrect == ModesSpec => []ModesTypeOK
<1> USE TablesAssumption
<1>1. ModesInit => ModesTypeOK
  BY DEF ModesInit, ModesTypeOK
<1>2. ModesTypeOK /\ [ModesNext]_modesVars => ModesTypeOK'
  <2> SUFFICES ASSUME ModesTypeOK, [ModesNext]_modesVars PROVE ModesTypeOK'
    OBVIOUS
  <2>1. ASSUME NEW t \in Table, NEW a \in Asset[t], Edit(t, a) PROVE ModesTypeOK'
    BY <2>1 DEF Edit, Stale, NoWalk, ModesTypeOK
  <2>10. CASE Outdate
    BY <2>10 DEF Outdate, Stale, NoWalk, ModesTypeOK, inputs
  <2>2. ASSUME NEW committed \in BOOLEAN, StartRun(committed) PROVE ModesTypeOK'
    <3> DEFINE P == {past[i] : i \in DOMAIN past}
               Q == P \cup {declared}
    <3>1. past \in Seq(Q) /\ past' = <<declared>> \o past
      BY <2>2 DEF StartRun, ModesTypeOK
    <3>2. past' \in Seq(Q)
      BY <3>1
    <3>3. \A i \in DOMAIN past' : past'[i] = declared \/ past'[i] \in P
      BY <3>2
    <3>4. past' \in Seq({past'[i] : i \in DOMAIN past'})
      BY <3>2
    <3>5. \A t \in Table : \A i \in DOMAIN past' : past'[i][t] # None => IsDeclaration(past'[i][t])
      BY <3>3 DEF ModesTypeOK
    <3> QED BY <2>2, <3>4, <3>5 DEF StartRun, Stale, NoWalk, ModesTypeOK
  <2>3. CASE Analyze
    <3>1. Affected \subseteq Table
      BY DEF Affected
    <3> QED BY <2>3, <3>1 DEF Analyze, ModesTypeOK, inputs, walk
  <2>4. CASE Resolve
    <3>1. PICK t \in Table : /\ t \in affected /\ t = Least(Ready)
      BY <2>4, LeastOf DEF Resolve, Ready, Unresolved, ModesTypeOK
    <3>2. semantics' = [semantics EXCEPT ![t] =
              [id |-> TableId(t), mode |-> ModeAndSource(t, Declaration(t))[1],
               source |-> ModeAndSource(t, Declaration(t))[2], context |-> Context(t),
               declaration |-> Declaration(t)]]
      BY <2>4, <3>1 DEF Resolve
    <3> DEFINE d == Declaration(t)
               m == ModeAndSource(t, d)
               fresh == [id |-> TableId(t), mode |-> m[1], source |-> m[2],
                         context |-> Context(t), declaration |-> d]
    <3>3. fresh.mode \in Mode /\ (fresh.source = "inherited_user" => IsDeclaration(fresh.declaration))
      BY ModeIsOne, DeclarationIsOne DEF User
    <3>4. semantics' = [semantics EXCEPT ![t] = fresh]
      BY <3>2
    <3> HIDE DEF fresh
    <3> QED BY <2>4, <3>1, <3>3, <3>4 DEF Resolve, ModesTypeOK, inputs, walk
  <2>5. CASE Cycle \/ StartWalk \/ WalkEnds \/ NotPlanned
    BY <2>5 DEF Unresolved, Cycle, StartWalk, WalkEnds, NotPlanned, ModesTypeOK, Seeds, inputs, resolution, walk
  <2>6. CASE Visit
    <3>1. PICK t \in todo : t = Least(todo)
      BY <2>6, LeastOf DEF Visit, ModesTypeOK
    <3> QED BY <2>6, <3>1 DEF Visit, ModesTypeOK, Down, inputs, resolution
  <2>7. CASE Planned
    BY <2>7 DEF Planned, ModesTypeOK, inputs, resolution, walk
  <2>8. ASSUME NEW t \in Table, NEW mode \in Mode, Declare(t, mode) PROVE ModesTypeOK'
    <3> DEFINE fresh == [id |-> semantics[t].id, mode |-> mode, context |-> semantics[t].context,
                         inherited |-> FALSE, asOf |-> AsOf(t)]
    <3>1. IsDeclaration(fresh) /\ declared' = [declared EXCEPT ![t] = fresh]
      BY <2>8 DEF Declare, IsDeclaration
    <3> HIDE DEF fresh
    <3>2. DOMAIN declared' = Table
          /\ \A u \in Table : declared'[u] # None => IsDeclaration(declared'[u])
      BY <3>1 DEF ModesTypeOK
    <3>3. /\ phase' = "resolving" /\ affected' = affected /\ past' = past
          /\ semantics' = [k \in Table |-> None]
          /\ todo' = {} /\ selected' = {} /\ authority' = {} /\ observational' = {}
      BY <2>8 DEF Declare, NoWalk, inputs
    <3> QED BY <3>2, <3>3 DEF ModesTypeOK
  <2>9. CASE UNCHANGED modesVars
    BY <2>9 DEF modesVars, ModesTypeOK, inputs, resolution, walk
  <2> QED BY <2>1, <2>2, <2>3, <2>4, <2>5, <2>6, <2>7, <2>8, <2>9, <2>10 DEF ModesNext
<1> QED BY <1>1, <1>2, PTL DEF ModesSpec

-----------------------------------------------------------------------------
(* Resolution *)

\* A resolved table that is equivalent without the user's word is so by itself,
\* and because everything it reads had been resolved as equivalent; one that
\* differs does so by the user's word.
GroundedAt(t) ==
    /\ semantics[t].source = "automatic" =>
          /\ SameForm(t)
          /\ \A u \in Up[t] : semantics[u] # None /\ semantics[u].mode = "equivalent"
    /\ semantics[t].mode = "equivalent" /\ semantics[t].source \notin User =>
          semantics[t].source = "automatic"
    /\ semantics[t].mode = "changed" => semantics[t].source \in User
Grounded ==
    /\ phase = "edited" => \A t \in Table : semantics[t] = None
    /\ \A t \in Known : GroundedAt(t)

\* A step that touches neither the assets nor what has been resolved.
LEMMA GroundedStays ==
    ASSUME Grounded, assets' = assets, base' = base, affected' = affected,
           semantics' = semantics, phase' # "edited" \/ phase = "edited"
    PROVE  Grounded'
<1>1. Known' = Known
  BY DEF Known
<1>2. Up' = Up
  BY DEF Up, BaseUp, CurrentUp
<1>3. \A t \in Known : SameForm(t)' = SameForm(t)
  BY DEF SameForm
<1>4. \A t \in Known : GroundedAt(t)' = GroundedAt(t)
  BY <1>2, <1>3 DEF GroundedAt
<1> QED BY <1>1, <1>4 DEF Grounded

LEMMA GroundedNothing ==
    ASSUME affected' \subseteq Table, \A t \in Table : semantics'[t] = None
    PROVE  Grounded'
BY DEF Grounded, Known

LEMMA ResolveGrounds ==
    ASSUME TablesAssumption, ModesTypeOK, Grounded, Resolve
    PROVE  Grounded'
<1>1. PICK t \in Ready : t = Least(Ready)
  BY LeastOf DEF Resolve, Ready, Unresolved, ModesTypeOK
<1>2. t \in Table /\ t \in affected /\ semantics[t] = None /\ Up[t] \cap Unresolved = {}
  BY <1>1 DEF Ready, Unresolved, ModesTypeOK
<1> DEFINE d == Declaration(t)
           m == ModeAndSource(t, d)
           fresh == [id |-> TableId(t), mode |-> m[1], source |-> m[2],
                     context |-> Context(t), declaration |-> d]
<1>3. semantics' = [semantics EXCEPT ![t] = fresh]
  BY <1>1 DEF Resolve
<1>4. assets' = assets /\ base' = base /\ affected' = affected /\ phase' = phase /\ phase # "edited"
  BY DEF Resolve, inputs
<1>5. Up' = Up /\ \A k \in Table : SameForm(k)' = SameForm(k)
  BY <1>4 DEF Up, BaseUp, CurrentUp, SameForm
<1>6. \A k \in Table : Up[k] \subseteq affected
  BY DEF Up
<1>7. t \notin Up[t] /\ \A u \in Up[t] : semantics[u] # None
  BY <1>2, <1>6 DEF Unresolved
<1>8. /\ fresh.source = "automatic" => SameForm(t) /\ ~Risky(t) /\ d = None
      /\ fresh.mode = "equivalent" /\ fresh.source \notin User => fresh.source = "automatic"
      /\ fresh.mode = "changed" => fresh.source \in User
  BY DEF ModeAndSource, Automatic, User
<1>9. ~Risky(t) => \A u \in Up[t] : semantics[u].mode = "equivalent"
  BY <1>2, <1>6, <1>7 DEF Risky, ModesTypeOK, Mode
<1> HIDE DEF fresh
<1>10. semantics'[t] = fresh /\ \A k \in Table : k # t => semantics'[k] = semantics[k]
  BY <1>2, <1>3 DEF ModesTypeOK
<1>11. ASSUME NEW k \in Known' PROVE GroundedAt(k)'
  <2>1. k \in affected /\ k \in Table
    BY <1>4, <1>11 DEF Known, ModesTypeOK
  <2>2. CASE k = t
    <3>1. \A u \in Up[t] : semantics'[u] = semantics[u]
      BY <1>6, <1>7, <1>10, <1>2 DEF ModesTypeOK
    <3> QED BY <1>2, <1>5, <1>7, <1>8, <1>9, <1>10, <2>2, <3>1 DEF GroundedAt
  <2>3. CASE k # t
    <3>1. semantics'[k] = semantics[k] /\ k \in Known
      BY <1>10, <1>4, <1>11, <2>1, <2>3 DEF Known
    <3>2. semantics[k].source = "automatic" =>
              \A u \in Up[k] : semantics'[u] = semantics[u] /\ semantics[u] # None
      BY <1>2, <1>6, <1>10, <2>1, <3>1 DEF Grounded, GroundedAt, ModesTypeOK
    <3> QED BY <1>5, <2>1, <3>1, <3>2 DEF Grounded, GroundedAt
  <2> QED BY <2>2, <2>3
<1> QED BY <1>4, <1>11 DEF Grounded

LEMMA GroundedAlways == ModesSpec => []Grounded
<1> USE TablesAssumption
<1>1. ModesInit => Grounded
  BY DEF ModesInit, Grounded, Known
<1>2. ModesTypeOK /\ Grounded /\ [ModesNext]_modesVars => Grounded'
  <2> SUFFICES ASSUME ModesTypeOK, Grounded, [ModesNext]_modesVars PROVE Grounded'
    OBVIOUS
  <2>1. ASSUME NEW t \in Table, NEW a \in Asset[t], Edit(t, a) PROVE Grounded'
    BY <2>1, GroundedNothing DEF Edit, Stale
  <2>8. CASE Outdate
    BY <2>8, GroundedNothing DEF Outdate, Stale
  <2>2. ASSUME NEW committed \in BOOLEAN, StartRun(committed) PROVE Grounded'
    BY <2>2, GroundedNothing DEF StartRun, Stale
  <2>3. CASE Analyze
    <3>1. Affected \subseteq Table
      BY DEF Affected
    <3>2. semantics' = semantics /\ affected' = Affected /\ phase = "edited"
      BY <2>3 DEF Analyze
    <3> QED BY <3>1, <3>2, GroundedNothing DEF Grounded
  <2>4. CASE Resolve
    BY <2>4, ResolveGrounds
  <2>5. CASE Cycle \/ StartWalk \/ Visit \/ WalkEnds \/ NotPlanned \/ Planned
    <3>1. /\ assets' = assets /\ base' = base /\ affected' = affected /\ semantics' = semantics
          /\ phase' # "edited"
      BY <2>5 DEF Cycle, StartWalk, Visit, WalkEnds, NotPlanned, Planned, inputs, resolution
    <3> QED BY <3>1, GroundedStays
  <2>6. ASSUME NEW t \in Table, NEW mode \in Mode, Declare(t, mode) PROVE Grounded'
    <3>1. affected' = affected /\ semantics' = [k \in Table |-> None]
      BY <2>6 DEF Declare
    <3> QED BY <3>1, GroundedNothing DEF ModesTypeOK
  <2>7. CASE UNCHANGED modesVars
    BY <2>7, GroundedStays DEF modesVars, inputs, resolution
  <2> QED BY <2>1, <2>2, <2>3, <2>4, <2>5, <2>6, <2>7, <2>8 DEF ModesNext
<1> QED BY <1>1, <1>2, ModesTypeCorrect, PTL DEF ModesSpec

\* Whatever the graph and the declarations, a table taken for equivalent without
\* the user's word has behind it nothing but tables of the baseline's form and
\* tables the user has declared equivalent.
THEOREM AutomaticGrounded == ModesSpec => []AutomaticIsGrounded
<1>1. ModesTypeOK /\ Grounded => AutomaticIsGrounded
  <2> DEFINE Good(u) == IF semantics[u].source \in User THEN semantics[u].mode = "equivalent"
                        ELSE semantics[u].source = "automatic" /\ SameForm(u)
             S == {u \in Known : Good(u)}
  <2> SUFFICES ASSUME ModesTypeOK, Grounded, NEW t \in Known, semantics[t].source = "automatic",
                      NEW u \in Behind(t)
               PROVE  IF semantics[u].source \in User
                      THEN semantics[u].mode = "equivalent" ELSE SameForm(u)
    BY DEF AutomaticIsGrounded
  <2>1. t \in S
    BY DEF Grounded, GroundedAt, User
  <2>2. ASSUME NEW k \in S, semantics[k].source \notin User
        PROVE  Up[k] \subseteq S
    <3>1. \A v \in Up[k] : v \in affected /\ semantics[v] # None /\ semantics[v].mode = "equivalent"
      <4>1. k \in Table /\ semantics[k].source = "automatic" /\ GroundedAt(k)
        BY <2>2 DEF Grounded, Known, ModesTypeOK
      <4>2. Up[k] \subseteq affected
        BY <4>1 DEF Up
      <4> QED BY <4>1, <4>2 DEF GroundedAt
    <3>2. \A v \in Up[k] : v \in Known
      BY <3>1 DEF Known
    <3>3. \A v \in Up[k] : Good(v)
      BY <3>1, <3>2 DEF Grounded, GroundedAt
    <3> QED BY <3>2, <3>3
  <2>3. S \in SUBSET Known
    OBVIOUS
  <2> HIDE DEF S
  <2>4. u \in S
    BY <2>1, <2>2, <2>3 DEF Behind
  <2> USE DEF S
  <2> QED BY <2>4
<1> QED BY <1>1, ModesTypeCorrect, GroundedAlways, PTL

-----------------------------------------------------------------------------
(* The walk *)

\* What a visit of k leaves behind.
VisitedAt(k) ==
    /\ semantics[k].mode = "equivalent" => k \in authority
    /\ semantics[k].mode # "equivalent" =>
          /\ Down(k) \subseteq selected \cup todo
          /\ Down(k) = {} /\ semantics[k].mode = "unknown" /\ Comparable(k) => k \in observational
Walked ==
    /\ phase # "edited" => Direct \subseteq affected
    /\ phase \in {"edited", "resolving"} => selected = {}
    /\ phase \in {"walking", "bounded", "planned"} => Direct \subseteq selected \cup todo
    /\ phase \in {"bounded", "planned"} => todo = {}
    /\ \A k \in selected : VisitedAt(k)
    /\ authority \cup observational \subseteq selected
    /\ \A k \in authority : semantics[k].mode = "equivalent"
    /\ \A k \in observational : semantics[k].mode = "unknown"

LEMMA DirectAffected == Direct \subseteq Affected
<1> SUFFICES ASSUME NEW d \in Direct PROVE d \in Affected
  OBVIOUS
<1>1. d \in Table
  BY DEF Direct
<1>2. Graph!Reaches(CurrentUp, d, d)
  BY <1>1 DEF Graph!Reaches
<1> QED BY <1>1, <1>2 DEF Affected

\* What a table is compared with, and which tables are below it, does not
\* depend on the walk.
LEMMA SameGraph ==
    ASSUME assets' = assets, base' = base, affected' = affected
    PROVE  Direct' = Direct /\ \A k : Down(k)' = Down(k) /\ Comparable(k)' = Comparable(k)
<1>1. Up' = Up
  BY DEF Up, BaseUp, CurrentUp
<1> QED BY <1>1 DEF Direct, Down, Comparable

LEMMA VisitWalks ==
    ASSUME TablesAssumption, ModesTypeOK, Walked, Visit
    PROVE  Walked'
<1>1. PICK t \in todo : t = Least(todo)
  BY LeastOf DEF Visit, ModesTypeOK
<1> DEFINE stops == semantics[t].mode = "equivalent"
           last == ~stops /\ Down(t) = {}
<1>2. /\ selected' = selected \cup {t}
      /\ authority' = authority \cup (IF stops THEN {t} ELSE {})
      /\ observational' = observational \cup
             (IF last /\ semantics[t].mode = "unknown" /\ Comparable(t) THEN {t} ELSE {})
      /\ todo' = (todo \cup (IF stops THEN {} ELSE Down(t))) \ selected'
  BY <1>1 DEF Visit
<1>3. /\ assets' = assets /\ base' = base /\ affected' = affected /\ semantics' = semantics
      /\ phase = "walking" /\ phase' = "walking"
  BY DEF Visit, inputs, resolution
<1>4. Direct' = Direct /\ \A k : Down(k)' = Down(k) /\ Comparable(k)' = Comparable(k)
  BY <1>3, SameGraph
<1>5. selected' \cup todo' = selected \cup todo \cup (IF stops THEN {} ELSE Down(t))
  BY <1>1, <1>2
<1>6. ASSUME NEW k \in selected' PROVE VisitedAt(k)'
  <2>1. CASE k = t
    BY <1>2, <1>3, <1>4, <1>5, <2>1 DEF VisitedAt
  <2>2. CASE k \in selected
    BY <1>2, <1>3, <1>4, <1>5, <2>2 DEF VisitedAt, Walked
  <2> QED BY <1>2, <2>1, <2>2
<1>7. Direct' \subseteq affected' /\ Direct' \subseteq selected' \cup todo'
  BY <1>3, <1>4, <1>5 DEF Walked
<1>8. /\ authority' \cup observational' \subseteq selected'
      /\ \A k \in authority' : semantics'[k].mode = "equivalent"
      /\ \A k \in observational' : semantics'[k].mode = "unknown"
  BY <1>2, <1>3 DEF Walked
<1> QED BY <1>3, <1>6, <1>7, <1>8 DEF Walked

LEMMA WalkedAlways == ModesSpec => []Walked
<1> USE TablesAssumption
<1>1. ModesInit => Walked
  BY DEF ModesInit, Walked
<1>2. ModesTypeOK /\ Walked /\ [ModesNext]_modesVars => Walked'
  <2> SUFFICES ASSUME ModesTypeOK, Walked, [ModesNext]_modesVars PROVE Walked'
    OBVIOUS
  <2>1. ASSUME NEW t \in Table, NEW a \in Asset[t], Edit(t, a) PROVE Walked'
    BY <2>1 DEF Edit, Stale, NoWalk, Walked
  <2>9. CASE Outdate
    BY <2>9 DEF Outdate, Stale, NoWalk, Walked
  <2>2. ASSUME NEW committed \in BOOLEAN, StartRun(committed) PROVE Walked'
    BY <2>2 DEF StartRun, Stale, NoWalk, Walked
  <2>3. CASE Analyze
    <3>1. /\ phase = "edited" /\ phase' = "resolving" /\ selected' = selected
          /\ authority' = authority /\ observational' = observational
          /\ affected' = Affected /\ assets' = assets /\ base' = base
      BY <2>3 DEF Analyze, inputs, walk
    <3>2. Direct' = Direct
      BY <3>1 DEF Direct
    <3> QED BY <3>1, <3>2, DirectAffected DEF Walked
  <2>4. CASE Resolve
    <3>1. /\ phase = "resolving" /\ phase' = "resolving" /\ selected' = selected
          /\ authority' = authority /\ observational' = observational
          /\ affected' = affected /\ assets' = assets /\ base' = base
      BY <2>4 DEF Resolve, inputs, walk
    <3> QED BY <3>1, SameGraph DEF Walked
  <2>5. ASSUME NEW t \in Table, NEW mode \in Mode, Declare(t, mode) PROVE Walked'
    <3>1. /\ phase = "planned" /\ phase' = "resolving" /\ selected' = {}
          /\ authority' = {} /\ observational' = {}
          /\ affected' = affected /\ assets' = assets /\ base' = base
      BY <2>5 DEF Declare, inputs, NoWalk
    <3> QED BY <3>1, SameGraph DEF Walked
  <2>6. CASE StartWalk
    <3>1. /\ phase = "resolving" /\ phase' = "walking" /\ selected' = selected /\ todo' = Seeds
          /\ authority' = authority /\ observational' = observational
          /\ affected' = affected /\ assets' = assets /\ base' = base
      BY <2>6 DEF StartWalk, inputs, resolution
    <3>2. Direct' = Direct /\ Direct \subseteq affected
      BY <3>1, SameGraph DEF Walked
    <3> QED BY <3>1, <3>2 DEF Walked, Seeds
  <2>7. CASE Visit
    BY <2>7, VisitWalks
  <2>8. CASE Cycle \/ WalkEnds \/ NotPlanned \/ Planned \/ UNCHANGED modesVars
    <3>1. /\ assets' = assets /\ base' = base /\ affected' = affected /\ semantics' = semantics
          /\ todo' = todo /\ selected' = selected
          /\ authority' = authority /\ observational' = observational
      BY <2>8 DEF Cycle, WalkEnds, NotPlanned, Planned, modesVars, inputs, resolution, walk
    <3>2. Direct' = Direct /\ \A k : Down(k)' = Down(k) /\ Comparable(k)' = Comparable(k)
      BY <3>1, SameGraph
    <3>3. \A k \in selected : VisitedAt(k)' = VisitedAt(k)
      BY <3>1, <3>2 DEF VisitedAt
    <3>4. \/ phase' = phase
          \/ phase' = "refused" /\ phase # "edited"
          \/ phase' = "bounded" /\ phase = "walking" /\ todo = {}
          \/ phase' = "planned" /\ phase = "bounded"
      BY <2>8 DEF Cycle, WalkEnds, NotPlanned, Planned, modesVars
    <3> QED BY <3>1, <3>2, <3>3, <3>4 DEF Walked
  <2> QED BY <2>1, <2>2, <2>3, <2>4, <2>5, <2>6, <2>7, <2>8, <2>9 DEF ModesNext
<1> QED BY <1>1, <1>2, ModesTypeCorrect, PTL DEF ModesSpec

\* Whatever the graph and the declarations, every way down from an edited table
\* meets an authority, or ends where the table is compared, may differ by
\* declaration, or cannot be compared.
THEOREM Contained == ModesSpec => []NothingEscapes
<1>1. ModesTypeOK /\ Walked => NothingEscapes
  <2> SUFFICES ASSUME ModesTypeOK, Walked, phase \in {"bounded", "planned"},
                      NEW d \in Direct, NEW t \in Escapes(d), Down(t) = {}
               PROVE  t \in observational \/ semantics[t].mode = "changed" \/ ~Comparable(t)
    BY DEF NothingEscapes
  <2> DEFINE S == selected \cap affected
  <2>1. d \in S
    BY DEF Walked
  <2>2. ASSUME NEW k \in S \ authority PROVE Down(k) \subseteq S
    <3>1. VisitedAt(k) /\ todo = {}
      BY <2>2 DEF Walked
    <3>2. Down(k) \subseteq affected
      BY DEF Down
    <3> QED BY <2>2, <3>1, <3>2 DEF VisitedAt
  <2>3. t \in S /\ t \notin authority
    BY <2>1, <2>2 DEF Escapes
  <2>4. semantics[t].mode \in Mode /\ VisitedAt(t)
    BY <2>3 DEF Walked, ModesTypeOK
  <2> QED BY <2>3, <2>4 DEF VisitedAt, Mode
<1> QED BY <1>1, ModesTypeCorrect, WalkedAlways, PTL

-----------------------------------------------------------------------------
(* The analysis: the resolution *)

LEMMA ModesStep == [AnalyzeNext]_analyzeVars => [ModesNext]_modesVars
<1> SUFFICES ASSUME [AnalyzeNext]_analyzeVars PROVE ModesNext \/ UNCHANGED modesVars
  OBVIOUS
<1>1. ASSUME NEW t \in Table, NEW a \in Asset[t], EditAsset(t, a) PROVE ModesNext
  BY <1>1 DEF EditAsset, ModesNext
<1>2. ASSUME NEW s, EditSchedule(s) PROVE ModesNext
  BY <1>2 DEF EditSchedule, ModesNext
<1>3. ASSUME NEW committed \in BOOLEAN, Restart(committed) PROVE ModesNext
  BY <1>3 DEF Restart, ModesNext
<1>4. ASSUME NEW t \in Table, NEW mode \in Mode, SetMode(t, mode) PROVE ModesNext
  BY <1>4 DEF SetMode, ModesNext
<1>5. CASE ResolveAndWalk
  BY <1>5 DEF ResolveAndWalk, ModesNext
<1>6. CASE WritePlan
  BY <1>6 DEF WritePlan, ModesNext
<1>7. ASSUME NEW partition, BuildPlan(partition) PROVE UNCHANGED modesVars
  BY <1>7 DEF BuildPlan
<1>8. CASE PlanStep
  BY <1>8 DEF PlanStep
<1>9. CASE UNCHANGED analyzeVars
  BY <1>9 DEF analyzeVars
<1> QED BY <1>1, <1>2, <1>3, <1>4, <1>5, <1>6, <1>7, <1>8, <1>9 DEF AnalyzeNext

\* To the semantic modes, building and writing plans and editing the schedule
\* are steps of theirs or nothing: an analysis implements the resolution.
THEOREM ImplementsModes == AnalyzeSpec => ModesSpec
<1>1. AnalyzeInit => ModesInit
  BY DEF AnalyzeInit
<1> QED BY <1>1, ModesStep, PTL DEF AnalyzeSpec, ModesSpec

-----------------------------------------------------------------------------
(* The plan *)

\* What a plan is asked to be built from is always a request.
Askable ==
    /\ \A t \in Table : assets[t] \in Asset[t] /\ base[t] \in Asset[t]
    /\ trusted \in Schedule /\ trustedAtStart \in Schedule

LEMMA AlwaysAskable == AnalyzeSpec => []Askable
<1>1. AnalyzeInit => Askable
  BY DEF AnalyzeInit, ModesInit, Askable
<1>2. Askable /\ [AnalyzeNext]_analyzeVars => Askable'
  <2> SUFFICES ASSUME Askable, [AnalyzeNext]_analyzeVars PROVE Askable'
    OBVIOUS
  <2>1. ASSUME NEW t \in Table, NEW a \in Asset[t], EditAsset(t, a) PROVE Askable'
    BY <2>1 DEF EditAsset, Edit, Outside, schedules, Askable
  <2>2. ASSUME NEW s \in Schedule, EditSchedule(s) PROVE Askable'
    BY <2>2 DEF EditSchedule, Outdate, inputs, Askable
  <2>3. ASSUME NEW committed \in BOOLEAN, Restart(committed) PROVE Askable'
    BY <2>3 DEF Restart, StartRun, Askable
  <2>4. ASSUME NEW t \in Table, NEW mode \in Mode, SetMode(t, mode) PROVE Askable'
    BY <2>4 DEF SetMode, Declare, inputs, Outside, schedules, Askable
  <2>5. CASE ResolveAndWalk
    BY <2>5 DEF ResolveAndWalk, Outside, schedules, inputs, Askable,
                Analyze, Resolve, Cycle, StartWalk, Visit, WalkEnds
  <2>6. CASE WritePlan
    BY <2>6 DEF WritePlan, Planned, NotPlanned, inputs, schedules, Askable
  <2>7. ASSUME NEW partition, BuildPlan(partition) PROVE Askable'
    BY <2>7 DEF BuildPlan, modesVars, inputs, schedules, Askable
  <2>8. CASE PlanStep
    BY <2>8 DEF PlanStep, modesVars, inputs, schedules, Askable
  <2>9. CASE UNCHANGED analyzeVars
    BY <2>9 DEF analyzeVars, modesVars, inputs, schedules, Askable
  <2> QED BY <2>1, <2>2, <2>3, <2>4, <2>5, <2>6, <2>7, <2>8, <2>9 DEF AnalyzeNext
<1> QED BY <1>1, <1>2, PTL DEF AnalyzeSpec

LEMMA Requested ==
    ASSUME AnalyzeAssumption, ModesTypeOK, Askable, NEW p \in Time \cup {None}
    PROVE  RequestFor(p) \in Request
<1>1. {Namesake[t] : t \in Touched("task")} \ {None} \in SUBSET Job
  BY PlanAssumption DEF PlanAssumption, Touched
<1>2. Touched("ddl") \in SUBSET Table
  BY DEF Touched
<1>3. selected \in SUBSET Table /\ authority \cup observational \in SUBSET Table
  BY DEF ModesTypeOK
<1>4. CurrentUp \in [Table -> SUBSET Table] /\ BaseUp \in [Table -> SUBSET Table]
  BY DEF AnalyzeAssumption, Askable, CurrentUp, BaseUp
<1>5. trusted \in [Job -> SUBSET Job] /\ trustedAtStart \in [Job -> SUBSET Job]
  BY DEF AnalyzeAssumption, Askable
<1> QED BY <1>1, <1>2, <1>3, <1>4, <1>5 DEF RequestFor, Request

LEMMA PlanningStep ==
    ASSUME AnalyzeAssumption, ModesTypeOK, Askable, [AnalyzeNext]_analyzeVars
    PROVE  PlanNext \/ UNCHANGED planVars
<1>1. ASSUME NEW t \in Table, NEW a \in Asset[t], EditAsset(t, a) PROVE UNCHANGED planVars
  BY <1>1 DEF EditAsset, Outside
<1>2. ASSUME NEW s, EditSchedule(s) PROVE UNCHANGED planVars
  BY <1>2 DEF EditSchedule
<1>3. ASSUME NEW committed, Restart(committed) PROVE UNCHANGED planVars
  BY <1>3 DEF Restart
<1>4. ASSUME NEW t, NEW mode, SetMode(t, mode) PROVE UNCHANGED planVars
  BY <1>4 DEF SetMode, Outside
<1>5. CASE ResolveAndWalk
  BY <1>5 DEF ResolveAndWalk, Outside
<1>6. ASSUME NEW partition \in Time \cup {None}, BuildPlan(partition) PROVE PlanNext
  BY <1>6, Requested DEF BuildPlan, PlanNext
<1>7. CASE PlanStep
  BY <1>7 DEF PlanStep, PlanNext
<1>8. CASE WritePlan
  BY <1>8 DEF WritePlan, PlanNext
<1>9. CASE UNCHANGED analyzeVars
  BY <1>9 DEF analyzeVars
<1> QED BY <1>1, <1>2, <1>3, <1>4, <1>5, <1>6, <1>7, <1>8, <1>9 DEF AnalyzeNext

\* Whatever an analysis resolves and whoever edits what in between, every plan
\* is built as VerificationPlan builds one for some request.
THEOREM ImplementsPlan == AnalyzeSpec => PlanSpec
<1>1. AnalyzeInit => PlanInit
  BY DEF AnalyzeInit
<1>2. ModesTypeOK /\ Askable /\ [AnalyzeNext]_analyzeVars => [PlanNext]_planVars
  BY AnalyzeAssumption, PlanningStep
<1> QED BY <1>1, <1>2, ImplementsModes, ModesTypeCorrect, AlwaysAskable, PTL
        DEF AnalyzeSpec, PlanSpec

-----------------------------------------------------------------------------
(* What declarations vouch for                                             *)

\* An upstream of a table reaches what the table reaches.
LEMMA TablesOnward ==
    ASSUME NEW up, NEW u \in Table, NEW k \in Table, NEW t \in Table, u \in up[k], Graph!Reaches(up, k, t)
    PROVE  Graph!Reaches(up, u, t)
<1> SUFFICES ASSUME NEW S \in SUBSET Table, u \in S, \A j \in Table : up[j] \cap S # {} => j \in S
             PROVE  t \in S
  BY DEF Graph!Reaches
<1>1. k \in S
  OBVIOUS
<1> QED BY <1>1 DEF Graph!Reaches

\* A path begins with an edge.
LEMMA FirstEdge ==
    ASSUME NEW up, NEW u \in Table, NEW t \in Table, u # t, Graph!Reaches(up, u, t)
    PROVE  \E k \in Table : u \in up[k] /\ Graph!Reaches(up, k, t)
<1> DEFINE S == {u} \cup {j \in Table : \E k \in Table : u \in up[k] /\ Graph!Reaches(up, k, j)}
<1>1. ASSUME NEW j \in Table, up[j] \cap S # {} PROVE j \in S
  <2>1. CASE u \in up[j]
    <3>1. Graph!Reaches(up, j, j)
      BY DEF Graph!Reaches
    <3> QED BY <2>1, <3>1
  <2>2. CASE u \notin up[j]
    <3>1. PICK i \in Table, k \in Table : i \in up[j] /\ u \in up[k] /\ Graph!Reaches(up, k, i)
      BY <1>1, <2>2
    <3>2. Graph!Reaches(up, k, j)
      BY <3>1 DEF Graph!Reaches
    <3> QED BY <3>1, <3>2
  <2> QED BY <2>1, <2>2
<1>2. S \in SUBSET Table /\ u \in S
  OBVIOUS
<1> HIDE DEF S
<1>3. t \in S
  BY <1>1, <1>2 DEF Graph!Reaches
<1> QED BY <1>3 DEF S

\* The contexts that a context is made of.
Part(x, c) == \A S : c \in S /\ (\A y \in S : \A w \in y.upstreams : w.context \in S) => x \in S
\* What a context says of the assets and modes it was made of, by name.
PartOf(c, n) == CHOOSE x : Part(x, c) /\ x.local.name = n
ModeIn(c, n) ==
    IF n = c.local.name THEN None
    ELSE CHOOSE m : \E y : Part(y, c) /\ \E w \in y.upstreams : w.context = PartOf(c, n) /\ w.mode = m
Told(c) == [n \in {n \in Table : \E x : Part(x, c) /\ x.local.name = n} |->
               <<PartOf(c, n).local.base, PartOf(c, n).local.current, ModeIn(c, n)>>]

\* What is known was resolved in the context it has now, after its upstreams.
Contexts == \A t \in Known : semantics[t].context = Context(t) /\ Up[t] \subseteq Known

\* The tables behind a table whose upstreams are known, and their contexts.
Source(t) == {u \in affected : Graph!Reaches(Up, u, t)}
LEMMA Sources ==
    ASSUME ModesTypeOK, Contexts, NEW t \in affected, Up[t] \subseteq Known
    PROVE  /\ t \in Source(t) /\ Source(t) \subseteq Known \cup {t}
           /\ \A u \in Source(t) : Up[u] \subseteq Source(t) \cap Known
           /\ \A u \in Source(t) \ {t} : \E k \in Source(t) : u \in Up[k]
<1>1. affected \subseteq Table /\ \A k \in Table : Up[k] \subseteq affected
  BY DEF ModesTypeOK, Up
<1>2. t \in Source(t)
  BY <1>1 DEF Source, Graph!Reaches
<1>3. ASSUME NEW u \in Source(t) PROVE u \in Known \cup {t}
  <2> DEFINE T == Table \ (Known \cup {t})
  <2>1. SUFFICES ASSUME u \in T PROVE FALSE
    BY <1>1 DEF Source
  <2>2. ASSUME NEW k \in Table, Up[k] \cap T # {} PROVE k \in T
    BY <2>2 DEF Contexts
  <2>3. Graph!Reaches(Up, u, t) /\ T \in SUBSET Table
    BY DEF Source
  <2> HIDE DEF T
  <2>4. t \in T
    BY <2>1, <2>2, <2>3 DEF Graph!Reaches
  <2> QED BY <2>4 DEF T
<1>4. ASSUME NEW u \in Source(t), NEW v \in Up[u] PROVE v \in Source(t) /\ v \in Known
  <2>1. u \in Table /\ Graph!Reaches(Up, u, t) /\ v \in affected /\ v \in Table
    BY <1>1 DEF Source
  <2>2. Graph!Reaches(Up, v, t)
    BY <1>1, <2>1, TablesOnward
  <2>3. v \in Known
    BY <1>3 DEF Contexts
  <2> QED BY <2>1, <2>2, <2>3 DEF Source
<1>5. ASSUME NEW u \in Source(t) \ {t} PROVE \E k \in Source(t) : u \in Up[k]
  <2>1. u \in Table /\ t \in Table /\ Graph!Reaches(Up, u, t)
    BY <1>1 DEF Source
  <2>2. PICK k \in Table : u \in Up[k] /\ Graph!Reaches(Up, k, t)
    BY <2>1, FirstEdge
  <2>3. k \in affected
    <3>1. CASE k = t
      BY <3>1
    <3>2. CASE k # t
      <4>1. PICK j \in Table : k \in Up[j]
        BY <1>1, <2>2, <3>2, FirstEdge
      <4> QED BY <1>1, <4>1
    <3> QED BY <3>1, <3>2
  <2> QED BY <2>2, <2>3 DEF Source
<1> QED BY <1>2, <1>3, <1>4, <1>5

\* Parts of the context of a table are the contexts of what is behind it.
LEMMA PartsAreContexts ==
    ASSUME ModesTypeOK, Contexts, NEW t \in affected, Up[t] \subseteq Known
    PROVE  /\ \A x : Part(x, Context(t)) => \E u \in Source(t) : x = Context(u)
           /\ \A u \in Source(t) : Part(Context(u), Context(t))
<1>1. /\ t \in Source(t) /\ \A u \in Source(t) : Up[u] \subseteq Source(t) \cap Known
      /\ Source(t) \subseteq Table /\ t \in Table
  BY Sources DEF Source, ModesTypeOK
<1>2. \A u \in Source(t) : Context(u).upstreams =
         {[id |-> semantics[v].id, context |-> semantics[v].context, mode |-> semantics[v].mode] : v \in Up[u]}
  BY DEF Context
<1>3. \A u \in Source(t) : \A v \in Up[u] : semantics[v].context = Context(v)
  BY <1>1 DEF Contexts
<1>4. ASSUME NEW x, Part(x, Context(t)) PROVE \E u \in Source(t) : x = Context(u)
  <2> DEFINE S == {Context(u) : u \in Source(t)}
  <2>1. Context(t) \in S
    BY <1>1
  <2>2. ASSUME NEW y \in S, NEW w \in y.upstreams PROVE w.context \in S
    <3>1. PICK u \in Source(t) : y = Context(u)
      OBVIOUS
    <3>2. PICK v \in Up[u] : w = [id |-> semantics[v].id, context |-> semantics[v].context, mode |-> semantics[v].mode]
      BY <1>2, <3>1
    <3>3. w.context = Context(v) /\ v \in Source(t)
      BY <1>1, <1>3, <3>2
    <3> QED BY <3>3
  <2> HIDE DEF S
  <2>3. x \in S
    BY <1>4, <2>1, <2>2 DEF Part
  <2> QED BY <2>3 DEF S
<1>5. ASSUME NEW u \in Source(t), NEW S, Context(t) \in S,
             \A y \in S : \A w \in y.upstreams : w.context \in S
      PROVE  Context(u) \in S
  <2> DEFINE T == {v \in Table : v \in Source(t) => Context(v) \notin S}
  <2>1. SUFFICES ASSUME u \in T PROVE FALSE
    BY <1>1
  <2>2. ASSUME NEW k \in Table, Up[k] \cap T # {} PROVE k \in T
    <3>1. SUFFICES ASSUME k \in Source(t), Context(k) \in S PROVE FALSE
      OBVIOUS
    <3>2. PICK v \in Up[k] : v \in T
      BY <2>2
    <3>3. [id |-> semantics[v].id, context |-> semantics[v].context, mode |-> semantics[v].mode]
            \in Context(k).upstreams
      BY <1>2, <3>1
    <3>4. semantics[v].context \in S
      BY <1>5, <3>1, <3>3
    <3>5. Context(v) \in S /\ v \in Source(t)
      BY <1>1, <1>3, <3>1, <3>4
    <3> QED BY <3>2, <3>5
  <2>3. Graph!Reaches(Up, u, t) /\ T \in SUBSET Table
    BY DEF Source
  <2> HIDE DEF T
  <2>4. t \in T
    BY <2>1, <2>2, <2>3 DEF Graph!Reaches
  <2> QED BY <1>1, <1>5, <2>4 DEF T
<1> QED BY <1>4, <1>5 DEF Part

\* So a context tells what a declaration in it vouches for.
LEMMA ToldNow ==
    ASSUME ModesTypeOK, Contexts, NEW t \in affected, Up[t] \subseteq Known
    PROVE  Told(Context(t)) = AsOf(t)
<1>1. PICK c : c = Context(t)
  OBVIOUS
<1>2. /\ \A x : Part(x, c) => \E u \in Source(t) : x = Context(u)
      /\ \A u \in Source(t) : Part(Context(u), c)
  BY <1>1, PartsAreContexts
<1>3. /\ t \in Source(t) /\ \A u \in Source(t) : Up[u] \subseteq Source(t) \cap Known
      /\ \A u \in Source(t) \ {t} : \E k \in Source(t) : u \in Up[k]
      /\ Source(t) \subseteq Table
  BY Sources DEF Source, ModesTypeOK
<1>4. \A u \in Table : /\ Context(u).local.name = u
                       /\ Context(u).local.base = base[u] /\ Context(u).local.current = assets[u]
  BY DEF Context, LocalFingerprint
<1>5. c.local.name = t
  BY <1>1, <1>3, <1>4
<1>6. {n \in Table : \E x : Part(x, c) /\ x.local.name = n} = Source(t)
  <2>1. ASSUME NEW n \in Table, NEW x, Part(x, c), x.local.name = n PROVE n \in Source(t)
    <3>1. PICK u \in Source(t) : x = Context(u)
      BY <1>2, <2>1
    <3> QED BY <1>3, <1>4, <2>1, <3>1
  <2>2. ASSUME NEW n \in Source(t) PROVE n \in Table /\ \E x : Part(x, c) /\ x.local.name = n
    BY <1>2, <1>3, <1>4
  <2> QED BY <2>1, <2>2
<1>7. ASSUME NEW u \in Source(t) PROVE PartOf(c, u) = Context(u)
  <2>1. Part(Context(u), c) /\ Context(u).local.name = u
    BY <1>2, <1>3, <1>4
  <2>2. ASSUME NEW x, Part(x, c), x.local.name = u PROVE x = Context(u)
    <3>1. PICK v \in Source(t) : x = Context(v)
      BY <1>2, <2>2
    <3>2. v = u
      BY <1>3, <1>4, <2>2, <3>1
    <3> QED BY <3>1, <3>2
  <2> QED BY <2>1, <2>2 DEF PartOf
<1>8. ASSUME NEW u \in Source(t) \ {t} PROVE ModeIn(c, u) = semantics[u].mode
  <2> DEFINE Says(m) == \E y : Part(y, c) /\ \E w \in y.upstreams : w.context = PartOf(c, u) /\ w.mode = m
  <2>1. PICK p : p = Context(u)
    OBVIOUS
  <2>2. \A k \in Source(t) : Context(k).upstreams =
           {[id |-> semantics[v].id, context |-> semantics[v].context, mode |-> semantics[v].mode] : v \in Up[k]}
    BY DEF Context
  <2>3. \A k \in Source(t) : \A v \in Up[k] : v \in Table /\ semantics[v].context = Context(v)
    BY <1>3 DEF Contexts
  <2>4. Says(semantics[u].mode)
    <3>1. PICK k \in Source(t) : u \in Up[k]
      BY <1>3
    <3>2. PICK w : w = [id |-> semantics[u].id, context |-> semantics[u].context, mode |-> semantics[u].mode]
      OBVIOUS
    <3>3. w \in Context(k).upstreams /\ w.context = PartOf(c, u) /\ w.mode = semantics[u].mode
      BY <1>7, <2>2, <2>3, <3>1, <3>2
    <3> QED BY <1>2, <3>1, <3>3
  <2>5. ASSUME NEW m, Says(m) PROVE m = semantics[u].mode
    <3>1. PICK y : Part(y, c) /\ \E w \in y.upstreams : w.context = PartOf(c, u) /\ w.mode = m
      BY <2>5
    <3>2. PICK k \in Source(t) : y = Context(k)
      BY <1>2, <3>1
    <3>3. PICK w \in y.upstreams : w.context = PartOf(c, u) /\ w.mode = m
      BY <3>1
    <3>4. PICK v \in Up[k] :
            w = [id |-> semantics[v].id, context |-> semantics[v].context, mode |-> semantics[v].mode]
      BY <2>2, <3>2, <3>3
    <3>5. Context(v) = Context(u) /\ v \in Table /\ u \in Table /\ m = semantics[v].mode
      BY <1>3, <1>7, <2>3, <3>3, <3>4
    <3>6. v = u
      BY <1>4, <3>5
    <3> QED BY <3>5, <3>6
  <2> HIDE DEF Says
  <2>6. semantics[u].mode = CHOOSE m : Says(m)
    BY <2>4, <2>5
  <2>7. u # c.local.name
    BY <1>5
  <2> QED BY <2>6, <2>7 DEF ModeIn, Says
<1>9. ModeIn(c, t) = None
  BY <1>5 DEF ModeIn
<1>10. Told(c) = [n \in Source(t) |-> <<PartOf(c, n).local.base, PartOf(c, n).local.current, ModeIn(c, n)>>]
  BY <1>6 DEF Told
<1>11. AsOf(t) = [u \in Source(t) |-> <<base[u], assets[u], IF u = t THEN None ELSE semantics[u].mode>>]
  BY DEF AsOf, Source
<1>12. ASSUME NEW u \in Source(t)
       PROVE  <<PartOf(c, u).local.base, PartOf(c, u).local.current, ModeIn(c, u)>>
              = <<base[u], assets[u], IF u = t THEN None ELSE semantics[u].mode>>
  BY <1>3, <1>4, <1>7, <1>8, <1>9
<1> QED BY <1>1, <1>10, <1>11, <1>12

Faithful(d) == d.asOf = Told(d.context)
AppliedAt(t) == semantics[t].source \in User =>
    /\ Faithful(semantics[t].declaration)
    /\ semantics[t].declaration.context = semantics[t].context
\* Every declaration of this run and older ones says what its context tells, and one
\* that has been applied was made in the context it is applied in.
DeclarationInv ==
    /\ Contexts /\ \A t \in Known : AppliedAt(t)
    /\ \A t \in Table : declared[t] # None => Faithful(declared[t])
    /\ \A i \in DOMAIN past : \A t \in Table : past[i][t] # None => Faithful(past[i][t])

LEMMA HistoricalIsFaithful ==
    ASSUME ModesTypeOK, DeclarationInv, NEW t \in Table, Older(t) # {}
    PROVE  Faithful(Historical(t)) /\ Historical(t).context = Context(t)
<1>1. Older(t) \in SUBSET Nat
  BY DEF ModesTypeOK, Older
<1>2. \E n \in Older(t) : \A m \in Older(t) : n <= m
  BY <1>1, SmallestOf
<1> DEFINE i == CHOOSE n \in Older(t) : \A m \in Older(t) : n <= m
<1>3. i \in Older(t)
  BY <1>2
<1>4. \E d \in {past[i][k] : k \in Table} : d # None /\ Valid(d, t)
  BY <1>3 DEF Older
<1>5. /\ Historical(t) \in {past[i][k] : k \in Table} /\ Historical(t) # None
      /\ Valid(Historical(t), t)
  BY <1>4 DEF Historical
<1>6. i \in DOMAIN past
  BY <1>3 DEF Older
<1> QED BY <1>5, <1>6 DEF DeclarationInv, Valid

\* What is applied to a table was declared in the context it has.
LEMMA AppliedIsFaithful ==
    ASSUME ModesTypeOK, DeclarationInv, NEW t \in Table, Declaration(t) # None
    PROVE  Faithful(Declaration(t)) /\ Declaration(t).context = Context(t)
<1>1. CASE declared[t] # None
  BY <1>1 DEF Declaration, Valid, DeclarationInv
<1>2. CASE declared[t] = None
  <2>1. Older(t) # {} /\ Declaration(t) = [Historical(t) EXCEPT !.inherited = TRUE]
    BY <1>2 DEF Declaration
  <2>2. PICK h : h = Historical(t)
    OBVIOUS
  <2>3. IsDeclaration(h) /\ Faithful(h) /\ h.context = Context(t)
    BY <2>1, <2>2, HistoricalIsOne, HistoricalIsFaithful
  <2>4. Declaration(t).context = h.context /\ Declaration(t).asOf = h.asOf
    <3>1. DOMAIN h = {"id", "mode", "context", "inherited", "asOf"}
      BY <2>3 DEF IsDeclaration
    <3> QED BY <2>1, <2>2, <3>1
  <2> QED BY <2>3, <2>4 DEF Faithful
<1> QED BY <1>1, <1>2

\* A step that leaves assets and results alone, and declares nothing new.
LEMMA DeclarationsStay ==
    ASSUME DeclarationInv, assets' = assets, base' = base, affected' = affected, semantics' = semantics,
           past' = past, \A t \in Table : declared'[t] # None => Faithful(declared'[t])
    PROVE  DeclarationInv'
<1>1. Known' = Known /\ Up' = Up
  BY DEF Known, Up, BaseUp, CurrentUp
<1>2. \A t \in Known : Context(t)' = Context(t)
  BY <1>1 DEF Context, LocalFingerprint, TableId
<1>3. Contexts'
  BY <1>1, <1>2 DEF DeclarationInv, Contexts
<1>4. \A t \in Known : AppliedAt(t)'
  BY DEF DeclarationInv, AppliedAt
<1> QED BY <1>1, <1>3, <1>4 DEF DeclarationInv

\* Nothing is known yet, or not any more.
LEMMA NothingApplied ==
    ASSUME affected' \subseteq Table, \A t \in Table : semantics'[t] = None,
           \A t \in Table : declared'[t] # None => Faithful(declared'[t]),
           \A i \in DOMAIN past' : \A t \in Table : past'[i][t] # None => Faithful(past'[i][t])
    PROVE  DeclarationInv'
<1>1. Known' = {}
  BY DEF Known
<1> QED BY <1>1 DEF DeclarationInv, Contexts

LEMMA ResolveApplies ==
    ASSUME TablesAssumption, ModesTypeOK, DeclarationInv, Resolve
    PROVE  DeclarationInv'
<1>1. PICK t \in Ready : t = Least(Ready)
  BY LeastOf DEF Resolve, Ready, Unresolved, ModesTypeOK
<1>2. t \in Table /\ t \in affected /\ semantics[t] = None /\ Up[t] \cap Unresolved = {}
  BY <1>1 DEF Ready, Unresolved, ModesTypeOK
<1> DEFINE d == Declaration(t)
           m == ModeAndSource(t, d)
           fresh == [id |-> TableId(t), mode |-> m[1], source |-> m[2],
                     context |-> Context(t), declaration |-> d]
<1>3. semantics' = [semantics EXCEPT ![t] = fresh]
  BY <1>1 DEF Resolve
<1>4. assets' = assets /\ base' = base /\ affected' = affected /\ past' = past /\ declared' = declared
  BY DEF Resolve, inputs
<1>5. Up' = Up
  BY <1>4 DEF Up, BaseUp, CurrentUp
<1>6. \A k \in Table : Up[k] \subseteq affected
  BY DEF Up
<1>7. t \notin Known /\ Up[t] \subseteq Known
  BY <1>2, <1>6 DEF Unresolved, Known
<1>8. fresh.context = Context(t) /\ fresh.declaration = d /\ (fresh.source \in User => d # None)
  BY DEF ModeAndSource, User
<1>9. d # None => Faithful(d) /\ d.context = Context(t)
  BY <1>2, AppliedIsFaithful
<1>10. fresh.source \in User => d.context = Context(t) /\ Faithful(d)
  BY <1>8, <1>9
<1> HIDE DEF fresh, d
<1>11. semantics'[t] = fresh /\ \A k \in Table : k # t => semantics'[k] = semantics[k]
  BY <1>2, <1>3 DEF ModesTypeOK
<1>12. Known' \subseteq Known \cup {t} /\ \A k \in Known : k \in Known' /\ k \in Table /\ k # t
  BY <1>4, <1>7, <1>11 DEF Known, ModesTypeOK
<1>13. ASSUME NEW k \in Known \cup {t} PROVE Context(k)' = Context(k)
  <2>1. k \in Table /\ Up[k] \subseteq Known
    BY <1>2, <1>7, <1>12, <1>13 DEF DeclarationInv, Contexts
  <2>2. \A u \in Up[k] : semantics'[u] = semantics[u]
    BY <1>11, <1>12, <2>1
  <2> QED BY <1>4, <1>5, <2>2 DEF Context, LocalFingerprint, TableId
<1>14. Contexts'
  <2>1. ASSUME NEW k \in Known'
        PROVE  semantics'[k].context = Context(k)' /\ Up[k] \subseteq Known'
    <3>1. CASE k = t
      BY <1>7, <1>8, <1>11, <1>12, <1>13, <3>1
    <3>2. CASE k # t
      BY <1>11, <1>12, <1>13, <2>1, <3>2 DEF DeclarationInv, Contexts
    <3> QED BY <3>1, <3>2
  <2> QED BY <1>5, <2>1 DEF Contexts
<1>15. ASSUME NEW k \in Known' PROVE AppliedAt(k)'
  <2>1. CASE k = t
    BY <1>8, <1>10, <1>11, <2>1 DEF AppliedAt
  <2>2. CASE k # t
    BY <1>11, <1>12, <1>15, <2>2 DEF DeclarationInv, AppliedAt
  <2> QED BY <2>1, <2>2
<1> QED BY <1>4, <1>14, <1>15 DEF DeclarationInv

LEMMA FaithfulAlways == ModesSpec => []DeclarationInv
<1> USE TablesAssumption
<1>1. ModesInit => DeclarationInv
  <2> SUFFICES ASSUME ModesInit PROVE DeclarationInv
    OBVIOUS
  <2>1. Known = {} /\ DOMAIN past = {} /\ \A t \in Table : declared[t] = None
    BY DEF ModesInit, Known
  <2> QED BY <2>1 DEF DeclarationInv, Contexts
<1>2. ModesTypeOK /\ Grounded /\ DeclarationInv /\ [ModesNext]_modesVars => DeclarationInv'
  <2> SUFFICES ASSUME ModesTypeOK, Grounded, DeclarationInv, [ModesNext]_modesVars PROVE DeclarationInv'
    OBVIOUS
  <2>1. ASSUME NEW t \in Table, NEW a \in Asset[t], Edit(t, a) PROVE DeclarationInv'
    BY <2>1, NothingApplied DEF Edit, Stale, DeclarationInv
  <2>2. CASE Outdate
    BY <2>2, NothingApplied DEF Outdate, Stale, inputs, DeclarationInv
  <2>3. ASSUME NEW committed \in BOOLEAN, StartRun(committed) PROVE DeclarationInv'
    <3> DEFINE P == {past[i] : i \in DOMAIN past}
               Q == P \cup {declared}
    <3>1. past \in Seq(Q) /\ past' = <<declared>> \o past
      BY <2>3 DEF StartRun, ModesTypeOK
    <3>2. \A i \in DOMAIN past' : past'[i] = declared \/ past'[i] \in P
      BY <3>1
    <3>3. \A i \in DOMAIN past' : \A t \in Table : past'[i][t] # None => Faithful(past'[i][t])
      BY <3>2 DEF DeclarationInv
    <3>4. affected' = {} /\ semantics' = [t \in Table |-> None] /\ declared' = [t \in Table |-> None]
      BY <2>3 DEF StartRun, Stale
    <3> QED BY <3>3, <3>4, NothingApplied
  <2>4. CASE Analyze
    <3>1. Affected \subseteq Table
      BY DEF Affected
    <3>2. semantics' = semantics /\ affected' = Affected /\ phase = "edited" /\ declared' = declared /\ past' = past
      BY <2>4 DEF Analyze, inputs
    <3> QED BY <3>1, <3>2, NothingApplied DEF Grounded, DeclarationInv
  <2>5. CASE Resolve
    BY <2>5, ResolveApplies
  <2>6. CASE Cycle \/ StartWalk \/ Visit \/ WalkEnds \/ NotPlanned
    <3>1. /\ assets' = assets /\ base' = base /\ affected' = affected /\ semantics' = semantics
          /\ past' = past /\ declared' = declared
      BY <2>6 DEF Cycle, StartWalk, Visit, WalkEnds, NotPlanned, inputs, resolution
    <3> QED BY <3>1, DeclarationsStay DEF DeclarationInv
  <2>7. CASE Planned
    <3>1. /\ assets' = assets /\ base' = base /\ affected' = affected /\ semantics' = semantics
          /\ past' = past /\ phase = "bounded"
          /\ declared' = [t \in Table |->
                IF declared[t] = None /\ t \in affected /\ semantics[t].source = "inherited_user"
                THEN semantics[t].declaration ELSE declared[t]]
      BY <2>7 DEF Planned, inputs, resolution
    <3>2. ASSUME NEW t \in Table, declared'[t] # None PROVE Faithful(declared'[t])
      <4>1. CASE t \in affected /\ semantics[t].source = "inherited_user" /\ declared'[t] = semantics[t].declaration
        <5>1. t \in Known
          BY <3>1, <4>1 DEF ModesTypeOK, Known
        <5> QED BY <4>1, <5>1 DEF DeclarationInv, AppliedAt, User
      <4>2. CASE declared'[t] = declared[t]
        BY <3>2, <4>2 DEF DeclarationInv
      <4> QED BY <3>1, <4>1, <4>2
    <3> QED BY <3>1, <3>2, DeclarationsStay
  <2>8. ASSUME NEW t \in Table, NEW mode \in Mode, Declare(t, mode) PROVE DeclarationInv'
    <3> DEFINE fresh == [id |-> semantics[t].id, mode |-> mode, context |-> semantics[t].context,
                         inherited |-> FALSE, asOf |-> AsOf(t)]
    <3>1. /\ phase = "planned" /\ t \in affected /\ affected' = affected /\ past' = past
          /\ semantics' = [k \in Table |-> None] /\ declared' = [declared EXCEPT ![t] = fresh]
      BY <2>8 DEF Declare, inputs
    <3>2. t \in Known
      BY <3>1 DEF ModesTypeOK, Known
    <3>3. semantics[t].context = Context(t) /\ Up[t] \subseteq Known
      BY <3>2 DEF DeclarationInv, Contexts
    <3>4. Told(Context(t)) = AsOf(t)
      BY <3>1, <3>3, ToldNow DEF DeclarationInv
    <3>5. Faithful(fresh)
      BY <3>3, <3>4 DEF Faithful
    <3> HIDE DEF fresh
    <3>6. \A k \in Table : declared'[k] # None => Faithful(declared'[k])
      BY <3>1, <3>5 DEF DeclarationInv, ModesTypeOK
    <3> QED BY <3>1, <3>6, NothingApplied DEF DeclarationInv, ModesTypeOK
  <2>9. CASE UNCHANGED modesVars
    BY <2>9, DeclarationsStay DEF modesVars, inputs, resolution, DeclarationInv
  <2> QED BY <2>1, <2>2, <2>3, <2>4, <2>5, <2>6, <2>7, <2>8, <2>9 DEF ModesNext
<1> QED BY <1>1, <1>2, ModesTypeCorrect, GroundedAlways, PTL DEF ModesSpec

\* A declaration, of this run or an older one, decides about a table only while all
\* that it was made for is as it was: the assets of the table and of everything affected
\* behind it, and what that is taken for.
THEOREM DeclarationsFit == ModesSpec => []DeclarationsApply
<1>1. ModesTypeOK /\ DeclarationInv => DeclarationsApply
  <2> SUFFICES ASSUME ModesTypeOK, DeclarationInv, NEW t \in Known, semantics[t].source \in User
               PROVE  semantics[t].declaration.asOf = AsOf(t)
    BY DEF DeclarationsApply
  <2>1. t \in affected /\ Up[t] \subseteq Known /\ semantics[t].context = Context(t)
    BY DEF DeclarationInv, Contexts, Known
  <2>2. Told(Context(t)) = AsOf(t)
    BY <2>1, ToldNow DEF DeclarationInv
  <2>3. PICK d : d = semantics[t].declaration
    OBVIOUS
  <2>4. Faithful(d) /\ d.context = Context(t)
    BY <2>1, <2>3 DEF DeclarationInv, AppliedAt
  <2> QED BY <2>2, <2>3, <2>4 DEF Faithful
<1> QED BY <1>1, FaithfulAlways, ModesTypeCorrect, PTL

-----------------------------------------------------------------------------
(* What follows *)

\* In every analysis, declarations apply to what they were made for, automatic
\* equivalence is grounded and no edit escapes the boundaries of the comparison.
THEOREM AnalyzeIsSound ==
    AnalyzeSpec => [](DeclarationsApply /\ AutomaticIsGrounded /\ NothingEscapes)
BY ImplementsModes, DeclarationsFit, AutomaticGrounded, Contained, PTL

\* In every analysis, the plan keeps the trusted order below what has changed, and
\* its slices are closed upwards.
THEOREM PlanIsSound == AnalyzeSpec => [](TrustedOrderKept /\ WindowsClosed)
BY ImplementsPlan, OrderKept, Closed, PTL

-----------------------------------------------------------------------------
(* The verdict *)

\* A plan under construction is built from the walk as it stands.
Building ==
    stage # "idle" =>
        /\ phase = "bounded"
        /\ request.anchors = authority \cup observational

LEMMA AlwaysBuilding == AnalyzeSpec => []Building
<1>1. AnalyzeInit => Building
  BY DEF AnalyzeInit, PlanInit, Building
<1>2. Building /\ [AnalyzeNext]_analyzeVars => Building'
  <2> SUFFICES ASSUME Building, [AnalyzeNext]_analyzeVars PROVE Building'
    OBVIOUS
  <2>1. ASSUME NEW t \in Table, NEW a \in Asset[t], EditAsset(t, a) PROVE Building'
    BY <2>1 DEF EditAsset, Edit, Stale, Outside, planVars, Building
  <2>2. ASSUME NEW s \in Schedule, EditSchedule(s) PROVE Building'
    BY <2>2 DEF EditSchedule, Outdate, Stale, planVars, Building
  <2>3. ASSUME NEW committed \in BOOLEAN, Restart(committed) PROVE Building'
    BY <2>3 DEF Restart, StartRun, Stale, planVars, Building
  <2>4. ASSUME NEW t \in Table, NEW mode \in Mode, SetMode(t, mode) PROVE Building'
    BY <2>4 DEF SetMode, Declare, Outside, planVars, Building
  <2>5. CASE ResolveAndWalk
    BY <2>5 DEF ResolveAndWalk, Outside, planVars, Building,
                Analyze, Resolve, Cycle, StartWalk, Visit, WalkEnds
  <2>6. CASE WritePlan
    BY <2>6 DEF WritePlan, Leave, Building
  <2>7. ASSUME NEW partition, BuildPlan(partition) PROVE Building'
    BY <2>7 DEF BuildPlan, Take, RequestFor, modesVars, walk, Building
  <2>8. CASE PlanStep
    BY <2>8 DEF PlanStep, SelectJobs, Raise, Pop, Finish, modesVars, walk, Building
  <2>9. CASE UNCHANGED analyzeVars
    BY <2>9 DEF analyzeVars, modesVars, walk, planVars, Building
  <2> QED BY <2>1, <2>2, <2>3, <2>4, <2>5, <2>6, <2>7, <2>8, <2>9 DEF AnalyzeNext
<1> QED BY <1>1, <1>2, PTL DEF AnalyzeSpec

\* No table that the walk has gone through unvouched for is taken for equivalent.
LEMMA EscapesDiffer ==
    ASSUME ModesTypeOK, Walked, phase = "bounded", NEW d \in Direct, NEW t \in Escapes(d)
    PROVE  t \in affected /\ semantics[t] # None /\ semantics[t].mode \in {"changed", "unknown"}
<1> DEFINE S == selected \cap affected
<1>1. d \in S
  BY DEF Walked
<1>2. ASSUME NEW k \in S \ authority PROVE Down(k) \subseteq S
  <2>1. VisitedAt(k) /\ todo = {}
    BY <1>2 DEF Walked
  <2>2. Down(k) \subseteq affected
    BY DEF Down
  <2> QED BY <1>2, <2>1, <2>2 DEF VisitedAt
<1>3. t \in S /\ t \notin authority
  BY <1>1, <1>2 DEF Escapes
<1>4. semantics[t] # None /\ semantics[t].mode \in Mode /\ VisitedAt(t)
  BY <1>3 DEF Walked, ModesTypeOK
<1> QED BY <1>3, <1>4 DEF VisitedAt, Mode

\* Whatever is compared in whatever way, a pass stands for a full and matching
\* comparison; and a pass without warnings for edits that are vouched for, on
\* every way down, up to what was compared.
THEOREM PassIsProven == AnalyzeSpec => []PassedIsProven
<1>1. /\ ModesTypeOK /\ Grounded /\ Walked /\ Building
      => PassedIsProven
  <2> SUFFICES ASSUME ModesTypeOK, Grounded, Walked, Building, stage = "done",
                      NEW method \in Method \cup {"all"}, NEW sampled \in BOOLEAN,
                      NEW differ \in SUBSET Required,
                      Status(method, sampled, differ) \in {"passed", "passed_with_warnings"}
               PROVE  /\ Required # {} /\ differ = {} /\ method = "all" /\ ~sampled /\ ~capped
                      /\ Status(method, sampled, differ) = "passed" =>
                             \A d \in Direct : \A t \in Escapes(d) : semantics[t].source \in User
    BY DEF PassedIsProven
  <2>1. /\ Unmapped = {} /\ Chosen(method) # {}
        /\ ~DiffersAt("equivalent", method, differ) /\ ~DiffersAt("unknown", method, differ)
        /\ ~capped /\ Complete(method, sampled)
        /\ Status(method, sampled, differ) = "passed" => ~Warnings
    BY DEF Status
  <2>2. Required = request.anchors \X Method /\ Required # {}
    BY <2>1 DEF Required, Chosen
  <2>3. PICK a : a \in request.anchors
    BY <2>2
  <2>4. <<a, "count">> \in Required /\ <<a, "row_compare">> \in Required
    BY <2>2, <2>3 DEF Method
  <2>5. method = "all" /\ Chosen(method) = Required
    BY <2>1, <2>4 DEF Complete, Chosen, Method
  <2>6. ~sampled
    BY <2>1, <2>4, <2>5 DEF Complete
  <2>7. differ = {}
    <3> SUFFICES ASSUME NEW c \in differ PROVE FALSE
      OBVIOUS
    <3>1. c \in Chosen(method) \cap differ /\ c[1] \in request.anchors
      BY <2>2, <2>5
    <3>2. c[1] \in authority \cup observational /\ phase = "bounded"
      BY <3>1 DEF Building
    <3>3. semantics[c[1]].mode \in {"equivalent", "unknown"}
      BY <3>2 DEF Walked
    <3> QED BY <2>1, <3>1, <3>3 DEF DiffersAt
  <2>8. ASSUME ~Warnings, NEW d \in Direct, NEW t \in Escapes(d)
        PROVE  semantics[t].source \in User
    <3>1. /\ t \in affected /\ semantics[t] # None
          /\ semantics[t].mode \in {"changed", "unknown"}
      BY EscapesDiffer DEF Building
    <3>2. semantics[t].mode # "unknown"
      BY <2>8, <3>1 DEF Warnings, UnknownTables
    <3> QED BY <3>1, <3>2 DEF Grounded, GroundedAt, Known
  <2> QED BY <2>1, <2>2, <2>5, <2>6, <2>7, <2>8
<1> QED BY <1>1, ImplementsModes, ModesTypeCorrect, GroundedAlways, WalkedAlways,
           AlwaysBuilding, PTL

-----------------------------------------------------------------------------
(* Changes of the DDL files: statements in order                           *)

Statement == [op : {"DROP", "CREATE", "RENAME", "ALTER"}, of : Name, to : Name]

Before(q, s, t) == \E i, j \in DOMAIN q : i < j /\ q[i] = s /\ q[j] = t

\* A sequence is made of groups: it has their statements, each once, and keeps the order
\* they have in a group.
Arranged(q, groups) ==
    /\ q \in Seq(Statement)
    /\ ToSet(q) = UNION {ToSet(g) : g \in groups}
    /\ \A g \in groups : \A i, j \in DOMAIN g : i < j => Before(q, g[i], g[j])
    /\ IsInjective(q)

\* Names are sorted each once.
LEMMA SortedNames ==
    ASSUME NEW S \in SUBSET Name
    PROVE  /\ Cardinality(S) \in Nat
           /\ Sorted(S) \in [1..Cardinality(S) -> S]
           /\ \A n \in S : \E i \in 1..Cardinality(S) : Sorted(S)[i] = n
           /\ \A i, j \in 1..Cardinality(S) : Sorted(S)[i] = Sorted(S)[j] => i = j
<1> DEFINE N == Cardinality(S)
           UpTo(n) == {m \in S : m <= n}
           rank == [n \in S |-> Cardinality(UpTo(n))]
           Rises(q) == q \in [1..N -> S] /\ \A i, j \in DOMAIN q : i < j => q[i] < q[j]
<1>1. IsFiniteSet(S) /\ S \subseteq Nat
  BY SchemaAssumption, FS_Subset
<1>2. N \in Nat
  BY <1>1, FS_CardinalityType
<1>3. IsFiniteSet(1..N) /\ Cardinality(1..N) = N
  BY <1>2, FS_Interval
<1>4. ASSUME NEW n \in S PROVE IsFiniteSet(UpTo(n)) /\ Cardinality(UpTo(n)) \in 1..N
  <2>1. IsFiniteSet(UpTo(n)) /\ Cardinality(UpTo(n)) <= N
    BY <1>1, FS_Subset
  <2>2. Cardinality(UpTo(n)) \in Nat
    BY <2>1, FS_CardinalityType
  <2>3. n \in UpTo(n)
    BY <1>1
  <2>4. Cardinality(UpTo(n)) # 0
    BY <2>1, <2>3, FS_EmptySet
  <2> QED BY <1>2, <2>1, <2>2, <2>4
<1>5. ASSUME NEW n \in S, NEW m \in S, n < m PROVE rank[n] < rank[m]
  <2>1. UpTo(n) \subseteq UpTo(m) /\ UpTo(n) # UpTo(m)
    <3>1. n \in Nat /\ m \in Nat /\ m \in UpTo(m) /\ m \notin UpTo(n)
      BY <1>1, <1>5
    <3>2. \A k \in S : k <= n => k <= m
      BY <1>1, <1>5
    <3> QED BY <3>1, <3>2
  <2>2. Cardinality(UpTo(n)) <= Cardinality(UpTo(m)) /\ Cardinality(UpTo(n)) # Cardinality(UpTo(m))
    BY <1>4, <2>1, FS_Subset
  <2>3. Cardinality(UpTo(n)) \in Nat /\ Cardinality(UpTo(m)) \in Nat
    BY <1>4
  <2> HIDE DEF UpTo
  <2> QED BY <2>2, <2>3
<1>6. rank \in [S -> 1..N]
  BY <1>4
<1> HIDE DEF rank
<1>7. rank \in Injection(S, 1..N)
  <2>1. ASSUME NEW n \in S, NEW m \in S, rank[n] = rank[m] PROVE n = m
    <3>1. n \in Nat /\ m \in Nat /\ rank[n] \in Nat /\ rank[m] \in Nat
      BY <1>1, <1>2, <1>6
    <3> QED BY <1>5, <2>1, <3>1
  <2> QED BY <1>6, <2>1 DEF Injection, IsInjective
<1>8. rank \in Surjection(S, 1..N)
  BY <1>3, <1>7, FS_Injection
<1> DEFINE listed == [i \in 1..N |-> CHOOSE n \in S : rank[n] = i]
<1>9. \A i \in 1..N : listed[i] \in S /\ rank[listed[i]] = i
  BY <1>8 DEF Surjection
<1>10. listed \in [1..N -> S]
  BY <1>9
<1> HIDE DEF listed, N
<1>11. Rises(listed)
  <2>1. ASSUME NEW i \in 1..N, NEW j \in 1..N, i < j PROVE listed[i] < listed[j]
    <3>1. i \in Nat /\ j \in Nat /\ listed[i] \in Nat /\ listed[j] \in Nat
      <4>1. i \in Nat /\ j \in Nat
        BY <1>2 DEF N
      <4>2. listed[i] \in S /\ listed[j] \in S
        BY <1>9
      <4> QED BY <1>1, <4>1, <4>2
    <3>2. ~ listed[j] < listed[i]
      BY <1>5, <1>9, <2>1, <3>1
    <3>3. listed[i] # listed[j]
      BY <1>9, <2>1, <3>1
    <3> QED BY <3>1, <3>2, <3>3
  <2> QED BY <1>10, <2>1
<1>12. Rises(Sorted(S))
  <2>1. Sorted(S) = CHOOSE q \in [1..N -> S] : \A i, j \in DOMAIN q : i < j => q[i] < q[j]
    BY DEF Sorted, N
  <2> QED BY <1>11, <2>1
<1> DEFINE q == Sorted(S)
<1> HIDE DEF q
<1>13. q \in [1..N -> S] /\ \A i, j \in 1..N : i < j => q[i] < q[j]
  BY <1>12 DEF q
<1>14. ASSUME NEW i \in 1..N, NEW j \in 1..N, q[i] = q[j] PROVE i = j
  <2>1. i \in Nat /\ j \in Nat
    BY <1>2 DEF N
  <2>2. q[i] \in S /\ q[j] \in S
    BY <1>13
  <2>3. q[i] \in Nat /\ q[j] \in Nat
    BY <1>1, <2>2
  <2> QED BY <1>13, <1>14, <2>1, <2>3
<1>15. q \in Injection(1..N, S)
  BY <1>13, <1>14 DEF Injection, IsInjective
<1>16. q \in Surjection(1..N, S)
  <2>1. Cardinality(1..N) = Cardinality(S)
    BY <1>3 DEF N
  <2> QED BY <1>1, <1>15, <2>1, FS_Injection
<1>17. \A n \in S : \E i \in 1..N : q[i] = n
  BY <1>16 DEF Surjection
<1> QED BY <1>2, <1>13, <1>14, <1>17 DEF q, N

\* One group alone.
LEMMA OneGroup ==
    ASSUME NEW g \in Seq(Statement), IsInjective(g)
    PROVE  Arranged(g, {g})
  BY DEF Arranged, Before, ToSet

\* No groups at all.
LEMMA NoGroups == Arranged(<<>>, {})
<1>1. <<>> \in Seq(Statement) /\ DOMAIN <<>> = {}
  OBVIOUS
<1> QED BY <1>1 DEF Arranged, ToSet, IsInjective

\* The statements of two sequences, one after the other.
LEMMA OneThenOther ==
    ASSUME NEW q \in Seq(Statement), NEW r \in Seq(Statement)
    PROVE  /\ q \o r \in Seq(Statement)
           /\ ToSet(q \o r) = ToSet(q) \cup ToSet(r)
           /\ \A i \in DOMAIN q : i \in DOMAIN (q \o r) /\ (q \o r)[i] = q[i]
           /\ \A i \in DOMAIN r : Len(q) + i \in DOMAIN (q \o r) /\ (q \o r)[Len(q) + i] = r[i]
           /\ \A i \in DOMAIN (q \o r) :
                  i \in DOMAIN q \/ (i - Len(q) \in DOMAIN r /\ (q \o r)[i] = r[i - Len(q)])
<1> DEFINE c == q \o r
<1>1. /\ c \in Seq(Statement) /\ Len(c) = Len(q) + Len(r)
      /\ \A i \in 1..Len(q) + Len(r) : c[i] = IF i <= Len(q) THEN q[i] ELSE r[i - Len(q)]
  BY ConcatProperties
<1>2. /\ Len(q) \in Nat /\ Len(r) \in Nat /\ DOMAIN q = 1..Len(q) /\ DOMAIN r = 1..Len(r)
      /\ DOMAIN c = 1..Len(q) + Len(r)
  BY <1>1, LenProperties
<1> HIDE DEF c
<1>3. \A i \in DOMAIN q : i \in DOMAIN c /\ c[i] = q[i]
  BY <1>1, <1>2
<1>4. \A i \in DOMAIN r : Len(q) + i \in DOMAIN c /\ c[Len(q) + i] = r[i]
  BY <1>1, <1>2
<1>5. \A i \in DOMAIN c : i \in DOMAIN q \/ (i - Len(q) \in DOMAIN r /\ c[i] = r[i - Len(q)])
  BY <1>1, <1>2
<1>6. ToSet(c) = ToSet(q) \cup ToSet(r)
  BY <1>3, <1>4, <1>5 DEF ToSet
<1> QED BY <1>1, <1>3, <1>4, <1>5, <1>6 DEF c

\* Sequences of different statements are put together with all their groups.
LEMMA GroupsJoined ==
    ASSUME NEW q, NEW r, NEW F, NEW G, Arranged(q, F), Arranged(r, G),
           ToSet(q) \cap ToSet(r) = {}
    PROVE  Arranged(q \o r, F \cup G)
<1> DEFINE c == q \o r
           n == Len(q)
<1>1. q \in Seq(Statement) /\ r \in Seq(Statement)
  BY DEF Arranged
<1>2. /\ c \in Seq(Statement)
      /\ ToSet(c) = ToSet(q) \cup ToSet(r)
      /\ \A i \in DOMAIN q : i \in DOMAIN c /\ c[i] = q[i]
      /\ \A i \in DOMAIN r : n + i \in DOMAIN c /\ c[n + i] = r[i]
      /\ \A i \in DOMAIN c : i \in DOMAIN q \/ (i - n \in DOMAIN r /\ c[i] = r[i - n])
  BY <1>1, OneThenOther
<1>3. /\ n \in Nat /\ DOMAIN q \subseteq Nat /\ DOMAIN r \subseteq Nat /\ DOMAIN c \subseteq Nat
  BY <1>1, <1>2, LenProperties
<1> HIDE DEF c, n
<1>4. ToSet(c) = UNION {ToSet(g) : g \in F \cup G}
  BY <1>2 DEF Arranged
<1>5. ASSUME NEW g \in F \cup G, NEW i \in DOMAIN g, NEW j \in DOMAIN g, i < j
      PROVE  Before(c, g[i], g[j])
  <2>1. CASE g \in F
    <3>1. PICK k \in DOMAIN q, l \in DOMAIN q : k < l /\ q[k] = g[i] /\ q[l] = g[j]
      BY <1>5, <2>1 DEF Arranged, Before
    <3> QED BY <1>2, <3>1 DEF Before
  <2>2. CASE g \in G
    <3>1. PICK k \in DOMAIN r, l \in DOMAIN r : k < l /\ r[k] = g[i] /\ r[l] = g[j]
      BY <1>5, <2>2 DEF Arranged, Before
    <3>2. n + k \in DOMAIN c /\ n + l \in DOMAIN c /\ n + k < n + l /\ c[n + k] = g[i] /\ c[n + l] = g[j]
      BY <1>2, <1>3, <3>1
    <3> QED BY <3>2 DEF Before
  <2> QED BY <2>1, <2>2
<1>6. IsInjective(c)
  <2>1. ASSUME NEW i \in DOMAIN c, NEW j \in DOMAIN c, c[i] = c[j] PROVE i = j
    <3>1. \A k \in DOMAIN q, l \in DOMAIN r : q[k] # r[l]
      BY DEF ToSet
    <3>2. CASE i \in DOMAIN q /\ j \in DOMAIN q
      BY <1>2, <2>1, <3>2 DEF Arranged, IsInjective
    <3>3. CASE i \in DOMAIN q /\ j \notin DOMAIN q
      BY <1>2, <2>1, <3>1, <3>3
    <3>4. CASE i \notin DOMAIN q /\ j \in DOMAIN q
      BY <1>2, <2>1, <3>1, <3>4
    <3>5. CASE i \notin DOMAIN q /\ j \notin DOMAIN q
      <4>1. i - n \in DOMAIN r /\ j - n \in DOMAIN r /\ r[i - n] = r[j - n]
        BY <1>2, <2>1, <3>5
      <4>2. i - n = j - n
        BY <4>1 DEF Arranged, IsInjective
      <4> QED BY <1>3, <4>2
    <3> QED BY <3>2, <3>3, <3>4, <3>5
  <2> QED BY <2>1 DEF IsInjective
<1> QED BY <1>2, <1>4, <1>5, <1>6 DEF Arranged, c

\* Sequences flattened one after the other.
LEMMA FlattenSteps ==
    ASSUME NEW T, NEW N \in Nat, NEW seqs \in [1..N -> Seq(T)]
    PROVE  \E f : /\ f[0] = <<>> /\ FlattenSeq(seqs) = f[N]
                  /\ \A i \in 1..N : f[i] = f[i - 1] \o seqs[i]
<1>1. seqs \in Seq(Seq(T)) /\ Len(seqs) = N /\ DOMAIN seqs = 1..N
  OBVIOUS
<1>2. CASE N = 0
  <2>1. seqs = <<>> /\ Len(seqs) = 0
    BY <1>1, <1>2
  <2>2. FlattenSeq(seqs) = <<>>
    BY <2>1 DEF FlattenSeq
  <2> DEFINE f == [i \in {0} |-> <<>>]
  <2>3. f[0] = <<>> /\ \A i \in 1..N : f[i] = f[i - 1] \o seqs[i]
    BY <1>2
  <2> HIDE DEF f
  <2> QED BY <1>2, <2>2, <2>3
<1>3. CASE N # 0
  <2> DEFINE Q == Seq(T)
             e == <<>>
             G == [n \in Nat |-> [q \in Q |-> IF n \in 1..N THEN q \o seqs[n] ELSE q]]
             IsFlat(h) == h = [i \in 1..N |-> IF i = 1 THEN seqs[i] ELSE h[i - 1] \o seqs[i]]
  <2>1. e \in Q
    OBVIOUS
  <2>2. G \in [Nat -> [Q -> Q]]
    OBVIOUS
  <2>3. \A n \in 1..N : \A q \in Q : G[n][q] = q \o seqs[n]
    OBVIOUS
  <2>4. \A n \in 1..N : seqs[n] \in Q
    OBVIOUS
  <2>5. \A q \in Q : e \o q = q
    OBVIOUS
  <2> HIDE DEF G, Q, e
  <2>6. PICK f \in [Nat -> Q] : f[0] = e /\ \A n \in Nat \ {0} : f[n] = G[n][f[n - 1]]
    <3> DEFINE Made(SS, aa, GG) ==
                 \E h \in [Nat -> SS] : h[0] = aa /\ \A n \in Nat \ {0} : h[n] = GG[n][h[n - 1]]
    <3>1. \A SS : \A aa \in SS : \A GG \in [Nat -> [SS -> SS]] : Made(SS, aa, GG)
      BY Recursion
    <3>2. Made(Q, e, G)
      <4> HIDE DEF Made
      <4> QED BY <2>1, <2>2, <3>1
    <3> QED BY <3>2
  <2>7. ASSUME NEW n \in 1..N PROVE f[n] = f[n - 1] \o seqs[n]
    <3>1. n \in Nat \ {0} /\ n - 1 \in Nat /\ f[n - 1] \in Q
      OBVIOUS
    <3> QED BY <2>3, <2>6, <3>1
  <2> DEFINE g == [i \in 1..N |-> f[i]]
  <2>8. IsFlat(g)
    <3>1. ASSUME NEW i \in 1..N PROVE f[i] = IF i = 1 THEN seqs[i] ELSE g[i - 1] \o seqs[i]
      <4>1. CASE i = 1
        <5>1. f[1] = f[0] \o seqs[1]
          BY <2>7, <4>1
        <5> QED BY <2>4, <2>5, <2>6, <4>1, <5>1
      <4>2. CASE i # 1
        <5>1. i - 1 \in 1..N
          BY <4>2
        <5>2. g[i - 1] = f[i - 1]
          BY <5>1
        <5> QED BY <2>7, <4>2, <5>2
      <4> QED BY <4>1, <4>2
    <3> QED BY <3>1
  <2> DEFINE flat == CHOOSE h : IsFlat(h)
  <2>9. IsFlat(flat)
    <3> HIDE DEF IsFlat, g
    <3> QED BY <2>8
  <2>10. FlattenSeq(seqs) = flat[N]
    BY <1>1, <1>3 DEF FlattenSeq
  <2> DEFINE r == [i \in 0..N |-> IF i = 0 THEN e ELSE flat[i]]
  <2> HIDE DEF flat
  <2>11. \A i \in 1..N : flat[i] = IF i = 1 THEN seqs[i] ELSE flat[i - 1] \o seqs[i]
    BY <2>9
  <2>12. ASSUME NEW i \in 1..N PROVE r[i] = r[i - 1] \o seqs[i]
    <3>1. r[i] = flat[i]
      OBVIOUS
    <3>2. CASE i = 1
      <4>1. r[i - 1] = e
        BY <3>2
      <4> QED BY <2>4, <2>5, <2>11, <3>1, <3>2, <4>1
    <3>3. CASE i # 1
      <4>1. r[i - 1] = flat[i - 1]
        BY <3>3
      <4> QED BY <2>11, <3>1, <3>3, <4>1
    <3> QED BY <3>2, <3>3
  <2>13. r[0] = <<>> /\ r[N] = flat[N]
    BY <1>3 DEF e
  <2> HIDE DEF r
  <2> QED BY <2>10, <2>12, <2>13
<1> QED BY <1>2, <1>3

\* The groups of several names are arranged if no two names have a statement together.
LEMMA NamesInOrder ==
    ASSUME NEW S \in SUBSET Name, NEW of,
           \A n \in S : of[n] \in Seq(Statement) /\ IsInjective(of[n]),
           \A m, n \in S : ToSet(of[m]) \cap ToSet(of[n]) # {} => m = n
    PROVE  Arranged(InOrder(S, of), {of[n] : n \in S})
<1> DEFINE N == Cardinality(S)
           at == Sorted(S)
           seqs == [i \in 1..N |-> of[at[i]]]
<1>1. /\ N \in Nat /\ at \in [1..N -> S]
      /\ \A n \in S : \E i \in 1..N : at[i] = n
      /\ \A i, j \in 1..N : at[i] = at[j] => i = j
  BY SortedNames
<1>2. InOrder(S, of) = FlattenSeq(seqs)
  BY DEF InOrder
<1> HIDE DEF N, at
<1>3. seqs \in [1..N -> Seq(Statement)]
  BY <1>1
<1>4. PICK f : /\ f[0] = <<>> /\ FlattenSeq(seqs) = f[N]
               /\ \A i \in 1..N : f[i] = f[i - 1] \o seqs[i]
  <2> DEFINE Flat(TT, NN, qq) ==
               \E f : /\ f[0] = <<>> /\ FlattenSeq(qq) = f[NN]
                     /\ \A i \in 1..NN : f[i] = f[i - 1] \o qq[i]
  <2>1. \A TT : \A NN \in Nat : \A qq \in [1..NN -> Seq(TT)] : Flat(TT, NN, qq)
    BY FlattenSteps
  <2>2. Flat(Statement, N, seqs)
    <3> HIDE DEF Flat, seqs
    <3> QED BY <1>1, <1>3, <2>1
  <2> QED BY <2>2
<1>5. \A i \in 1..N : seqs[i] = of[at[i]] /\ at[i] \in S
  BY <1>1
<1> HIDE DEF seqs
<1> DEFINE Done(k) == Arranged(f[k], {seqs[i] : i \in 1..k})
           P == {k \in Nat : k <= N => Done(k)}
<1>6. 0 \in P
  <2>1. {seqs[i] : i \in 1..0} = {}
    OBVIOUS
  <2>2. Done(0)
    BY <1>4, <2>1, NoGroups
  <2> HIDE DEF Done
  <2> QED BY <2>2
<1>7. ASSUME NEW k \in P PROVE k + 1 \in P
  <2>1. k \in Nat
    OBVIOUS
  <2> SUFFICES ASSUME k + 1 <= N PROVE Done(k + 1)
    BY <2>1
  <2>2. Done(k) /\ k + 1 \in 1..N /\ (k + 1) - 1 = k
    BY <1>1, <2>1
  <2>3. f[k + 1] = f[k] \o seqs[k + 1]
    BY <1>4, <2>2
  <2> DEFINE g == seqs[k + 1]
  <2>4. g \in Seq(Statement) /\ IsInjective(g)
    BY <1>5, <2>2
  <2>5. Arranged(g, {g})
    <3> HIDE DEF g
    <3> QED BY <2>4, OneGroup
  <2>6. ToSet(f[k]) \cap ToSet(g) = {}
    <3>1. ASSUME NEW s \in ToSet(f[k]), s \in ToSet(g) PROVE FALSE
      <4>1. PICK i \in 1..k : s \in ToSet(seqs[i])
        BY <2>2 DEF Arranged
      <4>2. i \in 1..N /\ i # k + 1
        BY <1>1, <2>1, <2>2
      <4>3. at[i] = at[k + 1]
        BY <1>5, <2>2, <3>1, <4>1, <4>2
      <4> QED BY <1>1, <2>2, <4>2, <4>3
    <3> QED BY <3>1
  <2>7. Arranged(f[k] \o g, {seqs[i] : i \in 1..k} \cup {g})
    <3> HIDE DEF g
    <3> QED BY <2>2, <2>5, <2>6, GroupsJoined
  <2>8. {seqs[i] : i \in 1..k + 1} = {seqs[i] : i \in 1..k} \cup {g}
    <3>1. 1..k + 1 = (1..k) \cup {k + 1}
      BY <2>1
    <3> QED BY <3>1
  <2> QED BY <2>3, <2>7, <2>8
<1>8. P = Nat
  <2> HIDE DEF P
  <2> QED BY <1>6, <1>7, Induction DEF P
<1>9. Done(N)
  <2>1. N \in P /\ N \in Nat
    <3> HIDE DEF P
    <3> QED BY <1>1, <1>8
  <2> HIDE DEF Done
  <2> QED BY <2>1
<1>10. {seqs[i] : i \in 1..N} = {of[n] : n \in S}
  BY <1>1, <1>5
<1> QED BY <1>2, <1>4, <1>9, <1>10

-----------------------------------------------------------------------------
(* The changes between two catalogs in which every name keeps its table.   *)

Catalogued ==
    /\ old \in UNION {Catalogs(names) : names \in SUBSET Name}
    /\ new \in UNION {Catalogs(names) : names \in SUBSET Name}
Calm == Catalogued /\ ~ReuseIn(old, new)

Kept == DOMAIN old \cap DOMAIN new
Follows(d, c) == d \in DOMAIN old \ DOMAIN new /\ c \in DOMAIN new \ DOMAIN old /\ old[d].id = new[c].id
\* What is called d becomes what is called c.
Becomes(d, c) == Follows(d, c) \/ (d = c /\ c \in Kept)
Rebuilt(d, c) == old[d].layout # new[c].layout
Altered(d, c) == ~Rebuilt(d, c) /\ old[d].columns # new[c].columns
Lost == {n \in DOMAIN old \ DOMAIN new : \A c \in DOMAIN new : ~Follows(n, c)}
Added == {n \in DOMAIN new \ DOMAIN old : \A d \in DOMAIN old : ~Follows(d, n)}

Groups == {Evolve(p[1], p[2]) : p \in {p \in Name \X Name : Becomes(p[1], p[2])}}
          \cup {<<Drop(n)>> : n \in Lost} \cup {<<Create(n)>> : n \in Added}

\* Names have definitions, each with an identity of its own.
LEMMA CatalogTypes ==
    ASSUME NEW c \in UNION {Catalogs(names) : names \in SUBSET Name}
    PROVE  /\ DOMAIN c \subseteq Name
           /\ \A n \in DOMAIN c : c[n] \in Definition
           /\ \A m, n \in DOMAIN c : c[m].id = c[n].id => m = n
<1>1. PICK names \in SUBSET Name : c \in Catalogs(names)
  OBVIOUS
<1>2. c \in [names -> Definition] /\ IsInjective([n \in names |-> c[n].id])
  BY <1>1 DEF Catalogs
<1>3. DOMAIN c = names
  BY <1>2
<1>4. \A n \in DOMAIN c : c[n] \in Definition
  BY <1>2
<1>5. \A m, n \in names : c[m].id = c[n].id => m = n
  BY <1>2 DEF IsInjective
<1> QED BY <1>3, <1>4, <1>5

\* Where no name is reused, a name in both catalogs is the same table.
LEMMA CalmNames ==
    ASSUME Calm
    PROVE  /\ Same = Kept
           /\ Dropped = DOMAIN old \ DOMAIN new
           /\ Created = DOMAIN new \ DOMAIN old
           /\ \A c \in Created : Former(c) = {d \in DOMAIN old : Follows(d, c)}
           /\ \A n \in Kept : old[n].id = new[n].id
<1>1. \A n \in Kept : old[n].id = new[n].id
  BY DEF Calm, ReuseIn, Kept
<1>2. Same = Kept
  BY <1>1 DEF Same, Kept
<1>3. Dropped = DOMAIN old \ DOMAIN new /\ Created = DOMAIN new \ DOMAIN old
  BY <1>2 DEF Dropped, Created, Kept
<1>4. \A c \in Created : Former(c) = {d \in DOMAIN old : Follows(d, c)}
  BY <1>3 DEF Former, Follows
<1> QED BY <1>1, <1>2, <1>3, <1>4

\* A table follows one table, and one follows it.
LEMMA OneFollows ==
    ASSUME Catalogued
    PROVE  /\ \A d, c, e : Follows(d, c) /\ Follows(d, e) => c = e
           /\ \A d, c, e : Follows(d, c) /\ Follows(e, c) => d = e
  BY CatalogTypes DEF Catalogued, Follows

\* Statements about names are statements.
LEMMA StatementTypes ==
    ASSUME NEW d \in Name, NEW c \in Name
    PROVE  /\ Drop(d) \in Statement /\ Create(c) \in Statement
           /\ Rename(d, c) \in Statement /\ Alter(d, c) \in Statement
  BY DEF Statement, Drop, Create, Rename, Alter

\* The statements from one definition to the other, case by case.
LEMMA EvolveIs ==
    ASSUME NEW d, NEW c
    PROVE  Evolve(d, c) =
             IF Rebuilt(d, c) THEN <<Drop(d), Create(c)>>
             ELSE IF Altered(d, c) THEN IF d = c THEN <<Alter(d, c)>> ELSE <<Rename(d, c), Alter(d, c)>>
             ELSE IF d = c THEN <<>> ELSE <<Rename(d, c)>>
<1>1. CASE Rebuilt(d, c)
  BY <1>1 DEF Evolve, Rebuilt
<1>2. CASE ~Rebuilt(d, c)
  <2>1. Evolve(d, c) = (IF d # c THEN <<Rename(d, c)>> ELSE <<>>)
                       \o (IF old[d].columns # new[c].columns THEN <<Alter(d, c)>> ELSE <<>>)
    BY <1>2 DEF Evolve, Rebuilt
  <2>2. \A r, a : /\ <<r>> \o <<a>> = <<r, a>> /\ <<r>> \o <<>> = <<r>>
                  /\ <<>> \o <<a>> = <<a>> /\ <<>> \o <<>> = <<>>
    <3> TAKE r, a
    <3>1. <<r>> \in Seq({r, a}) /\ <<a>> \in Seq({r, a}) /\ <<>> \in Seq({r, a})
      OBVIOUS
    <3>2. <<r>> \o <<a>> = <<r, a>>
      <4> DEFINE u == <<r>>
                 v == <<a>>
                 w == u \o v
      <4>1. u \in Seq({r, a}) /\ v \in Seq({r, a}) /\ Len(u) = 1 /\ Len(v) = 1 /\ u[1] = r /\ v[1] = a
        OBVIOUS
      <4> HIDE DEF u, v
      <4>2. w \in Seq({r, a}) /\ Len(w) = 2 /\ w[1] = r /\ w[2] = a
        BY <4>1, ConcatProperties
      <4> HIDE DEF w
      <4>3. w = <<r, a>>
        BY <4>2
      <4> QED BY <4>3 DEF u, v, w
    <3>3. <<r>> \o <<>> = <<r>> /\ <<>> \o <<a>> = <<a>> /\ <<>> \o <<>> = <<>>
      BY <3>1, ConcatEmptySeq
    <3> QED BY <3>2, <3>3
  <2> DEFINE r == Rename(d, c)
             a == Alter(d, c)
  <2> HIDE DEF r, a
  <2>3. Evolve(d, c) = (IF d # c THEN <<r>> ELSE <<>>)
                       \o (IF old[d].columns # new[c].columns THEN <<a>> ELSE <<>>)
    BY <2>1 DEF r, a
  <2>4. Evolve(d, c) = IF old[d].columns # new[c].columns THEN IF d = c THEN <<a>> ELSE <<r, a>>
                       ELSE IF d = c THEN <<>> ELSE <<r>>
    <3>1. CASE d = c /\ old[d].columns = new[c].columns
      BY <2>2, <2>3, <3>1
    <3>2. CASE d # c /\ old[d].columns = new[c].columns
      BY <2>2, <2>3, <3>2
    <3>3. CASE d = c /\ old[d].columns # new[c].columns
      BY <2>2, <2>3, <3>3
    <3>4. CASE d # c /\ old[d].columns # new[c].columns
      BY <2>2, <2>3, <3>4
    <3> QED BY <3>1, <3>2, <3>3, <3>4
  <2> QED BY <1>2, <2>4 DEF Altered, r, a
<1> QED BY <1>1, <1>2

\* They are different, and these.
LEMMA EvolveArranged ==
    ASSUME NEW d \in Name, NEW c \in Name
    PROVE  /\ Evolve(d, c) \in Seq(Statement) /\ IsInjective(Evolve(d, c))
           /\ \A s : s \in ToSet(Evolve(d, c)) <=>
                \/ Rebuilt(d, c) /\ (s = Drop(d) \/ s = Create(c))
                \/ ~Rebuilt(d, c) /\ d # c /\ s = Rename(d, c)
                \/ Altered(d, c) /\ s = Alter(d, c)
<1>1. \A s, t \in Statement :
        /\ <<s, t>> \in Seq(Statement) /\ (s # t => IsInjective(<<s, t>>))
        /\ \A u : u \in ToSet(<<s, t>>) <=> u = s \/ u = t
  BY DEF IsInjective, ToSet
<1>2. \A s \in Statement :
        /\ <<s>> \in Seq(Statement) /\ IsInjective(<<s>>)
        /\ \A u : u \in ToSet(<<s>>) <=> u = s
  BY DEF IsInjective, ToSet
<1>3. <<>> \in Seq(Statement) /\ IsInjective(<<>>) /\ \A u : u \notin ToSet(<<>>)
  BY DEF IsInjective, ToSet
<1>4. Drop(d) # Create(c) /\ Rename(d, c) # Alter(d, c)
  BY DEF Drop, Create, Rename, Alter
<1>5. Altered(d, c) => ~Rebuilt(d, c)
  BY DEF Altered
<1>6. CASE Rebuilt(d, c)
  <2>1. Evolve(d, c) = <<Drop(d), Create(c)>>
    BY <1>5, <1>6, EvolveIs
  <2> QED BY <1>1, <1>4, <1>5, <1>6, <2>1, StatementTypes
<1>7. CASE Altered(d, c) /\ d = c
  <2>1. Evolve(d, c) = <<Alter(d, c)>>
    BY <1>5, <1>7, EvolveIs
  <2> QED BY <1>2, <1>5, <1>7, <2>1, StatementTypes
<1>8. CASE Altered(d, c) /\ d # c
  <2>1. Evolve(d, c) = <<Rename(d, c), Alter(d, c)>>
    BY <1>5, <1>8, EvolveIs
  <2> QED BY <1>1, <1>4, <1>5, <1>8, <2>1, StatementTypes
<1>9. CASE ~Rebuilt(d, c) /\ ~Altered(d, c) /\ d = c
  <2>1. Evolve(d, c) = <<>>
    BY <1>5, <1>9, EvolveIs
  <2> QED BY <1>3, <1>5, <1>9, <2>1, StatementTypes
<1>10. CASE ~Rebuilt(d, c) /\ ~Altered(d, c) /\ d # c
  <2>1. Evolve(d, c) = <<Rename(d, c)>>
    BY <1>5, <1>10, EvolveIs
  <2> QED BY <1>2, <1>5, <1>10, <2>1, StatementTypes
<1> QED BY <1>5, <1>6, <1>7, <1>8, <1>9, <1>10

\* A statement about one table alone.
LEMMA AloneArranged ==
    ASSUME NEW s \in Statement
    PROVE  <<s>> \in Seq(Statement) /\ IsInjective(<<s>>) /\ \A u : u \in ToSet(<<s>>) <=> u = s
  BY DEF IsInjective, ToSet

\* The four parts of the changes.
LEMMA RenamedPart ==
    ASSUME Calm
    PROVE  LET part == InOrder(Renamed, [c \in Renamed |-> Evolve(CHOOSE d \in Former(c) : TRUE, c)])
           IN  Arranged(part, {Evolve(p[1], p[2]) : p \in {p \in Name \X Name : Follows(p[1], p[2])}})
<1> DEFINE of == [c \in Renamed |-> Evolve(CHOOSE d \in Former(c) : TRUE, c)]
           from(c) == CHOOSE d \in Former(c) : TRUE
<1>1. DOMAIN old \subseteq Name /\ DOMAIN new \subseteq Name
  BY CatalogTypes DEF Calm, Catalogued
<1>2. ASSUME NEW c \in Renamed PROVE c \in Name /\ from(c) \in Name /\ Follows(from(c), c) /\ of[c] = Evolve(from(c), c)
  <2>1. c \in Created /\ Former(c) # {}
    BY DEF Renamed
  <2>2. from(c) \in Former(c)
    BY <2>1
  <2> QED BY <1>1, <2>1, <2>2, CalmNames
<1> HIDE DEF of
<1>3. ASSUME NEW d, NEW c, Follows(d, c) PROVE c \in Renamed /\ from(c) = d
  <2>1. c \in Created /\ d \in Former(c)
    BY <1>3, CalmNames DEF Follows
  <2>2. c \in Renamed
    BY <2>1 DEF Renamed
  <2>3. Follows(from(c), c)
    BY <1>2, <2>2
  <2> QED BY <1>3, <2>2, <2>3, OneFollows DEF Calm
<1> HIDE DEF from
<1>4. \A c \in Renamed : of[c] \in Seq(Statement) /\ IsInjective(of[c])
  BY <1>2, EvolveArranged
<1>5. ASSUME NEW m \in Renamed, NEW n \in Renamed, ToSet(of[m]) \cap ToSet(of[n]) # {} PROVE m = n
  <2>1. PICK s : s \in ToSet(of[m]) /\ s \in ToSet(of[n])
    BY <1>5
  <2>2. s.to = m \/ (s.op = "DROP" /\ s.to = from(m))
    BY <1>2, <2>1, EvolveArranged DEF Drop, Create, Rename, Alter
  <2>3. s.to = n \/ (s.op = "DROP" /\ s.to = from(n))
    BY <1>2, <2>1, EvolveArranged DEF Drop, Create, Rename, Alter
  <2>4. from(m) # n /\ from(n) # m
    BY <1>2 DEF Follows
  <2>5. from(m) = from(n) => m = n
    BY <1>2, OneFollows DEF Calm
  <2> QED BY <2>2, <2>3, <2>4, <2>5
<1>6. Renamed \in SUBSET Name
  BY <1>2
<1>7. Arranged(InOrder(Renamed, of), {of[n] : n \in Renamed})
  BY <1>4, <1>5, <1>6, NamesInOrder
<1>8. {of[n] : n \in Renamed} = {Evolve(p[1], p[2]) : p \in {p \in Name \X Name : Follows(p[1], p[2])}}
  <2> DEFINE R == {Evolve(p[1], p[2]) : p \in {p \in Name \X Name : Follows(p[1], p[2])}}
  <2>1. ASSUME NEW n \in Renamed PROVE of[n] \in R
    <3>1. <<from(n), n>> \in Name \X Name /\ Follows(from(n), n)
      BY <1>2
    <3> QED BY <1>2, <3>1
  <2>2. ASSUME NEW p \in Name \X Name, Follows(p[1], p[2]) PROVE Evolve(p[1], p[2]) \in {of[n] : n \in Renamed}
    <3>1. p[2] \in Renamed /\ from(p[2]) = p[1]
      BY <1>3, <2>2
    <3>2. of[p[2]] = Evolve(p[1], p[2])
      BY <1>2, <3>1
    <3> QED BY <3>1, <3>2
  <2> QED BY <2>1, <2>2
<1> QED BY <1>7, <1>8 DEF of

\* Tables that nothing follows are dropped.
LEMMA LostPart ==
    ASSUME Calm
    PROVE  LET part == InOrder(Dropped \ UNION {Former(c) : c \in Renamed}, [n \in Dropped |-> <<Drop(n)>>])
           IN  Arranged(part, {<<Drop(n)>> : n \in Lost})
<1> DEFINE S == Dropped \ UNION {Former(c) : c \in Renamed}
           of == [n \in Dropped |-> <<Drop(n)>>]
<1>1. DOMAIN old \subseteq Name
  BY CatalogTypes DEF Calm, Catalogued
<1>2. S = Lost
  <2>1. ASSUME NEW n \in Dropped, n \notin UNION {Former(c) : c \in Renamed}, NEW c \in DOMAIN new, Follows(n, c)
        PROVE  FALSE
    <3>1. c \in Created /\ n \in Former(c)
      BY <2>1, CalmNames DEF Follows
    <3> QED BY <2>1, <3>1 DEF Renamed
  <2>2. ASSUME NEW n \in Lost, NEW c \in Renamed, n \in Former(c) PROVE FALSE
    <3>1. c \in Created /\ c \in DOMAIN new
      BY CalmNames DEF Renamed
    <3> QED BY <2>2, <3>1, CalmNames DEF Lost
  <2>3. Lost \subseteq Dropped
    BY CalmNames DEF Lost
  <2>4. Dropped = DOMAIN old \ DOMAIN new
    BY CalmNames
  <2> QED BY <2>1, <2>2, <2>3, <2>4 DEF Lost
<1>3. \A n \in S : n \in Name /\ of[n] = <<Drop(n)>>
  BY <1>1, CalmNames
<1> HIDE DEF S, of
<1>4. \A n \in S : of[n] \in Seq(Statement) /\ IsInjective(of[n]) /\ \A u : u \in ToSet(of[n]) <=> u = Drop(n)
  BY <1>3, AloneArranged, StatementTypes
<1>5. ASSUME NEW m \in S, NEW n \in S, ToSet(of[m]) \cap ToSet(of[n]) # {} PROVE m = n
  <2>1. Drop(m) = Drop(n)
    BY <1>4, <1>5
  <2> QED BY <2>1 DEF Drop
<1>6. S \in SUBSET Name
  BY <1>3
<1>7. Arranged(InOrder(S, of), {of[n] : n \in S})
  <2>1. \A n \in S : of[n] \in Seq(Statement) /\ IsInjective(of[n])
    BY <1>4
  <2> QED BY <1>5, <1>6, <2>1, NamesInOrder
<1>8. {of[n] : n \in S} = {<<Drop(n)>> : n \in Lost}
  BY <1>2, <1>3
<1> QED BY <1>7, <1>8 DEF S, of

\* Tables that follow nothing are created.
LEMMA AddedPart ==
    ASSUME Calm
    PROVE  LET part == InOrder(Created \ Renamed, [n \in Created |-> <<Create(n)>>])
           IN  Arranged(part, {<<Create(n)>> : n \in Added})
<1> DEFINE S == Created \ Renamed
           of == [n \in Created |-> <<Create(n)>>]
<1>1. DOMAIN new \subseteq Name
  BY CatalogTypes DEF Calm, Catalogued
<1>2. S = Added
  BY CalmNames DEF Renamed, Added, Follows
<1>3. \A n \in S : n \in Name /\ of[n] = <<Create(n)>>
  BY <1>1, CalmNames
<1> HIDE DEF S, of
<1>4. \A n \in S : of[n] \in Seq(Statement) /\ IsInjective(of[n]) /\ \A u : u \in ToSet(of[n]) <=> u = Create(n)
  BY <1>3, AloneArranged, StatementTypes
<1>5. ASSUME NEW m \in S, NEW n \in S, ToSet(of[m]) \cap ToSet(of[n]) # {} PROVE m = n
  <2>1. Create(m) = Create(n)
    BY <1>4, <1>5
  <2> QED BY <2>1 DEF Create
<1>6. S \in SUBSET Name
  BY <1>3
<1>7. Arranged(InOrder(S, of), {of[n] : n \in S})
  <2>1. \A n \in S : of[n] \in Seq(Statement) /\ IsInjective(of[n])
    BY <1>4
  <2> QED BY <1>5, <1>6, <2>1, NamesInOrder
<1>8. {of[n] : n \in S} = {<<Create(n)>> : n \in Added}
  BY <1>2, <1>3
<1> QED BY <1>7, <1>8 DEF S, of

\* Tables that keep their name evolve.
LEMMA KeptPart ==
    ASSUME Calm
    PROVE  LET part == InOrder(Same, [n \in Same |-> Evolve(n, n)])
           IN  Arranged(part, {Evolve(n, n) : n \in Kept})
<1> DEFINE of == [n \in Same |-> Evolve(n, n)]
<1>1. Same = Kept /\ Same \in SUBSET Name
  BY CalmNames, CatalogTypes DEF Calm, Catalogued, Kept
<1>2. \A n \in Same : n \in Name /\ of[n] = Evolve(n, n)
  BY <1>1
<1> HIDE DEF of
<1>3. \A n \in Same : of[n] \in Seq(Statement) /\ IsInjective(of[n])
  BY <1>2, EvolveArranged
<1>4. ASSUME NEW m \in Same, NEW n \in Same, ToSet(of[m]) \cap ToSet(of[n]) # {} PROVE m = n
  <2>1. PICK s : s \in ToSet(of[m]) /\ s \in ToSet(of[n])
    BY <1>4
  <2>2. s.to = m /\ s.to = n
    BY <1>2, <2>1, EvolveArranged DEF Drop, Create, Rename, Alter
  <2> QED BY <2>2
<1>5. Arranged(InOrder(Same, of), {of[n] : n \in Same})
  BY <1>1, <1>3, <1>4, NamesInOrder
<1>6. {of[n] : n \in Same} = {Evolve(n, n) : n \in Kept}
  BY <1>1, <1>2
<1> QED BY <1>5, <1>6 DEF of

\* All statements of all tables, each once, and those of one table in their order.
LEMMA ChangesArranged == Calm => Arranged(Changes, Groups)
<1> SUFFICES ASSUME Calm PROVE Arranged(Changes, Groups)
  OBVIOUS
<1> DEFINE p1 == InOrder(Renamed, [c \in Renamed |-> Evolve(CHOOSE d \in Former(c) : TRUE, c)])
           p2 == InOrder(Dropped \ UNION {Former(c) : c \in Renamed}, [n \in Dropped |-> <<Drop(n)>>])
           p3 == InOrder(Created \ Renamed, [n \in Created |-> <<Create(n)>>])
           p4 == InOrder(Same, [n \in Same |-> Evolve(n, n)])
           F1 == {Evolve(p[1], p[2]) : p \in {p \in Name \X Name : Follows(p[1], p[2])}}
           F2 == {<<Drop(n)>> : n \in Lost}
           F3 == {<<Create(n)>> : n \in Added}
           F4 == {Evolve(n, n) : n \in Kept}
<1>1. Arranged(p1, F1)
  BY RenamedPart
<1>2. Arranged(p2, F2)
  BY LostPart
<1>3. Arranged(p3, F3)
  BY AddedPart
<1>4. Arranged(p4, F4)
  BY KeptPart
<1>5. Changes = p1 \o p2 \o p3 \o p4
  BY DEF Changes
<1> HIDE DEF p1, p2, p3, p4
<1>6. Lost \subseteq Name /\ Added \subseteq Name /\ Kept \subseteq Name
  BY CatalogTypes DEF Calm, Catalogued, Lost, Added, Kept
<1>7. ASSUME NEW s \in ToSet(p1)
      PROVE  \E d \in Name, c \in Name : Follows(d, c) /\ s \in {Drop(d), Create(c), Rename(d, c), Alter(d, c)}
  <2>1. PICK p \in Name \X Name : Follows(p[1], p[2]) /\ s \in ToSet(Evolve(p[1], p[2]))
    BY <1>1 DEF Arranged
  <2> QED BY <2>1, EvolveArranged
<1>8. ASSUME NEW s \in ToSet(p2) PROVE \E n \in Lost : s = Drop(n)
  <2>1. PICK n \in Lost : s \in ToSet(<<Drop(n)>>)
    BY <1>2 DEF Arranged
  <2> QED BY <1>6, <2>1, AloneArranged, StatementTypes
<1>9. ASSUME NEW s \in ToSet(p3) PROVE \E n \in Added : s = Create(n)
  <2>1. PICK n \in Added : s \in ToSet(<<Create(n)>>)
    BY <1>3 DEF Arranged
  <2> QED BY <1>6, <2>1, AloneArranged, StatementTypes
<1>10. ASSUME NEW s \in ToSet(p4) PROVE \E n \in Kept : s \in {Drop(n), Create(n), Alter(n, n)}
  <2>1. PICK n \in Kept : s \in ToSet(Evolve(n, n))
    BY <1>4 DEF Arranged
  <2> QED BY <1>6, <2>1, EvolveArranged
<1>11. ToSet(p1) \cap ToSet(p2) = {}
  <2>1. ASSUME NEW s \in ToSet(p1), s \in ToSet(p2) PROVE FALSE
    <3>1. PICK n \in Lost : s = Drop(n)
      BY <1>8, <2>1
    <3>2. PICK d \in Name, c \in Name : Follows(d, c) /\ s \in {Drop(d), Create(c), Rename(d, c), Alter(d, c)}
      BY <1>7
    <3>3. n = d
      BY <3>1, <3>2 DEF Drop, Create, Rename, Alter
    <3> QED BY <3>2, <3>3 DEF Lost, Follows
  <2> QED BY <2>1
<1>12. Arranged(p1 \o p2, F1 \cup F2)
  BY <1>1, <1>2, <1>11, GroupsJoined
<1> DEFINE q2 == p1 \o p2
<1>13. ToSet(q2) = ToSet(p1) \cup ToSet(p2)
  BY <1>1, <1>2, OneThenOther DEF Arranged
<1> HIDE DEF q2
<1>14. ToSet(q2) \cap ToSet(p3) = {}
  <2>1. ASSUME NEW s \in ToSet(q2), s \in ToSet(p3) PROVE FALSE
    <3>1. PICK n \in Added : s = Create(n)
      BY <1>9, <2>1
    <3>2. CASE s \in ToSet(p1)
      <4>1. PICK d \in Name, c \in Name : Follows(d, c) /\ s \in {Drop(d), Create(c), Rename(d, c), Alter(d, c)}
        BY <1>7, <3>2
      <4>2. n = c
        BY <3>1, <4>1 DEF Drop, Create, Rename, Alter
      <4> QED BY <4>1, <4>2 DEF Added, Follows
    <3>3. CASE s \in ToSet(p2)
      <4>1. PICK m \in Lost : s = Drop(m)
        BY <1>8, <3>3
      <4> QED BY <3>1, <4>1 DEF Drop, Create
    <3> QED BY <1>13, <3>2, <3>3
  <2> QED BY <2>1
<1>15. Arranged(q2 \o p3, F1 \cup F2 \cup F3)
  BY <1>3, <1>12, <1>14, GroupsJoined DEF q2
<1> DEFINE q3 == q2 \o p3
<1>16. ToSet(q3) = ToSet(p1) \cup ToSet(p2) \cup ToSet(p3)
  <2>1. q2 \in Seq(Statement) /\ p3 \in Seq(Statement)
    BY <1>3, <1>12 DEF Arranged, q2
  <2> QED BY <1>13, <2>1, OneThenOther
<1> HIDE DEF q3
<1>17. ToSet(q3) \cap ToSet(p4) = {}
  <2>1. ASSUME NEW s \in ToSet(q3), s \in ToSet(p4) PROVE FALSE
    <3>1. PICK n \in Kept : s \in {Drop(n), Create(n), Alter(n, n)}
      BY <1>10, <2>1
    <3>2. CASE s \in ToSet(p1)
      <4>1. PICK d \in Name, c \in Name : Follows(d, c) /\ s \in {Drop(d), Create(c), Rename(d, c), Alter(d, c)}
        BY <1>7, <3>2
      <4>2. n = d \/ n = c
        BY <3>1, <4>1 DEF Drop, Create, Rename, Alter
      <4> QED BY <4>1, <4>2 DEF Kept, Follows
    <3>3. CASE s \in ToSet(p2)
      <4>1. PICK m \in Lost : s = Drop(m)
        BY <1>8, <3>3
      <4>2. n = m
        BY <3>1, <4>1 DEF Drop, Create, Alter
      <4> QED BY <4>2 DEF Lost, Kept
    <3>4. CASE s \in ToSet(p3)
      <4>1. PICK m \in Added : s = Create(m)
        BY <1>9, <3>4
      <4>2. n = m
        BY <3>1, <4>1 DEF Drop, Create, Alter
      <4> QED BY <4>2 DEF Added, Kept
    <3> QED BY <1>16, <3>2, <3>3, <3>4
  <2> QED BY <2>1
<1>18. Arranged(q3 \o p4, F1 \cup F2 \cup F3 \cup F4)
  BY <1>4, <1>15, <1>17, GroupsJoined DEF q3
<1>19. Changes = q3 \o p4
  BY <1>5 DEF q3, q2
<1>20. F1 \cup F2 \cup F3 \cup F4 = Groups
  <2>1. {Evolve(p[1], p[2]) : p \in {p \in Name \X Name : Becomes(p[1], p[2])}} = F1 \cup F4
    <3> DEFINE F == {Evolve(p[1], p[2]) : p \in {p \in Name \X Name : Becomes(p[1], p[2])}}
    <3>1. ASSUME NEW p \in Name \X Name, Becomes(p[1], p[2]) PROVE Evolve(p[1], p[2]) \in F1 \cup F4
      BY <3>1 DEF Becomes
    <3>2. ASSUME NEW p \in Name \X Name, Follows(p[1], p[2]) PROVE Evolve(p[1], p[2]) \in F
      BY <3>2 DEF Becomes
    <3>3. ASSUME NEW n \in Kept PROVE Evolve(n, n) \in F
      <4> DEFINE p == <<n, n>>
      <4>1. p \in Name \X Name /\ Becomes(p[1], p[2]) /\ p[1] = n /\ p[2] = n
        BY <1>6 DEF Becomes
      <4> HIDE DEF p
      <4> QED BY <4>1
    <3>4. F \subseteq F1 \cup F4
      <4> HIDE DEF F1, F4
      <4> QED BY <3>1
    <3>5. F1 \subseteq F /\ F4 \subseteq F
      <4> HIDE DEF F
      <4> QED BY <3>2, <3>3
    <3> QED BY <3>4, <3>5
  <2> QED BY <2>1 DEF Groups
<1> QED BY <1>18, <1>19, <1>20

\* The changes and the baseline are told by what does not change.
LEMMA SameCatalogs ==
    ASSUME UNCHANGED <<old, new, targets, anchors>>
    PROVE  /\ Changes' = Changes
           /\ BaselineNeeded' = BaselineNeeded
<1>1. Same' = Same /\ Dropped' = Dropped /\ Created' = Created
  BY DEF Same, Dropped, Created
<1>2. Renamed' = Renamed
  BY <1>1 DEF Renamed, Former, Dropped, Created, Same
<1>3. Changes' = Changes
  BY DEF Changes, InOrder, Renamed, Former, Dropped, Created, Same, Evolve
<1>4. BaselineNeeded' = BaselineNeeded
  BY <1>3 DEF BaselineNeeded, Ops, MadeInPhase2
<1> QED BY <1>3, <1>4

\* Which statements there are, and which come before which.
LEMMA ChangesAre ==
    ASSUME Calm
    PROVE  /\ Changes \in Seq(Statement) /\ IsInjective(Changes)
           /\ \A s \in ToSet(Changes) : \E d \in Name, c \in Name : s \in {Drop(d), Create(c), Rename(d, c), Alter(d, c)}
           /\ \A n \in Name :
                /\ Drop(n) \in ToSet(Changes) <=> n \in Lost \/ \E c \in Name : Becomes(n, c) /\ Rebuilt(n, c)
                /\ Create(n) \in ToSet(Changes) <=> n \in Added \/ \E d \in Name : Becomes(d, n) /\ Rebuilt(d, n)
                /\ n \in Kept /\ Rebuilt(n, n) => Before(Changes, Drop(n), Create(n))
           /\ \A d, c \in Name :
                /\ Rename(d, c) \in ToSet(Changes) <=> Follows(d, c) /\ ~Rebuilt(d, c)
                /\ Alter(d, c) \in ToSet(Changes) <=> Becomes(d, c) /\ Altered(d, c)
                /\ Follows(d, c) /\ Altered(d, c) => Before(Changes, Rename(d, c), Alter(d, c))
<1> DEFINE All == ToSet(Changes)
           Tells(s) == \/ \E d \in Name, c \in Name : Becomes(d, c) /\ s \in ToSet(Evolve(d, c))
                       \/ \E n \in Lost : s = Drop(n)
                       \/ \E n \in Added : s = Create(n)
<1>1. /\ Changes \in Seq(Statement) /\ IsInjective(Changes)
      /\ All = UNION {ToSet(g) : g \in Groups}
      /\ \A g \in Groups : \A i, j \in DOMAIN g : i < j => Before(Changes, g[i], g[j])
  BY ChangesArranged DEF Arranged
<1>2. Lost \subseteq Name /\ Added \subseteq Name /\ Kept \subseteq Name
  BY CatalogTypes DEF Calm, Catalogued, Lost, Added, Kept
<1>3. \A d \in Name, c \in Name : Becomes(d, c) => Evolve(d, c) \in Groups
  <2> TAKE d \in Name, c \in Name
  <2> HAVE Becomes(d, c)
  <2> DEFINE p == <<d, c>>
  <2>1. p \in Name \X Name /\ Becomes(p[1], p[2]) /\ Evolve(p[1], p[2]) = Evolve(d, c)
    OBVIOUS
  <2> HIDE DEF p
  <2> QED BY <2>1 DEF Groups
<1>4. \A s : s \in All <=> Tells(s)
  <2> TAKE s
  <2>1. ASSUME s \in All PROVE Tells(s)
    <3>1. PICK g \in Groups : s \in ToSet(g)
      BY <1>1, <2>1
    <3>2. CASE g \in {Evolve(p[1], p[2]) : p \in {p \in Name \X Name : Becomes(p[1], p[2])}}
      <4>1. PICK p \in Name \X Name : Becomes(p[1], p[2]) /\ g = Evolve(p[1], p[2])
        BY <3>2
      <4> QED BY <3>1, <4>1
    <3>3. CASE g \in {<<Drop(n)>> : n \in Lost}
      <4>1. PICK n \in Lost : g = <<Drop(n)>>
        BY <3>3
      <4> QED BY <1>2, <3>1, <4>1, AloneArranged, StatementTypes
    <3>4. CASE g \in {<<Create(n)>> : n \in Added}
      <4>1. PICK n \in Added : g = <<Create(n)>>
        BY <3>4
      <4> QED BY <1>2, <3>1, <4>1, AloneArranged, StatementTypes
    <3> QED BY <3>1, <3>2, <3>3, <3>4 DEF Groups
  <2>2. ASSUME Tells(s) PROVE s \in All
    <3>1. CASE \E d \in Name, c \in Name : Becomes(d, c) /\ s \in ToSet(Evolve(d, c))
      BY <1>1, <1>3, <3>1
    <3>2. CASE \E n \in Lost : s = Drop(n)
      <4>1. PICK n \in Lost : s = Drop(n)
        BY <3>2
      <4>2. <<Drop(n)>> \in Groups /\ s \in ToSet(<<Drop(n)>>)
        BY <1>2, <4>1, AloneArranged, StatementTypes DEF Groups
      <4> QED BY <1>1, <4>2
    <3>3. CASE \E n \in Added : s = Create(n)
      <4>1. PICK n \in Added : s = Create(n)
        BY <3>3
      <4>2. <<Create(n)>> \in Groups /\ s \in ToSet(<<Create(n)>>)
        BY <1>2, <4>1, AloneArranged, StatementTypes DEF Groups
      <4> QED BY <1>1, <4>2
    <3> QED BY <2>2, <3>1, <3>2, <3>3
  <2> QED BY <2>1, <2>2
<1> HIDE DEF All
<1>5. \A s \in All : \E d \in Name, c \in Name : s \in {Drop(d), Create(c), Rename(d, c), Alter(d, c)}
  <2> TAKE s \in All
  <2>1. CASE \E d \in Name, c \in Name : Becomes(d, c) /\ s \in ToSet(Evolve(d, c))
    <3>1. PICK d \in Name, c \in Name : Becomes(d, c) /\ s \in ToSet(Evolve(d, c))
      BY <2>1
    <3>2. s \in {Drop(d), Create(c), Rename(d, c), Alter(d, c)}
      BY <3>1, EvolveArranged
    <3> QED BY <3>2
  <2> QED BY <1>2, <1>4, <2>1
<1>6. ASSUME NEW d \in Name, NEW c \in Name
      PROVE  /\ Rename(d, c) \in All <=> Follows(d, c) /\ ~Rebuilt(d, c)
             /\ Alter(d, c) \in All <=> Becomes(d, c) /\ Altered(d, c)
  <2>1. \A e \in Name, f \in Name : Rename(d, c) \in ToSet(Evolve(e, f)) <=> ~Rebuilt(e, f) /\ e # f /\ d = e /\ c = f
    <3> TAKE e \in Name, f \in Name
    <3>1. /\ Rename(d, c) # Drop(e) /\ Rename(d, c) # Create(f) /\ Rename(d, c) # Alter(e, f)
          /\ Rename(d, c) = Rename(e, f) <=> d = e /\ c = f
      BY DEF Drop, Create, Rename, Alter
    <3> QED BY <3>1, EvolveArranged
  <2>2. \A e \in Name, f \in Name : Alter(d, c) \in ToSet(Evolve(e, f)) <=> Altered(e, f) /\ d = e /\ c = f
    <3> TAKE e \in Name, f \in Name
    <3>1. /\ Alter(d, c) # Drop(e) /\ Alter(d, c) # Create(f) /\ Alter(d, c) # Rename(e, f)
          /\ Alter(d, c) = Alter(e, f) <=> d = e /\ c = f
      BY DEF Drop, Create, Rename, Alter
    <3> QED BY <3>1, EvolveArranged
  <2>3. \A n : Rename(d, c) # Drop(n) /\ Rename(d, c) # Create(n) /\ Alter(d, c) # Drop(n) /\ Alter(d, c) # Create(n)
    BY DEF Drop, Create, Rename, Alter
  <2>4. Becomes(d, c) /\ d # c <=> Follows(d, c)
    BY DEF Becomes, Follows
  <2> QED BY <1>4, <2>1, <2>2, <2>3, <2>4
<1>7. ASSUME NEW n \in Name
      PROVE  /\ Drop(n) \in All <=> n \in Lost \/ \E c \in Name : Becomes(n, c) /\ Rebuilt(n, c)
             /\ Create(n) \in All <=> n \in Added \/ \E d \in Name : Becomes(d, n) /\ Rebuilt(d, n)
  <2>1. \A e \in Name, f \in Name : Drop(n) \in ToSet(Evolve(e, f)) <=> Rebuilt(e, f) /\ n = e
    <3> TAKE e \in Name, f \in Name
    <3>1. /\ Drop(n) # Alter(e, f) /\ Drop(n) # Create(f) /\ Drop(n) # Rename(e, f)
          /\ Drop(n) = Drop(e) <=> n = e
      BY DEF Drop, Create, Rename, Alter
    <3> QED BY <3>1, EvolveArranged
  <2>2. \A e \in Name, f \in Name : Create(n) \in ToSet(Evolve(e, f)) <=> Rebuilt(e, f) /\ n = f
    <3> TAKE e \in Name, f \in Name
    <3>1. /\ Create(n) # Alter(e, f) /\ Create(n) # Drop(e) /\ Create(n) # Rename(e, f)
          /\ Create(n) = Create(f) <=> n = f
      BY DEF Drop, Create, Rename, Alter
    <3> QED BY <3>1, EvolveArranged
  <2>3. \A m : /\ (Drop(n) = Drop(m) <=> n = m) /\ (Create(n) = Create(m) <=> n = m)
             /\ Drop(n) # Create(m) /\ Create(n) # Drop(m)
    BY DEF Drop, Create
  <2>4. Drop(n) \in All <=> n \in Lost \/ \E c \in Name : Becomes(n, c) /\ Rebuilt(n, c)
    <3>1. Drop(n) \in All <=> Tells(Drop(n))
      BY <1>4
    <3>2. (\E m \in Lost : Drop(n) = Drop(m)) <=> n \in Lost
      BY <2>3
    <3>3. ~ \E m \in Added : Drop(n) = Create(m)
      BY <2>3
    <3> QED BY <2>1, <3>1, <3>2, <3>3
  <2>5. Create(n) \in All <=> n \in Added \/ \E d \in Name : Becomes(d, n) /\ Rebuilt(d, n)
    <3>1. Create(n) \in All <=> Tells(Create(n))
      BY <1>4
    <3>2. (\E m \in Added : Create(n) = Create(m)) <=> n \in Added
      BY <2>3
    <3>3. ~ \E m \in Lost : Create(n) = Drop(m)
      BY <2>3
    <3> QED BY <2>2, <3>1, <3>2, <3>3
  <2> QED BY <2>4, <2>5
<1>8. ASSUME NEW n \in Kept, Rebuilt(n, n) PROVE Before(Changes, Drop(n), Create(n))
  <2>1. Evolve(n, n) \in Groups /\ Evolve(n, n) = <<Drop(n), Create(n)>>
    BY <1>2, <1>3, <1>8, EvolveIs DEF Becomes
  <2> DEFINE g == <<Drop(n), Create(n)>>
  <2>2. 1 \in DOMAIN g /\ 2 \in DOMAIN g /\ 1 < 2 /\ g[1] = Drop(n) /\ g[2] = Create(n)
    OBVIOUS
  <2>3. g \in Groups
    BY <2>1
  <2> HIDE DEF g
  <2> QED BY <1>1, <2>2, <2>3
<1>9. ASSUME NEW d \in Name, NEW c \in Name, Follows(d, c), Altered(d, c)
      PROVE  Before(Changes, Rename(d, c), Alter(d, c))
  <2>1. Evolve(d, c) \in Groups /\ Evolve(d, c) = <<Rename(d, c), Alter(d, c)>>
    BY <1>3, <1>9, EvolveIs DEF Becomes, Follows, Altered
  <2> DEFINE g == <<Rename(d, c), Alter(d, c)>>
  <2>2. 1 \in DOMAIN g /\ 2 \in DOMAIN g /\ 1 < 2 /\ g[1] = Rename(d, c) /\ g[2] = Alter(d, c)
    OBVIOUS
  <2>3. g \in Groups
    BY <2>1
  <2> HIDE DEF g
  <2> QED BY <1>1, <2>2, <2>3
<1> QED BY <1>1, <1>5, <1>6, <1>7, <1>8, <1>9 DEF All

-----------------------------------------------------------------------------
(* The database after some of the changes.                                 *)

\* Statements in an order they can have run in.
InTurn(done) ==
    /\ done \subseteq ToSet(Changes)
    /\ \A n \in Kept : Rebuilt(n, n) /\ Create(n) \in done => Drop(n) \in done
    /\ \A d, c \in Name : Follows(d, c) /\ Alter(d, c) \in done => Rename(d, c) \in done

\* Still under its old name, with what was there before.
Untouched(n, done) ==
    n \in BaselineNeeded /\ Drop(n) \notin done /\ \A c \in Name : Rename(n, c) \notin done

Holds(q, done) ==
    /\ q \in [DOMAIN q -> Definition] /\ DOMAIN q \subseteq Name
    /\ \A n \in Name : n \in DOMAIN q <=>
          Create(n) \in done \/ Untouched(n, done) \/ \E d \in Name : Rename(d, n) \in done
    /\ \A n \in Name : Create(n) \in done => q[n] = new[n]
    /\ \A n \in Name : Untouched(n, done) /\ Alter(n, n) \notin done => q[n] = old[n]
    /\ \A d, n \in Name : Rename(d, n) \in done /\ Alter(d, n) \notin done => q[n] = old[d]
    /\ \A d, n \in Name : Alter(d, n) \in done => q[n] = [old[d] EXCEPT !.columns = new[n].columns]

\* The plan has made what is altered, renamed, or written without being made.
LEMMA Baseline ==
    ASSUME Calm
    PROVE  /\ BaselineNeeded \subseteq DOMAIN old
           /\ \A n \in Name : Alter(n, n) \in ToSet(Changes) => n \in BaselineNeeded
           /\ \A d, c \in Name : Rename(d, c) \in ToSet(Changes) => d \in BaselineNeeded
           /\ \A n \in targets \cap DOMAIN old :
                  n \in BaselineNeeded \/ Create(n) \in ToSet(Changes) \/ \E d \in Name : Rename(d, n) \in ToSet(Changes)
<1>1. BaselineNeeded \subseteq DOMAIN old
  BY DEF BaselineNeeded
<1>2. ASSUME NEW n \in Name, Alter(n, n) \in ToSet(Changes) PROVE n \in BaselineNeeded
  <2>1. n \in DOMAIN old
    BY <1>2, ChangesAre DEF Becomes, Follows, Kept
  <2>2. Alter(n, n) \in Ops("ALTER") /\ Alter(n, n).to = n
    BY <1>2 DEF Ops, Alter
  <2> QED BY <2>1, <2>2 DEF BaselineNeeded
<1>3. ASSUME NEW d \in Name, NEW c \in Name, Rename(d, c) \in ToSet(Changes) PROVE d \in BaselineNeeded
  <2>1. d \in DOMAIN old
    BY <1>3, ChangesAre DEF Follows
  <2>2. Rename(d, c) \in Ops("RENAME") /\ Rename(d, c).of = d
    BY <1>3 DEF Ops, Rename
  <2> QED BY <2>1, <2>2 DEF BaselineNeeded
<1>4. ASSUME NEW n \in targets \cap DOMAIN old, n \notin BaselineNeeded
      PROVE  Create(n) \in ToSet(Changes) \/ \E d \in Name : Rename(d, n) \in ToSet(Changes)
  <2>1. n \in MadeInPhase2
    BY <1>4 DEF BaselineNeeded
  <2>2. PICK s \in ToSet(Changes) : (s.op = "CREATE" \/ s.op = "RENAME") /\ s.to = n
    BY <2>1 DEF MadeInPhase2, Ops
  <2>3. PICK d \in Name, c \in Name : s \in {Drop(d), Create(c), Rename(d, c), Alter(d, c)}
    BY ChangesAre
  <2>4. s = Create(n) \/ s = Rename(d, n)
    BY <2>2, <2>3 DEF Drop, Create, Rename, Alter
  <2> QED BY <2>2, <2>3, <2>4
<1> QED BY <1>1, <1>2, <1>3, <1>4

\* Statements are different from each other.
LEMMA StatementsDiffer ==
    /\ \A m, n : (Drop(m) = Drop(n) <=> m = n) /\ (Create(m) = Create(n) <=> m = n)
    /\ \A d, c, e, f : /\ Rename(d, c) = Rename(e, f) <=> d = e /\ c = f
                       /\ Alter(d, c) = Alter(e, f) <=> d = e /\ c = f
                       /\ Rename(d, c) # Alter(e, f)
    /\ \A n, d, c : /\ Drop(n) # Rename(d, c) /\ Drop(n) # Alter(d, c)
                    /\ Create(n) # Rename(d, c) /\ Create(n) # Alter(d, c)
    /\ \A m, n : Drop(m) # Create(n)
  BY DEF Drop, Create, Rename, Alter

\* A table becomes one table, and a table that is made anew is neither renamed nor altered.
LEMMA Apart ==
    ASSUME Calm
    PROVE  /\ \A d, c, e \in Name : Becomes(d, c) /\ Becomes(d, e) => c = e
           /\ \A d, c, e \in Name : Becomes(d, c) /\ Becomes(e, c) => d = e
           /\ \A d, n \in Name : Create(n) \in ToSet(Changes) =>
                  Rename(d, n) \notin ToSet(Changes) /\ Alter(d, n) \notin ToSet(Changes)
           /\ \A n, c \in Name : Drop(n) \in ToSet(Changes) =>
                  Rename(n, c) \notin ToSet(Changes) /\ Alter(n, c) \notin ToSet(Changes)
<1>1. \A d, c, e \in Name : Becomes(d, c) /\ Becomes(d, e) => c = e
  BY OneFollows DEF Calm, Becomes, Follows, Kept
<1>2. \A d, c, e \in Name : Becomes(d, c) /\ Becomes(e, c) => d = e
  BY OneFollows DEF Calm, Becomes, Follows, Kept
<1>3. \A d, c \in Name : Rename(d, c) \in ToSet(Changes) \/ Alter(d, c) \in ToSet(Changes) =>
        Becomes(d, c) /\ ~Rebuilt(d, c)
  BY ChangesAre DEF Becomes, Altered
<1>4. \A d, c \in Name : Becomes(d, c) => d \notin Lost /\ c \notin Added
  BY CatalogTypes DEF Calm, Catalogued, Becomes, Follows, Kept, Lost, Added
<1>5. \A d, n \in Name : Create(n) \in ToSet(Changes) =>
          Rename(d, n) \notin ToSet(Changes) /\ Alter(d, n) \notin ToSet(Changes)
  <2> SUFFICES ASSUME NEW d \in Name, NEW n \in Name, Create(n) \in ToSet(Changes), Becomes(d, n), ~Rebuilt(d, n)
               PROVE  FALSE
    BY <1>3
  <2>1. n \in Added \/ \E e \in Name : Becomes(e, n) /\ Rebuilt(e, n)
    BY ChangesAre
  <2> QED BY <1>2, <1>4, <2>1
<1>6. \A n, c \in Name : Drop(n) \in ToSet(Changes) =>
          Rename(n, c) \notin ToSet(Changes) /\ Alter(n, c) \notin ToSet(Changes)
  <2> SUFFICES ASSUME NEW n \in Name, NEW c \in Name, Drop(n) \in ToSet(Changes), Becomes(n, c), ~Rebuilt(n, c)
               PROVE  FALSE
    BY <1>3
  <2>1. n \in Lost \/ \E e \in Name : Becomes(n, e) /\ Rebuilt(n, e)
    BY ChangesAre
  <2> QED BY <1>1, <1>4, <2>1
<1> QED BY <1>1, <1>2, <1>5, <1>6

\* What an ALTER is going to find, and what has been altered.
LEMMA KeptUntouched ==
    ASSUME Calm, NEW done, InTurn(done), NEW n \in Name, n \in Kept, Alter(n, n) \in ToSet(Changes)
    PROVE  Untouched(n, done)
<1>1. n \in BaselineNeeded
  BY Baseline
<1>2. Drop(n) \notin done
  BY Apart DEF InTurn
<1>3. \A c \in Name : Rename(n, c) \notin done
  BY ChangesAre DEF InTurn, Follows, Kept
<1> QED BY <1>1, <1>2, <1>3 DEF Untouched

\* What has been altered is there.
LEMMA AlteredStands ==
    ASSUME Calm, NEW done, InTurn(done), NEW q, Holds(q, done),
           NEW d \in Name, NEW n \in Name, Alter(d, n) \in done
    PROVE  n \in DOMAIN q
<1>1. Alter(d, n) \in ToSet(Changes) /\ Becomes(d, n)
  BY ChangesAre DEF InTurn
<1>2. CASE Follows(d, n)
  <2>1. Rename(d, n) \in done
    BY <1>2 DEF InTurn
  <2> QED BY <2>1 DEF Holds
<1>3. CASE d = n /\ n \in Kept
  <2>1. Untouched(n, done)
    BY <1>1, <1>3, KeptUntouched
  <2> QED BY <2>1 DEF Holds
<1> QED BY <1>1, <1>2, <1>3 DEF Becomes

\* What a statement finds, makes and leaves alone.
LEMMA DropHolds ==
    ASSUME Calm, NEW n \in Name, NEW done, InTurn(done), Drop(n) \in ToSet(Changes) \ done,
           InTurn(done \cup {Drop(n)}), Holds(qa, done)
    PROVE  Runs(Drop(n)) /\ Holds(Effect(Drop(n)), done \cup {Drop(n)})
<1> DEFINE s == Drop(n)
           all == done \cup {s}
           q == Effect(s)
<1>1. s.op = "DROP" /\ s.of = n
  BY DEF Drop
<1>2. Runs(s) /\ q = [m \in DOMAIN qa \ {n} |-> qa[m]]
  BY <1>1 DEF Runs, Effect, Restrict
<1>3. \A m \in Name, d \in Name :
        /\ Create(m) \in all <=> Create(m) \in done
        /\ Rename(d, m) \in all <=> Rename(d, m) \in done
        /\ Alter(d, m) \in all <=> Alter(d, m) \in done
        /\ Drop(m) \in all <=> Drop(m) \in done \/ m = n
  BY StatementsDiffer
<1>4. \A m \in Name : Untouched(m, all) <=> Untouched(m, done) /\ m # n
  BY <1>3 DEF Untouched
<1>5. Create(n) \notin done
  <2>1. ASSUME Create(n) \in done PROVE FALSE
    <3>1. n \in Lost \/ \E c \in Name : Becomes(n, c) /\ Rebuilt(n, c)
      BY ChangesAre
    <3>2. n \in Added \/ \E d \in Name : Becomes(d, n) /\ Rebuilt(d, n)
      BY <2>1, ChangesAre DEF InTurn
    <3>3. n \in Kept /\ Rebuilt(n, n)
      BY <3>1, <3>2 DEF Lost, Added, Becomes, Follows, Kept
    <3> QED BY <2>1, <3>3 DEF InTurn
  <2> QED BY <2>1
<1>6. \A d \in Name : Rename(d, n) \notin done /\ Alter(d, n) \notin done
  <2>1. ASSUME NEW d \in Name, Rename(d, n) \in ToSet(Changes) \/ Alter(d, n) \in ToSet(Changes) PROVE FALSE
    <3>1. n \in Lost \/ n \in DOMAIN old
      BY ChangesAre DEF Becomes, Follows, Kept
    <3>2. Becomes(d, n)
      BY <2>1, ChangesAre DEF Becomes
    <3>3. d = n
      BY <3>1, <3>2 DEF Lost, Becomes, Follows, Kept
    <3> QED BY <2>1, <3>3, Apart
  <2> QED BY <2>1 DEF InTurn
<1> HIDE DEF s, q, all
<1>7. Holds(q, all)
  <2>1. q \in [DOMAIN q -> Definition] /\ DOMAIN q = DOMAIN qa \ {n} /\ DOMAIN q \subseteq Name
    BY <1>2 DEF Holds
  <2>2. \A m \in Name : m \in DOMAIN q <=>
          Create(m) \in all \/ Untouched(m, all) \/ \E d \in Name : Rename(d, m) \in all
    BY <1>3, <1>4, <1>5, <1>6, <2>1 DEF Holds
  <2>3. \A m \in DOMAIN q : q[m] = qa[m]
    BY <1>2
  <2>4. \A m \in Name : Create(m) \in all => q[m] = new[m]
    BY <1>3, <2>2, <2>3 DEF Holds
  <2>5. \A m \in Name : Untouched(m, all) /\ Alter(m, m) \notin all => q[m] = old[m]
    BY <1>3, <1>4, <2>2, <2>3 DEF Holds
  <2>6. \A d, m \in Name : Rename(d, m) \in all /\ Alter(d, m) \notin all => q[m] = old[d]
    BY <1>3, <2>2, <2>3 DEF Holds
  <2>7. \A d, m \in Name : Alter(d, m) \in all => q[m] = [old[d] EXCEPT !.columns = new[m].columns]
    <3>1. ASSUME NEW d \in Name, NEW m \in Name, Alter(d, m) \in all PROVE m \in DOMAIN qa /\ m # n
      BY <1>3, <1>6, <3>1, AlteredStands
    <3> QED BY <1>3, <2>1, <2>3, <3>1 DEF Holds
  <2> QED BY <2>1, <2>2, <2>4, <2>5, <2>6, <2>7 DEF Holds
<1> QED BY <1>2, <1>7 DEF s, q, all

\* A CREATE finds its name free, so that it makes the new table.
LEMMA CreateHolds ==
    ASSUME Calm, NEW n \in Name, NEW done, InTurn(done), Create(n) \in ToSet(Changes) \ done,
           InTurn(done \cup {Create(n)}), Holds(qa, done)
    PROVE  Runs(Create(n)) /\ Holds(Effect(Create(n)), done \cup {Create(n)})
<1> DEFINE s == Create(n)
           all == done \cup {s}
           q == Effect(s)
<1>1. s.op = "CREATE" /\ s.to = n
  BY DEF Create
<1>2. Runs(s) /\ q = [m \in DOMAIN qa \cup {n} |-> IF m \in DOMAIN qa THEN qa[m] ELSE new[m]]
  BY <1>1 DEF Runs, Effect
<1>3. \A m \in Name, d \in Name :
        /\ Create(m) \in all <=> Create(m) \in done \/ m = n
        /\ Rename(d, m) \in all <=> Rename(d, m) \in done
        /\ Alter(d, m) \in all <=> Alter(d, m) \in done
        /\ Drop(m) \in all <=> Drop(m) \in done
  BY StatementsDiffer
<1>4. \A m \in Name : Untouched(m, all) <=> Untouched(m, done)
  BY <1>3 DEF Untouched
<1>5. \A d \in Name : Rename(d, n) \notin done /\ Alter(d, n) \notin done
  BY Apart DEF InTurn
<1>6. n \in Added \/ \E d \in Name : Becomes(d, n) /\ Rebuilt(d, n)
  BY ChangesAre
<1>7. ~Untouched(n, done)
  <2>1. ASSUME n \in BaselineNeeded PROVE Drop(n) \in done
    <3>1. n \in DOMAIN old
      BY <2>1, Baseline
    <3>2. n \in Kept /\ Rebuilt(n, n)
      BY <1>6, <3>1 DEF Added, Becomes, Follows, Kept
    <3>3. Drop(n) \in all
      BY <3>2 DEF InTurn
    <3> QED BY <1>3, <3>3
  <2> QED BY <2>1 DEF Untouched
<1>8. n \notin DOMAIN qa
  BY <1>5, <1>7 DEF Holds
<1>9. n \in DOMAIN new /\ new[n] \in Definition
  BY <1>6, CatalogTypes DEF Calm, Catalogued, Added, Becomes, Follows, Kept
<1> HIDE DEF s, q, all
<1>10. Holds(q, all)
  <2>1. q \in [DOMAIN q -> Definition] /\ DOMAIN q = DOMAIN qa \cup {n} /\ DOMAIN q \subseteq Name
    BY <1>2, <1>9 DEF Holds
  <2>2. \A m \in Name : m \in DOMAIN q <=>
          Create(m) \in all \/ Untouched(m, all) \/ \E d \in Name : Rename(d, m) \in all
    BY <1>3, <1>4, <2>1 DEF Holds
  <2>3. q[n] = new[n] /\ \A m \in DOMAIN qa : q[m] = qa[m]
    BY <1>2, <1>8
  <2>4. \A m \in Name : Create(m) \in all => q[m] = new[m]
    BY <1>3, <2>3 DEF Holds
  <2>5. \A m \in Name : Untouched(m, all) /\ Alter(m, m) \notin all => q[m] = old[m]
    BY <1>3, <1>4, <2>3 DEF Holds
  <2>6. \A d, m \in Name : Rename(d, m) \in all /\ Alter(d, m) \notin all => q[m] = old[d]
    BY <1>3, <2>3 DEF Holds
  <2>7. \A d, m \in Name : Alter(d, m) \in all => q[m] = [old[d] EXCEPT !.columns = new[m].columns]
    <3>1. ASSUME NEW d \in Name, NEW m \in Name, Alter(d, m) \in all PROVE m \in DOMAIN qa
      BY <1>3, <3>1, AlteredStands
    <3> QED BY <1>3, <2>3, <3>1 DEF Holds
  <2> QED BY <2>1, <2>2, <2>4, <2>5, <2>6, <2>7 DEF Holds
<1> QED BY <1>2, <1>10 DEF s, q, all

\* A RENAME finds its source as it was, and its target free.
LEMMA RenameHolds ==
    ASSUME Calm, NEW d \in Name, NEW c \in Name, NEW done, InTurn(done), Rename(d, c) \in ToSet(Changes) \ done,
           InTurn(done \cup {Rename(d, c)}), Holds(qa, done)
    PROVE  Runs(Rename(d, c)) /\ Holds(Effect(Rename(d, c)), done \cup {Rename(d, c)})
<1> DEFINE s == Rename(d, c)
           all == done \cup {s}
           q == Effect(s)
<1>1. s.op = "RENAME" /\ s.of = d /\ s.to = c
  BY DEF Rename
<1>2. /\ Runs(s) <=> d \in DOMAIN qa /\ c \notin DOMAIN qa
      /\ q = [m \in (DOMAIN qa \ {d}) \cup {c} |-> IF m = c THEN qa[d] ELSE qa[m]]
  BY <1>1 DEF Runs, Effect
<1>3. Follows(d, c) /\ ~Rebuilt(d, c)
  BY ChangesAre
<1>4. d # c /\ d \notin DOMAIN new /\ c \notin DOMAIN old
  BY <1>3 DEF Follows
<1>5. \A m \in Name, e \in Name :
        /\ Create(m) \in all <=> Create(m) \in done
        /\ Rename(e, m) \in all <=> Rename(e, m) \in done \/ (e = d /\ m = c)
        /\ Alter(e, m) \in all <=> Alter(e, m) \in done
        /\ Drop(m) \in all <=> Drop(m) \in done
  BY StatementsDiffer
<1>6. \A e \in Name : Rename(e, c) \notin done /\ Rename(d, e) \notin done
  <2>1. \A e \in Name : Rename(e, c) \in ToSet(Changes) => e = d
    BY <1>3, ChangesAre, OneFollows DEF Calm
  <2>2. \A e \in Name : Rename(d, e) \in ToSet(Changes) => e = c
    BY <1>3, ChangesAre, OneFollows DEF Calm
  <2> QED BY <2>1, <2>2 DEF InTurn
<1>7. Untouched(d, done) /\ Alter(d, d) \notin done
  <2>1. d \in BaselineNeeded /\ Drop(d) \notin done
    BY Baseline, Apart DEF InTurn
  <2>2. Alter(d, d) \notin done
    BY <1>4, ChangesAre DEF InTurn, Becomes, Follows, Kept
  <2> QED BY <1>6, <2>1, <2>2 DEF Untouched
<1>8. d \in DOMAIN qa /\ qa[d] = old[d]
  BY <1>7 DEF Holds
<1>9. Create(c) \notin done /\ ~Untouched(c, done)
  <2>1. Create(c) \notin done
    BY Apart DEF InTurn
  <2>2. c \notin BaselineNeeded
    BY <1>4, Baseline
  <2> QED BY <2>1, <2>2 DEF Untouched
<1>10. c \notin DOMAIN qa
  BY <1>6, <1>9 DEF Holds
<1>11. \A e \in Name : Alter(e, c) \notin done
  <2>1. ASSUME NEW e \in Name, Alter(e, c) \in done PROVE FALSE
    BY <2>1, <1>10, AlteredStands
  <2> QED BY <2>1
<1>12. \A m \in Name : Untouched(m, all) <=> Untouched(m, done) /\ m # d
  BY <1>5 DEF Untouched
<1>13. Create(d) \notin done /\ \A e \in Name : Rename(e, d) \notin done /\ Alter(e, d) \notin done
  BY <1>4, ChangesAre DEF InTurn, Added, Becomes, Follows, Kept
<1> HIDE DEF s, q, all
<1>14. Holds(q, all)
  <2>1. q \in [DOMAIN q -> Definition] /\ DOMAIN q = (DOMAIN qa \ {d}) \cup {c} /\ DOMAIN q \subseteq Name
    BY <1>2, <1>8 DEF Holds
  <2>2. \A m \in Name : m \in DOMAIN q <=>
          Create(m) \in all \/ Untouched(m, all) \/ \E e \in Name : Rename(e, m) \in all
    <3> TAKE m \in Name
    <3>1. CASE m = c
      BY <1>5, <2>1, <3>1
    <3>2. CASE m = d
      BY <1>4, <1>5, <1>12, <1>13, <2>1, <3>2
    <3>3. CASE m # c /\ m # d
      BY <1>5, <1>12, <2>1, <3>3 DEF Holds
    <3> QED BY <3>1, <3>2, <3>3
  <2>3. q[c] = old[d] /\ \A m \in DOMAIN qa \ {d} : q[m] = qa[m]
    BY <1>2, <1>8, <1>10
  <2>4. \A m \in Name : Create(m) \in all => q[m] = new[m]
    BY <1>5, <1>13, <2>3 DEF Holds
  <2>5. \A m \in Name : Untouched(m, all) /\ Alter(m, m) \notin all => q[m] = old[m]
    BY <1>5, <1>12, <2>3 DEF Holds
  <2>6. \A e, m \in Name : Rename(e, m) \in all /\ Alter(e, m) \notin all => q[m] = old[e]
    <3> TAKE e \in Name, m \in Name
    <3> HAVE Rename(e, m) \in all /\ Alter(e, m) \notin all
    <3>1. CASE e = d /\ m = c
      BY <2>3, <3>1
    <3>2. CASE Rename(e, m) \in done
      <4>1. m \in DOMAIN qa \ {d} /\ qa[m] = old[e]
        BY <1>5, <1>13, <3>2 DEF Holds
      <4> QED BY <2>3, <4>1
    <3> QED BY <1>5, <3>1, <3>2
  <2>7. \A e, m \in Name : Alter(e, m) \in all => q[m] = [old[e] EXCEPT !.columns = new[m].columns]
    <3>1. ASSUME NEW e \in Name, NEW m \in Name, Alter(e, m) \in all PROVE m \in DOMAIN qa \ {d}
      BY <1>5, <1>13, <3>1, AlteredStands
    <3> QED BY <1>5, <2>3, <3>1 DEF Holds
  <2> QED BY <2>1, <2>2, <2>4, <2>5, <2>6, <2>7 DEF Holds
<1> QED BY <1>2, <1>8, <1>10, <1>14 DEF s, q, all

\* An ALTER finds the columns it was derived from.
LEMMA AlterHolds ==
    ASSUME Calm, NEW d \in Name, NEW c \in Name, NEW done, InTurn(done), Alter(d, c) \in ToSet(Changes) \ done,
           InTurn(done \cup {Alter(d, c)}), Holds(qa, done)
    PROVE  Runs(Alter(d, c)) /\ Holds(Effect(Alter(d, c)), done \cup {Alter(d, c)})
<1> DEFINE s == Alter(d, c)
           all == done \cup {s}
           q == Effect(s)
<1>1. s.op = "ALTER" /\ s.of = d /\ s.to = c
  BY DEF Alter
<1>2. /\ Runs(s) <=> c \in DOMAIN qa /\ qa[c].columns = old[d].columns
      /\ q = [qa EXCEPT ![c].columns = new[c].columns]
  BY <1>1 DEF Runs, Effect
<1>3. Becomes(d, c) /\ Altered(d, c)
  BY ChangesAre
<1>4. \A m \in Name, e \in Name :
        /\ Create(m) \in all <=> Create(m) \in done
        /\ Rename(e, m) \in all <=> Rename(e, m) \in done
        /\ Alter(e, m) \in all <=> Alter(e, m) \in done \/ (e = d /\ m = c)
        /\ Drop(m) \in all <=> Drop(m) \in done
  BY StatementsDiffer
<1>5. \A m \in Name : Untouched(m, all) <=> Untouched(m, done)
  BY <1>4 DEF Untouched
<1>6. c \in DOMAIN qa /\ qa[c] = old[d] /\ (d # c => ~Untouched(c, done))
  <2>1. CASE Follows(d, c)
    <3>1. Rename(d, c) \in done
      BY <1>4, <2>1 DEF InTurn
    <3>2. c \in DOMAIN qa /\ qa[c] = old[d]
      BY <3>1 DEF Holds
    <3>3. c \notin BaselineNeeded
      BY <2>1, Baseline DEF Follows
    <3> QED BY <3>2, <3>3 DEF Untouched
  <2>2. CASE d = c /\ c \in Kept
    <3>1. Untouched(c, done)
      BY <2>2, KeptUntouched
    <3> QED BY <2>2, <3>1 DEF Holds
  <2> QED BY <1>3, <2>1, <2>2 DEF Becomes
<1>7. Create(c) \notin done /\ \A e \in Name : Rename(e, c) \in done \/ Alter(e, c) \in done => e = d
  <2>1. Create(c) \notin done
    BY Apart DEF InTurn
  <2>2. \A e \in Name : Rename(e, c) \in ToSet(Changes) \/ Alter(e, c) \in ToSet(Changes) => Becomes(e, c)
    BY ChangesAre DEF Becomes
  <2> QED BY <1>3, <2>1, <2>2, Apart DEF InTurn
<1>8. c \in DOMAIN new /\ new[c] \in Definition /\ d \in DOMAIN old /\ old[d] \in Definition
  BY <1>3, CatalogTypes DEF Calm, Catalogued, Becomes, Follows, Kept
<1> HIDE DEF s, q, all
<1>9. Holds(q, all)
  <2>1. /\ q[c] = [old[d] EXCEPT !.columns = new[c].columns]
        /\ DOMAIN q = DOMAIN qa
        /\ \A m \in DOMAIN qa \ {c} : q[m] = qa[m]
    BY <1>2, <1>6 DEF Holds
  <2>2. q \in [DOMAIN q -> Definition] /\ DOMAIN q \subseteq Name
    <3>1. [old[d] EXCEPT !.columns = new[c].columns] \in Definition
      BY <1>8 DEF Definition
    <3>2. q = [m \in DOMAIN qa |-> IF m = c THEN [old[d] EXCEPT !.columns = new[c].columns] ELSE qa[m]]
      BY <1>2, <1>6 DEF Holds
    <3> QED BY <3>1, <3>2 DEF Holds
  <2>3. \A m \in Name : m \in DOMAIN q <=>
          Create(m) \in all \/ Untouched(m, all) \/ \E e \in Name : Rename(e, m) \in all
    BY <1>4, <1>5, <2>1 DEF Holds
  <2>4. \A m \in Name : Create(m) \in all => q[m] = new[m]
    BY <1>4, <1>7, <2>1 DEF Holds
  <2>5. \A m \in Name : Untouched(m, all) /\ Alter(m, m) \notin all => q[m] = old[m]
    BY <1>4, <1>5, <1>6, <2>1 DEF Holds
  <2>6. \A e, m \in Name : Rename(e, m) \in all /\ Alter(e, m) \notin all => q[m] = old[e]
    BY <1>4, <1>7, <2>1 DEF Holds
  <2>7. \A e, m \in Name : Alter(e, m) \in all => q[m] = [old[e] EXCEPT !.columns = new[m].columns]
    <3> TAKE e \in Name, m \in Name
    <3> HAVE Alter(e, m) \in all
    <3>1. CASE m = c
      BY <1>4, <1>7, <2>1, <3>1
    <3>2. CASE m # c
      <4>1. Alter(e, m) \in done
        BY <1>4, <3>2
      <4>2. m \in DOMAIN qa \ {c}
        BY <3>2, <4>1, AlteredStands
      <4> QED BY <2>1, <4>1, <4>2 DEF Holds
    <3> QED BY <3>1, <3>2
  <2> QED BY <2>1, <2>2, <2>3, <2>4, <2>5, <2>6, <2>7 DEF Holds
<1> QED BY <1>2, <1>6, <1>9 DEF s, q, all

\* The first k of the changes.
Ran(k) == {Changes[i] : i \in 1..k}

\* They have run in an order they can run in, and each runs once.
LEMMA RanInTurn ==
    ASSUME Calm, NEW k \in 0..Len(Changes)
    PROVE  /\ InTurn(Ran(k))
           /\ k = 0 => Ran(k) = {}
           /\ k = Len(Changes) => Ran(k) = ToSet(Changes)
           /\ k < Len(Changes) => /\ Changes[k + 1] \in ToSet(Changes) \ Ran(k)
                                  /\ Ran(k + 1) = Ran(k) \cup {Changes[k + 1]}
<1> DEFINE q == Changes
           N == Len(q)
           ran == Ran(k)
<1>1. /\ q \in Seq(Statement)
      /\ \A i, j \in DOMAIN q : q[i] = q[j] => i = j
  BY ChangesAre DEF IsInjective
<1>2. \A n \in Kept : Rebuilt(n, n) => Before(q, Drop(n), Create(n))
  BY ChangesAre, CatalogTypes DEF Calm, Catalogued, Kept
<1>3. \A d, c \in Name : Follows(d, c) /\ Alter(d, c) \in ToSet(q) => Before(q, Rename(d, c), Alter(d, c))
  BY ChangesAre
<1> HIDE DEF q
<1>4. k \in 0..N /\ N \in Nat /\ DOMAIN q = 1..N /\ ToSet(q) = {q[i] : i \in 1..N} /\ ran = {q[i] : i \in 1..k}
  BY <1>1 DEF ToSet, q, Ran
<1>5. \A s, t : Before(q, s, t) /\ t \in ran => s \in ran
  BY <1>1, <1>4 DEF Before
<1>6. ran \subseteq ToSet(q)
  BY <1>4
<1>7. InTurn(ran)
  BY <1>2, <1>3, <1>5, <1>6 DEF InTurn, q
<1>8. k = 0 => ran = {}
  BY <1>4
<1>9. ASSUME k < N PROVE q[k + 1] \in ToSet(q) \ ran /\ Ran(k + 1) = ran \cup {q[k + 1]}
  <2>1. k + 1 \in 1..N /\ 1..k + 1 = (1..k) \cup {k + 1}
    BY <1>4, <1>9
  <2>2. q[k + 1] \notin ran
    BY <1>1, <1>4, <2>1
  <2>3. Ran(k + 1) = {q[i] : i \in 1..k + 1}
    BY DEF Ran, q
  <2> QED BY <1>4, <2>1, <2>2, <2>3
<1> QED BY <1>4, <1>7, <1>8, <1>9 DEF q

\* The next change runs, and makes what it is to make.
LEMMA ChangeHolds ==
    ASSUME Calm, NEW k \in 0..Len(Changes), k < Len(Changes), Holds(qa, Ran(k))
    PROVE  Runs(Changes[k + 1]) /\ Holds(Effect(Changes[k + 1]), Ran(k + 1))
<1> DEFINE s == Changes[k + 1]
<1>1. /\ InTurn(Ran(k)) /\ InTurn(Ran(k + 1))
      /\ s \in ToSet(Changes) \ Ran(k) /\ Ran(k + 1) = Ran(k) \cup {s}
  <2>1. Len(Changes) \in Nat
    BY ChangesAre
  <2>2. k + 1 \in 0..Len(Changes)
    BY <2>1
  <2> QED BY <2>2, RanInTurn
<1> HIDE DEF s
<1>2. PICK d \in Name, c \in Name : s \in {Drop(d), Create(c), Rename(d, c), Alter(d, c)}
  BY <1>1, ChangesAre
<1>3. CASE s = Drop(d)
  BY <1>1, <1>3, DropHolds DEF s
<1>4. CASE s = Create(c)
  BY <1>1, <1>4, CreateHolds DEF s
<1>5. CASE s = Rename(d, c)
  BY <1>1, <1>5, RenameHolds DEF s
<1>6. CASE s = Alter(d, c)
  BY <1>1, <1>6, AlterHolds DEF s
<1> QED BY <1>2, <1>3, <1>4, <1>5, <1>6

\* The baseline holds before the first change.
LEMMA BaselineHolds ==
    ASSUME Calm
    PROVE  Holds(Restrict(old, BaselineNeeded), {})
<1> DEFINE q == Restrict(old, BaselineNeeded)
<1>1. /\ BaselineNeeded \subseteq DOMAIN old
      /\ DOMAIN old \subseteq Name /\ \A n \in DOMAIN old : old[n] \in Definition
  BY Baseline, CatalogTypes DEF Calm, Catalogued
<1>2. q = [n \in BaselineNeeded |-> old[n]]
  BY <1>1 DEF Restrict
<1>3. \A n : Untouched(n, {}) <=> n \in BaselineNeeded
  BY DEF Untouched
<1> HIDE DEF q
<1> QED BY <1>1, <1>2, <1>3 DEF Holds, q

\* After the last change a table that is written or has changed is the new one.
LEMMA AllRan ==
    ASSUME Calm, targets \subseteq DOMAIN new, NEW q, Holds(q, ToSet(Changes)),
           NEW n \in targets \cup Changed
    PROVE  n \in DOMAIN q /\ q[n] = new[n]
<1> DEFINE All == ToSet(Changes)
<1>1. n \in DOMAIN new /\ n \in Name
  BY CatalogTypes DEF Calm, Catalogued, Changed
<1>2. CASE Create(n) \in All
  BY <1>1, <1>2 DEF Holds
<1>3. ASSUME Create(n) \notin All, NEW d \in Name, Becomes(d, n)
      PROVE  ~Rebuilt(d, n) /\ d \in DOMAIN old /\ d \in Name /\ old[d].id = new[n].id
  BY <1>1, <1>3, ChangesAre, CalmNames DEF Becomes, Follows, Kept
<1>4. ASSUME NEW d \in DOMAIN old, ~Rebuilt(d, n), old[d].id = new[n].id
      PROVE  /\ [old[d] EXCEPT !.columns = new[n].columns] = new[n]
             /\ ~Altered(d, n) => old[d] = new[n]
  <2>1. old[d] \in Definition /\ new[n] \in Definition
    BY <1>1, CatalogTypes DEF Calm, Catalogued
  <2> QED BY <1>4, <2>1 DEF Definition, Rebuilt, Altered
<1>5. ASSUME Create(n) \notin All, NEW d \in DOMAIN old, Follows(d, n) PROVE n \in DOMAIN q /\ q[n] = new[n]
  <2>1. d \in Name /\ Becomes(d, n)
    BY <1>5, CatalogTypes DEF Calm, Catalogued, Becomes
  <2>2. ~Rebuilt(d, n) /\ old[d].id = new[n].id
    BY <1>3, <1>5, <2>1
  <2>3. Rename(d, n) \in All /\ (Alter(d, n) \in All <=> Altered(d, n))
    BY <1>1, <1>5, <2>1, <2>2, ChangesAre
  <2>4. n \in DOMAIN q
    BY <1>1, <2>1, <2>3 DEF Holds
  <2>5. CASE Altered(d, n)
    BY <1>1, <1>4, <2>1, <2>2, <2>3, <2>4, <2>5 DEF Holds
  <2>6. CASE ~Altered(d, n)
    BY <1>1, <1>4, <2>1, <2>2, <2>3, <2>4, <2>6 DEF Holds
  <2> QED BY <2>4, <2>5, <2>6
<1>6. ASSUME Create(n) \notin All, n \in DOMAIN old PROVE n \in DOMAIN q /\ q[n] = new[n]
  <2>1. n \in Kept /\ Becomes(n, n)
    BY <1>1, <1>6 DEF Kept, Becomes
  <2>2. ~Rebuilt(n, n) /\ old[n].id = new[n].id
    BY <1>1, <1>3, <1>6, <2>1
  <2>3. Alter(n, n) \in All <=> Altered(n, n)
    BY <1>1, <2>1, ChangesAre
  <2>4. CASE Altered(n, n)
    <3>1. InTurn(All)
      <4>1. Len(Changes) \in 0..Len(Changes)
        BY ChangesAre
      <4> QED BY <4>1, RanInTurn
    <3>2. n \in DOMAIN q
      BY <1>1, <2>3, <2>4, <3>1, AlteredStands
    <3> QED BY <1>1, <1>4, <1>6, <2>2, <2>3, <2>4, <3>2 DEF Holds
  <2>5. CASE ~Altered(n, n)
    <3>1. old[n] = new[n]
      BY <1>4, <1>6, <2>2, <2>5
    <3>2. n \in targets
      BY <1>6, <3>1 DEF Changed
    <3>3. \A d \in Name : Rename(d, n) \notin All /\ Rename(n, d) \notin All
      BY <1>1, <2>1, ChangesAre DEF Follows, Kept
    <3>4. n \in BaselineNeeded
      BY <1>6, <3>2, <3>3, Baseline
    <3>5. Drop(n) \notin All
      <4>1. n \notin Lost
        BY <1>1 DEF Lost
      <4>2. \A c \in Name : Becomes(n, c) => c = n
        BY <1>1 DEF Becomes, Follows
      <4> QED BY <1>1, <2>2, <4>1, <4>2, ChangesAre
    <3>6. Untouched(n, All)
      BY <3>3, <3>4, <3>5 DEF Untouched
    <3>7. n \in DOMAIN q
      BY <1>1, <3>6 DEF Holds
    <3> QED BY <1>1, <2>3, <2>5, <3>1, <3>6, <3>7 DEF Holds
  <2> QED BY <2>4, <2>5
<1>7. CASE n \notin DOMAIN old /\ Create(n) \notin All
  <2>1. n \notin Added
    BY <1>1, <1>7, ChangesAre
  <2>2. PICK d \in DOMAIN old : Follows(d, n)
    BY <1>1, <1>7, <2>1 DEF Added
  <2> QED BY <1>5, <1>7, <2>2
<1> QED BY <1>2, <1>6, <1>7

\* What the shadow manifest can make of the names.
Relationship == [bare : SUBSET Name, dropped : SUBSET Name, leads : UNION {[S -> Name] : S \in SUBSET Name}]

\* A statement takes a relationship to another.
LEMMA RelateTypes ==
    ASSUME NEW r \in Relationship, NEW s \in Statement
    PROVE  Relate(r, s) \in Relationship
<1>1. PICK S \in SUBSET Name : r.leads \in [S -> Name]
  BY DEF Relationship
<1>2. s.of \in Name /\ s.to \in Name /\ s.op \in {"DROP", "CREATE", "RENAME", "ALTER"}
  BY DEF Statement
<1>3. r.bare \subseteq Name /\ r.dropped \subseteq Name
      /\ r = [bare |-> r.bare, dropped |-> r.dropped, leads |-> r.leads]
  BY DEF Relationship
<1>4. CASE s.op = "RENAME"
  <2> DEFINE l == [n \in DOMAIN r.leads \cup {s.of} |-> IF n = s.of THEN s.to ELSE r.leads[n]]
  <2>1. l \in [S \cup {s.of} -> Name]
    BY <1>1, <1>2
  <2>2. l \in UNION {[T -> Name] : T \in SUBSET Name}
    <3> HIDE DEF l
    <3> QED BY <1>2, <2>1
  <2>3. Relate(r, s) = [bare |-> r.bare \ {s.of, s.to},
                        dropped |-> (r.dropped \ {s.of, s.to})
                                    \cup (IF s.of \in r.dropped THEN {s.to} ELSE {}),
                        leads |-> l]
    BY <1>4 DEF Relate
  <2> HIDE DEF l
  <2> QED BY <1>2, <1>3, <2>2, <2>3 DEF Relationship
<1>5. CASE s.op = "CREATE"
  <2>1. Relate(r, s) = [bare |-> r.bare \cup {s.to}, dropped |-> r.dropped \ {s.to}, leads |-> r.leads]
    BY <1>3, <1>5 DEF Relate
  <2> QED BY <1>2, <1>3, <2>1 DEF Relationship
<1>6. CASE s.op = "ALTER"
  BY <1>6 DEF Relate
<1>7. CASE s.op = "DROP"
  <2>1. Relate(r, s) = [bare |-> r.bare, dropped |-> r.dropped \cup {s.of}, leads |-> r.leads]
    BY <1>3, <1>7 DEF Relate
  <2> QED BY <1>2, <1>3, <2>1 DEF Relationship
<1> QED BY <1>2, <1>4, <1>5, <1>6, <1>7

\* The relations after each of the changes.
LEMMA RelationsSteps ==
    ASSUME Calm
    PROVE  \E f : /\ f[0] = [bare |-> {}, dropped |-> {}, leads |-> <<>>]
                  /\ Relations = f[Len(Changes)]
                  /\ \A k \in 1..Len(Changes) : f[k] = Relate(f[k - 1], Changes[k])
                  /\ \A k \in 0..Len(Changes) : f[k] \in Relationship
<1> DEFINE ch == Changes
           N == Len(ch)
           R == Relationship
           a == [bare |-> {}, dropped |-> {}, leads |-> <<>>]
           IsAfter(h) == h = [k \in 0..N |-> IF k = 0 THEN a ELSE Relate(h[k - 1], ch[k])]
           G == [n \in Nat |-> [r \in R |-> IF n \in 1..N THEN Relate(r, ch[n]) ELSE r]]
           after == CHOOSE h : IsAfter(h)
<1>1. ch \in Seq(Statement)
  BY ChangesAre
<1>2. N \in Nat /\ \A k \in 1..N : ch[k] \in Statement
  BY <1>1
<1>3. a \in R
  <2>1. <<>> \in [{} -> Name]
    OBVIOUS
  <2>2. <<>> \in UNION {[S -> Name] : S \in SUBSET Name}
    BY <2>1
  <2> QED BY <2>2 DEF Relationship
<1>4. G \in [Nat -> [R -> R]]
  BY <1>2, RelateTypes
<1>5. Relations = after[N]
  BY DEF Relations
<1> HIDE DEF R, a, G, N, ch
<1>6. PICK f \in [Nat -> R] : f[0] = a /\ \A n \in Nat \ {0} : f[n] = G[n][f[n - 1]]
  <2> DEFINE Made(SS, aa, GG) ==
               \E h \in [Nat -> SS] : h[0] = aa /\ \A n \in Nat \ {0} : h[n] = GG[n][h[n - 1]]
  <2>1. \A SS : \A aa \in SS : \A GG \in [Nat -> [SS -> SS]] : Made(SS, aa, GG)
    BY Recursion
  <2>2. Made(R, a, G)
    <3> HIDE DEF Made
    <3> QED BY <1>3, <1>4, <2>1
  <2> QED BY <2>2
<1>7. \A k \in 1..N : f[k] = Relate(f[k - 1], ch[k])
  <2> TAKE k \in 1..N
  <2>1. k \in Nat \ {0} /\ k - 1 \in Nat
    BY <1>2
  <2>2. f[k] = G[k][f[k - 1]] /\ f[k - 1] \in R
    BY <1>6, <2>1
  <2> QED BY <2>1, <2>2 DEF G
<1> DEFINE h == [k \in 0..N |-> f[k]]
<1>8. IsAfter(h)
  <2>1. ASSUME NEW k \in 0..N PROVE f[k] = IF k = 0 THEN a ELSE Relate(h[k - 1], ch[k])
    <3>1. CASE k = 0
      BY <1>6, <3>1
    <3>2. CASE k # 0
      <4>1. k \in 1..N /\ k - 1 \in 0..N
        BY <1>2, <3>2
      <4>2. h[k - 1] = f[k - 1]
        BY <4>1
      <4> HIDE DEF h
      <4> QED BY <1>7, <3>2, <4>1, <4>2
    <3> QED BY <3>1, <3>2
  <2> QED BY <2>1
<1>9. IsAfter(after)
  <2> HIDE DEF IsAfter, h
  <2> QED BY <1>8
<1> HIDE DEF after, h
<1> DEFINE P == {k \in Nat : k <= N => after[k] = f[k]}
<1>10. P = Nat
  <2>1. 0 \in P
    BY <1>2, <1>6, <1>9
  <2>2. ASSUME NEW k \in P PROVE k + 1 \in P
    <3>1. CASE k + 1 <= N
      <4>1. k \in Nat /\ k + 1 \in 1..N /\ (k + 1) - 1 = k /\ after[k] = f[k] /\ k + 1 \in 0..N /\ k + 1 # 0
        BY <1>2, <3>1
      <4>2. after[k + 1] = Relate(after[k], ch[k + 1])
        BY <1>9, <4>1
      <4> QED BY <1>7, <4>1, <4>2
    <3> QED BY <3>1
  <2> HIDE DEF P
  <2> QED BY <2>1, <2>2, Induction DEF P
<1>11. Relations = f[N]
  BY <1>2, <1>5, <1>10
<1>12. \A k \in 0..N : f[k] \in R
  BY <1>2, <1>6
<1> QED BY <1>6, <1>7, <1>11, <1>12 DEF a, N, ch, R

\* What the changes create is what is new or rebuilt.
LEMMA CreatedIsRemade ==
    ASSUME Calm, NEW n \in DOMAIN new
    PROVE  Create(n) \in ToSet(Changes) <=> Remade(n)
<1>1. /\ DOMAIN old \subseteq Name /\ DOMAIN new \subseteq Name
      /\ \A c, d \in DOMAIN old : old[c].id = old[d].id => c = d
      /\ \A c, d \in DOMAIN new : new[c].id = new[d].id => c = d
      /\ \A c \in DOMAIN old \cap DOMAIN new : old[c].id = new[c].id
  BY CatalogTypes DEF Calm, Catalogued, ReuseIn
<1>2. Create(n) \in ToSet(Changes) <=> n \in Added \/ \E d \in Name : Becomes(d, n) /\ Rebuilt(d, n)
  BY <1>1, ChangesAre
\* The tables of the same identity are those that become n.
<1>3. \A m \in Name : Becomes(m, n) <=> m \in DOMAIN old /\ old[m].id = new[n].id
  <2> TAKE m \in Name
  <2>1. Becomes(m, n) => m \in DOMAIN old /\ old[m].id = new[n].id
    BY <1>1 DEF Becomes, Follows, Kept
  <2>2. ASSUME m \in DOMAIN old, old[m].id = new[n].id PROVE Becomes(m, n)
    <3>1. CASE m \in DOMAIN new
      <4>1. m = n
        BY <1>1, <2>2, <3>1
      <4> QED BY <2>2, <4>1 DEF Becomes, Kept
    <3>2. CASE m \notin DOMAIN new
      <4>1. n \notin DOMAIN old
        BY <1>1, <2>2, <3>2
      <4> QED BY <2>2, <3>2, <4>1 DEF Becomes, Follows
    <3> QED BY <3>1, <3>2
  <2> QED BY <2>1, <2>2
<1>4. Remade(n) <=> \A m \in Name : Becomes(m, n) => Rebuilt(m, n)
  BY <1>1, <1>3 DEF Remade, Rebuilt
<1>5. n \in Added <=> \A m \in Name : ~Becomes(m, n)
  BY <1>1, <1>3 DEF Added, Becomes, Follows, Kept
<1>6. \A d, m \in Name : Becomes(d, n) /\ Becomes(m, n) => d = m
  BY <1>1, <1>3
<1> QED BY <1>2, <1>4, <1>5, <1>6

\* A name of the new catalog is neither dropped nor renamed when all changes are made,
\* and only one they create has no baseline table.
LEMMA NewNamesStand ==
    ASSUME Calm, NEW n \in DOMAIN new
    PROVE  /\ n \notin Relations.dropped /\ n \notin DOMAIN Relations.leads
           /\ n \in Relations.bare <=> Create(n) \in ToSet(Changes)
<1> DEFINE N == Len(Changes)
           ch == Changes
<1>1. PICK f : /\ f[0] = [bare |-> {}, dropped |-> {}, leads |-> <<>>]
               /\ Relations = f[N]
               /\ \A k \in 1..N : f[k] = Relate(f[k - 1], ch[k])
               /\ \A k \in 0..N : f[k] \in Relationship
  BY RelationsSteps
<1>2. N \in Nat
  BY ChangesAre
<1>3. n \in Name /\ DOMAIN new \subseteq Name
  BY CatalogTypes DEF Calm, Catalogued
<1> DEFINE Stands(r, k) == /\ \A m \in r.dropped : Drop(m) \in Ran(k)
                           /\ Create(n) \in Ran(k) => n \notin r.dropped
                           /\ \A m \in DOMAIN r.leads : \E c \in Name : Rename(m, c) \in Ran(k)
                           /\ \A m \in r.bare : Create(m) \in Ran(k)
                           /\ Create(n) \in Ran(k) => n \in r.bare
           P == {k \in Nat : k <= N => Stands(f[k], k)}
<1>4. P = Nat
  <2>1. 0 \in P
    <3>1. 0 \in 0..N /\ Ran(0) = {}
      <4>1. 0 \in 0..N
        BY <1>2
      <4> QED BY <4>1, RanInTurn
    <3> QED BY <1>1, <3>1
  <2>2. ASSUME NEW k \in P PROVE k + 1 \in P
    <3> SUFFICES ASSUME k + 1 <= N PROVE Stands(f[k + 1], k + 1)
      OBVIOUS
    <3> DEFINE r == f[k]
               s == ch[k + 1]
               done == Ran(k)
               all == Ran(k + 1)
    <3>1. k \in Nat /\ k < N /\ k \in 0..N /\ k + 1 \in 1..N /\ (k + 1) - 1 = k /\ Stands(r, k)
      BY <1>2
    <3>2. InTurn(done) /\ s \in ToSet(Changes) \ done /\ all = done \cup {s}
      BY <3>1, RanInTurn
    <3>3. f[k + 1] = Relate(r, s) /\ r \in Relationship
      BY <1>1, <3>1
    <3>4. /\ \A m \in r.dropped : Drop(m) \in done
          /\ Create(n) \in done => n \notin r.dropped
          /\ \A m \in DOMAIN r.leads : \E c \in Name : Rename(m, c) \in done
          /\ \A m \in r.bare : Create(m) \in done
          /\ Create(n) \in done => n \in r.bare
      BY <3>1
    <3>5. r.dropped \subseteq Name
      BY <3>3 DEF Relationship
    <3> HIDE DEF r, s, done, all
    <3>6. PICK d \in Name, c \in Name : s \in {Drop(d), Create(c), Rename(d, c), Alter(d, c)}
      BY <3>2, ChangesAre
    <3> DEFINE t == Relate(r, s)
    <3>7. /\ \A m \in t.dropped : Drop(m) \in all
          /\ Create(n) \in all => n \notin t.dropped
          /\ \A m \in DOMAIN t.leads : \E e \in Name : Rename(m, e) \in all
          /\ \A m \in t.bare : Create(m) \in all
          /\ Create(n) \in all => n \in t.bare
      <4>1. CASE s = Drop(d)
        <5>1. s.op = "DROP" /\ s.of = d
          BY <4>1 DEF Drop
        <5>2. t.dropped = r.dropped \cup {d} /\ t.leads = r.leads /\ t.bare = r.bare
          BY <3>3, <5>1 DEF Relate, Relationship
        <5>3. Create(n) \in all => Create(n) \in done
          BY <3>2, <4>1, StatementsDiffer
        <5>4. Create(n) \in done => d # n
          <6>1. ASSUME Create(n) \in done, d = n PROVE FALSE
            <7>1. n \in Lost \/ \E e \in Name : Becomes(n, e) /\ Rebuilt(n, e)
              BY <1>3, <3>2, <4>1, <6>1, ChangesAre
            <7>2. n \in Kept /\ Rebuilt(n, n)
              BY <7>1 DEF Lost, Becomes, Follows, Kept
            <7>3. Drop(n) \in done
              BY <3>2, <6>1, <7>2 DEF InTurn
            <7> QED BY <3>2, <4>1, <6>1, <7>3
          <6> QED BY <6>1
        <5> HIDE DEF t
        <5> QED BY <3>2, <3>4, <4>1, <5>2, <5>3, <5>4
      <4>2. CASE s = Create(c)
        <5>1. s.op = "CREATE" /\ s.to = c
          BY <4>2 DEF Create
        <5>2. t.dropped = r.dropped \ {c} /\ t.leads = r.leads /\ t.bare = r.bare \cup {c}
          BY <3>3, <5>1 DEF Relate, Relationship
        <5>3. Create(n) \in all => Create(n) \in done \/ n = c
          BY <3>2, <4>2, StatementsDiffer
        <5> HIDE DEF t
        <5>4. Create(c) \in all /\ \A x \in done : x \in all
          BY <3>2, <4>2
        <5> QED BY <3>4, <5>2, <5>3, <5>4
      <4>3. CASE s = Rename(d, c)
        <5>1. s.op = "RENAME" /\ s.of = d /\ s.to = c
          BY <4>3 DEF Rename
        <5>2. d \notin r.dropped
          BY <3>2, <3>4, <4>3, Apart DEF InTurn
        <5>3. /\ t.dropped \subseteq r.dropped /\ t.bare = r.bare \ {d, c}
              /\ DOMAIN t.leads = DOMAIN r.leads \cup {d}
          BY <5>1, <5>2 DEF Relate
        <5>4. Create(n) \in all => Create(n) \in done
          BY <3>2, <4>3, StatementsDiffer
        <5> HIDE DEF t
        <5>5. Rename(d, c) \in all /\ \A x \in done : x \in all
          BY <3>2, <4>3
        <5>6. \A m \in DOMAIN t.leads : \E e \in Name : Rename(m, e) \in all
          BY <3>4, <3>6, <5>3, <5>5
        <5>7. (\A m \in t.dropped : Drop(m) \in all) /\ (\A m \in t.bare : Create(m) \in all)
          BY <3>4, <5>3, <5>5
        <5>8. Create(n) \in all => n \notin {d, c}
          <6>1. Follows(d, c) /\ ~Rebuilt(d, c)
            BY <3>2, <3>6, <4>3, ChangesAre
          <6>2. n # d
            BY <6>1 DEF Follows
          <6>3. ASSUME Create(n) \in all, n = c PROVE FALSE
            <7>1. Create(n) \in ToSet(Changes)
              BY <3>2, <5>4, <6>3 DEF InTurn
            <7>2. d \in DOMAIN old /\ old[d].id = new[n].id
              BY <6>1, <6>3 DEF Follows
            <7> QED BY <6>1, <6>3, <7>1, <7>2, CreatedIsRemade DEF Remade, Rebuilt
          <6> QED BY <6>2, <6>3
        <5> QED BY <3>4, <5>3, <5>4, <5>6, <5>7, <5>8
      <4>4. CASE s = Alter(d, c)
        <5>1. s.op = "ALTER" /\ s.to = c
          BY <4>4 DEF Alter
        <5>2. t = r
          BY <3>3, <5>1 DEF Relate, Relationship
        <5>3. Create(n) \in all => Create(n) \in done
          BY <3>2, <4>4, StatementsDiffer
        <5> HIDE DEF t
        <5> QED BY <3>2, <3>4, <5>2, <5>3
      <4> QED BY <3>6, <4>1, <4>2, <4>3, <4>4
    <3> HIDE DEF t
    <3> QED BY <3>3, <3>7 DEF all, t
  <2> HIDE DEF P
  <2> QED BY <2>1, <2>2, Induction DEF P
<1>5. Stands(Relations, N)
  BY <1>1, <1>2, <1>4
<1>6. Ran(N) = ToSet(Changes)
  <2>1. N \in 0..N
    BY <1>2
  <2> QED BY <2>1, RanInTurn
<1>7. n \notin Relations.dropped
  <2>1. ASSUME n \in Relations.dropped PROVE FALSE
    <3>1. Drop(n) \in ToSet(Changes) /\ Create(n) \notin ToSet(Changes)
      BY <1>5, <1>6, <2>1
    <3>2. n \in Lost \/ \E e \in Name : Becomes(n, e) /\ Rebuilt(n, e)
      BY <1>3, <3>1, ChangesAre
    <3>3. Becomes(n, n) /\ Rebuilt(n, n)
      BY <3>2 DEF Lost, Becomes, Follows
    <3> QED BY <1>3, <3>1, <3>3, ChangesAre
  <2> QED BY <2>1
<1>8. n \notin DOMAIN Relations.leads
  <2>1. ASSUME NEW e \in Name, Rename(n, e) \in ToSet(Changes) PROVE FALSE
    BY <1>3, <2>1, ChangesAre DEF Follows
  <2> QED BY <1>5, <1>6, <2>1
<1>9. n \in Relations.bare <=> Create(n) \in ToSet(Changes)
  BY <1>5, <1>6
<1> QED BY <1>7, <1>8, <1>9

\* So it stands for itself.
LEMMA RoutesToItself ==
    ASSUME Calm, NEW n \in DOMAIN new
    PROVE  Route(n) = n
<1> DEFINE leads == Relations.leads
           N == Cardinality(Name)
           Leads(h) == h = [k \in 0..N |->
                               IF k = 0 THEN n
                               ELSE LET m == h[k - 1] IN IF m \in DOMAIN leads THEN leads[m] ELSE m]
           follow == CHOOSE h : Leads(h)
           stay == [k \in 0..N |-> n]
<1>1. N \in Nat /\ n \notin DOMAIN leads
  BY NewNamesStand, SchemaAssumption, FS_CardinalityType
<1>2. Route(n) = follow[N]
  BY DEF Route
<1> HIDE DEF leads, N
<1>3. Leads(stay)
  <2>1. ASSUME NEW k \in 0..N PROVE k # 0 => stay[k - 1] = n
    BY <1>1
  <2> HIDE DEF stay
  <2>2. stay = [k \in 0..N |-> n]
    BY DEF stay
  <2>3. [k \in 0..N |-> n] = [k \in 0..N |->
            IF k = 0 THEN n
            ELSE LET m == stay[k - 1] IN IF m \in DOMAIN leads THEN leads[m] ELSE m]
    BY <1>1, <2>1
  <2> QED BY <2>2, <2>3
<1>4. Leads(follow)
  <2> HIDE DEF Leads, stay
  <2> QED BY <1>3
<1> HIDE DEF follow
<1> DEFINE P == {k \in Nat : k <= N => follow[k] = n}
<1>5. P = Nat
  <2>1. 0 \in P
    BY <1>1, <1>4
  <2>2. ASSUME NEW k \in P PROVE k + 1 \in P
    <3>1. CASE k + 1 <= N
      <4>1. k \in Nat /\ k + 1 \in 0..N /\ k + 1 # 0 /\ (k + 1) - 1 = k /\ follow[k] = n
        BY <1>1, <3>1
      <4> QED BY <1>1, <1>4, <4>1
    <3> QED BY <3>1
  <2> HIDE DEF P
  <2> QED BY <2>1, <2>2, Induction DEF P
<1> QED BY <1>1, <1>2, <1>5

\* And the change is refused for rows of a table it makes anew, and for nothing else.
LEMMA WhyBlocked ==
    ASSUME Calm, targets \subseteq DOMAIN new, needed \subseteq DOMAIN new
    PROVE  Blockers <=> \E n \in needed : Remade(n)
<1>1. \A n \in DOMAIN new : Route(n) = n /\ n \notin Relations.dropped
  BY NewNamesStand, RoutesToItself
<1>2. \A n \in DOMAIN new : n \in Relations.bare <=> Remade(n)
  BY NewNamesStand, CreatedIsRemade
<1> QED BY <1>1, <1>2 DEF Blockers

-----------------------------------------------------------------------------
(* The invariant.                                                          *)

\* The first k changes have run, the others are still to run.
Reached(k) ==
    /\ statements = [i \in 1..(Len(Changes) - k) |-> Changes[i + k]]
    /\ Holds(qa, Ran(k))
    /\ outcome = "applied" => k = Len(Changes)

SchemaInv ==
    /\ Catalogued
    /\ targets \subseteq DOMAIN new /\ needed \subseteq DOMAIN new
    /\ Reuse \/ ~ReuseIn(old, new)
    /\ ~ReuseIn(old, new) =>
          /\ outcome \in {"compile", "running", "applied", "blocked"}
          /\ outcome # "compile" => (outcome = "blocked" <=> \E n \in needed : Remade(n))
          /\ outcome \notin {"compile", "blocked"} => \E k \in 0..Len(Changes) : Reached(k)

\* No step changes the catalogs or what the jobs write.
LEMMA SameSchema ==
    ASSUME UNCHANGED <<old, new, targets, anchors, needed>>
    PROVE  /\ Catalogued' = Catalogued
           /\ (targets \subseteq DOMAIN new /\ needed \subseteq DOMAIN new)'
              = (targets \subseteq DOMAIN new /\ needed \subseteq DOMAIN new)
           /\ ReuseIn(old, new)' = ReuseIn(old, new)
           /\ (\E n \in needed : Remade(n))' = (\E n \in needed : Remade(n))
           /\ \A k : Ran(k)' = Ran(k)
  BY SameCatalogs DEF Catalogued, ReuseIn, Ran, Catalogs, Remade

\* What the database holds is told by it and by what does not change.
LEMMA SameHolds ==
    ASSUME UNCHANGED <<old, new, targets, anchors, needed>>, NEW CONSTANT k, Holds(qa', Ran(k))
    PROVE  Holds(qa, Ran(k))'
<1>1. BaselineNeeded' = BaselineNeeded /\ Ran(k)' = Ran(k)
  BY SameCatalogs DEF Ran
<1>2. \A n \in Name : Untouched(n, Ran(k))' <=> Untouched(n, Ran(k))
  BY <1>1 DEF Untouched, Drop, Rename
<1> QED BY <1>1, <1>2 DEF Holds, Create, Rename, Alter

\* It holds at first, and each step keeps it.
LEMMA SchemaInvInit == SchemaInit => SchemaInv
  BY DEF SchemaInit, SchemaInv, Catalogued

LEMMA SchemaInvStep == ASSUME SchemaInv, [SchemaNext]_schemaVars PROVE SchemaInv'
<1>1. UNCHANGED <<old, new, targets, anchors, needed>>
  BY DEF SchemaNext, CompileManifest, ApplyChange, Applied, schemaVars
<1>2. /\ Catalogued' /\ (targets \subseteq DOMAIN new /\ needed \subseteq DOMAIN new)'
      /\ (Reuse \/ ~ReuseIn(old, new))'
      /\ ReuseIn(old, new)' = ReuseIn(old, new)
      /\ (\E n \in needed : Remade(n))' = (\E n \in needed : Remade(n))
  BY <1>1, SameSchema DEF SchemaInv
<1>3. SUFFICES ASSUME ~ReuseIn(old, new)
               PROVE  /\ outcome' \in {"compile", "running", "applied", "blocked"}
                      /\ outcome' # "compile" =>
                            (outcome' = "blocked" <=> \E n \in needed : Remade(n))
                      /\ outcome' \notin {"compile", "blocked"} =>
                            \E k \in 0..Len(Changes) : Reached(k)'
  <2>1. Changes' = Changes
    BY <1>1, SameCatalogs
  <2> QED BY <1>2, <2>1 DEF SchemaInv
<1>4. /\ Calm /\ targets \subseteq DOMAIN new /\ Changes' = Changes /\ Len(Changes) \in Nat
      /\ Changes \in Seq(Statement)
  BY <1>1, <1>3, SameCatalogs, ChangesAre DEF SchemaInv, Calm
<1>5. CASE CompileManifest /\ Blockers
  <2>1. outcome' = "blocked" /\ needed \subseteq DOMAIN new
    BY <1>5 DEF CompileManifest, SchemaInv
  <2>2. \E n \in needed : Remade(n)
    BY <1>4, <1>5, <2>1, WhyBlocked
  <2> QED BY <2>1, <2>2
<1>5a. CASE CompileManifest /\ ~Blockers
  <2>1. outcome' = "running" /\ qa' = Restrict(old, BaselineNeeded) /\ statements' = Changes
    BY <1>5a DEF CompileManifest
  <2>2. Ran(0) = {} /\ 0 \in 0..Len(Changes)
    <3>1. 0 \in 0..Len(Changes)
      BY <1>4
    <3> QED BY <1>4, <3>1, RanInTurn
  <2>3. Holds(qa, Ran(0))'
    BY <1>1, <1>4, <2>1, <2>2, BaselineHolds, SameHolds
  <2>4. Changes = [i \in 1..(Len(Changes) - 0) |-> Changes[i + 0]]
    BY <1>4
  <2>5. Reached(0)'
    BY <1>4, <2>1, <2>3, <2>4 DEF Reached
  <2>6. ~ \E n \in needed : Remade(n)
    BY <1>4, <1>5a, WhyBlocked DEF SchemaInv
  <2> QED BY <2>1, <2>2, <2>5, <2>6
<1>6. CASE ApplyChange
  <2>1. outcome = "running" /\ statements # <<>>
    BY <1>6 DEF ApplyChange
  <2>2. PICK k \in 0..Len(Changes) : Reached(k)
    BY <1>3, <2>1 DEF SchemaInv
  <2>3. statements = [i \in 1..(Len(Changes) - k) |-> Changes[i + k]] /\ Holds(qa, Ran(k))
    BY <2>2 DEF Reached
  <2>4. k < Len(Changes) /\ k + 1 \in 0..Len(Changes)
    <3>1. ASSUME k = Len(Changes) PROVE statements = <<>>
      BY <1>4, <2>3, <3>1
    <3> QED BY <1>4, <2>1, <3>1
  <2>5. /\ Head(statements) = Changes[k + 1]
        /\ Tail(statements) = [i \in 1..(Len(Changes) - (k + 1)) |-> Changes[i + (k + 1)]]
    <3> DEFINE ch == Changes
               N == Len(ch)
               st == statements
    <3>1. ch \in Seq(Statement) /\ N \in Nat /\ k \in 0..N /\ k < N
      BY <1>4, <2>4
    <3>2. st = [i \in 1..(N - k) |-> ch[i + k]]
      BY <2>3
    <3>3. st \in Seq(Statement) /\ Len(st) = N - k
      BY <3>1, <3>2
    <3>4. Head(st) = st[1] /\ Tail(st) = [i \in 1..(Len(st) - 1) |-> st[i + 1]]
      <4> HIDE DEF st
      <4>1. Head(st) = st[1]
        BY <3>3
      <4>2. Tail(st) = [i \in 1..(Len(st) - 1) |-> st[i + 1]]
        <5>1. /\ Tail(st) \in Seq(Statement) /\ Len(Tail(st)) = Len(st) - 1
              /\ \A i \in 1..(Len(st) - 1) : Tail(st)[i] = st[i + 1]
          BY <3>1, <3>3
        <5>2. Tail(st) = [i \in 1..Len(Tail(st)) |-> Tail(st)[i]]
          <6>1. \A t \in Seq(Statement) : t = [i \in 1..Len(t) |-> t[i]]
            OBVIOUS
          <6> QED BY <5>1, <6>1
        <5> QED BY <5>1, <5>2
      <4> QED BY <4>1, <4>2
    <3> HIDE DEF ch, N, st
    <3>5. st[1] = ch[k + 1]
      BY <3>1, <3>2
    <3>6. Tail(st) = [i \in 1..(N - (k + 1)) |-> ch[i + (k + 1)]]
      <4>1. Len(st) - 1 = N - (k + 1)
        BY <3>1, <3>3
      <4>2. \A i \in 1..(N - (k + 1)) : st[i + 1] = ch[i + (k + 1)]
        <5> TAKE i \in 1..(N - (k + 1))
        <5>1. i + 1 \in 1..(N - k) /\ (i + 1) + k = i + (k + 1)
          BY <3>1
        <5> QED BY <3>2, <5>1
      <4> QED BY <3>4, <4>1, <4>2
    <3> QED BY <3>4, <3>5, <3>6 DEF ch, N, st
  <2>6. Runs(Changes[k + 1]) /\ Holds(Effect(Changes[k + 1]), Ran(k + 1))
    BY <1>4, <2>3, <2>4, ChangeHolds
  <2>7. /\ outcome' = "running" /\ qa' = Effect(Changes[k + 1])
        /\ statements' = [i \in 1..(Len(Changes) - (k + 1)) |-> Changes[i + (k + 1)]]
    BY <1>6, <2>1, <2>5, <2>6 DEF ApplyChange
  <2>8. Holds(qa, Ran(k + 1))'
    BY <1>1, <2>6, <2>7, SameHolds
  <2>9. Reached(k + 1)'
    BY <1>4, <2>7, <2>8 DEF Reached
  <2>10. ~ \E n \in needed : Remade(n)
    BY <1>3, <2>1 DEF SchemaInv
  <2> QED BY <2>4, <2>7, <2>9, <2>10
<1>7. CASE Applied
  <2>1. outcome = "running" /\ statements = <<>> /\ outcome' = "applied" /\ UNCHANGED <<qa, statements>>
    BY <1>7 DEF Applied
  <2>2. PICK k \in 0..Len(Changes) : Reached(k)
    BY <1>3, <2>1 DEF SchemaInv
  <2>3. k = Len(Changes)
    <3>1. DOMAIN statements = 1..(Len(Changes) - k)
      BY <2>2 DEF Reached
    <3>2. DOMAIN statements = {}
      BY <2>1
    <3>3. ASSUME k < Len(Changes) PROVE 1 \in 1..(Len(Changes) - k)
      BY <1>4, <3>3
    <3> QED BY <1>4, <3>1, <3>2, <3>3
  <2>4. Holds(qa, Ran(k))'
    BY <1>1, <2>1, <2>2, SameHolds DEF Reached
  <2>5. Reached(k)'
    BY <1>4, <2>1, <2>2, <2>3, <2>4 DEF Reached
  <2>6. ~ \E n \in needed : Remade(n)
    BY <1>3, <2>1 DEF SchemaInv
  <2> QED BY <2>1, <2>5, <2>6
<1>8. CASE UNCHANGED schemaVars
  <2>1. UNCHANGED <<qa, statements, outcome>>
    BY <1>8 DEF schemaVars
  <2>2. ASSUME NEW k \in 0..Len(Changes), Reached(k) PROVE Reached(k)'
    <3>1. Holds(qa, Ran(k))'
      BY <1>1, <2>1, <2>2, SameHolds DEF Reached
    <3> QED BY <1>4, <2>1, <2>2, <3>1 DEF Reached
  <2> QED BY <1>3, <2>1, <2>2 DEF SchemaInv
<1> QED BY <1>5, <1>6, <1>7, <1>8, <1>5a DEF SchemaNext

\* derive_ddl_changes and compile_shadow_manifest, then Phase 2 of shadow_run: if every name
\* keeps its table, some first part of the changes has run, in order and without an
\* error, and the database holds what this part makes of the baseline.
THEOREM SchemaInvariant == SchemaSpec => []SchemaInv
  BY SchemaInvInit, SchemaInvStep, PTL DEF SchemaSpec

\* If every name keeps its table, then after the DDL phase a job that names a table it
\* writes, or a table that changed, gets the table of that name as the DDL files define
\* it: whatever is added, dropped, renamed, rebuilt and altered together.
THEOREM DeclaredIsUsed == SchemaSpec => [](~ReuseIn(old, new) => UsedAsDeclared)
<1>1. SchemaInv => (~ReuseIn(old, new) => UsedAsDeclared)
  <2> SUFFICES ASSUME SchemaInv, ~ReuseIn(old, new), outcome = "applied",
                      NEW n \in targets \cup Changed
               PROVE  Route(n) = n /\ n \in DOMAIN qa /\ qa[n] = new[n]
    BY DEF UsedAsDeclared
  <2>1. Calm /\ targets \subseteq DOMAIN new /\ n \in DOMAIN new
    BY DEF SchemaInv, Calm, Changed
  <2>2. PICK k \in 0..Len(Changes) : Holds(qa, Ran(k)) /\ k = Len(Changes)
    BY DEF SchemaInv, Reached
  <2>3. Holds(qa, ToSet(Changes))
    BY <2>1, <2>2, RanInTurn
  <2> QED BY <2>1, <2>3, AllRan, RoutesToItself
<1> QED BY <1>1, SchemaInvariant, PTL

\* So it is always, where no name passes from one identity to another.
THEOREM NoReuseDeclared == ASSUME ~Reuse PROVE SchemaSpec => []UsedAsDeclared
<1>1. SchemaInv /\ (~ReuseIn(old, new) => UsedAsDeclared) => UsedAsDeclared
  BY DEF SchemaInv
<1> QED BY <1>1, SchemaInvariant, DeclaredIsUsed, PTL

\* A change in which every name keeps its table is not stopped by a statement that the
\* database does not take, and the manifest (shadow_manifest) refuses it if a job needs
\* production rows of a table that is new or rebuilt, and only then.
THEOREM OrderlyAccepted == SchemaSpec => []OrderlyChangeAccepted
<1>1. SchemaInv => OrderlyChangeAccepted
  BY DEF SchemaInv, OrderlyChangeAccepted
<1> QED BY <1>1, SchemaInvariant, PTL
=============================================================================
