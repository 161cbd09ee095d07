-------------------------- MODULE RefactorRunProofs ---------------------------
(***************************************************************************)
(* Proofs about RefactorRun for any number of processes, tables, modes and *)
(* contents of the workspace, when planning commands run alone (Separate)  *)
(* and the workspace is edited carefully (Quiet); and about TaskCache, the *)
(* extraction of lineage that those commands start, for any number of      *)
(* tasks, tables and contents of the workspace whose tasks are in order.   *)
(***************************************************************************)
EXTENDS RefactorRun, TaskCache, RecursionProofs, FiniteSetTheorems, SequenceTheorems, TLAPS

\* The policy the theorems assume.
Disciplined == Separate /\ Quiet

-----------------------------------------------------------------------------
(* The inductive invariant, one part per concern.                          *)

Optional(S) == S \cup {None}
Status == {"completed", "failed", "dry_run"}
Memory == [intent : Optional(Intent), lineage : Optional(Version),
           changes : Optional(RawChanges), made : Optional(Version),
           plan : Optional(Plan), result : Optional(Result), data : Optional(Contents),
           table : Optional(Table), mode : Optional(Mode), status : Optional(Status)]

\* Which steps belong to which commands.
Unchecked == {"load", "check", "reload", "check again"}
Dropping == {"drop plan", "drop shadow", "drop verdict"}
Analysing == {"lineage", "changes", "snapshot"}
Declaring == {"declare", "replan", "recheck"}
Clearing == {"clear shadow", "clear verdict"}
Executing == {"announce", "claim", "compile", "execute", "finish"}
Comparing == {"own", "judge", "report"}

Fits(c) ==
    /\ at[c] \notin Rest => kind[c] \in Kind
    /\ at[c] \in {"load", "check"} => kind[c] # "analyze"
    /\ at[c] \in {"reload", "check again", "lock"} => kind[c] \notin Planning
    /\ at[c] \in Dropping \cup Clearing \cup {"build", "publish"} => kind[c] \in Planning
    /\ at[c] \in Analysing => kind[c] = "analyze"
    /\ at[c] \in Declaring => kind[c] = "semantic-mode"
    /\ at[c] \in Executing => kind[c] \in Shadowing
    /\ at[c] \in {"claim", "compile", "execute"} => kind[c] = "shadow-run"
    /\ at[c] \in {"match"} \cup Comparing => kind[c] = "compare"

\* What a process holds when it needs it.
Equipped(c) ==
    /\ at[c] \in Rest => seen[c] = Nothing
    /\ at[c] \notin Rest => seen[c].intent \in Intent
    /\ at[c] \notin Rest /\ kind[c] \in Planning => seen[c].intent = intent
    /\ at[c] \notin Rest /\ kind[c] = "semantic-mode" =>
          seen[c].table \in Table /\ seen[c].mode \in Mode
    /\ at[c] = "finish" =>
          seen[c].status \in Status /\ (kind[c] = "dry-run" => seen[c].status # "completed")

TypeInv ==
    /\ TypeOK
    /\ seen \in [Cmd -> Memory]

\* A planning command is alone.
Alone == \A c, d \in Cmd : at[c] \notin Rest /\ at[d] \notin Rest /\ kind[c] \in Planning => c = d

\* Who executes or compares holds the lock.
Locked(c) == at[c] \in Executing \cup {"own", "judge"} => lock = c

\* A plan made from one content of the workspace.
MadeFrom(p, v) ==
    /\ p \in Plan
    /\ p.ws = v /\ p.lineage = v /\ p.made = v
    /\ p.changes = [lineage |-> v, files |-> v, renames |-> v]
Made(p) == MadeFrom(p, p.ws)

\* The process holds a plan it has loaded.
Loaded(c) ==
    \/ kind[c] = "semantic-mode" /\ at[c] \notin Rest \cup {"load"}
    \/ kind[c] \notin Planning /\ at[c] \notin Rest \cup {"load"}
    \/ at[c] = "publish"

\* analyze sees one workspace; semantic-mode sees it only go forward.
Consistent(c) ==
    /\ Loaded(c) => Made(seen[c].plan)
    /\ at[c] = "changes" => seen[c].lineage = ws
    /\ at[c] \in {"build", "snapshot"} /\ kind[c] = "analyze" =>
          /\ seen[c].lineage = ws
          /\ seen[c].changes = [lineage |-> ws, files |-> ws, renames |-> None]
    /\ at[c] = "snapshot" => seen[c].made = ws
    /\ at[c] = "build" /\ kind[c] = "semantic-mode" => seen[c].plan.ws <= ws
    /\ at[c] = "recheck" =>
          seen[c].made \in Version /\ seen[c].plan.ws <= seen[c].made /\ seen[c].made <= ws

\* Outside planning, the plan in memory is the one on disk; an execution's is of
\* the workspace as it is.
Current(c) ==
    kind[c] \notin Planning /\ at[c] \notin Rest \cup {"load"} =>
        /\ plan # None /\ seen[c].plan = plan
        /\ at[c] \in {"lock"} \cup Executing /\ kind[c] \in Shadowing => plan.ws = ws

\* Between the deletions and the publication there are no results.
Cleared(c) ==
    /\ at[c] = "drop verdict" => shadow = None
    /\ at[c] \in Analysing \cup Declaring \cup Clearing \cup {"build", "publish"} =>
          shadow = None /\ verdict = None

\* What an execution that is over has left in its slot.
DataOf(p) == [plan |-> p, read |-> {p.ws}]
Settled(r) ==
    /\ r \in Result /\ at[r.by] = "over"
    /\ slots[r.by] # None => slots[r.by] = DataOf(r.plan)

Executed(c) ==
    /\ at[c] = "compile" => slots[c] = [plan |-> seen[c].plan, read |-> {}]
    /\ at[c] = "execute" => slots[c] = DataOf(seen[c].plan)
    /\ at[c] = "finish" /\ seen[c].status = "completed" => slots[c] = DataOf(seen[c].plan)

Compared(c) ==
    /\ at[c] \in Comparing \/ (at[c] = "lock" /\ kind[c] = "compare") =>
          Settled(seen[c].result) /\ seen[c].result.plan = seen[c].plan
    /\ at[c] = "judge" => slots[seen[c].result.by] # None
    /\ at[c] = "report" => seen[c].data = DataOf(seen[c].plan)

\* The result file is that of the execution under way.
Announced(c) ==
    at[c] \in {"claim", "compile", "execute", "finish"} =>
        shadow # None /\ shadow.by = c /\ shadow.status = "running"

Local(c) ==
    /\ Fits(c) /\ Equipped(c) /\ Locked(c)
    /\ Consistent(c) /\ Current(c) /\ Cleared(c)
    /\ Announced(c) /\ Executed(c) /\ Compared(c)

Global ==
    /\ Alone
    /\ plan # None => Made(plan)
    /\ shadow # None /\ shadow.status = "completed" => Settled(shadow)
    /\ ResultsOfPlan
    /\ VerdictSound

RunInv == TypeInv /\ Global /\ \A c \in Cmd : Local(c)

USE DEF Rest, Executing, Comparing, Clearing, Analysing, Declaring, Dropping, Planning,
        Shadowing, Kind

\* The invariant holds when nothing has started.
LEMMA RunInit == Init => RunInv
<1> SUFFICES ASSUME Init PROVE RunInv
  OBVIOUS
<1>1. Nothing \in Memory
  BY DEF Nothing, Memory, Optional
<1>2. TypeInv
  BY <1>1, RunAssumption DEF Init, TypeInv, TypeOK, Intent
<1>3. Global
  BY DEF Init, Global, Alone, ResultsOfPlan, VerdictSound
<1>4. ASSUME NEW c \in Cmd PROVE Local(c)
  BY DEF Init, Local, Fits, Equipped, Locked, Consistent, Current, Cleared, Announced,
     Executed, Compared, Loaded
<1> QED
  BY <1>2, <1>3, <1>4 DEF RunInv

-----------------------------------------------------------------------------
(* The memory of a process: Hold changes one field of one process.         *)

Fields == {"intent", "lineage", "changes", "made", "plan", "result", "data", "table", "mode",
           "status"}
Apart(c, f) ==
    /\ seen' \in [Cmd -> Memory]
    /\ \A d \in Cmd \ {c} : seen'[d] = seen[d]
    /\ \A g \in Fields \ {f} : seen'[c][g] = seen[c][g]

\* A process that holds a new intent keeps everything else it holds.
LEMMA HoldIntent ==
    ASSUME TypeInv, NEW c \in Cmd, NEW v \in Intent, Hold(c, "intent", v)
    PROVE  Apart(c, "intent") /\ seen'[c].intent = v
<1> USE DEF TypeInv, Hold, Memory, Optional
<1>1. seen' \in [Cmd -> Memory]
  OBVIOUS
<1> QED
  BY <1>1 DEF Apart, Fields

\* A process that holds a new lineage keeps everything else it holds.
LEMMA HoldLineage ==
    ASSUME TypeInv, NEW c \in Cmd, NEW v \in Version, Hold(c, "lineage", v)
    PROVE  Apart(c, "lineage") /\ seen'[c].lineage = v
<1> USE DEF TypeInv, Hold, Memory, Optional
<1>1. seen' \in [Cmd -> Memory]
  OBVIOUS
<1> QED
  BY <1>1 DEF Apart, Fields

\* A process that holds a new change analysis keeps everything else it
\* holds.
LEMMA HoldChanges ==
    ASSUME TypeInv, NEW c \in Cmd, NEW v \in RawChanges, Hold(c, "changes", v)
    PROVE  Apart(c, "changes") /\ seen'[c].changes = v
<1> USE DEF TypeInv, Hold, Memory, Optional
<1>1. seen' \in [Cmd -> Memory]
  OBVIOUS
<1> QED
  BY <1>1 DEF Apart, Fields

\* A process that holds a new plan keeps everything else it holds.
LEMMA HoldPlan ==
    ASSUME TypeInv, NEW c \in Cmd, NEW v \in Plan, Hold(c, "plan", v)
    PROVE  Apart(c, "plan") /\ seen'[c].plan = v
<1> USE DEF TypeInv, Hold, Memory, Optional
<1>1. seen' \in [Cmd -> Memory]
  OBVIOUS
<1> QED
  BY <1>1 DEF Apart, Fields

\* A process that holds a new result keeps everything else it holds.
LEMMA HoldResult ==
    ASSUME TypeInv, NEW c \in Cmd, NEW v \in Result, Hold(c, "result", v)
    PROVE  Apart(c, "result") /\ seen'[c].result = v
<1> USE DEF TypeInv, Hold, Memory, Optional
<1>1. seen' \in [Cmd -> Memory]
  OBVIOUS
<1> QED
  BY <1>1 DEF Apart, Fields

\* A process that holds a new data keeps everything else it holds.
LEMMA HoldData ==
    ASSUME TypeInv, NEW c \in Cmd, NEW v \in Contents, Hold(c, "data", v)
    PROVE  Apart(c, "data") /\ seen'[c].data = v
<1> USE DEF TypeInv, Hold, Memory, Optional
<1>1. seen' \in [Cmd -> Memory]
  OBVIOUS
<1> QED
  BY <1>1 DEF Apart, Fields

\* A process that holds a new status keeps everything else it holds.
LEMMA HoldStatus ==
    ASSUME TypeInv, NEW c \in Cmd, NEW v \in Status, Hold(c, "status", v)
    PROVE  Apart(c, "status") /\ seen'[c].status = v
<1> USE DEF TypeInv, Hold, Memory, Optional
<1>1. seen' \in [Cmd -> Memory]
  OBVIOUS
<1> QED
  BY <1>1 DEF Apart, Fields

-----------------------------------------------------------------------------
(* What a step of one command leaves to the others.                        *)

\* A step of a command that is under way, as the others see it.
Polite(c) ==
    /\ at[c] \notin Rest
    /\ ws' = ws /\ kind' = kind
    /\ kind[c] \notin Planning => plan' = plan /\ intent' = intent
    /\ kind[c] \notin Planning /\ at[c] \notin Executing => shadow' = shadow
    /\ \A d \in Cmd \ {c} :
          at'[d] = at[d] /\ seen'[d] = seen[d] /\ slots'[d] = slots[d] /\ (lock = d => lock' = d)

\* Going to another step moves nobody else.
LEMMA Moving == ASSUME TypeInv, NEW c \in Cmd, NEW s \in Steps \cup Rest, Goto(c, s)
                PROVE  at' \in [Cmd -> Steps \cup Rest] /\ at'[c] = s
                       /\ \A d \in Cmd \ {c} : at'[d] = at[d]
BY DEF Goto, TypeInv, TypeOK

\* An invocation that is over has forgotten everything and released its own
\* lock only.
LEMMA Ending == ASSUME TypeInv, NEW c \in Cmd, Over(c)
                PROVE  /\ at' \in [Cmd -> Steps \cup Rest] /\ seen' \in [Cmd -> Memory]
                       /\ lock' \in Cmd \cup {None}
                       /\ at'[c] \in Rest /\ seen'[c] = Nothing
                       /\ \A d \in Cmd \ {c} : at'[d] = at[d] /\ seen'[d] = seen[d]
                                                 /\ (lock = d => lock' = d)
                       /\ kind[c] \in Shadowing => at'[c] = "over"
                       /\ lock' # c
<1>1. Nothing \in Memory
  BY DEF Nothing, Memory, Optional
<1> QED
  BY <1>1, RunAssumption DEF Over, Goto, TypeInv, TypeOK

\* A step takes one process to its next step and leaves the others where they are.
Moved(c, s) ==
    /\ at[c] \notin Rest /\ ws' = ws /\ kind' = kind
    /\ at' \in [Cmd -> Steps \cup Rest] /\ seen' \in [Cmd -> Memory]
    /\ at'[c] = s
    /\ \A d \in Cmd \ {c} : at'[d] = at[d] /\ seen'[d] = seen[d]

\* A step that moves one process and changes at most one field of its
\* memory.
LEMMA Shape ==
    ASSUME RunInv, NEW c \in Cmd, NEW s \in Steps, Goto(c, s), ws' = ws, kind' = kind,
           seen' = seen \/ \E f \in Fields : Apart(c, f), at[c] \notin Rest
    PROVE  Moved(c, s)
BY Moving DEF Moved, Apart, RunInv, TypeInv

\* A polite step of one command preserves the invariant of every other one.
LEMMA Others == ASSUME RunInv, NEW c \in Cmd, Polite(c), TypeInv', NEW d \in Cmd \ {c}
                PROVE  Local(d)'
<1> USE DEF RunInv, Polite, Local
<1>1. /\ Fits(d)' /\ Locked(d)'
      /\ at'[d] = at[d] /\ seen'[d] = seen[d] /\ kind'[d] = kind[d]
  BY DEF Fits, Locked
<1>2. CASE at[d] \in Rest
  BY <1>1, <1>2
  DEF Equipped, Consistent, Current, Cleared, Executed, Compared, Announced, Loaded
<1>3. CASE at[d] \notin Rest
  <2>1. kind[d] \notin Planning /\ kind[c] \notin Planning
    BY <1>3 DEF Global, Alone
  <2>2. plan' = plan /\ Equipped(d)'
    BY <1>1, <2>1 DEF Equipped
  <2>3. Consistent(d)' /\ Current(d)'
    BY <2>1, <2>2, <1>1 DEF Consistent, Current, Loaded, Made, MadeFrom
  <2>4. Cleared(d)'
    BY <1>1, <2>1 DEF Cleared, Fits
  <2>5. Executed(d)'
    BY <1>1 DEF Executed
  <2>6. Announced(d)'
    <3>1. at[d] \in Executing => shadow' = shadow
      BY <2>1 DEF Locked
    <3> QED
      BY <1>1, <3>1 DEF Announced
  <2>7. Compared(d)'
    BY <1>1 DEF Compared, Settled, Result
  <2> QED
    BY <1>1, <2>2, <2>3, <2>4, <2>5, <2>6, <2>7
<1> QED
  BY <1>2, <1>3

\* A polite step starts no command.
LEMMA StayAlone == ASSUME RunInv, NEW c \in Cmd, Polite(c) PROVE Alone'
BY DEF RunInv, Global, Alone, Polite

\* What an execution that is over has left stays through a polite step.
LEMMA StaySettled ==
    ASSUME RunInv, NEW c \in Cmd, Polite(c), NEW r, Settled(r)
    PROVE  Settled(r)'
BY DEF Settled, Polite, Result

\* A process at rest satisfies its invariant.
LEMMA Resting == ASSUME NEW c \in Cmd, at'[c] \in Rest, seen'[c] = Nothing PROVE Local(c)'
BY DEF Local, Fits, Equipped, Locked, Consistent, Current, Cleared, Executed, Compared,
   Announced, Loaded, Nothing

\* A polite step that leaves the plan and the results alone has only its own
\* invariant to preserve.
LEMMA FilesKept ==
    ASSUME RunInv, NEW c \in Cmd, Polite(c), TypeInv', Local(c)', plan' = plan, shadow' = shadow,
           verdict' = verdict
    PROVE  RunInv'
<1>1. \A d \in Cmd \ {c} : Local(d)'
  BY Others
<1>2. (shadow # None /\ shadow.status = "completed" => Settled(shadow))'
  BY StaySettled DEF RunInv, Global
<1>3. (plan # None => Made(plan))' /\ ResultsOfPlan' /\ VerdictSound'
  BY DEF RunInv, Global, Made, MadeFrom, ResultsOfPlan, VerdictSound
<1> QED
  BY <1>1, <1>2, <1>3, StayAlone DEF RunInv, Global

\* An invocation may be over at any point: an error, a kill, a refused
\* check.
LEMMA Stops ==
    ASSUME RunInv, NEW c \in Cmd, at[c] \notin Rest, Over(c), UNCHANGED <<ws, files, slots, kind>>
    PROVE  RunInv'
<1>1. TypeInv'
  BY Ending DEF RunInv, TypeInv, TypeOK, files
<1>2. Polite(c)
  BY Ending DEF RunInv, Polite, files
<1>3. Local(c)'
  BY Ending, Resting DEF RunInv
<1> QED
  BY <1>1, <1>2, <1>3, FilesKept DEF files

-----------------------------------------------------------------------------
(* One lemma per action, or per way it can go.                             *)

\* A command starts alone if it plans, and beside no planning otherwise.
LEMMA BeginMoves ==
    ASSUME RunInv, Separate, NEW c \in Cmd, NEW k \in Kind, Begin(c, k)
    PROVE  RunInv'
<1> USE DEF Begin
<1> DEFINE s == IF k = "analyze" THEN "drop plan" ELSE "load"
<1>1. /\ at' \in [Cmd -> Steps \cup Rest] /\ at'[c] = s
      /\ \A d \in Cmd \ {c} : at'[d] = at[d]
  BY Moving DEF RunInv, Steps
<1>2. kind' \in [Cmd -> Kind \cup {None}] /\ kind'[c] = k /\ \A d \in Cmd \ {c} : kind'[d] = kind[d]
  BY DEF RunInv, TypeInv, TypeOK
<1>3. /\ seen' \in [Cmd -> Memory] /\ \A d \in Cmd \ {c} : seen'[d] = seen[d]
      /\ seen'[c].intent = intent
      /\ k = "semantic-mode" => seen'[c].table \in Table /\ seen'[c].mode \in Mode
  <2>1. intent \in Intent /\ seen \in [Cmd -> Memory]
    BY DEF RunInv, TypeInv, TypeOK
  <2>2. CASE k # "semantic-mode"
    BY <2>1, <2>2, HoldIntent DEF Apart, RunInv
  <2>3. CASE k = "semantic-mode"
    <3>1. PICK t \in Table, m \in Mode :
             seen' = [seen EXCEPT ![c] = [@ EXCEPT !.intent = intent, !.table = t, !.mode = m]]
      BY <2>3
    <3>2. [seen[c] EXCEPT !.intent = intent, !.table = t, !.mode = m] \in Memory
      BY <2>1 DEF Memory, Optional
    <3>3. seen' \in [Cmd -> Memory] /\ \A d \in Cmd \ {c} : seen'[d] = seen[d]
      BY <2>1, <3>1, <3>2
    <3>4. seen'[c].intent = intent /\ seen'[c].table = t /\ seen'[c].mode = m
      BY <2>1, <3>1 DEF Memory
    <3> QED
      BY <3>3, <3>4
  <2> QED
    BY <2>2, <2>3
<1>4. TypeInv'
  BY <1>1, <1>2, <1>3 DEF RunInv, TypeInv, TypeOK, files
<1>5. \A r : Settled(r) => Settled(r)'
  BY <1>1 DEF Settled, Result
<1>6. Global'
  <2>1. Alone'
    BY <1>1, <1>2 DEF RunInv, Global, Alone, Busy
  <2>2. (shadow # None /\ shadow.status = "completed" => Settled(shadow))'
    BY <1>5 DEF RunInv, Global, files
  <2> QED
    BY <2>1, <2>2 DEF RunInv, Global, Made, MadeFrom, ResultsOfPlan, VerdictSound, files
<1>7. Local(c)'
  BY <1>1, <1>2, <1>3
  DEF RunInv, TypeInv, TypeOK, Local, Fits, Equipped, Locked, Consistent, Current,
      Cleared, Announced, Executed, Compared, Loaded, files
<1>8. ASSUME NEW d \in Cmd \ {c} PROVE Local(d)'
  <2>1. at'[d] = at[d] /\ kind'[d] = kind[d] /\ seen'[d] = seen[d]
    BY <1>1, <1>2, <1>3
  <2>2. Fits(d)' /\ Equipped(d)'
    BY <2>1 DEF RunInv, Local, Fits, Equipped, files
  <2>5. Locked(d)' /\ Cleared(d)' /\ Announced(d)' /\ Executed(d)'
    BY <2>1 DEF RunInv, Local, Locked, Cleared, Announced, Executed, files
  <2>3. Consistent(d)' /\ Current(d)'
    BY <2>1 DEF RunInv, Local, Consistent, Current, Loaded, Made, MadeFrom, files
  <2>4. Compared(d)'
    <3>1. Settled(seen[d].result) => Settled(seen[d].result)'
      BY <1>1, <2>1 DEF Settled, Result
    <3> QED
      BY <2>1, <3>1 DEF RunInv, Local, Compared
  <2> QED
    BY <2>2, <2>3, <2>4, <2>5 DEF Local
<1> QED
  BY <1>4, <1>6, <1>7, <1>8 DEF RunInv

\* Load: the plan that is read is one made from one workspace.
LEMMA LoadStep == ASSUME RunInv, NEW c \in Cmd, Load(c) PROVE RunInv'
<1> DEFINE next == IF at[c] = "load" THEN "check" ELSE "check again"
<1>1. CASE Over(c)
  BY <1>1, Stops DEF Load, files
<1>2. CASE /\ plan # None /\ Hold(c, "plan", plan) /\ Goto(c, next) /\ UNCHANGED lock
           /\ at[c] = "reload" /\ kind[c] \in Shadowing => plan = seen[c].plan
  <2> USE <1>2 DEF Load
  <2>1. /\ at' \in [Cmd -> Steps \cup Rest] /\ at'[c] = next
        /\ \A d \in Cmd \ {c} : at'[d] = at[d]
    BY Moving DEF RunInv, Steps
  <2>2. Made(plan) /\ plan \in Plan
    BY DEF RunInv, Global, Made, MadeFrom
  <2>3. Apart(c, "plan") /\ seen'[c].plan = plan
    BY <2>2, HoldPlan DEF RunInv
  <2>4. TypeInv'
    BY <2>1, <2>3 DEF RunInv, TypeInv, TypeOK, files, Apart
  <2>5. Polite(c)
    BY <2>1, <2>3 DEF Apart, Polite, files
  <2>6. /\ seen'[c].plan = plan /\ seen'[c].intent = seen[c].intent
        /\ seen'[c].table = seen[c].table /\ seen'[c].mode = seen[c].mode
    BY <2>3 DEF Apart, Fields
  <2>7. Local(c)'
    <3>1. Fits(c)' /\ Equipped(c)' /\ Locked(c)'
      BY <2>1, <2>6 DEF RunInv, Local, Fits, Equipped, Locked, files
    <3>2. Consistent(c)' /\ Current(c)'
      BY <2>1, <2>2, <2>6 DEF Consistent, Current, Loaded, files, Made, MadeFrom
    <3>3. Announced(c)' /\ Executed(c)' /\ Compared(c)' /\ Cleared(c)'
      BY <2>1 DEF Announced, Executed, Compared, Cleared
    <3> QED
      BY <3>1, <3>2, <3>3 DEF Local
  <2> QED
    BY <2>4, <2>5, <2>7, FilesKept DEF files
<1> QED
  BY <1>1, <1>2 DEF Load

\* Check: what goes on is current.
LEMMA CheckMoves ==
    ASSUME RunInv, NEW c \in Cmd, Check(c), Fresh(seen[c].plan)
    PROVE  RunInv'
<1> USE DEF Check
<1>1. PICK s \in {"drop plan", "reload", "match", "lock"} :
         /\ Goto(c, s)
         /\ s = "drop plan" => kind[c] = "semantic-mode"
         /\ s = "reload" => kind[c] \notin Planning
         /\ s = "match" => kind[c] = "compare"
         /\ s = "lock" => kind[c] \in Shadowing /\ at[c] = "check again"
  BY DEF RunInv, Local, Fits
<1>2. Moved(c, s) /\ seen' = seen
  BY <1>1, Shape DEF files, Steps
<1>3. TypeInv' /\ Polite(c)
  BY <1>2 DEF Moved, Polite, files, RunInv, TypeInv, TypeOK, Local, Fits, Locked
<1>4. Local(c)'
  <2>1. Fits(c)' /\ Equipped(c)' /\ Locked(c)' /\ Cleared(c)'
    BY <1>1, <1>2 DEF Moved, RunInv, Local, Fits, Equipped, Locked, Cleared, files
  <2>2. Consistent(c)' /\ Current(c)'
    BY <1>1, <1>2
    DEF Moved, RunInv, Local, Fits, Consistent, Current, files, Loaded, Made, MadeFrom,
        Fresh
  <2>3. Announced(c)' /\ Executed(c)' /\ Compared(c)'
    BY <1>1, <1>2 DEF Moved, Announced, Executed, Compared
  <2> QED
    BY <2>1, <2>2, <2>3 DEF Local
<1> QED
  BY <1>3, <1>4, FilesKept DEF files

\* DropPlan.
LEMMA DropPlanMoves ==
    ASSUME RunInv, NEW c \in Cmd, DropPlan(c)
    PROVE  RunInv'
<1> USE DEF DropPlan
<1>1. Moved(c, "drop shadow")
  BY Shape DEF files, Steps, RunInv, Local, Fits
<1>2. TypeInv' /\ Polite(c)
  BY <1>1 DEF Moved, Polite, files, RunInv, TypeInv, TypeOK, Local, Fits, Locked
<1>3. Local(c)'
  BY <1>1, <1>2, StaySettled
  DEF Moved, RunInv, Local, Fits, Equipped, Locked, Cleared, Consistent, Current,
      Announced, Executed, Compared, files, Loaded, Made, MadeFrom, DataOf
<1>4. Global'
  <2>1. (shadow # None /\ shadow.status = "completed" => Settled(shadow))'
    BY <1>2, StaySettled DEF RunInv, Global
  <2> QED
    BY <2>1, <1>2, StayAlone DEF RunInv, Global, ResultsOfPlan, VerdictSound
<1> QED
  BY <1>2, <1>3, <1>4, Others DEF RunInv

\* DropShadow.
LEMMA DropShadowMoves ==
    ASSUME RunInv, NEW c \in Cmd, DropShadow(c)
    PROVE  RunInv'
<1> USE DEF DropShadow
<1>1. (IF at[c] = "drop shadow" THEN "drop verdict" ELSE "clear verdict") \in Steps
  BY DEF Steps
<1>2. Moved(c, IF at[c] = "drop shadow" THEN "drop verdict" ELSE "clear verdict")
  BY <1>1, Shape DEF files, RunInv, Local, Fits
<1>3. TypeInv' /\ Polite(c)
  BY <1>2 DEF Moved, Polite, files, RunInv, TypeInv, TypeOK, Local, Fits, Locked
<1>4. Local(c)'
  BY <1>2, <1>3, StaySettled
  DEF Moved, RunInv, Local, Fits, Equipped, Locked, Cleared, Consistent, Current,
      Announced, Executed, Compared, files, Loaded, Made, MadeFrom, DataOf
<1>5. Global'
  BY <1>3, StayAlone DEF RunInv, Global, ResultsOfPlan, VerdictSound, Made, MadeFrom
<1> QED
  BY <1>3, <1>4, <1>5, Others DEF RunInv

\* DropVerdict, before planning.
LEMMA DropVerdictMoves ==
    ASSUME RunInv, NEW c \in Cmd, DropVerdict(c), at[c] = "drop verdict"
    PROVE  RunInv'
<1> USE DEF DropVerdict
<1>1. (IF kind[c] = "analyze" THEN "lineage" ELSE "declare") \in Steps
  BY DEF Steps
<1>2. Moved(c, IF kind[c] = "analyze" THEN "lineage" ELSE "declare")
  BY <1>1, Shape DEF files, RunInv, Local, Fits
<1>3. TypeInv' /\ Polite(c)
  BY <1>2 DEF Moved, Polite, files, RunInv, TypeInv, TypeOK, Local, Fits, Locked
<1>4. Local(c)'
  BY <1>2, <1>3, StaySettled
  DEF Moved, RunInv, Local, Fits, Equipped, Locked, Cleared, Consistent, Current,
      Announced, Executed, Compared, files, Loaded, Made, MadeFrom, DataOf
<1>5. Global'
  <2>1. (shadow # None /\ shadow.status = "completed" => Settled(shadow))'
    BY <1>3, StaySettled DEF RunInv, Global
  <2> QED
    BY <2>1, <1>3, StayAlone
    DEF RunInv, Global, ResultsOfPlan, VerdictSound, Made, MadeFrom
<1> QED
  BY <1>3, <1>4, <1>5, Others DEF RunInv

\* DropVerdict, the last deletion of a planning command.
LEMMA LastDropMoves ==
    ASSUME RunInv, NEW c \in Cmd, DropVerdict(c), at[c] = "clear verdict"
    PROVE  RunInv'
<1> USE DEF DropVerdict
<1>1. Over(c) /\ kind[c] \in Planning
  BY DEF RunInv, Local, Fits
<1>2. TypeInv' /\ Polite(c)
  BY <1>1, Ending DEF RunInv, TypeInv, TypeOK, Polite, files
<1>3. Local(c)'
  BY Ending, Resting DEF RunInv
<1>4. Global'
  BY <1>1, <1>2, StayAlone, RunAssumption
  DEF RunInv, Local, Cleared, Global, ResultsOfPlan, VerdictSound, Made, MadeFrom
<1> QED
  BY <1>2, <1>3, <1>4, Others DEF RunInv

\* Lineage.
LEMMA LineageMoves ==
    ASSUME RunInv, NEW c \in Cmd, Lineage(c)
    PROVE  RunInv'
<1> USE DEF Lineage
<1>1. Apart(c, "lineage") /\ seen'[c].lineage = ws
  <2>1. ws \in Version
    BY DEF RunInv, TypeInv, TypeOK
  <2> QED
    BY <2>1, HoldLineage DEF RunInv
<1>2. Moved(c, "changes")
  BY <1>1, Shape DEF Fields, files, Steps, RunInv, Local, Fits
<1>3. seen'[c].intent = seen[c].intent
  BY <1>1 DEF Apart, Fields
<1>4. TypeInv' /\ Polite(c)
  BY <1>1, <1>2, <1>3
  DEF Moved, Polite, files, RunInv, TypeInv, TypeOK, Local, Fits, Locked
<1>5. Local(c)'
  BY <1>1, <1>2, <1>3, <1>4, StaySettled
  DEF Moved, RunInv, Local, Fits, Equipped, Locked, Cleared, Consistent, Current,
      Announced, Executed, Compared, files, Loaded, Made, MadeFrom, DataOf
<1> QED
  BY <1>4, <1>5, FilesKept DEF files

\* Analyse.
LEMMA AnalyseMoves ==
    ASSUME RunInv, NEW c \in Cmd, Analyse(c)
    PROVE  RunInv'
<1> USE DEF Analyse
<1>1. changes' \in RawChanges
  BY DEF RunInv, TypeInv, TypeOK, Local, Consistent, RawChanges
<1>2. Apart(c, "changes") /\ seen'[c].changes = changes'
  <2>1. changes' \in RawChanges
    BY <1>1 DEF RawChanges
  <2> QED
    BY <2>1, HoldChanges DEF RunInv
<1>3. Moved(c, "build")
  BY <1>2, Shape DEF Fields, files, Steps, RunInv, Local, Fits
<1>4. seen'[c].intent = seen[c].intent /\ seen'[c].lineage = seen[c].lineage
  BY <1>2 DEF Apart, Fields
<1>5. TypeInv' /\ Polite(c)
  BY <1>1, <1>2, <1>3, <1>4
  DEF Moved, Polite, files, RunInv, TypeInv, TypeOK, Local, Fits, Locked
<1>6. Local(c)'
  BY <1>1, <1>2, <1>3, <1>4, <1>5, StaySettled
  DEF Moved, RunInv, Local, Fits, Equipped, Locked, Cleared, Consistent, Current,
      Announced, Executed, Compared, files, Loaded, Made, MadeFrom, DataOf
<1> QED
  BY <1>5, <1>6, FilesKept DEF files

\* Build: the version that the plan is made from is the one in view.
LEMMA BuildMoves == ASSUME RunInv, NEW c \in Cmd, Build(c) PROVE RunInv'
<1> USE DEF Build
<1> DEFINE s == IF kind[c] = "analyze" THEN "snapshot" ELSE "recheck"
           merged == Merge(seen[c].intent, History[ws])
<1>1. ws \in Version /\ seen[c].intent \in Intent /\ kind[c] \in Planning
  BY DEF RunInv, TypeInv, TypeOK, Local, Fits, Equipped
<1>2. merged \in Intent
  <2>1. History[ws] \in Intent
    BY <1>1, RunAssumption
  <2> QED
    BY <1>1, <2>1 DEF Merge, Intent
<1>3. /\ at' \in [Cmd -> Steps \cup Rest] /\ at'[c] = s
      /\ \A d \in Cmd \ {c} : at'[d] = at[d]
  BY Moving DEF RunInv, Steps
<1>4. /\ seen' \in [Cmd -> Memory] /\ \A d \in Cmd \ {c} : seen'[d] = seen[d]
      /\ seen'[c].intent = merged /\ seen'[c].made = ws
      /\ \A f \in Fields \ {"intent", "made"} : seen'[c][f] = seen[c][f]
  <2> HIDE DEF merged
  <2>1. seen' = [seen EXCEPT ![c] = [seen[c] EXCEPT !.intent = merged, !.made = ws]]
    BY DEF merged
  <2>2. seen \in [Cmd -> Memory]
    BY DEF RunInv, TypeInv
  <2>3. [seen[c] EXCEPT !.intent = merged, !.made = ws] \in Memory
    BY <1>1, <1>2, <2>2 DEF Memory, Optional
  <2>4. /\ seen' \in [Cmd -> Memory] /\ \A d \in Cmd \ {c} : seen'[d] = seen[d]
        /\ seen'[c] = [seen[c] EXCEPT !.intent = merged, !.made = ws] /\ seen[c] \in Memory
    <3> HIDE DEF Build
    <3> QED
      BY <2>1, <2>2, <2>3
  <2>5. seen'[c].intent = merged /\ seen'[c].made = ws
    BY <2>4 DEF Memory
  <2>6. \A f \in Fields \ {"intent", "made"} : seen'[c][f] = seen[c][f]
    BY <2>4 DEF Memory, Fields
  <2> QED
    BY <2>4, <2>5, <2>6
<1>5. /\ seen'[c].plan = seen[c].plan /\ seen'[c].table = seen[c].table
      /\ seen'[c].mode = seen[c].mode
      /\ seen'[c].lineage = seen[c].lineage /\ seen'[c].changes = seen[c].changes
  BY <1>4 DEF Fields
<1>6. intent' = merged
  BY <1>1 DEF RunInv, Local, Equipped
<1> HIDE DEF merged
<1>7. TypeInv' /\ Polite(c)
  BY <1>1, <1>2, <1>3, <1>4 DEF merged, RunInv, TypeInv, TypeOK, Polite, files
<1>8. Local(c)'
  <2>1. Fits(c)' /\ Equipped(c)' /\ Locked(c)' /\ Cleared(c)'
    BY <1>2, <1>3, <1>4, <1>5, <1>6 DEF RunInv, Local, Fits, Equipped, Locked, Cleared
  <2>2. Consistent(c)' /\ Current(c)'
    <3>1. kind[c] = "semantic-mode" => seen[c].plan.ws <= ws /\ ws <= ws
      BY <1>1, RunAssumption DEF RunInv, Local, Consistent
    <3> QED
      BY <1>1, <1>3, <1>4, <1>5, <3>1
      DEF RunInv, Local, Consistent, Current, Loaded, Made, MadeFrom
  <2>3. Announced(c)' /\ Executed(c)' /\ Compared(c)'
    BY <1>3 DEF Announced, Executed, Compared
  <2> QED
    BY <2>1, <2>2, <2>3 DEF Local
<1> QED
  BY <1>7, <1>8, FilesKept

\* Snapshot: nobody has edited the workspace, so the plan is made from it.
LEMMA SnapshotMoves ==
    ASSUME RunInv, NEW c \in Cmd, Snapshot(c)
    PROVE  RunInv'
<1> USE DEF Snapshot
<1>1. /\ seen[c].lineage = ws /\ seen[c].made = ws /\ ws \in Version
      /\ seen[c].changes = [lineage |-> ws, files |-> ws, renames |-> None]
  BY DEF RunInv, TypeInv, TypeOK, Local, Fits, Consistent
<1>2. changes' = [lineage |-> ws, files |-> ws, renames |-> ws] /\ changes' \in Changes
  BY <1>1 DEF Changes
<1>3. Made([ws |-> ws, lineage |-> seen[c].lineage, changes |-> changes',
            made |-> seen[c].made, intent |-> seen[c].intent])
  BY <1>1, <1>2 DEF RunInv, Local, Fits, Equipped, Made, MadeFrom, Plan
<1>4. Apart(c, "plan") /\ seen'[c].plan = [ws |-> ws, lineage |-> seen[c].lineage, changes |-> changes',
          made |-> seen[c].made, intent |-> seen[c].intent]
  <2>1. [ws |-> ws, lineage |-> seen[c].lineage, changes |-> changes',
          made |-> seen[c].made, intent |-> seen[c].intent] \in Plan
    BY <1>1, <1>2, <1>3 DEF Made, MadeFrom
  <2> QED
    BY <2>1, HoldPlan DEF RunInv
<1>5. Moved(c, "publish")
  BY <1>4, Shape DEF Fields, files, Steps, RunInv, Local, Fits
<1>6. /\ seen'[c].intent = seen[c].intent /\ seen'[c].table = seen[c].table
      /\ seen'[c].mode = seen[c].mode /\ seen'[c].result = seen[c].result
  BY <1>4 DEF Apart, Fields
<1>7. TypeInv' /\ Polite(c)
  BY <1>1, <1>2, <1>3, <1>4, <1>5, <1>6
  DEF Moved, Polite, files, RunInv, TypeInv, TypeOK, Local, Fits, Locked
<1>8. Local(c)'
  BY <1>1, <1>2, <1>3, <1>4, <1>5, <1>6, <1>7, StaySettled
  DEF Moved, RunInv, Local, Fits, Equipped, Locked, Cleared, Consistent, Current,
      Announced, Executed, Compared, files, Loaded, Made, MadeFrom, DataOf
<1> QED
  BY <1>7, <1>8, FilesKept DEF files

\* Declare.
LEMMA DeclareMoves ==
    ASSUME RunInv, NEW c \in Cmd, Declare(c)
    PROVE  RunInv'
<1> USE DEF Declare
<1>1. intent' \in Intent
  BY DEF RunInv, TypeInv, TypeOK, Local, Equipped, Fits, Intent
<1>2. Apart(c, "intent") /\ seen'[c].intent = intent'
  <2>1. intent' \in Intent
    BY <1>1 DEF Intent
  <2> QED
    BY <2>1, HoldIntent DEF RunInv
<1>3. Moved(c, "replan")
  BY <1>2, Shape DEF Fields, files, Steps, RunInv, Local, Fits
<1>4. /\ seen'[c].plan = seen[c].plan /\ seen'[c].table = seen[c].table
      /\ seen'[c].mode = seen[c].mode
  BY <1>2 DEF Apart, Fields
<1>5. TypeInv' /\ Polite(c)
  BY <1>1, <1>2, <1>3, <1>4
  DEF Moved, Polite, files, RunInv, TypeInv, TypeOK, Local, Fits, Locked
<1>6. Local(c)'
  <2>1. Fits(c)' /\ Equipped(c)' /\ Locked(c)' /\ Cleared(c)'
    BY <1>1, <1>2, <1>3, <1>4
    DEF Moved, RunInv, Local, Fits, Equipped, Locked, Cleared, files
  <2>2. Consistent(c)' /\ Current(c)'
    BY <1>1, <1>2, <1>3, <1>4
    DEF Moved, RunInv, Local, Fits, Consistent, Current, files, Loaded, Made, MadeFrom
  <2>3. Announced(c)' /\ Executed(c)' /\ Compared(c)'
    BY <1>1, <1>2, <1>3, <1>4, <1>5, StaySettled
    DEF Moved, RunInv, Local, Fits, Announced, Executed, Compared, files, DataOf
  <2> QED
    BY <2>1, <2>2, <2>3 DEF Local
<1> QED
  BY <1>5, <1>6, FilesKept DEF files

\* Replan: the old plan is of the workspace as it is.
LEMMA ReplanMoves ==
    ASSUME RunInv, NEW c \in Cmd, Replan(c), seen[c].plan.ws = ws,
           seen[c].plan.lineage = lineage, seen[c].plan.changes = changes
    PROVE  RunInv'
<1> USE DEF Replan
<1>1. ws <= ws
  BY RunAssumption DEF RunInv, TypeInv, TypeOK
<1>2. Moved(c, "build")
  BY Shape DEF files, Steps, RunInv, Local, Fits
<1>3. TypeInv' /\ Polite(c)
  BY <1>1, <1>2 DEF Moved, Polite, files, RunInv, TypeInv, TypeOK, Local, Fits, Locked
<1>4. Local(c)'
  BY <1>1, <1>2, <1>3, StaySettled
  DEF Moved, RunInv, Local, Fits, Equipped, Locked, Cleared, Consistent, Current,
      Announced, Executed, Compared, files, Loaded, Made, MadeFrom, DataOf
<1> QED
  BY <1>3, <1>4, FilesKept DEF files

\* Recheck: the workspace only goes forward, so it has not moved and come
\* back.
LEMMA RecheckMoves ==
    ASSUME RunInv, NEW c \in Cmd, Recheck(c), seen[c].plan.ws = ws, UNCHANGED lock
    PROVE  RunInv'
<1> USE DEF Recheck
<1>1. seen[c].made = ws
  <2>1. /\ seen[c].made \in Version /\ ws <= seen[c].made /\ seen[c].made <= ws
        /\ ws \in Version
    BY DEF RunInv, TypeInv, TypeOK, Local, Consistent
  <2> QED
    BY <2>1, RunAssumption
<1>2. Made([seen[c].plan EXCEPT !.made = seen[c].made, !.intent = seen[c].intent])
  BY <1>1 DEF RunInv, Local, Fits, Equipped, Consistent, Loaded, Made, MadeFrom, Plan
<1>3. Apart(c, "plan") /\ seen'[c].plan = [seen[c].plan EXCEPT !.made = seen[c].made, !.intent = seen[c].intent]
  <2>1. [seen[c].plan EXCEPT !.made = seen[c].made, !.intent = seen[c].intent] \in Plan
    BY <1>1, <1>2 DEF Made, MadeFrom
  <2> QED
    BY <2>1, HoldPlan DEF RunInv
<1>4. Moved(c, "publish")
  BY <1>3, Shape DEF Fields, files, Steps, RunInv, Local, Fits
<1>5. /\ seen'[c].intent = seen[c].intent /\ seen'[c].table = seen[c].table
      /\ seen'[c].mode = seen[c].mode /\ seen'[c].result = seen[c].result
  BY <1>3 DEF Apart, Fields
<1>6. TypeInv' /\ Polite(c)
  BY <1>1, <1>2, <1>3, <1>4, <1>5
  DEF Moved, Polite, files, RunInv, TypeInv, TypeOK, Local, Fits, Locked
<1>7. Local(c)'
  BY <1>1, <1>2, <1>3, <1>4, <1>5, <1>6, StaySettled
  DEF Moved, RunInv, Local, Fits, Equipped, Locked, Cleared, Consistent, Current,
      Announced, Executed, Compared, files, Loaded, Made, MadeFrom, DataOf
<1> QED
  BY <1>6, <1>7, FilesKept DEF files

\* Publish: there are no results.
LEMMA PublishMoves ==
    ASSUME RunInv, NEW c \in Cmd, Publish(c)
    PROVE  RunInv'
<1> USE DEF Publish
<1>1. Made(seen[c].plan) /\ shadow = None /\ verdict = None
  BY DEF RunInv, Local, Consistent, Loaded, Cleared
<1>2. Moved(c, "clear shadow")
  BY Shape DEF files, Steps, RunInv, Local, Fits
<1>3. TypeInv' /\ Polite(c)
  BY <1>1, <1>2
  DEF Moved, Polite, files, RunInv, TypeInv, TypeOK, Local, Fits, Locked, Made, MadeFrom
<1>4. Local(c)'
  BY <1>1, <1>2, <1>3, StaySettled
  DEF Moved, RunInv, Local, Fits, Equipped, Locked, Cleared, Consistent, Current,
      Announced, Executed, Compared, files, Loaded, Made, MadeFrom, DataOf
<1>5. Global'
  BY <1>1, <1>3, StayAlone DEF RunInv, Global, ResultsOfPlan, VerdictSound, Made, MadeFrom
<1> QED
  BY <1>3, <1>4, <1>5, Others DEF RunInv

\* Lock, when it is free.
LEMMA LockMoves ==
    ASSUME RunInv, NEW c \in Cmd, Lock(c), lock = None
    PROVE  RunInv'
<1> USE DEF Lock
<1>1. None \notin Cmd
  BY RunAssumption
<1>2. (IF kind[c] = "compare" THEN "own" ELSE "announce") \in Steps
  BY DEF Steps
<1>3. Moved(c, IF kind[c] = "compare" THEN "own" ELSE "announce")
  BY <1>2, Shape DEF files, RunInv, Local, Fits
<1>4. TypeInv' /\ Polite(c)
  BY <1>1, <1>3 DEF Moved, Polite, files, RunInv, TypeInv, TypeOK, Local, Fits, Locked
<1>5. Local(c)'
  BY <1>1, <1>3, <1>4, StaySettled
  DEF Moved, RunInv, Local, Fits, Equipped, Locked, Cleared, Consistent, Current,
      Announced, Executed, Compared, files, Loaded, Made, MadeFrom, DataOf
<1> QED
  BY <1>4, <1>5, FilesKept DEF files

\* Announce of a dry-run.
LEMMA AnnounceDryMoves ==
    ASSUME RunInv, NEW c \in Cmd, NEW r \in {"dry_run", "failed"}, Announce(c), kind[c] = "dry-run",
           Goto(c, "finish"), Hold(c, "status", r)
    PROVE  RunInv'
<1> USE DEF Announce
<1>1. seen[c].plan \in Plan /\ seen[c].plan = plan
  BY DEF RunInv, Local, Fits, Consistent, Current, Loaded, Made, MadeFrom
<1>2. /\ shadow' = [by |-> c, status |-> "running", plan |-> plan]
      /\ shadow' \in Result /\ shadow' # None
  BY <1>1, NoneAssumption DEF WriteResult, Result
<1>3. Apart(c, "status") /\ seen'[c].status = r
  <2>1. r \in Status
    BY <1>1, <1>2 DEF Status
  <2> QED
    BY <2>1, HoldStatus DEF RunInv
<1>4. Moved(c, "finish")
  BY <1>3, Shape DEF Fields, files, Steps, RunInv, Local, Fits
<1>5. seen'[c].intent = seen[c].intent /\ seen'[c].plan = seen[c].plan
  BY <1>3 DEF Apart, Fields
<1>6. TypeInv' /\ Polite(c)
  BY <1>1, <1>2, <1>3, <1>4, <1>5
  DEF Moved, Polite, files, RunInv, TypeInv, TypeOK, Local, Fits, Locked
<1>7. Local(c)'
  <2>1. Fits(c)' /\ Equipped(c)' /\ Locked(c)' /\ Cleared(c)'
    BY <1>1, <1>2, <1>3, <1>4, <1>5
    DEF Moved, RunInv, Local, Fits, Equipped, Locked, Cleared, files, Status
  <2>2. Consistent(c)' /\ Current(c)'
    BY <1>1, <1>2, <1>3, <1>4, <1>5
    DEF Moved, RunInv, Local, Fits, Consistent, Current, files, Loaded, Made, MadeFrom,
        Status
  <2>3. Announced(c)' /\ Executed(c)' /\ Compared(c)'
    BY <1>1, <1>2, <1>3, <1>4, <1>5, <1>6, StaySettled
    DEF Moved, RunInv, Local, Fits, Announced, Executed, Compared, files, DataOf, Status
  <2> QED
    BY <2>1, <2>2, <2>3 DEF Local
<1>8. Global'
  <2>1. (shadow # None /\ shadow.status = "completed" => Settled(shadow))' /\ ResultsOfPlan'
    BY <1>1, <1>2 DEF RunInv, Global, ResultsOfPlan
  <2> QED
    BY <2>1, <1>6, StayAlone DEF RunInv, Global, VerdictSound, Made, MadeFrom
<1> QED
  BY <1>6, <1>7, <1>8, Others DEF RunInv

\* Announce of a shadow-run.
LEMMA AnnounceMoves ==
    ASSUME RunInv, NEW c \in Cmd, Announce(c), kind[c] = "shadow-run", Goto(c, "claim"),
           seen' = seen
    PROVE  RunInv'
<1> USE DEF Announce
<1>1. seen[c].plan \in Plan /\ seen[c].plan = plan
  BY DEF RunInv, Local, Fits, Consistent, Current, Loaded, Made, MadeFrom
<1>2. /\ shadow' = [by |-> c, status |-> "running", plan |-> plan]
      /\ shadow' \in Result /\ shadow' # None
  BY <1>1, NoneAssumption DEF WriteResult, Result
<1>3. Moved(c, "claim")
  BY Shape DEF files, Steps, RunInv, Local, Fits
<1>4. TypeInv' /\ Polite(c)
  BY <1>1, <1>2, <1>3
  DEF Moved, Polite, files, RunInv, TypeInv, TypeOK, Local, Fits, Locked
<1>5. Local(c)'
  BY <1>1, <1>2, <1>3, <1>4, StaySettled
  DEF Moved, RunInv, Local, Fits, Equipped, Locked, Cleared, Consistent, Current,
      Announced, Executed, Compared, files, Loaded, Made, MadeFrom, DataOf
<1>6. Global'
  <2>1. (shadow # None /\ shadow.status = "completed" => Settled(shadow))' /\ ResultsOfPlan'
    BY <1>1, <1>2 DEF RunInv, Global, ResultsOfPlan
  <2> QED
    BY <2>1, <1>4, StayAlone DEF RunInv, Global, VerdictSound, Made, MadeFrom
<1> QED
  BY <1>4, <1>5, <1>6, Others DEF RunInv

\* Claim of a slot.
LEMMA ClaimGoodMoves ==
    ASSUME RunInv, NEW c \in Cmd, Claim(c), Goto(c, "compile"), seen' = seen,
           WriteResult(c, "running"),
           slots' = [slots EXCEPT ![c] = [plan |-> seen[c].plan, read |-> {}]]
    PROVE  RunInv'
<1> USE DEF Claim
<1>1. seen[c].plan \in Plan /\ seen[c].plan = plan
  BY DEF RunInv, Local, Fits, Consistent, Current, Loaded, Made, MadeFrom
<1>2. /\ shadow' = [by |-> c, status |-> "running", plan |-> plan]
      /\ shadow' \in Result /\ shadow' # None
  BY <1>1, NoneAssumption DEF WriteResult, Result
<1>3. /\ slots' \in [Cmd -> Contents \cup {None}] /\ slots'[c] = [plan |-> seen[c].plan, read |-> {}]
      /\ \A d \in Cmd \ {c} : slots'[d] = slots[d]
  BY <1>1 DEF Contents, RunInv, TypeInv, TypeOK
<1>4. Moved(c, "compile")
  BY Shape DEF files, Steps, RunInv, Local, Fits
<1>5. TypeInv' /\ Polite(c)
  BY <1>1, <1>2, <1>3, <1>4
  DEF Moved, Polite, files, RunInv, TypeInv, TypeOK, Local, Fits, Locked
<1>6. Local(c)'
  <2>1. Fits(c)' /\ Equipped(c)' /\ Locked(c)' /\ Cleared(c)'
    BY <1>1, <1>2, <1>3, <1>4
    DEF Moved, RunInv, Local, Fits, Equipped, Locked, Cleared, files
  <2>2. Consistent(c)' /\ Current(c)'
    BY <1>1, <1>2, <1>3, <1>4
    DEF Moved, RunInv, Local, Fits, Consistent, Current, files, Loaded, Made, MadeFrom
  <2>3. Announced(c)' /\ Executed(c)' /\ Compared(c)'
    BY <1>1, <1>2, <1>3, <1>4, <1>5, StaySettled
    DEF Moved, RunInv, Local, Fits, Announced, Executed, Compared, files, DataOf
  <2> QED
    BY <2>1, <2>2, <2>3 DEF Local
<1>7. Global'
  <2>1. (shadow # None /\ shadow.status = "completed" => Settled(shadow))' /\ ResultsOfPlan'
    BY <1>1, <1>2, <1>3 DEF RunInv, Global, ResultsOfPlan
  <2> QED
    BY <2>1, <1>5, StayAlone DEF RunInv, Global, VerdictSound, Made, MadeFrom
<1> QED
  BY <1>5, <1>6, <1>7, Others DEF RunInv

\* Claim that is refused.
LEMMA ClaimBadMoves ==
    ASSUME RunInv, NEW c \in Cmd, Claim(c), Goto(c, "finish"), Hold(c, "status", "failed"),
           UNCHANGED <<shadow, slots>>
    PROVE  RunInv'
<1> USE DEF Claim
<1>1. Apart(c, "status") /\ seen'[c].status = "failed"
  <2>1. "failed" \in Status
    BY DEF Status
  <2> QED
    BY <2>1, HoldStatus DEF RunInv
<1>2. Moved(c, "finish")
  BY <1>1, Shape DEF Fields, files, Steps, RunInv, Local, Fits
<1>3. seen'[c].intent = seen[c].intent /\ seen'[c].plan = seen[c].plan
  BY <1>1 DEF Apart, Fields
<1>4. TypeInv' /\ Polite(c)
  BY <1>1, <1>2, <1>3
  DEF Moved, Polite, files, RunInv, TypeInv, TypeOK, Local, Fits, Locked
<1>5. Local(c)'
  <2>1. Fits(c)' /\ Equipped(c)' /\ Locked(c)' /\ Cleared(c)'
    BY <1>1, <1>2, <1>3
    DEF Moved, RunInv, Local, Fits, Equipped, Locked, Cleared, files, Status
  <2>2. Consistent(c)' /\ Current(c)'
    BY <1>1, <1>2, <1>3
    DEF Moved, RunInv, Local, Fits, Consistent, Current, files, Loaded, Made, MadeFrom,
        Status
  <2>3. Announced(c)' /\ Executed(c)' /\ Compared(c)'
    BY <1>1, <1>2, <1>3, <1>4, StaySettled
    DEF Moved, RunInv, Local, Fits, Announced, Executed, Compared, files, DataOf, Status
  <2> QED
    BY <2>1, <2>2, <2>3 DEF Local
<1> QED
  BY <1>4, <1>5, FilesKept DEF files

\* What an execution reads is the workspace its plan was made from.
LEMMA Reading ==
    ASSUME RunInv, NEW c \in Cmd, at[c] \in {"compile", "execute"}, ReadTasks(c)
    PROVE  /\ slots' \in [Cmd -> Contents \cup {None}]
           /\ slots'[c] = DataOf(seen[c].plan)
           /\ \A d \in Cmd \ {c} : slots'[d] = slots[d]
<1>1. seen[c].plan \in Plan /\ seen[c].plan.ws = ws
  BY DEF RunInv, Local, Fits, Consistent, Current, Loaded, Made, MadeFrom
<1>2. slots[c] \in Contents /\ slots[c].plan = seen[c].plan /\ slots[c].read \cup {ws} = {seen[c].plan.ws}
  BY <1>1 DEF RunInv, TypeInv, TypeOK, Local, Executed, DataOf, Contents
<1>3. slots'[c] = [plan |-> slots[c].plan, read |-> slots[c].read \cup {ws}]
  BY <1>2 DEF ReadTasks, RunInv, TypeInv, TypeOK, Contents
<1>4. slots'[c] = DataOf(seen[c].plan) /\ DataOf(seen[c].plan) \in Contents
  BY <1>1, <1>2, <1>3 DEF DataOf, RunInv, TypeInv, TypeOK, Contents
<1> QED
  BY <1>4 DEF ReadTasks, RunInv, TypeInv, TypeOK

\* Compile.
LEMMA CompileGoodMoves ==
    ASSUME RunInv, NEW c \in Cmd, Compile(c), Goto(c, "execute"), seen' = seen
    PROVE  RunInv'
<1> USE DEF Compile
<1>1. /\ slots' \in [Cmd -> Contents \cup {None}] /\ slots'[c] = DataOf(seen[c].plan)
      /\ \A d \in Cmd \ {c} : slots'[d] = slots[d]
  BY Reading
<1>2. Moved(c, "execute")
  BY Shape DEF files, Steps, RunInv, Local, Fits
<1>3. TypeInv' /\ Polite(c)
  BY <1>1, <1>2 DEF Moved, Polite, files, RunInv, TypeInv, TypeOK, Local, Fits, Locked
<1>4. Local(c)'
  <2>1. Fits(c)' /\ Equipped(c)' /\ Locked(c)' /\ Cleared(c)'
    BY <1>1, <1>2 DEF Moved, RunInv, Local, Fits, Equipped, Locked, Cleared, files
  <2>2. Consistent(c)' /\ Current(c)'
    BY <1>1, <1>2
    DEF Moved, RunInv, Local, Fits, Consistent, Current, files, Loaded, Made, MadeFrom
  <2>3. Announced(c)' /\ Executed(c)' /\ Compared(c)'
    BY <1>1, <1>2, <1>3, StaySettled
    DEF Moved, RunInv, Local, Fits, Announced, Executed, Compared, files, DataOf
  <2> QED
    BY <2>1, <2>2, <2>3 DEF Local
<1> QED
  BY <1>3, <1>4, FilesKept DEF files

\* Compile that fails.
LEMMA CompileBadMoves ==
    ASSUME RunInv, NEW c \in Cmd, Compile(c), Goto(c, "finish"), Hold(c, "status", "failed")
    PROVE  RunInv'
<1> USE DEF Compile
<1>1. /\ slots' \in [Cmd -> Contents \cup {None}] /\ slots'[c] = DataOf(seen[c].plan)
      /\ \A d \in Cmd \ {c} : slots'[d] = slots[d]
  BY Reading
<1>2. Apart(c, "status") /\ seen'[c].status = "failed"
  <2>1. "failed" \in Status
    BY <1>1 DEF Status
  <2> QED
    BY <2>1, HoldStatus DEF RunInv
<1>3. Moved(c, "finish")
  BY <1>2, Shape DEF Fields, files, Steps, RunInv, Local, Fits
<1>4. seen'[c].intent = seen[c].intent /\ seen'[c].plan = seen[c].plan
  BY <1>2 DEF Apart, Fields
<1>5. TypeInv' /\ Polite(c)
  BY <1>1, <1>2, <1>3, <1>4
  DEF Moved, Polite, files, RunInv, TypeInv, TypeOK, Local, Fits, Locked
<1>6. Local(c)'
  <2>1. Fits(c)' /\ Equipped(c)' /\ Locked(c)' /\ Cleared(c)'
    BY <1>1, <1>2, <1>3, <1>4
    DEF Moved, RunInv, Local, Fits, Equipped, Locked, Cleared, files, Status
  <2>2. Consistent(c)' /\ Current(c)'
    BY <1>1, <1>2, <1>3, <1>4
    DEF Moved, RunInv, Local, Fits, Consistent, Current, files, Loaded, Made, MadeFrom,
        Status
  <2>3. Announced(c)' /\ Executed(c)' /\ Compared(c)'
    BY <1>1, <1>2, <1>3, <1>4, <1>5, StaySettled
    DEF Moved, RunInv, Local, Fits, Announced, Executed, Compared, files, DataOf, Status
  <2> QED
    BY <2>1, <2>2, <2>3 DEF Local
<1> QED
  BY <1>5, <1>6, FilesKept DEF files

\* Execute, in either way.
LEMMA ExecuteMoves ==
    ASSUME RunInv, NEW c \in Cmd, NEW r \in {"completed", "failed"}, Execute(c), Hold(c, "status", r)
    PROVE  RunInv'
<1> USE DEF Execute
<1>1. /\ slots' \in [Cmd -> Contents \cup {None}] /\ slots'[c] = DataOf(seen[c].plan)
      /\ \A d \in Cmd \ {c} : slots'[d] = slots[d]
  BY Reading
<1>2. Apart(c, "status") /\ seen'[c].status = r
  <2>1. r \in Status
    BY <1>1 DEF Status
  <2> QED
    BY <2>1, HoldStatus DEF RunInv
<1>3. Moved(c, "finish")
  BY <1>2, Shape DEF Fields, files, Steps, RunInv, Local, Fits
<1>4. seen'[c].intent = seen[c].intent /\ seen'[c].plan = seen[c].plan
  BY <1>2 DEF Apart, Fields
<1>5. TypeInv' /\ Polite(c)
  BY <1>1, <1>2, <1>3, <1>4
  DEF Moved, Polite, files, RunInv, TypeInv, TypeOK, Local, Fits, Locked
<1>6. Local(c)'
  <2>1. Fits(c)' /\ Equipped(c)' /\ Locked(c)' /\ Cleared(c)'
    BY <1>1, <1>2, <1>3, <1>4
    DEF Moved, RunInv, Local, Fits, Equipped, Locked, Cleared, files, Status
  <2>2. Consistent(c)' /\ Current(c)'
    BY <1>1, <1>2, <1>3, <1>4
    DEF Moved, RunInv, Local, Fits, Consistent, Current, files, Loaded, Made, MadeFrom,
        Status
  <2>3. Announced(c)' /\ Executed(c)' /\ Compared(c)'
    BY <1>1, <1>2, <1>3, <1>4, <1>5, StaySettled
    DEF Moved, RunInv, Local, Fits, Announced, Executed, Compared, files, DataOf, Status
  <2> QED
    BY <2>1, <2>2, <2>3 DEF Local
<1> QED
  BY <1>5, <1>6, FilesKept DEF files

\* Finish: a completed execution has settled.
LEMMA FinishMoves ==
    ASSUME RunInv, NEW c \in Cmd, Finish(c)
    PROVE  RunInv'
<1> USE DEF Finish
<1>1. /\ seen[c].plan \in Plan /\ seen[c].plan = plan
      /\ seen[c].status \in Status /\ kind[c] \in Shadowing
  BY DEF RunInv, Local, Fits, Equipped, Consistent, Current, Loaded, Made, MadeFrom
<1>2. shadow' = [by |-> c, status |-> seen[c].status, plan |-> plan] /\ shadow' \in Result
  BY <1>1 DEF WriteResult, Result, Status
<1>3. TypeInv' /\ Polite(c)
  BY <1>1, <1>2, Ending DEF RunInv, TypeInv, TypeOK, Polite
<1>4. Local(c)'
  BY Ending, Resting DEF RunInv
<1>5. shadow'.status = "completed" => Settled(shadow)'
  <2> SUFFICES ASSUME seen[c].status = "completed" PROVE Settled(shadow)'
    BY <1>2
  <2>1. slots[c] = DataOf(plan)
    BY <1>1 DEF RunInv, Local, Executed
  <2>2. at'[c] = "over"
    BY <1>1, Ending DEF RunInv
  <2> QED
    BY <1>2, <2>1, <2>2 DEF Settled
<1>6. Global'
  <2>1. (plan # None => Made(plan))' /\ VerdictSound'
    BY DEF RunInv, Global, Made, MadeFrom, VerdictSound
  <2>2. ResultsOfPlan'
    BY <1>2 DEF RunInv, Global, ResultsOfPlan
  <2> QED
    BY <1>3, <1>5, <2>1, <2>2, StayAlone DEF Global
<1> QED
  BY <1>3, <1>4, <1>6, Others DEF RunInv

\* Match: the result is settled, and of the plan.
LEMMA MatchMoves ==
    ASSUME RunInv, NEW c \in Cmd, Match(c), Matches(seen[c].plan), Hold(c, "result", shadow)
    PROVE  RunInv'
<1> USE DEF Match
<1>1. Apart(c, "result") /\ seen'[c].result = shadow
  <2>1. shadow \in Result
    BY DEF Matches, RunInv, TypeInv, TypeOK
  <2> QED
    BY <2>1, HoldResult DEF RunInv
<1>2. Moved(c, "lock")
  BY <1>1, Shape DEF Fields, files, Steps, RunInv, Local, Fits
<1>3. seen'[c].intent = seen[c].intent /\ seen'[c].plan = seen[c].plan
  BY <1>1 DEF Apart, Fields
<1>4. TypeInv' /\ Polite(c)
  BY <1>1, <1>2, <1>3
  DEF Moved, Polite, files, RunInv, TypeInv, TypeOK, Local, Fits, Locked
<1>5. Local(c)'
  BY <1>1, <1>2, <1>3, <1>4, StaySettled
  DEF Moved, RunInv, Local, Fits, Equipped, Locked, Cleared, Consistent, Current,
      Announced, Executed, Compared, files, Loaded, Made, MadeFrom, DataOf, Matches,
      Global
<1> QED
  BY <1>4, <1>5, FilesKept DEF files

\* Own: the slot holds the data of the result.
LEMMA OwnMoves ==
    ASSUME RunInv, NEW c \in Cmd, Own(c), Owned(seen[c].result)
    PROVE  RunInv'
<1> USE DEF Own
<1>1. Moved(c, "judge")
  BY Shape DEF files, Steps, RunInv, Local, Fits
<1>2. TypeInv' /\ Polite(c)
  BY <1>1 DEF Moved, Polite, files, RunInv, TypeInv, TypeOK, Local, Fits, Locked
<1>3. Local(c)'
  BY <1>1, <1>2, StaySettled
  DEF Moved, RunInv, Local, Fits, Equipped, Locked, Cleared, Consistent, Current,
      Announced, Executed, Compared, files, Loaded, Made, MadeFrom, DataOf, Owned
<1> QED
  BY <1>2, <1>3, FilesKept DEF files

\* Judge: that is what is compared.
LEMMA JudgeMoves == ASSUME RunInv, NEW c \in Cmd, Judge(c) PROVE RunInv'
<1> USE DEF Judge
<1>1. /\ Settled(seen[c].result) /\ seen[c].result.plan = seen[c].plan /\ kind[c] = "compare"
      /\ slots[seen[c].result.by] = DataOf(seen[c].plan)
      /\ slots[seen[c].result.by] \in Contents
  <2>1. Settled(seen[c].result) /\ seen[c].result.plan = seen[c].plan /\ kind[c] = "compare"
        /\ slots[seen[c].result.by] # None
    BY DEF RunInv, Local, Fits, Compared
  <2>2. seen[c].result.by \in Cmd
    BY <2>1 DEF Settled, Result
  <2> QED
    BY <2>1, <2>2 DEF RunInv, TypeInv, TypeOK, Settled
<1>2. Apart(c, "data") /\ seen'[c].data = DataOf(seen[c].plan)
  BY <1>1, HoldData DEF RunInv
<1>3. /\ at' \in [Cmd -> Steps \cup Rest] /\ at'[c] = "report"
      /\ \A d \in Cmd \ {c} : at'[d] = at[d]
  BY Moving DEF RunInv, Steps
<1>4. /\ seen'[c].plan = seen[c].plan /\ seen'[c].result = seen[c].result
      /\ seen'[c].intent = seen[c].intent
  BY <1>2 DEF Apart, Fields
<1>5. TypeInv' /\ Polite(c)
  BY <1>1, <1>2, <1>3 DEF Apart, RunInv, TypeInv, TypeOK, Local, Locked, Polite, files
<1>6. Local(c)'
  <2>1. Fits(c)' /\ Equipped(c)' /\ Locked(c)' /\ Cleared(c)' /\ Announced(c)' /\ Executed(c)'
    BY <1>1, <1>3, <1>4
    DEF RunInv, Local, Fits, Equipped, Locked, Cleared, Announced, Executed, files
  <2>2. Consistent(c)' /\ Current(c)'
    BY <1>1, <1>3, <1>4
    DEF RunInv, Local, Consistent, Current, Loaded, Made, MadeFrom, files
  <2>3. Settled(seen[c].result)'
    BY <1>1, <1>3, <1>4 DEF Settled, Result, files
  <2>4. Compared(c)'
    BY <1>1, <1>2, <1>3, <1>4, <2>3 DEF Compared
  <2> QED
    BY <2>1, <2>2, <2>4 DEF Local
<1> QED
  BY <1>5, <1>6, FilesKept DEF files

\* Report: the verdict is of the plan on disk and of its data.
LEMMA ReportMoves ==
    ASSUME RunInv, NEW c \in Cmd, Report(c)
    PROVE  RunInv'
<1> USE DEF Report
<1>1. /\ seen[c].plan \in Plan /\ seen[c].plan = plan /\ kind[c] = "compare"
      /\ seen[c].result \in Result /\ seen[c].result.plan = plan /\ seen[c].data = DataOf(plan)
  <2>1. kind[c] = "compare"
    BY DEF RunInv, Local, Fits
  <2>2. seen[c].plan \in Plan /\ seen[c].plan = plan
    BY <2>1 DEF RunInv, Local, Consistent, Current, Loaded, Made, MadeFrom
  <2>3. seen[c].result \in Result /\ seen[c].result.plan = plan /\ seen[c].data = DataOf(plan)
    BY <2>2 DEF RunInv, Local, Compared, Settled
  <2> QED
    BY <2>1, <2>2, <2>3
<1>2. DataOf(plan) \in Contents
  BY <1>1 DEF DataOf, Contents, Plan
<1>3. verdict' = [of |-> seen[c].result.by, plan |-> plan, data |-> DataOf(plan)] /\ verdict' \in Verdict
  BY <1>1, <1>2 DEF Verdict, Result
<1>4. TypeInv' /\ Polite(c)
  BY <1>1, <1>3, Ending DEF RunInv, TypeInv, TypeOK, Polite
<1>5. Local(c)'
  BY Ending, Resting DEF RunInv
<1>6. Global'
  <2>1. (shadow # None /\ shadow.status = "completed" => Settled(shadow))'
    BY <1>4, StaySettled DEF RunInv, Global
  <2>2. (plan # None => Made(plan))'
    BY DEF RunInv, Global, Made, MadeFrom
  <2>3. VerdictSound' /\ ResultsOfPlan'
    BY <1>3 DEF DataOf, VerdictSound, ResultsOfPlan, RunInv, Global
  <2> QED
    BY <1>4, <2>1, <2>2, <2>3, StayAlone DEF Global
<1> QED
  BY <1>4, <1>5, <1>6, Others DEF RunInv

\* Edit: a careful editor disturbs only commands that look again.
LEMMA EditMoves == ASSUME RunInv, Quiet, Edit PROVE RunInv'
<1> USE DEF Edit
<1>1. TypeInv'
  BY DEF RunInv, TypeInv, TypeOK, files
<1>2. \A r : Settled(r) => Settled(r)'
  BY DEF Settled
<1>3. Global'
  BY <1>2 DEF RunInv, Global, Alone, Made, MadeFrom, ResultsOfPlan, VerdictSound, files
<1>4. ASSUME NEW c \in Cmd PROVE Local(c)'
  <2>1. at[c] \notin Rest => kind[c] = "compare" \/ (kind[c] = "semantic-mode" /\ ws' > ws)
    <3>1. PICK v \in Version \ {ws} : Careful(v) /\ ws' = v
      OBVIOUS
    <3> QED
      BY <3>1 DEF Careful, Busy
  <2>2. Fits(c)' /\ Equipped(c)' /\ Locked(c)' /\ Cleared(c)' /\ Announced(c)' /\ Executed(c)'
    BY DEF RunInv, Local, Fits, Equipped, Locked, Cleared, Announced, Executed, files
  <2>3. Compared(c)'
    BY DEF RunInv, Local, Compared, Settled, files
  <2>4. Current(c)'
    BY <2>1 DEF RunInv, Local, Fits, Current, files
  <2>5. Consistent(c)'
    <3>1. Loaded(c)' => Made(seen[c].plan)'
      BY DEF RunInv, Local, Consistent, Loaded, Made, MadeFrom
    <3>2. CASE kind[c] = "semantic-mode" /\ at[c] \in {"build", "recheck"}
      <4>1. ws \in Nat /\ ws' \in Nat /\ ws' > ws
        BY <2>1, <3>2, RunAssumption DEF RunInv, TypeInv, TypeOK
      <4>2. Made(seen[c].plan)
        BY <3>2 DEF RunInv, Local, Consistent, Loaded
      <4>3. seen[c].plan.ws \in Nat
        BY <4>2, RunAssumption DEF Made, MadeFrom, Plan
      <4>4. CASE at[c] = "build"
        <5>1. seen[c].plan.ws <= ws
          BY <3>2, <4>4 DEF RunInv, Local, Consistent
        <5>2. seen[c].plan.ws <= ws'
          BY <4>1, <4>3, <5>1
        <5> QED
          BY <3>1, <3>2, <4>4, <5>2 DEF Consistent
      <4>5. CASE at[c] = "recheck"
        <5>1. seen[c].made \in Version /\ seen[c].plan.ws <= seen[c].made /\ seen[c].made <= ws
          BY <3>2, <4>5 DEF RunInv, Local, Consistent
        <5>2. seen[c].made <= ws'
          BY <4>1, <5>1, RunAssumption
        <5> QED
          BY <3>1, <3>2, <4>5, <5>1, <5>2 DEF Consistent
      <4> QED
        BY <3>2, <4>4, <4>5
    <3>3. CASE ~(kind[c] = "semantic-mode" /\ at[c] \in {"build", "recheck"})
      BY <2>1, <3>1, <3>3 DEF RunInv, Local, Fits, Consistent
    <3> QED
      BY <3>2, <3>3
  <2> QED
    BY <2>2, <2>3, <2>4, <2>5 DEF Local
<1> QED
  BY <1>1, <1>3, <1>4 DEF RunInv

\* Release: nobody is using the slot.
LEMMA ReleaseMoves == ASSUME RunInv, NEW e \in Cmd, Release(e) PROVE RunInv'
<1> USE DEF Release
<1>1. TypeInv'
  BY DEF RunInv, TypeInv, TypeOK, files
<1>2. /\ \A d \in Cmd \ {e} : slots'[d] = slots[d]
      /\ slots'[e] = None
  BY DEF RunInv, TypeInv, TypeOK
<1>3. \A r : Settled(r) => Settled(r)'
  BY <1>2 DEF Settled, Result
<1>4. Global'
  BY <1>3 DEF RunInv, Global, Alone, Made, MadeFrom, ResultsOfPlan, VerdictSound, files
<1>5. ASSUME NEW c \in Cmd PROVE Local(c)'
  <2>1. /\ Fits(c)' /\ Equipped(c)' /\ Locked(c)' /\ Consistent(c)' /\ Current(c)' /\ Cleared(c)'
        /\ Announced(c)'
    BY DEF RunInv, Local, Fits, Equipped, Locked, Consistent, Current, Cleared, Announced,
       Loaded, Made, MadeFrom, files
  <2>2. Executed(c)'
    BY <1>2 DEF RunInv, Local, Executed, Busy, files
  <2>3. ASSUME at[c] \in Comparing PROVE seen[c].result.by \in Cmd \ {e}
    BY <2>3, NoneAssumption DEF RunInv, Local, Compared, Busy, Settled, Result
  <2>4. Compared(c)'
    BY <1>2, <1>3, <2>3 DEF RunInv, Local, Compared, Settled, files
  <2> QED
    BY <2>1, <2>2, <2>4 DEF Local
<1> QED
  BY <1>1, <1>4, <1>5 DEF RunInv

-----------------------------------------------------------------------------
(* The theorems.                                                           *)

\* Every step of the disciplined system preserves the invariant.
LEMMA RunNext == ASSUME RunInv, Disciplined, [Next]_vars PROVE RunInv'
<1>1. ASSUME NEW c \in Cmd, Freshness(c) PROVE RunInv'
  <2>1. CASE Load(c)
    BY <2>1, LoadStep
  <2>2. CASE Check(c) /\ Fresh(seen[c].plan)
    BY <2>2, CheckMoves
  <2>3. CASE Check(c) /\ ~Fresh(seen[c].plan)
    BY <2>3, Stops DEF Check, files
  <2> QED
    BY <1>1, <2>1, <2>2, <2>3 DEF Freshness
<1>2. ASSUME NEW c \in Cmd, Invalidation(c) PROVE RunInv'
  <2>1. CASE DropVerdict(c)
    BY <2>1, DropVerdictMoves, LastDropMoves DEF DropVerdict
  <2> QED
    BY <1>2, <2>1, DropPlanMoves, DropShadowMoves DEF Invalidation
<1>3. ASSUME NEW c \in Cmd, Plans(c) PROVE RunInv'
  <2>1. CASE Replan(c)
    BY <2>1, Stops, ReplanMoves DEF Replan, files
  <2>2. CASE Recheck(c)
    BY <2>2, Stops, RecheckMoves DEF Recheck, files
  <2> QED
    BY <1>3, <2>1, <2>2, LineageMoves, AnalyseMoves, BuildMoves, SnapshotMoves, DeclareMoves,
       PublishMoves
    DEF Plans
<1>4. ASSUME NEW c \in Cmd, Runs(c) PROVE RunInv'
  <2>1. CASE Lock(c)
    BY <2>1, Stops, LockMoves DEF Lock, files
  <2>2. CASE Announce(c)
    BY <2>2, AnnounceMoves, AnnounceDryMoves DEF Announce
  <2>3. CASE Claim(c)
    BY <2>3, ClaimGoodMoves, ClaimBadMoves DEF Claim
  <2>4. CASE Compile(c)
    BY <2>4, CompileGoodMoves, CompileBadMoves DEF Compile
  <2>5. CASE Execute(c)
    BY <2>5, ExecuteMoves DEF Execute
  <2> QED
    BY <1>4, <2>1, <2>2, <2>3, <2>4, <2>5, FinishMoves DEF Runs
<1>5. ASSUME NEW c \in Cmd, Compares(c) PROVE RunInv'
  <2>1. CASE Match(c)
    BY <2>1, Stops, MatchMoves DEF Match, files
  <2>2. CASE Own(c)
    BY <2>2, Stops, OwnMoves DEF Own, files
  <2> QED
    BY <1>5, <2>1, <2>2, JudgeMoves, ReportMoves DEF Compares
<1>6. ASSUME NEW c \in Cmd, Die(c) PROVE RunInv'
  BY <1>6, Stops DEF Die, Busy, files
<1>7. CASE UNCHANGED vars
  <2>1. TypeInv'
    BY <1>7 DEF RunInv, TypeInv, TypeOK, vars, files
  <2>2. \A r : Settled(r) => Settled(r)'
    BY <1>7 DEF Settled, vars
  <2>3. Global'
    BY <1>7, <2>2
    DEF RunInv, Global, Alone, Made, MadeFrom, ResultsOfPlan, VerdictSound, vars, files
  <2>4. ASSUME NEW c \in Cmd PROVE Local(c)'
    BY <1>7
    DEF RunInv, Local, Fits, Equipped, Locked, Consistent, Current, Cleared, Announced, Executed,
        Compared, Settled, Loaded, Made, MadeFrom, vars, files
  <2> QED
    BY <2>1, <2>3, <2>4 DEF RunInv
<1> QED
  BY <1>1, <1>2, <1>3, <1>4, <1>5, <1>6, <1>7, BeginMoves, EditMoves, ReleaseMoves
  DEF Next, Disciplined

\* The invariant holds throughout.
LEMMA Invariance == Disciplined /\ Spec => []RunInv
<1> SUFFICES ASSUME Disciplined PROVE Spec => []RunInv
  OBVIOUS
<1>1. RunInv /\ [Next]_vars => RunInv'
  BY RunNext
<1> QED
  BY <1>1, RunInit, PTL DEF Spec

\* Types: every file, slot and step is what the commands take it for.
THEOREM TypeCorrect == Disciplined /\ Spec => []TypeOK
<1>1. RunInv => TypeOK
  BY DEF RunInv, TypeInv
<1> QED
  BY <1>1, Invariance, PTL

\* A plan that passes the freshness check was computed from the workspace as it is.
THEOREM FreshIsCurrent == Disciplined /\ Spec => []FreshPlanIsCurrent
<1>1. RunInv => FreshPlanIsCurrent
  BY DEF RunInv, Global, Made, MadeFrom, FreshPlanIsCurrent, Fresh
<1> QED
  BY <1>1, Invariance, PTL

\* Every verdict is about what the tasks of its plan computed for it.
THEOREM Sound == Disciplined /\ Spec => []VerdictSound
<1>1. RunInv => VerdictSound
  BY DEF RunInv, Global
<1> QED
  BY <1>1, Invariance, PTL

\* No result of another plan is ever beside the plan.
THEOREM ResultsBelong == Disciplined /\ Spec => []ResultsOfPlan
<1>1. RunInv => ResultsOfPlan
  BY DEF RunInv, Global
<1> QED
  BY <1>1, Invariance, PTL

\* The result file belongs to the execution under way.
THEOREM OneHolder == Disciplined /\ Spec => []ResultOfHolder
<1>1. RunInv => ResultOfHolder
  BY DEF RunInv, Local, Announced, ResultOfHolder
<1> QED
  BY <1>1, Invariance, PTL

\* A declaration is only ever replaced by the user's own for the same table.
LEMMA DeclarationStep ==
    ASSUME RunInv, [Next]_vars, NEW t \in Table, intent[t] # None, intent'[t] # intent[t]
    PROVE  \E c \in Cmd : at[c] = "declare" /\ at'[c] = "replan" /\ seen[c].table = t
<1>1. CASE \E c \in Cmd : Declare(c)
  <2>1. PICK c \in Cmd : Declare(c)
    BY <1>1
  <2>2. seen[c].intent = intent /\ intent \in Intent
    BY <2>1 DEF Declare, RunInv, TypeInv, TypeOK, Local, Equipped, Fits
  <2>3. seen[c].table = t
    BY <2>1, <2>2 DEF Declare, Intent
  <2>4. at'[c] = "replan"
    BY <2>1, Moving DEF Declare, RunInv, Steps
  <2> QED
    BY <2>1, <2>3, <2>4 DEF Declare
<1>2. CASE \E c \in Cmd : Build(c)
  <2>1. PICK c \in Cmd : Build(c)
    BY <1>2
  <2>2. seen[c].intent = intent
    BY <2>1 DEF Build, RunInv, Local, Equipped, Fits
  <2>3. intent'[t] = intent[t]
    BY <2>1, <2>2 DEF Build, Merge
  <2> QED
    BY <2>3
<1>3. CASE ~(\E c \in Cmd : Declare(c) \/ Build(c))
  BY <1>3
  DEF Next, Edit, Begin, Freshness, Load, Check, Invalidation, DropPlan, DropShadow, DropVerdict,
      Plans, Lineage, Analyse, Snapshot, Replan, Recheck, Publish, Runs, Lock, Announce, Claim,
      Compile, Execute, Finish, Compares, Match, Own, Judge, Report, Die, Release, vars, files
<1> QED
  BY <1>1, <1>2, <1>3

\* Neither an inherited declaration nor that of another table replaces one.
THEOREM DeclarationsStay == Disciplined /\ Spec => DeclarationsKept
<1>1. RunInv /\ [Next]_vars =>
        [\A t \in Table : intent[t] # None /\ intent'[t] # intent[t] =>
            \E c \in Cmd : at[c] = "declare" /\ at'[c] = "replan" /\ seen[c].table = t]_vars
  BY DeclarationStep
<1> QED
  BY <1>1, Invariance, PTL DEF Spec, DeclarationsKept

-----------------------------------------------------------------------------
(* What the tables are known to have, after each statement *)

KnownAfter(q, start) ==
    CHOOSE Known : Known = [i \in 0..Len(q) |-> IF i = 0 THEN start ELSE After(q[i], Known[i - 1])]

\* A table that one of the first i statements drops.
DroppedBy(q, t, i) == \E k \in 1..i : q[k].do = "drop" /\ q[k].about = t

\* The columns of a new table are columns.
LEMMA NewColumnsType ==
    ASSUME NEW s \in Statements, NEW known \in Schemas
    PROVE  NewColumns(s, known) \in SUBSET Column
BY DEF NewColumns, Statements, Schemas

\* A statement leaves a schema.
LEMMA AfterType ==
    ASSUME NEW s \in Statements, NEW known \in Schemas
    PROVE  After(s, known) \in Schemas
<1>1. NewColumns(s, known) \in SUBSET Column
  BY NewColumnsType
<1>2. s.about \in Dataset /\ s.columns \in SUBSET Column /\ known \in [Dataset -> SUBSET Column]
  BY DEF Statements, Schemas
<1> QED BY <1>1, <1>2 DEF After, Schemas

\* It is told by the start and the steps.
LEMMA KnownIs ==
    ASSUME NEW q \in Seq(Statements), NEW start \in Schemas
    PROVE  /\ KnownAfter(q, start) \in [0..Len(q) -> Schemas]
           /\ KnownAfter(q, start)[0] = start
           /\ \A i \in 1..Len(q) : KnownAfter(q, start)[i] = After(q[i], KnownAfter(q, start)[i - 1])
<1> DEFINE N == Len(q)
           IsKnown(K) == K = [i \in 0..N |-> IF i = 0 THEN start ELSE After(q[i], K[i - 1])]
           G == [i \in 1..N |-> [known \in Schemas |-> After(q[i], known)]]
           K == KnownAfter(q, start)
<1>1. N \in Nat /\ \A i \in 1..N : q[i] \in Statements
  OBVIOUS
<1>2. G \in [1..N -> [Schemas -> Schemas]]
  BY <1>1, AfterType
<1>3. \A i \in 1..N : \A known \in Schemas : G[i][known] = After(q[i], known)
  OBVIOUS
<1> HIDE DEF G, N
<1>4. PICK h \in [0..N -> Schemas] : h = [k \in 0..N |-> IF k = 0 THEN start ELSE G[k][h[k - 1]]]
  <2> DEFINE Told(S, a, NN, GG) ==
               \E f \in [0..NN -> S] : f = [k \in 0..NN |-> IF k = 0 THEN a ELSE GG[k][f[k - 1]]]
  <2>1. \A S : \A a \in S : \A NN \in Nat : \A GG \in [1..NN -> [S -> S]] : Told(S, a, NN, GG)
    BY FiniteRecursion
  <2>2. Told(Schemas, start, N, G)
    <3> HIDE DEF Told
    <3> QED BY <1>1, <1>2, <2>1
  <2> QED BY <2>2
<1>5. IsKnown(h)
  <2>1. ASSUME NEW k \in 0..N, k # 0 PROVE G[k][h[k - 1]] = After(q[k], h[k - 1])
    <3>1. k \in 1..N /\ k - 1 \in 0..N
      BY <1>1, <2>1
    <3>2. h[k - 1] \in Schemas
      BY <1>4, <3>1
    <3> QED BY <1>3, <3>1, <3>2
  <2>2. \A k \in 0..N : h[k] = IF k = 0 THEN start ELSE After(q[k], h[k - 1])
    BY <1>4, <2>1
  <2> QED BY <1>4, <2>2
<1>6. IsKnown(K)
  <2>1. K = CHOOSE Known : IsKnown(Known)
    BY DEF KnownAfter, N
  <2> HIDE DEF IsKnown, K
  <2> QED BY <1>5, <2>1
<1> HIDE DEF K
<1>7. K[0] = start /\ \A i \in 1..N : K[i] = After(q[i], K[i - 1])
  BY <1>1, <1>6
<1> DEFINE P == {i \in Nat : i <= N => K[i] \in Schemas}
<1>8. P = Nat
  <2>1. 0 \in P
    BY <1>7
  <2>2. ASSUME NEW i \in P PROVE i + 1 \in P
    <3>1. CASE i + 1 <= N
      <4>1. i + 1 \in 1..N /\ (i + 1) - 1 = i /\ K[i] \in Schemas
        BY <1>1, <3>1
      <4> QED BY <1>1, <1>7, <4>1, AfterType
    <3> QED BY <3>1
  <2> HIDE DEF P
  <2> QED BY <2>1, <2>2, Induction DEF P
<1>9. K \in [0..N -> Schemas]
  <2>1. K = [i \in 0..N |-> K[i]]
    <3> DEFINE e == [i \in 0..N |-> IF i = 0 THEN start ELSE After(q[i], K[i - 1])]
    <3>1. K = e
      BY <1>6
    <3>2. e = [i \in 0..N |-> e[i]]
      OBVIOUS
    <3> HIDE DEF e
    <3> QED BY <3>1, <3>2
  <2>2. \A i \in 0..N : K[i] \in Schemas
    BY <1>1, <1>8
  <2> QED BY <2>1, <2>2
<1> QED BY <1>7, <1>9 DEF K, N

\* Two starts that agree about some tables are known to agree about these and about what
\* was dropped, if new tables are made of nothing else.
LEMMA KnownAgree ==
    ASSUME NEW q \in Seq(Statements), NEW G \in Schemas, NEW H \in Schemas, NEW A \in SUBSET Dataset,
           \A t \in A : G[t] = H[t],
           \A i \in 1..Len(q) : q[i].do \in Creating =>
               \A u \in q[i].from : u \in A \/ DroppedBy(q, u, i - 1)
    PROVE  \A i \in 0..Len(q) : \A t \in Dataset :
               t \in A \/ DroppedBy(q, t, i) => KnownAfter(q, G)[i][t] = KnownAfter(q, H)[i][t]
<1> DEFINE N == Len(q)
           K == KnownAfter(q, G)
           L == KnownAfter(q, H)
           Same(i) == \A t \in Dataset : t \in A \/ DroppedBy(q, t, i) => K[i][t] = L[i][t]
           P == {i \in Nat : i <= N => Same(i)}
<1>1. /\ N \in Nat
      /\ K \in [0..N -> Schemas] /\ K[0] = G /\ \A i \in 1..N : K[i] = After(q[i], K[i - 1])
      /\ L \in [0..N -> Schemas] /\ L[0] = H /\ \A i \in 1..N : L[i] = After(q[i], L[i - 1])
  BY KnownIs
<1> HIDE DEF K, L
<1>2. P = Nat
  <2>1. 0 \in P
    BY <1>1 DEF DroppedBy
  <2>2. ASSUME NEW i \in P PROVE i + 1 \in P
    <3> SUFFICES ASSUME i + 1 <= N, NEW t \in Dataset, t \in A \/ DroppedBy(q, t, i + 1)
                 PROVE  K[i + 1][t] = L[i + 1][t]
      OBVIOUS
    <3> DEFINE s == q[i + 1]
               k == K[i]
               l == L[i]
    <3>1. i \in 0..N /\ i + 1 \in 1..N /\ (i + 1) - 1 = i /\ i \in Nat
      BY <1>1
    <3>2. Same(i)
      BY <3>1
    <3>3. /\ s \in Statements /\ k \in Schemas /\ l \in Schemas
          /\ K[i + 1] = After(s, k) /\ L[i + 1] = After(s, l)
      BY <1>1, <3>1
    <3>4. s.do \in Creating => \A u \in s.from : u \in A \/ DroppedBy(q, u, i)
      BY <3>1
    <3>5. \A u \in Dataset : DroppedBy(q, u, i + 1) <=> DroppedBy(q, u, i) \/ (s.do = "drop" /\ s.about = u)
      BY <3>1 DEF DroppedBy
    <3>6. \A u \in Dataset : u \in A \/ DroppedBy(q, u, i) => k[u] = l[u]
      BY <3>2
    <3> HIDE DEF s, k, l, P
    <3>7. /\ s.do \in Kinds /\ s.about \in Dataset /\ s.from \in SUBSET Dataset
          /\ k \in [Dataset -> SUBSET Column] /\ l \in [Dataset -> SUBSET Column]
      BY <3>3 DEF Statements, Schemas
    <3>8. s.do \in Creating => NewColumns(s, k) = NewColumns(s, l)
      <4>1. ASSUME s.do \in Creating, NEW u \in s.from PROVE k[u] = l[u]
        BY <3>4, <3>6, <3>7, <4>1
      <4> QED BY <4>1 DEF NewColumns
    <3>9. CASE s.do = "drop"
      <4>1. After(s, k) = [k EXCEPT ![s.about] = {}] /\ After(s, l) = [l EXCEPT ![s.about] = {}]
        BY <3>9 DEF After, Creating
      <4> QED BY <3>3, <3>5, <3>6, <3>7, <4>1
    <3>10. CASE s.do = "alter"
      <4>1. /\ After(s, k) = [k EXCEPT ![s.about] = @ \cup s.columns]
            /\ After(s, l) = [l EXCEPT ![s.about] = @ \cup s.columns]
        BY <3>10 DEF After, Creating
      <4>2. k[t] = l[t]
        <5>1. s.do # "drop"
          BY <3>10
        <5> HIDE DEF N, K, L, Same
        <5> QED BY <3>5, <3>6, <5>1
      <4>3. CASE t = s.about
        <5>1. After(s, k)[t] = k[t] \cup s.columns /\ After(s, l)[t] = l[t] \cup s.columns
          BY <3>7, <4>1, <4>3
        <5> QED BY <3>3, <4>2, <5>1
      <4>4. CASE t # s.about
        <5>1. After(s, k)[t] = k[t] /\ After(s, l)[t] = l[t]
          BY <3>7, <4>1, <4>4
        <5> QED BY <3>3, <4>2, <5>1
      <4> QED BY <4>3, <4>4
    <3>11. CASE s.do \in Creating
      <4>1. s.do # "drop" /\ s.do # "alter"
        BY <3>11 DEF Creating
      <4>2. k[t] = l[t]
        <5> HIDE DEF N, K, L, Same
        <5> QED BY <3>5, <3>6, <4>1
      <4>3. CASE NewColumns(s, k) # {}
        <5>1. /\ After(s, k) = [k EXCEPT ![s.about] = NewColumns(s, k)]
              /\ After(s, l) = [l EXCEPT ![s.about] = NewColumns(s, l)]
          BY <3>8, <3>11, <4>1, <4>3 DEF After
        <5>2. CASE t = s.about
          BY <3>3, <3>7, <3>8, <3>11, <5>1, <5>2
        <5>3. CASE t # s.about
          BY <3>3, <3>7, <4>2, <5>1, <5>3
        <5> QED BY <5>2, <5>3
      <4>4. CASE NewColumns(s, k) = {}
        <5>1. After(s, k) = k /\ After(s, l) = l
          BY <3>8, <3>11, <4>1, <4>4 DEF After
        <5> QED BY <3>3, <4>2, <5>1
      <4> QED BY <4>3, <4>4
    <3>12. CASE s.do = "write"
      <4>1. After(s, k) = k /\ After(s, l) = l
        BY <3>12 DEF After, Creating
      <4> QED BY <3>3, <3>5, <3>6, <3>12, <4>1
    <3> QED BY <3>7, <3>9, <3>10, <3>11, <3>12 DEF Kinds, Creating
  <2> HIDE DEF P
  <2> QED BY <2>1, <2>2, Induction DEF P
<1> QED BY <1>1, <1>2 DEF K, L

-----------------------------------------------------------------------------
(* What an extraction makes of one task *)

\* What the statements say of the lineage and of the tables made for others.
EntriesFrom(q, start) ==
    [i \in {k \in DOMAIN q : q[k].do \in Creating \cup {"write"}} |->
        Entry(q[i], KnownAfter(q, start)[i - 1])]
ColumnsMade(q, start) ==
    [t \in Dataset |->
        IF t \in Created(q) \cap Outputs(q) THEN KnownAfter(q, start)[Len(q)][t] ELSE {}]

\* Scripts are what a world may have.
LEMMA ScriptType ==
    ASSUME NEW x \in DOMAIN Script
    PROVE  /\ Script[x].statements \in Seq(Statements)
           /\ Script[x].parses \in BOOLEAN
BY WorldsAssumption

\* An extraction, by the schemas after each statement.
LEMMA ExtractIs ==
    ASSUME NEW x, NEW S
    PROVE  Extract(x, S) =
               LET q == Script[x].statements
                   refs == Referenced(q)
               IN  IF ~Script[x].parses THEN TaskResult(q, {}, S, <<>>, NoColumns, TRUE)
                   ELSE TaskResult(q, refs, SliceOf(S, refs), EntriesFrom(q, Given(S, refs)),
                                   ColumnsMade(q, Given(S, refs)), FALSE)
<1> DEFINE q == Script[x].statements
           refs == Referenced(q)
           Known[i \in 0..Len(q)] == IF i = 0 THEN Given(S, refs) ELSE After(q[i], Known[i - 1])
           kept == Created(q) \cap Outputs(q)
           made == [t \in Dataset |-> IF t \in kept THEN Known[Len(q)][t] ELSE {}]
           entries == [i \in {k \in DOMAIN q : q[k].do \in Creating \cup {"write"}} |->
                          Entry(q[i], Known[i - 1])]
<1>1. Known = KnownAfter(q, Given(S, refs))
  BY DEF KnownAfter
<1>2. Extract(x, S) = IF ~Script[x].parses THEN TaskResult(q, {}, S, <<>>, NoColumns, TRUE)
                      ELSE TaskResult(q, refs, SliceOf(S, refs), entries, made, FALSE)
  BY DEF Extract
<1> HIDE DEF Known
<1>3. entries = EntriesFrom(q, Given(S, refs)) /\ made = ColumnsMade(q, Given(S, refs))
  BY <1>1 DEF EntriesFrom, ColumnsMade
<1> QED BY <1>2, <1>3

\* The tables of a script are tables, and every statement refers to what it uses.
LEMMA RefsType ==
    ASSUME NEW q \in Seq(Statements)
    PROVE  /\ Referenced(q) \in SUBSET Dataset
           /\ Read(q) \in SUBSET Referenced(q)
           /\ Created(q) \in SUBSET Dataset
           /\ \A i \in 1..Len(q) : q[i] \in Statements /\ q[i].from \subseteq Read(q)
           /\ \A i \in 1..Len(q) : q[i].do \in {"alter", "write"} => q[i].about \in Referenced(q)
           /\ \A t \in Created(q) : \E i \in 1..Len(q) : q[i].do \in Creating /\ q[i].about = t
<1>1. Range(q) = {q[i] : i \in 1..Len(q)} /\ \A i \in 1..Len(q) : q[i] \in Statements
  BY DEF Range
<1>2. \A s \in Range(q) : s \in Statements /\ \E i \in 1..Len(q) : s = q[i]
  BY <1>1
<1>3. \A s \in Statements : s.from \in SUBSET Dataset /\ s.about \in Dataset
  BY DEF Statements
<1>4. Referenced(q) \in SUBSET Dataset
  BY <1>2, <1>3 DEF Referenced
<1>5. Read(q) \in SUBSET Referenced(q)
  BY DEF Read, Referenced
<1>6. Created(q) \in SUBSET Dataset
  BY <1>2, <1>3 DEF Created
<1>7. \A i \in 1..Len(q) : q[i] \in Statements /\ q[i].from \subseteq Read(q)
  BY <1>1 DEF Read
<1>8. \A i \in 1..Len(q) : q[i].do \in {"alter", "write"} => q[i].about \in Referenced(q)
  BY <1>1 DEF Referenced
<1>9. \A t \in Created(q) : \E i \in 1..Len(q) : q[i].do \in Creating /\ q[i].about = t
  BY <1>2 DEF Created
<1> QED BY <1>4, <1>5, <1>6, <1>7, <1>8, <1>9

\* Slices are schemas and have what is referred to.
LEMMA SliceType ==
    ASSUME NEW S \in Schemas, NEW refs \in SUBSET Dataset
    PROVE  /\ SliceOf(S, refs) \in Schemas
           /\ Given(S, refs) \in Schemas
           /\ refs # {} => \A t \in Dataset : SliceOf(S, refs)[t] = IF t \in refs THEN S[t] ELSE {}
           /\ \A t \in refs : SliceOf(S, refs)[t] = S[t]
           /\ \A t \in refs : Given(S, refs)[t] = S[t]
BY DEF SliceOf, Given, Schemas, NoColumns

\* Two schemas with one slice have the same of what is referred to.
LEMMA SlicesAgree ==
    ASSUME NEW S \in Schemas, NEW R \in Schemas, NEW refs \in SUBSET Dataset
    PROVE  SliceOf(S, refs) = SliceOf(R, refs)
               <=> (refs = {} /\ S = R) \/ (refs # {} /\ \A t \in refs : S[t] = R[t])
<1>1. CASE refs = {}
  BY <1>1 DEF SliceOf
<1>2. CASE refs # {}
  BY <1>2 DEF SliceOf, Schemas
<1> QED BY <1>1, <1>2

\* Tables created for others are made from the tables read and not created.
LEMMA MadeTold ==
    ASSUME NEW q \in Seq(Statements), DropsFirst(q), NEW G \in Schemas, NEW H \in Schemas,
           \A t \in Read(q) \ Created(q) : G[t] = H[t]
    PROVE  ColumnsMade(q, G) = ColumnsMade(q, H)
<1> DEFINE A == Read(q) \ Created(q)
           N == Len(q)
<1>1. /\ N \in Nat /\ DOMAIN q = 1..N
      /\ A \in SUBSET Dataset /\ \A i \in 1..N : q[i].from \subseteq Read(q)
      /\ \A t \in Created(q) : \E i \in 1..N : q[i].do \in Creating /\ q[i].about = t
  BY RefsType
<1>2. ASSUME NEW i \in 1..N, q[i].do \in Creating, NEW u \in q[i].from
      PROVE  u \in A \/ DroppedBy(q, u, i - 1)
  BY <1>1, <1>2 DEF DropsFirst, DroppedBy
<1>3. \A i \in 0..N : \A t \in Dataset :
          t \in A \/ DroppedBy(q, t, i) => KnownAfter(q, G)[i][t] = KnownAfter(q, H)[i][t]
  <2> HIDE DEF A, N
  <2> QED BY <1>1, <1>2, KnownAgree DEF A, N
<1>4. ASSUME NEW t \in Dataset, t \in Created(q)
      PROVE  KnownAfter(q, G)[N][t] = KnownAfter(q, H)[N][t]
  <2>1. PICK i \in 1..N : q[i].do \in Creating /\ q[i].about = t
    BY <1>1, <1>4
  <2>2. \E k \in 1..i - 1 : q[k].do = "drop" /\ q[k].about = t
    <3>1. i \in DOMAIN q /\ t \in {q[i].about} \cup (q[i].from \cap Created(q))
      BY <1>1, <2>1
    <3>2. \A u \in {q[i].about} \cup (q[i].from \cap Created(q)) :
              \E k \in 1..i - 1 : q[k].do = "drop" /\ q[k].about = u
      BY <2>1, <3>1 DEF DropsFirst
    <3> QED BY <3>1, <3>2
  <2>3. DroppedBy(q, t, N)
    BY <1>1, <2>2 DEF DroppedBy
  <2> QED BY <1>1, <1>3, <2>3
<1> QED BY <1>4 DEF ColumnsMade

\* A result is told by the slice it was made from, with any schema that has the DDL.
LEMMA ExtractTold ==
    ASSUME NEW x \in DOMAIN Script, NEW S \in Schemas, NEW R \in Schemas, NEW ddl \in Schemas,
           Script[x].parses,
           DropsFirst(Script[x].statements), Anchored(Script[x].statements, ddl),
           \A t \in Dataset : ddl[t] # {} => R[t] # {},
           SliceOf(S, Referenced(Script[x].statements)) = SliceOf(R, Referenced(Script[x].statements))
    PROVE  Extract(x, S) = Extract(x, R)
<1> DEFINE q == Script[x].statements
           refs == Referenced(q)
           N == Len(q)
           K == KnownAfter(q, S)
           L == KnownAfter(q, R)
<1>1. q \in Seq(Statements)
  BY ScriptType
<1>2. /\ refs \in SUBSET Dataset /\ Read(q) \subseteq refs
      /\ N \in Nat /\ DOMAIN q = 1..N
      /\ \A i \in 1..N : q[i] \in Statements /\ q[i].from \subseteq refs
      /\ \A i \in 1..N : q[i].do \in {"alter", "write"} => q[i].about \in refs
  BY <1>1, RefsType
<1> HIDE DEF q, refs, N, K, L
<1>3. CASE refs = {}
  BY <1>2, <1>3, SlicesAgree DEF q, refs
<1>4. CASE SliceOf(S, refs) # NoColumns
  <2>1. Given(S, refs) = Given(R, refs) /\ SliceOf(S, refs) = SliceOf(R, refs)
    BY <1>4 DEF Given, q, refs
  <2> QED BY <2>1, ExtractIs DEF q, refs
<1>5. CASE refs # {} /\ SliceOf(S, refs) = NoColumns
  <2>1. Given(S, refs) = S /\ Given(R, refs) = R /\ SliceOf(S, refs) = SliceOf(R, refs)
    BY <1>5 DEF Given, q, refs
  <2>2. \A t \in refs : S[t] = R[t]
    BY <1>2, <1>5, <2>1, SlicesAgree
  <2>3. \A t \in refs : R[t] = {}
    <3>1. \A t \in refs : SliceOf(R, refs)[t] = R[t] /\ SliceOf(R, refs)[t] = {}
      BY <1>2, <1>5, <2>1, SliceType DEF NoColumns
    <3> QED BY <3>1
  <2>4. \A i \in 1..N : ~q[i].loose
    <3>1. SUFFICES ASSUME NEW i \in 1..N, q[i].loose PROVE FALSE
      OBVIOUS
    <3>2. q[i] \in Range(q)
      BY <1>2 DEF Range
    <3>3. PICK t \in refs : ddl[t] # {}
      BY <3>1, <3>2 DEF Anchored, q, refs
    <3> QED BY <1>2, <2>3, <3>3
  <2>5. \A t \in Read(q) \ Created(q) : S[t] = R[t]
    BY <1>2, <2>2
  <2>6. ColumnsMade(q, S) = ColumnsMade(q, R)
    BY <1>1, <2>5, MadeTold DEF q
  <2>7. \A i \in 0..N : \A t \in refs : K[i][t] = L[i][t]
    <3>1. \A i \in 1..N : q[i].do \in Creating =>
              \A u \in q[i].from : u \in refs \/ DroppedBy(q, u, i - 1)
      BY <1>2
    <3>2. \A i \in 0..N : \A t \in Dataset : t \in refs \/ DroppedBy(q, t, i) => K[i][t] = L[i][t]
      BY <1>1, <1>2, <2>2, <3>1, KnownAgree DEF N, K, L
    <3> QED BY <1>2, <3>2
  <2>8. ASSUME NEW i \in 1..N, q[i].do \in Creating \cup {"write"}
        PROVE  Entry(q[i], K[i - 1]) = Entry(q[i], L[i - 1])
    <3>1. i - 1 \in 0..N
      BY <1>2
    <3>2. \A t \in q[i].from : K[i - 1][t] = L[i - 1][t]
      BY <1>2, <2>7, <3>1
    <3>3. q[i].do = "write" => K[i - 1][q[i].about] = L[i - 1][q[i].about]
      BY <1>2, <2>7, <3>1
    <3>4. ~q[i].loose
      BY <2>4
    <3>5. [t \in q[i].from |-> K[i - 1][t]] = [t \in q[i].from |-> L[i - 1][t]]
      BY <3>2
    <3> QED BY <3>3, <3>4, <3>5 DEF Entry
  <2>9. EntriesFrom(q, S) = EntriesFrom(q, R)
    BY <1>2, <2>8 DEF EntriesFrom, K, L
  <2>10. /\ Extract(x, S) = TaskResult(q, refs, SliceOf(S, refs), EntriesFrom(q, S), ColumnsMade(q, S), FALSE)
         /\ Extract(x, R) = TaskResult(q, refs, SliceOf(R, refs), EntriesFrom(q, R), ColumnsMade(q, R), FALSE)
    BY <2>1, ExtractIs DEF q, refs
  <2> QED BY <2>1, <2>6, <2>9, <2>10
<1> QED BY <1>3, <1>4, <1>5

-----------------------------------------------------------------------------
(* Results that can be met *)

\* What a text gives under some schema, or a failure, which may have been cached.
SoundResults(x) ==
    {Extract(x, S) : S \in Schemas}
    \cup {TaskResult(<<>>, {}, z, <<>>, NoColumns, TRUE) : z \in Schemas \cup {Absent}}
SomeResults == UNION {SoundResults(x) : x \in DOMAIN Script}
SQLs == [File -> DOMAIN Script \cup {Absent}]
Sounds(sql) == {r \in [Texts(sql) -> SomeResults] : \A f \in Texts(sql) : r[f] \in SoundResults(sql[f])}
NoErrors(results) == \A f \in DOMAIN results : ~results[f].failed

\* What such a result has, failed or not.
LEMMA SoundFacts ==
    ASSUME NEW x \in DOMAIN Script, NEW r \in SoundResults(x)
    PROVE  /\ r.made \in Schemas /\ r.slice \in Schemas \cup {Absent} /\ r.failed \in BOOLEAN
           /\ r.refs \in SUBSET Dataset /\ r.reads \subseteq Read(Script[x].statements)
           /\ \A t \in Dataset : r.made[t] # {} => t \in Created(Script[x].statements)
           /\ r.failed => r.refs = {}
           /\ ~r.failed => /\ Script[x].parses
                           /\ r.reads = Read(Script[x].statements)
                           /\ r.writes = Outputs(Script[x].statements)
                           /\ r.refs = Referenced(Script[x].statements)
                           /\ \E S \in Schemas : r = Extract(x, S) /\ r.slice = SliceOf(S, r.refs)
           /\ r.slice = Absent => r.failed
<1> DEFINE q == Script[x].statements
           refs == Referenced(q)
<1>1. q \in Seq(Statements) /\ Script[x].parses \in BOOLEAN /\ Absent \notin Schemas
  BY ScriptType, WorldsAssumption
<1>2. refs \in SUBSET Dataset /\ Read(q) \in SUBSET refs /\ Len(q) \in Nat
  BY <1>1, RefsType
<1>3. NoColumns \in Schemas /\ \A t \in Dataset : NoColumns[t] = {}
  BY DEF NoColumns, Schemas
<1>4. Read(<<>>) = {}
  BY DEF Read, Range
<1>5. CASE \E z \in Schemas \cup {Absent} : r = TaskResult(<<>>, {}, z, <<>>, NoColumns, TRUE)
  <2>1. PICK z \in Schemas \cup {Absent} : r = TaskResult(<<>>, {}, z, <<>>, NoColumns, TRUE)
    BY <1>5
  <2>2. /\ r.made = NoColumns /\ r.slice = z /\ r.failed = TRUE /\ r.refs = {} /\ r.reads = {}
    BY <1>4, <2>1 DEF TaskResult
  <2> QED BY <1>3, <2>2
<1>6. CASE \E S \in Schemas : r = Extract(x, S)
  <2>1. PICK S \in Schemas : r = Extract(x, S)
    BY <1>6
  <2>2. CASE ~Script[x].parses
    <3>1. r = TaskResult(q, {}, S, <<>>, NoColumns, TRUE)
      BY <2>1, <2>2, ExtractIs
    <3>2. /\ r.made = NoColumns /\ r.slice = S /\ r.failed = TRUE /\ r.refs = {} /\ r.reads = Read(q)
      BY <3>1 DEF TaskResult
    <3> QED BY <1>1, <1>3, <3>2
  <2>3. CASE Script[x].parses
    <3> DEFINE start == Given(S, refs)
    <3>1. r = TaskResult(q, refs, SliceOf(S, refs), EntriesFrom(q, start), ColumnsMade(q, start), FALSE)
      BY <2>1, <2>3, ExtractIs
    <3>2. /\ r.made = ColumnsMade(q, start) /\ r.slice = SliceOf(S, refs) /\ r.failed = FALSE
          /\ r.refs = refs /\ r.reads = Read(q) /\ r.writes = Outputs(q)
      BY <3>1 DEF TaskResult
    <3>3. start \in Schemas /\ SliceOf(S, refs) \in Schemas
      BY <1>2, SliceType
    <3> HIDE DEF start
    <3>4. KnownAfter(q, start)[Len(q)] \in Schemas
      BY <1>1, <1>2, <3>3, KnownIs
    <3>5. /\ ColumnsMade(q, start) \in Schemas
          /\ \A t \in Dataset : ColumnsMade(q, start)[t] # {} => t \in Created(q)
      BY <3>4 DEF ColumnsMade, Schemas
    <3> QED BY <1>1, <1>2, <2>1, <2>3, <3>2, <3>3, <3>5
  <2> QED BY <2>2, <2>3
<1> QED BY <1>5, <1>6 DEF SoundResults

\* The files that are there.
LEMMA TextsType ==
    ASSUME NEW sql \in SQLs
    PROVE  /\ Texts(sql) \in SUBSET File /\ IsFiniteSet(Texts(sql))
           /\ Cardinality(Texts(sql)) \in Nat
           /\ \A f \in Texts(sql) : sql[f] \in DOMAIN Script
<1>1. IsFiniteSet(Texts(sql))
  BY WorldsAssumption, FS_Subset DEF Texts
<1> QED BY <1>1, FS_CardinalityType DEF Texts, SQLs

\* Of all files at once.
LEMMA SoundsFacts ==
    ASSUME NEW sql \in SQLs, NEW r \in Sounds(sql)
    PROVE  /\ DOMAIN r = Texts(sql) /\ r = [f \in Texts(sql) |-> r[f]]
           /\ \A f \in Texts(sql) : r[f] \in SoundResults(sql[f]) /\ sql[f] \in DOMAIN Script
           /\ \A f \in Texts(sql) : r[f].made \in Schemas
           /\ NoErrors(r) => \A f \in Texts(sql) : ~r[f].failed /\ Script[sql[f]].parses
BY TextsType, SoundFacts DEF Sounds, NoErrors

-----------------------------------------------------------------------------
(* The columns of process tables *)

Final(results, ddl) == WithCatalog(ddl, Catalog(results, ddl))

\* The columns of process tables are a schema that gives way to the DDL.
LEMMA CatalogType ==
    ASSUME NEW results, NEW ddl \in Schemas, \A f \in DOMAIN results : results[f].made \in Schemas
    PROVE  /\ Catalog(results, ddl) \in Schemas
           /\ Final(results, ddl) \in Schemas
           /\ \A t \in Dataset : ddl[t] # {} => /\ Catalog(results, ddl)[t] = {}
                                                /\ Final(results, ddl)[t] = ddl[t]
<1>1. ASSUME NEW t \in Dataset PROVE UNION {results[f].made[t] : f \in Creators(results, t)} \in SUBSET Column
  BY DEF Creators, Schemas
<1>2. Catalog(results, ddl) \in Schemas /\ \A t \in Dataset : ddl[t] # {} => Catalog(results, ddl)[t] = {}
  BY <1>1 DEF Catalog, Schemas
<1> HIDE DEF Catalog
<1> QED BY <1>2 DEF Final, WithCatalog, Schemas, Catalog

\* Other columns of a process table make another schema.
LEMMA WithCatalogTells ==
    ASSUME NEW ddl \in Schemas, NEW c \in Schemas, NEW d \in Schemas,
           \A t \in Dataset : ddl[t] # {} => c[t] = {} /\ d[t] = {},
           WithCatalog(ddl, c) = WithCatalog(ddl, d)
    PROVE  c = d
<1>1. ASSUME NEW t \in Dataset PROVE c[t] = d[t]
  <2>1. WithCatalog(ddl, c)[t] = WithCatalog(ddl, d)[t]
    OBVIOUS
  <2> QED BY <2>1 DEF WithCatalog
<1> QED BY <1>1 DEF Schemas

\* The tasks that create a table which another one reads.
Makers(sql, t) ==
    {g \in Texts(sql) : /\ t \in Created(Of(sql, g))
                        /\ \E f \in Texts(sql) \ {g} : t \in Read(Of(sql, f))}

\* Only tasks that create a table for others count, and without failures all whose columns are known.
LEMMA CreatorsOf ==
    ASSUME NEW sql \in SQLs, NEW r \in Sounds(sql), NEW t \in Dataset
    PROVE  /\ Creators(r, t) \subseteq Makers(sql, t)
           /\ NoErrors(r) => Creators(r, t) = {g \in Makers(sql, t) : t \in Outputs(Of(sql, g)) /\ r[g].made[t] # {}}
<1>1. /\ DOMAIN r = Texts(sql)
      /\ \A f \in Texts(sql) : r[f] \in SoundResults(sql[f]) /\ sql[f] \in DOMAIN Script
  BY SoundsFacts
<1>2. \A f \in Texts(sql) : r[f].reads \subseteq Read(Of(sql, f)) /\ (r[f].made[t] # {} => t \in Created(Of(sql, f)))
  BY <1>1, SoundFacts DEF Of
<1>3. Creators(r, t) \subseteq Makers(sql, t)
  BY <1>1, <1>2 DEF Creators, Makers
<1>4. ASSUME NoErrors(r)
      PROVE  Creators(r, t) = {g \in Makers(sql, t) : t \in Outputs(Of(sql, g)) /\ r[g].made[t] # {}}
  <2>1. \A f \in Texts(sql) : r[f].reads = Read(Of(sql, f)) /\ r[f].writes = Outputs(Of(sql, f))
    BY <1>1, <1>4, SoundFacts DEF Of, NoErrors
  <2> QED BY <1>1, <1>2, <2>1 DEF Creators, Makers
<1> QED BY <1>3, <1>4

\* A table has the same columns in two schemas when those that make it say the same.
LEMMA CatalogAgree ==
    ASSUME NEW sql \in SQLs, NEW ddl \in Schemas, NEW r \in Sounds(sql), NEW s \in Sounds(sql),
           NEW t \in Dataset,
           \/ Makers(sql, t) = {}
           \/ NoErrors(r) /\ NoErrors(s) /\ \A g \in Makers(sql, t) : r[g].made[t] = s[g].made[t]
    PROVE  Final(r, ddl)[t] = Final(s, ddl)[t]
<1>1. Creators(r, t) = Creators(s, t) /\ \A g \in Creators(r, t) : r[g].made[t] = s[g].made[t]
  <2>1. Creators(r, t) \subseteq Makers(sql, t) /\ Creators(s, t) \subseteq Makers(sql, t)
    BY CreatorsOf
  <2>2. CASE Makers(sql, t) = {}
    BY <2>1, <2>2
  <2>3. CASE NoErrors(r) /\ NoErrors(s) /\ \A g \in Makers(sql, t) : r[g].made[t] = s[g].made[t]
    <3>1. /\ Creators(r, t) = {g \in Makers(sql, t) : t \in Outputs(Of(sql, g)) /\ r[g].made[t] # {}}
          /\ Creators(s, t) = {g \in Makers(sql, t) : t \in Outputs(Of(sql, g)) /\ s[g].made[t] # {}}
      BY <2>3, CreatorsOf
    <3> QED BY <2>1, <2>3, <3>1
  <2> QED BY <2>2, <2>3
<1>2. {r[g].made[t] : g \in Creators(r, t)} = {s[g].made[t] : g \in Creators(s, t)}
  BY <1>1
<1>3. Catalog(r, ddl)[t] = Catalog(s, ddl)[t]
  BY <1>1, <1>2 DEF Catalog
<1> QED BY <1>3 DEF Final, WithCatalog

-----------------------------------------------------------------------------
(* Rounds *)

\* All tasks once more.
Again(results, ddl, sql) == [f \in Texts(sql) |-> Extract(sql[f], Final(results, ddl))]
AllParse(sql) == \A f \in Texts(sql) : Script[sql[f]].parses
AllDrop(sql) == \A f \in Texts(sql) : DropsFirst(Of(sql, f))
Ranked(sql, rank) ==
    /\ rank \in [Texts(sql) -> 1..Cardinality(Texts(sql))]
    /\ \A f, g \in Texts(sql) :
           f # g /\ Created(Of(sql, g)) \cap Read(Of(sql, f)) # {} => rank[g] < rank[f]
\* Two results say the same of the tables that the first k ranks make.
Alike(r, s, rank, k) ==
    \/ k = 0
    \/ NoErrors(r) /\ NoErrors(s) /\ \A f \in DOMAIN r : rank[f] <= k => r[f].made = s[f].made

\* A round gives results that can be met, without failures if all texts parse.
LEMMA AgainSounds ==
    ASSUME NEW sql \in SQLs, NEW ddl \in Schemas, NEW r \in Sounds(sql)
    PROVE  /\ Again(r, ddl, sql) \in Sounds(sql)
           /\ AllParse(sql) => NoErrors(Again(r, ddl, sql))
<1> DEFINE S == Final(r, ddl)
<1>1. S \in Schemas
  BY SoundsFacts, CatalogType
<1>2. \A f \in Texts(sql) : sql[f] \in DOMAIN Script
  BY TextsType
<1> HIDE DEF S
<1>3. \A f \in Texts(sql) : Extract(sql[f], S) \in SoundResults(sql[f]) /\ SoundResults(sql[f]) \subseteq SomeResults
  BY <1>1, <1>2 DEF SoundResults, SomeResults
<1>4. ASSUME NEW f \in Texts(sql), Script[sql[f]].parses PROVE ~Extract(sql[f], S).failed
  <2>1. Extract(sql[f], S).failed = FALSE
    BY <1>4, ExtractIs DEF TaskResult
  <2> QED BY <2>1
<1>5. Again(r, ddl, sql) = [f \in Texts(sql) |-> Extract(sql[f], S)]
  BY DEF Again, S
<1> QED BY <1>3, <1>4, <1>5 DEF Sounds, NoErrors, AllParse

\* A round more settles a rank more, and the one before the last all of it.
LEMMA RoundSettles ==
    ASSUME NEW sql \in SQLs, NEW ddl \in Schemas, NEW r \in Sounds(sql), NEW s \in Sounds(sql),
           AllParse(sql), AllDrop(sql), NEW rank, Ranked(sql, rank), NEW k \in Nat,
           Alike(r, s, rank, k)
    PROVE  /\ Alike(Again(r, ddl, sql), Again(s, ddl, sql), rank, k + 1)
           /\ k >= Cardinality(Texts(sql)) - 1 => Again(r, ddl, sql) = Again(s, ddl, sql)
<1> DEFINE S == Final(r, ddl)
           R == Final(s, ddl)
           n == Cardinality(Texts(sql))
<1>1. S \in Schemas /\ R \in Schemas
  BY SoundsFacts, CatalogType
<1>2. /\ \A f \in Texts(sql) : sql[f] \in DOMAIN Script /\ Of(sql, f) \in Seq(Statements)
      /\ n \in Nat
      /\ DOMAIN r = Texts(sql) /\ \A f \in Texts(sql) : rank[f] \in 1..n
  BY TextsType, ScriptType, SoundsFacts DEF Of, Ranked
<1>3. ASSUME NEW t \in Dataset, \A g \in Makers(sql, t) : rank[g] <= k
      PROVE  S[t] = R[t]
  <2>1. \A g \in Makers(sql, t) : g \in Texts(sql)
    BY DEF Makers
  <2>2. CASE k = 0
    <3>1. Makers(sql, t) = {}
      BY <1>2, <1>3, <2>1, <2>2
    <3> QED BY <3>1, CatalogAgree
  <2>3. CASE k # 0
    <3>1. NoErrors(r) /\ NoErrors(s) /\ \A g \in Makers(sql, t) : r[g].made[t] = s[g].made[t]
      BY <1>2, <1>3, <2>1, <2>3 DEF Alike
    <3> QED BY <3>1, CatalogAgree
  <2> QED BY <2>2, <2>3
<1>4. ASSUME NEW t \in Dataset, NEW g \in Makers(sql, t)
      PROVE  /\ g \in Texts(sql) /\ t \in Created(Of(sql, g))
             /\ \E f \in Texts(sql) : f # g /\ t \in Read(Of(sql, f))
  BY DEF Makers
<1>5. ASSUME NEW t \in Dataset, NEW g \in Makers(sql, t), NEW f \in Texts(sql), f # g, t \in Read(Of(sql, f))
      PROVE  rank[g] < rank[f]
  <2>1. g \in Texts(sql) /\ t \in Created(Of(sql, g))
    BY <1>4
  <2>2. Created(Of(sql, g)) \cap Read(Of(sql, f)) # {}
    BY <1>5, <2>1
  <2> QED BY <1>5, <2>1, <2>2 DEF Ranked
<1> HIDE DEF S, R, n
<1>6. ASSUME NEW f \in Texts(sql), rank[f] <= k + 1
      PROVE  Extract(sql[f], S).made = Extract(sql[f], R).made
  <2> DEFINE q == Of(sql, f)
             refs == Referenced(q)
  <2>1. q \in Seq(Statements) /\ DropsFirst(q) /\ Script[sql[f]].parses
    BY <1>2 DEF AllDrop, AllParse
  <2>2. refs \in SUBSET Dataset /\ Read(q) \in SUBSET refs
    BY <2>1, RefsType
  <2>3. ASSUME NEW t \in Read(q) \ Created(q) PROVE S[t] = R[t]
    <3>1. t \in Dataset
      BY <2>2, <2>3
    <3>2. ASSUME NEW g \in Makers(sql, t) PROVE rank[g] <= k
      <4>1. g \in Texts(sql) /\ g # f
        BY <1>4, <2>3, <3>1
      <4>2. rank[g] < rank[f]
        BY <1>5, <2>3, <3>1, <4>1
      <4> QED BY <1>2, <1>6, <4>1, <4>2
    <3> QED BY <1>3, <3>1, <3>2
  <2>4. /\ Given(S, refs) \in Schemas /\ Given(R, refs) \in Schemas
        /\ \A t \in refs : Given(S, refs)[t] = S[t] /\ Given(R, refs)[t] = R[t]
    BY <1>1, <2>2, SliceType
  <2>5. ColumnsMade(q, Given(S, refs)) = ColumnsMade(q, Given(R, refs))
    <3>1. \A t \in Read(q) \ Created(q) : Given(S, refs)[t] = Given(R, refs)[t]
      BY <2>2, <2>3, <2>4
    <3> HIDE DEF q, refs
    <3> QED BY <2>1, <2>4, <3>1, MadeTold
  <2>6. /\ Extract(sql[f], S).made = ColumnsMade(q, Given(S, refs))
        /\ Extract(sql[f], R).made = ColumnsMade(q, Given(R, refs))
    BY <2>1, ExtractIs DEF TaskResult, Of
  <2> QED BY <2>5, <2>6
<1>7. ASSUME k >= n - 1 PROVE Again(r, ddl, sql) = Again(s, ddl, sql)
  <2>1. ASSUME NEW t \in Dataset PROVE S[t] = R[t]
    <3>1. ASSUME NEW g \in Makers(sql, t) PROVE rank[g] <= k
      <4>1. PICK f \in Texts(sql) : g \in Texts(sql) /\ f # g /\ t \in Read(Of(sql, f))
        BY <1>4
      <4>2. rank[g] < rank[f]
        BY <1>5, <4>1
      <4> QED BY <1>2, <1>7, <4>1, <4>2
    <3> QED BY <1>3, <3>1
  <2>2. S = R
    BY <1>1, <2>1 DEF Schemas
  <2> QED BY <2>2 DEF Again, S, R
<1>8. Alike(Again(r, ddl, sql), Again(s, ddl, sql), rank, k + 1)
  <2>1. NoErrors(Again(r, ddl, sql)) /\ NoErrors(Again(s, ddl, sql))
    BY AgainSounds
  <2>2. \A f \in Texts(sql) : rank[f] <= k + 1 => Again(r, ddl, sql)[f].made = Again(s, ddl, sql)[f].made
    BY <1>6 DEF Again, S, R
  <2>3. DOMAIN Again(r, ddl, sql) = Texts(sql)
    BY DEF Again
  <2> QED BY <2>1, <2>2, <2>3 DEF Alike
<1> QED BY <1>7, <1>8 DEF n

\* Results that a further round does not change are the only ones.
LEMMA FixedPointsEqual ==
    ASSUME NEW sql \in SQLs, NEW ddl \in Schemas, NEW r \in Sounds(sql), NEW s \in Sounds(sql),
           AllParse(sql), AllDrop(sql), NEW rank, Ranked(sql, rank),
           r = Again(r, ddl, sql), s = Again(s, ddl, sql)
    PROVE  r = s
<1> DEFINE P == {k \in Nat : Alike(r, s, rank, k)}
<1>1. 0 \in P
  BY DEF Alike
<1>2. ASSUME NEW k \in P PROVE k + 1 \in P
  <2>1. Alike(Again(r, ddl, sql), Again(s, ddl, sql), rank, k + 1)
    BY RoundSettles
  <2> QED BY <2>1
<1>3. P = Nat
  <2> HIDE DEF P
  <2> QED BY <1>1, <1>2, Induction DEF P
<1>4. Cardinality(Texts(sql)) \in Nat
  BY TextsType
<1>5. Alike(r, s, rank, Cardinality(Texts(sql)))
  BY <1>3, <1>4
<1>6. Again(r, ddl, sql) = Again(s, ddl, sql)
  BY <1>4, <1>5, RoundSettles
<1> QED BY <1>6

\* A clean extraction goes round for round.
LEMMA CleanRounds ==
    ASSUME NEW sql \in SQLs, NEW ddl \in Schemas
    PROVE  \E R \in [0..Cardinality(Texts(sql)) -> Sounds(sql)] :
               /\ Clean(ddl, sql) = R[Cardinality(Texts(sql))]
               /\ \A k \in 1..Cardinality(Texts(sql)) : R[k] = Again(R[k - 1], ddl, sql)
<1> DEFINE n == Cardinality(Texts(sql))
           first == [f \in Texts(sql) |-> Extract(sql[f], ddl)]
           Under(schema) == [f \in Texts(sql) |-> Extract(sql[f], schema)]
           IsRound(R) == R = [k \in 0..n |-> IF k = 0 THEN first ELSE Again(R[k - 1], ddl, sql)]
           G == [k \in 1..n |-> [r \in Sounds(sql) |-> Again(r, ddl, sql)]]
<1>1. n \in Nat /\ \A f \in Texts(sql) : sql[f] \in DOMAIN Script
  BY TextsType
<1>2. first \in Sounds(sql)
  <2>1. \A f \in Texts(sql) : Extract(sql[f], ddl) \in SoundResults(sql[f]) /\ SoundResults(sql[f]) \subseteq SomeResults
    BY <1>1 DEF SoundResults, SomeResults
  <2> QED BY <2>1 DEF Sounds
<1>3. G \in [1..n -> [Sounds(sql) -> Sounds(sql)]]
  BY AgainSounds
<1>4. \A k \in 1..n : \A r \in Sounds(sql) : G[k][r] = Again(r, ddl, sql)
  OBVIOUS
<1> HIDE DEF G, n, first
<1>5. PICK h \in [0..n -> Sounds(sql)] : h = [k \in 0..n |-> IF k = 0 THEN first ELSE G[k][h[k - 1]]]
  <2> DEFINE Exists(S, a, NN, GG) ==
               \E f \in [0..NN -> S] : f = [k \in 0..NN |-> IF k = 0 THEN a ELSE GG[k][f[k - 1]]]
  <2>1. \A S : \A a \in S : \A NN \in Nat : \A GG \in [1..NN -> [S -> S]] : Exists(S, a, NN, GG)
    BY FiniteRecursion
  <2>2. Exists(Sounds(sql), first, n, G)
    <3> HIDE DEF Exists
    <3> QED BY <1>1, <1>2, <1>3, <2>1
  <2> QED BY <2>2
<1>6. IsRound(h)
  <2>1. ASSUME NEW k \in 0..n, k # 0 PROVE G[k][h[k - 1]] = Again(h[k - 1], ddl, sql)
    <3>1. k \in 1..n /\ k - 1 \in 0..n
      BY <1>1, <2>1
    <3>2. h[k - 1] \in Sounds(sql)
      BY <1>5, <3>1
    <3> QED BY <1>4, <3>1, <3>2
  <2>2. \A k \in 0..n : h[k] = IF k = 0 THEN first ELSE Again(h[k - 1], ddl, sql)
    BY <1>5, <2>1
  <2> QED BY <1>5, <2>2
<1> DEFINE R == CHOOSE Round : IsRound(Round)
<1>7. Clean(ddl, sql) = R[n]
  <2> DEFINE Round[k \in 0..n] == IF k = 0 THEN Under(ddl) ELSE Under(WithCatalog(ddl, Catalog(Round[k - 1], ddl)))
  <2>1. Clean(ddl, sql) = Round[n]
    BY DEF Clean, n
  <2>2. Round = R
    BY DEF first, Again, Final
  <2> HIDE DEF Round, R
  <2> QED BY <2>1, <2>2
<1>8. IsRound(R)
  <2> HIDE DEF IsRound
  <2> QED BY <1>6
<1> HIDE DEF R
<1>9. R[0] = first /\ \A k \in 1..n : R[k] = Again(R[k - 1], ddl, sql)
  BY <1>1, <1>8
<1> DEFINE P == {k \in Nat : k <= n => R[k] \in Sounds(sql)}
<1>10. P = Nat
  <2>1. 0 \in P
    BY <1>2, <1>9
  <2>2. ASSUME NEW k \in P, k + 1 <= n PROVE R[k + 1] \in Sounds(sql)
    <3>1. k + 1 \in 1..n /\ (k + 1) - 1 = k /\ R[k] \in Sounds(sql)
      BY <1>1, <2>2
    <3> QED BY <1>9, <3>1, AgainSounds
  <2>3. \A k \in P : k + 1 \in P
    BY <2>2
  <2> HIDE DEF P
  <2> QED BY <2>1, <2>3, Induction DEF P
<1>11. R \in [0..n -> Sounds(sql)]
  <2> DEFINE e == [k \in 0..n |-> IF k = 0 THEN first ELSE Again(R[k - 1], ddl, sql)]
  <2>1. R = e /\ e = [k \in 0..n |-> e[k]]
    BY <1>8
  <2>2. \A k \in 0..n : R[k] \in Sounds(sql)
    BY <1>1, <1>10
  <2> HIDE DEF e, IsRound
  <2>3. R = [k \in 0..n |-> R[k]]
    BY <2>1
  <2> QED BY <2>2, <2>3
<1> QED BY <1>7, <1>9, <1>11 DEF n

\* The results of a clean extraction are such.
LEMMA CleanIsFixed ==
    ASSUME NEW sql \in SQLs, NEW ddl \in Schemas, AllParse(sql), AllDrop(sql), Orderly(sql)
    PROVE  /\ Clean(ddl, sql) \in Sounds(sql)
           /\ Clean(ddl, sql) = Again(Clean(ddl, sql), ddl, sql)
           /\ NoErrors(Clean(ddl, sql))
<1> DEFINE n == Cardinality(Texts(sql))
<1>1. n \in Nat
  BY TextsType
<1>2. PICK rank : Ranked(sql, rank)
  BY DEF Orderly, Ranked
<1> HIDE DEF n
<1>3. PICK R \in [0..n -> Sounds(sql)] :
          Clean(ddl, sql) = R[n] /\ \A k \in 1..n : R[k] = Again(R[k - 1], ddl, sql)
  BY CleanRounds DEF n
<1>4. R[n] \in Sounds(sql)
  BY <1>1, <1>3
<1>5. R[n] = Again(R[n], ddl, sql)
  <2>1. CASE n = 0
    <3>1. Texts(sql) = {}
      BY <2>1, TextsType, FS_EmptySet DEF n
    <3>2. R[n] = [f \in Texts(sql) |-> R[n][f]]
      BY <1>4, SoundsFacts
    <3> QED BY <3>1, <3>2 DEF Again
  <2>2. CASE n # 0
    <3> DEFINE P == {k \in Nat : k + 1 <= n => Alike(R[k], R[k + 1], rank, k)}
    <3>1. 0 \in P
      BY DEF Alike
    <3>2. ASSUME NEW k \in P, (k + 1) + 1 <= n PROVE Alike(R[k + 1], R[(k + 1) + 1], rank, k + 1)
      <4>1. /\ Alike(R[k], R[k + 1], rank, k) /\ k \in Nat
            /\ R[k] \in Sounds(sql) /\ R[k + 1] \in Sounds(sql)
            /\ R[k + 1] = Again(R[k], ddl, sql) /\ R[(k + 1) + 1] = Again(R[k + 1], ddl, sql)
        <5>1. k \in 0..n /\ k + 1 \in 1..n /\ (k + 1) + 1 \in 1..n /\ (k + 1) - 1 = k /\ ((k + 1) + 1) - 1 = k + 1
          BY <1>1, <3>2
        <5> QED BY <1>1, <1>3, <3>2, <5>1
      <4> QED BY <1>2, <4>1, RoundSettles
    <3>3. P = Nat
      <4>1. \A k \in P : k + 1 \in P
        BY <3>2
      <4> HIDE DEF P
      <4> QED BY <3>1, <4>1, Induction DEF P
    <3>4. n - 1 \in Nat /\ (n - 1) + 1 = n /\ n - 1 \in 0..n /\ n \in 1..n
      BY <1>1, <2>2
    <3>5. Alike(R[n - 1], R[n], rank, n - 1)
      BY <3>3, <3>4
    <3>6. Again(R[n - 1], ddl, sql) = Again(R[n], ddl, sql)
      <4>1. R[n - 1] \in Sounds(sql)
        BY <1>3, <3>4
      <4> HIDE DEF P
      <4> QED BY <1>2, <1>4, <3>4, <3>5, <4>1, RoundSettles DEF n
    <3> QED BY <1>3, <3>4, <3>6
  <2> QED BY <2>1, <2>2
<1> QED BY <1>3, <1>4, <1>5, AgainSounds

-----------------------------------------------------------------------------
(* One round of propagation *)

\* A good result that is not stale is what its text gives now.
LEMMA NotStaleTells ==
    ASSUME NEW sql \in SQLs, NEW ddl \in Schemas, Tidy(ddl, sql), NEW r \in Sounds(sql),
           NEW f \in Texts(sql), ~r[f].failed, ~Stale(r[f], Final(r, ddl))
    PROVE  r[f] = Extract(sql[f], Final(r, ddl))
<1> DEFINE R == Final(r, ddl)
           q == Script[sql[f]].statements
<1>1. /\ R \in Schemas /\ \A t \in Dataset : ddl[t] # {} => R[t] # {}
      /\ sql[f] \in DOMAIN Script /\ r[f] \in SoundResults(sql[f])
  BY SoundsFacts, CatalogType
<1>2. DropsFirst(q) /\ Anchored(q, ddl)
  BY DEF Tidy, Of
<1> HIDE DEF R, q
<1>3. /\ Script[sql[f]].parses /\ r[f].refs = Referenced(q) /\ r[f].slice # Absent
      /\ \E S \in Schemas : r[f] = Extract(sql[f], S) /\ r[f].slice = SliceOf(S, r[f].refs)
  <2>1. r[f].slice \in Schemas
    BY <1>1, SoundFacts
  <2> QED BY <1>1, <2>1, SoundFacts, WorldsAssumption DEF q
<1>4. PICK S \in Schemas : r[f] = Extract(sql[f], S) /\ r[f].slice = SliceOf(S, r[f].refs)
  BY <1>3
<1>5. SliceOf(S, Referenced(q)) = SliceOf(R, Referenced(q))
  BY <1>3, <1>4 DEF Stale, R
<1>6. Extract(sql[f], S) = Extract(sql[f], R)
  BY <1>1, <1>2, <1>3, <1>5, ExtractTold DEF q
<1> QED BY <1>4, <1>6 DEF R

\* When nothing is stale and nothing failed, the results are those of a clean extraction.
LEMMA SettledIsClean ==
    ASSUME NEW sql \in SQLs, NEW ddl \in Schemas, Tidy(ddl, sql), Orderly(sql), NEW r \in Sounds(sql),
           NoErrors(r), \A f \in Texts(sql) : ~Stale(r[f], Final(r, ddl))
    PROVE  r = Clean(ddl, sql)
<1>1. /\ AllParse(sql) /\ AllDrop(sql)
      /\ \A f \in Texts(sql) : ~r[f].failed
      /\ r = [f \in Texts(sql) |-> r[f]]
  BY SoundsFacts DEF AllParse, AllDrop, Tidy
<1>2. \A f \in Texts(sql) : r[f] = Extract(sql[f], Final(r, ddl))
  BY <1>1, NotStaleTells
<1>3. r = Again(r, ddl, sql)
  BY <1>1, <1>2 DEF Again
<1>4. PICK rank : Ranked(sql, rank)
  BY DEF Orderly, Ranked
<1> QED BY <1>1, <1>3, <1>4, CleanIsFixed, FixedPointsEqual

\* The results of a clean extraction are not stale.
LEMMA CleanIsSettled ==
    ASSUME NEW sql \in SQLs, NEW ddl \in Schemas, AllParse(sql), AllDrop(sql), Orderly(sql),
           NEW f \in Texts(sql)
    PROVE  ~Stale(Clean(ddl, sql)[f], Final(Clean(ddl, sql), ddl))
<1> DEFINE r == Clean(ddl, sql)
           R == Final(r, ddl)
           x == sql[f]
<1>1. r[f] = Extract(x, R)
  <2>1. r = Again(r, ddl, sql)
    BY CleanIsFixed
  <2> HIDE DEF r
  <2> QED BY <2>1 DEF Again
<1>2. Script[x].parses
  BY DEF AllParse
<1> HIDE DEF R, r, x
<1>3. Extract(x, R).slice = SliceOf(R, Extract(x, R).refs)
  BY <1>2, ExtractIs DEF TaskResult
<1>4. ~Stale(r[f], R)
  BY <1>1, <1>3 DEF Stale
<1> QED BY <1>4 DEF R, r

OneRound(r, ddl, sql, broken) ==
    LET final == Final(r, ddl)
    IN  [f \in Texts(sql) |->
            IF f \in broken THEN Failure
            ELSE IF Stale(r[f], final) THEN Extract(sql[f], final) ELSE r[f]]

\* A round without failures is as good as all tasks once more; who fails stays failed.
LEMMA RoundFacts ==
    ASSUME NEW sql \in SQLs, NEW ddl \in Schemas, Tidy(ddl, sql), NEW r \in Sounds(sql),
           NEW broken \in SUBSET Texts(sql), \A f \in broken : Stale(r[f], Final(r, ddl))
    PROVE  /\ OneRound(r, ddl, sql, broken) \in Sounds(sql)
           /\ NoErrors(OneRound(r, ddl, sql, broken)) =>
                  AllParse(sql) /\ OneRound(r, ddl, sql, broken) = Again(r, ddl, sql)
           /\ (\A f \in Texts(sql) : r[f].failed => r[f].slice = Absent \/ ~Script[sql[f]].parses)
                  => (NoErrors(OneRound(r, ddl, sql, broken)) => NoErrors(r))
           /\ (\A f \in Texts(sql) : r[f].failed =>
                   r[f].slice = Absent \/ ~Script[sql[f]].parses \/ Stale(r[f], Final(r, ddl)))
                  => \A f \in Texts(sql) : OneRound(r, ddl, sql, broken)[f].failed =>
                         OneRound(r, ddl, sql, broken)[f].slice = Absent \/ ~Script[sql[f]].parses
<1> DEFINE R == Final(r, ddl)
           s == OneRound(r, ddl, sql, broken)
<1>1. /\ R \in Schemas
      /\ DOMAIN r = Texts(sql)
      /\ \A f \in Texts(sql) : sql[f] \in DOMAIN Script /\ r[f] \in SoundResults(sql[f])
  BY SoundsFacts, CatalogType
<1>2. /\ s = [f \in Texts(sql) |-> s[f]]
      /\ DOMAIN s = Texts(sql)
      /\ \A f \in Texts(sql) : s[f] = IF f \in broken THEN Failure
                                      ELSE IF Stale(r[f], R) THEN Extract(sql[f], R) ELSE r[f]
  BY DEF OneRound
<1>3. Failure.failed = TRUE /\ Failure.slice = Absent
  BY DEF Failure, TaskResult
<1>4. \A f \in Texts(sql) : ~Script[sql[f]].parses => Extract(sql[f], R).failed = TRUE
  BY ExtractIs DEF TaskResult
<1>5. \A f \in Texts(sql) : Script[sql[f]].parses => Extract(sql[f], R).failed = FALSE
  BY ExtractIs DEF TaskResult
<1>6. \A f \in broken : Stale(r[f], R)
  OBVIOUS
<1> HIDE DEF R, s
<1>7. s \in Sounds(sql)
  <2>1. \A f \in Texts(sql) : /\ Extract(sql[f], R) \in SoundResults(sql[f])
                              /\ Failure \in SoundResults(sql[f])
                              /\ SoundResults(sql[f]) \subseteq SomeResults
    <3>1. \E z \in Schemas \cup {Absent} : Failure = TaskResult(<<>>, {}, z, <<>>, NoColumns, TRUE)
      BY DEF Failure
    <3>2. ASSUME NEW f \in Texts(sql) PROVE Extract(sql[f], R) \in SoundResults(sql[f])
      BY <1>1 DEF SoundResults
    <3>3. ASSUME NEW f \in Texts(sql) PROVE Failure \in SoundResults(sql[f])
      BY <3>1 DEF SoundResults
    <3> QED BY <1>1, <3>2, <3>3 DEF SomeResults
  <2>2. \A f \in Texts(sql) : s[f] \in SoundResults(sql[f]) /\ s[f] \in SomeResults
    BY <1>1, <1>2, <2>1
  <2> QED BY <1>2, <2>2 DEF Sounds
<1>8. ASSUME NoErrors(s) PROVE AllParse(sql) /\ s = Again(r, ddl, sql)
  <2>1. AllParse(sql) /\ \A f \in Texts(sql) : ~s[f].failed
    BY <1>7, <1>8, SoundsFacts DEF AllParse
  <2>2. ASSUME NEW f \in Texts(sql) PROVE s[f] = Extract(sql[f], R)
    <3>1. f \notin broken
      BY <1>2, <1>3, <2>1
    <3>2. CASE Stale(r[f], R)
      BY <1>2, <3>1, <3>2
    <3>3. CASE ~Stale(r[f], R)
      <4>1. s[f] = r[f] /\ ~r[f].failed
        BY <1>2, <2>1, <3>1, <3>3
      <4> QED BY <3>3, <4>1, NotStaleTells DEF R
    <3> QED BY <3>2, <3>3
  <2> QED BY <1>2, <2>1, <2>2 DEF Again, R
<1>9. ASSUME \A f \in Texts(sql) : r[f].failed => r[f].slice = Absent \/ ~Script[sql[f]].parses, NoErrors(s)
      PROVE  NoErrors(r)
  <2>1. AllParse(sql) /\ \A f \in Texts(sql) : ~s[f].failed
    BY <1>7, <1>9, SoundsFacts DEF AllParse
  <2>2. SUFFICES ASSUME NEW f \in Texts(sql), r[f].failed PROVE FALSE
    BY <1>1 DEF NoErrors
  <2>3. r[f].slice = Absent
    BY <1>9, <2>1, <2>2 DEF AllParse
  <2>4. ~Stale(r[f], R) /\ f \notin broken
    BY <1>6, <2>3 DEF Stale
  <2> QED BY <1>2, <2>1, <2>2, <2>4
<1>10. ASSUME \A f \in Texts(sql) : r[f].failed =>
                  r[f].slice = Absent \/ ~Script[sql[f]].parses \/ Stale(r[f], R),
              NEW f \in Texts(sql), s[f].failed
       PROVE  s[f].slice = Absent \/ ~Script[sql[f]].parses
  <2>1. CASE f \in broken
    BY <1>2, <1>3, <2>1
  <2>2. CASE f \notin broken /\ Stale(r[f], R)
    BY <1>2, <1>5, <1>10, <2>2
  <2>3. CASE f \notin broken /\ ~Stale(r[f], R)
    BY <1>2, <1>10, <2>3
  <2> QED BY <2>1, <2>2, <2>3
<1> QED BY <1>7, <1>8, <1>9, <1>10 DEF R, s

-----------------------------------------------------------------------------
(* The invariant of extractions *)

DDLs == {w.ddl : w \in Worlds}
TaskTexts == {w.sql : w \in Worlds}
Versions == {w.version : w \in Worlds}
\* An entry of the cache says what its text gives under some schema, or that it failed.
SoundEntries ==
    {e \in [result : SomeResults, text : DOMAIN Script, version : Versions] : e.result \in SoundResults(e.text)}
CacheFiles == [File -> SoundEntries \cup {Absent}]

Begun == [step : {"tasks"}, cached : BOOLEAN, force : BOOLEAN, ddl : DDLs]
WithFiles ==
    [step : {"extract"}, cached : BOOLEAN, force : BOOLEAN, ddl : DDLs,
     sql : TaskTexts, version : Versions, old : CacheFiles]
Later == {"propagate", "did not converge", "publish", "lineage", "cache"}
Extracted ==
    [step : Later, cached : BOOLEAN, force : BOOLEAN, ddl : DDLs,
     sql : TaskTexts, version : Versions, old : CacheFiles,
     round : Nat, schema : Schemas, results : UNION {Sounds(sql) : sql \in TaskTexts}]

RefreshTyped ==
    \/ refresh = Idle
    \/ refresh \in Begun
    \/ refresh \in WithFiles
    \/ refresh \in Extracted /\ refresh.results \in Sounds(refresh.sql)
CacheTyped ==
    /\ world \in Worlds
    /\ cacheFile \in CacheFiles \cup {Torn}
    /\ RefreshTyped

\* Before the first round, the results are those of the schema that the cache seeds, and
\* nothing else.  After it, who failed has failed for good, and without failures
\* each round has settled a rank.
RoundInv ==
    LET n == Cardinality(Texts(refresh.sql))
        clean == Clean(refresh.ddl, refresh.sql)
    IN  /\ refresh.round < MaxRounds(Texts(refresh.sql))
        /\ refresh.round = 0 =>
               /\ refresh.schema = WithCatalog(refresh.ddl, Initial(refresh))
               /\ \A f \in Texts(refresh.sql) :
                      refresh.results[f].slice \in {Absent, SliceOf(refresh.schema, refresh.results[f].refs)}
        /\ refresh.round # 0 =>
               \A f \in Texts(refresh.sql) : refresh.results[f].failed =>
                   refresh.results[f].slice = Absent \/ ~Script[refresh.sql[f]].parses
        /\ refresh.round # 0 /\ NoErrors(refresh.results) =>
               /\ \A rank \in [Texts(refresh.sql) -> 1..n] : Ranked(refresh.sql, rank) =>
                      Alike(refresh.results, clean, rank, refresh.round)
               /\ refresh.round >= n => refresh.results = clean

CacheInv ==
    /\ CacheTyped
    /\ refresh.step = "propagate" => RoundInv
    /\ refresh.step \in {"publish", "lineage", "cache"} /\ NoErrors(refresh.results) =>
           refresh.results = Clean(refresh.ddl, refresh.sql)
    /\ Converges
    /\ CacheTransparent

\* What an extraction reads is in order, though of two worlds.
LEMMA WorldFacts ==
    ASSUME InOrder
    PROVE  /\ DDLs \subseteq Schemas
           /\ TaskTexts \subseteq SQLs
           /\ \A ddl \in DDLs, sql \in TaskTexts : Tidy(ddl, sql) /\ Orderly(sql)
BY WorldsAssumption DEF InOrder, DDLs, TaskTexts, SQLs

\* Which step an extraction is in tells what it has.
LEMMA StepTells ==
    ASSUME CacheTyped
    PROVE  /\ refresh.step = "tasks" => refresh \in Begun
           /\ refresh.step = "extract" => refresh \in WithFiles
           /\ refresh.step \in Later => refresh \in Extracted /\ refresh.results \in Sounds(refresh.sql)
<1>1. Idle.step = "idle"
  BY DEF Idle
<1>2. refresh \in Begun => refresh.step = "tasks"
  BY DEF Begun
<1>3. refresh \in WithFiles => refresh.step = "extract"
  BY DEF WithFiles
<1>4. refresh \in Extracted => refresh.step \in Later
  BY DEF Extracted
<1> QED BY <1>1, <1>2, <1>3, <1>4 DEF CacheTyped, RefreshTyped, Later

\* An entry of the cache is about its text.
LEMMA EntryType ==
    ASSUME NEW e \in SoundEntries
    PROVE  e.text \in DOMAIN Script /\ e.result \in SoundResults(e.text)
BY DEF SoundEntries

\* What the cache seeds is a schema with the DDL.
LEMMA SeedsType ==
    ASSUME NEW r, r.old \in CacheFiles, r.sql \in SQLs, r.ddl \in Schemas
    PROVE  /\ Initial(r) \in Schemas
           /\ WithCatalog(r.ddl, Initial(r)) \in Schemas
           /\ \A t \in Dataset : r.ddl[t] # {} => Initial(r)[t] = {}
<1> DEFINE seeded == [f \in Seeds(r) |-> r.old[f].result]
<1>1. \A f \in Seeds(r) : seeded[f].made \in Schemas
  <2>1. SUFFICES ASSUME NEW f \in Seeds(r) PROVE r.old[f].result.made \in Schemas
    OBVIOUS
  <2>2. f \in File /\ r.old[f] # Absent /\ r.old[f] \in SoundEntries \cup {Absent}
    BY <2>1 DEF Seeds, SameTask, Texts, CacheFiles
  <2>3. r.old[f] \in SoundEntries
    BY <2>2
  <2> QED BY <2>3, EntryType, SoundFacts
<1>2. DOMAIN seeded = Seeds(r)
  OBVIOUS
<1> HIDE DEF seeded
<1>3. /\ Catalog(seeded, r.ddl) \in Schemas /\ Final(seeded, r.ddl) \in Schemas
      /\ \A t \in Dataset : r.ddl[t] # {} => Catalog(seeded, r.ddl)[t] = {}
  BY <1>1, <1>2, CatalogType
<1> QED BY <1>3 DEF Initial, Final, seeded

\* Nothing is cached at first.
LEMMA InitCacheInv == CacheInit => CacheInv
<1> SUFFICES ASSUME CacheInit PROVE CacheInv
  OBVIOUS
<1>1. NoCache \in CacheFiles
  BY DEF NoCache, CacheFiles
<1>2. refresh.step = "idle" /\ refresh = Idle
  BY DEF CacheInit, Idle
<1>3. CacheTyped
  BY <1>1, <1>2 DEF CacheInit, CacheTyped, RefreshTyped
<1> QED BY <1>2, <1>3 DEF CacheInit, CacheInv, Converges, CacheTransparent

\* What is settled, and the files, stay as they are in steps that do not touch them.
LEMMA ReadsKeep ==
    ASSUME CacheInv, InOrder,
           \/ \E cached, force \in BOOLEAN : ReadSchema(cached, force)
           \/ ReadTaskFiles
           \/ DieRefreshing
           \/ RemoveCache
           \/ \E w \in Worlds : EditWorld(w)
           \/ UNCHANGED cacheVars
    PROVE  CacheInv'
<1>1. CacheTyped /\ CacheTransparent
  BY DEF CacheInv
<1>2. NoCache \in CacheFiles
  BY DEF NoCache, CacheFiles
<1>3. ASSUME refresh' = Idle, UNCHANGED <<world, cacheFile, lineageFile>> PROVE CacheInv'
  <2>1. refresh'.step = "idle"
    BY <1>3 DEF Idle
  <2>2. CacheTyped'
    BY <1>1, <1>3 DEF CacheTyped, RefreshTyped
  <2>3. CacheTransparent'
    BY <1>1, <1>3 DEF CacheTransparent
  <2> QED BY <2>1, <2>2, <2>3 DEF CacheInv, Converges
<1>4. ASSUME NEW cached \in BOOLEAN, NEW force \in BOOLEAN, ReadSchema(cached, force) PROVE CacheInv'
  <2>1. /\ refresh' = [step |-> "tasks", cached |-> cached, force |-> force, ddl |-> world.ddl]
        /\ UNCHANGED <<world, cacheFile, lineageFile>> /\ world.ddl \in DDLs
    BY <1>1, <1>4 DEF ReadSchema, CacheTyped, DDLs
  <2>2. refresh' \in Begun /\ refresh'.step = "tasks"
    BY <2>1 DEF Begun
  <2>3. CacheTyped'
    BY <1>1, <2>1, <2>2 DEF CacheTyped, RefreshTyped
  <2>4. CacheTransparent'
    BY <1>1, <2>1 DEF CacheTransparent
  <2> QED BY <2>2, <2>3, <2>4 DEF CacheInv, Converges
<1>5. CASE ReadTaskFiles
  <2>1. CASE refresh.cached /\ cacheFile = Torn
    BY <1>3, <1>5, <2>1 DEF ReadTaskFiles
  <2>2. CASE ~(refresh.cached /\ cacheFile = Torn)
    <3> DEFINE old == IF refresh.cached THEN cacheFile ELSE NoCache
    <3>1. /\ refresh \in Begun
          /\ refresh' = [step |-> "extract", cached |-> refresh.cached, force |-> refresh.force,
                         ddl |-> refresh.ddl, sql |-> world.sql, version |-> world.version, old |-> old]
          /\ UNCHANGED <<world, cacheFile, lineageFile>>
      BY <1>1, <1>5, <2>2, StepTells DEF ReadTaskFiles
    <3>2. old \in CacheFiles
      BY <1>1, <1>2, <2>2 DEF CacheTyped
    <3>3. world.sql \in TaskTexts /\ world.version \in Versions
      BY <1>1 DEF CacheTyped, TaskTexts, Versions
    <3>4. refresh.cached \in BOOLEAN /\ refresh.force \in BOOLEAN /\ refresh.ddl \in DDLs
      BY <3>1 DEF Begun
    <3> HIDE DEF old
    <3>5. refresh' \in WithFiles /\ refresh'.step = "extract"
      BY <3>1, <3>2, <3>3, <3>4 DEF WithFiles
    <3>6. CacheTyped'
      BY <1>1, <3>1, <3>5 DEF CacheTyped, RefreshTyped
    <3>7. CacheTransparent'
      BY <1>1, <3>1 DEF CacheTransparent
    <3> QED BY <3>5, <3>6, <3>7 DEF CacheInv, Converges
  <2> QED BY <2>1, <2>2
<1>6. CASE DieRefreshing
  BY <1>3, <1>6 DEF DieRefreshing
<1>7. ASSUME world' \in Worlds, cacheFile' \in CacheFiles \cup {Torn}, UNCHANGED <<lineageFile, refresh>>
      PROVE  CacheInv'
  <2>1. CacheTyped'
    BY <1>1, <1>7 DEF CacheTyped, RefreshTyped
  <2>2. RoundInv' <=> RoundInv
    BY <1>7 DEF RoundInv
  <2>3. CacheTransparent' /\ (Converges => Converges')
    BY <1>1, <1>7 DEF CacheTransparent, Converges
  <2> QED BY <1>7, <2>1, <2>2, <2>3 DEF CacheInv
<1>8. CASE RemoveCache
  BY <1>1, <1>2, <1>7, <1>8 DEF RemoveCache, CacheTyped
<1>9. CASE \E w \in Worlds : EditWorld(w)
  BY <1>1, <1>7, <1>9 DEF EditWorld, CacheTyped
<1>10. CASE UNCHANGED cacheVars
  BY <1>1, <1>7, <1>10 DEF cacheVars, CacheTyped
<1> QED BY <1>4, <1>5, <1>6, <1>8, <1>9, <1>10

\* What is reused has the slice of the seeded schema, as what is extracted has.
LEMMA ExtractionKeeps ==
    ASSUME CacheInv, InOrder, NEW broken \in SUBSET File, ExtractTasks(broken)
    PROVE  CacheInv'
<1> DEFINE sql == refresh.sql
           ddl == refresh.ddl
           schema == WithCatalog(ddl, Initial(refresh))
           reused == {f \in Texts(sql) : Reusable(refresh.old[f], sql[f], refresh.version, schema)}
           results == [f \in Texts(sql) |-> IF f \in reused THEN refresh.old[f].result
                                            ELSE IF f \in broken THEN Failure
                                            ELSE Extract(sql[f], schema)]
<1>1. CacheTyped /\ CacheTransparent
  BY DEF CacheInv
<1>2. /\ refresh.step = "extract"
      /\ refresh' = [step |-> "propagate", cached |-> refresh.cached, force |-> refresh.force,
                     ddl |-> ddl, sql |-> sql, version |-> refresh.version,
                     old |-> refresh.old, round |-> 0, schema |-> schema, results |-> results]
      /\ UNCHANGED <<world, cacheFile, lineageFile>>
  BY DEF ExtractTasks
<1>3. /\ refresh.cached \in BOOLEAN /\ refresh.force \in BOOLEAN /\ ddl \in DDLs /\ sql \in TaskTexts
      /\ refresh.version \in Versions /\ refresh.old \in CacheFiles
  BY <1>1, <1>2, StepTells DEF WithFiles
<1>4. ddl \in Schemas /\ sql \in SQLs
  BY <1>3, WorldFacts
<1>5. schema \in Schemas
  BY <1>3, <1>4, SeedsType
<1>6. \A f \in Texts(sql) : f \in File /\ sql[f] \in DOMAIN Script
  BY <1>4, TextsType
<1> HIDE DEF schema, reused
<1>7. ASSUME NEW f \in Texts(sql)
      PROVE  /\ results[f] \in SoundResults(sql[f])
             /\ results[f].slice \in {Absent, SliceOf(schema, results[f].refs)}
  <2>1. CASE f \in reused
    <3>1. /\ refresh.old[f] # Absent /\ refresh.old[f].text = sql[f]
          /\ refresh.old[f].result.slice = SliceOf(schema, refresh.old[f].result.refs)
      BY <2>1 DEF reused, Reusable, SameTask
    <3>2. refresh.old[f] \in SoundEntries
      BY <1>3, <1>6, <3>1 DEF CacheFiles
    <3>3. results[f] = refresh.old[f].result
      BY <2>1
    <3> QED BY <3>1, <3>2, <3>3, EntryType
  <2>2. CASE f \notin reused /\ f \in broken
    <3>1. results[f] = Failure
      BY <2>2
    <3>2. Failure \in SoundResults(sql[f])
      <4>1. \E z \in Schemas \cup {Absent} : Failure = TaskResult(<<>>, {}, z, <<>>, NoColumns, TRUE)
        BY DEF Failure
      <4> QED BY <4>1 DEF SoundResults
    <3>3. Failure.slice = Absent
      BY DEF Failure, TaskResult
    <3> QED BY <3>1, <3>2, <3>3
  <2>3. CASE f \notin reused /\ f \notin broken
    <3>1. results[f] = Extract(sql[f], schema)
      BY <2>3
    <3>2. Extract(sql[f], schema) \in SoundResults(sql[f])
      BY <1>5 DEF SoundResults
    <3>3. Extract(sql[f], schema).slice = SliceOf(schema, Extract(sql[f], schema).refs)
      <4>1. CASE Script[sql[f]].parses
        BY <4>1, ExtractIs DEF TaskResult
      <4>2. CASE ~Script[sql[f]].parses
        <5>1. Extract(sql[f], schema) = TaskResult(Script[sql[f]].statements, {}, schema, <<>>, NoColumns, TRUE)
          BY <4>2, ExtractIs
        <5>2. Extract(sql[f], schema).slice = schema /\ Extract(sql[f], schema).refs = {}
          BY <5>1 DEF TaskResult
        <5> QED BY <5>2 DEF SliceOf
      <4> QED BY <4>1, <4>2
    <3> QED BY <3>1, <3>2, <3>3
  <2> QED BY <2>1, <2>2, <2>3
<1>8. results = [f \in Texts(sql) |-> results[f]]
  OBVIOUS
<1> HIDE DEF results
<1>9. results \in Sounds(sql)
  <2>1. \A f \in Texts(sql) : results[f] \in SomeResults
    BY <1>6, <1>7 DEF SomeResults
  <2> QED BY <1>7, <1>8, <2>1 DEF Sounds
<1>10. refresh' \in Extracted /\ refresh'.results \in Sounds(refresh'.sql)
  <2>1. results \in UNION {Sounds(s) : s \in TaskTexts}
    BY <1>3, <1>9
  <2> QED BY <1>2, <1>3, <1>5, <1>9, <2>1 DEF Extracted, Later
<1>11. CacheTyped'
  BY <1>1, <1>2, <1>10 DEF CacheTyped, RefreshTyped
<1>12. RoundInv'
  <2>1. /\ refresh'.step = "propagate" /\ refresh'.round = 0 /\ refresh'.schema = schema
        /\ refresh'.results = results /\ refresh'.sql = sql /\ refresh'.ddl = ddl
        /\ refresh'.old = refresh.old /\ refresh'.version = refresh.version
    BY <1>2
  <2>2. Initial(refresh)' = Initial(refresh)
    <3>1. Seeds(refresh)' = Seeds(refresh)
      BY <2>1 DEF Seeds
    <3> QED BY <2>1, <3>1 DEF Initial
  <2>3. 0 < MaxRounds(Texts(sql))
    BY <1>4, TextsType DEF MaxRounds
  <2>4. refresh'.schema = WithCatalog(refresh'.ddl, Initial(refresh)')
    BY <2>1, <2>2 DEF schema
  <2> QED BY <1>7, <2>1, <2>3, <2>4 DEF RoundInv
<1>13. refresh'.step = "propagate"
  BY <1>2
<1>14. CacheTransparent'
  BY <1>1, <1>2 DEF CacheTransparent
<1> QED BY <1>11, <1>12, <1>13, <1>14 DEF CacheInv, Converges

\* A round is the last one and everything is settled, or settles one rank more.
LEMMA PropagationKeeps ==
    ASSUME CacheInv, InOrder, NEW broken \in SUBSET File, Propagate(broken)
    PROVE  CacheInv'
<1> DEFINE sql == refresh.sql
           ddl == refresh.ddl
           r == refresh.results
           n == Cardinality(Texts(sql))
           final == Final(r, ddl)
           stale == {f \in Texts(sql) : Stale(r[f], final)}
           done == refresh.round = 0 /\ Catalog(r, ddl) = Initial(refresh)
           s == OneRound(r, ddl, sql, broken)
           clean == Clean(ddl, sql)
<1>1. CacheTyped /\ CacheTransparent /\ RoundInv /\ refresh.step = "propagate"
  BY DEF CacheInv, Propagate
<1>2. refresh \in Extracted /\ r \in Sounds(sql)
  BY <1>1, StepTells DEF Later
<1>3. /\ refresh.cached \in BOOLEAN /\ refresh.force \in BOOLEAN /\ ddl \in DDLs /\ sql \in TaskTexts
      /\ refresh.version \in Versions /\ refresh.old \in CacheFiles
      /\ refresh.round \in Nat /\ refresh.schema \in Schemas
  BY <1>2 DEF Extracted
<1>4. ddl \in Schemas /\ sql \in SQLs /\ Tidy(ddl, sql) /\ Orderly(sql) /\ AllDrop(sql)
  BY <1>3, WorldFacts DEF Tidy, AllDrop
<1>5. /\ broken \subseteq stale
      /\ refresh' = IF done THEN [refresh EXCEPT !.step = "publish"]
                    ELSE IF stale = {} THEN [refresh EXCEPT !.step = "publish", !.schema = final]
                    ELSE [refresh EXCEPT !.round = @ + 1,
                                         !.step = IF refresh.round + 1 < MaxRounds(Texts(sql))
                                                  THEN "propagate" ELSE "did not converge",
                                         !.results = s]
      /\ UNCHANGED <<world, cacheFile, lineageFile>>
  <2>1. s = [f \in Texts(sql) |-> IF f \in broken THEN Failure
                                  ELSE IF f \in stale THEN Extract(sql[f], final) ELSE r[f]]
    BY DEF OneRound
  <2> QED BY <2>1 DEF Propagate, Final
<1>6. n \in Nat /\ final \in Schemas /\ DOMAIN r = Texts(sql) /\ broken \in SUBSET Texts(sql)
  BY <1>2, <1>4, <1>5, TextsType, SoundsFacts, CatalogType
<1>7. CacheTransparent'
  BY <1>1, <1>5 DEF CacheTransparent
<1> HIDE DEF sql, ddl, r, n, final, stale, done, s, clean
<1>8. ASSUME refresh' \in Extracted, refresh'.step = "publish", refresh'.results = r,
             refresh'.sql = sql, refresh'.ddl = ddl, NoErrors(r) => r = clean
      PROVE  CacheInv'
  <2>1. CacheTyped'
    BY <1>1, <1>2, <1>5, <1>8 DEF CacheTyped, RefreshTyped
  <2> QED BY <1>7, <1>8, <2>1 DEF CacheInv, Converges, clean
<1>9. CASE done
  <2>1. refresh' = [refresh EXCEPT !.step = "publish"]
    BY <1>5, <1>9
  <2>2. /\ refresh' \in Extracted /\ refresh'.step = "publish"
        /\ refresh'.results = r /\ refresh'.sql = sql /\ refresh'.ddl = ddl
    BY <1>2, <2>1 DEF Extracted, Later, r, sql, ddl
  <2>3. ASSUME NoErrors(r) PROVE r = clean
    <3>1. refresh.schema = final /\ refresh.round = 0
      BY <1>1, <1>9 DEF done, RoundInv, final, Final, ddl
    <3>2. \A f \in Texts(sql) : r[f].slice \in {Absent, SliceOf(final, r[f].refs)}
      BY <1>1, <3>1 DEF RoundInv, sql, r
    <3>3. \A f \in Texts(sql) : ~Stale(r[f], final)
      BY <3>2 DEF Stale
    <3> QED BY <1>2, <1>4, <2>3, <3>3, SettledIsClean DEF final, clean
  <2> QED BY <1>8, <2>2, <2>3
<1>10. CASE ~done /\ stale = {}
  <2>1. refresh' = [refresh EXCEPT !.step = "publish", !.schema = final]
    BY <1>5, <1>10
  <2>2. /\ refresh' \in Extracted /\ refresh'.step = "publish"
        /\ refresh'.results = r /\ refresh'.sql = sql /\ refresh'.ddl = ddl
    BY <1>2, <1>6, <2>1 DEF Extracted, Later, r, sql, ddl
  <2>3. ASSUME NoErrors(r) PROVE r = clean
    <3>1. \A f \in Texts(sql) : ~Stale(r[f], final)
      BY <1>10 DEF stale
    <3> QED BY <1>2, <1>4, <2>3, <3>1, SettledIsClean DEF final, clean
  <2> QED BY <1>8, <2>2, <2>3
<1>11. CASE ~done /\ stale # {}
  <2> DEFINE next == IF refresh.round + 1 < MaxRounds(Texts(sql)) THEN "propagate" ELSE "did not converge"
  <2>1. refresh' = [refresh EXCEPT !.round = @ + 1, !.step = next, !.results = s]
    BY <1>5, <1>11
  <2>2. \A f \in broken : Stale(r[f], final)
    BY <1>5 DEF stale
  <2>3. /\ s \in Sounds(sql)
        /\ NoErrors(s) => AllParse(sql) /\ s = Again(r, ddl, sql)
        /\ (\A f \in Texts(sql) : r[f].failed => r[f].slice = Absent \/ ~Script[sql[f]].parses)
               => (NoErrors(s) => NoErrors(r))
        /\ (\A f \in Texts(sql) : r[f].failed =>
                r[f].slice = Absent \/ ~Script[sql[f]].parses \/ Stale(r[f], final))
               => \A f \in Texts(sql) : s[f].failed => s[f].slice = Absent \/ ~Script[sql[f]].parses
    BY <1>2, <1>4, <1>6, <2>2, RoundFacts DEF final, s
  <2>4. next \in {"propagate", "did not converge"}
    OBVIOUS
  <2>5. /\ refresh'.step = next /\ refresh'.round = refresh.round + 1 /\ refresh'.results = s
        /\ refresh'.sql = sql /\ refresh'.ddl = ddl /\ refresh' \in Extracted
    <3>1. s \in UNION {Sounds(x) : x \in TaskTexts}
      BY <1>3, <2>3
    <3>2. refresh.round + 1 \in Nat /\ next \in Later
      BY <1>3, <2>4 DEF Later
    <3> HIDE DEF next
    <3> QED BY <1>2, <2>1, <3>1, <3>2 DEF Extracted, sql, ddl
  <2>6. CacheTyped'
    BY <1>1, <1>5, <2>3, <2>5 DEF CacheTyped, RefreshTyped
  <2>7. \A f \in Texts(sql) : r[f].failed =>
            r[f].slice = Absent \/ ~Script[sql[f]].parses \/ Stale(r[f], final)
    <3>1. CASE refresh.round = 0
      <4>1. SUFFICES ASSUME NEW f \in Texts(sql), r[f].failed, r[f].slice # Absent PROVE Stale(r[f], final)
        OBVIOUS
      <4>2. r[f].refs = {}
        BY <1>2, <1>4, <4>1, SoundsFacts, SoundFacts
      <4>3. /\ refresh.schema = WithCatalog(ddl, Initial(refresh))
            /\ r[f].slice = SliceOf(refresh.schema, r[f].refs)
        BY <1>1, <3>1, <4>1 DEF RoundInv, r, sql, ddl
      <4>4. final # refresh.schema
        <5>1. Catalog(r, ddl) # Initial(refresh)
          BY <1>11, <3>1 DEF done
        <5>2. /\ Catalog(r, ddl) \in Schemas
              /\ \A t \in Dataset : ddl[t] # {} => Catalog(r, ddl)[t] = {}
          BY <1>2, <1>4, SoundsFacts, CatalogType
        <5>3. Initial(refresh) \in Schemas /\ \A t \in Dataset : ddl[t] # {} => Initial(refresh)[t] = {}
          BY <1>3, <1>4, SeedsType DEF sql, ddl
        <5> QED BY <1>4, <4>3, <5>1, <5>2, <5>3, WithCatalogTells DEF final, Final
      <4> QED BY <4>1, <4>2, <4>3, <4>4 DEF Stale, SliceOf
    <3>2. CASE refresh.round # 0
      BY <1>1, <3>2 DEF RoundInv, r, sql
    <3> QED BY <3>1, <3>2
  <2>8. \A f \in Texts(sql) : s[f].failed => s[f].slice = Absent \/ ~Script[sql[f]].parses
    BY <2>3, <2>7
  <2>9. ASSUME NoErrors(s)
        PROVE  /\ AllParse(sql) /\ s = Again(r, ddl, sql)
               /\ clean \in Sounds(sql) /\ clean = Again(clean, ddl, sql) /\ NoErrors(clean)
               /\ refresh.round # 0 => NoErrors(r)
               /\ \A rank \in [Texts(sql) -> 1..n] : Ranked(sql, rank) => Alike(r, clean, rank, refresh.round)
    <3>1. AllParse(sql) /\ s = Again(r, ddl, sql)
      BY <2>3, <2>9
    <3>2. clean \in Sounds(sql) /\ clean = Again(clean, ddl, sql) /\ NoErrors(clean)
      BY <1>4, <3>1, CleanIsFixed DEF clean
    <3>3. refresh.round # 0 => NoErrors(r)
      BY <1>1, <2>3, <2>9 DEF RoundInv, r, sql
    <3>4. \A rank \in [Texts(sql) -> 1..n] : Ranked(sql, rank) => Alike(r, clean, rank, refresh.round)
      <4>1. CASE refresh.round = 0
        BY <4>1 DEF Alike
      <4>2. CASE refresh.round # 0
        BY <1>1, <3>3, <4>2 DEF RoundInv, r, sql, ddl, clean, n
      <4> QED BY <4>1, <4>2
    <3> QED BY <3>1, <3>2, <3>3, <3>4
  <2>10. ASSUME NoErrors(s)
         PROVE  /\ \A rank \in [Texts(sql) -> 1..n] : Ranked(sql, rank) => Alike(s, clean, rank, refresh.round + 1)
                /\ refresh.round + 1 >= n => s = clean
    <3>1. ASSUME NEW rank, Ranked(sql, rank)
          PROVE  /\ Alike(s, clean, rank, refresh.round + 1)
                 /\ refresh.round + 1 >= n => s = clean
      <4>1. rank \in [Texts(sql) -> 1..n]
        BY <3>1 DEF Ranked, n
      <4>2. /\ Alike(Again(r, ddl, sql), Again(clean, ddl, sql), rank, refresh.round + 1)
            /\ refresh.round >= n - 1 => Again(r, ddl, sql) = Again(clean, ddl, sql)
        BY <1>2, <1>3, <1>4, <2>9, <2>10, <3>1, <4>1, RoundSettles DEF n
      <4> QED BY <1>3, <1>6, <2>9, <2>10, <4>2
    <3>2. \E rank : Ranked(sql, rank)
      BY <1>4 DEF Orderly, Ranked
    <3> QED BY <3>1, <3>2
  <2>11. CASE refresh.round + 1 < MaxRounds(Texts(sql))
    <3>1. next = "propagate"
      BY <2>11
    <3>2. refresh'.round # 0
      <4>1. refresh.round + 1 # 0
        BY <1>3
      <4>2. refresh'.round = refresh.round + 1
        BY <2>5
      <4> QED BY <4>1, <4>2
    <3>3. RoundInv'
      BY <2>5, <2>8, <2>10, <2>11, <3>2 DEF RoundInv, n, clean
    <3> QED BY <1>7, <2>5, <2>6, <3>1, <3>3 DEF CacheInv, Converges
  <2>12. CASE ~(refresh.round + 1 < MaxRounds(Texts(sql)))
    <3>1. refresh.round >= n
      BY <1>3, <1>6, <2>12 DEF MaxRounds, n
    <3>2. ~NoErrors(s)
      <4>1. SUFFICES ASSUME NoErrors(s) PROVE FALSE
        OBVIOUS
      <4>2. CASE refresh.round = 0
        <5>1. Texts(sql) = {}
          BY <1>4, <1>6, <3>1, <4>2, TextsType, FS_EmptySet DEF n
        <5> QED BY <1>11, <5>1 DEF stale
      <4>3. CASE refresh.round # 0
        <5>1. NoErrors(r) /\ AllParse(sql)
          BY <2>9, <4>1, <4>3
        <5>2. r = clean
          BY <1>1, <3>1, <4>3, <5>1 DEF RoundInv, r, sql, ddl, clean, n
        <5>3. \A f \in Texts(sql) : ~Stale(r[f], final)
          BY <1>4, <5>1, <5>2, CleanIsSettled DEF clean, final
        <5> QED BY <1>11, <5>3 DEF stale
      <4> QED BY <4>2, <4>3
    <3>3. \E f \in DOMAIN s : s[f].failed
      BY <3>2 DEF NoErrors
    <3>4. next = "did not converge"
      BY <2>12
    <3>5. Converges'
      BY <2>5, <3>3 DEF Converges, HasErrors
    <3> QED BY <1>7, <2>5, <2>6, <3>4, <3>5 DEF CacheInv
  <2> QED BY <2>11, <2>12
<1> QED BY <1>9, <1>10, <1>11

\* A result with another slice.
LEMMA Resliced ==
    ASSUME NEW q, NEW refs, NEW y, NEW z, NEW entries, NEW made, NEW failed
    PROVE  [TaskResult(q, refs, y, entries, made, failed) EXCEPT !.slice = z]
               = TaskResult(q, refs, z, entries, made, failed)
BY DEF TaskResult

\* A failure is cached with the schema it failed under, any other result as it is.
LEMMA CachedIsSound ==
    ASSUME NEW x \in DOMAIN Script, NEW r \in SoundResults(x), NEW S \in Schemas, NEW v \in Versions
    PROVE  CacheEntry(r, x, v, S) \in SoundEntries
<1> DEFINE kept == [r EXCEPT !.slice = IF @ = Absent THEN SliceOf(S, r.refs) ELSE @]
<1>1. kept \in SoundResults(x)
  <2>1. CASE r.slice = Absent
    <3>1. r.failed
      BY <2>1, SoundFacts
    <3>2. r = TaskResult(<<>>, {}, Absent, <<>>, NoColumns, TRUE)
      <4>1. ASSUME NEW R \in Schemas, r = Extract(x, R) PROVE FALSE
        <5>1. R \in Schemas /\ Script[x].statements \in Seq(Statements) /\ Absent \notin Schemas
          BY ScriptType, WorldsAssumption
        <5>2. CASE Script[x].parses
          <6>1. r.failed = FALSE
            BY <4>1, <5>2, ExtractIs DEF TaskResult
          <6> QED BY <3>1, <6>1
        <5>3. CASE ~Script[x].parses
          <6>1. r.slice = R
            BY <4>1, <5>3, ExtractIs DEF TaskResult
          <6> QED BY <2>1, <5>1, <6>1
        <5> QED BY <5>2, <5>3
      <4>2. PICK z \in Schemas \cup {Absent} : r = TaskResult(<<>>, {}, z, <<>>, NoColumns, TRUE)
        BY <4>1 DEF SoundResults
      <4>3. r.slice = z
        BY <4>2 DEF TaskResult
      <4> QED BY <2>1, <4>2, <4>3
    <3>3. r.refs = {} /\ SliceOf(S, {}) = S
      BY <3>2 DEF TaskResult, SliceOf
    <3>4. kept = TaskResult(<<>>, {}, S, <<>>, NoColumns, TRUE)
      <4>1. kept = [r EXCEPT !.slice = S]
        BY <2>1, <3>3
      <4>2. [TaskResult(<<>>, {}, Absent, <<>>, NoColumns, TRUE) EXCEPT !.slice = S]
                = TaskResult(<<>>, {}, S, <<>>, NoColumns, TRUE)
        <5>1. \A failed : [TaskResult(<<>>, {}, Absent, <<>>, NoColumns, failed) EXCEPT !.slice = S]
                               = TaskResult(<<>>, {}, S, <<>>, NoColumns, failed)
          BY Resliced
        <5> QED BY <5>1, Zenon
      <4> HIDE DEF kept
      <4> QED BY <3>2, <4>1, <4>2
    <3> QED BY <3>4 DEF SoundResults
  <2>2. CASE r.slice # Absent
    <3>1. \E q, refs, slice, entries, made, failed : r = TaskResult(q, refs, slice, entries, made, failed)
      <4>1. ASSUME NEW R \in Schemas
            PROVE  \E q, refs, slice, entries, made, failed :
                       Extract(x, R) = TaskResult(q, refs, slice, entries, made, failed)
        BY ExtractIs
      <4>2. CASE \E R \in Schemas : r = Extract(x, R)
        BY <4>1, <4>2
      <4>3. CASE \E z \in Schemas \cup {Absent} : r = TaskResult(<<>>, {}, z, <<>>, NoColumns, TRUE)
        BY <4>3
      <4> QED BY <4>2, <4>3 DEF SoundResults
    <3>2. kept = r
      BY <2>2, <3>1 DEF TaskResult
    <3> QED BY <3>2
  <2> QED BY <2>1, <2>2
<1>2. CacheEntry(r, x, v, S) = [result |-> kept, text |-> x, version |-> v]
  BY DEF CacheEntry
<1> HIDE DEF kept
<1>3. kept \in SomeResults
  BY <1>1 DEF SomeResults
<1> QED BY <1>1, <1>2, <1>3 DEF SoundEntries

\* What is written is settled, or has failures.
LEMMA WritesKeep ==
    ASSUME CacheInv, InOrder, OpenLineage \/ WriteLineage \/ WriteCache
    PROVE  CacheInv'
<1>1. CacheTyped /\ CacheTransparent /\ refresh.step \in {"publish", "lineage", "cache"}
  BY DEF CacheInv, OpenLineage, WriteLineage, WriteCache
<1>2. /\ refresh \in Extracted /\ refresh.results \in Sounds(refresh.sql)
      /\ NoErrors(refresh.results) => refresh.results = Clean(refresh.ddl, refresh.sql)
  BY <1>1, StepTells DEF Later, CacheInv
<1>3. /\ refresh.sql \in TaskTexts /\ refresh.version \in Versions /\ refresh.schema \in Schemas
  BY <1>2 DEF Extracted
<1>4. ASSUME world' = world, cacheFile' \in CacheFiles \cup {Torn}, refresh' = Idle, CacheTransparent'
      PROVE  CacheInv'
  <2>1. refresh'.step = "idle"
    BY <1>4 DEF Idle
  <2>2. CacheTyped'
    BY <1>1, <1>4 DEF CacheTyped, RefreshTyped
  <2> QED BY <1>4, <2>1, <2>2 DEF CacheInv, Converges
<1>5. ASSUME NEW step \in {"lineage", "cache"}, refresh' = [refresh EXCEPT !.step = step],
             world' = world, cacheFile' \in CacheFiles \cup {Torn}, CacheTransparent'
      PROVE  CacheInv'
  <2>1. /\ refresh' \in Extracted /\ refresh'.step = step
        /\ refresh'.results = refresh.results /\ refresh'.sql = refresh.sql /\ refresh'.ddl = refresh.ddl
    BY <1>2, <1>5 DEF Extracted, Later
  <2>2. CacheTyped'
    BY <1>1, <1>2, <1>5, <2>1 DEF CacheTyped, RefreshTyped
  <2> QED BY <1>2, <1>5, <2>1, <2>2 DEF CacheInv, Converges
<1>6. CASE OpenLineage
  <2>1. CASE HasErrors(refresh) /\ ~refresh.force /\ lineageFile # Absent
    <3>1. refresh' = Idle /\ UNCHANGED <<world, cacheFile, lineageFile>>
      BY <1>6, <2>1 DEF OpenLineage
    <3>2. CacheTransparent'
      BY <1>1, <3>1 DEF CacheTransparent
    <3> QED BY <1>1, <1>4, <3>1, <3>2 DEF CacheTyped
  <2>2. CASE ~(HasErrors(refresh) /\ ~refresh.force /\ lineageFile # Absent)
    <3>1. lineageFile' = Torn /\ refresh' = [refresh EXCEPT !.step = "lineage"] /\ UNCHANGED <<world, cacheFile>>
      BY <1>6, <2>2 DEF OpenLineage
    <3>2. CacheTransparent'
      BY <3>1 DEF CacheTransparent
    <3> QED BY <1>1, <1>5, <3>1, <3>2 DEF CacheTyped
  <2> QED BY <2>1, <2>2
<1>7. CASE WriteLineage
  <2>1. lineageFile' = [ddl |-> refresh.ddl, sql |-> refresh.sql, results |-> refresh.results] /\ world' = world
    BY <1>7 DEF WriteLineage
  <2>2. CacheTransparent'
    <3>1. /\ lineageFile'.ddl = refresh.ddl /\ lineageFile'.sql = refresh.sql
          /\ lineageFile'.results = refresh.results
      BY <2>1
    <3>2. ~HasErrors(lineageFile') => NoErrors(refresh.results)
      BY <3>1 DEF HasErrors, NoErrors
    <3> QED BY <1>2, <3>1, <3>2 DEF CacheTransparent
  <2>3. CASE refresh.cached
    <3>1. cacheFile' = Torn /\ refresh' = [refresh EXCEPT !.step = "cache"]
      BY <1>7, <2>3 DEF WriteLineage
    <3> QED BY <1>5, <2>1, <2>2, <3>1
  <2>4. CASE ~refresh.cached
    <3>1. cacheFile' = cacheFile /\ refresh' = Idle
      BY <1>7, <2>4 DEF WriteLineage
    <3> QED BY <1>1, <1>4, <2>1, <2>2, <3>1 DEF CacheTyped
  <2> QED BY <2>3, <2>4
<1>8. CASE WriteCache
  <2>1. /\ cacheFile' = [f \in File |->
               IF f \notin Texts(refresh.sql) THEN Absent
               ELSE CacheEntry(refresh.results[f], refresh.sql[f], refresh.version, refresh.schema)]
        /\ refresh' = Idle /\ UNCHANGED <<world, lineageFile>>
    BY <1>8 DEF WriteCache
  <2>2. ASSUME NEW f \in Texts(refresh.sql)
        PROVE  CacheEntry(refresh.results[f], refresh.sql[f], refresh.version, refresh.schema) \in SoundEntries
    <3>1. refresh.sql \in SQLs
      BY <1>3, WorldFacts
    <3>2. refresh.sql[f] \in DOMAIN Script /\ refresh.results[f] \in SoundResults(refresh.sql[f])
      BY <1>2, <3>1, SoundsFacts
    <3> QED BY <1>3, <3>2, CachedIsSound
  <2>3. cacheFile' \in CacheFiles
    BY <2>1, <2>2 DEF CacheFiles
  <2>4. CacheTransparent'
    BY <1>1, <2>1 DEF CacheTransparent
  <2> QED BY <1>4, <2>1, <2>3, <2>4
<1> QED BY <1>6, <1>7, <1>8

\* The invariant of extractions, for any worlds in order, failures, edits, kills and caches.
THEOREM CacheInvariant ==
    ASSUME InOrder
    PROVE  CacheSpec => []CacheInv
<1>1. CacheInit => CacheInv
  BY InitCacheInv
<1>2. CacheInv /\ [CacheNext]_cacheVars => CacheInv'
  <2> SUFFICES ASSUME CacheInv, [CacheNext]_cacheVars PROVE CacheInv'
    OBVIOUS
  <2>1. CASE \E broken \in SUBSET File : ExtractTasks(broken) \/ Propagate(broken)
    BY <2>1, ExtractionKeeps, PropagationKeeps
  <2>2. CASE OpenLineage \/ WriteLineage \/ WriteCache
    BY <2>2, WritesKeep
  <2>3. CASE \/ \E cached, force \in BOOLEAN : ReadSchema(cached, force)
             \/ ReadTaskFiles \/ DieRefreshing \/ RemoveCache
             \/ \E w \in Worlds : EditWorld(w)
             \/ UNCHANGED cacheVars
    BY <2>3, ReadsKeep
  <2> QED BY <2>1, <2>2, <2>3 DEF CacheNext, RefreshStep
<1> QED BY <1>1, <1>2, PTL DEF CacheSpec

\* A lineage file without errors is what its DDL and scripts give from nothing: what was
\* cached, by whom and under which schema, does not show in it.
THEOREM Transparent ==
    ASSUME InOrder
    PROVE  CacheSpec => []CacheTransparent
<1>1. CacheInv => CacheTransparent
  BY DEF CacheInv
<1> QED BY <1>1, CacheInvariant, PTL

\* The bound on the rounds is met only by an extraction in which a worker failed.
THEOREM Converging ==
    ASSUME InOrder
    PROVE  CacheSpec => []Converges
<1>1. CacheInv => Converges
  BY DEF CacheInv
<1> QED BY <1>1, CacheInvariant, PTL
=============================================================================
