------------------------------ MODULE RefactorRun ------------------------------
(***************************************************************************)
(* The commands of one refactor run and the files they leave for each      *)
(* other (refactor/run.py, plan_artifact.py, shadow_run.py, compare.py):   *)
(* analyze and semantic-mode publish a verification plan, shadow-run       *)
(* executes it in a QA slot, compare judges what the slot holds.           *)
(*                                                                         *)
(* A fingerprint is what it is a hash of.  The workspace is a version; the *)
(* parts of an artifact are the versions they were computed from.          *)
(***************************************************************************)
EXTENDS Naturals, FiniteSets

CONSTANTS
    Cmd,        \* processes that run the commands, one invocation at a time; the
                \* name of a shadow-run is its execution id
    Table,      \* tables of the affected semantic scope
    Mode,       \* semantic modes the user may declare
    Version,    \* contents the workspace may have, numbered
    History,    \* what each version inherits from the manifests of older runs
    None,       \* an absent file, an undeclared mode, a lock nobody holds
    Separate,   \* analyze and semantic-mode overlap no other command of the run
    Quiet       \* the workspace is edited carefully, see Careful

Intent == [Table -> Mode \cup {None}]

ASSUME RunAssumption ==
    /\ Version \subseteq Nat
    /\ History \in [Version -> Intent]
    /\ None \notin Cmd \cup Mode \cup Version
    /\ Separate \in BOOLEAN
    /\ Quiet \in BOOLEAN

Kind == {"analyze", "semantic-mode", "shadow-run", "dry-run", "compare"}
Planning == {"analyze", "semantic-mode"}
Shadowing == {"shadow-run", "dry-run"}

\* change_analysis.json: first without, then with the rename mapping.
RawChanges == [lineage : Version, files : Version, renames : {None}]
Changes == [lineage : Version, files : Version, renames : Version]

\* plan.json: the fingerprints of its analysis snapshot, the version the rest of
\* the plan was made from, and the declarations it resolved.
Plan == [ws : Version, lineage : Version, changes : Changes, made : Version,
         intent : Intent]

\* shadow_run_result.json, and the business tables behind a marker in a slot.
Result == [by : Cmd, status : {"running", "completed", "failed", "dry_run"}, plan : Plan]
Contents == [plan : Plan, read : SUBSET Version]

\* compare_result.json; "data" is what was compared.
Verdict == [of : Cmd, plan : Plan, data : Contents]

ASSUME NoneAssumption == None \notin Plan \cup Result \cup Contents \cup Verdict

VARIABLES
    ws,         \* the workspace
    intent,     \* verification_intent of manifest.json
    lineage,    \* current_lineage
    changes,    \* change_analysis
    plan,       \* verification_plan
    shadow,     \* shadow_run_result
    verdict,    \* compare_result
    lock,       \* the holder of run_execution_lock
    slots,      \* the slot each execution has claimed and not released
    kind,       \* what each invocation does
    at,         \* and how far it is
    seen        \* and what it holds in memory

files == <<intent, lineage, changes, plan, shadow, verdict>>
vars == <<ws, files, lock, slots, kind, at, seen>>

Nothing == [intent |-> None, lineage |-> None, changes |-> None, made |-> None,
            plan |-> None, result |-> None, data |-> None, table |-> None,
            mode |-> None, status |-> None]

Steps == {"load", "check", "reload", "check again",                 \* freshness
          "drop plan", "drop shadow", "drop verdict",               \* invalidation
          "lineage", "changes", "build", "snapshot",                \* analyze
          "declare", "replan", "recheck",                           \* semantic-mode
          "publish", "clear shadow", "clear verdict",               \* both
          "lock", "announce", "claim", "compile", "execute", "finish",  \* shadow-run
          "match", "own", "judge", "report"}                        \* compare
Rest == {"idle", "over"}

TypeOK ==
    /\ ws \in Version
    /\ intent \in Intent
    /\ lineage \in Version \cup {None}
    /\ changes \in RawChanges \cup Changes \cup {None}
    /\ plan \in Plan \cup {None}
    /\ shadow \in Result \cup {None}
    /\ verdict \in Verdict \cup {None}
    /\ lock \in Cmd \cup {None}
    /\ slots \in [Cmd -> Contents \cup {None}]
    /\ kind \in [Cmd -> Kind \cup {None}]
    /\ at \in [Cmd -> Steps \cup Rest]

Busy == {c \in Cmd : at[c] \notin Rest}

Init ==
    /\ ws \in Version
    /\ intent = [t \in Table |-> None]
    /\ lineage = None /\ changes = None /\ plan = None /\ shadow = None /\ verdict = None
    /\ lock = None
    /\ slots = [c \in Cmd |-> None]
    /\ kind = [c \in Cmd |-> None]
    /\ at = [c \in Cmd |-> "idle"]
    /\ seen = [c \in Cmd |-> Nothing]

-----------------------------------------------------------------------------
\* An invocation goes to its next step.
Goto(c, step) == at' = [at EXCEPT ![c] = step]

\* It is over, in whatever way: its memory is gone, and so is its lock.  The
\* name of a shadow-run, its execution id, is not used again; any other is.
Over(c) ==
    /\ Goto(c, IF kind[c] \in Shadowing THEN "over" ELSE "idle")
    /\ seen' = [seen EXCEPT ![c] = Nothing]
    /\ lock' = IF lock = c THEN None ELSE lock

Hold(c, field, value) == seen' = [seen EXCEPT ![c][field] = value]

\* An error, a KeyboardInterrupt or a kill; locks are flocks.
Die(c) ==
    /\ c \in Busy
    /\ Over(c)
    /\ UNCHANGED <<ws, files, slots, kind>>

\* A careful editor leaves the workspace alone while analyze or a shadow-run
\* reads it, and does not put an earlier content back during semantic-mode.
Careful(v) ==
    \A c \in Busy :
        \/ kind[c] = "compare"
        \/ kind[c] = "semantic-mode" /\ v > ws

Edit ==
    /\ \E v \in Version \ {ws} : (Quiet => Careful(v)) /\ ws' = v
    /\ UNCHANGED <<files, lock, slots, kind, at, seen>>

\* cleanup release: see QaPool, whose discipline keeps it off slots in use.
Release(e) ==
    /\ slots[e] # None
    /\ e \notin Busy
    /\ \A c \in Busy : seen[c].result # None => seen[c].result.by # e
    /\ slots' = [slots EXCEPT ![e] = None]
    /\ UNCHANGED <<ws, files, lock, kind, at, seen>>

\* load_manifest.
Begin(c, k) ==
    /\ at[c] = "idle"
    /\ Separate => (\A d \in Busy : kind[d] \notin Planning) /\ (k \in Planning => Busy = {})
    /\ kind' = [kind EXCEPT ![c] = k]
    /\ Goto(c, IF k = "analyze" THEN "drop plan" ELSE "load")
    /\ \/ /\ k = "semantic-mode"
          /\ \E t \in Table, m \in Mode :
                seen' = [seen EXCEPT ![c] = [@ EXCEPT !.intent = intent, !.table = t, !.mode = m]]
       \/ k # "semantic-mode" /\ Hold(c, "intent", intent)
    /\ UNCHANGED <<ws, files, lock, slots>>

-----------------------------------------------------------------------------
(* require_fresh_plan.                                                     *)

\* shadow-run checks twice and insists on the same plan.
Load(c) ==
    /\ at[c] \in {"load", "reload"}
    /\ \/ /\ plan # None
          /\ at[c] = "reload" /\ kind[c] \in Shadowing => plan = seen[c].plan
          /\ Hold(c, "plan", plan)
          /\ Goto(c, IF at[c] = "load" THEN "check" ELSE "check again")
          /\ UNCHANGED lock
       \/ /\ \/ plan = None
             \/ at[c] = "reload" /\ kind[c] \in Shadowing /\ plan # seen[c].plan
          /\ Over(c)
    /\ UNCHANGED <<ws, files, slots, kind>>

\* Fault: the workspace is not compared.
FreshInputs(p) ==
    /\ p.lineage = lineage
    /\ p.changes = changes
    /\ p.intent = intent

Fresh(p) ==
    /\ p.ws = ws
    /\ p.lineage = lineage
    /\ p.changes = changes
    /\ p.intent = intent

Check(c) ==
    /\ at[c] \in {"check", "check again"}
    /\ \/ /\ Fresh(seen[c].plan)
          /\ \/ kind[c] = "semantic-mode" /\ Goto(c, "drop plan")
             \/ kind[c] # "semantic-mode" /\ at[c] = "check" /\ Goto(c, "reload")
             \/ kind[c] = "compare" /\ at[c] = "check again" /\ Goto(c, "match")
             \/ kind[c] \in Shadowing /\ at[c] = "check again" /\ Goto(c, "lock")
          /\ UNCHANGED <<lock, seen>>
       \/ ~Fresh(seen[c].plan) /\ Over(c)
    /\ UNCHANGED <<ws, files, slots, kind>>

-----------------------------------------------------------------------------
(* _invalidate_verification_outputs, and the end of write_verification_plan. *)

DropPlan(c) ==
    /\ at[c] = "drop plan"
    /\ plan' = None
    /\ Goto(c, "drop shadow")
    /\ UNCHANGED <<ws, intent, lineage, changes, shadow, verdict, lock, slots, kind, seen>>

\* Fault: the result of the last shadow-run stays.
DropNothing(c) ==
    /\ at[c] \in {"drop shadow", "clear shadow"}
    /\ Goto(c, IF at[c] = "drop shadow" THEN "drop verdict" ELSE "clear verdict")
    /\ UNCHANGED <<ws, files, lock, slots, kind, seen>>

DropShadow(c) ==
    /\ at[c] \in {"drop shadow", "clear shadow"}
    /\ shadow' = None
    /\ Goto(c, IF at[c] = "drop shadow" THEN "drop verdict" ELSE "clear verdict")
    /\ UNCHANGED <<ws, intent, lineage, changes, plan, verdict, lock, slots, kind, seen>>

DropVerdict(c) ==
    /\ at[c] \in {"drop verdict", "clear verdict"}
    /\ verdict' = None
    /\ \/ /\ at[c] = "drop verdict"
          /\ Goto(c, IF kind[c] = "analyze" THEN "lineage" ELSE "declare")
          /\ UNCHANGED <<lock, seen>>
       \/ at[c] = "clear verdict" /\ Over(c)
    /\ UNCHANGED <<ws, intent, lineage, changes, plan, shadow, slots, kind>>

-----------------------------------------------------------------------------
(* analyze, and the replan of semantic-mode.                               *)

\* Fault: the lineage of an earlier analyze is taken for the current one.
LineageKept(c) ==
    /\ at[c] = "lineage"
    /\ lineage' = IF lineage = None THEN ws ELSE lineage
    /\ Hold(c, "lineage", lineage')
    /\ Goto(c, "changes")
    /\ UNCHANGED <<ws, intent, changes, plan, shadow, verdict, lock, slots, kind>>

\* build_lineage_artifacts.
Lineage(c) ==
    /\ at[c] = "lineage"
    /\ lineage' = ws
    /\ Hold(c, "lineage", ws)
    /\ Goto(c, "changes")
    /\ UNCHANGED <<ws, intent, changes, plan, shadow, verdict, lock, slots, kind>>

\* changed_files_since_head, build_change_analysis.
Analyse(c) ==
    /\ at[c] = "changes"
    /\ changes' = [lineage |-> seen[c].lineage, files |-> ws, renames |-> None]
    /\ Hold(c, "changes", changes')
    /\ Goto(c, "build")
    /\ UNCHANGED <<ws, intent, lineage, plan, shadow, verdict, lock, slots, kind>>

\* Fault: an inherited declaration replaces the run's own.
MergeOver(own, inherited) ==
    [t \in Table |-> IF inherited[t] # None THEN inherited[t] ELSE own[t]]

\* _merge_inherited_declarations: only for tables nobody has declared.
Merge(own, inherited) ==
    [t \in Table |-> IF own[t] = None THEN inherited[t] ELSE own[t]]

\* _build_plan_for_run, from the workspace as it is now.  The manifest that was
\* read at the beginning is written back if it has inherited anything.
Build(c) ==
    /\ at[c] = "build"
    /\ LET merged == Merge(seen[c].intent, History[ws])
       IN  /\ seen' = [seen EXCEPT ![c] = [@ EXCEPT !.intent = merged, !.made = ws]]
           /\ intent' = IF merged = seen[c].intent THEN intent ELSE merged
    /\ Goto(c, IF kind[c] = "analyze" THEN "snapshot" ELSE "recheck")
    /\ UNCHANGED <<ws, lineage, changes, plan, shadow, verdict, lock, slots, kind>>

\* _with_rename_mapping, and _analysis_snapshot, which hashes the workspace.
Snapshot(c) ==
    /\ at[c] = "snapshot"
    /\ LET final == [seen[c].changes EXCEPT !.renames = seen[c].made]
       IN  /\ changes' = final
           /\ Hold(c, "plan", [ws |-> ws, lineage |-> seen[c].lineage, changes |-> final,
                               made |-> seen[c].made, intent |-> seen[c].intent])
    /\ Goto(c, "publish")
    /\ UNCHANGED <<ws, intent, lineage, plan, shadow, verdict, lock, slots, kind>>

\* The declaration goes into the manifest that was read at the beginning.
Declare(c) ==
    /\ at[c] = "declare"
    /\ intent' = [seen[c].intent EXCEPT ![seen[c].table] = seen[c].mode]
    /\ Hold(c, "intent", intent')
    /\ Goto(c, "replan")
    /\ UNCHANGED <<ws, lineage, changes, plan, shadow, verdict, lock, slots, kind>>

\* _replan: the analysis must be the one the old plan was made from.
Replan(c) ==
    /\ at[c] = "replan"
    /\ LET old == seen[c].plan
           same == old.ws = ws /\ old.lineage = lineage /\ old.changes = changes
       IN  \/ same /\ Goto(c, "build") /\ UNCHANGED <<lock, seen>>
           \/ ~same /\ Over(c)
    /\ UNCHANGED <<ws, files, slots, kind>>

\* ... and still be it after the plan is made.
Recheck(c) ==
    /\ at[c] = "recheck"
    /\ \/ /\ seen[c].plan.ws = ws
          /\ Hold(c, "plan", [seen[c].plan EXCEPT !.made = seen[c].made, !.intent = seen[c].intent])
          /\ Goto(c, "publish")
          /\ UNCHANGED lock
       \/ seen[c].plan.ws # ws /\ Over(c)
    /\ UNCHANGED <<ws, files, slots, kind>>

\* write_verification_plan.
Publish(c) ==
    /\ at[c] = "publish"
    /\ plan' = seen[c].plan
    /\ Goto(c, "clear shadow")
    /\ UNCHANGED <<ws, intent, lineage, changes, shadow, verdict, lock, slots, kind, seen>>

-----------------------------------------------------------------------------
(* run_shadow_plan.                                                        *)

\* run_execution_lock, for compare too.
Lock(c) ==
    /\ at[c] = "lock"
    /\ \/ /\ lock = None
          /\ lock' = c
          /\ Goto(c, IF kind[c] = "compare" THEN "own" ELSE "announce")
          /\ UNCHANGED seen
       \/ lock # None /\ Over(c)
    /\ UNCHANGED <<ws, files, slots, kind>>

WriteResult(c, status) == shadow' = [by |-> c, status |-> status, plan |-> seen[c].plan]

\* The running result.
Announce(c) ==
    /\ at[c] = "announce"
    /\ WriteResult(c, "running")
    /\ \/ kind[c] = "dry-run" /\ Goto(c, "finish") /\ \E s \in {"dry_run", "failed"} : Hold(c, "status", s)
       \/ kind[c] = "shadow-run" /\ Goto(c, "claim") /\ UNCHANGED seen
    /\ UNCHANGED <<ws, intent, lineage, changes, plan, verdict, lock, slots, kind>>

\* claim_qa_slot, after which the running result is written again, or a blocker
\* or an exhausted pool.
Claim(c) ==
    /\ at[c] = "claim"
    /\ \/ /\ slots' = [slots EXCEPT ![c] = [plan |-> seen[c].plan, read |-> {}]]
          /\ WriteResult(c, "running")
          /\ Goto(c, "compile")
          /\ UNCHANGED seen
       \/ /\ Hold(c, "status", "failed")
          /\ Goto(c, "finish")
          /\ UNCHANGED <<shadow, slots>>
    /\ UNCHANGED <<ws, intent, lineage, changes, plan, verdict, lock, kind>>

\* compile_shadow_manifest and the jobs read the tasks of the workspace.
ReadTasks(c) == slots' = [slots EXCEPT ![c].read = @ \cup {ws}]

Compile(c) ==
    /\ at[c] = "compile"
    /\ ReadTasks(c)
    /\ \/ Goto(c, "execute") /\ UNCHANGED seen
       \/ Goto(c, "finish") /\ Hold(c, "status", "failed")
    /\ UNCHANGED <<ws, files, lock, kind>>

Execute(c) ==
    /\ at[c] = "execute"
    /\ ReadTasks(c)
    /\ \E s \in {"completed", "failed"} : Hold(c, "status", s)
    /\ Goto(c, "finish")
    /\ UNCHANGED <<ws, files, lock, kind>>

Finish(c) ==
    /\ at[c] = "finish"
    /\ WriteResult(c, seen[c].status)
    /\ Over(c)
    /\ UNCHANGED <<ws, intent, lineage, changes, plan, verdict, slots, kind>>

-----------------------------------------------------------------------------
(* compare_shadow_results.                                                 *)

\* require_matching_shadow_result.
Matches(p) == shadow # None /\ shadow.status = "completed" /\ shadow.plan = p

Match(c) ==
    /\ at[c] = "match"
    /\ \/ Matches(seen[c].plan) /\ Hold(c, "result", shadow) /\ Goto(c, "lock") /\ UNCHANGED lock
       \/ ~Matches(seen[c].plan) /\ Over(c)
    /\ UNCHANGED <<ws, files, slots, kind>>

\* require_slot_ownership: the marker is of that execution and that plan.
Owned(result) == slots[result.by] # None /\ slots[result.by].plan = result.plan

Own(c) ==
    /\ at[c] = "own"
    /\ \/ Owned(seen[c].result) /\ Goto(c, "judge") /\ UNCHANGED <<lock, seen>>
       \/ ~Owned(seen[c].result) /\ Over(c)
    /\ UNCHANGED <<ws, files, slots, kind>>

\* run_checks; the lock goes back when it is done.
Judge(c) ==
    /\ at[c] = "judge"
    /\ Hold(c, "data", slots[seen[c].result.by])
    /\ Goto(c, "report")
    /\ lock' = None
    /\ UNCHANGED <<ws, files, slots, kind>>

Report(c) ==
    /\ at[c] = "report"
    /\ verdict' = [of |-> seen[c].result.by, plan |-> seen[c].result.plan, data |-> seen[c].data]
    /\ Over(c)
    /\ UNCHANGED <<ws, intent, lineage, changes, plan, shadow, slots, kind>>

-----------------------------------------------------------------------------
Freshness(c) == Load(c) \/ Check(c)
Invalidation(c) == DropPlan(c) \/ DropShadow(c) \/ DropVerdict(c)
Plans(c) ==
    Lineage(c) \/ Analyse(c) \/ Build(c) \/ Snapshot(c) \/ Declare(c) \/ Replan(c) \/ Recheck(c)
    \/ Publish(c)
Runs(c) == Lock(c) \/ Announce(c) \/ Claim(c) \/ Compile(c) \/ Execute(c) \/ Finish(c)
Compares(c) == Match(c) \/ Own(c) \/ Judge(c) \/ Report(c)

Next ==
    \/ Edit
    \/ \E c \in Cmd :
          \/ \E k \in Kind : Begin(c, k)
          \/ Freshness(c) \/ Invalidation(c) \/ Plans(c) \/ Runs(c) \/ Compares(c)
          \/ Die(c) \/ Release(c)

Spec == Init /\ [][Next]_vars

-----------------------------------------------------------------------------
(* Properties.                                                             *)

\* What the freshness check accepts is the plan of the workspace as it is:
\* lineage, changes, renames and jobs were all computed from that version.
FreshPlanIsCurrent ==
    plan # None /\ Fresh(plan) =>
        /\ plan.lineage = ws /\ plan.made = ws
        /\ plan.changes = [lineage |-> ws, files |-> ws, renames |-> ws]

\* A verdict is about data that was computed for its plan and by the tasks its
\* plan was made for.
VerdictSound ==
    verdict # None =>
        verdict.data = [plan |-> verdict.plan, read |-> {verdict.plan.ws}]

\* Results beside a plan are results of that plan: whatever dies between the
\* files, an old result never survives the publication of another plan.
ResultsOfPlan ==
    plan # None =>
        /\ shadow # None => shadow.plan = plan
        /\ verdict # None => verdict.plan = plan

\* While a shadow-run executes, the result file is its own: another shadow-run
\* neither announces nor finishes in between.
ResultOfHolder ==
    \A c \in Cmd :
        at[c] \in {"claim", "compile", "execute", "finish"} =>
            shadow # None /\ shadow.by = c /\ shadow.status = "running"

\* A declaration stays until the user declares the same table again; neither
\* another table's declaration nor an inherited one replaces it.
DeclarationsKept ==
    [][\A t \in Table : intent[t] # None /\ intent'[t] # intent[t] =>
          \E c \in Cmd : at[c] = "declare" /\ at'[c] = "replan" /\ seen[c].table = t]_vars
=============================================================================
