-------------------------------- MODULE QaPool --------------------------------
(***************************************************************************)
(* The pool of QA databases (refactor/qa_pool.py) with the three programs  *)
(* that touch it: shadow-run executions that claim a slot and write it     *)
(* (shadow_run.py), Compare that reads it back (compare.py), and cleanup   *)
(* commands that release it (run.py).  They share nothing but the Doris    *)
(* server: every action below is one statement sent to it, or one local    *)
(* decision between two statements.                                        *)
(*                                                                         *)
(* A slot holds tables and one marker table.  A marker is absent, created  *)
(* and still empty (Blank), left by an old release of the tool (Legacy),   *)
(* or holds the ownership row of one execution.                            *)
(***************************************************************************)
EXTENDS Naturals, Sequences, FiniteSets

CONSTANTS
    Exec,       \* execution ids, one per shadow-run
    Cleaner,    \* passes of a cleanup command over one slot
    Table,      \* the tables a plan creates, loads and compares
    Pool,       \* qa_database_pool: the configured slots, in order
    NoMarker, Blank, Legacy,    \* marker states without an owner
    Leftovers,  \* the slots that may start with tables or an old marker in them
    Solo,       \* no two cleanups of a slot overlap, nor a cleanup and a comparison
    Forced,     \* operators name --database for legacy and invalid slots
    Patient     \* operators wait for the statements a failed execution left

Slot == {Pool[i] : i \in 1..Len(Pool)}
Marker == {NoMarker, Blank, Legacy} \cup Exec

ASSUME PoolAssumption ==
    /\ Pool \in Seq(Slot)
    /\ Pool # <<>>
    /\ \A i, j \in 1..Len(Pool) : Pool[i] = Pool[j] => i = j
    /\ Table # {}

ASSUME ValueAssumption ==
    /\ NoMarker # Blank /\ NoMarker # Legacy /\ Blank # Legacy
    /\ {NoMarker, Blank, Legacy} \cap Exec = {}

ASSUME PolicyAssumption == {Solo, Forced, Patient} \subseteq BOOLEAN

VARIABLES
    marker,     \* the marker of each slot
    tables,     \* the tables of each slot
    rows,       \* per slot and table, the executions that wrote its rows
    pc,         \* where each execution is
    queue,      \* the slots an execution may still try; its head is its slot
    todo,       \* the tables left in the execution's current phase
    late,       \* statements of an ended execution that still run
    read,       \* the writers of the rows its comparison has read
    clean       \* where each cleanup pass is, and what it remembers

execVars == <<pc, queue, todo, late, read>>
slotVars == <<marker, tables, rows>>
vars == <<slotVars, execVars, clean>>

Claiming == {"inspect", "create", "insert", "readback"}
Using == {"recheck", "prepare", "load", "compare"}
Resting == {"completed", "compared", "failed", "killed"}
Stages == {"idle", "list", "read", "drop"}

Inspection == [mark : Marker, objects : SUBSET Table]

TypeOK ==
    /\ marker \in [Slot -> Marker]
    /\ tables \in [Slot -> SUBSET Table]
    /\ rows \in [Slot -> [Table -> SUBSET Exec]]
    /\ pc \in [Exec -> {"idle"} \cup Claiming \cup Using \cup Resting]
    /\ queue \in [Exec -> Seq(Slot)]
    /\ todo \in [Exec -> SUBSET Table]
    /\ late \in [Exec -> BOOLEAN]
    /\ read \in [Exec -> SUBSET Exec]
    /\ clean \in [Cleaner -> [stage : Stages, slot : Slot,
                              seen : Inspection, current : Inspection]]

-----------------------------------------------------------------------------
(* What a query sees.                                                      *)

\* inspect_qa_slot: everything but the ownership row is derived from these two.
Inspect(d) == [mark |-> marker[d], objects |-> tables[d]]

Claimed(i) == i.mark \in Exec
FreeSlot(i) == i.mark = NoMarker /\ i.objects = {}

\* The slot an execution is trying, or has claimed.
At(e) == Head(queue[e])
HasSlot(e) == queue[e] # <<>>

\* require_slot_ownership: the marker names this execution and nobody else.
Owns(e) == HasSlot(e) /\ marker[At(e)] = e

\* The execution has been granted its slot and can still touch it.
Active(e) == pc[e] \in Using \/ late[e]

Release(c) == clean[c].stage # "idle"
Dropping(c) == clean[c].stage \in {"read", "drop"}

-----------------------------------------------------------------------------
(* Initial states: an idle system over a pool some slots of which hold     *)
(* what an administrator or an older release left there.                   *)

EmptyInspection == [mark |-> NoMarker, objects |-> {}]
Idle == [stage |-> "idle", slot |-> Pool[1],
         seen |-> EmptyInspection, current |-> EmptyInspection]

Init ==
    /\ marker \in [Slot -> {NoMarker, Legacy}]
    /\ tables \in [Slot -> {{}, Table}]
    /\ \A d \in Slot \ Leftovers : marker[d] = NoMarker /\ tables[d] = {}
    /\ rows = [d \in Slot |-> [t \in Table |-> {}]]
    /\ pc = [e \in Exec |-> "idle"]
    /\ queue = [e \in Exec |-> <<>>]
    /\ todo = [e \in Exec |-> {}]
    /\ late = [e \in Exec |-> FALSE]
    /\ read = [e \in Exec |-> {}]
    /\ clean = [c \in Cleaner |-> Idle]

-----------------------------------------------------------------------------
(* claim_qa_slot and _try_claim_slot.                                      *)

\* _rotated_pool: the pool from a start that is a hash of the execution id.
Rotated(s) == SubSeq(Pool, s, Len(Pool)) \o SubSeq(Pool, 1, s - 1)

BeginClaim(e) ==
    /\ pc[e] = "idle"
    /\ \E s \in 1..Len(Pool) : queue' = [queue EXCEPT ![e] = Rotated(s)]
    /\ pc' = [pc EXCEPT ![e] = "inspect"]
    /\ UNCHANGED <<slotVars, todo, late, read, clean>>

\* Fault: the claim waits for the slot it has found taken.
WaitForSlot(e) ==
    /\ pc' = [pc EXCEPT ![e] = "inspect"]
    /\ UNCHANGED queue

\* On to the next slot; after the last one QaPoolExhaustedError is raised.
TryNext(e) ==
    /\ queue' = [queue EXCEPT ![e] = Tail(@)]
    /\ pc' = [pc EXCEPT ![e] = IF Len(queue[e]) = 1 THEN "failed" ELSE "inspect"]

InspectSlot(e) ==
    /\ pc[e] = "inspect"
    /\ \/ /\ FreeSlot(Inspect(At(e)))
          /\ pc' = [pc EXCEPT ![e] = "create"]
          /\ UNCHANGED queue
       \/ /\ ~FreeSlot(Inspect(At(e)))
          /\ TryNext(e)
    /\ UNCHANGED <<slotVars, todo, late, read, clean>>

\* Fault: CREATE TABLE IF NOT EXISTS.
CreateMarkerIfMissing(e) ==
    /\ pc[e] = "create"
    /\ marker' = [marker EXCEPT ![At(e)] = IF @ = NoMarker THEN Blank ELSE @]
    /\ pc' = [pc EXCEPT ![e] = "insert"]
    /\ UNCHANGED <<tables, rows, queue, todo, late, read, clean>>

\* CREATE TABLE without IF NOT EXISTS: the server lets exactly one succeed.
\* Its reply may be lost, and then the claim fails and leaves a blank marker.
CreateMarker(e) ==
    /\ pc[e] = "create"
    /\ \/ /\ marker[At(e)] = NoMarker
          /\ marker' = [marker EXCEPT ![At(e)] = Blank]
          /\ \E after \in {"insert", "failed"} : pc' = [pc EXCEPT ![e] = after]
          /\ UNCHANGED queue
       \/ /\ marker[At(e)] # NoMarker
          /\ TryNext(e)
          /\ UNCHANGED marker
    /\ UNCHANGED <<tables, rows, todo, late, read, clean>>

\* Fault: the row is written with the database in the place of the execution.
\* The row has a unique key: a second insert replaces the first.  Again the
\* reply may be lost, and the claim fails although the row is there.
InsertMarker(e) ==
    /\ pc[e] = "insert"
    /\ marker[At(e)] \notin {NoMarker, Legacy}
    /\ marker' = [marker EXCEPT ![At(e)] = e]
    /\ \E after \in {"readback", "failed"} : pc' = [pc EXCEPT ![e] = after]
    /\ UNCHANGED <<tables, rows, queue, todo, late, read, clean>>

\* The claim's own readback, and the second check execute_shadow_plan makes
\* before its first write.  A mismatch fails the execution.
CheckOwnership(e, here, next) ==
    /\ pc[e] = here
    /\ pc' = [pc EXCEPT ![e] = IF Owns(e) THEN next ELSE "failed"]
    /\ todo' = [todo EXCEPT ![e] = Table]
    /\ UNCHANGED <<slotVars, queue, late, read, clean>>

ReadBack(e) == CheckOwnership(e, "readback", "recheck")
Recheck(e) == CheckOwnership(e, "recheck", "prepare")

-----------------------------------------------------------------------------
(* execute_shadow_plan: create the baseline tables, then load them.        *)

\* One table of the current phase is done; the last one ends the phase.
Advance(e, t, next) ==
    LET left == todo[e] \ {t}
    IN  /\ todo' = [todo EXCEPT ![e] = IF left = {} THEN Table ELSE left]
        /\ pc' = [pc EXCEPT ![e] = IF left = {} THEN next ELSE @]

CreateTable(e, t) ==
    /\ pc[e] = "prepare"
    /\ t \in todo[e]
    /\ tables' = [tables EXCEPT ![At(e)] = @ \cup {t}]
    /\ Advance(e, t, "load")
    /\ UNCHANGED <<marker, rows, queue, late, read, clean>>

\* Prefill and jobs: INSERT into a table that exists.
LoadTable(e, t) ==
    /\ pc[e] = "load"
    /\ t \in todo[e]
    /\ t \in tables[At(e)]
    /\ rows' = [rows EXCEPT ![At(e)][t] = @ \cup {e}]
    /\ Advance(e, t, "completed")
    /\ UNCHANGED <<marker, tables, queue, late, read, clean>>

\* Any statement may fail, and the process may be killed.  Neither touches the
\* slot.  With parallel > 1 a failed job does not wait for the other batches of
\* its thread pool (shutdown_executor), and they go on writing.
StopExec(e) ==
    /\ pc[e] \in Claiming \cup (Using \ {"compare"})
    /\ \E end \in {"failed", "killed"}, l \in BOOLEAN :
          /\ l => pc[e] = "load" /\ end = "failed"
          /\ pc' = [pc EXCEPT ![e] = end]
          /\ late' = [late EXCEPT ![e] = l]
    /\ UNCHANGED <<slotVars, queue, todo, read, clean>>

StragglerWrites(e, t) ==
    /\ late[e]
    /\ t \in tables[At(e)]
    /\ rows' = [rows EXCEPT ![At(e)][t] = @ \cup {e}]
    /\ UNCHANGED <<marker, tables, execVars, clean>>

StragglerEnds(e) ==
    /\ late[e]
    /\ late' = [late EXCEPT ![e] = FALSE]
    /\ UNCHANGED <<slotVars, pc, queue, todo, read, clean>>

-----------------------------------------------------------------------------
(* compare_shadow_results: one ownership check, then one query per table.  *)

\* Fault: the ownership check is left out.
BeginCompareUnowned(e) ==
    /\ pc[e] = "completed"
    /\ pc' = [pc EXCEPT ![e] = "compare"]
    /\ todo' = [todo EXCEPT ![e] = Table]
    /\ read' = [read EXCEPT ![e] = {}]
    /\ UNCHANGED <<slotVars, queue, late, clean>>

BeginCompare(e) ==
    /\ pc[e] = "completed"
    /\ Owns(e)
    /\ Solo => \A c \in Cleaner : Release(c) => clean[c].slot # At(e)
    /\ pc' = [pc EXCEPT ![e] = "compare"]
    /\ todo' = [todo EXCEPT ![e] = Table]
    /\ read' = [read EXCEPT ![e] = {}]
    /\ UNCHANGED <<slotVars, queue, late, clean>>

CompareTable(e, t) ==
    /\ pc[e] = "compare"
    /\ t \in todo[e]
    /\ \/ /\ t \in tables[At(e)]
          /\ read' = [read EXCEPT ![e] = @ \cup rows[At(e)][t]]
          /\ Advance(e, t, "compared")
       \/ /\ pc' = [pc EXCEPT ![e] = "completed"]    \* a query failed: no verdict
          /\ UNCHANGED <<todo, read>>
    /\ UNCHANGED <<slotVars, queue, late, clean>>

-----------------------------------------------------------------------------
(* cleanup delete: survey, select, inspect again, drop, marker last.       *)

\* select_cleanup_slots: claimed slots by run, execution or age, others only by
\* name.  The operator leaves slots alone whose execution has not written its
\* result yet or that are on their way to be claimed, if Solo also those that are
\* being compared, and if Patient those that statements of a failed execution
\* still write.
Selectable(i) ==
    \/ Claimed(i)
    \/ ~FreeSlot(i) /\ Forced

InUse(d) ==
    \/ marker[d] \in Exec /\ pc[marker[d]] \notin Resting \cup {"compare"}
    \/ Solo /\ \E e \in Exec : pc[e] = "compare" /\ At(e) = d
    \/ \E e \in Exec : pc[e] \in Claiming /\ At(e) = d
    \/ Patient /\ \E e \in Exec : late[e] /\ At(e) = d

\* If Solo, the operators who name an ownerless slot let no other cleanup of it
\* overlap: its inspection does not show whether it is still the same slot.
Alone(d) ==
    \A other \in Cleaner : Release(other) /\ clean[other].slot = d =>
        Claimed(clean[other].seen) /\ Claimed(Inspect(d))

Survey(c, d) ==
    /\ ~Release(c)
    /\ Solo => Alone(d)
    /\ Selectable(Inspect(d))
    /\ ~InUse(d)
    /\ clean' = [clean EXCEPT ![c] =
                   [stage |-> "list", slot |-> d,
                    seen |-> Inspect(d), current |-> EmptyInspection]]
    /\ UNCHANGED <<slotVars, execVars>>

\* Fault: the second inspection is not compared with the first.
UnchangedAssumed(seen, current) == TRUE

\* "ownership changed before cleanup" / "changed before cleanup".
Unchanged(seen, current) ==
    IF Claimed(seen) THEN current.mark = seen.mark ELSE current = seen

\* A pass goes on, at a stage and with its own inspection, or it ends.
GoesOn(c, current, stage) == [clean EXCEPT ![c].current = current, ![c].stage = stage]
Ends(c) == [clean EXCEPT ![c] = Idle]

\* SHOW FULL TABLES: the objects to drop.  Without a marker there is no row to
\* read and the inspection ends here.
ListSlot(c) ==
    LET d == clean[c].slot
        current == Inspect(d)
    IN  /\ clean[c].stage = "list"
        /\ Solo => \A other \in Cleaner : Dropping(other) => clean[other].slot # d
        /\ clean' = IF marker[d] # NoMarker THEN GoesOn(c, current, "read")
                    ELSE IF Unchanged(clean[c].seen, current) THEN GoesOn(c, current, "drop")
                    ELSE Ends(c)
        /\ UNCHANGED <<slotVars, execVars>>

\* The marker's row, and the comparison with what the survey saw.  A marker
\* dropped since the listing makes the query fail.
ReadMarker(c) ==
    LET d == clean[c].slot
        current == [clean[c].current EXCEPT !.mark = marker[d]]
    IN  /\ clean[c].stage = "read"
        /\ clean' = IF marker[d] # NoMarker /\ Unchanged(clean[c].seen, current)
                    THEN GoesOn(c, current, "drop") ELSE Ends(c)
        /\ UNCHANGED <<slotVars, execVars>>

\* DROP fails on an object that is gone, and that ends the pass.
DropTable(c, t) ==
    LET d == clean[c].slot
    IN  /\ clean[c].stage = "drop"
        /\ t \in clean[c].current.objects
        /\ tables' = [tables EXCEPT ![d] = @ \ {t}]
        /\ rows' = [rows EXCEPT ![d][t] = {}]
        /\ clean' = IF t \in tables[d]
                    THEN GoesOn(c, [clean[c].current EXCEPT !.objects = @ \ {t}], "drop")
                    ELSE Ends(c)
        /\ UNCHANGED <<marker, execVars>>

\* Fault: the marker is dropped with the other objects, in any order.
DropMarkerAnytime(c) ==
    /\ clean[c].stage = "drop"
    /\ clean[c].current.mark # NoMarker
    /\ marker' = [marker EXCEPT ![clean[c].slot] = NoMarker]
    /\ clean' = [clean EXCEPT ![c].current.mark = NoMarker]
    /\ UNCHANGED <<tables, rows, execVars>>

DropMarker(c) ==
    LET d == clean[c].slot
    IN  /\ clean[c].stage = "drop"
        /\ clean[c].current.objects = {}
        /\ marker' = [marker EXCEPT ![d] =
             IF clean[c].current.mark = NoMarker THEN @ ELSE NoMarker]
        /\ clean' = Ends(c)
        /\ UNCHANGED <<tables, rows, execVars>>

\* A statement fails, or the command is killed.
AbortRelease(c) ==
    /\ Release(c)
    /\ clean' = Ends(c)
    /\ UNCHANGED <<slotVars, execVars>>

-----------------------------------------------------------------------------
ClaimStep(e) ==
    \/ InspectSlot(e) \/ CreateMarker(e) \/ InsertMarker(e) \/ ReadBack(e)

RunStep(e) ==
    \/ BeginClaim(e) \/ Recheck(e) \/ StopExec(e)
    \/ \E t \in Table : CreateTable(e, t) \/ LoadTable(e, t) \/ StragglerWrites(e, t)
    \/ StragglerEnds(e)

CompareStep(e) == BeginCompare(e) \/ \E t \in Table : CompareTable(e, t)

CleanStep(c) ==
    \/ \E d \in Slot : Survey(c, d)
    \/ ListSlot(c) \/ ReadMarker(c) \/ DropMarker(c) \/ AbortRelease(c)
    \/ \E t \in Table : DropTable(c, t)

Next ==
    \/ \E e \in Exec : ClaimStep(e) \/ RunStep(e) \/ CompareStep(e)
    \/ \E c \in Cleaner : CleanStep(c)

\* A claim that has begun goes on as long as its process lives: every step of
\* it is a call that returns or raises.
Spec == Init /\ [][Next]_vars /\ \A e \in Exec : WF_vars(ClaimStep(e))

-----------------------------------------------------------------------------
(* Properties.                                                             *)

\* Two executions never touch the same slot at once: what "exclusively used by
\* one execution" asks of markers, readbacks, cleanups and leftover batches.
SlotExclusive ==
    \A e, f \in Exec : Active(e) /\ Active(f) /\ At(e) = At(f) => e = f

\* A comparison that reaches a verdict has read the rows of its own execution
\* from every table and nothing else, whatever was cleaned or claimed meanwhile.
VerdictOnOwnRows == \A e \in Exec : pc[e] = "compared" => read[e] = {e}

\* The marker goes last: no step turns a slot into one that has tables and no
\* marker, so a release cut short anywhere leaves nothing that nobody owns.
Orphaned(d) == marker[d] = NoMarker /\ tables[d] # {}
NoNewOrphans == [][\A d \in Slot : Orphaned(d)' => Orphaned(d)]_vars

\* Evidence is kept: an ownership row is never overwritten, and goes only by a
\* release that meant this owner, when the owner writes no more and its tables are
\* gone.
OwnerKeptUntilReleased ==
    [][\A d \in Slot : marker[d] \in Exec /\ marker'[d] # marker[d] =>
         /\ marker'[d] = NoMarker
         /\ tables[d] = {}
         /\ pc[marker[d]] \in Resting \cup {"compare"} /\ ~late[marker[d]]
         /\ \E c \in Cleaner : clean[c].slot = d /\ clean[c].seen.mark = marker[d]]_vars

\* A cleanup that is about to drop objects of a claimed slot still has the owner
\* it was asked to release in front of it.
ReleasesOnlySeenOwner ==
    \A c \in Cleaner :
        clean[c].stage = "drop" /\ Claimed(clean[c].seen)
            => marker[clean[c].slot] = clean[c].seen.mark

\* Every claim ends: granted, exhausted, failed or killed.  Lost races send it
\* to the next slot, never round the pool again.
ClaimEnds == \A e \in Exec : pc[e] \in Claiming ~> pc[e] \notin Claiming

\* The pool implements the abstract lease.
Lease == INSTANCE SlotLease WITH
    NoExec <- NoMarker,
    lease <- [d \in Slot |-> IF marker[d] \in Exec THEN marker[d] ELSE NoMarker],
    working <- {<<e, At(e)>> : e \in {x \in Exec : Active(x)}}

ImplementsLease == Lease!Spec
=============================================================================
