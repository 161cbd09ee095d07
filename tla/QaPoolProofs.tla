----------------------------- MODULE QaPoolProofs -----------------------------
(***************************************************************************)
(* Proofs about QaPool for any number of executions, cleanup commands,     *)
(* slots and tables.                                                       *)
(***************************************************************************)
EXTENDS QaPool, TLAPS, SequenceTheorems

\* The policy under which the pool is exclusive: releases of one slot do not
\* overlap, nor a release and a comparison, and the statements that the execution
\* left behind have ended.  Slots without an owner may be released or not.
Disciplined == Solo /\ Patient

-----------------------------------------------------------------------------
(* Every rotation of the pool is a non-empty sequence of slots.            *)
LEMMA RotatedType ==
    ASSUME NEW s \in 1..Len(Pool)
    PROVE  Rotated(s) \in Seq(Slot) /\ Rotated(s) # <<>>
<1>1. Pool \in Seq(Slot) /\ Len(Pool) \in Nat
  BY PoolAssumption
<1>2. SubSeq(Pool, s, Len(Pool)) \in Seq(Slot)
  BY <1>1, SubSeqProperties
<1>3. SubSeq(Pool, 1, s - 1) \in Seq(Slot)
  BY <1>1, SubSeqProperties
<1>4. Len(SubSeq(Pool, s, Len(Pool))) > 0
  BY <1>1, SubSeqProperties
<1>5. Len(Rotated(s)) > 0 /\ Rotated(s) \in Seq(Slot)
  BY <1>2, <1>3, <1>4, ConcatProperties DEF Rotated
<1> QED
  BY <1>5

\* What TryNext does to a queue that is not empty.
LEMMA TailType ==
    ASSUME NEW q \in Seq(Slot), q # <<>>
    PROVE  /\ Tail(q) \in Seq(Slot)
           /\ Head(q) \in Slot
           /\ Len(q) # 1 => Tail(q) # <<>>
<1>1. /\ Head(q) \in Slot /\ Tail(q) \in Seq(Slot)
      /\ Len(Tail(q)) = Len(q) - 1
  BY HeadTailProperties
<1>2. Len(q) \in Nat \ {0} /\ Len(<<>>) = 0
  BY EmptySeq
<1>3. ASSUME Len(q) # 1, Tail(q) = <<>> PROVE FALSE
  <2>1. Len(Tail(q)) = 0
    BY <1>2, <1>3
  <2> QED
    BY <1>1, <1>2, <1>3, <2>1
<1> QED
  BY <1>1, <1>3

-----------------------------------------------------------------------------
(* Type correctness, with the fact that an execution on its way has a slot *)
(* to try.  It needs no policy.                                            *)
HaveSlot ==
    \A e \in Exec :
        /\ pc[e] \in Claiming \cup Using \cup {"completed", "compared"} => HasSlot(e)
        /\ late[e] => HasSlot(e) /\ pc[e] = "failed"

TypeInv == TypeOK /\ HaveSlot

LEMMA FirstSlot == Pool[1] \in Slot
BY PoolAssumption DEF Slot

LEMMA TypeInit == Init => TypeInv
<1> SUFFICES ASSUME Init PROVE TypeInv
  OBVIOUS
<1>1. Pool[1] \in Slot
  BY FirstSlot
<1>2. marker \in [Slot -> Marker]
  BY DEF Init, Marker
<1>3. tables \in [Slot -> SUBSET Table]
  BY DEF Init
<1>4. clean \in [Cleaner -> [stage : Stages, slot : Slot,
                             seen : Inspection, current : Inspection]]
  BY <1>1 DEF Init, Idle, Stages, Inspection, EmptyInspection, Marker
<1>5. queue \in [Exec -> Seq(Slot)]
  BY DEF Init
<1> QED
  BY <1>2, <1>3, <1>4, <1>5
  DEF Init, TypeInv, TypeOK, HaveSlot, HasSlot, Claiming, Using, Resting

\* An execution with a slot is at a slot of the pool.
LEMMA AtType ==
    ASSUME NEW e \in Exec, TypeOK, HasSlot(e)
    PROVE  At(e) \in Slot
BY TailType DEF TypeOK, HasSlot, At

LEMMA InspectType ==
    ASSUME NEW d \in Slot, TypeOK
    PROVE  Inspect(d) \in Inspection
BY DEF TypeOK, Inspect, Inspection

\* On to the next slot: the queue stays a queue, and stays non-empty unless the
\* claim is exhausted.
LEMMA TryNextType ==
    ASSUME TypeOK, NEW e \in Exec, HasSlot(e), TryNext(e)
    PROVE  /\ queue' \in [Exec -> Seq(Slot)]
           /\ \A x \in Exec : x # e => queue'[x] = queue[x] /\ pc'[x] = pc[x]
           /\ pc'[e] \in {"failed", "inspect"}
           /\ pc' \in [Exec -> {"idle"} \cup Claiming \cup Using \cup Resting]
           /\ pc'[e] = "inspect" => queue'[e] # <<>>
<1>1. queue[e] \in Seq(Slot) /\ queue[e] # <<>>
  BY DEF TypeOK, HasSlot
<1>2. Tail(queue[e]) \in Seq(Slot) /\ (Len(queue[e]) # 1 => Tail(queue[e]) # <<>>)
  BY <1>1, TailType
<1> QED
  BY <1>2 DEF TypeOK, TryNext, Claiming, Resting

LEMMA TypeClaim ==
    ASSUME TypeInv, NEW e \in Exec, ClaimStep(e)
    PROVE  TypeInv'
<1> USE DEF TypeInv
<1>1. CASE InspectSlot(e)
  <2>1. HasSlot(e)
    BY <1>1 DEF InspectSlot, HaveSlot, Claiming
  <2>2. CASE TryNext(e)
    <3>1. /\ queue' \in [Exec -> Seq(Slot)]
          /\ \A x \in Exec : x # e => queue'[x] = queue[x] /\ pc'[x] = pc[x]
          /\ pc' \in [Exec -> {"idle"} \cup Claiming \cup Using \cup Resting]
          /\ pc'[e] \in {"failed", "inspect"}
          /\ pc'[e] = "inspect" => queue'[e] # <<>>
      BY <2>1, <2>2, TryNextType
    <3> QED
      BY <1>1, <2>1, <3>1
      DEF InspectSlot, TypeOK, HaveSlot, HasSlot, slotVars, Claiming, Using
  <2>3. CASE UNCHANGED queue /\ pc' = [pc EXCEPT ![e] = "create"]
    BY <1>1, <2>1, <2>3
    DEF InspectSlot, TypeOK, HaveSlot, HasSlot, slotVars, Claiming
  <2> QED
    BY <1>1, <2>2, <2>3 DEF InspectSlot
<1>2. CASE CreateMarker(e)
  <2>1. HasSlot(e)
    BY <1>2 DEF CreateMarker, HaveSlot, Claiming
  <2>2. CASE TryNext(e) /\ UNCHANGED marker
    <3>1. /\ queue' \in [Exec -> Seq(Slot)]
          /\ \A x \in Exec : x # e => queue'[x] = queue[x] /\ pc'[x] = pc[x]
          /\ pc' \in [Exec -> {"idle"} \cup Claiming \cup Using \cup Resting]
          /\ pc'[e] \in {"failed", "inspect"}
          /\ pc'[e] = "inspect" => queue'[e] # <<>>
      BY <2>1, <2>2, TryNextType
    <3> QED
      BY <1>2, <2>1, <2>2, <3>1
      DEF CreateMarker, TypeOK, HaveSlot, HasSlot, Claiming, Using
  <2>3. CASE /\ marker' = [marker EXCEPT ![At(e)] = Blank]
             /\ \E after \in {"insert", "failed"} : pc' = [pc EXCEPT ![e] = after]
             /\ UNCHANGED queue
    BY <1>2, <2>1, <2>3
    DEF CreateMarker, TypeOK, HaveSlot, HasSlot, Claiming, Resting, Marker
  <2> QED
    BY <1>2, <2>2, <2>3 DEF CreateMarker
<1>3. CASE InsertMarker(e)
  BY <1>3 DEF InsertMarker, TypeOK, HaveSlot, HasSlot, Claiming, Resting, Marker
<1>4. CASE ReadBack(e)
  BY <1>4 DEF ReadBack, CheckOwnership, TypeOK, HaveSlot, HasSlot, Owns, slotVars,
              Claiming, Using, Resting
<1> QED
  BY <1>1, <1>2, <1>3, <1>4 DEF ClaimStep

LEMMA TypeRun ==
    ASSUME TypeInv, NEW e \in Exec, RunStep(e)
    PROVE  TypeInv'
<1> USE DEF TypeInv
<1>1. CASE BeginClaim(e)
  <2>1. PICK s \in 1..Len(Pool) : queue' = [queue EXCEPT ![e] = Rotated(s)]
    BY <1>1 DEF BeginClaim
  <2> QED
    BY <1>1, <2>1, RotatedType
    DEF BeginClaim, TypeOK, HaveSlot, HasSlot, slotVars, Claiming
<1>2. CASE Recheck(e)
  BY <1>2 DEF Recheck, CheckOwnership, TypeOK, HaveSlot, HasSlot, Owns, slotVars,
              Claiming, Using, Resting
<1>3. CASE StopExec(e)
  <2>1. PICK end \in {"failed", "killed"}, l \in BOOLEAN :
          /\ l => pc[e] = "load" /\ end = "failed"
          /\ pc' = [pc EXCEPT ![e] = end]
          /\ late' = [late EXCEPT ![e] = l]
    BY <1>3 DEF StopExec
  <2>3. late' \in [Exec -> BOOLEAN] /\ \A x \in Exec : late'[x] => late[x] \/ (x = e /\ l)
    BY <2>1 DEF TypeOK
  <2>4. \A x \in Exec : pc'[x] = IF x = e THEN end ELSE pc[x]
    BY <2>1 DEF TypeOK
  <2>5. TypeOK'
    BY <1>3, <2>1, <2>3 DEF StopExec, TypeOK, slotVars, Resting
  <2>6. \A x \in Exec : HasSlot(x)' = HasSlot(x)
    BY <1>3 DEF StopExec, HasSlot
  <2>7. HasSlot(e) /\ ~late[e]
    BY <1>3 DEF StopExec, HaveSlot, Claiming, Using
  <2>8. HaveSlot'
    BY <2>1, <2>3, <2>4, <2>6, <2>7 DEF HaveSlot, Claiming, Using
  <2> QED
    BY <2>5, <2>8
<1>4. ASSUME NEW t \in Table, CreateTable(e, t)
      PROVE  TypeInv'
  <2>1. HasSlot(e) /\ At(e) \in Slot
    BY <1>4, AtType DEF CreateTable, HaveSlot, Using
  <2> QED
    BY <1>4, <2>1
    DEF CreateTable, Advance, TypeOK, HaveSlot, HasSlot, Claiming, Using, Resting
<1>5. ASSUME NEW t \in Table, LoadTable(e, t)
      PROVE  TypeInv'
  <2>1. HasSlot(e) /\ At(e) \in Slot
    BY <1>5, AtType DEF LoadTable, HaveSlot, Using
  <2> QED
    BY <1>5, <2>1
    DEF LoadTable, Advance, TypeOK, HaveSlot, HasSlot, Claiming, Using, Resting
<1>6. ASSUME NEW t \in Table, StragglerWrites(e, t)
      PROVE  TypeInv'
  <2>1. HasSlot(e) /\ At(e) \in Slot
    BY <1>6, AtType DEF StragglerWrites, HaveSlot
  <2> QED
    BY <1>6, <2>1 DEF StragglerWrites, TypeOK, HaveSlot, HasSlot, execVars
<1>7. CASE StragglerEnds(e)
  BY <1>7 DEF StragglerEnds, TypeOK, HaveSlot, HasSlot, slotVars
<1> QED
  BY <1>1, <1>2, <1>3, <1>4, <1>5, <1>6, <1>7 DEF RunStep

LEMMA TypeCompare ==
    ASSUME TypeInv, NEW e \in Exec, CompareStep(e)
    PROVE  TypeInv'
<1> USE DEF TypeInv
<1>1. CASE BeginCompare(e)
  BY <1>1 DEF BeginCompare, TypeOK, HaveSlot, HasSlot, Owns, slotVars, Using
<1>2. ASSUME NEW t \in Table, CompareTable(e, t)
      PROVE  TypeInv'
  <2>1. HasSlot(e) /\ At(e) \in Slot
    BY <1>2, AtType DEF CompareTable, HaveSlot, Using
  <2>2. CASE read' = [read EXCEPT ![e] = @ \cup rows[At(e)][t]] /\ Advance(e, t, "compared")
    BY <1>2, <2>1, <2>2
    DEF CompareTable, Advance, TypeOK, HaveSlot, HasSlot, slotVars, Claiming, Using, Resting
  <2>3. CASE pc' = [pc EXCEPT ![e] = "completed"] /\ UNCHANGED <<todo, read>>
    BY <1>2, <2>1, <2>3
    DEF CompareTable, TypeOK, HaveSlot, HasSlot, slotVars, Claiming, Using, Resting
  <2> QED
    BY <2>2, <2>3, <1>2 DEF CompareTable
<1> QED
  BY <1>1, <1>2 DEF CompareStep

\* A cleanup step that moves one pass on, to a known stage and inspection.
CleanRecord == [stage : Stages, slot : Slot, seen : Inspection, current : Inspection]

LEMMA CleanType ==
    ASSUME TypeInv, NEW c \in Cleaner, UNCHANGED execVars,
           NEW i \in Inspection, NEW s \in Stages,
           clean' = GoesOn(c, i, s) \/ clean' = Ends(c),
           marker' \in [Slot -> Marker],
           tables' \in [Slot -> SUBSET Table],
           rows' \in [Slot -> [Table -> SUBSET Exec]]
    PROVE  TypeInv'
<1>1. clean[c] \in CleanRecord /\ Idle \in CleanRecord
  BY FirstSlot DEF TypeInv, TypeOK, CleanRecord, Idle, Stages, EmptyInspection, Inspection, Marker
<1>2. [clean[c] EXCEPT !.current = i, !.stage = s] \in CleanRecord
  BY <1>1 DEF CleanRecord
<1>3. clean' \in [Cleaner -> CleanRecord]
  BY <1>1, <1>2 DEF GoesOn, Ends, TypeInv, TypeOK, CleanRecord
<1> QED
  BY <1>3 DEF TypeInv, TypeOK, CleanRecord, HaveSlot, HasSlot, execVars

LEMMA TypeClean ==
    ASSUME TypeInv, NEW c \in Cleaner, CleanStep(c)
    PROVE  TypeInv'
<1> USE DEF TypeInv
<1>1. ASSUME NEW d \in Slot, Survey(c, d)
      PROVE  TypeInv'
  <2>1. Inspect(d) \in Inspection /\ EmptyInspection \in Inspection
    BY InspectType DEF EmptyInspection, Inspection, Marker
  <2> QED
    BY <1>1, <2>1
    DEF Survey, TypeOK, HaveSlot, HasSlot, slotVars, execVars, Stages
<1>2. CASE ListSlot(c)
  <2>1. Inspect(clean[c].slot) \in Inspection
    BY InspectType DEF TypeOK
  <2>2. PICK s \in Stages : \/ clean' = GoesOn(c, Inspect(clean[c].slot), s)
                            \/ clean' = Ends(c)
    BY <1>2 DEF ListSlot, Stages
  <2>3. UNCHANGED execVars /\ UNCHANGED slotVars
    BY <1>2 DEF ListSlot
  <2> QED
    BY <2>1, <2>2, <2>3, CleanType DEF slotVars, TypeOK
<1>3. CASE ReadMarker(c)
  <2> DEFINE current == [clean[c].current EXCEPT !.mark = marker[clean[c].slot]]
  <2>1. current \in Inspection
    BY DEF TypeOK, Inspection
  <2>2. PICK s \in Stages : clean' = GoesOn(c, current, s) \/ clean' = Ends(c)
    BY <1>3 DEF ReadMarker, Stages
  <2>3. UNCHANGED execVars /\ UNCHANGED slotVars
    BY <1>3 DEF ReadMarker
  <2> HIDE DEF current
  <2> QED
    BY <2>1, <2>2, <2>3, CleanType DEF slotVars, TypeOK
<1>4. CASE DropMarker(c)
  <2>1. clean[c].current \in Inspection /\ "idle" \in Stages
    BY DEF TypeOK, Stages
  <2>2. /\ marker' \in [Slot -> Marker]
        /\ UNCHANGED <<tables, rows, execVars>> /\ clean' = Ends(c)
    BY <1>4 DEF DropMarker, TypeOK, Marker
  <2> QED
    BY <2>1, <2>2, CleanType DEF TypeOK
<1>5. CASE AbortRelease(c)
  <2>1. clean[c].current \in Inspection /\ "idle" \in Stages
    BY DEF TypeOK, Stages
  <2>2. UNCHANGED <<slotVars, execVars>> /\ clean' = Ends(c)
    BY <1>5 DEF AbortRelease
  <2> QED
    BY <2>1, <2>2, CleanType DEF slotVars, TypeOK
<1>6. ASSUME NEW t \in Table, DropTable(c, t)
      PROVE  TypeInv'
  <2> DEFINE current == [clean[c].current EXCEPT !.objects = @ \ {t}]
  <2>1. current \in Inspection /\ "drop" \in Stages
    BY DEF TypeOK, Inspection, Stages
  <2>2. clean[c].slot \in Slot
    BY DEF TypeOK
  <2>3. /\ tables' \in [Slot -> SUBSET Table]
        /\ rows' \in [Slot -> [Table -> SUBSET Exec]]
    BY <1>6, <2>2 DEF DropTable, TypeOK
  <2>4. /\ clean' = GoesOn(c, current, "drop") \/ clean' = Ends(c)
        /\ UNCHANGED execVars /\ marker' \in [Slot -> Marker]
    BY <1>6 DEF DropTable, TypeOK
  <2> HIDE DEF current
  <2> QED
    BY <2>1, <2>3, <2>4, CleanType
<1> QED
  BY <1>1, <1>2, <1>3, <1>4, <1>5, <1>6 DEF CleanStep

\* Every variable of the pool keeps its type, whatever the operators do.
THEOREM TypeCorrect == Spec => []TypeOK
<1>1. TypeInv /\ [Next]_vars => TypeInv'
  <2>1. ASSUME TypeInv, UNCHANGED vars PROVE TypeInv'
    BY <2>1 DEF vars, slotVars, execVars, TypeInv, TypeOK, HaveSlot, HasSlot
  <2> QED
    BY <2>1, TypeClaim, TypeRun, TypeCompare, TypeClean DEF Next
<1>2. TypeInv => TypeOK
  BY DEF TypeInv
<1> QED
  BY TypeInit, <1>1, <1>2, PTL DEF Spec

-----------------------------------------------------------------------------
(* Exclusivity.  A marker names its slot's only user because               *)
(*  - a blank marker belongs to the one execution that created it,         *)
(*  - an ownership row was written by the execution whose slot it is in,   *)
(*  - a release of an owner's slot is about an execution at rest there,    *)
(*    and once it has read the row again it is the only one that can       *)
(*    remove it,                                                           *)
(*  - a slot released without an owner stays as its only release has seen  *)
(*    it, and no claim gets in before the last object is gone.             *)

Inserting(e) == pc[e] = "insert"
HasClaimed(e) == pc[e] \in {"readback"} \cup Using \/ late[e]

BlankHasCreator ==
    /\ \A e \in Exec : Inserting(e) => marker[At(e)] = Blank
    /\ \A e, f \in Exec : Inserting(e) /\ Inserting(f) /\ At(e) = At(f) => e = f

MarkerAtSlot ==
    \A d \in Slot : marker[d] \in Exec =>
        /\ HasSlot(marker[d])
        /\ At(marker[d]) = d
        /\ pc[marker[d]] \notin {"idle", "inspect", "create", "insert"}

UserOwns == \A e \in Exec : HasClaimed(e) => marker[At(e)] = e

ReleasesRested ==
    \A c \in Cleaner : Release(c) /\ Claimed(clean[c].seen) =>
        /\ HasSlot(clean[c].seen.mark)
        /\ At(clean[c].seen.mark) = clean[c].slot
        /\ pc[clean[c].seen.mark] \in Resting
        /\ ~late[clean[c].seen.mark]

OneDropper ==
    \A b, c \in Cleaner :
        Dropping(b) /\ Dropping(c) /\ clean[b].slot = clean[c].slot => b = c

\* A release that found no owner, and what it has left to drop.
Ownerless(c) == Release(c) /\ ~Claimed(clean[c].seen)
Left(c) == IF clean[c].stage = "drop" THEN clean[c].current ELSE clean[c].seen

OwnerlessAlone ==
    \A b, c \in Cleaner :
        Ownerless(c) /\ Release(b) /\ clean[b].slot = clean[c].slot => b = c

Still(c) ==
    /\ ~FreeSlot(clean[c].seen)
    /\ Left(c).mark \notin Exec
    /\ ~FreeSlot(Left(c)) =>
         /\ Inspect(clean[c].slot) = Left(c)
         /\ \A e \in Exec : pc[e] \in {"create", "insert"} => At(e) # clean[c].slot

OwnerlessStill == \A c \in Cleaner : Ownerless(c) => Still(c)

Exclusion ==
    /\ BlankHasCreator
    /\ MarkerAtSlot
    /\ UserOwns
    /\ ReleasesRested
    /\ ReleasesOnlySeenOwner
    /\ OneDropper
    /\ OwnerlessAlone
    /\ OwnerlessStill

PoolInv == TypeInv /\ Exclusion

\* A step that leaves the releases alone, and what an ownerless one still has to
\* drop.
LEMMA OwnerlessKept ==
    ASSUME Exclusion, UNCHANGED clean,
           \A c \in Cleaner : Ownerless(c) /\ ~FreeSlot(Left(c)) =>
               /\ Inspect(clean[c].slot)' = Inspect(clean[c].slot)
               /\ \A x \in Exec : pc'[x] \in {"create", "insert"} => At(x)' # clean[c].slot
    PROVE  OwnerlessAlone' /\ OwnerlessStill'
<1>1. \A c \in Cleaner : Ownerless(c)' = Ownerless(c) /\ Release(c)' = Release(c)
  BY DEF Ownerless, Release, Claimed
<1>2. OwnerlessAlone'
  BY <1>1 DEF Exclusion, OwnerlessAlone
<1>3. ASSUME NEW c \in Cleaner, Ownerless(c)'
      PROVE  Still(c)'
  <2>1. Ownerless(c) /\ Still(c)
    BY <1>1, <1>3 DEF Exclusion, OwnerlessStill
  <2> QED
    BY <2>1 DEF Still, Left, FreeSlot, Inspect
<1> QED
  BY <1>2, <1>3 DEF OwnerlessStill

\* Steps of an execution that leave every marker, queue and release alone and
\* move the execution within one side of the claim, or to an end.
LEMMA QuietStep ==
    ASSUME TypeInv, Exclusion, NEW e \in Exec,
           UNCHANGED <<marker, queue, clean>>,
           pc' \in [Exec -> {"idle"} \cup Claiming \cup Using \cup Resting],
           \A x \in Exec : x # e => pc'[x] = pc[x] /\ late'[x] = late[x],
           late'[e] => HasClaimed(e),
           \A d \in Slot : tables'[d] # tables[d] => marker[d] \in Exec,
           \/ pc'[e] = pc[e]
           \/ pc[e] = "inspect" /\ pc'[e] = "create" /\ FreeSlot(Inspect(At(e)))
           \/ pc[e] \in Claiming \cup Using /\ pc'[e] \in Resting
           \/ pc[e] \in {"readback"} \cup Using /\ pc'[e] \in Using
    PROVE  Exclusion'
<1>1. \A x \in Exec : At(x)' = At(x) /\ HasSlot(x)' = HasSlot(x)
  BY DEF At, HasSlot
<1>2. \A x \in Exec : /\ Inserting(x)' => Inserting(x)
                      /\ HasClaimed(x)' => HasClaimed(x)
  BY DEF Inserting, HasClaimed, Claiming, Using, Resting
<1>3. BlankHasCreator' /\ UserOwns'
  BY <1>1, <1>2 DEF Exclusion, BlankHasCreator, UserOwns
<1>4. MarkerAtSlot'
  BY <1>1 DEF Exclusion, MarkerAtSlot, HasClaimed, Resting, Using, Claiming
<1>5. ReleasesRested'
  BY <1>1 DEF Exclusion, ReleasesRested, Release, Claimed, Resting, Using, Claiming, HasClaimed
<1>6. OwnerlessStill'
  <2> SUFFICES ASSUME NEW c \in Cleaner, Ownerless(c), ~FreeSlot(Left(c))
               PROVE  /\ Inspect(clean[c].slot)' = Inspect(clean[c].slot)
                      /\ \A x \in Exec :
                           pc'[x] \in {"create", "insert"} => At(x)' # clean[c].slot
    BY OwnerlessKept
  <2>1. /\ clean[c].slot \in Slot /\ Left(c).mark \notin Exec
        /\ Inspect(clean[c].slot) = Left(c)
        /\ \A x \in Exec : pc[x] \in {"create", "insert"} => At(x) # clean[c].slot
    BY DEF Exclusion, OwnerlessStill, Still, TypeInv, TypeOK
  <2>2. marker[clean[c].slot] \notin Exec
    BY <2>1 DEF Inspect
  <2>3. Inspect(clean[c].slot)' = Inspect(clean[c].slot)
    BY <2>1, <2>2 DEF Inspect
  <2>4. ASSUME NEW x \in Exec, pc'[x] \in {"create", "insert"}
        PROVE  At(x) # clean[c].slot
    <3>1. CASE pc[x] \in {"create", "insert"}
      BY <2>1, <3>1
    <3>2. CASE FreeSlot(Inspect(At(x)))
      BY <2>1, <3>2
    <3> QED
      BY <2>4, <3>1, <3>2 DEF Claiming, Using, Resting
  <2> QED
    BY <1>1, <2>3, <2>4
<1>7. OwnerlessAlone'
  BY DEF Exclusion, OwnerlessAlone, Ownerless, Release, Claimed
<1> QED
  BY <1>3, <1>4, <1>5, <1>6, <1>7
  DEF Exclusion, ReleasesOnlySeenOwner, OneDropper, Dropping, Claimed

\* A step that only moves the queue of an execution that has created no marker.
LEMMA QueueStep ==
    ASSUME TypeInv, Exclusion, NEW e \in Exec,
           UNCHANGED <<marker, tables, late, clean>>,
           pc[e] \in {"idle", "inspect", "create"},
           pc'[e] \in {"inspect", "failed"},
           \A x \in Exec : x # e => pc'[x] = pc[x] /\ queue'[x] = queue[x]
    PROVE  Exclusion'
<1>1. \A x \in Exec : x # e => At(x)' = At(x) /\ HasSlot(x)' = HasSlot(x)
  BY DEF At, HasSlot
<1>2. \A d \in Slot : marker[d] # e
  BY DEF Exclusion, MarkerAtSlot
<1>3. \A c \in Cleaner : Release(c) /\ Claimed(clean[c].seen) => clean[c].seen.mark # e
  BY DEF Exclusion, ReleasesRested, Resting
<1>4. BlankHasCreator' /\ UserOwns'
  BY <1>1 DEF Exclusion, BlankHasCreator, UserOwns, Inserting, HasClaimed, Using,
              TypeInv, HaveSlot
<1>5. MarkerAtSlot'
  BY <1>1, <1>2 DEF Exclusion, MarkerAtSlot
<1>6. ReleasesRested'
  BY <1>1, <1>3 DEF Exclusion, ReleasesRested, Release, Claimed
<1>7. OwnerlessAlone' /\ OwnerlessStill'
  <2>1. \A x \in Exec : pc'[x] \in {"create", "insert"} => x # e
    OBVIOUS
  <2> QED
    BY <1>1, <2>1 DEF Exclusion, OwnerlessAlone, OwnerlessStill, Ownerless, Release, Claimed, Left,
       Still, FreeSlot, Inspect
<1> QED
  BY <1>4, <1>5, <1>6, <1>7
  DEF Exclusion, ReleasesOnlySeenOwner, OneDropper, Dropping, Claimed

\* Nothing is claimed or released at the start.
LEMMA ExclusionInit == Init => Exclusion
BY ValueAssumption
   DEF Init, Exclusion, BlankHasCreator, MarkerAtSlot, UserOwns, ReleasesRested,
       ReleasesOnlySeenOwner, OneDropper, OwnerlessAlone, OwnerlessStill, Ownerless,
       Inserting, HasClaimed, Using, Release, Dropping, Idle

-----------------------------------------------------------------------------
(* The steps of a claim.                                                   *)

\* CREATE TABLE succeeds: the creator is the only execution that may insert.
LEMMA CreateExclusion ==
    ASSUME PoolInv, NEW e \in Exec, CreateMarker(e)
    PROVE  Exclusion'
<1> USE DEF PoolInv
<1>1. HasSlot(e) /\ pc[e] = "create" /\ queue[e] # <<>> /\ At(e) \in Slot
  BY AtType DEF CreateMarker, TypeInv, HaveSlot, HasSlot, Claiming
<1>2. CASE TryNext(e) /\ UNCHANGED marker
  <2>1. /\ \A x \in Exec : x # e => queue'[x] = queue[x] /\ pc'[x] = pc[x]
        /\ pc'[e] \in {"failed", "inspect"}
    BY <1>1, <1>2, TryNextType DEF TypeInv
  <2> QED
    BY <1>1, <1>2, <2>1, QueueStep DEF CreateMarker
<1>3. CASE /\ marker[At(e)] = NoMarker
           /\ marker' = [marker EXCEPT ![At(e)] = Blank]
           /\ \E after \in {"insert", "failed"} : pc' = [pc EXCEPT ![e] = after]
           /\ UNCHANGED queue
  <2>1. \A x \in Exec : /\ At(x)' = At(x) /\ HasSlot(x)' = HasSlot(x)
                        /\ x # e => pc'[x] = pc[x]
    BY <1>3 DEF At, HasSlot, TypeInv, TypeOK
  <2>2. pc'[e] \in {"insert", "failed"}
    BY <1>3 DEF TypeInv, TypeOK
  <2>3. \A d \in Slot : marker'[d] = IF d = At(e) THEN Blank ELSE marker[d]
    BY <1>1, <1>3 DEF TypeInv, TypeOK
  <2>4. \A x \in Exec : Inserting(x) \/ HasClaimed(x) => At(x) # At(e)
    BY <1>3, ValueAssumption DEF Exclusion, BlankHasCreator, UserOwns
  <2>5. \A x \in Exec : x # e => (Inserting(x)' = Inserting(x)) /\ (HasClaimed(x)' = HasClaimed(x))
    BY <2>1 DEF Inserting, HasClaimed, CreateMarker
  <2>6. ~HasClaimed(e)'
    BY <1>1, <2>2 DEF HasClaimed, Using, CreateMarker, TypeInv, HaveSlot
  <2>7. \A x \in Exec : At(x) \in Slot \/ ~HasSlot(x)
    BY AtType DEF TypeInv
  <2>8. \A x \in Exec : Inserting(x) \/ HasClaimed(x) => HasSlot(x)
    BY DEF Inserting, HasClaimed, TypeInv, HaveSlot, Claiming
  <2>9. BlankHasCreator'
    BY <1>1, <2>1, <2>3, <2>4, <2>5, <2>7, <2>8 DEF Exclusion, BlankHasCreator
  <2>10. UserOwns'
    BY <2>1, <2>3, <2>4, <2>5, <2>6, <2>7, <2>8 DEF Exclusion, UserOwns
  <2>11. MarkerAtSlot'
    <3>1. \A d \in Slot : marker[d] # e
      BY <1>1 DEF Exclusion, MarkerAtSlot
    <3> QED
      BY <2>1, <2>3, <3>1, ValueAssumption DEF Exclusion, MarkerAtSlot
  <2>12. ReleasesRested'
    BY <1>1, <1>3, <2>1 DEF CreateMarker, Exclusion, ReleasesRested, Release, Claimed, Resting
  <2>13. ReleasesOnlySeenOwner'
    <3>1. \A c \in Cleaner : clean[c].slot \in Slot
      BY DEF TypeInv, TypeOK
    <3> QED
      BY <1>2, <1>3, <2>3, <3>1, ValueAssumption
      DEF CreateMarker, Exclusion, ReleasesOnlySeenOwner, Claimed
  <2>14. OwnerlessAlone' /\ OwnerlessStill'
    <3>1. \A c \in Cleaner : Ownerless(c) /\ ~FreeSlot(Left(c)) => clean[c].slot # At(e)
      BY <1>1 DEF Exclusion, OwnerlessStill, Still
    <3>2. \A c \in Cleaner : clean[c].slot \in Slot
      BY DEF TypeInv, TypeOK
    <3>3. UNCHANGED <<clean, tables>>
      BY DEF CreateMarker
    <3>4. ASSUME NEW c \in Cleaner, Ownerless(c), ~FreeSlot(Left(c))
          PROVE  /\ Inspect(clean[c].slot)' = Inspect(clean[c].slot)
                 /\ \A x \in Exec : pc'[x] \in {"create", "insert"} => At(x)' # clean[c].slot
      <4>1. clean[c].slot # At(e)
        BY <3>1, <3>4
      <4>2. Inspect(clean[c].slot)' = Inspect(clean[c].slot)
        BY <2>3, <3>2, <3>3, <4>1 DEF Inspect
      <4> QED
        BY <2>1, <3>4, <4>1, <4>2 DEF Exclusion, OwnerlessStill, Still
    <3> QED
      BY <3>3, <3>4, OwnerlessKept
  <2> QED
    BY <1>3, <2>9, <2>10, <2>11, <2>12, <2>13, <2>14
    DEF CreateMarker, Exclusion, OneDropper, Dropping
<1> QED
  BY <1>2, <1>3 DEF CreateMarker

\* The row goes into the marker its writer created, over no other row.
LEMMA InsertExclusion ==
    ASSUME PoolInv, NEW e \in Exec, InsertMarker(e)
    PROVE  Exclusion'
<1> USE DEF PoolInv
<1>1. /\ HasSlot(e) /\ pc[e] = "insert" /\ Inserting(e) /\ At(e) \in Slot
      /\ marker[At(e)] = Blank
  BY AtType DEF InsertMarker, TypeInv, HaveSlot, Claiming, Inserting, Exclusion, BlankHasCreator
<1>2. \A x \in Exec : /\ At(x)' = At(x) /\ HasSlot(x)' = HasSlot(x)
                      /\ x # e => pc'[x] = pc[x]
  BY DEF InsertMarker, At, HasSlot, TypeInv, TypeOK
<1>3. pc'[e] \in {"readback", "failed"}
  BY DEF InsertMarker, TypeInv, TypeOK
<1>4. \A d \in Slot : marker'[d] = IF d = At(e) THEN e ELSE marker[d]
  BY <1>1 DEF InsertMarker, TypeInv, TypeOK
<1>5. \A x \in Exec : HasClaimed(x) \/ (Inserting(x) /\ x # e) => HasSlot(x) /\ At(x) \in Slot
  BY AtType DEF Inserting, HasClaimed, TypeInv, HaveSlot, Claiming
<1>6. \A x \in Exec : HasClaimed(x) => At(x) # At(e)
  BY <1>1, ValueAssumption DEF Exclusion, UserOwns
<1>7. ~Inserting(e)'
  BY <1>3 DEF Inserting
<1>8. \A x \in Exec : x # e =>
         (Inserting(x)' => Inserting(x)) /\ (HasClaimed(x)' => HasClaimed(x))
  BY <1>2 DEF Inserting, HasClaimed, InsertMarker
<1>9. BlankHasCreator'
  BY <1>1, <1>2, <1>4, <1>5, <1>7, <1>8 DEF Exclusion, BlankHasCreator
<1>10. UserOwns'
  BY <1>1, <1>2, <1>4, <1>5, <1>6, <1>8 DEF Exclusion, UserOwns
<1>11. MarkerAtSlot'
  <2>1. \A d \in Slot : marker[d] # e
    BY <1>1 DEF Exclusion, MarkerAtSlot
  <2> QED
    BY <1>1, <1>2, <1>3, <1>4, <2>1 DEF Exclusion, MarkerAtSlot
<1>12. ReleasesRested'
  BY <1>1, <1>2 DEF InsertMarker, Exclusion, ReleasesRested, Release, Claimed, Resting
<1>13. ReleasesOnlySeenOwner'
  <2>1. \A c \in Cleaner : clean[c].slot \in Slot
    BY DEF TypeInv, TypeOK
  <2> QED
    BY <1>1, <1>4, <2>1, ValueAssumption
    DEF InsertMarker, Exclusion, ReleasesOnlySeenOwner, Claimed
<1>14. OwnerlessAlone' /\ OwnerlessStill'
  <2>1. \A c \in Cleaner : Ownerless(c) /\ ~FreeSlot(Left(c)) => clean[c].slot # At(e)
    BY <1>1 DEF Exclusion, OwnerlessStill, Still
  <2>2. \A c \in Cleaner : clean[c].slot \in Slot
    BY DEF TypeInv, TypeOK
  <2>3. UNCHANGED <<clean, tables>>
    BY DEF InsertMarker
  <2>4. ASSUME NEW c \in Cleaner, Ownerless(c), ~FreeSlot(Left(c))
        PROVE  /\ Inspect(clean[c].slot)' = Inspect(clean[c].slot)
               /\ \A x \in Exec : pc'[x] \in {"create", "insert"} => At(x)' # clean[c].slot
    <3>1. Inspect(clean[c].slot)' = Inspect(clean[c].slot)
      BY <1>4, <2>1, <2>2, <2>3, <2>4 DEF Inspect
    <3> QED
      BY <1>2, <1>3, <2>4, <3>1 DEF Exclusion, OwnerlessStill, Still
  <2> QED
    BY <2>3, <2>4, OwnerlessKept
<1> QED
  BY <1>9, <1>10, <1>11, <1>12, <1>13, <1>14
  DEF InsertMarker, Exclusion, OneDropper, Dropping

-----------------------------------------------------------------------------
(* Every other step of an execution leaves markers and releases alone.     *)
LEMMA ExecExclusion ==
    ASSUME PoolInv, Disciplined, NEW e \in Exec,
           ClaimStep(e) \/ RunStep(e) \/ CompareStep(e)
    PROVE  Exclusion'
<1> USE DEF PoolInv
<1> DEFINE Locations == [Exec -> {"idle"} \cup Claiming \cup Using \cup Resting]
<1>1. pc \in Locations /\ (late[e] => HasClaimed(e))
  BY DEF TypeInv, TypeOK, HasClaimed
<1>2. CASE InspectSlot(e)
  <2>1. HasSlot(e) /\ pc[e] = "inspect"
    BY <1>2 DEF InspectSlot, TypeInv, HaveSlot, Claiming
  <2>2. CASE TryNext(e)
    <3>1. /\ \A x \in Exec : x # e => queue'[x] = queue[x] /\ pc'[x] = pc[x]
          /\ pc'[e] \in {"failed", "inspect"}
      BY <2>1, <2>2, TryNextType DEF TypeInv
    <3> QED
      BY <1>2, <2>1, <3>1, QueueStep DEF InspectSlot, slotVars
  <2>3. CASE pc' = [pc EXCEPT ![e] = "create"] /\ UNCHANGED queue
    <3>1. /\ pc' \in Locations /\ pc'[e] = "create"
          /\ \A x \in Exec : x # e => pc'[x] = pc[x]
      BY <1>1, <2>3 DEF Claiming
    <3>2. CASE FreeSlot(Inspect(At(e)))
      <4>1. UNCHANGED <<marker, tables, queue, clean, late>>
        BY <1>2, <2>3 DEF InspectSlot, slotVars
      <4> QED
        BY <1>1, <2>1, <3>1, <3>2, <4>1, QuietStep
    <3>3. CASE ~FreeSlot(Inspect(At(e)))
      BY <1>2, <3>3, <2>2 DEF InspectSlot
    <3> QED
      BY <3>2, <3>3
  <2> QED
    BY <1>2, <2>2, <2>3 DEF InspectSlot
<1>3. CASE ReadBack(e)
  <2>1. /\ pc' \in Locations /\ pc'[e] = (IF Owns(e) THEN "recheck" ELSE "failed")
        /\ \A x \in Exec : x # e => pc'[x] = pc[x]
    BY <1>1, <1>3 DEF ReadBack, CheckOwnership, Using, Resting
  <2>2. pc[e] = "readback" /\ (Owns(e) => pc'[e] \in Using) /\ (~Owns(e) => pc'[e] \in Resting)
    BY <1>3, <2>1 DEF ReadBack, CheckOwnership, Using, Resting
  <2> QED
    BY <1>1, <1>3, <2>1, <2>2, QuietStep
    DEF ReadBack, CheckOwnership, slotVars, Claiming
<1>4. CASE Recheck(e)
  <2>1. /\ pc' \in Locations /\ pc'[e] = (IF Owns(e) THEN "prepare" ELSE "failed")
        /\ \A x \in Exec : x # e => pc'[x] = pc[x]
    BY <1>1, <1>4 DEF Recheck, CheckOwnership, Using, Resting
  <2>2. pc[e] \in Using /\ (Owns(e) => pc'[e] \in Using) /\ (~Owns(e) => pc'[e] \in Resting)
    BY <1>4, <2>1 DEF Recheck, CheckOwnership, Using, Resting
  <2> QED
    BY <1>1, <1>4, <2>1, <2>2, QuietStep
    DEF Recheck, CheckOwnership, slotVars
<1>5. CASE BeginClaim(e)
  <2>1. /\ \A x \in Exec : x # e => queue'[x] = queue[x] /\ pc'[x] = pc[x]
        /\ pc[e] = "idle" /\ pc'[e] = "inspect"
    BY <1>5 DEF BeginClaim, TypeInv, TypeOK
  <2> QED
    BY <1>5, <2>1, QueueStep DEF BeginClaim, slotVars
<1>6. CASE StopExec(e)
  <2>1. PICK end \in {"failed", "killed"}, l \in BOOLEAN :
          /\ l => pc[e] = "load" /\ end = "failed"
          /\ pc' = [pc EXCEPT ![e] = end]
          /\ late' = [late EXCEPT ![e] = l]
    BY <1>6 DEF StopExec
  <2>2. /\ \A x \in Exec : x # e => late'[x] = late[x]
        /\ late'[e] => HasClaimed(e)
    BY <2>1 DEF TypeInv, TypeOK, HasClaimed, Using
  <2>3. /\ pc' \in Locations /\ pc'[e] \in Resting
        /\ \A x \in Exec : x # e => pc'[x] = pc[x]
    BY <1>1, <2>1 DEF Resting
  <2>4. pc[e] \in Claiming \cup Using
    BY <1>6 DEF StopExec
  <2> QED
    BY <1>6, <2>2, <2>3, <2>4, QuietStep DEF StopExec, slotVars
<1>7. ASSUME NEW t \in Table, NEW next \in {"load", "completed"},
             pc[e] \in {"prepare", "load"}, Advance(e, t, next),
             \A d \in Slot : tables'[d] # tables[d] => d = At(e),
             UNCHANGED <<marker, queue, late, clean>>
      PROVE  Exclusion'
  <2>1. /\ pc' \in Locations /\ pc'[e] \in {pc[e], next}
        /\ \A x \in Exec : x # e => pc'[x] = pc[x]
    BY <1>1, <1>7 DEF Advance, Using, Resting
  <2>2. \/ pc'[e] = pc[e]
        \/ pc[e] \in Claiming \cup Using /\ pc'[e] \in Resting
        \/ pc[e] \in Using /\ pc'[e] \in Using
    BY <1>7, <2>1 DEF Using, Resting
  <2>3. marker[At(e)] = e
    BY <1>7 DEF Exclusion, UserOwns, HasClaimed, Using
  <2> QED
    BY <1>1, <1>7, <2>1, <2>2, <2>3, QuietStep
<1>8. ASSUME NEW t \in Table, CreateTable(e, t) \/ LoadTable(e, t)
      PROVE  Exclusion'
  <2>1. \A d \in Slot : tables'[d] # tables[d] => d = At(e)
    BY <1>8 DEF CreateTable, LoadTable, TypeInv, TypeOK
  <2> QED
    BY <1>7, <1>8, <2>1 DEF CreateTable, LoadTable
<1>9. CASE StragglerEnds(e) \/ \E t \in Table : StragglerWrites(e, t)
  <2>1. /\ \A x \in Exec : x # e => late'[x] = late[x]
        /\ late'[e] => late[e]
        /\ UNCHANGED <<marker, tables, queue, clean, pc>>
    BY <1>9 DEF StragglerEnds, StragglerWrites, slotVars, execVars, TypeInv, TypeOK
  <2> QED
    BY <1>1, <2>1, QuietStep
<1>10. CASE BeginCompare(e)
  <2>1. /\ pc[e] = "completed" /\ pc'[e] = "compare" /\ HasSlot(e) /\ marker[At(e)] = e
        /\ \A x \in Exec : x # e => pc'[x] = pc[x]
        /\ UNCHANGED <<marker, tables, queue, late, clean>>
    BY <1>10 DEF BeginCompare, Owns, TypeInv, TypeOK, slotVars
  <2>2. \A c \in Cleaner : Release(c) /\ Claimed(clean[c].seen) => clean[c].seen.mark # e
    BY <1>10, <2>1 DEF BeginCompare, Disciplined, Exclusion, ReleasesRested
  <2>3. \A x \in Exec : At(x)' = At(x) /\ HasSlot(x)' = HasSlot(x)
    BY <2>1 DEF At, HasSlot
  <2>4. \A x \in Exec : x # e => (Inserting(x)' = Inserting(x)) /\ (HasClaimed(x)' = HasClaimed(x))
    BY <2>1 DEF Inserting, HasClaimed
  <2>5. ~Inserting(e)'
    BY <2>1 DEF Inserting
  <2>6. BlankHasCreator' /\ UserOwns'
    BY <2>1, <2>3, <2>4, <2>5 DEF Exclusion, BlankHasCreator, UserOwns
  <2>7. MarkerAtSlot'
    BY <2>1, <2>3 DEF Exclusion, MarkerAtSlot
  <2>8. ReleasesRested'
    BY <2>1, <2>2, <2>3 DEF Exclusion, ReleasesRested, Release, Claimed
  <2>9. OwnerlessAlone' /\ OwnerlessStill'
    <3>1. \A c \in Cleaner : Inspect(clean[c].slot)' = Inspect(clean[c].slot)
      BY <2>1 DEF Inspect
    <3> QED
      BY <2>1, <2>3, <3>1, OwnerlessKept DEF Exclusion, OwnerlessStill, Still
  <2> QED
    BY <2>1, <2>6, <2>7, <2>8, <2>9
    DEF Exclusion, ReleasesOnlySeenOwner, OneDropper, Dropping, Claimed
<1>11. ASSUME NEW t \in Table, CompareTable(e, t)
       PROVE  Exclusion'
  <2>1. /\ pc[e] = "compare" /\ pc'[e] \in {"compare", "compared", "completed"}
        /\ pc' \in Locations
        /\ \A x \in Exec : x # e => pc'[x] = pc[x]
    BY <1>1, <1>11 DEF CompareTable, Advance, Resting, Using
  <2>2. pc'[e] = pc[e] \/ (pc[e] \in Claiming \cup Using /\ pc'[e] \in Resting)
    BY <2>1 DEF Using, Resting
  <2> QED
    BY <1>1, <1>11, <2>1, <2>2, QuietStep DEF CompareTable, slotVars
<1>12. CASE CreateMarker(e)
  BY <1>12, CreateExclusion
<1>13. CASE InsertMarker(e)
  BY <1>13, InsertExclusion
<1> QED
  BY <1>2, <1>3, <1>4, <1>5, <1>6, <1>8, <1>9, <1>10, <1>11, <1>12, <1>13
  DEF ClaimStep, RunStep, CompareStep

-----------------------------------------------------------------------------
(* Releases.                                                               *)

\* A release moves on, for the owner it has seen, to no later than the stage it
\* has evidence for.
LEMMA ReleaseStep ==
    ASSUME PoolInv, NEW c \in Cleaner, Release(c),
           UNCHANGED <<marker, execVars>>,
           NEW i \in Inspection, NEW s \in Stages, s # "idle",
           clean' = GoesOn(c, i, s),
           s \in {"read", "drop"} /\ ~Dropping(c) =>
               \A b \in Cleaner : Dropping(b) => clean[b].slot # clean[c].slot,
           s = "drop" /\ Claimed(clean[c].seen) =>
               \/ clean[c].stage = "drop"
               \/ marker[clean[c].slot] = clean[c].seen.mark,
           \A d \in Slot : d # clean[c].slot => tables'[d] = tables[d],
           s # "drop" => UNCHANGED tables /\ clean[c].stage # "drop",
           s = "drop" /\ ~Claimed(clean[c].seen) =>
               /\ i.mark \notin Exec
               /\ ~FreeSlot(i) => ~FreeSlot(Left(c)) /\ Inspect(clean[c].slot)' = i
    PROVE  Exclusion'
<1> USE DEF PoolInv
<1>1. /\ \A b \in Cleaner : b # c => clean'[b] = clean[b]
      /\ clean'[c].slot = clean[c].slot
      /\ clean'[c].seen = clean[c].seen
      /\ clean'[c].stage = s
  BY DEF GoesOn, TypeInv, TypeOK
<1>2. \A x \in Exec : At(x)' = At(x) /\ HasSlot(x)' = HasSlot(x) /\ pc'[x] = pc[x]
  BY DEF At, HasSlot, execVars
<1>3. BlankHasCreator' /\ UserOwns'
  BY <1>2 DEF Exclusion, BlankHasCreator, UserOwns, Inserting, HasClaimed, execVars
<1>4. MarkerAtSlot'
  BY <1>2 DEF Exclusion, MarkerAtSlot
<1>5. ReleasesRested'
  <2>1. \A b \in Cleaner : /\ clean'[b].stage # "idle" => clean[b].stage # "idle"
                           /\ clean'[b].seen = clean[b].seen
                           /\ clean'[b].slot = clean[b].slot
    BY <1>1 DEF Release
  <2> QED
    BY <2>1 DEF Exclusion, ReleasesRested, Release, Claimed, At, HasSlot, execVars
<1>6. ReleasesOnlySeenOwner'
  BY <1>1 DEF Exclusion, ReleasesOnlySeenOwner, Claimed
<1>7. OneDropper'
  <2>1. ASSUME NEW b \in Cleaner, b # c, Dropping(b)', Dropping(c)'
        PROVE  clean'[b].slot # clean'[c].slot
    <3>1. Dropping(b) /\ clean'[b].slot = clean[b].slot
      BY <1>1, <2>1 DEF Dropping
    <3>2. s \in {"read", "drop"}
      BY <1>1, <2>1 DEF Dropping
    <3> QED
      BY <1>1, <2>1, <3>1, <3>2 DEF Exclusion, OneDropper
  <2>2. \A b \in Cleaner : b # c => Dropping(b)' = Dropping(b) /\ clean'[b].slot = clean[b].slot
    BY <1>1 DEF Dropping
  <2> QED
    BY <2>1, <2>2 DEF Exclusion, OneDropper
<1>8. OwnerlessAlone'
  <2>1. \A b \in Cleaner : /\ Release(b)' = Release(b) /\ Ownerless(b)' = Ownerless(b)
                           /\ clean'[b].slot = clean[b].slot
    BY <1>1 DEF Release, Ownerless, Claimed
  <2> QED
    BY <2>1 DEF Exclusion, OwnerlessAlone
<1>9. OwnerlessStill'
  <2>1. ASSUME NEW b \in Cleaner, Ownerless(b)'
        PROVE  Still(b)'
    <3>1. /\ Ownerless(b) /\ clean'[b].seen = clean[b].seen /\ clean'[b].slot = clean[b].slot
          /\ clean[b].slot \in Slot
      BY <1>1, <2>1 DEF Ownerless, Release, Claimed, TypeInv, TypeOK
    <3>2. Still(b)
      BY <3>1 DEF Exclusion, OwnerlessStill
    <3>3. CASE b # c
      <4>1. clean'[b] = clean[b] /\ clean[b].slot # clean[c].slot
        BY <1>1, <3>1, <3>3 DEF Exclusion, OwnerlessAlone
      <4> QED
        BY <1>2, <3>1, <3>2, <4>1 DEF Still, Left, FreeSlot, Inspect
    <3>4. CASE b = c /\ s = "drop"
      <4>1. clean'[b].current = i /\ clean'[b].stage = "drop" /\ ~Claimed(clean[c].seen)
        BY <3>1, <3>4 DEF GoesOn, Ownerless, TypeInv, TypeOK
      <4>2. i.mark \notin Exec /\ (~FreeSlot(i) => ~FreeSlot(Left(b)) /\ Inspect(clean[b].slot)' = i)
        BY <3>4, <4>1
      <4> QED
        BY <1>2, <3>1, <3>2, <4>1, <4>2 DEF Still, Left, FreeSlot, Inspect
    <3>5. CASE b = c /\ s # "drop"
      BY <1>1, <1>2, <3>1, <3>2, <3>5 DEF Still, Left, FreeSlot, Inspect
    <3> QED
      BY <3>3, <3>4, <3>5
  <2> QED
    BY <2>1 DEF OwnerlessStill
<1> QED
  BY <1>3, <1>4, <1>5, <1>6, <1>7, <1>8, <1>9 DEF Exclusion

\* A release that ends asks nothing more of its slot.
LEMMA ReleaseEnds ==
    ASSUME PoolInv, NEW c \in Cleaner, Release(c),
           UNCHANGED execVars,
           clean' = Ends(c),
           \A d \in Slot : marker'[d] # marker[d] => d = clean[c].slot /\ marker'[d] = NoMarker,
           \A d \in Slot : tables'[d] # tables[d] => d = clean[c].slot,
           \/ marker'[clean[c].slot] = marker[clean[c].slot]
           \/ /\ \A e \in Exec : Inserting(e) \/ HasClaimed(e) => At(e) # clean[c].slot
              /\ \A b \in Cleaner : Dropping(b) /\ clean[b].slot = clean[c].slot => b = c
    PROVE  Exclusion'
<1> USE DEF PoolInv
<1>1. /\ \A b \in Cleaner : b # c => clean'[b] = clean[b]
      /\ clean'[c].stage = "idle"
  BY DEF Ends, Idle, TypeInv, TypeOK
<1>2. \A x \in Exec : At(x)' = At(x) /\ HasSlot(x)' = HasSlot(x) /\ pc'[x] = pc[x]
  BY DEF At, HasSlot, execVars
<1>3. \A x \in Exec : /\ Inserting(x)' = Inserting(x) /\ HasClaimed(x)' = HasClaimed(x)
                      /\ Inserting(x) \/ HasClaimed(x) => At(x) \in Slot
  BY AtType DEF Inserting, HasClaimed, execVars, TypeInv, HaveSlot, Claiming
<1>4. \A x \in Exec : Inserting(x) \/ HasClaimed(x) => marker'[At(x)] = marker[At(x)]
  BY <1>3
<1>5. BlankHasCreator' /\ UserOwns'
  BY <1>2, <1>3, <1>4 DEF Exclusion, BlankHasCreator, UserOwns
<1>6. MarkerAtSlot'
  BY <1>2, ValueAssumption DEF Exclusion, MarkerAtSlot
<1>7. ReleasesRested' /\ OneDropper'
  BY <1>1 DEF Exclusion, ReleasesRested, OneDropper, Dropping, Release, Claimed, At, HasSlot,
     execVars
<1>8. ReleasesOnlySeenOwner'
  <2>1. ASSUME NEW b \in Cleaner, clean'[b].stage = "drop", Claimed(clean'[b].seen)
        PROVE  marker'[clean'[b].slot] = clean'[b].seen.mark
    <3>1. b # c /\ clean'[b] = clean[b] /\ Dropping(b) /\ clean[b].slot \in Slot
      BY <1>1, <2>1 DEF Dropping, TypeInv, TypeOK
    <3>2. marker'[clean[b].slot] = marker[clean[b].slot]
      BY <3>1
    <3> QED
      BY <2>1, <3>1, <3>2 DEF Exclusion, ReleasesOnlySeenOwner, Claimed
  <2> QED
    BY <2>1 DEF ReleasesOnlySeenOwner, Claimed
<1>9. OwnerlessAlone' /\ OwnerlessStill'
  <2>1. \A b \in Cleaner : Release(b)' => b # c /\ Release(b) /\ clean'[b] = clean[b]
    BY <1>1 DEF Release
  <2>2. OwnerlessAlone'
    BY <2>1 DEF Exclusion, OwnerlessAlone, Ownerless, Release, Claimed
  <2>3. ASSUME NEW b \in Cleaner, Ownerless(b)'
        PROVE  Still(b)'
    <3>1. Release(b) /\ Ownerless(b) /\ clean'[b] = clean[b] /\ clean[b].slot \in Slot /\ b # c
      BY <2>1, <2>3 DEF Ownerless, Release, Claimed, TypeInv, TypeOK
    <3>2. clean[b].slot # clean[c].slot
      BY <3>1 DEF Exclusion, OwnerlessAlone
    <3>3. Still(b)
      BY <3>1 DEF Exclusion, OwnerlessStill
    <3> QED
      BY <1>2, <3>1, <3>2, <3>3 DEF Still, Left, FreeSlot, Inspect
  <2> QED
    BY <2>2, <2>3 DEF OwnerlessStill
<1> QED
  BY <1>5, <1>6, <1>7, <1>8, <1>9 DEF Exclusion

\* Cleanup releases no slot an execution uses, and no slot twice at once.
LEMMA CleanExclusion ==
    ASSUME PoolInv, Disciplined, NEW c \in Cleaner, CleanStep(c)
    PROVE  Exclusion'
<1> USE DEF PoolInv
<1>1. /\ clean[c] \in CleanRecord
      /\ \A b \in Cleaner : clean[b].slot \in Slot
  BY DEF TypeInv, TypeOK, CleanRecord
<1>2. ASSUME NEW d \in Slot, Survey(c, d)
      PROVE  Exclusion'
  <2>1. marker[d] \in Exec =>
          /\ pc[marker[d]] \in Resting /\ ~late[marker[d]]
          /\ HasSlot(marker[d]) /\ At(marker[d]) = d
    BY <1>2 DEF Survey, InUse, Disciplined, Exclusion, MarkerAtSlot
  <2>2. /\ \A b \in Cleaner : b # c => clean'[b] = clean[b]
        /\ clean'[c].slot = d /\ clean'[c].seen = Inspect(d)
        /\ clean'[c].stage = "list" /\ Inspect(d).mark = marker[d]
    BY <1>2 DEF Survey, Inspect, TypeInv, TypeOK
  <2>3. UNCHANGED <<marker, tables, pc, queue, late>>
    BY <1>2 DEF Survey, slotVars, execVars
  <2>4. \A x \in Exec : At(x)' = At(x) /\ HasSlot(x)' = HasSlot(x)
    BY <2>3 DEF At, HasSlot
  <2>5. BlankHasCreator' /\ UserOwns'
    BY <2>3, <2>4 DEF Exclusion, BlankHasCreator, UserOwns, Inserting, HasClaimed
  <2>6. MarkerAtSlot'
    BY <2>3, <2>4 DEF Exclusion, MarkerAtSlot
  <2>7. ReleasesRested'
    BY <2>1, <2>2, <2>3, <2>4 DEF Exclusion, ReleasesRested, Release, Claimed
  <2>8. ReleasesOnlySeenOwner' /\ OneDropper'
    BY <2>2, <2>3 DEF Exclusion, ReleasesOnlySeenOwner, OneDropper, Dropping, Claimed
  <2>9. OwnerlessAlone'
    <3>1. \A b \in Cleaner : Release(b) /\ clean[b].slot = d =>
            Claimed(clean[b].seen) /\ Claimed(Inspect(d))
      BY <1>2 DEF Survey, Alone, Disciplined
    <3>2. \A b \in Cleaner : b # c => /\ Release(b)' = Release(b)
                                      /\ Ownerless(b)' = Ownerless(b)
                                      /\ clean'[b].slot = clean[b].slot
      BY <2>2 DEF Ownerless, Release, Claimed
    <3>3. Ownerless(c)' = ~Claimed(Inspect(d))
      BY <2>2 DEF Ownerless, Release, Claimed
    <3>4. \A b \in Cleaner : Ownerless(b) => ~Claimed(clean[b].seen) /\ Release(b)
      BY DEF Ownerless
    <3>5. ASSUME NEW a \in Cleaner, NEW b \in Cleaner,
                 Ownerless(a)', Release(b)', clean'[b].slot = clean'[a].slot
          PROVE  a = b
      <4>1. CASE a # c /\ b # c
        BY <3>2, <3>5, <4>1 DEF Exclusion, OwnerlessAlone
      <4>2. CASE a = c /\ b # c
        BY <2>2, <3>1, <3>2, <3>3, <3>5, <4>2
      <4>3. CASE a # c /\ b = c
        BY <2>2, <3>1, <3>2, <3>4, <3>5, <4>3
      <4> QED
        BY <4>1, <4>2, <4>3
    <3> QED
      BY <3>5 DEF OwnerlessAlone
  <2>10. OwnerlessStill'
    <3>1. ASSUME NEW b \in Cleaner, Ownerless(b)'
          PROVE  Still(b)'
      <4>1. CASE b = c
        <5>1. ~Claimed(Inspect(d))
          BY <2>2, <3>1, <4>1 DEF Ownerless, Claimed
        <5>2. ~FreeSlot(Inspect(d)) /\ ~InUse(d)
          BY <1>2, <5>1 DEF Survey, Selectable
        <5>3. \A x \in Exec : pc[x] \in {"create", "insert"} => At(x) # d
          BY <5>2 DEF InUse, Claiming
        <5> QED
          BY <2>2, <2>3, <2>4, <4>1, <5>1, <5>2, <5>3
          DEF Claimed, Still, Left, FreeSlot, Inspect
      <4>2. CASE b # c
        <5>1. Ownerless(b) /\ clean'[b] = clean[b]
          BY <2>2, <3>1, <4>2 DEF Ownerless, Release, Claimed
        <5>2. Still(b)
          BY <5>1 DEF Exclusion, OwnerlessStill
        <5> QED
          BY <2>3, <2>4, <5>1, <5>2 DEF Still, Left, FreeSlot, Inspect
      <4> QED
        BY <4>1, <4>2
    <3> QED
      BY <3>1 DEF OwnerlessStill
  <2> QED
    BY <2>5, <2>6, <2>7, <2>8, <2>9, <2>10 DEF Exclusion
<1>3. CASE ListSlot(c)
  <2> DEFINE current == Inspect(clean[c].slot)
  <2>1. /\ current \in Inspection /\ current.mark = marker[clean[c].slot]
        /\ "read" \in Stages /\ "drop" \in Stages
    BY <1>1, InspectType DEF TypeInv, Stages, Inspect
  <2>2. /\ Release(c) /\ ~Dropping(c) /\ clean[c].stage = "list"
        /\ \A b \in Cleaner : Dropping(b) => clean[b].slot # clean[c].slot
        /\ UNCHANGED <<marker, tables, execVars>>
    BY <1>3 DEF ListSlot, Release, Dropping, Disciplined, slotVars
  <2>3. \/ clean' = GoesOn(c, current, "read")
        \/ clean' = GoesOn(c, current, "drop") /\ Unchanged(clean[c].seen, current)
        \/ clean' = Ends(c)
    BY <1>3 DEF ListSlot
  <2>4. CASE clean' = GoesOn(c, current, "read")
    <3> HIDE DEF current
    <3> QED
      BY <2>1, <2>2, <2>4, ReleaseStep
  <2>5. CASE clean' = GoesOn(c, current, "drop") /\ Unchanged(clean[c].seen, current)
    <3>1. Claimed(clean[c].seen) => marker[clean[c].slot] = clean[c].seen.mark
      BY <2>1, <2>5 DEF Unchanged
    <3>2. ~Claimed(clean[c].seen) => /\ current.mark \notin Exec
                                     /\ current = Left(c) /\ ~FreeSlot(Left(c))
      BY <2>2, <2>5 DEF Unchanged, Left, Ownerless, Exclusion, OwnerlessStill, Still
    <3>3. Inspect(clean[c].slot)' = current
      <4>1. clean'[c].slot = clean[c].slot
        BY <2>5 DEF GoesOn, TypeInv, TypeOK
      <4> QED
        BY <2>2, <4>1 DEF Inspect
    <3> HIDE DEF current
    <3> QED
      BY <2>1, <2>2, <2>5, <3>1, <3>2, <3>3, ReleaseStep
  <2>6. CASE clean' = Ends(c)
    BY <2>2, <2>6, ReleaseEnds
  <2> QED
    BY <2>3, <2>4, <2>5, <2>6
<1>4. CASE ReadMarker(c)
  <2> DEFINE current == [clean[c].current EXCEPT !.mark = marker[clean[c].slot]]
  <2>1. /\ current \in Inspection /\ current.mark = marker[clean[c].slot]
        /\ "drop" \in Stages
    BY <1>1 DEF TypeInv, TypeOK, Inspection, CleanRecord, Stages
  <2>2. /\ Release(c) /\ Dropping(c) /\ clean[c].stage = "read"
        /\ UNCHANGED <<marker, tables, execVars>>
    BY <1>4 DEF ReadMarker, Release, Dropping, slotVars
  <2>3. \/ clean' = GoesOn(c, current, "drop") /\ Unchanged(clean[c].seen, current)
        \/ clean' = Ends(c)
    BY <1>4 DEF ReadMarker
  <2>4. CASE clean' = GoesOn(c, current, "drop") /\ Unchanged(clean[c].seen, current)
    <3>1. Claimed(clean[c].seen) => marker[clean[c].slot] = clean[c].seen.mark
      BY <2>1, <2>4 DEF Unchanged
    <3>2. ~Claimed(clean[c].seen) => /\ current.mark \notin Exec
                                     /\ current = Left(c) /\ ~FreeSlot(Left(c))
                                     /\ Inspect(clean[c].slot) = current
      BY <2>2, <2>4 DEF Unchanged, Left, Ownerless, Exclusion, OwnerlessStill, Still
    <3>3. Inspect(clean[c].slot)' = Inspect(clean[c].slot)
      <4>1. clean'[c].slot = clean[c].slot
        BY <2>4 DEF GoesOn, TypeInv, TypeOK
      <4> QED
        BY <2>2, <4>1 DEF Inspect
    <3>4. ~Claimed(clean[c].seen) => Inspect(clean[c].slot)' = current
      BY <3>2, <3>3
    <3> HIDE DEF current
    <3> QED
      BY <2>1, <2>2, <2>4, <3>1, <3>2, <3>4, ReleaseStep
  <2>5. CASE clean' = Ends(c)
    BY <2>2, <2>5, ReleaseEnds
  <2> QED
    BY <2>3, <2>4, <2>5
<1>5. ASSUME NEW t \in Table, DropTable(c, t)
      PROVE  Exclusion'
  <2> DEFINE current == [clean[c].current EXCEPT !.objects = @ \ {t}]
  <2>1. /\ current \in Inspection /\ "drop" \in Stages
        /\ current.mark = clean[c].current.mark
        /\ current.objects = clean[c].current.objects \ {t}
    BY <1>1 DEF CleanRecord, Inspection, Stages
  <2>2. /\ Release(c) /\ Dropping(c) /\ clean[c].stage = "drop"
        /\ t \in clean[c].current.objects
        /\ UNCHANGED <<marker, execVars>>
    BY <1>5 DEF DropTable, Release, Dropping
  <2>3. /\ \A d \in Slot : d # clean[c].slot => tables'[d] = tables[d]
        /\ tables'[clean[c].slot] = tables[clean[c].slot] \ {t}
    BY <1>1, <1>5 DEF DropTable, TypeInv, TypeOK
  <2>4. clean' = GoesOn(c, current, "drop") \/ clean' = Ends(c)
    BY <1>5 DEF DropTable
  <2>5. CASE clean' = GoesOn(c, current, "drop")
    <3>1. ASSUME ~Claimed(clean[c].seen)
          PROVE  /\ current.mark \notin Exec /\ ~FreeSlot(Left(c))
                 /\ Inspect(clean[c].slot)' = current
      <4>1. Left(c) = clean[c].current /\ ~FreeSlot(Left(c))
        BY <2>2 DEF Left, FreeSlot
      <4>2. /\ Left(c).mark \notin Exec /\ Inspect(clean[c].slot) = Left(c)
        BY <2>2, <3>1, <4>1 DEF Ownerless, Exclusion, OwnerlessStill, Still
      <4>3. clean'[c].slot = clean[c].slot
        BY <2>5 DEF GoesOn, TypeInv, TypeOK
      <4>4. /\ marker[clean[c].slot] = clean[c].current.mark
            /\ tables[clean[c].slot] = clean[c].current.objects
        BY <4>1, <4>2 DEF Inspect
      <4>5. current = [mark |-> marker[clean[c].slot], objects |-> tables'[clean[c].slot]]
        <5>1. clean[c].current \in Inspection
          BY <1>1 DEF CleanRecord
        <5> QED
          BY <2>3, <4>4, <5>1 DEF Inspection
      <4> QED
        BY <2>1, <2>2, <4>1, <4>2, <4>3, <4>5 DEF Inspect
    <3> HIDE DEF current
    <3> QED
      BY <2>1, <2>2, <2>3, <2>5, <3>1, ReleaseStep
  <2>6. CASE clean' = Ends(c)
    BY <2>2, <2>3, <2>6, ReleaseEnds
  <2> QED
    BY <2>4, <2>5, <2>6
<1>6. CASE AbortRelease(c)
  <2>1. Release(c) /\ UNCHANGED <<marker, tables, execVars>> /\ clean' = Ends(c)
    BY <1>6 DEF AbortRelease, slotVars
  <2> QED
    BY <2>1, ReleaseEnds
<1>7. CASE DropMarker(c)
  <2>1. /\ Release(c) /\ Dropping(c) /\ clean[c].stage = "drop" /\ clean' = Ends(c)
        /\ UNCHANGED <<tables, execVars>>
    BY <1>7 DEF DropMarker, Release, Dropping
  <2>2. /\ \A d \in Slot : marker'[d] # marker[d] => d = clean[c].slot /\ marker'[d] = NoMarker
        /\ marker'[clean[c].slot] # marker[clean[c].slot] => clean[c].current.mark # NoMarker
    BY <1>1, <1>7 DEF DropMarker, TypeInv, TypeOK
  <2>3. ASSUME marker'[clean[c].slot] # marker[clean[c].slot],
               NEW e \in Exec, Inserting(e) \/ HasClaimed(e)
        PROVE  At(e) # clean[c].slot
    <3>1. CASE Claimed(clean[c].seen)
      <4>1. /\ marker[clean[c].slot] = clean[c].seen.mark
            /\ pc[clean[c].seen.mark] \in Resting /\ ~late[clean[c].seen.mark]
        BY <2>1, <3>1 DEF Exclusion, ReleasesRested, ReleasesOnlySeenOwner
      <4>2. HasClaimed(e) => e # clean[c].seen.mark
        BY <4>1 DEF HasClaimed, Using, Resting
      <4> QED
        BY <2>3, <3>1, <4>1, <4>2, ValueAssumption
        DEF Claimed, Exclusion, BlankHasCreator, UserOwns
    <3>2. CASE ~Claimed(clean[c].seen)
      <4>1. ~FreeSlot(Left(c)) /\ Ownerless(c)
        BY <2>1, <2>2, <2>3, <3>2 DEF Left, FreeSlot, Ownerless
      <4>2. /\ Inspect(clean[c].slot).mark \notin Exec
            /\ \A x \in Exec : pc[x] \in {"create", "insert"} => At(x) # clean[c].slot
        BY <4>1 DEF Exclusion, OwnerlessStill, Still
      <4> QED
        BY <2>3, <4>2 DEF Inspect, Inserting, Exclusion, UserOwns
    <3> QED
      BY <3>1, <3>2
  <2>4. \A b \in Cleaner : Dropping(b) /\ clean[b].slot = clean[c].slot => b = c
    BY <2>1 DEF Exclusion, OneDropper
  <2> QED
    BY <2>1, <2>2, <2>3, <2>4, ReleaseEnds
<1> QED
  BY <1>2, <1>3, <1>4, <1>5, <1>6, <1>7 DEF CleanStep

\* PoolInv is inductive under the disciplined policy.
LEMMA PoolInductive ==
    ASSUME Disciplined
    PROVE  Spec => []PoolInv
<1>1. Init => PoolInv
  BY TypeInit, ExclusionInit DEF PoolInv
<1>2. PoolInv /\ [Next]_vars => PoolInv'
  <2>1. ASSUME PoolInv, UNCHANGED vars PROVE PoolInv'
    BY <2>1 DEF vars, slotVars, execVars, PoolInv, TypeInv, TypeOK, HaveSlot, HasSlot,
       Exclusion, BlankHasCreator, MarkerAtSlot, UserOwns, ReleasesRested, At,
       ReleasesOnlySeenOwner, OneDropper, Inserting, HasClaimed, Release, Dropping,
       OwnerlessAlone, OwnerlessStill, Ownerless, Still, Left, FreeSlot, Inspect
  <2>2. ASSUME PoolInv, Next PROVE PoolInv'
    BY <2>2, TypeClaim, TypeRun, TypeCompare, TypeClean, ExecExclusion, CleanExclusion
    DEF Next, PoolInv
  <2> QED
    BY <2>1, <2>2
<1> QED
  BY <1>1, <1>2, PTL DEF Spec

\* A slot is never used by two executions at once, however many claims, crashes
\* and cleanups interleave, as long as releases of a slot do not overlap, leave
\* slots in use alone, and no statement outlives its execution.
THEOREM Exclusive ==
    ASSUME Disciplined
    PROVE  Spec => []SlotExclusive
<1>1. PoolInv => SlotExclusive
  BY DEF PoolInv, Exclusion, UserOwns, HasClaimed, SlotExclusive, Active
<1> QED
  BY <1>1, PoolInductive, PTL

\* A cleanup that has begun to drop a claimed slot keeps the owner it selected
\* in front of it until its own last statement.
THEOREM ReleaseSeen ==
    ASSUME Disciplined
    PROVE  Spec => []ReleasesOnlySeenOwner
<1>1. PoolInv => ReleasesOnlySeenOwner
  BY DEF PoolInv, Exclusion
<1> QED
  BY <1>1, PoolInductive, PTL

-----------------------------------------------------------------------------
(* Evidence.  A slot holds its owner's tables and nothing else because     *)
(*  - a claim gets no further than its own marker in a slot with tables,   *)
(*  - rows vanish with their table, and only the owner writes rows,        *)
(*  - a release of the owner's slot has listed every table it still has.   *)

ClaimedEmpty ==
    \A e \in Exec :
        \/ Inserting(e)
        \/ pc[e] = "create" /\ marker[At(e)] = NoMarker
        => tables[At(e)] = {}

AllListed ==
    \A c \in Cleaner :
        Dropping(c) /\ Claimed(clean[c].seen) /\ marker[clean[c].slot] = clean[c].seen.mark
            => tables[clean[c].slot] = clean[c].current.objects

GoneEmpty == \A d \in Slot, t \in Table : t \notin tables[d] => rows[d][t] = {}

OwnRows == \A d \in Slot, t \in Table : marker[d] \in Exec => rows[d][t] \subseteq {marker[d]}

Finished(e) == pc[e] \in {"completed", "compare"}

Loaded ==
    \A e \in Exec, t \in Table :
        \/ pc[e] = "load" /\ t \notin todo[e]
        \/ Finished(e) /\ marker[At(e)] = e /\ t \in tables[At(e)]
        => rows[At(e)][t] = {e}

ReadOwn ==
    \A e \in Exec : /\ pc[e] = "compare" => read[e] \subseteq {e}
                    /\ pc[e] = "compared" => read[e] = {e}

Evidence == ClaimedEmpty /\ AllListed /\ GoneEmpty /\ OwnRows /\ Loaded /\ ReadOwn

EvidenceInv == PoolInv /\ Evidence

LEMMA EvidenceInit == Init => Evidence
BY ValueAssumption
   DEF Init, Evidence, ClaimedEmpty, AllListed, GoneEmpty, OwnRows, Loaded, ReadOwn,
       Inserting, Finished, Dropping, Idle

\* An execution that holds its slot has no release of it at work: one for another
\* owner will stop, and one without an owner has nothing left to drop.
LEMMA Undropped ==
    ASSUME PoolInv, NEW e \in Exec, HasClaimed(e),
           NEW c \in Cleaner, Release(c), clean[c].slot = At(e)
    PROVE  /\ Claimed(clean[c].seen) => clean[c].seen.mark # e
           /\ Claimed(clean[c].seen) => marker[At(e)] # clean[c].seen.mark
           /\ clean[c].stage = "drop" => FreeSlot(clean[c].current)
<1> USE DEF PoolInv
<1>1. marker[At(e)] = e
  BY DEF Exclusion, UserOwns
<1>2. Claimed(clean[c].seen) => clean[c].seen.mark # e
  BY DEF Exclusion, ReleasesRested, HasClaimed, Using, Resting
<1>3. ASSUME clean[c].stage = "drop", Claimed(clean[c].seen)
      PROVE  FALSE
  BY <1>1, <1>2, <1>3 DEF Exclusion, ReleasesOnlySeenOwner
<1>4. ASSUME ~Claimed(clean[c].seen), clean[c].stage = "drop", ~FreeSlot(clean[c].current)
      PROVE  FALSE
  <2>1. /\ Inspect(clean[c].slot) = clean[c].current
        /\ clean[c].current.mark \notin Exec
    BY <1>4 DEF Exclusion, OwnerlessStill, Ownerless, Still, Left
  <2> QED
    BY <1>1, <2>1 DEF Inspect
<1> QED
  BY <1>1, <1>2, <1>3, <1>4

\* Steps of an execution that leave slots and releases alone.
LEMMA EvidenceQuiet ==
    ASSUME PoolInv, Evidence, NEW e \in Exec,
           UNCHANGED <<marker, tables, rows, clean>>,
           \A x \in Exec : x # e => /\ pc'[x] = pc[x] /\ queue'[x] = queue[x]
                                    /\ todo'[x] = todo[x] /\ read'[x] = read[x],
           pc'[e] \notin {"insert", "load"},
           pc'[e] = "create" => queue'[e] = queue[e] /\ tables[At(e)] = {},
           pc'[e] \in {"completed", "compare"} => Finished(e) /\ queue'[e] = queue[e],
           pc'[e] = "compare" => read'[e] \subseteq {e},
           pc'[e] = "compared" => read'[e] = {e}
    PROVE  Evidence'
<1>1. \A x \in Exec : queue'[x] = queue[x] => At(x)' = At(x)
  BY DEF At
<1>2. ClaimedEmpty'
  BY <1>1 DEF Evidence, ClaimedEmpty, Inserting
<1>3. Loaded'
  BY <1>1 DEF Evidence, Loaded, Finished
<1>4. AllListed' /\ GoneEmpty' /\ OwnRows' /\ ReadOwn'
  BY DEF Evidence, AllListed, GoneEmpty, OwnRows, ReadOwn, Dropping, Claimed
<1> QED
  BY <1>2, <1>3, <1>4 DEF Evidence

-----------------------------------------------------------------------------
(* The claim.                                                              *)
LEMMA EvidenceCreate ==
    ASSUME EvidenceInv, NEW e \in Exec, CreateMarker(e)
    PROVE  Evidence'
<1> USE DEF EvidenceInv, PoolInv
<1>1. HasSlot(e) /\ pc[e] = "create" /\ At(e) \in Slot
  BY AtType DEF CreateMarker, TypeInv, HaveSlot, Claiming
<1>2. UNCHANGED <<tables, rows, todo, read, clean>>
  BY DEF CreateMarker
<1>3. CASE TryNext(e) /\ UNCHANGED marker
  <2>1. /\ \A x \in Exec : x # e => queue'[x] = queue[x] /\ pc'[x] = pc[x]
        /\ pc'[e] \in {"failed", "inspect"}
    BY <1>1, <1>3, TryNextType DEF TypeInv
  <2> QED
    BY <1>2, <1>3, <2>1, EvidenceQuiet
<1>4. CASE /\ marker[At(e)] = NoMarker
           /\ marker' = [marker EXCEPT ![At(e)] = Blank]
           /\ \E after \in {"insert", "failed"} : pc' = [pc EXCEPT ![e] = after]
           /\ UNCHANGED queue
  <2>1. /\ \A x \in Exec : At(x)' = At(x) /\ (x # e => pc'[x] = pc[x])
        /\ pc'[e] \in {"insert", "failed"}
        /\ \A d \in Slot : marker'[d] = IF d = At(e) THEN Blank ELSE marker[d]
    BY <1>1, <1>4 DEF At, TypeInv, TypeOK
  <2>2. tables[At(e)] = {}
    BY <1>1, <1>4 DEF Evidence, ClaimedEmpty
  <2>3. \A x \in Exec : pc[x] \in {"insert", "create", "completed", "compare"} => At(x) \in Slot
    BY AtType DEF TypeInv, HaveSlot, Claiming, Using
  <2>4. ClaimedEmpty'
    BY <1>2, <2>1, <2>2, <2>3 DEF Evidence, ClaimedEmpty, Inserting
  <2>5. AllListed'
    <3>1. \A c \in Cleaner : clean[c].slot \in Slot
      BY DEF TypeInv, TypeOK
    <3> QED
      BY <1>2, <2>1, <3>1, ValueAssumption DEF Evidence, AllListed, Dropping, Claimed
  <2>6. Loaded'
    BY <1>2, <2>1, <2>3, ValueAssumption DEF Evidence, Loaded, Finished
  <2>7. OwnRows' /\ GoneEmpty' /\ ReadOwn'
    BY <1>1, <1>2, <2>1, ValueAssumption DEF Evidence, OwnRows, GoneEmpty, ReadOwn
  <2> QED
    BY <2>4, <2>5, <2>6, <2>7 DEF Evidence
<1> QED
  BY <1>3, <1>4 DEF CreateMarker

LEMMA EvidenceInsert ==
    ASSUME EvidenceInv, NEW e \in Exec, InsertMarker(e)
    PROVE  Evidence'
<1> USE DEF EvidenceInv, PoolInv
<1>1. HasSlot(e) /\ pc[e] = "insert" /\ At(e) \in Slot
  BY AtType DEF InsertMarker, TypeInv, HaveSlot, Claiming
<1>2. /\ UNCHANGED <<tables, rows, todo, read, clean>>
      /\ \A x \in Exec : At(x)' = At(x) /\ (x # e => pc'[x] = pc[x])
      /\ pc'[e] \in {"readback", "failed"}
      /\ \A d \in Slot : marker'[d] = IF d = At(e) THEN e ELSE marker[d]
  BY <1>1 DEF InsertMarker, At, TypeInv, TypeOK
<1>3. tables[At(e)] = {} /\ \A t \in Table : rows[At(e)][t] = {}
  BY <1>1 DEF Evidence, ClaimedEmpty, Inserting, GoneEmpty
<1>4. \A x \in Exec : pc[x] \in {"insert", "create", "completed", "compare"} => At(x) \in Slot
  BY AtType DEF TypeInv, HaveSlot, Claiming, Using
<1>5. ClaimedEmpty'
  BY <1>2, <1>3, <1>4, ValueAssumption DEF Evidence, ClaimedEmpty, Inserting
<1>6. AllListed'
  <2>1. \A c \in Cleaner : clean[c].slot \in Slot
    BY DEF TypeInv, TypeOK
  <2>2. \A c \in Cleaner : Dropping(c) /\ Claimed(clean[c].seen) => clean[c].seen.mark # e
    BY <1>1 DEF Exclusion, ReleasesRested, Release, Dropping, Resting
  <2> QED
    BY <1>2, <2>1, <2>2 DEF Evidence, AllListed, Dropping, Claimed
<1>7. OwnRows' /\ GoneEmpty' /\ ReadOwn'
  BY <1>1, <1>2, <1>3 DEF Evidence, OwnRows, GoneEmpty, ReadOwn
<1>8. Loaded'
  BY <1>2, <1>3, <1>4 DEF Evidence, Loaded, Finished
<1> QED
  BY <1>5, <1>6, <1>7, <1>8 DEF Evidence

-----------------------------------------------------------------------------
(* The execution's own writes.                                             *)

\* A write of the owner, to its slot and to no other.
LEMMA EvidenceWrite ==
    ASSUME EvidenceInv, NEW e \in Exec, HasClaimed(e), pc[e] # "readback",
           NEW t \in Table,
           UNCHANGED <<marker, queue, read, clean>>,
           \A d \in Slot : d # At(e) => tables'[d] = tables[d] /\ rows'[d] = rows[d],
           tables[At(e)] \subseteq tables'[At(e)],
           \A u \in Table : u # t => rows'[At(e)][u] = rows[At(e)][u],
           \/ rows'[At(e)][t] = rows[At(e)][t]
           \/ t \in tables[At(e)] /\ rows'[At(e)][t] = rows[At(e)][t] \cup {e},
           \A x \in Exec : x # e => pc'[x] = pc[x] /\ todo'[x] = todo[x],
           pc'[e] \in {"failed", "prepare", "load", "completed"},
           pc'[e] = "load" => \A u \in Table \ todo'[e] : rows'[At(e)][u] = {e},
           pc'[e] = "completed" => \A u \in Table : rows'[At(e)][u] = {e}
    PROVE  Evidence'
<1> USE DEF EvidenceInv, PoolInv
<1>1. marker[At(e)] = e /\ At(e) \in Slot
  BY AtType DEF Exclusion, UserOwns, HasClaimed, TypeInv, HaveSlot, Claiming
<1>2. \A x \in Exec : At(x)' = At(x)
  BY DEF At
<1>3. ~Finished(e) => \A x \in Exec : Finished(x) /\ marker[At(x)] = x => At(x) # At(e) /\ x # e
  BY <1>1
<1>4. \A x \in Exec : pc[x] \in {"insert", "create", "completed", "compare", "load"} => At(x) \in Slot
  BY AtType DEF TypeInv, HaveSlot, Claiming, Using
<1>5. ClaimedEmpty'
  <2>1. ASSUME NEW x \in Exec,
               Inserting(x)' \/ (pc'[x] = "create" /\ marker[At(x)] = NoMarker)
        PROVE  tables'[At(x)] = {}
    <3>1. x # e /\ (Inserting(x) \/ (pc[x] = "create" /\ marker[At(x)] = NoMarker))
      BY <2>1 DEF Inserting
    <3>2. At(x) # At(e)
      BY <1>1, <3>1, ValueAssumption DEF Exclusion, BlankHasCreator
    <3> QED
      BY <1>4, <3>1, <3>2 DEF Evidence, ClaimedEmpty, Inserting
  <2> QED
    BY <1>2, <2>1 DEF ClaimedEmpty
<1>6. AllListed'
  <2>1. ASSUME NEW c \in Cleaner, Dropping(c), Claimed(clean[c].seen),
               marker[clean[c].slot] = clean[c].seen.mark
        PROVE  tables'[clean[c].slot] = clean[c].current.objects
    <3>1. Release(c) /\ clean[c].slot \in Slot
      BY <2>1 DEF Dropping, Release, TypeInv, TypeOK
    <3>2. clean[c].slot # At(e)
      BY <2>1, <3>1, Undropped
    <3> QED
      BY <2>1, <3>1, <3>2 DEF Evidence, AllListed
  <2> QED
    BY <2>1 DEF AllListed, Dropping, Claimed
<1>7. OwnRows'
  <2>1. ASSUME NEW d \in Slot, NEW u \in Table, marker[d] \in Exec
        PROVE  rows'[d][u] \subseteq {marker[d]}
    <3>1. rows[d][u] \subseteq {marker[d]}
      BY <2>1 DEF Evidence, OwnRows
    <3> QED
      BY <1>1, <2>1, <3>1
  <2> QED
    BY <2>1 DEF OwnRows
<1>8. GoneEmpty'
  <2>1. ASSUME NEW d \in Slot, NEW u \in Table, u \notin tables'[d]
        PROVE  rows'[d][u] = {}
    BY <1>1, <2>1 DEF Evidence, GoneEmpty
  <2> QED
    BY <2>1 DEF GoneEmpty
<1>9. Loaded'
  <2>1. ASSUME NEW x \in Exec, NEW u \in Table, x # e,
               \/ pc[x] = "load" /\ u \notin todo[x]
               \/ Finished(x) /\ marker[At(x)] = x /\ u \in tables'[At(x)]
        PROVE  rows'[At(x)][u] = {x}
    <3>1. At(x) \in Slot /\ marker[At(x)] = x
      BY <1>4, <2>1 DEF Finished, Exclusion, UserOwns, HasClaimed, Using
    <3>2. At(x) # At(e)
      BY <1>1, <2>1, <3>1
    <3> QED
      BY <2>1, <3>1, <3>2 DEF Evidence, Loaded
  <2>2. ASSUME NEW u \in Table,
               \/ pc'[e] = "load" /\ u \notin todo'[e]
               \/ Finished(e)'
        PROVE  rows'[At(e)][u] = {e}
    BY <2>2 DEF Finished
  <2> QED
    BY <1>2, <2>1, <2>2 DEF Loaded, Finished
<1>10. ReadOwn'
  BY DEF Evidence, ReadOwn
<1> QED
  BY <1>5, <1>6, <1>7, <1>8, <1>9, <1>10 DEF Evidence

\* Every step of an execution keeps the evidence.
LEMMA EvidenceExec ==
    ASSUME EvidenceInv, NEW e \in Exec,
           ClaimStep(e) \/ RunStep(e) \/ CompareStep(e)
    PROVE  Evidence'
<1> USE DEF EvidenceInv, PoolInv
<1> DEFINE Others == \A x \in Exec : x # e => /\ pc'[x] = pc[x] /\ queue'[x] = queue[x]
                                             /\ todo'[x] = todo[x] /\ read'[x] = read[x]
<1>1. CASE InspectSlot(e)
  <2>1. HasSlot(e) /\ pc[e] = "inspect" /\ UNCHANGED <<marker, tables, rows, todo, read, clean>>
    BY <1>1 DEF InspectSlot, slotVars, TypeInv, HaveSlot, Claiming
  <2>2. CASE TryNext(e)
    <3>1. /\ \A x \in Exec : x # e => queue'[x] = queue[x] /\ pc'[x] = pc[x]
          /\ pc'[e] \in {"failed", "inspect"}
      BY <2>1, <2>2, TryNextType DEF TypeInv
    <3> QED
      BY <2>1, <3>1, EvidenceQuiet
  <2>3. CASE FreeSlot(Inspect(At(e))) /\ pc' = [pc EXCEPT ![e] = "create"] /\ UNCHANGED queue
    <3>1. Others /\ pc'[e] = "create" /\ tables[At(e)] = {}
      BY <2>1, <2>3 DEF FreeSlot, Inspect, TypeInv, TypeOK
    <3> QED
      BY <2>1, <2>3, <3>1, EvidenceQuiet
  <2> QED
    BY <1>1, <2>2, <2>3 DEF InspectSlot
<1>2. CASE ReadBack(e) \/ Recheck(e)
  <2>1. Others /\ pc'[e] \in {"recheck", "prepare", "failed"}
    BY <1>2 DEF ReadBack, Recheck, CheckOwnership, TypeInv, TypeOK
  <2>2. UNCHANGED <<marker, tables, rows, clean>>
    BY <1>2 DEF ReadBack, Recheck, CheckOwnership, slotVars
  <2> QED
    BY <2>1, <2>2, EvidenceQuiet
<1>3. CASE BeginClaim(e)
  <2>1. Others /\ pc'[e] = "inspect" /\ UNCHANGED <<marker, tables, rows, clean>>
    BY <1>3 DEF BeginClaim, TypeInv, TypeOK, slotVars
  <2> QED
    BY <2>1, EvidenceQuiet
<1>4. CASE StopExec(e)
  <2>1. Others /\ pc'[e] \in {"failed", "killed"} /\ UNCHANGED <<marker, tables, rows, clean>>
    BY <1>4 DEF StopExec, TypeInv, TypeOK, slotVars
  <2> QED
    BY <2>1, EvidenceQuiet
<1>5. CASE StragglerEnds(e)
  <2>1. Others /\ pc'[e] = "failed" /\ UNCHANGED <<marker, tables, rows, clean>>
    BY <1>5 DEF StragglerEnds, TypeInv, HaveSlot, slotVars
  <2> QED
    BY <2>1, EvidenceQuiet
<1>6. ASSUME NEW t \in Table, CreateTable(e, t)
      PROVE  Evidence'
  <2>1. pc[e] = "prepare" /\ HasClaimed(e) /\ HasSlot(e) /\ At(e) \in Slot
    BY <1>6, AtType DEF CreateTable, HasClaimed, Using, TypeInv, HaveSlot
  <2>2. /\ \A d \in Slot : d # At(e) => tables'[d] = tables[d]
        /\ tables'[At(e)] = tables[At(e)] \cup {t}
        /\ UNCHANGED <<marker, rows, queue, read, clean>>
    BY <1>6, <2>1 DEF CreateTable, TypeInv, TypeOK
  <2>3. /\ \A x \in Exec : x # e => pc'[x] = pc[x] /\ todo'[x] = todo[x]
        /\ pc'[e] \in {"prepare", "load"}
        /\ pc'[e] = "load" => todo'[e] = Table
    BY <1>6 DEF CreateTable, Advance, TypeInv, TypeOK
  <2> QED
    BY <2>1, <2>2, <2>3, EvidenceWrite
<1>7. ASSUME NEW t \in Table, LoadTable(e, t)
      PROVE  Evidence'
  <2>1. pc[e] = "load" /\ HasClaimed(e) /\ HasSlot(e) /\ At(e) \in Slot /\ marker[At(e)] = e
    BY <1>7, AtType DEF LoadTable, HasClaimed, Using, TypeInv, HaveSlot, Exclusion, UserOwns
  <2>2. /\ \A d \in Slot : d # At(e) => rows'[d] = rows[d]
        /\ \A u \in Table : u # t => rows'[At(e)][u] = rows[At(e)][u]
        /\ rows'[At(e)][t] = rows[At(e)][t] \cup {e}
        /\ t \in tables[At(e)]
        /\ UNCHANGED <<marker, tables, queue, read, clean>>
    BY <1>7, <2>1 DEF LoadTable, TypeInv, TypeOK
  <2>3. rows'[At(e)][t] = {e}
    BY <2>1, <2>2 DEF Evidence, OwnRows
  <2>4. /\ \A x \in Exec : x # e => pc'[x] = pc[x] /\ todo'[x] = todo[x]
        /\ pc'[e] \in {"load", "completed"}
        /\ pc'[e] = "load" => todo'[e] = todo[e] \ {t}
        /\ pc'[e] = "completed" => todo[e] \ {t} = {}
    BY <1>7, <2>1 DEF LoadTable, Advance, TypeInv, TypeOK
  <2>5. \A u \in Table : u \notin todo[e] => rows[At(e)][u] = {e}
    BY <2>1 DEF Evidence, Loaded
  <2>6. \A u \in Table : u \notin todo[e] \ {t} => rows'[At(e)][u] = {e}
    BY <2>2, <2>3, <2>5
  <2>7. pc[e] # "readback"
    BY <2>1
  <2>8. pc'[e] = "load" => \A u \in Table \ todo'[e] : rows'[At(e)][u] = {e}
    BY <2>4, <2>6
  <2>9. pc'[e] = "completed" => \A u \in Table : rows'[At(e)][u] = {e}
    BY <2>4, <2>6
  <2> QED
    BY <2>1, <2>2, <2>4, <2>7, <2>8, <2>9, EvidenceWrite
<1>8. ASSUME NEW t \in Table, StragglerWrites(e, t)
      PROVE  Evidence'
  <2>1. pc[e] = "failed" /\ HasClaimed(e) /\ HasSlot(e) /\ At(e) \in Slot
    BY <1>8, AtType DEF StragglerWrites, HasClaimed, TypeInv, HaveSlot
  <2>2. /\ \A d \in Slot : d # At(e) => rows'[d] = rows[d]
        /\ \A u \in Table : u # t => rows'[At(e)][u] = rows[At(e)][u]
        /\ rows'[At(e)][t] = rows[At(e)][t] \cup {e}
        /\ t \in tables[At(e)]
        /\ UNCHANGED <<marker, tables, pc, todo, queue, read, clean>>
    BY <1>8, <2>1 DEF StragglerWrites, TypeInv, TypeOK, execVars
  <2> QED
    BY <2>1, <2>2, EvidenceWrite
<1>9. CASE BeginCompare(e)
  <2>1. /\ Others /\ pc[e] = "completed" /\ pc'[e] = "compare" /\ read'[e] = {}
        /\ UNCHANGED <<marker, tables, rows, clean, queue>>
    BY <1>9 DEF BeginCompare, TypeInv, TypeOK, slotVars
  <2> QED
    BY <2>1, EvidenceQuiet DEF Finished
<1>10. ASSUME NEW t \in Table, CompareTable(e, t)
       PROVE  Evidence'
  <2>1. /\ pc[e] = "compare" /\ UNCHANGED <<marker, tables, rows, clean, queue>>
        /\ marker[At(e)] = e
    BY <1>10 DEF CompareTable, slotVars, Exclusion, UserOwns, HasClaimed, Using
  <2>2. read[e] \subseteq {e}
    BY <2>1 DEF Evidence, ReadOwn
  <2>3. CASE /\ t \in tables[At(e)]
             /\ read' = [read EXCEPT ![e] = @ \cup rows[At(e)][t]]
             /\ Advance(e, t, "compared")
    <3>1. rows[At(e)][t] = {e}
      BY <2>1, <2>3 DEF Evidence, Loaded, Finished
    <3>2. Others /\ pc'[e] \in {"compare", "compared"} /\ read'[e] = {e}
      BY <1>10, <2>1, <2>2, <2>3, <3>1 DEF CompareTable, Advance, TypeInv, TypeOK
    <3> QED
      BY <2>1, <3>2, EvidenceQuiet DEF Finished
  <2>4. CASE pc' = [pc EXCEPT ![e] = "completed"] /\ UNCHANGED <<todo, read>>
    <3>1. Others /\ pc'[e] = "completed"
      BY <2>1, <2>4 DEF TypeInv, TypeOK
    <3> QED
      BY <2>1, <3>1, EvidenceQuiet DEF Finished
  <2> QED
    BY <1>10, <2>3, <2>4 DEF CompareTable
<1>11. CASE CreateMarker(e)
  BY <1>11, EvidenceCreate
<1>12. CASE InsertMarker(e)
  BY <1>12, EvidenceInsert
<1> QED
  BY <1>1, <1>2, <1>3, <1>4, <1>5, <1>6, <1>7, <1>8, <1>9, <1>10, <1>11, <1>12
  DEF ClaimStep, RunStep, CompareStep

-----------------------------------------------------------------------------
(* The releases.                                                           *)

\* A release step that touches no slot.
LEMMA EvidenceLook ==
    ASSUME EvidenceInv, NEW c \in Cleaner, UNCHANGED <<slotVars, execVars>>,
           \A b \in Cleaner : b # c => clean'[b] = clean[b],
           Dropping(c)' /\ Claimed(clean'[c].seen) =>
               tables[clean'[c].slot] = clean'[c].current.objects
               \/ marker[clean'[c].slot] # clean'[c].seen.mark
    PROVE  Evidence'
<1> USE DEF EvidenceInv
<1>1. UNCHANGED <<marker, tables, rows, pc, queue, todo, read>>
  BY DEF slotVars, execVars
<1>2. \A x \in Exec : At(x)' = At(x)
  BY <1>1 DEF At
<1>3. AllListed'
  BY <1>1 DEF Evidence, AllListed, Dropping, Claimed
<1> QED
  BY <1>1, <1>2, <1>3
  DEF Evidence, ClaimedEmpty, GoneEmpty, OwnRows, Loaded, ReadOwn, Inserting, Finished

\* What a release drops, and what it leaves to the next.
LEMMA EvidenceDrop ==
    ASSUME EvidenceInv, NEW c \in Cleaner, NEW t \in Table, DropTable(c, t)
    PROVE  Evidence'
<1> USE DEF EvidenceInv, PoolInv
<1> DEFINE d == clean[c].slot
<1>1. /\ d \in Slot /\ clean[c] \in CleanRecord
      /\ \A b \in Cleaner : clean[b].slot \in Slot
  BY DEF TypeInv, TypeOK, CleanRecord
<1>2. /\ \A s \in Slot : s # d => tables'[s] = tables[s] /\ rows'[s] = rows[s]
      /\ tables'[d] = tables[d] \ {t}
      /\ \A u \in Table : u # t => rows'[d][u] = rows[d][u]
      /\ rows'[d][t] = {}
      /\ UNCHANGED <<marker, pc, queue, todo, read>>
  BY <1>1 DEF DropTable, TypeInv, TypeOK, execVars
<1>3. \A x \in Exec : At(x)' = At(x)
  BY <1>2 DEF At
<1>4. Release(c) /\ clean[c].stage = "drop" /\ ~FreeSlot(clean[c].current)
  BY DEF DropTable, Release, FreeSlot
<1>5. \A x \in Exec : HasClaimed(x) => At(x) # d
  BY <1>4, Undropped
<1>6. \A x \in Exec : Inserting(x) \/ pc[x] \in {"create", "load", "completed", "compare"} => At(x) \in Slot
  BY AtType DEF TypeInv, HaveSlot, Claiming, Using, Inserting
<1>7. ClaimedEmpty'
  BY <1>1, <1>2, <1>3, <1>6 DEF Evidence, ClaimedEmpty, Inserting
<1>8. GoneEmpty' /\ OwnRows' /\ ReadOwn'
  BY <1>1, <1>2 DEF Evidence, GoneEmpty, OwnRows, ReadOwn
<1>9. Loaded'
  <2>1. ASSUME NEW x \in Exec, NEW u \in Table,
               \/ pc[x] = "load" /\ u \notin todo[x]
               \/ Finished(x) /\ marker[At(x)] = x /\ u \in tables'[At(x)]
        PROVE  rows'[At(x)][u] = {x}
    <3>1. At(x) \in Slot
      BY <1>6, <2>1 DEF Finished
    <3>2. pc[x] = "load" => At(x) # d
      BY <1>5 DEF HasClaimed, Using
    <3>3. rows[At(x)][u] = {x}
      BY <1>2, <2>1, <3>1 DEF Evidence, Loaded
    <3>4. At(x) = d => u # t
      BY <1>2, <2>1, <3>2
    <3> QED
      BY <1>2, <3>1, <3>3, <3>4
  <2> QED
    BY <1>2, <1>3, <2>1 DEF Loaded, Finished
<1>10. AllListed'
  <2>1. ASSUME NEW b \in Cleaner, b # c, Dropping(b), Claimed(clean[b].seen),
               marker[clean[b].slot] = clean[b].seen.mark
        PROVE  tables'[clean[b].slot] = clean[b].current.objects
    <3>1. clean[b].slot # d
      BY <1>4, <2>1 DEF Exclusion, OneDropper, Dropping
    <3> QED
      BY <1>1, <1>2, <2>1, <3>1 DEF Evidence, AllListed
  <2>2. ASSUME Dropping(c)', Claimed(clean[c].seen), marker[d] = clean[c].seen.mark
        PROVE  /\ clean'[c].slot = d /\ clean'[c].seen = clean[c].seen
               /\ clean'[c].current.objects = tables'[d]
    <3>1. clean' = GoesOn(c, [clean[c].current EXCEPT !.objects = @ \ {t}], "drop")
      BY <2>2 DEF DropTable, Dropping, Ends, Idle, TypeInv, TypeOK
    <3>2. /\ clean'[c].slot = d /\ clean'[c].seen = clean[c].seen
          /\ clean'[c].current.objects = clean[c].current.objects \ {t}
      BY <1>1, <3>1 DEF GoesOn, TypeInv, TypeOK, CleanRecord, Inspection
    <3>3. tables[d] = clean[c].current.objects
      BY <1>4, <2>2 DEF Evidence, AllListed, Dropping
    <3> QED
      BY <1>2, <3>2, <3>3
  <2>3. \A b \in Cleaner : b # c => clean'[b] = clean[b]
    BY DEF DropTable, GoesOn, Ends, TypeInv, TypeOK
  <2>4. ASSUME Dropping(c)'
        PROVE  clean'[c].slot = d /\ clean'[c].seen = clean[c].seen
    <3>1. clean' = GoesOn(c, [clean[c].current EXCEPT !.objects = @ \ {t}], "drop")
      BY <2>4 DEF DropTable, Dropping, Ends, Idle, TypeInv, TypeOK
    <3> QED
      BY <3>1 DEF GoesOn, TypeInv, TypeOK
  <2> HIDE DEF d
  <2> QED
    BY <1>2, <2>1, <2>2, <2>3, <2>4 DEF AllListed, Dropping, Claimed
<1> QED
  BY <1>7, <1>8, <1>9, <1>10 DEF Evidence

\* When a release takes a marker away, the slot has no tables left.
LEMMA MarkerLast ==
    ASSUME EvidenceInv, NEW c \in Cleaner, DropMarker(c),
           NEW d \in Slot, marker'[d] # marker[d]
    PROVE  /\ d = clean[c].slot /\ marker'[d] = NoMarker /\ tables[d] = {}
           /\ marker[d] \in Exec =>
                /\ clean[c].seen.mark = marker[d]
                /\ pc[marker[d]] \in Resting /\ ~late[marker[d]]
<1> USE DEF EvidenceInv, PoolInv
<1>1. /\ d = clean[c].slot /\ marker'[d] = NoMarker /\ clean[c].current.mark # NoMarker
      /\ Release(c) /\ clean[c].stage = "drop" /\ clean[c].current.objects = {}
  BY DEF DropMarker, TypeInv, TypeOK, Release
<1>2. CASE Claimed(clean[c].seen)
  <2>1. marker[d] = clean[c].seen.mark
    BY <1>1, <1>2 DEF Exclusion, ReleasesOnlySeenOwner
  <2>2. tables[d] = {}
    BY <1>1, <1>2, <2>1 DEF Evidence, AllListed, Dropping
  <2> QED
    BY <1>1, <1>2, <2>1, <2>2 DEF Exclusion, ReleasesRested
<1>3. CASE ~Claimed(clean[c].seen)
  <2>1. Inspect(d) = clean[c].current /\ clean[c].current.mark \notin Exec
    BY <1>1, <1>3 DEF Exclusion, OwnerlessStill, Ownerless, Still, Left, FreeSlot
  <2> QED
    BY <1>1, <2>1 DEF Inspect
<1> QED
  BY <1>2, <1>3

LEMMA EvidenceClean ==
    ASSUME EvidenceInv, Disciplined, NEW c \in Cleaner, CleanStep(c)
    PROVE  Evidence'
<1> USE DEF EvidenceInv, PoolInv
<1>1. ASSUME NEW d \in Slot, Survey(c, d)
      PROVE  Evidence'
  <2>1. /\ clean'[c].stage = "list" /\ \A b \in Cleaner : b # c => clean'[b] = clean[b]
        /\ UNCHANGED <<slotVars, execVars>>
    BY <1>1 DEF Survey, TypeInv, TypeOK
  <2> QED
    BY <2>1, EvidenceLook DEF Dropping
<1>2. CASE AbortRelease(c)
  <2>1. /\ clean'[c].stage = "idle" /\ \A b \in Cleaner : b # c => clean'[b] = clean[b]
        /\ UNCHANGED <<slotVars, execVars>>
    BY <1>2 DEF AbortRelease, Ends, Idle, TypeInv, TypeOK
  <2> QED
    BY <2>1, EvidenceLook DEF Dropping
<1>3. CASE ListSlot(c)
  <2>1. /\ \A b \in Cleaner : b # c => clean'[b] = clean[b]
        /\ UNCHANGED <<slotVars, execVars>>
    BY <1>3 DEF ListSlot, GoesOn, Ends, TypeInv, TypeOK
  <2>2. Dropping(c)' => /\ clean'[c].slot = clean[c].slot
                        /\ clean'[c].current.objects = tables[clean[c].slot]
    BY <1>3 DEF ListSlot, Dropping, GoesOn, Ends, Idle, Inspect, TypeInv, TypeOK
  <2> QED
    BY <2>1, <2>2, EvidenceLook
<1>4. CASE ReadMarker(c)
  <2>1. /\ \A b \in Cleaner : b # c => clean'[b] = clean[b]
        /\ UNCHANGED <<slotVars, execVars>> /\ Dropping(c)
    BY <1>4 DEF ReadMarker, GoesOn, Ends, Dropping, TypeInv, TypeOK
  <2>2. Dropping(c)' => /\ clean'[c].slot = clean[c].slot /\ clean'[c].seen = clean[c].seen
                        /\ clean'[c].current.objects = clean[c].current.objects
    BY <1>4 DEF ReadMarker, Dropping, GoesOn, Ends, Idle, TypeInv, TypeOK, Inspection
  <2>3. Dropping(c)' /\ Claimed(clean'[c].seen) =>
            tables[clean'[c].slot] = clean'[c].current.objects
            \/ marker[clean'[c].slot] # clean'[c].seen.mark
    BY <2>1, <2>2 DEF Evidence, AllListed
  <2> QED
    BY <2>1, <2>3, EvidenceLook
<1>5. ASSUME NEW t \in Table, DropTable(c, t)
      PROVE  Evidence'
  BY <1>5, EvidenceDrop
<1>6. CASE DropMarker(c)
  <2>1. /\ UNCHANGED <<tables, rows, pc, queue, todo, read>>
        /\ \A b \in Cleaner : Dropping(b)' => Dropping(b) /\ clean'[b] = clean[b]
    BY <1>6 DEF DropMarker, execVars, Ends, Idle, Dropping, TypeInv, TypeOK
  <2>2. \A d \in Slot : marker'[d] # marker[d] => marker'[d] = NoMarker /\ tables[d] = {}
    BY <1>6, MarkerLast
  <2>3. /\ \A x \in Exec : At(x)' = At(x)
        /\ \A b \in Cleaner : clean[b].slot \in Slot
        /\ \A x \in Exec : Inserting(x) \/ pc[x] \in {"create", "load", "completed", "compare"} =>
             At(x) \in Slot
    BY <2>1, AtType DEF At, TypeInv, TypeOK, HaveSlot, Claiming, Using, Inserting
  <2>4. ClaimedEmpty'
    BY <2>1, <2>2, <2>3 DEF Evidence, ClaimedEmpty, Inserting
  <2>5. AllListed'
    BY <2>1, <2>2, <2>3, ValueAssumption DEF Evidence, AllListed, Claimed
  <2>6. OwnRows' /\ GoneEmpty' /\ ReadOwn'
    BY <2>1, <2>2, ValueAssumption DEF Evidence, OwnRows, GoneEmpty, ReadOwn
  <2>7. Loaded'
    BY <2>1, <2>2, <2>3, ValueAssumption DEF Evidence, Loaded, Finished
  <2> QED
    BY <2>4, <2>5, <2>6, <2>7 DEF Evidence
<1> QED
  BY <1>1, <1>2, <1>3, <1>4, <1>5, <1>6 DEF CleanStep

LEMMA EvidenceInductive ==
    ASSUME Disciplined
    PROVE  Spec => []EvidenceInv
<1>1. Init => EvidenceInv
  BY TypeInit, ExclusionInit, EvidenceInit DEF PoolInv, EvidenceInv
<1>2. EvidenceInv /\ PoolInv' /\ [Next]_vars => EvidenceInv'
  <2>1. ASSUME Evidence, UNCHANGED vars PROVE Evidence'
    BY <2>1 DEF vars, slotVars, execVars, Evidence, ClaimedEmpty, AllListed, GoneEmpty, OwnRows,
       Loaded, ReadOwn, Inserting, Finished, Dropping, Claimed, At
  <2>2. ASSUME EvidenceInv, Next PROVE Evidence'
    BY <2>2, EvidenceExec, EvidenceClean DEF Next
  <2> QED
    BY <2>1, <2>2 DEF EvidenceInv
<1> QED
  BY <1>1, <1>2, PoolInductive, PTL DEF Spec

\* A comparison that reaches a verdict has read its own execution's rows from
\* every table and no others, whatever was claimed, released or killed meanwhile.
THEOREM VerdictOwn ==
    ASSUME Disciplined
    PROVE  Spec => []VerdictOnOwnRows
<1>1. EvidenceInv => VerdictOnOwnRows
  BY DEF EvidenceInv, Evidence, ReadOwn, VerdictOnOwnRows
<1> QED
  BY <1>1, EvidenceInductive, PTL

\* A marker changes by a claim, in a slot that had no owner, or by the last
\* statement of a release.
LEMMA MarkerSteps ==
    ASSUME EvidenceInv, Next, NEW d \in Slot, marker'[d] # marker[d]
    PROVE  \/ marker[d] \notin Exec /\ marker'[d] # NoMarker
           \/ \E c \in Cleaner : DropMarker(c)
<1> USE DEF EvidenceInv, PoolInv
<1>1. CASE \E e \in Exec : CreateMarker(e)
  <2>1. PICK e \in Exec : CreateMarker(e)
    BY <1>1
  <2>2. HasSlot(e) /\ At(e) \in Slot
    BY <2>1, AtType DEF CreateMarker, TypeInv, HaveSlot, Claiming
  <2>3. marker[At(e)] = NoMarker /\ marker' = [marker EXCEPT ![At(e)] = Blank]
    BY <2>1 DEF CreateMarker
  <2> QED
    BY <2>2, <2>3, ValueAssumption DEF TypeInv, TypeOK
<1>2. CASE \E e \in Exec : InsertMarker(e)
  <2>1. PICK e \in Exec : InsertMarker(e)
    BY <1>2
  <2>2. HasSlot(e) /\ At(e) \in Slot /\ marker[At(e)] = Blank
    BY <2>1, AtType DEF InsertMarker, TypeInv, HaveSlot, Claiming, Exclusion, BlankHasCreator,
       Inserting
  <2>3. marker' = [marker EXCEPT ![At(e)] = e]
    BY <2>1 DEF InsertMarker
  <2> QED
    BY <2>2, <2>3, ValueAssumption DEF TypeInv, TypeOK
<1>3. CASE \E e \in Exec : InspectSlot(e) \/ ReadBack(e) \/ RunStep(e) \/ CompareStep(e)
  BY <1>3 DEF InspectSlot, ReadBack, CheckOwnership, RunStep, CompareStep, BeginClaim, Recheck,
     StopExec, CreateTable, LoadTable, StragglerWrites, StragglerEnds, BeginCompare, CompareTable,
     slotVars
<1>4. CASE \E c \in Cleaner : CleanStep(c)
  BY <1>4 DEF CleanStep, Survey, ListSlot, ReadMarker, AbortRelease, DropTable, slotVars
<1> QED
  BY <1>1, <1>2, <1>3, <1>4 DEF Next, ClaimStep

\* A table appears only in a slot its creator has claimed.
LEMMA TableSteps ==
    ASSUME EvidenceInv, Next, NEW d \in Slot, ~(tables'[d] \subseteq tables[d])
    PROVE  marker[d] \in Exec /\ UNCHANGED marker
<1> USE DEF EvidenceInv, PoolInv
<1>1. CASE \E e \in Exec, t \in Table : CreateTable(e, t)
  <2>1. PICK e \in Exec, t \in Table : CreateTable(e, t)
    BY <1>1
  <2>2. marker[At(e)] = e /\ tables' = [tables EXCEPT ![At(e)] = @ \cup {t}]
    BY <2>1 DEF CreateTable, Exclusion, UserOwns, HasClaimed, Using
  <2>3. d = At(e)
    BY <2>2 DEF TypeInv, TypeOK
  <2> QED
    BY <2>1, <2>2, <2>3 DEF CreateTable
<1>2. CASE \E c \in Cleaner, t \in Table : DropTable(c, t)
  <2>1. PICK c \in Cleaner, t \in Table : tables' = [tables EXCEPT ![clean[c].slot] = @ \ {t}]
    BY <1>2 DEF DropTable
  <2> QED
    BY <2>1 DEF TypeInv, TypeOK
<1>3. CASE UNCHANGED tables
  BY <1>3
<1>4. CASE \E e \in Exec : ClaimStep(e) \/ CompareStep(e)
  BY <1>3, <1>4 DEF ClaimStep, CompareStep, InspectSlot, CreateMarker, InsertMarker, ReadBack,
     CheckOwnership, BeginCompare, CompareTable, slotVars
<1>5. CASE \E e \in Exec : RunStep(e)
  BY <1>1, <1>3, <1>5 DEF RunStep, BeginClaim, Recheck, CheckOwnership, StopExec, LoadTable,
     StragglerWrites, StragglerEnds, slotVars
<1>6. CASE \E c \in Cleaner : CleanStep(c)
  BY <1>2, <1>3, <1>6 DEF CleanStep, Survey, ListSlot, ReadMarker, DropMarker, AbortRelease, slotVars
<1> QED
  BY <1>4, <1>5, <1>6 DEF Next

\* No step, a crash included, leaves tables in a slot without a marker where there
\* were none: a release drops the marker of a slot that is empty by then.
THEOREM NoOrphans ==
    ASSUME Disciplined
    PROVE  Spec => NoNewOrphans
<1>1. ASSUME EvidenceInv, [Next]_vars
      PROVE  [\A d \in Slot : Orphaned(d)' => Orphaned(d)]_vars
  <2> SUFFICES ASSUME Next, NEW d \in Slot, marker'[d] = NoMarker, tables'[d] # {}
               PROVE  marker[d] = NoMarker /\ tables[d] # {}
    BY <1>1 DEF Orphaned
  <2>1. CASE marker'[d] # marker[d]
    <3>1. PICK c \in Cleaner : DropMarker(c)
      BY <1>1, <2>1, MarkerSteps
    <3>2. tables[d] = {}
      BY <1>1, <2>1, <3>1, MarkerLast
    <3>3. UNCHANGED tables
      BY <3>1 DEF DropMarker
    <3> QED
      BY <3>2, <3>3
  <2>2. CASE marker'[d] = marker[d]
    <3>1. marker[d] \notin Exec
      BY <2>2, ValueAssumption
    <3>2. tables'[d] \subseteq tables[d]
      BY <1>1, <3>1, TableSteps
    <3> QED
      BY <2>2, <3>2
  <2> QED
    BY <2>1, <2>2
<1> QED
  BY <1>1, EvidenceInductive, PTL DEF Spec, NoNewOrphans

\* An ownership row goes only in a release that selected this owner, when the owner
\* is at rest, none of its statements runs and none of its tables is left.
THEOREM OwnerKept ==
    ASSUME Disciplined
    PROVE  Spec => OwnerKeptUntilReleased
<1>1. ASSUME EvidenceInv, Next, NEW d \in Slot, marker[d] \in Exec, marker'[d] # marker[d]
      PROVE  /\ marker'[d] = NoMarker
             /\ tables[d] = {}
             /\ pc[marker[d]] \in Resting \cup {"compare"} /\ ~late[marker[d]]
             /\ \E c \in Cleaner : clean[c].slot = d /\ clean[c].seen.mark = marker[d]
  <2>1. PICK c \in Cleaner : DropMarker(c)
    BY <1>1, MarkerSteps
  <2> QED
    BY <1>1, <2>1, MarkerLast
<1>2. EvidenceInv /\ [Next]_vars =>
        [\A d \in Slot : marker[d] \in Exec /\ marker'[d] # marker[d] =>
           /\ marker'[d] = NoMarker
           /\ tables[d] = {}
           /\ pc[marker[d]] \in Resting \cup {"compare"} /\ ~late[marker[d]]
           /\ \E c \in Cleaner : clean[c].slot = d /\ clean[c].seen.mark = marker[d]]_vars
  BY <1>1
<1> QED
  BY <1>2, EvidenceInductive, PTL DEF Spec, OwnerKeptUntilReleased

-----------------------------------------------------------------------------
(* The pool implements the lease: the ownership row is the lease, and an   *)
(* execution works from its readback to the end of its last statement, and *)
(* again while it is compared.                                             *)
LeaseOf(d) == IF marker[d] \in Exec THEN marker[d] ELSE NoMarker
Workers == {<<e, At(e)>> : e \in {x \in Exec : Active(x)}}

\* A step of one execution that grants nothing starts its work, ends it or
\* neither.
LEMMA LeaseQuiet ==
    ASSUME TypeInv, TypeInv', Exclusion', NEW e \in Exec, UNCHANGED marker,
           \A x \in Exec : x # e => /\ pc'[x] = pc[x] /\ late'[x] = late[x]
                                    /\ queue'[x] = queue[x],
           Active(e) \/ Active(e)' => queue'[e] = queue[e]
    PROVE  [Lease!Next]_Lease!vars
<1>1. \A x \in Exec : queue'[x] = queue[x] => At(x)' = At(x)
  BY DEF At
<1>2. \A x \in Exec : x # e => Active(x)' = Active(x) /\ At(x)' = At(x)
  BY <1>1 DEF Active
<1>3. UNCHANGED [d \in Slot |-> LeaseOf(d)]
  BY DEF LeaseOf
<1>4. CASE Active(e)' = Active(e)
  <2>1. Workers' = Workers
    BY <1>1, <1>2, <1>4 DEF Workers
  <2> QED
    BY <1>3, <2>1 DEF Lease!vars, Workers, LeaseOf
<1>5. CASE Active(e)' /\ ~Active(e)
  <2>1. At(e)' = At(e) /\ Workers' = Workers \cup {<<e, At(e)>>}
    BY <1>1, <1>2, <1>5 DEF Workers
  <2>2. HasClaimed(e)' /\ HasSlot(e)'
    BY <1>5 DEF HasClaimed, Active, TypeInv, HaveSlot
  <2>3. marker'[At(e)'] = e
    BY <2>2 DEF Exclusion, UserOwns
  <2>4. At(e) \in Slot
    BY <2>1, <2>2, TailType DEF TypeInv, TypeOK, HasSlot, At
  <2>5. [d \in Slot |-> LeaseOf(d)][At(e)] = e
    BY <2>1, <2>3, <2>4 DEF LeaseOf
  <2>6. PICK s \in Slot : s = At(e)
    BY <2>4
  <2>7. Lease!Work(e, s)
    BY <1>3, <2>1, <2>5, <2>6 DEF Lease!Work, Workers, LeaseOf
  <2>8. Lease!Next
    BY <2>7 DEF Lease!Next
  <2> QED
    BY <2>8
<1>6. CASE ~Active(e)' /\ Active(e)
  <2>1. Workers' = Workers \ {<<e, At(e)>>}
    BY <1>1, <1>2, <1>6 DEF Workers
  <2>2. HasSlot(e)
    BY <1>6 DEF Active, TypeInv, HaveSlot
  <2>3. PICK s \in Slot : s = At(e)
    BY <2>2, AtType DEF TypeInv
  <2>4. Lease!Stop(e, s)
    BY <1>3, <2>1, <2>3 DEF Lease!Stop, Workers, LeaseOf
  <2>5. Lease!Next
    BY <2>4 DEF Lease!Next
  <2> QED
    BY <2>5
<1> QED
  BY <1>4, <1>5, <1>6 DEF Active

\* The row grants the lease, to an execution that has no other.
LEMMA LeaseGrant ==
    ASSUME PoolInv, NEW e \in Exec, InsertMarker(e)
    PROVE  Lease!Next
<1> USE DEF PoolInv
<1>1. /\ HasSlot(e) /\ pc[e] = "insert" /\ At(e) \in Slot /\ marker[At(e)] = Blank
      /\ ~late[e]
  BY AtType DEF InsertMarker, TypeInv, HaveSlot, Claiming, Exclusion, BlankHasCreator, Inserting
<1>2. /\ \A x \in Exec : /\ At(x)' = At(x) /\ late'[x] = late[x]
                         /\ x # e => pc'[x] = pc[x]
      /\ pc'[e] \in {"readback", "failed"}
      /\ \A d \in Slot : marker'[d] = IF d = At(e) THEN e ELSE marker[d]
  BY <1>1 DEF InsertMarker, At, TypeInv, TypeOK
<1>3. Workers' = Workers
  <2>1. \A x \in Exec : Active(x)' = Active(x)
    BY <1>1, <1>2 DEF Active, Using
  <2> QED
    BY <1>2, <2>1 DEF Workers
<1>4. \A d \in Slot : LeaseOf(d) # e
  BY <1>1, ValueAssumption DEF LeaseOf, Exclusion, MarkerAtSlot
<1>5. LeaseOf(At(e)) = NoMarker
  BY <1>1, ValueAssumption DEF LeaseOf
<1>6. [d \in Slot |-> LeaseOf(d)]' = [[d \in Slot |-> LeaseOf(d)] EXCEPT ![At(e)] = e]
  BY <1>1, <1>2 DEF LeaseOf
<1>7. PICK s \in Slot : s = At(e)
  BY <1>1
<1>8. Lease!Grant(e, s)
  BY <1>1, <1>3, <1>4, <1>5, <1>6, <1>7 DEF Lease!Grant, Workers, LeaseOf
<1> QED
  BY <1>8 DEF Lease!Next

\* The release of the marker returns the lease, of an execution at rest.
LEMMA LeaseReturn ==
    ASSUME EvidenceInv, NEW c \in Cleaner, DropMarker(c)
    PROVE  [Lease!Next]_Lease!vars
<1> USE DEF EvidenceInv, PoolInv
<1>1. clean[c].slot \in Slot /\ UNCHANGED execVars
  BY DEF DropMarker, TypeInv, TypeOK
<1>2. PICK d \in Slot : d = clean[c].slot
  BY <1>1
<1>3. Workers' = Workers
  <2>1. \A x \in Exec : Active(x)' = Active(x) /\ At(x)' = At(x)
    BY <1>1 DEF Active, At, execVars
  <2> QED
    BY <2>1 DEF Workers
<1>4. \A s \in Slot : marker'[s] # marker[s] => s = d /\ marker'[s] = NoMarker
  BY <1>2, MarkerLast
<1>5. CASE marker'[d] # marker[d] /\ marker[d] \in Exec
  <2>1. /\ marker'[d] = NoMarker
        /\ pc[marker[d]] \in Resting /\ ~late[marker[d]]
    BY <1>5, MarkerLast
  <2>2. \A e \in Exec : Active(e) => At(e) # d
    BY <1>5, <2>1 DEF Exclusion, UserOwns, HasClaimed, Active, Using, Resting
  <2>3. \A e \in Exec : <<e, d>> \notin Workers
    BY <2>2 DEF Workers
  <2>4. [s \in Slot |-> LeaseOf(s)]' = [[s \in Slot |-> LeaseOf(s)] EXCEPT ![d] = NoMarker]
    BY <1>4, <2>1, ValueAssumption DEF LeaseOf
  <2>5. Lease!Return(d)
    BY <1>3, <2>3, <2>4 DEF Lease!Return, Workers, LeaseOf
  <2>6. Lease!Next
    BY <2>5 DEF Lease!Next
  <2> QED
    BY <2>6
<1>6. CASE marker'[d] = marker[d] \/ marker[d] \notin Exec
  <2>1. \A s \in Slot : LeaseOf(s)' = LeaseOf(s)
    BY <1>4, <1>6, ValueAssumption DEF LeaseOf
  <2>2. UNCHANGED [s \in Slot |-> LeaseOf(s)]
    BY <2>1
  <2> QED
    BY <1>3, <2>2 DEF Lease!vars, Workers, LeaseOf
<1> QED
  BY <1>5, <1>6

\* A step that moves no marker out of the hands of an execution or into them, and
\* no execution to or from its work.
LEMMA LeaseStutter ==
    ASSUME UNCHANGED execVars, \A d \in Slot : marker'[d] = marker[d]
    PROVE  UNCHANGED Lease!vars
BY DEF Lease!vars, LeaseOf, Active, At, execVars

LEMMA LeaseStep ==
    ASSUME EvidenceInv, EvidenceInv', Next
    PROVE  [Lease!Next]_Lease!vars
<1> USE DEF EvidenceInv, PoolInv
<1> DEFINE Others(e) == \A x \in Exec : x # e => /\ pc'[x] = pc[x] /\ late'[x] = late[x]
                                                /\ queue'[x] = queue[x]
<1>1. ASSUME NEW e \in Exec, UNCHANGED <<marker, queue>>, Others(e)
      PROVE  [Lease!Next]_Lease!vars
  BY <1>1, LeaseQuiet
<1>2. ASSUME NEW e \in Exec, HasSlot(e), TryNext(e), UNCHANGED <<marker, late>>,
             pc[e] \in {"inspect", "create"}
      PROVE  [Lease!Next]_Lease!vars
  <2>1. Others(e) /\ pc'[e] \in {"failed", "inspect"}
    BY <1>2, TryNextType DEF TypeInv
  <2>2. ~Active(e) /\ ~Active(e)'
    BY <1>2, <2>1 DEF Active, Using, TypeInv, HaveSlot
  <2> QED
    BY <1>2, <2>1, <2>2, LeaseQuiet
<1>3. ASSUME NEW e \in Exec, ClaimStep(e)
      PROVE  [Lease!Next]_Lease!vars
  <2>1. CASE InspectSlot(e)
    <3>1. HasSlot(e) /\ pc[e] = "inspect" /\ UNCHANGED <<marker, late>>
      BY <2>1 DEF InspectSlot, slotVars, TypeInv, HaveSlot, Claiming
    <3>2. CASE pc' = [pc EXCEPT ![e] = "create"] /\ UNCHANGED queue
      BY <1>1, <3>1, <3>2 DEF TypeInv, TypeOK
    <3> QED
      BY <1>2, <2>1, <3>1, <3>2 DEF InspectSlot
  <2>2. CASE CreateMarker(e)
    <3>1. HasSlot(e) /\ pc[e] = "create" /\ At(e) \in Slot /\ UNCHANGED <<late, todo>>
      BY <2>2, AtType DEF CreateMarker, TypeInv, HaveSlot, Claiming
    <3>2. CASE TryNext(e) /\ UNCHANGED marker
      BY <1>2, <3>1, <3>2
    <3>3. CASE /\ marker[At(e)] = NoMarker
               /\ marker' = [marker EXCEPT ![At(e)] = Blank]
               /\ \E after \in {"insert", "failed"} : pc' = [pc EXCEPT ![e] = after]
               /\ UNCHANGED queue
      <4>1. /\ \A x \in Exec : At(x)' = At(x) /\ (x # e => pc'[x] = pc[x])
            /\ pc'[e] \in {"insert", "failed"}
            /\ \A d \in Slot : marker'[d] = IF d = At(e) THEN Blank ELSE marker[d]
        BY <3>1, <3>3 DEF At, TypeInv, TypeOK
      <4>2. \A x \in Exec : Active(x)' = Active(x)
        BY <3>1, <4>1 DEF Active, Using
      <4>3. UNCHANGED [d \in Slot |-> LeaseOf(d)]
        BY <3>1, <3>3, <4>1, ValueAssumption DEF LeaseOf
      <4>4. Workers' = Workers
        BY <4>1, <4>2 DEF Workers
      <4> QED
        BY <4>3, <4>4 DEF Lease!vars, Workers, LeaseOf
    <3> QED
      BY <2>2, <3>2, <3>3 DEF CreateMarker
  <2>3. CASE InsertMarker(e)
    BY <2>3, LeaseGrant
  <2>4. CASE ReadBack(e)
    <3>1. UNCHANGED <<marker, queue>> /\ Others(e)
      BY <2>4 DEF ReadBack, CheckOwnership, slotVars, TypeInv, TypeOK
    <3> QED
      BY <1>1, <3>1
  <2> QED
    BY <1>3, <2>1, <2>2, <2>3, <2>4 DEF ClaimStep
<1>4. ASSUME NEW e \in Exec, RunStep(e)
      PROVE  [Lease!Next]_Lease!vars
  <2>1. CASE BeginClaim(e)
    <3>1. /\ Others(e) /\ UNCHANGED <<marker, late>> /\ pc[e] = "idle" /\ pc'[e] = "inspect"
      BY <2>1 DEF BeginClaim, slotVars, TypeInv, TypeOK
    <3>2. ~Active(e) /\ ~Active(e)'
      BY <3>1 DEF Active, Using, TypeInv, HaveSlot
    <3> QED
      BY <3>1, <3>2, LeaseQuiet
  <2>2. CASE Recheck(e) \/ StopExec(e) \/ StragglerEnds(e)
    <3>1. UNCHANGED <<marker, queue>> /\ Others(e)
      BY <2>2 DEF Recheck, CheckOwnership, StopExec, StragglerEnds, slotVars, TypeInv, TypeOK
    <3> QED
      BY <1>1, <3>1
  <2>3. ASSUME NEW t \in Table, CreateTable(e, t) \/ LoadTable(e, t) \/ StragglerWrites(e, t)
        PROVE  [Lease!Next]_Lease!vars
    <3>1. UNCHANGED <<marker, queue>> /\ Others(e)
      BY <2>3 DEF CreateTable, LoadTable, StragglerWrites, Advance, execVars, TypeInv, TypeOK
    <3> QED
      BY <1>1, <3>1
  <2> QED
    BY <1>4, <2>1, <2>2, <2>3 DEF RunStep
<1>5. ASSUME NEW e \in Exec, CompareStep(e)
      PROVE  [Lease!Next]_Lease!vars
  <2>1. UNCHANGED <<marker, queue>> /\ Others(e)
    BY <1>5 DEF CompareStep, BeginCompare, CompareTable, Advance, slotVars, TypeInv, TypeOK
  <2> QED
    BY <1>1, <2>1
<1>6. ASSUME NEW c \in Cleaner, CleanStep(c)
      PROVE  [Lease!Next]_Lease!vars
  <2>1. CASE DropMarker(c)
    BY <2>1, LeaseReturn
  <2>2. CASE ~DropMarker(c)
    <3>1. UNCHANGED <<marker, execVars>>
      BY <1>6, <2>2
      DEF CleanStep, Survey, ListSlot, ReadMarker, AbortRelease, DropTable, slotVars
    <3> QED
      BY <3>1, LeaseStutter
  <2> QED
    BY <2>1, <2>2
<1> QED
  BY <1>3, <1>4, <1>5, <1>6 DEF Next

\* The pool of markers, inspections and releases implements the lease: a slot is
\* leased to one execution, which has one slot and works only there, and the lease
\* ends after the work.
THEOREM ImplementsTheLease ==
    ASSUME Disciplined
    PROVE  Spec => ImplementsLease
<1>1. Init => Lease!Init
  <2> SUFFICES ASSUME Init PROVE Lease!Init
    OBVIOUS
  <2>1. \A d \in Slot : marker[d] \notin Exec
    BY ValueAssumption DEF Init
  <2>2. \A e \in Exec : ~Active(e)
    BY DEF Init, Active, Using
  <2> QED
    BY <2>1, <2>2 DEF Lease!Init
<1>2. EvidenceInv /\ EvidenceInv' /\ [Next]_vars => [Lease!Next]_Lease!vars
  <2>1. ASSUME UNCHANGED vars PROVE UNCHANGED Lease!vars
    BY <2>1, LeaseStutter DEF vars, slotVars
  <2> QED
    BY <2>1, LeaseStep
<1> QED
  BY <1>1, <1>2, EvidenceInductive, PTL DEF Spec, ImplementsLease, Lease!Spec
=============================================================================
