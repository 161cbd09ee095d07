------------------------------ MODULE SlotLease ------------------------------
(***************************************************************************)
(* What the QA database pool promises, without markers, tables or          *)
(* inspections: a slot is leased to at most one execution, an execution    *)
(* leases at most one slot and works only there, and a lease ends only     *)
(* after its holder has stopped working.                                   *)
(***************************************************************************)
CONSTANTS Slot, Exec, NoExec

VARIABLES
    lease,      \* the execution each slot is leased to, or NoExec
    working     \* pairs <<e, d>>: e may be reading or writing d

vars == <<lease, working>>

TypeOK ==
    /\ lease \in [Slot -> Exec \cup {NoExec}]
    /\ working \subseteq Exec \X Slot

Init ==
    /\ lease = [d \in Slot |-> NoExec]
    /\ working = {}

Grant(e, d) ==
    /\ lease[d] = NoExec
    /\ \A other \in Slot : lease[other] # e
    /\ lease' = [lease EXCEPT ![d] = e]
    /\ UNCHANGED working

\* Work starts after the grant, and again when a finished run is compared.
Work(e, d) ==
    /\ lease[d] = e
    /\ working' = working \cup {<<e, d>>}
    /\ UNCHANGED lease

Stop(e, d) ==
    /\ working' = working \ {<<e, d>>}
    /\ UNCHANGED lease

Return(d) ==
    /\ \A e \in Exec : <<e, d>> \notin working
    /\ lease' = [lease EXCEPT ![d] = NoExec]
    /\ UNCHANGED working

Next ==
    \/ \E e \in Exec, d \in Slot : Grant(e, d) \/ Work(e, d) \/ Stop(e, d)
    \/ \E d \in Slot : Return(d)

Spec == Init /\ [][Next]_vars
=============================================================================
