--------------------------- MODULE InspectionStore ---------------------------
(***************************************************************************)
(* What the journal of inspections promises the generator: a store that    *)
(* keeps, for every table, results by the context they were made for, and  *)
(* changes only when a result is recorded, refused, rejected or            *)
(* deliberately forgotten.  Crashes, restarts, failed writes and           *)
(* recoveries are not events of this store.                                *)
(***************************************************************************)
EXTENDS FiniteSets, Naturals

CONSTANT Table      \* the tables under inspection

VARIABLE kept       \* kept[t]: the results a later generation may resume

Others(t, c) == {r \in kept[t] : r.ctx # c}

\* Recording a context costs the table at most one other context.
AtMostOneLost(rest, t, c) ==
    /\ rest \subseteq Others(t, c)
    /\ Cardinality(Others(t, c) \ rest) <= 1

Init == kept = [t \in Table |-> {}]

Keep == \E t \in Table : \E r \in kept'[t] \ kept[t] :
    /\ AtMostOneLost(kept'[t] \ {r}, t, r.ctx)
    /\ kept' = [kept EXCEPT ![t] = kept'[t]]

Refuse == \E t \in Table : \E r \in kept[t] \ kept'[t] :
    /\ AtMostOneLost(kept'[t], t, r.ctx)
    /\ kept' = [kept EXCEPT ![t] = kept'[t]]

Reject ==
    /\ \A t \in Table : /\ kept'[t] \subseteq kept[t]
                        /\ Cardinality(kept[t] \ kept'[t]) <= 1
    /\ kept' = [t \in Table |-> kept'[t]]

Forget == kept' = [t \in Table |-> {}]

Next == Keep \/ Refuse \/ Reject \/ Forget

Spec == Init /\ [][Next]_kept
=============================================================================
