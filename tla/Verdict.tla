-------------------------------- MODULE Verdict -------------------------------
(***************************************************************************)
(* What compare makes of a plan and of the checks it runs (run_checks in   *)
(* refactor/compare.py), given how build_verification_plan ends: checks,   *)
(* warnings and what stands in the way of a comparison.                    *)
(*                                                                         *)
(* The plan is the one that has just been built; RefactorRun has what      *)
(* happens to its file before it is compared.                              *)
(***************************************************************************)
EXTENDS AnalyzeRun

Method == {"count", "row_compare"}

\* _validate_semantic_anchor_mappings: an anchor that is not the table it was.
Unmapped == {t \in request.anchors : ~Comparable(t)}
\* Every anchor gets both checks; an invalid plan has none.
Required == IF Unmapped # {} THEN {} ELSE request.anchors \X Method

StaleDeclarations ==
    {t \in affected : declared[t] # None /\ semantics[t].declaration = None}
UnknownTables == {t \in affected : semantics[t].mode = "unknown"}
\* Fault: only tables that are compared are worth a warning.
WarningsOfChecks == (UnknownTables \cap request.anchors) \cup StaleDeclarations # {}
\* Warnings about single edges of the schedule only add to these.
Warnings ==
    \/ UnknownTables \cup StaleDeclarations # {}
    \/ request.schedule # request.scheduleAtStart

-----------------------------------------------------------------------------
(* compare --method --sample, when the checks in differ do not match *)

Chosen(method) == {c \in Required : method \in {"all", c[2]}}
Complete(method, sampled) ==
    /\ Chosen(method) = Required
    /\ sampled => \A c \in Chosen(method) : c[2] # "row_compare"
DiffersAt(mode, method, differ) ==
    \E c \in Chosen(method) \cap differ : semantics[c[1]].mode = mode

Status(method, sampled, differ) ==
    IF Unmapped # {} THEN "blocked"
    ELSE IF Chosen(method) = {} THEN "inconclusive"
    ELSE IF DiffersAt("equivalent", method, differ) THEN "failed"
    ELSE IF DiffersAt("unknown", method, differ) \/ capped \/ ~Complete(method, sampled)
    THEN "inconclusive"
    ELSE IF Warnings THEN "passed_with_warnings"
    ELSE "passed"

-----------------------------------------------------------------------------
(* Properties *)

\* However a plan is compared, a pass means that every check was run on all rows and
\* matched, in an order lineage has nothing new to say about.  Without warnings it
\* also means that on no way down from an edited table, up to the tables vouched
\* for and compared, is there a table that differs, or may differ, without the
\* user having said so.
PassedIsProven ==
    stage = "done" =>
        \A method \in Method \cup {"all"}, sampled \in BOOLEAN, differ \in SUBSET Required :
            LET status == Status(method, sampled, differ) IN
            /\ status \in {"passed", "passed_with_warnings"} =>
                  Required # {} /\ differ = {} /\ method = "all" /\ ~sampled /\ ~capped
            /\ status = "passed" =>
                  \A d \in Direct : \A t \in Escapes(d) : semantics[t].source \in User
=============================================================================
