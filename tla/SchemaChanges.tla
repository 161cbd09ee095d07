---------------------------- MODULE SchemaChanges ----------------------------
(***************************************************************************)
(* A change of the DDL files on its way into the QA database: the          *)
(* statements derived from old and new definitions by identity             *)
(* (ddl_deriver/ddl_deriver.py), the baseline tables the plan has made     *)
(* first (refactor/verification_plan.py), what the shadow manifest makes   *)
(* of the names (refactor/shadow_manifest.py), and the statements run one  *)
(* by one (refactor/shadow_run.py).                                        *)
(*                                                                         *)
(* A definition is an identity, a physical layout that only a rebuild      *)
(* changes, and columns that ALTER changes.  Both sides have identities:   *)
(* require_valid_project and validate_table_defs refuse others.            *)
(***************************************************************************)
EXTENDS Naturals, Sequences, FiniteSets, SequencesExt, Functions

CONSTANTS
    Name,       \* names of tables, numbered in the order they sort
    Id,         \* table_id
    Layout,     \* engine, keys, distribution, partitions, order of the columns
    Columns,    \* the columns otherwise
    Reuse       \* a name may pass from one identity to another

Definition == [id : Id, layout : Layout, columns : Columns]
\* _table_ids_by_name: an identity names one table.
Catalogs(names) == {c \in [names -> Definition] : IsInjective([n \in names |-> c[n].id])}

ASSUME SchemaAssumption == Name \subseteq Nat /\ IsFiniteSet(Name) /\ Reuse \in BOOLEAN

VARIABLES
    old,        \* definitions at the base of the run
    new,        \* definitions in the workspace
    targets,    \* tables the selected jobs write; they read any of the new ones
    anchors,    \* those of them that are compared
    needed,     \* tables of which a job needs production rows: it writes what it
                \* reads or changes rows, or it reads more than is written before
    qa,         \* the tables of the QA database
    statements,       \* the statements still to run
    outcome     \* "compile", "running", "applied", "blocked", "failed"

schemaVars == <<old, new, targets, anchors, needed, qa, statements, outcome>>

-----------------------------------------------------------------------------
(* derive_ddl_changes *)

Drop(n) == [op |-> "DROP", of |-> n, to |-> n]
Create(n) == [op |-> "CREATE", of |-> n, to |-> n]
Rename(d, c) == [op |-> "RENAME", of |-> d, to |-> c]
Alter(d, c) == [op |-> "ALTER", of |-> d, to |-> c]

Sorted(S) == CHOOSE q \in [1..Cardinality(S) -> S] : \A i, j \in DOMAIN q : i < j => q[i] < q[j]
Same == {n \in DOMAIN old \cap DOMAIN new : old[n].id = new[n].id}
Dropped == DOMAIN old \ Same
Created == DOMAIN new \ Same

\* The dropped name whose identity the created name c has, if there is one.
Former(c) == {d \in Dropped : old[d].id = new[c].id}
Renamed == {c \in Created : Former(c) # {}}

\* Fault: a new layout is taken for a change of columns.
EvolveInPlace(d, c) ==
    (IF d # c THEN <<Rename(d, c)>> ELSE <<>>)
    \o (IF old[d] # new[c] THEN <<Alter(d, c)>> ELSE <<>>)

\* Fault: columns are altered, under the new name, before the rename.
EvolveAlterFirst(d, c) ==
    IF old[d].layout # new[c].layout THEN <<Drop(d), Create(c)>>
    ELSE (IF old[d].columns # new[c].columns THEN <<Alter(d, c)>> ELSE <<>>)
         \o (IF d # c THEN <<Rename(d, c)>> ELSE <<>>)

\* From the definition under the name d to the one under the name c.
Evolve(d, c) ==
    IF old[d].layout # new[c].layout THEN <<Drop(d), Create(c)>>
    ELSE (IF d # c THEN <<Rename(d, c)>> ELSE <<>>)
         \o (IF old[d].columns # new[c].columns THEN <<Alter(d, c)>> ELSE <<>>)

InOrder(S, of) == FlattenSeq([i \in 1..Cardinality(S) |-> of[Sorted(S)[i]]])
Changes ==
    InOrder(Renamed, [c \in Renamed |-> Evolve(CHOOSE d \in Former(c) : TRUE, c)])
    \o InOrder(Dropped \ UNION {Former(c) : c \in Renamed}, [n \in Dropped |-> <<Drop(n)>>])
    \o InOrder(Created \ Renamed, [n \in Created |-> <<Create(n)>>])
    \o InOrder(Same, [n \in Same |-> Evolve(n, n)])

-----------------------------------------------------------------------------
(* The plan's baseline tables, and the relations of the shadow manifest *)

Ops(op) == {s \in ToSet(Changes) : s.op = op}
MadeInPhase2 == {s.to : s \in Ops("CREATE") \cup Ops("RENAME")}
BaselineNeeded ==
    DOMAIN old \cap ({s.to : s \in Ops("ALTER")} \cup {s.of : s \in Ops("RENAME")}
                     \cup anchors \cup (targets \ MadeInPhase2))

\* Which relations have no baseline table, which are dropped, and where a renamed
\* name leads, after one more change.  A name that no change has brought up yet
\* stands for its own baseline table.
Relate(r, s) ==
    CASE s.op = "RENAME" ->
            [bare |-> r.bare \ {s.of, s.to},
             dropped |-> (r.dropped \ {s.of, s.to})
                         \cup (IF s.of \in r.dropped THEN {s.to} ELSE {}),
             leads |-> [n \in DOMAIN r.leads \cup {s.of} |->
                           IF n = s.of THEN s.to ELSE r.leads[n]]]
      [] s.op = "CREATE" ->
            [r EXCEPT !.bare = @ \cup {s.to}, !.dropped = @ \ {s.to}]
      [] s.op = "ALTER" -> r
      [] s.op = "DROP" -> [r EXCEPT !.dropped = @ \cup {s.of}]
Relations ==
    LET changes == Changes
        After[k \in 0..Len(changes)] ==
            IF k = 0 THEN [bare |-> {}, dropped |-> {}, leads |-> <<>>]
            ELSE Relate(After[k - 1], changes[k])
    IN  After[Len(changes)]

\* The table a job that says n reads and writes: renames are followed as long as
\* they lead on.  A circle of renames is refused by its first statement.
Route(n) ==
    LET leads == Relations.leads
        Follow[k \in 0..Cardinality(Name)] ==
            IF k = 0 THEN n
            ELSE LET m == Follow[k - 1] IN IF m \in DOMAIN leads THEN leads[m] ELSE m
    IN  Follow[Cardinality(Name)]

\* Rows cannot be asked for where the baseline has no table to take them from.
Blockers ==
    \/ \E n \in targets : n \in Relations.dropped
    \/ \E n \in DOMAIN new : Route(n) \in Relations.dropped
    \/ \E n \in needed : Route(n) \in Relations.bare

-----------------------------------------------------------------------------
(* Running them *)

ReuseIn(c1, c2) == \E n \in DOMAIN c1 \cap DOMAIN c2 : c1[n].id # c2[n].id
SchemaInit ==
    /\ old \in UNION {Catalogs(names) : names \in SUBSET Name}
    /\ new \in UNION {Catalogs(names) : names \in SUBSET Name}
    /\ Reuse \/ ~ReuseIn(old, new)
    /\ targets \in SUBSET DOMAIN new
    /\ anchors \in SUBSET targets
    /\ needed \in SUBSET DOMAIN new
    /\ qa = <<>> /\ statements = <<>>
    /\ outcome = "compile"

\* The manifest is compiled before a slot is claimed; then Phase 1.
CompileManifest ==
    /\ outcome = "compile"
    /\ IF Blockers
       THEN outcome' = "blocked" /\ UNCHANGED <<qa, statements>>
       ELSE /\ outcome' = "running"
            /\ qa' = Restrict(old, BaselineNeeded)
            /\ statements' = Changes
    /\ UNCHANGED <<old, new, targets, anchors, needed>>

\* Phase 2 on the server: DROP TABLE IF EXISTS and CREATE TABLE IF NOT EXISTS
\* never fail; a rename needs its source and a free name; an ALTER needs the
\* columns it was derived from.
Runs(s) ==
    CASE s.op = "RENAME" -> s.of \in DOMAIN qa /\ s.to \notin DOMAIN qa
      [] s.op = "ALTER" -> s.to \in DOMAIN qa /\ qa[s.to].columns = old[s.of].columns
      [] OTHER -> TRUE
Effect(s) ==
    CASE s.op = "DROP" -> Restrict(qa, DOMAIN qa \ {s.of})
      [] s.op = "CREATE" ->
            [n \in DOMAIN qa \cup {s.to} |-> IF n \in DOMAIN qa THEN qa[n] ELSE new[n]]
      [] s.op = "RENAME" ->
            [n \in (DOMAIN qa \ {s.of}) \cup {s.to} |->
                IF n = s.to THEN qa[s.of] ELSE qa[n]]
      [] s.op = "ALTER" -> [qa EXCEPT ![s.to].columns = new[s.to].columns]

ApplyChange ==
    /\ outcome = "running" /\ statements # <<>>
    /\ IF Runs(Head(statements))
       THEN qa' = Effect(Head(statements)) /\ statements' = Tail(statements) /\ UNCHANGED outcome
       ELSE outcome' = "failed" /\ UNCHANGED <<qa, statements>>
    /\ UNCHANGED <<old, new, targets, anchors, needed>>

Applied ==
    /\ outcome = "running" /\ statements = <<>>
    /\ outcome' = "applied"
    /\ UNCHANGED <<old, new, targets, anchors, needed, qa, statements>>

SchemaNext == CompileManifest \/ ApplyChange \/ Applied
SchemaSpec == SchemaInit /\ [][SchemaNext]_schemaVars

-----------------------------------------------------------------------------
(* Properties *)

Changed == {n \in DOMAIN new : n \notin DOMAIN old \/ old[n] # new[n]}

\* When the DDL phase has gone through, a job that names a table it writes, or a
\* table that changed, gets the table of that name with the definition the DDL
\* files give it: not a table of the same former name, not an older definition,
\* not one that a later statement has removed.
UsedAsDeclared ==
    outcome = "applied" =>
        \A n \in targets \cup Changed :
            Route(n) = n /\ n \in DOMAIN qa /\ qa[n] = new[n]

\* New, or rebuilt: no table of the baseline becomes n with its rows.
Remade(n) == \A m \in DOMAIN old : old[m].id = new[n].id => old[m].layout # new[n].layout

\* A change in which every name keeps its table is refused if a job needs production
\* rows of a table that it makes anew, and for nothing else; otherwise all its statements
\* run, however many tables it adds, drops, renames, rebuilds and alters.
OrderlyChangeAccepted ==
    ~ReuseIn(old, new) /\ outcome # "compile" =>
        /\ outcome # "failed"
        /\ outcome = "blocked" <=> \E n \in needed : Remade(n)
=============================================================================
