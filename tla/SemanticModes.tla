---------------------------- MODULE SemanticModes ----------------------------
(***************************************************************************)
(* What a refactor run takes each affected table for: equivalent to its    *)
(* baseline, changed, or unknown; and the tables where it will be compared *)
(* (refactor/semantic_mode.py, the scope of change_analysis.py, and what   *)
(* run.py keeps of it in the manifests of this and older runs).            *)
(*                                                                         *)
(* A fingerprint is what it is a hash of.  Assets are edited between two   *)
(* analyses here; RefactorRun has the edits during one.                    *)
(***************************************************************************)
EXTENDS Tables, Naturals, Sequences, FiniteSets

CONSTANTS
    Asset,      \* Asset[t]: contents its DDL, task and model may have
    Form,       \* Form[x]: the normalised form of a text, its SQL AST
    Identity,   \* Identity[d]: the table_id in the DDL d
    Reads       \* Reads[x]: the tables the task x reads

Mode == {"equivalent", "changed", "unknown"}    \* VALID_SEMANTIC_MODES
User == {"user", "inherited_user"}

\* Tables are numbered in the order their names sort.
ASSUME TablesAssumption == Table \subseteq Nat /\ \A t \in Table : Asset[t] # {}

VARIABLES
    assets,     \* assets[t] in the workspace
    base,       \* and at the commit the run started from
    declared,   \* verification_intent.semantic_modes of the run's manifest
    past,       \* those of older runs, newest first
    phase,      \* "edited", "resolving", "walking", "bounded", "planned", "refused"
    affected,   \* affected_scope: direct tables and what is downstream
    semantics,  \* target_semantics: semantics[t], as far as resolved
    todo,       \* the walk: tables still to visit
    selected,   \* tables visited
    authority, observational    \* semantic_boundaries

\* What a declaration has of a type: contexts nest without a bound.
IsDeclaration(d) ==
    /\ d = [id |-> d.id, mode |-> d.mode, context |-> d.context,
            inherited |-> d.inherited, asOf |-> d.asOf]
    /\ d.mode \in Mode
ModesTypeOK ==
    /\ phase \in {"edited", "resolving", "walking", "bounded", "planned", "refused"}
    /\ affected \subseteq Table /\ todo \subseteq Table /\ selected \subseteq Table
    /\ authority \subseteq Table /\ observational \subseteq Table
    /\ DOMAIN declared = Table /\ DOMAIN semantics = Table
    /\ phase \in {"walking", "bounded", "planned"} => \A t \in affected : semantics[t] # None
    /\ past \in Seq({past[i] : i \in DOMAIN past})
    /\ \A t \in Table :
          /\ declared[t] # None => IsDeclaration(declared[t])
          /\ semantics[t] # None =>
                /\ semantics[t].mode \in Mode
                /\ semantics[t].source = "inherited_user" => IsDeclaration(semantics[t].declaration)
          /\ \A i \in DOMAIN past : past[i][t] # None => IsDeclaration(past[i][t])

inputs == <<assets, base, past>>
resolution == <<affected, semantics>>
walk == <<todo, selected, authority, observational>>
modesVars == <<inputs, declared, phase, resolution, walk>>

Graph == INSTANCE JobGraph WITH Job <- Table

-----------------------------------------------------------------------------
(* The affected tables *)

Direct == {t \in Table : assets[t] # base[t]}
BaseUp == [t \in Table |-> Reads[base[t].task] \ {t}]
CurrentUp == [t \in Table |-> Reads[assets[t].task] \ {t}]
\* _bfs_downstream from the direct tables, in either lineage.
Affected == {t \in Table : \E d \in Direct :
                Graph!Reaches(BaseUp, d, t) \/ Graph!Reaches(CurrentUp, d, t)}
\* _affected_edges: baseline and current lineage between affected tables.
Up == [t \in Table |-> (BaseUp[t] \cup CurrentUp[t]) \cap affected]
Down(t) == {k \in affected : t \in Up[k]}

\* automatic_equivalence, behind schema_identity_mapping: without the identity
\* of the baseline the two cannot even be compared.
Comparable(t) == Identity[assets[t].ddl] = Identity[base[t].ddl]
SameForm(t) == \A kind \in {"ddl", "task", "model"} : Form[assets[t][kind]] = Form[base[t][kind]]
Automatic(t) == Comparable(t) /\ SameForm(t)

-----------------------------------------------------------------------------
(* Resolution, in topological order *)

Unresolved == {t \in affected : semantics[t] = None}
Ready == {t \in Unresolved : Up[t] \cap Unresolved = {}}
Least(S) == CHOOSE t \in S : \A u \in S : t <= u

TableId(t) == Identity[assets[t].ddl]
LocalFingerprint(t) == [name |-> t, id |-> TableId(t), base |-> base[t], current |-> assets[t]]
\* Fault: the context does not say what the upstreams were taken for.
ContextAlone(t) == [local |-> LocalFingerprint(t), upstreams |-> {}]
Context(t) ==
    [local |-> LocalFingerprint(t),
     upstreams |-> {[id |-> semantics[u].id, context |-> semantics[u].context,
                     mode |-> semantics[u].mode] : u \in Up[t]}]
\* Fault: a declared change is not passed on.
RiskyIfUnknown(t) == \E u \in Up[t] : semantics[u].mode = "unknown"
Risky(t) == \E u \in Up[t] : semantics[u].mode \in {"changed", "unknown"}

Valid(d, t) == d.id = TableId(t) /\ d.context = Context(t)
\* The newest run with a declaration for this identity and context.
Older(t) == {i \in DOMAIN past : \E k \in Table : past[i][k] # None /\ Valid(past[i][k], t)}
Historical(t) ==
    LET i == CHOOSE n \in Older(t) : \A m \in Older(t) : n <= m
    IN  CHOOSE d \in {past[i][k] : k \in Table} : d # None /\ Valid(d, t)

\* A declaration of the run that has become stale is not applied, and not
\* replaced by an older one either.
Declaration(t) ==
    IF declared[t] # None
    THEN IF Valid(declared[t], t) THEN declared[t] ELSE None
    ELSE IF Older(t) # {} THEN [Historical(t) EXCEPT !.inherited = TRUE] ELSE None

ModeAndSource(t, d) ==
    CASE d # None -> <<d.mode, IF d.inherited THEN "inherited_user" ELSE "user">>
      [] d = None /\ Risky(t) -> <<"unknown", "upstream_propagation">>
      [] d = None /\ ~Risky(t) /\ Automatic(t) -> <<"equivalent", "automatic">>
      [] OTHER -> <<"unknown", "default_unknown">>

-----------------------------------------------------------------------------
NoWalk == todo' = {} /\ selected' = {} /\ authority' = {} /\ observational' = {}

ModesInit ==
    /\ assets \in [Table -> UNION {Asset[t] : t \in Table}]
    /\ \A t \in Table : assets[t] \in Asset[t]
    /\ base = assets
    /\ declared = [t \in Table |-> None]
    /\ past = <<>>
    /\ phase = "edited"
    /\ affected = {} /\ semantics = [t \in Table |-> None]
    /\ todo = {} /\ selected = {} /\ authority = {} /\ observational = {}

\* A plan exists or not; whatever there is is out of date.
Stale ==
    /\ phase \in {"edited", "planned", "refused"}
    /\ phase' = "edited"
    /\ affected' = {} /\ semantics' = [t \in Table |-> None] /\ NoWalk

Edit(t, a) ==
    /\ Stale
    /\ a \in Asset[t] \ {assets[t]}
    /\ assets' = [assets EXCEPT ![t] = a]
    /\ UNCHANGED <<base, declared, past>>

\* Something else the plan is made from has changed.
Outdate ==
    /\ Stale
    /\ UNCHANGED <<inputs, declared>>

\* refactor start, from the workspace as committed or from the old commit.
StartRun(committed) ==
    /\ Stale
    /\ past' = <<declared>> \o past
    /\ declared' = [t \in Table |-> None]
    /\ base' = IF committed THEN assets ELSE base
    /\ UNCHANGED assets

Analyze ==
    /\ phase = "edited"
    /\ phase' = "resolving"
    /\ affected' = Affected
    /\ UNCHANGED <<inputs, declared, semantics, walk>>

Resolve ==
    /\ phase = "resolving" /\ Ready # {}
    /\ LET t == Least(Ready)
           d == Declaration(t)
           m == ModeAndSource(t, d)
       IN  semantics' = [semantics EXCEPT ![t] =
               [id |-> TableId(t), mode |-> m[1], source |-> m[2], context |-> Context(t),
                declaration |-> d]]
    /\ UNCHANGED <<inputs, declared, phase, affected, walk>>

\* "semantic graph cycle detected": no plan is written.
Cycle ==
    /\ phase = "resolving" /\ Unresolved # {} /\ Ready = {}
    /\ phase' = "refused"
    /\ UNCHANGED <<inputs, declared, resolution, walk>>

\* Fault: the walk starts where the user has had a say, whenever there is such a place.
SeedsDeclared ==
    LET vouched == {t \in affected : semantics[t].source \in User}
    IN  IF vouched = {} THEN Direct ELSE vouched
Seeds == {t \in affected : t \in Direct \/ semantics[t].source \in User}
StartWalk ==
    /\ phase = "resolving" /\ Unresolved = {}
    /\ phase' = "walking"
    /\ todo' = Seeds
    /\ UNCHANGED <<inputs, declared, resolution, selected, authority, observational>>

Visit ==
    /\ phase = "walking" /\ todo # {}
    /\ LET t == Least(todo)
           stops == semantics[t].mode = "equivalent"
           last == ~stops /\ Down(t) = {}
       IN  /\ selected' = selected \cup {t}
           /\ authority' = authority \cup (IF stops THEN {t} ELSE {})
           /\ observational' = observational \cup
                (IF last /\ semantics[t].mode = "unknown" /\ Comparable(t) THEN {t} ELSE {})
           /\ todo' = (todo \cup (IF stops THEN {} ELSE Down(t))) \ selected'
    /\ UNCHANGED <<inputs, declared, phase, resolution>>

WalkEnds ==
    /\ phase = "walking" /\ todo = {}
    /\ phase' = "bounded"
    /\ UNCHANGED <<inputs, declared, resolution, walk>>

\* The plan has been built: inherited declarations join the manifest.
Planned ==
    /\ phase = "bounded"
    /\ phase' = "planned"
    /\ declared' = [t \in Table |->
           IF declared[t] = None /\ t \in affected /\ semantics[t].source = "inherited_user"
           THEN semantics[t].declaration ELSE declared[t]]
    /\ UNCHANGED <<inputs, resolution, walk>>

\* build_verification_plan raised: SystemExit before anything is written.
NotPlanned ==
    /\ phase = "bounded"
    /\ phase' = "refused"
    /\ UNCHANGED <<inputs, declared, resolution, walk>>

\* What a declaration vouches for: the assets of the table and of every affected
\* table it depends on, and what those were taken for.  History, not code.
AsOf(t) == [u \in {k \in affected : Graph!Reaches(Up, k, t)} |->
               <<base[u], assets[u], IF u = t THEN None ELSE semantics[u].mode>>]

\* semantic-mode set, on a fresh plan, which it replaces.
Declare(t, mode) ==
    /\ phase = "planned" /\ t \in affected
    /\ declared' = [declared EXCEPT ![t] =
           [id |-> semantics[t].id, mode |-> mode, context |-> semantics[t].context,
            inherited |-> FALSE, asOf |-> AsOf(t)]]
    /\ phase' = "resolving"
    /\ semantics' = [k \in Table |-> None]
    /\ NoWalk
    /\ UNCHANGED <<inputs, affected>>

ModesNext ==
    \/ \E t \in Table, mode \in Mode : Declare(t, mode)
    \/ \E t \in Table : \E a \in Asset[t] : Edit(t, a)
    \/ \E committed \in BOOLEAN : StartRun(committed)
    \/ Outdate \/ Analyze \/ Resolve \/ Cycle \/ StartWalk \/ Visit \/ WalkEnds \/ Planned \/ NotPlanned

ModesSpec == ModesInit /\ [][ModesNext]_modesVars

-----------------------------------------------------------------------------
(* Properties *)

Known == {t \in affected : semantics[t] # None}

\* A declaration decides only where it was made for: the assets of the table, those
\* of every affected table upstream and what these are taken for, now and at the
\* base, are what they were when the user declared, in this run or an older one.
DeclarationsApply ==
    \A t \in Known : semantics[t].source \in User =>
        semantics[t].declaration.asOf = AsOf(t)

\* Tables met going upstream from t, not beyond tables the user vouches for.
Behind(t) == {u \in Known : \A S \in SUBSET Known :
    t \in S /\ (\A k \in S : semantics[k].source \notin User => Up[k] \subseteq S) => u \in S}

\* A table taken for equivalent without the user's word has nothing behind it but
\* tables of the baseline's normal form and tables declared equivalent.
AutomaticIsGrounded ==
    \A t \in Known : semantics[t].source = "automatic" =>
        \A u \in Behind(t) :
            IF semantics[u].source \in User
            THEN semantics[u].mode = "equivalent" ELSE SameForm(u)

\* Every way down from a table that was edited meets an authority, or ends in a
\* table that is compared, may differ by declaration, or cannot be compared.
Escapes(d) == {t \in affected : \A S \in SUBSET affected :
    d \in S /\ (\A k \in S \ authority : Down(k) \subseteq S) => t \in S} \ authority
NothingEscapes ==
    phase \in {"bounded", "planned"} =>
        \A d \in Direct : \A t \in Escapes(d) :
            Down(t) = {} => \/ t \in observational
                            \/ semantics[t].mode = "changed"
                            \/ ~Comparable(t)
=============================================================================
