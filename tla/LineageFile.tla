------------------------------ MODULE LineageFile -----------------------------
(***************************************************************************)
(* lineage_data.json: how the extractor names tables in it                 *)
(* (lineage/lineage_output.py, identifiers.py), what every reader requires *)
(* of it (contract.py), and the rows the importer makes of it              *)
(* (import_lineage.py).  Of an edge, its ends, relation and job are kept;  *)
(* texts are lists of words without quotes and case, the catalog of the    *)
(* project is the default one, and files of format 1 are left out.         *)
(***************************************************************************)
EXTENDS Naturals, Sequences, FiniteSets

CONSTANTS
    Internal,       \* the default catalog
    Home,           \* the database of the project
    NoDatabase      \* what a name of one word has for a database

\* A table is a catalog, a database and a name, and so is a text of three words.
Short(t) == <<t[3]>>
Middle(t) == <<t[2], t[3]>>
\* table_identity, as readers of the file use it, who do not know the database.
Identity(text) ==
    IF Len(text) = 1 THEN <<Internal, NoDatabase, text[1]>>
    ELSE IF Len(text) = 2 THEN <<Internal, text[1], text[2]>>
    ELSE text

\* A direct edge ends in a column; any other leads from a column to a table.
Shape(e) ==
    IF e.relation = "DIRECT" THEN e.target.type = "column"
    ELSE e.source.type = "column" /\ e.target.type = "table"

-----------------------------------------------------------------------------
(* The extractor writes a graph g of tables.                               *)

Display(t) == IF t[1] = Internal THEN Middle(t) ELSE t
Stored(t) == IF t[1] = Internal /\ t[2] = Home THEN Short(t) ELSE Display(t)
\* What a graph is made of: tables in their databases, which edges and jobs are about.
ColumnsAndTables(g) ==
    (UNION {[type : {"column"}, table : {t}, column : g.columns[t]] : t \in g.tables})
    \cup [type : {"table"}, table : g.tables]
IsGraph(g) ==
    /\ \A t \in g.tables : t = <<t[1], t[2], t[3]>> /\ t[2] # NoDatabase
    /\ \A j \in DOMAIN g.jobs, io \in {"INPUT", "OUTPUT"} : g.jobs[j][io] \subseteq g.tables
    /\ \A e \in g.edges :
        /\ e.source \in ColumnsAndTables(g) \cup {[type |-> "literal"]} /\ e.source.type # "table"
        /\ e.target \in ColumnsAndTables(g)
        /\ Shape(e) /\ e.job \in DOMAIN g.jobs

\* _unique_table_reference
Reference(g, t, preferred) ==
    IF \A u \in g.tables : Short(u) = Short(t) => u = t THEN preferred
    ELSE IF \A u \in g.tables : Middle(u) = Middle(t) => u = t THEN Display(t)
    ELSE t
WrittenEnd(g, x) == IF x.type = "literal" THEN x ELSE [x EXCEPT !.table = Reference(g, @, Stored(@))]
Written(g) == [
    tables |-> {[name |-> Stored(t), full |-> Display(t), columns |-> g.columns[t]] : t \in g.tables},
    jobs |-> [j \in DOMAIN g.jobs |->
        [io \in {"INPUT", "OUTPUT"} |-> {Reference(g, t, Display(t)) : t \in g.jobs[j][io]}]],
    edges |-> {[source |-> WrittenEnd(g, e.source), target |-> WrittenEnd(g, e.target),
                relation |-> e.relation, job |-> e.job] : e \in g.edges}]

-----------------------------------------------------------------------------
(* validate_lineage_v2                                                     *)

Ends(e) == {e.source, e.target}
Key(entry) == Identity(entry.full)
Answering(f, text) == {e \in f.tables : text \in {Key(e), Middle(Key(e)), Short(Key(e))}}
Resolves(f, text) == \E e \in f.tables : Answering(f, text) = {e}
Meant(f, text) == CHOOSE e \in f.tables : Answering(f, text) = {e}
ValidEnd(f, x) ==
    \/ x.type = "literal"
    \/ x.type = "table" /\ Resolves(f, x.table)
    \/ x.type = "column" /\ Resolves(f, x.table) /\ x.column \in Meant(f, x.table).columns
ValidJob(f, j) == \A io \in {"INPUT", "OUTPUT"} : \A x \in f.jobs[j][io] :
    Resolves(f, x) /\ \A y \in f.jobs[j][io] : Meant(f, x) = Meant(f, y) => x = y
Contract(f) ==
    /\ \A d, e \in f.tables : Key(d) = Key(e) => d = e
    /\ \A j \in DOMAIN f.jobs : ValidJob(f, j)
    /\ \A e \in f.edges :
        /\ ValidEnd(f, e.source) /\ e.source.type # "table"
        /\ ValidEnd(f, e.target) /\ e.target.type # "literal"
        /\ e.job \in DOMAIN f.jobs

-----------------------------------------------------------------------------
(* build_import_rows: rows, under the entries of tables as their ids.      *)

\* Entries with this text, or else those of this identity.  Of several the last one of
\* the file is taken, see Tidy.
Named(f, text) == {e \in f.tables : text \in {e.name, e.full}}
Alike(f, text) == {e \in f.tables : Identity(text) \in {Identity(e.name), Identity(e.full)}}
Candidates(f, text) == IF Named(f, text) # {} THEN Named(f, text) ELSE Alike(f, text)
\* Entries of the table and of the column are looked up on their own.
Having(S, c) == {e \in S : c \in e.columns}
Holders(f, text, c) ==
    IF Having(Named(f, text), c) # {} THEN Having(Named(f, text), c) ELSE Having(Alike(f, text), c)
TableIdForRef(f, text) == CHOOSE e \in Candidates(f, text) : TRUE
ColumnIdForRef(f, text, c) == <<CHOOSE e \in Holders(f, text, c) : TRUE, c>>

FoundEnd(f, x) ==
    \/ x.type = "literal"
    \/ /\ Candidates(f, x.table) # {}
       /\ x.type = "column" => Holders(f, x.table, x.column) # {}
Importable(f) ==
    /\ Contract(f)
    /\ \A e \in f.edges : Shape(e) /\ \A x \in Ends(e) : FoundEnd(f, x)
    /\ \A j \in DOMAIN f.jobs, io \in {"INPUT", "OUTPUT"} : \A x \in f.jobs[j][io] : Candidates(f, x) # {}

\* The rows of each table of the database, where an entry e has the id own[e], a text
\* x the id at[x], and the end of an edge the column id col[x].
Texts(f) == {x.table : x \in {y \in UNION {Ends(e) : e \in f.edges} : y.type # "literal"}}
            \cup UNION {f.jobs[j][io] : j \in DOMAIN f.jobs, io \in {"INPUT", "OUTPUT"}}
ColumnEnds(f) == {x \in UNION {Ends(e) : e \in f.edges} : x.type = "column"}
DirectEdges(f, kind) == {e \in f.edges : e.relation = "DIRECT" /\ e.source.type = kind}
IndirectEdges(f) == {e \in f.edges : e.relation # "DIRECT"}
Filed(f, own, at, col) == [
    datasource |-> {f.tables},
    table_info |-> f.tables,
    column_info |-> UNION {{<<own[e], e, c>> : c \in e.columns} : e \in f.tables},
    job |-> DOMAIN f.jobs,
    job_dataset |-> UNION {{<<j, at[x], io>> : x \in f.jobs[j][io]} :
                           j \in DOMAIN f.jobs, io \in {"INPUT", "OUTPUT"}},
    column_lineage |-> {<<at[e.source.table], col[e.source], at[e.target.table], col[e.target], e.job>> :
                        e \in DirectEdges(f, "column")},
    non_column_direct_lineage |-> {<<at[e.target.table], col[e.target], e.job, e.source>> :
                                   e \in DirectEdges(f, "literal")},
    indirect_lineage |-> {<<at[e.source.table], col[e.source], at[e.target.table], e.job, e.relation>> :
                          e \in IndirectEdges(f)},
    table_lineage |-> {<<at[e.source.table], at[e.target.table], e.job, e.relation>> :
                       e \in DirectEdges(f, "column") \cup IndirectEdges(f)}]
ImportRows(f) ==
    Filed(f, [e \in f.tables |-> TableIdForRef(f, e.full)],
             [x \in Texts(f) |-> TableIdForRef(f, x)],
             [x \in ColumnEnds(f) |-> ColumnIdForRef(f, x.table, x.column)])
\* The same, under the tables that the contract has found the texts to mean.
MeantRows(f) ==
    Filed(f, [e \in f.tables |-> e],
             [x \in Texts(f) |-> Meant(f, x)],
             [x \in ColumnEnds(f) |-> <<Meant(f, x.table), x.column>>])

\* The full name of a table has its database, and its name is short or means the same.
Tidy(f) == \A e \in f.tables :
    /\ Len(e.full) \in 1..3 /\ Key(e)[2] # NoDatabase
    /\ e.name = Short(Key(e)) \/ Identity(e.name) = Key(e)
=============================================================================
