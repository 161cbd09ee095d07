------------------------------ MODULE LineageStore ----------------------------
(***************************************************************************)
(* The import of lineage files into the lineage database of a project      *)
(* (lineage/import_lineage.py): snapshots, each with a header and its rows *)
(* in nine tables, of which one is active, the one that is queried         *)
(* (lineage/ddl/).  A statement of the database takes effect as a whole    *)
(* and at once; the commits between them join nothing together.  Imports   *)
(* may overlap, use an id again, and stop anywhere.                        *)
(***************************************************************************)
EXTENDS LineageFile

CONSTANTS
    Import,         \* imports of this project
    SnapshotId,
    LineageGraphs,  \* what the extractor may find
    EditedFiles,    \* lineage files people may give
    BatchSize,      \* of INSERTs; else ValueError
    Nobody          \* no header, nobody

ASSUME StoreAssumption ==
    /\ BatchSize \in Nat \ {0}
    /\ Nobody \notin Import \cup SnapshotId
    /\ \A g \in LineageGraphs : IsGraph(g)
    /\ \A f \in EditedFiles : Tidy(f)

VARIABLES
    rows,       \* of the nine tables, each with who has inserted it
    header,     \* lineage_snapshot: who has inserted the row and who has activated it
    layer,      \* table_info still has the column of an old schema
    import,     \* what each import is about, and where it is
    since       \* imports that ran when this one began, or have begun since

storeVars == <<rows, header, layer, import, since>>

\* Fault: one table is forgotten.
DeleteOrderForgets == <<"indirect_lineage", "non_column_direct_lineage", "column_lineage", "table_lineage",
                        "job", "column_info", "table_info", "datasource">>
DeleteOrder == <<"indirect_lineage", "non_column_direct_lineage", "column_lineage", "table_lineage",
                 "job_dataset", "job", "column_info", "table_info", "datasource">>
InsertOrder == <<"datasource", "table_info", "column_info", "job", "job_dataset", "column_lineage",
                 "non_column_direct_lineage", "indirect_lineage", "table_lineage">>

Rows(filed) == UNION {{[table |-> t, row |-> r] : r \in filed[t]} : t \in DOMAIN filed}
RowsOf(s) == {r \in rows : r.snapshot = s}
Stamped(R, s, p) == {[table |-> r.table, row |-> r.row, snapshot |-> s, by |-> p] : r \in R}

NotBegun == [at |-> "new", snapshot |-> Nobody]
Running(p) == import[p].at \notin {"new", "done", "stopped"}
Goto(p, place) == import' = [import EXCEPT ![p].at = place]

StoreInit ==
    /\ rows = {} /\ header = [s \in SnapshotId |-> Nobody]
    /\ layer \in BOOLEAN
    /\ import = [p \in Import |-> NotBegun]
    /\ since = [p \in Import |-> {}]

\* What the extractor writes, which it has validated, and what people make of it.
LineageFiles == {Written(g) : g \in LineageGraphs} \cup EditedFiles

\* Rows are made of the file before the database is opened.  The id is the time, or
\* given on the command line.
BeginImport(p, f, s) ==
    /\ import[p].at = "new"
    /\ IF Importable(f)
       THEN /\ import' = [import EXCEPT ![p] =
                 [at |-> "check", snapshot |-> s, next |-> 1, file |-> f, left |-> Rows(ImportRows(f))]]
            /\ since' = [q \in Import |->
                 IF q = p THEN {r \in Import : Running(r)}
                 ELSE IF import[q].at = "new" THEN {} ELSE since[q] \cup {p}]
       ELSE Goto(p, "stopped") /\ UNCHANGED since
    /\ UNCHANGED <<rows, header, layer>>

\* migrate_lineage_schema
CheckLayer(p) ==
    /\ import[p].at = "check"
    /\ Goto(p, IF layer THEN "alter" ELSE "delete")
    /\ UNCHANGED <<rows, header, layer, since>>
\* The column may have gone since: then the statement fails.
DropLayer(p) ==
    /\ import[p].at = "alter"
    /\ layer' = FALSE
    /\ Goto(p, IF layer THEN "delete" ELSE "stopped")
    /\ UNCHANGED <<rows, header, since>>

\* delete_snapshot_rows: a table at a time, the header last.
DeleteRows(p) ==
    /\ import[p].at = "delete" /\ import[p].next \in DOMAIN DeleteOrder
    /\ rows' = {r \in rows : ~(r.snapshot = import[p].snapshot /\ r.table = DeleteOrder[import[p].next])}
    /\ import' = [import EXCEPT ![p].next = @ + 1]
    /\ UNCHANGED <<header, layer, since>>
DeleteHeader(p) ==
    /\ import[p].at = "delete" /\ import[p].next = Len(DeleteOrder) + 1
    /\ header' = [header EXCEPT ![import[p].snapshot] = Nobody]
    /\ Goto(p, "insert")
    /\ UNCHANGED <<rows, layer, since>>

\* _insert_all: batches of one table after the other.
LeftIn(p, n) == {r \in import[p].left : r.table = InsertOrder[n]}
InsertBatch(p) ==
    /\ import[p].at = "insert"
    /\ \E n \in DOMAIN InsertOrder :
        /\ LeftIn(p, n) # {} /\ \A m \in 1..(n - 1) : LeftIn(p, m) = {}
        /\ \E batch \in SUBSET LeftIn(p, n) :
            /\ batch = LeftIn(p, n) \/ Cardinality(batch) = BatchSize
            /\ Cardinality(batch) <= BatchSize
            /\ rows' = rows \cup Stamped(batch, import[p].snapshot, p)
            /\ import' = [import EXCEPT ![p].left = @ \ batch]
    /\ UNCHANGED <<header, layer, since>>
\* insert_snapshot_row; the key of the table is unique, a row that is there is replaced.
\* With --no-activate that is all.
InsertHeader(p) ==
    /\ import[p].at = "insert" /\ import[p].left = {}
    /\ header' = [header EXCEPT ![import[p].snapshot] = [by |-> p, active |-> Nobody]]
    /\ Goto(p, "others") \/ Goto(p, "done")
    /\ UNCHANGED <<rows, layer, since>>

\* Fault: the others stay active.
DeactivateNobody(p) == import[p].at = "others" /\ Goto(p, "itself") /\ UNCHANGED <<rows, header, layer, since>>
\* activate_snapshot
DeactivateOthers(p) ==
    /\ import[p].at = "others"
    /\ header' = [s \in SnapshotId |->
         IF s = import[p].snapshot \/ header[s] = Nobody THEN header[s] ELSE [header[s] EXCEPT !.active = Nobody]]
    /\ Goto(p, "itself")
    /\ UNCHANGED <<rows, layer, since>>
ActivateItself(p) ==
    /\ import[p].at = "itself"
    /\ header' = [header EXCEPT ![import[p].snapshot] = IF @ = Nobody THEN Nobody ELSE [@ EXCEPT !.active = p]]
    /\ Goto(p, "done")
    /\ UNCHANGED <<rows, layer, since>>

\* The database refuses a statement, or the import is killed.
StopImport(p) == Running(p) /\ Goto(p, "stopped") /\ UNCHANGED <<rows, header, layer, since>>

ImportStep(p) ==
    \/ \E f \in LineageFiles, s \in SnapshotId : BeginImport(p, f, s)
    \/ CheckLayer(p) \/ DropLayer(p) \/ DeleteRows(p) \/ DeleteHeader(p)
    \/ InsertBatch(p) \/ InsertHeader(p) \/ DeactivateOthers(p) \/ ActivateItself(p) \/ StopImport(p)
StoreNext == \E p \in Import : ImportStep(p)
StoreSpec == StoreInit /\ [][StoreNext]_storeVars

-----------------------------------------------------------------------------
Busy == {"check", "alter", "delete", "insert", "others", "itself"}
Begun(i) ==
    /\ i.at \in Busy \cup {"done", "stopped"} /\ i.snapshot \in SnapshotId
    /\ i.file \in LineageFiles /\ Importable(i.file) /\ i.left \subseteq Rows(ImportRows(i.file))
    /\ i.next \in 1..(Len(DeleteOrder) + 1)
    /\ i = [at |-> i.at, snapshot |-> i.snapshot, next |-> i.next, file |-> i.file, left |-> i.left]
(* The database holds rows of its nine tables, each of a snapshot and inserted by *)
(* an import; an import has begun with a file that can be imported, and has rows  *)
(* of it left, or has been refused.                                               *)
StoreTypeOK ==
    /\ \A r \in rows :
        /\ r = [table |-> r.table, row |-> r.row, snapshot |-> r.snapshot, by |-> r.by]
        /\ (\E n \in DOMAIN DeleteOrder : r.table = DeleteOrder[n]) /\ r.snapshot \in SnapshotId
    /\ header \in [SnapshotId -> {Nobody} \cup [by : Import, active : Import \cup {Nobody}]]
    /\ layer \in BOOLEAN
    /\ DOMAIN import = Import /\ import = [p \in Import |-> import[p]]
    /\ \A p \in Import : import[p] \in {NotBegun, [NotBegun EXCEPT !.at = "stopped"]} \/ Begun(import[p])
    /\ since \in [Import -> SUBSET Import]

\* No import with this one's id ran when it began, or has begun since.
Alone(p) == \A q \in since[p] : import[q].snapshot # import[p].snapshot
Overlap(p, q) == p \in since[q] /\ q \in since[p]

(* A snapshot with a header holds every row of the file it was made of, under *)
(* the tables that the file means, each once and no others, however often the *)
(* id was imported before and wherever that stopped; until it is imported     *)
(* again.                                                                     *)
SnapshotIsWhole == \A s \in SnapshotId : header[s] # Nobody /\ Alone(header[s].by) =>
    RowsOf(s) = Stamped(Rows(MeantRows(import[header[s].by].file)), s, header[s].by)

(* Two snapshots are active at a time only if the imports that activated them *)
(* have run at the same time.                                                 *)
OneActive == \A s, r \in SnapshotId :
    /\ s # r /\ header[s] # Nobody /\ header[r] # Nobody
    /\ header[s].active # Nobody /\ header[r].active # Nobody
    => Overlap(header[s].active, header[r].active)
=============================================================================
