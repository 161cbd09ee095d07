------------------------------- MODULE RowScopes -------------------------------
(***************************************************************************)
(* Which rows of a table a job is taken to need, and which partitions are  *)
(* therefore copied into the slot: row scopes and how SQL conditions become*)
(* scopes (refactor/shadow_scope.py), partitions (sql/doris.py), and the   *)
(* prefill of one table for one job (refactor/shadow_manifest.py).         *)
(*                                                                         *)
(* Rows are known by the value of the partition column, an instant.  SQL   *)
(* compares instants; the analysis has values of two types, dates and      *)
(* datetimes, that Python does not compare with each other.                *)
(***************************************************************************)
EXTENDS Integers, Sequences

CONSTANTS
    Instant, Day,       \* values of the column; those at which a day begins
    Month,              \* pairs of days: a month begins, and the next one does
    Jobs,               \* the readers to look at, see Reader
    None

Types == {"date", "datetime"}
Value == [type : Types, at : Instant]

ASSUME InstantAssumption ==
    /\ Instant \subseteq Int /\ Day \subseteq Instant
    /\ Month \subseteq {m \in Day \X Day : m[1] < m[2]}
    /\ None \notin Instant \cup Value

Comparable(v, w) == v.type = w.type     \* _compare is not None

(* A bound without value is open; an interval lies between two bounds.      *)
Bound == [value : Value \cup {None}, closed : BOOLEAN]
Interval == [from : Bound, to : Bound]
Open == [value |-> None, closed |-> TRUE]
Limit(v, closed) == [value |-> v, closed |-> closed]

(* "parts" are points and intervals; "error" is a TypeError that ends the   *)
(* command: Python does not sort dates among datetimes.                     *)
RowScope == [kind : {"empty", "all", "unknown", "error"}, points : {{}}, intervals : {{}}]
            \cup [kind : {"parts"}, points : SUBSET Value, intervals : SUBSET Interval]
Plain(kind) == [kind |-> kind, points |-> {}, intervals |-> {}]
NoRows == Plain("empty")
AllRows == Plain("all")
UnknownRows == Plain("unknown")

-----------------------------------------------------------------------------
(* Intervals.                                                              *)

\* v is on the right side of a lower, of an upper bound it is comparable with.
From(v, b) == b.value = None \/ v.at > b.value.at \/ (v.at = b.value.at /\ b.closed)
To(v, b) == b.value = None \/ v.at < b.value.at \/ (v.at = b.value.at /\ b.closed)

Undecided(v, b) == b.value # None /\ ~Comparable(v, b.value)

\* _point_in_interval is True, and is None: the upper bound is looked at only if
\* the lower one does not decide.
Inside(v, i) == ~Undecided(v, i.from) /\ From(v, i.from) /\ ~Undecided(v, i.to) /\ To(v, i.to)
Unclear(v, i) == Undecided(v, i.from) \/ (From(v, i.from) /\ Undecided(v, i.to))

Clash(b, c) == b.value # None /\ c.value # None /\ ~Comparable(b.value, c.value)
\* _interval_is_empty for the interval from b to c.
Hollow(b, c) ==
    /\ b.value # None /\ c.value # None /\ Comparable(b.value, c.value)
    /\ b.value.at > c.value.at \/ (b.value.at = c.value.at /\ ~(b.closed /\ c.closed))

Tighter(b, c, beats(_, _)) ==
    IF b.value = None THEN c
    ELSE IF c.value = None \/ beats(b.value.at, c.value.at) THEN b
    ELSE IF b.value.at = c.value.at THEN [b EXCEPT !.closed = @ /\ c.closed]
    ELSE c
Later(b, c) == Tighter(b, c, LAMBDA x, y : x > y)
Earlier(b, c) == Tighter(b, c, LAMBDA x, y : x < y)
Common(i, j) == [from |-> Later(i.from, j.from), to |-> Earlier(i.to, j.to)]

\* _intersect_interval returns None.
Incomparable(i, j) ==
    \/ Clash(i.from, j.from) \/ Clash(i.to, j.to)
    \/ Clash(Later(i.from, j.from), Earlier(i.to, j.to))
Disjoint(i, j) == Hollow(Later(i.from, j.from), Earlier(i.to, j.to))
Part(i, j) == ~Incomparable(i, j) /\ ~Disjoint(i, j) /\ Common(i, j) = i   \* _interval_subset is True

-----------------------------------------------------------------------------
(* RowScope and its operations.                                            *)

\* _from_parts and from_points.
FromParts(points, intervals) ==
    LET apart == {v \in points : \A i \in intervals : ~Inside(v, i)}
    IN  IF \E v, w \in points : ~Comparable(v, w) THEN Plain("error")
        ELSE IF apart = {} /\ intervals = {} THEN NoRows
        ELSE [kind |-> "parts", points |-> apart, intervals |-> intervals]
Points(S) == FromParts(S, {})
Between(b, c) == IF Hollow(b, c) THEN NoRows ELSE FromParts({}, {[from |-> b, to |-> c]})

Either(s, t, kind) == s.kind = kind \/ t.kind = kind

Intersection(s, t) ==
    LET meeting == {p \in s.intervals \X t.intervals : ~Disjoint(p[1], p[2])}
        points == (s.points \cap t.points)
                  \cup {v \in s.points : \E i \in t.intervals : Inside(v, i)}
                  \cup {v \in t.points : \E i \in s.intervals : Inside(v, i)}
    IN  IF Either(s, t, "error") THEN Plain("error")
        ELSE IF Either(s, t, "empty") THEN NoRows
        ELSE IF Either(s, t, "unknown") THEN UnknownRows
        ELSE IF s.kind = "all" THEN t
        ELSE IF t.kind = "all" THEN s
        ELSE IF \E i \in s.intervals, j \in t.intervals : Incomparable(i, j) THEN UnknownRows
        ELSE FromParts(points, {Common(p[1], p[2]) : p \in meeting})

Union(s, t) ==
    IF Either(s, t, "error") THEN Plain("error")
    ELSE IF Either(s, t, "unknown") THEN UnknownRows
    ELSE IF Either(s, t, "all") THEN AllRows
    ELSE FromParts(s.points \cup t.points, s.intervals \cup t.intervals)

\* is_subset_of is True.
Included(s, t) ==
    \/ s.kind = "empty"
    \/ t.kind = "all"
    \/ /\ s.kind = "parts" /\ t.kind = "parts"
       /\ \A v \in s.points \ t.points :
             /\ \E j \in t.intervals : Inside(v, j)
             /\ \A j \in t.intervals : ~Unclear(v, j)
       /\ \A i \in s.intervals :
             /\ \E j \in t.intervals : Part(i, j)
             /\ \A j \in t.intervals : ~Incomparable(i, j)

-----------------------------------------------------------------------------
(* Conditions.                                                             *)
(*                                                                         *)
(* A condition names the column of the table itself ("own", or "bare"      *)
(* without a qualifier), of a second occurrence of the table ("twin"), the *)
(* column of the same name of another table ("same"), or any other one     *)
(* ("else").  A term without instant is the date the job is run for.       *)

Column == {"own", "bare", "twin", "same", "else"}
Term == [type : Types, at : Instant \cup {None}]
Comparison == {"=", "<", "<=", ">", ">=", "<>"}
Atom == [op : Comparison, of : Column, term : Term]
        \cup [op : {"between"}, of : Column, low : Term, high : Term]
        \cup [op : {"in"}, of : Column, among : SUBSET Term]
        \cup [op : {"month"}, of : Column, month : Month]   \* DATE_FORMAT(of, "%Y-%m") = "..."
        \cup [op : {"subquery"}, of : Column]   \* of IN (SELECT ...)
        \cup [op : {"opaque"}, of : Column]     \* whatever else mentions it
        \cup [op : {"true", "false"}, of : {"else"}]
Connective == {"and", "or", "if"}          \* IF(@full_refresh = 1, left, right)
Clause == Atom \cup [op : Connective, left : Atom, right : Atom]
Predicate == Clause \cup [op : Connective, left : Clause, right : Clause]

Invocation == [date : Day \cup {None}, full : BOOLEAN]

Unset(x, run) == x.at = None /\ run.date = None     \* _eval_value does not resolve
Folded(x, run) == IF x.at = None THEN [x EXCEPT !.at = run.date] ELSE x
Terms(a) == IF a.op \in Comparison THEN {a.term}
            ELSE IF a.op = "between" THEN {a.low, a.high}
            ELSE IF a.op = "in" THEN a.among ELSE {}
Date(d) == [type |-> "date", at |-> d]

\* _comparison_scope and _date_format_scope, on a column of one of the two types.
Compared(op, x) ==
    IF op = "=" THEN Points({x})
    ELSE IF op \in {">", ">="} THEN Between(Limit(x, op = ">="), Open)
    ELSE IF op \in {"<", "<="} THEN Between(Open, Limit(x, op = "<="))
    ELSE UnknownRows
DaysOf(m) == {d \in Day : m[1] <= d /\ d < m[2]}
InMonth(m, type) ==
    IF type = "date" THEN Points({Date(d) : d \in DaysOf(m)})
    ELSE Between(Limit(Date(m[1]), TRUE), Limit(Date(m[2]), FALSE))

\* scope_for_predicate; tracked are the columns it takes for the partition column.
\* IN looks at the values listed: of a query there are none.
AtomScope(a, tracked, run, type) ==
    IF a.op = "true" THEN AllRows
    ELSE IF a.op = "false" THEN NoRows
    ELSE IF a.of \notin tracked THEN AllRows
    ELSE IF a.op = "subquery" THEN NoRows
    ELSE IF a.op = "opaque" \/ \E x \in Terms(a) : Unset(x, run) THEN UnknownRows
    ELSE IF a.op = "in" THEN Points({Folded(x, run) : x \in a.among})
    ELSE IF a.op = "between"
         THEN Between(Limit(Folded(a.low, run), TRUE), Limit(Folded(a.high, run), TRUE))
    ELSE IF a.op = "month" THEN InMonth(a.month, type)
    ELSE Compared(a.op, Folded(a.term, run))

Joined(op, s, t, run) ==
    IF op = "and" THEN Intersection(s, t)
    ELSE IF op = "or" THEN Union(s, t)
    ELSE IF run.full THEN s ELSE t
ClauseScope(c, tracked, run, type) ==
    IF c.op \in Connective
    THEN Joined(c.op, AtomScope(c.left, tracked, run, type), AtomScope(c.right, tracked, run, type), run)
    ELSE AtomScope(c, tracked, run, type)
PredicateScope(p, tracked, run, type) ==
    IF p.op \in Connective
    THEN Joined(p.op, ClauseScope(p.left, tracked, run, type), ClauseScope(p.right, tracked, run, type), run)
    ELSE ClauseScope(p, tracked, run, type)

AtomsOf(p) ==
    LET atoms(c) == IF c.op \in Connective THEN {c.left, c.right} ELSE {c}
    IN  IF p.op \in Connective THEN atoms(p.left) \cup atoms(p.right) ELSE atoms(p)
Mentions(p) == {a.of : a \in AtomsOf(p)}

-----------------------------------------------------------------------------
(* Statements.  A query reads the table once, or twice (twin), perhaps with *)
(* another table.  own tells how the table is joined, "from" if it is the   *)
(* first of the query; linked, whether ON equates its column with "else";   *)
(* loose, that the equation is one side of an OR there.                     *)

Query == [where : Predicate \cup {None}, twin : BOOLEAN, other : BOOLEAN,
          own : {"from", "inner", "left", "right"}, linked : BOOLEAN, loose : BOOLEAN]
\* "copy" inserts into another table, "self" into this one.
Kind == {"copy", "self", "update", "delete", "merge"}
Statement == [kind : Kind, queries : Seq(Query)]
Mutates(s) == s.kind \in {"update", "delete", "merge"}

Filtered(s) == {n \in DOMAIN s.queries : s.queries[n].where # None}
\* statement.find(exp.Where)
FirstFiltered(s) == s.queries[CHOOSE n \in Filtered(s) : \A m \in Filtered(s) : n <= m]
\* More than one physical table, the target of an INSERT among them.
Several(s) == s.kind = "copy" \/ \E n \in DOMAIN s.queries : s.queries[n].other

SameName == {"own", "bare", "twin", "same"}
\* Fault: an equation counts whatever the join keeps.
EquivalentAnyJoin(q) == ~q.twin /\ q.own # "from" /\ q.linked /\ "else" \in Mentions(q.where)

\* _join_equivalent_predicate finds columns that stand for the partition column.
Equivalent(q) == ~q.twin /\ q.own \in {"inner", "left"} /\ q.linked /\ "else" \in Mentions(q.where)

\* _predicate_scope
FilterScope(s, run, type) ==
    LET q == FirstFiltered(s)
        direct == PredicateScope(q.where, SameName, run, type)
    IN  IF Filtered(s) = {} THEN AllRows
        ELSE IF "same" \in Mentions(q.where) \/ ("bare" \in Mentions(q.where) /\ Several(s))
        THEN UnknownRows
        ELSE IF direct.kind = "all" /\ Equivalent(q)
        THEN PredicateScope(q.where, SameName \cup {"else"}, run, type)
        ELSE direct

\* statement_scope, as _read_scopes and _existing_mutation_scopes use it.
ReadScope(s, run, type) == IF Mutates(s) THEN NoRows ELSE FilterScope(s, run, type)
ExistingScope(s, run, type) ==
    IF s.kind = "merge" THEN UnknownRows
    ELSE IF ~Mutates(s) \/ (s.kind = "delete" /\ Filtered(s) = {}) THEN NoRows
    ELSE FilterScope(s, run, type)

-----------------------------------------------------------------------------
(* Partitions and the prefill.                                             *)

\* What a job reads and what there is: the table is partitioned by a column of a
\* type; its DDL has these partitions, and there may be others made at run time
\* (~complete); earlier jobs write what written says, if there are any.
Reader == [type : Types, script : Seq(Statement), runs : Seq(Invocation),
           partitions : SUBSET RowScope, complete : BOOLEAN,
           preceded : BOOLEAN, written : RowScope]
ASSUME ReaderAssumption ==
    /\ Jobs \subseteq Reader
    /\ \A job \in Jobs : \A n \in DOMAIN job.script : \A m \in DOMAIN job.script[n].queries :
          LET q == job.script[n].queries[m]
          IN  q.where # None /\ "twin" \in Mentions(q.where) => q.twin

\* map_scope, and _prefill_action: what is not a choice of partitions is the table.
Overlapping(job, s) == {p \in job.partitions : Intersection(p, s).kind \notin {"empty", "unknown"}}
PrefillOf(job, s) ==
    IF s.kind = "empty" THEN {}
    ELSE IF \/ s.kind = "unknown"
            \/ \E p \in job.partitions : Intersection(p, s).kind = "unknown"
            \/ Overlapping(job, s) = {}
    THEN {AllRows}
    ELSE Overlapping(job, s)

VARIABLES
    reader,     \* the job
    todo,       \* statements, with the invocations they are looked at for
    reads,      \* read_scopes of the table
    existing,   \* existing_scopes of the table
    copied      \* what the prefill action copies, None before

scopeVars == <<reader, todo, reads, existing, copied>>

Lookups(job) == [k \in 1..(Len(job.script) * Len(job.runs)) |->
    <<job.script[((k - 1) \div Len(job.runs)) + 1], job.runs[((k - 1) % Len(job.runs)) + 1]>>]

ScopeInit ==
    /\ reader \in Jobs
    /\ todo = Lookups(reader)
    /\ reads = NoRows /\ existing = NoRows
    /\ copied = None

\* The loops of _read_scopes and _existing_mutation_scopes.
Lookup ==
    /\ todo # <<>>
    /\ todo' = Tail(todo)
    /\ LET s == Head(todo)[1]
           run == Head(todo)[2]
       IN  /\ reads' = Union(reads, ReadScope(s, run, reader.type))
           /\ existing' = Union(existing, ExistingScope(s, run, reader.type))
    /\ UNCHANGED <<reader, copied>>

Writes(job) == \E n \in DOMAIN job.script : job.script[n].kind # "copy"
\* request_prefill, for reads and then for existing rows.
Requested == Union(IF Writes(reader) \/ ~reader.preceded \/ ~Included(reads, reader.written)
                   THEN reads ELSE NoRows, existing)
Request ==
    /\ todo = <<>> /\ copied = None
    /\ "error" \notin {s.kind : s \in {reads, existing, Requested}
                                       \cup {Intersection(p, Requested) : p \in reader.partitions}}
    /\ copied' = PrefillOf(reader, Requested)
    /\ UNCHANGED <<reader, todo, reads, existing>>

ScopeNext == Lookup \/ Request
ScopeSpec == ScopeInit /\ [][ScopeNext]_scopeVars

-----------------------------------------------------------------------------
(* What the statements really read.                                        *)

Axis(type) == IF type = "date" THEN Day ELSE Instant

\* A condition can be true of a combination of rows, given by its columns.
AtomMay(a, row, run) ==
    IF a.op \in {"true", "opaque", "subquery"} \/ \E x \in Terms(a) : Unset(x, run) THEN TRUE
    ELSE IF a.op = "false" THEN FALSE
    ELSE IF a.op = "in" THEN \E x \in a.among : row[a.of] = Folded(x, run).at
    ELSE IF a.op = "between" THEN Folded(a.low, run).at <= row[a.of] /\ row[a.of] <= Folded(a.high, run).at
    ELSE IF a.op = "month" THEN a.month[1] <= row[a.of] /\ row[a.of] < a.month[2]
    ELSE LET v == row[a.of]
             x == Folded(a.term, run).at
         IN  \/ v = x /\ a.op \in {"=", "<=", ">="}
             \/ v < x /\ a.op \in {"<", "<=", "<>"}
             \/ v > x /\ a.op \in {">", ">=", "<>"}
JoinedMay(op, l, r, run) ==
    IF op = "and" THEN l /\ r ELSE IF op = "or" THEN l \/ r ELSE IF run.full THEN l ELSE r
ClauseMay(c, row, run) ==
    IF c.op \in Connective
    THEN JoinedMay(c.op, AtomMay(c.left, row, run), AtomMay(c.right, row, run), run)
    ELSE AtomMay(c, row, run)
PredicateMay(p, row, run) ==
    IF p.op \in Connective
    THEN JoinedMay(p.op, ClauseMay(p.left, row, run), ClauseMay(p.right, row, run), run)
    ELSE ClauseMay(p, row, run)

\* ON lets the combination pass; an outer join keeps the rows of its own side anyway.
Meets(q, row) ==
    q.linked /\ ~q.loose /\ q.own \in {"inner", "left"} => row["own"] = row["else"]
Combinations(type) ==
    {[c \in Column |-> IF c = "twin" THEN r[2] ELSE IF c = "same" THEN r[3] ELSE IF c = "else" THEN r[4] ELSE r[1]] :
     r \in Axis(type) \X Axis(type) \X Instant \X Instant}
NeededBy(s, run, type) ==
    {v \in Axis(type) : \E n \in DOMAIN s.queries, row \in Combinations(type) :
        /\ row["own"] = v \/ (row["twin"] = v /\ s.queries[n].twin)
        /\ Meets(s.queries[n], row)
        /\ s.queries[n].where = None \/ PredicateMay(s.queries[n].where, row, run)}

\* v is one of the rows a scope describes; nothing is known of an unknown one.
Describes(s, v) ==
    \/ s.kind = "all"
    \/ \E w \in s.points : w.at = v
    \/ \E i \in s.intervals : From(Date(v), i.from) /\ To(Date(v), i.to)

Copied(v) == \E p \in copied : Describes(p, v)
\* Production has rows only where it has partitions.
Exists(v) == reader.complete => \E p \in reader.partitions : Describes(p, v)

(* Every row of the table that a statement can read in production, for any date    *)
(* the job is run for, is copied or known to be written by a job before this one;  *)
(* every row an UPDATE or DELETE can meet is copied.                               *)
RowsAtHand ==
    copied # None => \A k \in DOMAIN Lookups(reader) :
        LET s == Lookups(reader)[k][1]
            run == Lookups(reader)[k][2]
        IN  \A v \in NeededBy(s, run, reader.type) :
               Exists(v) /\ ~(s.kind = "delete" /\ Filtered(s) = {})
               => Copied(v) \/ (~Mutates(s) /\ reader.preceded /\ Describes(reader.written, v))

\* The statement reads the table once, and no OR stands around the equations of ON.
ReadsOnce(s) == Len(s.queries) = 1 /\ ~s.queries[1].twin /\ ~s.queries[1].loose
\* All values in the conditions of the script are of one type.
TypesIn(p) == UNION {{x.type : x \in Terms(a)} \cup (IF a.op = "month" THEN {"date"} ELSE {}) :
                     a \in AtomsOf(p)}
OneType(job) == \E type \in Types : \A n \in DOMAIN job.script : \A m \in Filtered(job.script[n]) :
    TypesIn(job.script[n].queries[m].where) \subseteq {type}
\* No condition takes the values of the column from a query, itself or by ON.
ListsValues(q) == \A a \in AtomsOf(q.where) :
    a.op = "subquery" => a.of = "same" \/ (a.of = "else" /\ ~Equivalent(q))
ValuesListed(job) == \A n \in DOMAIN job.script : \A m \in Filtered(job.script[n]) :
    ListsValues(job.script[n].queries[m])
\* Partitions are all made by the DDL, or all at run time.
OneOrigin(job) == job.complete \/ job.partitions = {}
=============================================================================
