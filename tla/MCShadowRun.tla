----------------------------- MODULE MCShadowRun ------------------------------
(* Two parts that share nothing: executions of plans, and scopes of readers.  *)
(* Three jobs, three tables and three slices, of which the execution values   *)
(* name at most two.  b reads from ta, and perhaps from its own table; c      *)
(* reads tb, and may write ta as well.  A plan varies the order of the three, *)
(* what a writes and b reads, or what the DDL changes and c does about them.  *)
EXTENDS ShadowRun, RowScopes

CONSTANTS a, b, c, ta, tb, tc,
    Parts       \* which parts to check: "run", "scopes"

VARIABLE part

MCUnknown == {0}

Of(x, y, z) == [j \in Job |-> CASE j = a -> x [] j = b -> y [] OTHER -> z]
At(x, y, z) == [t \in Table |-> CASE t = ta -> x [] t = tb -> y [] OTHER -> z]

MCPlan(order, also, writes, known, read, self, stages) ==
    [up |-> order, target |-> Of(ta, tb, tc), out |-> Of({ta}, {tb}, {tc} \cup also),
     sliced |-> Of(writes # Slice, TRUE, FALSE), known |-> Of(known, TRUE, TRUE),
     values |-> Of(writes, {1, 2}, {}),
     reads |-> Of(At({}, {}, {}), At(read, self, {}), At({}, {1, 2}, {})),
     mutates |-> Of({}, {}, {}), stages |-> Of(FALSE, stages, FALSE),
     ddl |-> Table, created |-> {}, dropped |-> {}]

Chain == Of({}, {a}, {b})

MCPlans ==
    {MCPlan(Of({}, gb, {b}), {}, w, k, r, {}, FALSE) :
        gb \in SUBSET {a}, w \in {{1}, {1, 2}, Slice}, k \in BOOLEAN, r \in {{1, 2}, Unknown}}
    \cup {MCPlan(g, {ta}, {1, 2}, TRUE, {1, 2}, {}, FALSE) :
        g \in {Of({}, {a, c}, {}), Of({}, {a}, {a})}}
    \cup {MCPlan(Of({}, {a}, gc), {}, {1, 2}, TRUE, {1}, self, stages) :
        gc \in SUBSET {b}, self \in {{}, {1}}, stages \in BOOLEAN}
    \cup {[MCPlan(Chain, {}, {1, 2}, TRUE, r, {}, FALSE) EXCEPT
            !.created = new, !.dropped = old, !.stages[c] = stages, !.mutates[c] = m] :
        r \in {{1}, {1, 3}}, new \in {{}, {ta}}, old \in {{}, {ta}, {tc}}, stages \in BOOLEAN,
        m \in {{}, {1}, Unknown}}

(* Readers of a table with partitions by date or by datetime, three days in   *)
(* five instants; the first two days are a month.                             *)
MCMonth == {<<0, 4>>}
Dated(d) == [type |-> "date", at |-> d]
Timed(d) == [type |-> "datetime", at |-> d]
Compare(of, op, x) == [op |-> op, of |-> of, term |-> x]
Leaf(op, of) == [op |-> op, of |-> of]
Both(op, l, r) == [op |-> op, left |-> l, right |-> r]

\* Conditions on the column itself, with literals of one type.
OwnAtoms(x(_)) ==
    {Compare("own", op, x(2)) : op \in Comparison}
    \cup {Compare("own", op, [x(2) EXCEPT !.at = None]) : op \in {"=", ">"}}
    \cup {[op |-> "between", of |-> "own", low |-> x(l), high |-> x(2)] : l \in {0, 2, 4}}
    \cup {[op |-> "in", of |-> "own", among |-> {x(0), x(4)}]}
    \cup {Leaf("opaque", "own"), Leaf("true", "else"), Leaf("false", "else")}
DateAtoms == OwnAtoms(Dated) \cup {[op |-> "month", of |-> "own", month |-> <<0, 4>>]}
TimeAtoms == OwnAtoms(Timed) \cup {Compare("own", "<", Timed(1))}
Across == {Compare(of, "=", Dated(2)) : of \in {"own", "bare", "same", "else"}}

Reading(p) == [where |-> p, twin |-> FALSE, other |-> FALSE, own |-> "from", linked |-> FALSE, loose |-> FALSE]
St(kind, queries) == [kind |-> kind, queries |-> queries]
Runs == {<<[date |-> 2, full |-> FALSE]>>, <<[date |-> 2, full |-> FALSE], [date |-> 0, full |-> FALSE]>>,
         <<[date |-> None, full |-> TRUE]>>}
Daily == <<[date |-> 2, full |-> FALSE]>>
Monthly == {Between(Open, Limit(Dated(2), FALSE)), Between(Limit(Dated(2), TRUE), Limit(Dated(4), FALSE))}
Listed == {Points({Dated(d)}) : d \in {0, 2}}
MCReader(type, script, runs, partitions, written) ==
    [type |-> type, script |-> script, runs |-> runs, partitions |-> partitions,
     complete |-> partitions # {}, preceded |-> written # NoRows, written |-> written]

Clauses(ops, S, T) == S \cup {Both(op, l, r) : op \in ops, l \in S, r \in T}
\* Every pair of conditions, on both kinds of columns.
Conditions ==
    {MCReader("date", <<St("copy", <<Reading(p)>>)>>, Daily, Monthly, w) :
        p \in Clauses({"and", "or"}, DateAtoms, DateAtoms), w \in {NoRows, Points({Dated(0), Dated(2)})}}
    \cup {MCReader("datetime", <<St("copy", <<Reading(p)>>)>>, Daily, Monthly, NoRows) :
        p \in Clauses({"and", "or"}, DateAtoms, DateAtoms) \cup Clauses({"and", "or"}, TimeAtoms, TimeAtoms)}
\* Kinds of statements and joins, over conditions on several columns.
Statements ==
    {MCReader("date", <<St(kind, <<[Reading(p) EXCEPT !.other = kind = "copy", !.own = own, !.linked = linked]>>)>>,
              runs, Monthly, w) :
        kind \in Kind, own \in {"from", "inner", "left", "right"}, linked \in BOOLEAN, runs \in Runs,
        w \in {NoRows, Points({Dated(2)})}, p \in Across \cup {None}}
    \cup {MCReader("date", <<St("copy", <<[Reading(p) EXCEPT !.other = TRUE, !.own = "inner", !.linked = TRUE]>>)>>,
              runs, partitions, w) :
        runs \in Runs, partitions \in {Listed, {}}, w \in {NoRows, AllRows, UnknownRows},
        p \in Clauses(Connective, Across, {Compare("own", "=", Dated(None))})}
\* Columns whose values a query gives: not the partition column, and then that one.
Queried(of) == Leaf("subquery", of)
Restricted(S, owns) ==
    {MCReader("date", <<St("copy", <<[Reading(p) EXCEPT !.other = TRUE, !.own = own, !.linked = linked]>>)>>,
              Daily, Monthly, w) :
        p \in S, own \in owns, linked \in BOOLEAN, w \in {NoRows, Points({Dated(2)})}}
Restrictions == Restricted(Clauses({"and", "or"}, {Queried("else"), Queried("same")}, Across),
                           {"from", "inner", "left", "right"})
Subqueries == Restricted(Clauses({"and", "or"}, {Queried("own")}, Across), {"from", "inner"})
\* Two statements over the same table.
Scripts ==
    {MCReader("date", <<St(k1, <<Reading(p)>>), St(k2, <<Reading(Compare("own", "=", Dated(2)))>>)>>,
              Daily, Monthly, w) :
        k1 \in Kind, k2 \in Kind, p \in DateAtoms, w \in {NoRows, Points({Dated(2)})}}
\* The table twice in a query, or in both queries of a UNION.
Twice ==
    {MCReader("date", <<St("copy", <<[Reading(Both("and", p, Compare("twin", "=", Dated(0)))) EXCEPT
                                        !.twin = TRUE, !.own = own]>>)>>, Daily, Monthly, NoRows) :
        p \in Across, own \in {"from", "left"}}
    \cup {MCReader("date", <<St("copy", <<Reading(p), Reading(q)>>)>>, Daily, Monthly, NoRows) :
        p \in Across \cup {None}, q \in Across \cup {None}}
MCJobs == {job \in Conditions \cup Statements \cup Restrictions \cup Scripts :
              OneType(job) /\ ValuesListed(job)}
NoJob == MCReader("date", <<>>, <<>>, {}, NoRows)

MCInit ==
    /\ part \in Parts
    /\ IF part = "run" THEN Init /\ reader = NoJob /\ todo = <<>> /\ reads = NoRows
                            /\ existing = NoRows /\ copied = None
       ELSE /\ ScopeInit /\ phase = "completed" /\ plan = CHOOSE p \in Plans : TRUE
            /\ rows = [t \in Table |-> [s \in Slice |-> Empty]] /\ state = [j \in Job |-> "waiting"]
            /\ batch = [j \in Job |-> [s \in SUBSET Slice |-> "none"]] /\ ready = {}
RunStep == part = "run" /\ Next /\ UNCHANGED <<part, scopeVars>>
ScopeStep == part = "scopes" /\ ScopeNext /\ UNCHANGED <<part, vars>>
MCNext == RunStep \/ ScopeStep
MCSpec == MCInit /\ [][MCNext]_<<part, vars, scopeVars>> /\ WF_vars(Progress)
=============================================================================
