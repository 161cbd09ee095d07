-------------------------------- MODULE MCIssues -------------------------------
(* Warehouses for the assessment: a source o, a dimension c, a fact d, sums s and  *)
(* an output a; and what a user may make of each of their files.  In two edits     *)
(* every rule fires.                                                               *)
EXTENDS IssueDiff, TLC

Ddl(id, columns) == [id |-> id, columns |-> columns, partition |-> "data_dt", unique |-> {}]
Model(layer, role, type) == [
    layer |-> layer, role |-> role, type |-> type, content |-> Unset, dimRole |-> Unset, processes |-> {},
    atomic |-> {}, derived |-> {}, calculated |-> {}, entities |-> <<>>, grain |-> Unset, subject |-> Unset,
    domain |-> "sales", area |-> "shop"]
Entity(code, kind, keys, from) == [code |-> code, kind |-> kind, keys |-> keys, from |-> from]
Metric(base, from) == [name |-> "amount", base |-> base, from |-> from, aggregated |-> TRUE]
Task(reads, writes, columns) == [
    writes |-> writes, reads |-> reads, group |-> {}, plain |-> [x \in columns |-> x], aggregates |-> {},
    windows |-> {}, joins |-> {}, star |-> FALSE, cartesian |-> FALSE, wrapped |-> FALSE, temporaries |-> {},
    borrows |-> {}]
Join(table, on) == [table |-> table, on |-> on]
Temporary(name, dropped, droppedBefore) == [name |-> name, dropped |-> dropped, droppedBefore |-> droppedBefore]
Full(j) == [stem |-> j, full |-> TRUE]
Says(entities, content) ==
    [entities |-> entities, role |-> Unset, content |-> content, domain |-> "S", area |-> "B"]
Named(S, says) == [t \in TableName |-> IF t \in S THEN says ELSE Unset]

D == [o |-> Ddl(1, {"key", "cust", "amt"}), c |-> [Ddl(2, {"cust"}) EXCEPT !.unique = {"cust"}],
      d |-> Ddl(3, {"key", "cust", "amt"}), s |-> Ddl(4, {"cust", "amount"}), a |-> Ddl(5, {"cust", "amount"})]
M == [o |-> Model("ODS", "ods", Unset),
      c |-> [Model("DIM", "mid", "dimension") EXCEPT !.content = "INFO", !.subject = "customer",
             !.entities = <<Entity("customer", "primary", {"cust"}, Unset)>>],
      d |-> [Model("DWD", "mid", "fact") EXCEPT !.atomic = {"amt"}, !.processes = {"pay"},
             !.entities = <<Entity("payment", "primary", {"key"}, Unset),
                            Entity("customer", "foreign", {"cust"}, "payment")>>],
      s |-> [Model("DWS", "mid", "fact") EXCEPT !.derived = {Metric("amt", "d")},
             !.entities = <<Entity("customer", "foreign", {"cust"}, Unset)>>,
             !.grain = [entities |-> {"customer"}, keys |-> {}]],
      a |-> Model("ADS", "ads", Unset)]
T == Daily("c") :> Task({"o"}, {"c"}, {"cust"})
    @@ Daily("d") :> Task({"o"}, {"d"}, {"key", "cust", "amt"})
    @@ Daily("s") :> [Task({"d", "c"}, {"s"}, {"cust"}) EXCEPT !.group = {"cust"}, !.aggregates = {"amount"},
                      !.joins = {Join("c", {"cust"})}]
    @@ Daily("a") :> Task({"s"}, {"a"}, {"cust", "amount"})
Naming == [
    reading |-> [DIM |-> Named({"c"}, Says(<<"customer">>, "INFO")), DWD |-> Named({"d", "n"}, Says(<<>>, Unset)),
                 DWS |-> Named({"s", "n"}, Says(<<"customer">>, Unset))],
    tooLong |-> {}, columns |-> {"cust", "key"}, atomic |-> {"amt"}, derived |-> {"amount"}, codes |-> {"S", "B"}]
Semantics == [domain |-> "sales" :> "S", area |-> "shop" :> "B"]
Healthy == [ddl |-> D, model |-> M, task |-> T, naming |-> Naming, semantics |-> Semantics,
            settings |-> "this catalog"]
\* Wrong in many ways.
Sick == [Healthy EXCEPT
    !.ddl.d.partition = "day", !.ddl.d.columns = {"cust", "amt"}, !.ddl.a.partition = "day",
    !.model = [t \in {"o", "c", "d", "s"} |-> IF t = "s" THEN [M.s EXCEPT !.grain = Unset] ELSE M[t]],
    !.task = Daily("n") :> Task({"d"}, {"a", "work"}, {"cust"})
        @@ Full("d") :> [Task({"o", "s"}, {"d"}, {"cust"}) EXCEPT !.star = TRUE,
                         !.temporaries = {Temporary("tmp", FALSE, TRUE)}]
        @@ [T EXCEPT ![Daily("c")].borrows = {"tmp"}],
    !.naming.tooLong = {"s"}]
MCBase == {Healthy, Sick}

MCDdl == [t \in TableName |-> CASE
    t = "c" -> {D.c, [D.c EXCEPT !.unique = {}], [D.c EXCEPT !.columns = {"Cust"}]}
 [] t = "d" -> {D.d, [D.d EXCEPT !.columns = {"cust", "amt"}], [D.d EXCEPT !.columns = @ \cup {"x"}],
                [D.d EXCEPT !.partition = "day"], [D.d EXCEPT !.id = 6], Unset}
 [] t = "s" -> {D.s, Unset}
 [] t = "n" -> {Ddl(7, {"key"}), Ddl(3, {"key"}), Unset}
 [] t = "work" -> {Ddl(8, {"key"})}
 [] OTHER -> {}]
MCModel == [t \in TableName |-> CASE
    t = "c" -> {M.c, [M.c EXCEPT !.entities = <<>>], [M.c EXCEPT !.subject = "shop", !.dimRole = "role"],
                [M.c EXCEPT !.calculated = {"share"}]}
 [] t = "d" -> {M.d, Unset, [M.d EXCEPT !.layer = "DWS"],
                [M.d EXCEPT !.processes = {"pay", "refund"}, !.calculated = {"share"}],
                [M.d EXCEPT !.entities = <<>>], [M.d EXCEPT !.atomic = {"value"}], [M.d EXCEPT !.area = "moon"],
                [M.d EXCEPT !.entities = @ \o <<Entity("payment", "foreign", {"Key"}, "customer")>>]}
 [] t = "s" -> {M.s, [M.s EXCEPT !.grain = Unset], [M.s EXCEPT !.grain.entities = {"payment"}],
                [M.s EXCEPT !.grain.keys = {"nothing"}], [M.s EXCEPT !.derived = {Metric("total", "c")}],
                [M.s EXCEPT !.layer = "ADS"]}
 [] t = "n" -> {[M.d EXCEPT !.domain = "moon"]}
 [] t = "a" -> {M.a, [M.a EXCEPT !.layer = "ODS"], Unset}
 [] OTHER -> {}]
MCTask == [f \in TaskName |-> CASE
    f = Daily("c") -> {T[f], [T[f] EXCEPT !.reads = {"o", "d"}],
                       [T[f] EXCEPT !.borrows = {"tmp"}, !.windows = {"cust"}]}
 [] f = Daily("d") -> {T[f], Unset, [T[f] EXCEPT !.reads = {"o", "c"}], [T[f] EXCEPT !.writes = {"d", "n"}],
                       [T[f] EXCEPT !.group = {"key"}, !.aggregates = {"amt"}, !.wrapped = TRUE],
                       [T[f] EXCEPT !.temporaries = {Temporary("tmp", TRUE, FALSE), Temporary("work", FALSE, TRUE)},
                                    !.cartesian = TRUE]}
 [] f = Full("d") -> {[T[Daily("d")] EXCEPT !.star = TRUE, !.reads = {"c"}],
                      [T[Daily("d")] EXCEPT !.temporaries = {Temporary("tmp", FALSE, FALSE)}]}
 [] f = Daily("s") -> {T[f], [T[f] EXCEPT !.aggregates = {}], [T[f] EXCEPT !.group = {"key"}],
                       [T[f] EXCEPT !.plain = [x \in {"cust", "amt"} |-> x], !.joins = {Join("d", {"cust"})}]}
 [] f = Daily("a") -> {T[f], [T[f] EXCEPT !.reads = {"d"}], [T[f] EXCEPT !.reads = {"s", "o"}], Unset}
 [] f = Daily("n") -> {Task({"s"}, {"n"}, {"key"}), Task({"c"}, {"d"}, {"cust"}), Task({"d"}, {"c", "n"}, {"cust"}),
                       Unset}
 [] OTHER -> {}]
MCNaming == {Naming, [Naming EXCEPT !.columns = {}, !.derived = {}], [Naming EXCEPT !.codes = {"S"}],
             [Naming EXCEPT !.reading.DWD.d = Unset]}
MCSemantics == {Semantics, [Semantics EXCEPT !.domain = "sales" :> "B"]}
MCSettings == {"this catalog", "another catalog"}
MCSame == [x \in ColumnName |-> CASE x = "Key" -> "key" [] x = "Cust" -> "cust" [] OTHER -> x]
=============================================================================
