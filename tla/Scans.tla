-------------------------------- MODULE Scans --------------------------------
(***************************************************************************)
(* The tables as a SELECT sees them, the scan that is chosen for a table   *)
(* and a filter (Planner::build_scan of src/src/sql/plan/planner.rs), and  *)
(* the scans and the filter at work (src/src/sql/executor/query.rs).       *)
(*                                                                         *)
(* Rows come from the tables in the order of their primary keys.  Indexes  *)
(* are taken to list the rows there are (when they do is the subject of    *)
(* Sql).  A result is the column names and the rows, Err or Panic.         *)
(***************************************************************************)
EXTENDS Expressions, SequencesExt

VARIABLE tables  \* what the transaction sees: schema and rows of each table

MustGetTable(t, F(_)) == IF t \in DOMAIN tables THEN F(tables[t]) ELSE Err

\* F of each, unless one of them is an error or a panic: then the first.
Each(xs, F(_)) ==
    LET ys  == [i \in DOMAIN xs |-> F(xs[i])]
        bad == {i \in DOMAIN ys : ys[i] = Err \/ ys[i] = Panic}
    IN  IF bad = {} THEN ys ELSE ys[Min(bad)]

ColumnNames(table) == [i \in DOMAIN table.columns |-> table.columns[i].name]

ResultSet(columns, rows) == [columns |-> columns, rows |-> rows]

-----------------------------------------------------------------------------
(* Sequences by the places of their elements                               *)

\* The elements of S, each after those that are before it.
InOrder(S, Before(_, _)) ==
    LET rank == [x \in S |-> Cardinality({y \in S : Before(y, x)})]
    IN  [k \in 1..Cardinality(S) |-> CHOOSE x \in S : rank[x] = k - 1]

\* What is at these places of s, in the order of s.
AtPlaces(s, places) ==
    LET nth == InOrder(places, <) IN [k \in DOMAIN nth |-> s[nth[k]]]

Filtered(s, Test(_)) == AtPlaces(s, {i \in DOMAIN s : Test(s[i])})

-----------------------------------------------------------------------------
(* The scan of a table                                                     *)

\* The column and the value of a filter `column = value', as a pair; None for
\* the comparisons that are no equality.  A field has the value NULL and a
\* constant has no column, so `1 = a' gives neither and `a = b' gives a, NULL.
FilterSide(e) ==
    CASE e.expr = "Field" -> << e.name, Null >>
      [] e.expr = "Const" -> << "", e.value >>
      [] OTHER -> None
ParseScanFilterAnyOperator(filter) ==
    IF filter = None THEN None
    ELSE LET l == FilterSide(filter.l)
             r == FilterSide(filter.r)
         IN  IF l = None \/ r = None THEN Panic ELSE << l[1], r[2] >>
ParseScanFilter(filter) ==
    IF filter = None \/ filter.op # "=" THEN None
    ELSE LET l == FilterSide(filter.l)
             r == FilterSide(filter.r)
         IN  IF l = None \/ r = None THEN Panic ELSE << l[1], r[2] >>

\* A lookup by primary key or index where the filter's column has one.
BuildScan(t, filter) ==
    LET scan == [node |-> "Scan", table |-> t, filter |-> filter]
    IN  Then(ParseScanFilter(filter), LAMBDA f :
        IF f = None THEN scan
        ELSE MustGetTable(t, LAMBDA table :
             LET named == {i \in DOMAIN table.columns : table.columns[i].name = f[1]}
             IN  CASE \E i \in named : table.columns[i].primary_key ->
                        [node |-> "PrimaryKeyScan", table |-> t, value |-> f[2]]
                   [] /\ \A i \in named : ~table.columns[i].primary_key
                      /\ \E i \in named : table.columns[i].index ->
                        [node |-> "IndexScan", table |-> t, field |-> f[1], value |-> f[2]]
                   [] OTHER -> scan))

-----------------------------------------------------------------------------
(* Scans and filters                                                       *)

\* The rows for which the predicate is TRUE, neither FALSE nor NULL.
FilterRows(columns, rows, predicate) ==
    Then(Each(rows, LAMBDA row : EvaluateExpr(predicate, columns, row, columns, row)),
         LAMBDA tests :
         ResultSet(columns, AtPlaces(rows, {i \in DOMAIN rows : tests[i] = Boolean(TRUE)})))

Scan(t, filter) ==
    MustGetTable(t, LAMBDA table :
    IF filter = None THEN ResultSet(ColumnNames(table), table.rows)
    ELSE FilterRows(ColumnNames(table), table.rows, filter))

\* The rows whose value at position i is stored under the same bytes as x.
RowsAt(table, i, x) == ResultSet(ColumnNames(table), Filtered(table.rows, LAMBDA row : row[i] = x))

IndexScan(t, field, x) ==
    MustGetTable(t, LAMBDA table : RowsAt(table, Position(ColumnNames(table), field), x))

\* A Float without fraction is looked up as an Integer.
PrimaryKeyScan(t, x) ==
    MustGetTable(t, LAMBDA table :
    RowsAt(table, CHOOSE i \in DOMAIN table.columns : table.columns[i].primary_key,
           IF x.t = "Float" /\ x.v % Unit = 0 THEN [t |-> "Integer", v |-> x.v] ELSE x))

\* The scan that was chosen, at work.
ExecuteScan(n) ==
    CASE n.node = "Scan"           -> Scan(n.table, n.filter)
      [] n.node = "IndexScan"      -> IndexScan(n.table, n.field, n.value)
      [] n.node = "PrimaryKeyScan" -> PrimaryKeyScan(n.table, n.value)

=============================================================================
