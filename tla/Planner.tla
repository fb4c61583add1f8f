------------------------------- MODULE Planner -------------------------------
(***************************************************************************)
(* From a parsed statement to a tree of nodes: src/src/sql/plan/planner.rs *)
(* for SELECT, UPDATE and DELETE, and the columns of CREATE TABLE.         *)
(***************************************************************************)
EXTENDS Scans

\* Value::from_expression.  A bare name is taken for a string (which one does
\* not matter here); a function has no value.
FromExpression(e) ==
    CASE e.expr = "Const" -> e.value
      [] e.expr = "Field" -> Text(0)
      [] OTHER -> Panic

-----------------------------------------------------------------------------
(* CREATE TABLE                                                            *)

\* A column is nullable unless it is the primary key or it is said otherwise,
\* and a nullable one without a default has the default NULL.
BuildColumn(c) ==
    LET nullable == IF c.nullable = "Unsaid" THEN ~c.primary_key ELSE c.nullable = "Null"
    IN  Then(CASE c.default # None -> FromExpression(c.default)
               [] c.default = None /\ nullable  -> Null
               [] c.default = None /\ ~nullable -> None,
             LAMBDA default :
             [name |-> c.name, datatype |-> c.datatype, nullable |-> nullable, default |-> default,
              primary_key |-> c.primary_key, index |-> c.index /\ ~c.primary_key])

-----------------------------------------------------------------------------
(* SELECT                                                                  *)

\* The filter goes to every table of a join.  A right join is a left join with
\* its sides swapped; cross joins are nested loops, all others hash joins.
RECURSIVE BuildFromItem(_, _)
BuildFromItem(item, filter) ==
    IF item.from = "Table" THEN BuildScan(item.name, filter)
    ELSE Then(BuildFromItem(IF item.join_type = "RIGHT" THEN item.right ELSE item.left, filter),
              LAMBDA left :
         Then(BuildFromItem(IF item.join_type = "RIGHT" THEN item.left ELSE item.right, filter),
              LAMBDA right :
         [node |-> IF item.join_type = "CROSS" THEN "NestedLoopJoin" ELSE "HashJoin",
          left |-> left, right |-> right,
          predicate |-> item.predicate, outer |-> item.join_type \in {"LEFT", "RIGHT"}]))

HasAgg(select) == \E i \in DOMAIN select : select[i][1].expr = "Function"

\* LIMIT and OFFSET: an integer, or an error.
RowCount(e) ==
    IF e = None THEN 0
    ELSE Then(FromExpression(e), LAMBDA x : IF x.t = "Integer" THEN x.v \div Unit ELSE Err)

\* node, with one more node on top of it if the clause is there.
On(node, present, top) == IF present THEN top @@ [source |-> node] ELSE node

BuildSelectLimitFirst(stmt) ==
    Then(BuildFromItem(stmt.from, stmt.where), LAMBDA from :
    Then(RowCount(stmt.offset), LAMBDA offset :
    Then(RowCount(stmt.limit), LAMBDA limit :
    LET agg == HasAgg(stmt.select)
        n1 == On(from, agg, [node |-> "Aggregate", exprs |-> stmt.select, group_by |-> stmt.group_by])
        n2 == On(n1, stmt.having # None, [node |-> "Filter", predicate |-> stmt.having])
        n3 == On(n2, stmt.order_by # << >>, [node |-> "Order", order_by |-> stmt.order_by])
        n4 == On(n3, stmt.limit # None, [node |-> "Limit", limit |-> limit])
        n5 == On(n4, stmt.offset # None, [node |-> "Offset", offset |-> offset])
    IN  On(n5, stmt.select # << >> /\ ~agg, [node |-> "Projection", select |-> stmt.select]))))
BuildSelect(stmt) ==
    Then(BuildFromItem(stmt.from, stmt.where), LAMBDA from :
    Then(RowCount(stmt.offset), LAMBDA offset :
    Then(RowCount(stmt.limit), LAMBDA limit :
    LET agg == HasAgg(stmt.select)
        n1 == On(from, agg, [node |-> "Aggregate", exprs |-> stmt.select, group_by |-> stmt.group_by])
        n2 == On(n1, stmt.having # None, [node |-> "Filter", predicate |-> stmt.having])
        n3 == On(n2, stmt.order_by # << >>, [node |-> "Order", order_by |-> stmt.order_by])
        n4 == On(n3, stmt.offset # None, [node |-> "Offset", offset |-> offset])
        n5 == On(n4, stmt.limit # None, [node |-> "Limit", limit |-> limit])
    IN  On(n5, stmt.select # << >> /\ ~agg, [node |-> "Projection", select |-> stmt.select]))))

BuildStatement(stmt) ==
    CASE stmt.kind = "Select" -> BuildSelect(stmt)
      [] stmt.kind = "Update" ->
           Then(BuildScan(stmt.table, stmt.where), LAMBDA source :
                [node |-> "Update", table |-> stmt.table, source |-> source, columns |-> stmt.set])
      [] stmt.kind = "Delete" ->
           Then(BuildScan(stmt.table, stmt.where), LAMBDA source :
                [node |-> "Delete", table |-> stmt.table, source |-> source])
      [] stmt.kind = "CreateTable" ->
           Then(Each(stmt.columns, BuildColumn), LAMBDA columns :
                [node |-> "CreateTable", table |-> stmt.table, columns |-> columns])
      [] stmt.kind = "Insert" ->
           [node |-> "Insert", table |-> stmt.table, rows |-> stmt.rows,
            names |-> IF stmt.names = None THEN << >> ELSE stmt.names]
      [] stmt.kind = "DropTable" -> [node |-> "DropTable", table |-> stmt.table]
      [] OTHER -> Err

-----------------------------------------------------------------------------
(* The tree and how EXPLAIN shows it                                       *)

Leaf == {"CreateTable", "DropTable", "Insert", "Scan", "IndexScan", "PrimaryKeyScan"}
OverOne == {"Update", "Delete", "Aggregate", "Filter", "Order", "Offset", "Limit", "Projection"}
Join == {"NestedLoopJoin", "HashJoin"}

\* The nodes directly below n, in order.
Sources(n) ==
    CASE n.node \in Leaf    -> << >>
      [] n.node \in OverOne -> << n.source >>
      [] n.node \in Join    -> << n.left, n.right >>

\* A line for each node, with its table if it has one, and what is below it
\* after it, one step to the right.  Whether a join is an outer one, the column
\* grouped by and the value looked up in an index are not shown.
Line(n, depth) ==
    << [depth |-> depth, node |-> n.node,
        table |-> IF n.node \in Leaf \cup {"Update", "Delete"} THEN n.table ELSE None] >>
RECURSIVE FormatFlat(_, _)
FormatFlat(n, depth) ==
    Line(n, depth) \o FlattenSeq([i \in DOMAIN Sources(n) |-> FormatFlat(Sources(n)[i], 1)])
RECURSIVE Format(_, _)
Format(n, depth) ==
    Line(n, depth) \o FlattenSeq([i \in DOMAIN Sources(n) |-> Format(Sources(n)[i], depth + 1)])

=============================================================================
