------------------------------ MODULE Executor ------------------------------
(***************************************************************************)
(* The tree of nodes of a SELECT at work: Executor::build of               *)
(* src/src/sql/executor/mod.rs.  The nodes are in Scans and Nodes; INSERT, *)
(* UPDATE, DELETE and the DDL are in Tables.                               *)
(***************************************************************************)
EXTENDS Planner, Nodes

\* order is the order in which a HashMap of groups would be walked.
RECURSIVE ExecuteNode(_, _)
ExecuteNode(n, order) ==
    CASE n.node \in {"Scan", "IndexScan", "PrimaryKeyScan"} -> ExecuteScan(n)
      [] n.node \in {"NestedLoopJoin", "HashJoin"} ->
           Then(ExecuteNode(n.left, order), LAMBDA L :
           Then(ExecuteNode(n.right, order), LAMBDA R :
           IF n.node = "HashJoin" THEN HashJoin(L, R, n.predicate, n.outer)
           ELSE NestedLoopJoin(L, R, n.predicate, n.outer)))
      [] OTHER ->
           Then(ExecuteNode(n.source, order), LAMBDA rs :
           CASE n.node = "Aggregate"  -> Aggregate(rs, n.exprs, n.group_by, order)
             [] n.node = "Filter"     -> FilterRows(rs.columns, rs.rows, n.predicate)
             [] n.node = "Order"      -> Order(rs, n.order_by)
             [] n.node = "Offset"     -> Offset(rs, n.offset)
             [] n.node = "Limit"      -> Limit(rs, n.limit)
             [] n.node = "Projection" -> Projection(rs, n.select))

=============================================================================
