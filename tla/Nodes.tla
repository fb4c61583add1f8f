-------------------------------- MODULE Nodes --------------------------------
(***************************************************************************)
(* The nodes of a SELECT above its scans, each on the result of what is    *)
(* below it: src/src/sql/executor/query.rs, join.rs and agg.rs.            *)
(***************************************************************************)
EXTENDS Scans

-----------------------------------------------------------------------------
(* Joins                                                                   *)

Nulls(columns) == [i \in DOMAIN columns |-> Null]

RowPairs(L, R) == (DOMAIN L.rows) \X (DOMAIN R.rows)

\* The pairs of places that match, and in an outer join every left row that
\* matches none with 0 on the right.
JoinPairs(L, R, outer, matched) ==
    LET alone == {i \in DOMAIN L.rows : \A j \in DOMAIN R.rows : << i, j >> \notin matched}
    IN  IF outer THEN matched \cup {<< i, 0 >> : i \in alone} ELSE matched
PairBefore(p, q) ==
    \/ p[1] < q[1]
    \/ p[1] = q[1] /\ p[2] < q[2]

\* Left row by left row, each with the right rows in their order, and NULLs for
\* the right row that is missing.
JoinRows(L, R, outer, matched) ==
    LET nth == InOrder(JoinPairs(L, R, outer, matched), PairBefore)
        Right(j) == IF j = 0 THEN Nulls(R.columns) ELSE R.rows[j]
    IN  ResultSet(L.columns \o R.columns,
                  [k \in DOMAIN nth |-> L.rows[nth[k][1]] \o Right(nth[k][2])])

\* Without a predicate (CROSS) the join is never an outer one.
NestedLoopJoin(L, R, predicate, outer) ==
    LET Test(p) == IF predicate = None THEN Boolean(TRUE)
                   ELSE EvaluateExpr(predicate, L.columns, L.rows[p[1]], R.columns, R.rows[p[2]])
    IN  IF \E p \in RowPairs(L, R) : Test(p) = Err THEN Err
        ELSE JoinRows(L, R, outer, {p \in RowPairs(L, R) : Test(p) = Boolean(TRUE)})

\* The two columns of the condition; anything but a column there is a panic.
ParseJoin(predicate) ==
    IF predicate.l.expr = "Field" /\ predicate.r.expr = "Field"
    THEN << predicate.l.name, predicate.r.name >> ELSE Panic

\* The right rows are hashed by their join column: matching is equality of
\* Value, under which NULL equals NULL.
HashJoinInner(L, R, predicate, outer) ==
    Then(ParseJoin(predicate), LAMBDA names :
    LET lpos == Position(L.columns, names[1])
        rpos == Position(R.columns, names[2])
    IN  IF lpos = 0 \/ rpos = 0 THEN Err
        ELSE JoinRows(L, R, FALSE,
                      {p \in RowPairs(L, R) : L.rows[p[1]][lpos] = R.rows[p[2]][rpos]}))
HashJoin(L, R, predicate, outer) ==
    Then(ParseJoin(predicate), LAMBDA names :
    LET lpos == Position(L.columns, names[1])
        rpos == Position(R.columns, names[2])
    IN  IF lpos = 0 \/ rpos = 0 THEN Err
        ELSE JoinRows(L, R, outer,
                      {p \in RowPairs(L, R) : L.rows[p[1]][lpos] = R.rows[p[2]][rpos]}))

-----------------------------------------------------------------------------
(* Aggregation                                                             *)

NonNull(pos, rows) == Filtered(rows, LAMBDA row : row[pos] # Null)

CountValues(pos, rows) == Integer(Len(NonNull(pos, rows)))

\* MIN and MAX sort by partial_cmp and take the first.
Extreme(pos, rows, sign) ==
    LET xs == NonNull(pos, rows)
        Before(i, j) == LET c == PartialCmp(xs[i][pos], xs[j][pos])
                        IN  c = sign \/ (c = 0 /\ i < j)
    IN  CASE xs = << >> -> Null
          [] \E i, j \in DOMAIN xs : PartialCmp(xs[i][pos], xs[j][pos]) = None -> Panic
          [] OTHER -> xs[CHOOSE i \in DOMAIN xs : \A j \in DOMAIN xs \ {i} : Before(i, j)][pos]

\* A Float, NULL if there is nothing to add.
Sum(pos, rows) ==
    LET xs == NonNull(pos, rows)
    IN  CASE \E i \in DOMAIN xs : xs[i][pos].t \notin Numeric -> Err
          [] xs = << >> -> Null
          [] OTHER -> Float(FoldLeft(LAMBDA sum, row : sum + row[pos].v, 0, xs))

AvgOverRows(pos, rows) ==
    Then(Sum(pos, rows), LAMBDA s : IF s = Null THEN Null ELSE Float(s.v \div Len(rows)))
Avg(pos, rows) ==
    Then(Sum(pos, rows), LAMBDA s :
    IF s = Null THEN Null ELSE Float(s.v \div Len(NonNull(pos, rows))))

Calc(func, column, columns, rows) ==
    LET pos == Position(columns, column)
    IN  CASE func \notin {"COUNT", "MIN", "MAX", "SUM", "AVG"} \/ pos = 0 -> Err
          [] func = "COUNT" /\ pos # 0 -> CountValues(pos, rows)
          [] func = "MIN" /\ pos # 0   -> Extreme(pos, rows, -1)
          [] func = "MAX" /\ pos # 0   -> Extreme(pos, rows, 1)
          [] func = "SUM" /\ pos # 0   -> Sum(pos, rows)
          [] func = "AVG" /\ pos # 0   -> Avg(pos, rows)

\* The row of one group.  A bare column must be the one grouped by, and is
\* unwrapped from nothing where nothing is grouped.
GroupRow(exprs, group_by, columns, key, rows) ==
    Each(exprs, LAMBDA e :
      CASE e[1].expr = "Function" -> Calc(e[1].func, e[1].column, columns, rows)
        [] e[1].expr = "Field" /\ group_by = None -> Panic
        [] e[1].expr = "Field" /\ group_by # None -> IF e[1].name = group_by THEN key ELSE Err
        [] OTHER -> Err)

OutputName(e) ==
    CASE e[2] # None -> e[2]
      [] e[2] = None -> IF e[1].expr = "Function" THEN e[1].func ELSE e[1].name

\* Anything but a column after GROUP BY groups nothing.
GroupColumn(group_by) == IF group_by # None /\ group_by.expr = "Field" THEN group_by.name ELSE None

\* The groups come in the order of a HashMap, which may be any; the column
\* names are noted with the first row, so that no groups means no names.
Aggregate(rs, exprs, group_by, order) ==
    LET g      == GroupColumn(group_by)
        pos    == IF g = None THEN 0 ELSE Position(rs.columns, g)
        keys   == Filtered(order, LAMBDA x : \E i \in DOMAIN rs.rows : rs.rows[i][pos] = x)
        Group(x) == Filtered(rs.rows, LAMBDA row : row[pos] = x)
        names  == [i \in DOMAIN exprs |-> OutputName(exprs[i])]
    IN  CASE g = None -> Then(GroupRow(exprs, None, rs.columns, Null, rs.rows), LAMBDA row :
                              ResultSet(names, << row >>))
          [] g # None /\ pos = 0 -> Err
          [] g # None /\ pos # 0 ->
               Then(Each(keys, LAMBDA x : GroupRow(exprs, g, rs.columns, x, Group(x))),
                    LAMBDA rows : ResultSet(IF rows = << >> THEN << >> ELSE names, rows))

-----------------------------------------------------------------------------
(* Order, offset, limit, projection                                        *)

\* The first column of ORDER BY in which the rows differ decides.
RowBefore(order_by, columns, a, b) ==
    LET Cmp(i) == LET pos == Position(columns, order_by[i][1]) IN PartialCmp(a[pos], b[pos])
        differ == {i \in DOMAIN order_by : Cmp(i) \notin {0, None}}
    IN  differ # {} /\ Cmp(Min(differ)) = (IF order_by[Min(differ)][2] = "ASC" THEN -1 ELSE 1)

\* A stable sort.
Order(rs, order_by) ==
    LET Before(i, j) == \/ RowBefore(order_by, rs.columns, rs.rows[i], rs.rows[j])
                        \/ /\ ~RowBefore(order_by, rs.columns, rs.rows[j], rs.rows[i])
                           /\ i < j
        sorted == InOrder(DOMAIN rs.rows, Before)
    IN  IF \E i \in DOMAIN order_by : Position(rs.columns, order_by[i][1]) = 0 THEN Err
        ELSE [rs EXCEPT !.rows = [i \in DOMAIN sorted |-> rs.rows[sorted[i]]]]

Offset(rs, n) == [rs EXCEPT !.rows = SubSeq(@, n + 1, Len(@))]
Limit(rs, n) == [rs EXCEPT !.rows = SubSeq(@, 1, IF n < Len(@) THEN n ELSE Len(@))]

\* The items that are no columns are left out.
Projection(rs, select) ==
    LET items == Filtered(select, LAMBDA e : e[1].expr = "Field")
        pos   == [k \in DOMAIN items |-> Position(rs.columns, items[k][1].name)]
    IN  IF 0 \in ToSet(pos) THEN Err
        ELSE ResultSet([k \in DOMAIN items |-> OutputName(items[k])],
                       [i \in DOMAIN rs.rows |-> [k \in DOMAIN pos |-> rs.rows[i][pos[k]]]])

=============================================================================
