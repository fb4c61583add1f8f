------------------------------- MODULE Queries -------------------------------
(***************************************************************************)
(* A statement on its way from text to answer: parsed (Parser), planned    *)
(* (Planner) and, if it is a SELECT, executed (Executor), as one call of   *)
(* Session::execute does with the tables its transaction sees.  The text   *)
(* is that of a statement of Grammar, from which one token may be missing. *)
(* What INSERT, UPDATE, DELETE and the DDL do is in Tables and Sql.        *)
(***************************************************************************)
EXTENDS Parser, Executor, TLC

Grammar == INSTANCE Grammar

CONSTANTS
    Databases,   \* the tables a statement may find
    Statements   \* the statements that are written, see Grammar

VARIABLES
    wanted,      \* the statement that was written
    lost,        \* the place of the token that is missing, 0 if none is
    stage,       \* "written", "parsed", "planned" or "done"
    stmt, node,  \* the statement read and its plan
    result       \* a result set, the lines of an EXPLAIN, Err or Panic

vars == << tables, text, wanted, lost, stage, stmt, node, result >>

Init ==
    /\ wanted \in Statements
    /\ \/ lost = 0 /\ tables \in Databases
       \/ lost \in DOMAIN Grammar!Written(wanted) /\ tables = << >>
    /\ text = IF lost = 0 THEN Grammar!Written(wanted)
              ELSE RemoveAt(Grammar!Written(wanted), lost)
    /\ stage = "written"
    /\ stmt = None /\ node = None /\ result = None

Failed(r) == r = Err \/ r = Panic

ParseText ==
    /\ stage = "written"
    /\ stmt' = Parse
    /\ IF Failed(stmt') THEN stage' = "done" /\ result' = stmt'
                        ELSE stage' = "parsed" /\ UNCHANGED result
    /\ UNCHANGED << tables, text, wanted, lost, node >>

\* BEGIN, COMMIT and ROLLBACK have no plan; EXPLAIN is answered with the plan.
BuildPlan ==
    /\ stage = "parsed" /\ stmt.kind \notin {"BEGIN", "COMMIT", "ROLLBACK"}
    /\ node' = BuildStatement(IF stmt.kind = "Explain" THEN stmt.stmt ELSE stmt)
    /\ CASE Failed(node') -> stage' = "done" /\ result' = node'
         [] ~Failed(node') /\ stmt.kind = "Explain" ->
              stage' = "done" /\ result' = Format(node', 0)
         [] ~Failed(node') /\ stmt.kind # "Explain" -> stage' = "planned" /\ UNCHANGED result
    /\ UNCHANGED << tables, text, wanted, lost, stmt >>

\* The orders in which the groups can come: any order of the values there are
\* in a column of that name.
HashOrders ==
    LET g == GroupColumn(stmt.group_by)
        Keys(t) == LET pos == Position(ColumnNames(tables[t]), g)
                   IN  IF pos = 0 THEN {} ELSE {row[pos] : row \in ToSet(tables[t].rows)}
    IN  IF g = None THEN { << >> } ELSE SetToSeqs({Null} \cup UNION {Keys(t) : t \in DOMAIN tables})

Execute ==
    /\ stage = "planned" /\ stmt.kind = "Select"
    /\ \E order \in HashOrders : result' = ExecuteNode(node, order)
    /\ stage' = "done"
    /\ UNCHANGED << tables, text, wanted, lost, stmt, node >>

Next == ParseText \/ BuildPlan \/ Execute

Spec == Init /\ [][Next]_vars

-----------------------------------------------------------------------------
(* Reading                                                                 *)

\* What is written is what is read: the parser finds the statement that was
\* meant, arithmetic computed by precedence and from left to right.
ReadAsWritten ==
    stage # "written" /\ lost = 0 => stmt = Grammar!Meaning(wanted)

\* No token can be left out of a statement unnoticed but ASC, which is the
\* default: the rest is refused or is another statement for the parser - if
\* not always for the planner, to which a column declared NULL is one of which
\* nothing is declared.  (parser/mod.rs, the next_expect after every keyword.)
EveryTokenCounts ==
    stage # "written" /\ lost # 0 =>
        (stmt = Grammar!Meaning(wanted)) <=> (Grammar!Written(wanted)[lost].tok = "ASC")

\* The lines of an EXPLAIN tell the tree of the plan: reading the indentation
\* gives the nodes, what is below what, and their tables.
RECURSIVE Shape(_), ReadBack(_)
Shape(n) ==
    << n.node, Line(n, 0)[1].table, [i \in DOMAIN Sources(n) |-> Shape(Sources(n)[i])] >>
ReadBack(lines) ==
    LET below == {i \in DOMAIN lines : lines[i].depth = lines[1].depth + 1}
        first == SetToSortSeq(below, <)
        last(k) == IF k = Len(first) THEN Len(lines) ELSE first[k + 1] - 1
    IN  << lines[1].node, lines[1].table,
           [k \in DOMAIN first |-> ReadBack(SubSeq(lines, first[k], last(k)))] >>
ExplainShowsThePlan ==
    stage = "done" /\ ~Failed(result) /\ stmt.kind = "Explain" => ReadBack(result) = Shape(node)

-----------------------------------------------------------------------------
(* The answer to a SELECT, from the statement that was written              *)

Answered(s) == stage = "done" /\ lost = 0 /\ wanted.kind = "Select" /\ s

\* A row as a function of the names of its columns.
Named(columns, row) == [c \in ToSet(columns) |-> row[Position(columns, c)]]
Rows(t) == [i \in DOMAIN tables[t].rows |-> Named(ColumnNames(tables[t]), tables[t].rows[i])]
Column(t, c) == tables[t].columns[Position(ColumnNames(tables[t]), c)]

\* The comparison is true of the row: both sides are there and stand in that
\* order, numbers by their size whatever their type.
Holds(e, row) ==
    LET Side(x) == IF x.expr = "Field" THEN row[x.name] ELSE Grammar!Simple(x).value
        a == Side(e.l)
        b == Side(e.r)
    IN  /\ a # Null /\ b # Null
        /\ CASE e.op = "=" -> a.v = b.v [] e.op = "<" -> a.v < b.v [] e.op = ">" -> a.v > b.v

\* WHERE compares a column of the table with a constant that is not NULL and of
\* the column's type (or any number with a number, unless the column is an
\* index or a Float key).  The other comparisons the lookups answer otherwise
\* than a filter does: see the README.
ProperWhere(t, e) ==
    \/ e = None
    \/ /\ e.l.expr = "Field" /\ e.l.name \in ToSet(ColumnNames(tables[t]))
       /\ e.r.expr \in {"Const", "Math"}
       /\ LET c == Column(t, e.l.name)
              x == Grammar!Simple(e.r).value
          IN  \/ x.t = c.datatype /\ ~(c.primary_key /\ c.datatype = "Float")
              \/ {x.t, c.datatype} \subseteq Numeric /\ ~c.index
                   /\ (c.primary_key => c.datatype = "Integer")

Matching(t, e) == SelectSeq(Rows(t), LAMBDA row : e = None \/ Holds(e, row))

\* The statement asks for columns there are, a bare column beside a function is
\* the one grouped by, and LIMIT and OFFSET are whole.
ProperList(t) ==
    LET names == ToSet(ColumnNames(tables[t]))
        Whole(e) == e = None \/ e.value.t = "Integer"
    IN  /\ Whole(wanted.limit) /\ Whole(wanted.offset)
        /\ HasAgg(wanted.select) \/ \A k \in DOMAIN wanted.order_by : wanted.order_by[k][1] \in names
        /\ \A k \in DOMAIN wanted.select :
             LET e == wanted.select[k][1]
             IN  \/ e.expr = "Field" /\ e.name \in names /\ (HasAgg(wanted.select) => e = wanted.group_by)
                 \/ e.expr = "Function" /\ e.column \in names
                      /\ e.func \in {"COUNT", "MIN", "MAX", "SUM", "AVG"}

OneTable ==
    /\ wanted.from.from = "Table" /\ wanted.from.name \in DOMAIN tables
    /\ ProperWhere(wanted.from.name, wanted.where) /\ ProperList(wanted.from.name)
Source == Matching(wanted.from.name, wanted.where)

AsNamed(rs) == [i \in DOMAIN rs.rows |-> Named(rs.columns, rs.rows[i])]

\* Whatever the planner chooses - a scan, the index or the primary key - a
\* SELECT with WHERE answers with the rows the comparison is true of, no more
\* and no fewer, in the order of the keys.
ScanAnswersWhere ==
    Answered(OneTable /\ wanted.select = << >> /\ ~HasAgg(wanted.select)
             /\ wanted.order_by = << >> /\ wanted.limit = None /\ wanted.offset = None) =>
        /\ ~Failed(result)
        /\ AsNamed(result) = Source

\* NULL comes before every value.
Less(a, b) == b # Null /\ (a = Null \/ a.v < b.v)

\* Row i of the source comes before row j in the order that was asked for; rows
\* that are alike in it keep their order.
Precedes(i, j) ==
    LET by == wanted.order_by
        Differ(k) == Source[i][by[k][1]] # Source[j][by[k][1]]
        first == {k \in DOMAIN by : Differ(k) /\ \A l \in 1..(k - 1) : ~Differ(l)}
    IN  \/ first = {} /\ i < j
        \/ \E k \in first : LET a == Source[i][by[k][1]]
                                b == Source[j][by[k][1]]
                            IN  IF by[k][2] = "ASC" THEN Less(a, b) ELSE Less(b, a)

\* ORDER BY, OFFSET, LIMIT and the list of columns take effect in that order:
\* the answer is the page that the ordered rows have at this place.
PageOfOrderedRows ==
    Answered(OneTable /\ ~HasAgg(wanted.select)) =>
        LET n    == Len(Source)
            rank == [i \in 1..n |-> Cardinality({j \in 1..n : Precedes(j, i)})]
            skip == IF wanted.offset = None THEN 0 ELSE wanted.offset.value.v \div Unit
            take == IF wanted.limit = None THEN n ELSE wanted.limit.value.v \div Unit
            page == {i \in 1..n : rank[i] \in skip..(skip + take - 1)}
            Shown(row) == IF wanted.select = << >>
                          THEN [k \in DOMAIN tables[wanted.from.name].columns |->
                                   row[tables[wanted.from.name].columns[k].name]]
                          ELSE [k \in DOMAIN wanted.select |-> row[wanted.select[k][1].name]]
        IN  /\ ~Failed(result)
            /\ Len(result.rows) = Cardinality(page)
            /\ \A i \in page : result.rows[rank[i] - skip + 1] = Shown(Source[i])

-----------------------------------------------------------------------------
(* Joins                                                                   *)

RECURSIVE TablesOf(_)
TablesOf(item) ==
    IF item.from = "Table" THEN {item.name} ELSE TablesOf(item.left) \cup TablesOf(item.right)

NullRow(columns) == [c \in columns |-> Null]
ColumnsOf(item) == UNION {ToSet(ColumnNames(tables[t])) : t \in TablesOf(item)}

\* The rows of a FROM clause as the relational algebra has them.
RECURSIVE Relation(_)
Relation(item) ==
    IF item.from = "Table" THEN ToSet(Rows(item.name))
    ELSE LET L == Relation(item.left)
             R == Relation(item.right)
             Matches(l, r) == item.join_type = "CROSS" \/ Holds(item.predicate, l @@ r)
         IN  {l @@ r : <<l, r>> \in {p \in L \X R : Matches(p[1], p[2])}}
             \cup (IF item.join_type # "LEFT" THEN {}
                   ELSE {l @@ NullRow(ColumnsOf(item.right)) :
                           l \in {x \in L : \A r \in R : ~Matches(x, r)}})
             \cup (IF item.join_type # "RIGHT" THEN {}
                   ELSE {NullRow(ColumnsOf(item.left)) @@ r :
                           r \in {x \in R : \A l \in L : ~Matches(l, x)}})

\* The columns joined on are of one type and one side of each has no NULL: the
\* hash join takes NULL for equal to NULL and 1 for different from 1.0.
RECURSIVE ProperJoin(_)
ProperJoin(item) ==
    \/ item.from = "Table"
    \/ /\ ProperJoin(item.left)
       /\ \/ item.join_type = "CROSS"
          \/ /\ item.predicate.l.expr = "Field" /\ item.predicate.r.expr = "Field"
             /\ LET l == {row[item.predicate.l.name] : row \in Relation(item.left)}
                    r == {row[item.predicate.r.name] : row \in Relation(item.right)}
                IN  /\ Null \notin l \cap r
                    /\ Cardinality({x.t : x \in (l \cup r) \ {Null}}) <= 1

\* SELECT * of joined tables is the relational join: LEFT keeps the rows of its
\* left side, RIGHT those of its right side, and no row comes twice.
JoinIsRelational ==
    Answered(wanted.from.from = "Join" /\ ProperJoin(wanted.from)
             /\ wanted.select = << >> /\ wanted.where = None) =>
        /\ ~Failed(result)
        /\ ToSet(AsNamed(result)) = Relation(wanted.from)
        /\ Len(result.rows) = Cardinality(Relation(wanted.from))

-----------------------------------------------------------------------------
(* Groups                                                                  *)

\* What a function makes of column c of a bag of rows, given by their places.
OfGroup(f, c, places) ==
    LET has == {i \in places : Source[i][c] # Null}
        x(i) == Source[i][c]
        total == MapThenSumSet(LAMBDA i : x(i).v, has)
    IN  CASE f = "COUNT" -> Integer(Cardinality(has))
          [] f # "COUNT" /\ has = {} -> Null
          [] f = "MIN" /\ has # {} -> x(CHOOSE i \in has : \A j \in has : x(i).v <= x(j).v)
          [] f = "MAX" /\ has # {} -> x(CHOOSE i \in has : \A j \in has : x(j).v <= x(i).v)
          [] f = "SUM" /\ has # {} -> Float(total)
          [] f = "AVG" /\ has # {} -> Float(total \div Cardinality(has))

\* One row for each value of the column grouped by, in no particular order, or
\* one for all; NULL is a value of its own here and is passed over inside.
\* HAVING keeps or drops groups, by the names in the answer.
GroupsPartitionRows ==
    Answered(OneTable /\ HasAgg(wanted.select)
             /\ wanted.order_by = << >> /\ wanted.limit = None /\ wanted.offset = None) =>
        LET g == wanted.group_by
            Places(x) == {i \in DOMAIN Source : g = None \/ Source[i][g.name] = x}
            keys == IF g = None THEN {Null} ELSE {Source[i][g.name] : i \in DOMAIN Source}
            Item(e, x) == IF e[1].expr = "Field" THEN x
                          ELSE OfGroup(e[1].func, e[1].column, Places(x))
            names == [k \in DOMAIN wanted.select |-> OutputName(wanted.select[k])]
            Row(x) == [k \in DOMAIN wanted.select |-> Item(wanted.select[k], x)]
            kept == {x \in keys : wanted.having = None \/ Holds(wanted.having, Named(names, Row(x)))}
        IN  /\ ~Failed(result)
            /\ ToSet(result.rows) = {Row(x) : x \in kept}
            /\ Len(result.rows) = Cardinality(kept)

=============================================================================
