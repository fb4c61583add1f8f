------------------------------ MODULE MCQueries ------------------------------
(* Three tables with few rows, and statements of every kind and clause.     *)
EXTENDS Queries

Col(name, type, pk, idx) ==
    [name |-> name, datatype |-> type, nullable |-> ~pk, default |-> Null,
     primary_key |-> pk, index |-> idx]

\* t has an index on b, c is not indexed; u and v are there to be joined.
TColumns == << Col("a", "Integer", TRUE, FALSE), Col("b", "Integer", FALSE, TRUE),
               Col("c", "Float", FALSE, FALSE) >>
UColumns == << Col("d", "Integer", TRUE, FALSE), Col("e", "Integer", FALSE, FALSE) >>
VColumns == << Col("f", "Integer", TRUE, FALSE), Col("g", "String", FALSE, FALSE) >>

I(n) == Integer(n)
F(n) == Float(n * Unit)
TRow(a, b, c) == << I(a), b, c >>

TRows == {
    << >>,
    << TRow(1, Null, Null) >>,
    << TRow(1, I(2), F(3)), TRow(2, I(1), F(1)), TRow(3, I(2), Null) >>,
    << TRow(1, I(1), F(2)), TRow(2, Null, F(2)), TRow(3, I(1), F(1)), TRow(4, I(2), F(4)) >>,
    << TRow(0, I(2), Float(6)), TRow(1, I(2), F(1)), TRow(2, I(2), F(1)), TRow(3, Null, F(1)) >> }
URows == {
    << >>,
    << << I(1), Null >>, << I(2), I(1) >> >>,
    << << I(1), I(1) >>, << I(2), I(2) >>, << I(3), I(1) >> >> }
VRows == { << << I(1), Text(1) >>, << I(3), Text(2) >> >> }

MCDatabases == { [t |-> [columns |-> TColumns, rows |-> rt],
                  u |-> [columns |-> UColumns, rows |-> ru],
                  v |-> [columns |-> VColumns, rows |-> rv]] :
                 rt \in TRows, ru \in URows, rv \in VRows }

-----------------------------------------------------------------------------
(* SELECT                                                                  *)

C(x) == Const(x)
Plus(l, r)  == Grammar!Math("+", l, r)
Minus(l, r) == Grammar!Math("-", l, r)
Times(l, r) == Grammar!Math("*", l, r)
Over(l, r)  == Grammar!Math("/", l, r)

Table(n) == [from |-> "Table", name |-> n]
Joined(l, type, r, p) ==
    [from |-> "Join", left |-> l, right |-> Table(r), join_type |-> type, predicate |-> p]
Eq(x, y) == Operation("=", Field(x), Field(y))

All(from) == [kind |-> "Select", select |-> << >>, from |-> from, where |-> None,
              group_by |-> None, having |-> None, order_by |-> << >>,
              limit |-> None, offset |-> None]
Where(s, op, c, e) == [s EXCEPT !.where = Operation(op, Field(c), e)]

T == All(Table("t"))
Item(c) == << Field(c), None >>
Agg(f, c) == << Function(f, c), None >>

Arithmetic == {
    Minus(Minus(C(I(4)), C(I(2))), C(I(1))), Minus(C(I(4)), Minus(C(I(2)), C(I(1)))),
    Plus(C(I(1)), Times(C(I(2)), C(I(1)))), Over(Over(C(I(4)), C(I(2))), C(I(2))),
    Times(Plus(C(I(1)), C(I(1))), C(I(1))), Minus(C(I(3)), Over(C(I(4)), C(I(2)))) }

Filters ==
    {Where(T, "=", "a", C(x)) : x \in {I(1), I(3), I(9), F(2), Float(6)}}
    \cup {Where(T, "=", "b", C(x)) : x \in {I(1), I(2), Null}}
    \cup {Where(T, op, "c", C(F(1))) : op \in {"=", "<", ">"}}
    \cup {Where(T, op, c, C(I(2))) : op \in {"<", ">"}, c \in {"a", "b"}}
    \cup {Where(T, "=", "a", e) : e \in Arithmetic}
    \cup {Where(T, ">", "c", e) : e \in Arithmetic}

Pages ==
    LET by == { << <<"b", "ASC">> >>, << <<"c", "DESC">>, <<"b", "ASC">> >>,
                << <<"b", "DESC">>, <<"a", "DESC">> >> }
    IN  {[T EXCEPT !.order_by = o, !.limit = l, !.offset = f] :
            o \in by \cup {<< >>}, l \in {None, C(I(2))}, f \in {None, C(I(1)), C(I(3))}}
        \cup {[Where(T, ">", "a", C(I(1))) EXCEPT !.order_by = o, !.limit = C(I(1)),
                 !.select = << << Field("c"), "x" >>, Item("a") >>] : o \in by}

Joins ==
    LET tu == {Joined(Table("t"), ty, "u", Eq("b", "d")) : ty \in {"INNER", "LEFT", "RIGHT"}}
    IN  {All(j) : j \in tu \cup {Joined(Table("t"), "CROSS", "u", None)}}
        \cup {All(Joined(Table("t"), ty, "u", Eq("a", "e"))) : ty \in {"INNER", "LEFT", "RIGHT"}}
        \cup {All(Joined(j, ty, "v", Eq("d", "f"))) : j \in tu, ty \in {"INNER", "LEFT", "RIGHT"}}
        \cup {All(Joined(Joined(Table("t"), "CROSS", "u", None), "LEFT", "v", Eq("e", "f")))}

Groups ==
    LET aggs == << Agg("COUNT", "c"), Agg("MIN", "c"), Agg("MAX", "a"), Agg("SUM", "c"), Agg("AVG", "c") >>
        byB == << Item("b"), << Function("COUNT", "a"), "n" >>, Agg("AVG", "c") >>
    IN  { [T EXCEPT !.select = aggs],
          [Where(T, "=", "b", C(I(2))) EXCEPT !.select = aggs],
          [T EXCEPT !.select = <<Item("b")>> \o aggs, !.group_by = Field("b")],
          [T EXCEPT !.select = << << Field("c"), "x" >>, Agg("COUNT", "b") >>, !.group_by = Field("c")],
          [T EXCEPT !.select = byB, !.group_by = Field("b"), !.having = Operation(">", Field("n"), C(I(1)))],
          [Where(T, "<", "a", C(I(4))) EXCEPT !.select = byB, !.group_by = Field("b"),
               !.having = Operation("=", Field("AVG"), Plus(C(I(1)), C(I(1))))],
          [T EXCEPT !.select = byB, !.group_by = Field("b"), !.order_by = << <<"n", "DESC">> >>, !.limit = C(I(1))] }

-----------------------------------------------------------------------------
(* The other statements, and those that must fail                          *)

Ddl(name, type, nullable, default, pk, idx) ==
    [name |-> name, datatype |-> type, nullable |-> nullable, default |-> default,
     primary_key |-> pk, index |-> idx]

Changes == {
    [kind |-> "Insert", table |-> "t", names |-> <<"a", "b">>,
     rows |-> << << C(I(5)), C(Null) >>, << C(I(6)), Times(Plus(C(I(1)), C(I(2))), C(I(2))) >> >>],
    [kind |-> "Insert", table |-> "v", names |-> None, rows |-> << << C(I(5)), C(Text(3)) >> >>],
    [kind |-> "Update", table |-> "t", set |-> {<<"b", C(I(1))>>, <<"c", C(F(2))>>},
     where |-> Operation("=", Field("a"), Minus(C(I(3)), C(I(1))))],
    [kind |-> "Delete", table |-> "t", where |-> Operation("=", Field("b"), C(I(1)))],
    [kind |-> "Delete", table |-> "u", where |-> None],
    [kind |-> "CreateTable", table |-> "w",
     columns |-> << Ddl("k", "Integer", "Unsaid", None, TRUE, FALSE),
                    Ddl("m", "String", "NotNull", C(Text(1)), FALSE, TRUE),
                    Ddl("n", "Float", "Null", Over(C(I(1)), C(I(2))), FALSE, FALSE),
                    Ddl("o", "Boolean", "Unsaid", C(Boolean(TRUE)), FALSE, FALSE),
                    Ddl("p", "Integer", "Unsaid", None, FALSE, FALSE) >>],
    [kind |-> "DropTable", table |-> "t"],
    [kind |-> "BEGIN"], [kind |-> "COMMIT"], [kind |-> "ROLLBACK"] }

Explained ==
    {[kind |-> "Explain", stmt |-> s] :
       s \in {c \in Changes : c.kind \in {"Insert", "Update", "Delete", "CreateTable", "DropTable"}}
             \cup {j \in Joins : j.from.left.from = "Join"}
             \cup {g \in Groups : g.having # None \/ g.order_by # << >>}
             \cup {p \in Pages : p.where # None}}

\* A function in WHERE, a constant in ON and a bare column beside a function
\* panic; unknown names, text with a number and a fraction in LIMIT are errors.
Failing == {
    [T EXCEPT !.where = Operation("=", Function("MAX", "a"), C(I(1)))],
    All(Joined(Table("t"), "INNER", "u", Operation("=", Field("a"), C(I(1))))),
    [T EXCEPT !.select = << Item("b"), Agg("COUNT", "a") >>],
    [T EXCEPT !.select = << Item("z") >>],
    Where(T, ">", "c", C(Text(1))),
    [T EXCEPT !.select = << Agg("MEDIAN", "a") >>],
    [T EXCEPT !.limit = C(Float(18))],
    [T EXCEPT !.order_by = << <<"z", "ASC">> >>],
    All(Table("missing")) }

MCStatements == Filters \cup Pages \cup Joins \cup Groups \cup Changes \cup Explained \cup Failing

=============================================================================
