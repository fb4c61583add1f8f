------------------------------- MODULE MCSql -------------------------------
(* Instances of Sql for TLC. *)
EXTENDS SqlTidy

CONSTANTS s1, s2, one

MCOneName == { <<"t">> }
\* A table name that is a prefix of another, and three columns.
MCTableName == { <<"t">>, <<"t", "t">> }
MCColumnName == { <<"a">>, <<"b">>, <<"c">> }

T == <<"t">>
TT == <<"t", "t">>
A == <<"a">>
B == <<"b">>
C == <<"c">>

\* Two integers, and the Float 1.0.
MCDatum == {1, 2, Null}
MCDatumWithFloat == {1, 2, Null, one}
MCIdBefore(x, y) == x # one /\ (y = one \/ x < y)
\* Rows of names that extend a name come after its own.
MCKeyBefore(j, k) ==
    Len(j.name) < Len(k.name) \/ (j.name = k.name /\ MCIdBefore(j.value, k.value))
MCDatatype(x) == IF x = one THEN "Float" ELSE "Integer"
MCWhole(x) == IF x = one THEN 1 ELSE x

\* a INT PRIMARY KEY, b INT INDEX (or NOT NULL), c INT
Columns(nullable) ==
    << [name |-> A, datatype |-> "Integer", nullable |-> FALSE, default |-> None,
        primary_key |-> TRUE, index |-> FALSE],
       [name |-> B, datatype |-> "Integer", nullable |-> nullable,
        default |-> IF nullable THEN Null ELSE None,
        primary_key |-> FALSE, index |-> TRUE],
       [name |-> C, datatype |-> "Integer", nullable |-> TRUE, default |-> Null,
        primary_key |-> FALSE, index |-> FALSE] >>

MCCreate(t) == [kind |-> "CreateTable", table |-> t, columns |-> Columns(TRUE)]
MCCreateNotNull(t) == [kind |-> "CreateTable", table |-> t, columns |-> Columns(FALSE)]
MCDrop(t) == [kind |-> "DropTable", table |-> t]
MCInsert(t, rows) == [kind |-> "Insert", table |-> t, names |-> << >>, rows |-> rows]
MCUpdate(t, where, set) == [kind |-> "Update", table |-> t, where |-> where, set |-> set]
MCDelete(t, where) == [kind |-> "Delete", table |-> t, where |-> where]
Where(c, x) == [field |-> c, value |-> x]

\* Two rows with the same indexed value.
MCTwoRows == << MCCreate(T), MCInsert(T, << <<1, 1>> >>) >>
MCOneTable == << MCCreate(T) >>

\* Rows come, go and change their keys and values: two UPDATEs of one row, one
\* of which moves it in the index before it writes the row.  One finds it by a
\* Float.
MCDml ==
    { MCInsert(T, << <<1, 2>> >>), MCInsert(T, << <<2>>, <<1, 1>> >>),
      MCUpdate(T, None, A :> 2),
      MCUpdate(T, None, B :> Null), MCUpdate(T, Where(A, one), C :> 1),
      MCUpdate(T, Where(B, 2), A :> 1), MCDelete(T, Where(B, 1)) }

\* Tables come and go too, with rows that are too long or changed to what was
\* refused when they were inserted, and a scan of t finds the rows of tt.
MCDdl ==
    { MCCreate(T), MCCreateNotNull(T), MCDrop(T),
      [MCInsert(T, << <<1, 2, 1>> >>) EXCEPT !.names = <<C, B, A>>],
      MCInsert(T, << <<2, Null, 1, 1>> >>),
      MCUpdate(T, Where(A, 1), B :> Null), MCUpdate(T, Where(C, 1), C :> 2),
      MCCreate(TT), MCInsert(TT, << <<1, 1>> >>) }

MCInsertDelete == { MCInsert(T, << <<1, 2>> >>), MCDelete(T, Where(A, 1)) }

\* No scan finds rows that are shorter than the table it is for.
ASSUME MCWidthAssumption ==
    \A stmt \in Statements \cup ToSet(InitialStatements) :
        stmt.kind = "CreateTable" => Len(stmt.columns) = 3

\* What the theorems on indexes ask of an instance, those of statements on rows
\* have.
ASSUME MCTidyAssumption == OnlyRows => NamesApart /\ Tidy(InitialDb, {}, {})

\* Sessions are interchangeable.
Symmetry == Permutations(Session)

=============================================================================
