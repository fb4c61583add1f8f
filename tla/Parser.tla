------------------------------- MODULE Parser -------------------------------
(***************************************************************************)
(* The recursive-descent parser, src/src/sql/parser/mod.rs, on the tokens  *)
(* of a statement.                                                         *)
(*                                                                         *)
(* A parsing function takes the position of the next token and ends in Err *)
(* or with what it has read and the position after it.                     *)
(***************************************************************************)
EXTENDS Expressions, SequencesExt

VARIABLE text    \* the tokens of the statement

Symbol == {"(", ")", ",", ";", "*", "+", "-", "/", "=", ">", "<"}
Token == [tok : STRING, name : STRING, value : Value]

Peek(i) == IF i \in DOMAIN text THEN text[i].tok ELSE "End"
IsKeyword(tok) == tok \notin Symbol \cup {"Ident", "Number", "String", "End"}

At(x, i) == [val |-> x, at |-> i]
Bind(r, F(_, _)) == Then(r, LAMBDA p : F(p.val, p.at))

\* next_expect, for one token after the other.
After(i, toks, F(_)) ==
    IF \A j \in DOMAIN toks : Peek(i + j - 1) = toks[j] THEN F(i + Len(toks)) ELSE Err

\* next_if_token and what follows the token, or `absent'.
Optional(i, tok, F(_), absent) == IF Peek(i) = tok THEN F(i + 1) ELSE At(absent, i)

NextIdent(i) == IF Peek(i) = "Ident" THEN At(text[i].name, i + 1) ELSE Err

NextDatatype(i) ==
    CASE Peek(i) \in {"BOOL", "BOOLEAN"}           -> At("Boolean", i + 1)
      [] Peek(i) \in {"INT", "INTEGER"}            -> At("Integer", i + 1)
      [] Peek(i) \in {"FLOAT", "DOUBLE"}           -> At("Float", i + 1)
      [] Peek(i) \in {"STRING", "TEXT", "VARCHAR"} -> At("String", i + 1)
      [] OTHER -> Err

\* Items with commas between them, at least one.
List(i, Item(_)) ==
    LET from[j \in 1..(Len(text) + 1)] ==
          Bind(Item(j), LAMBDA x, k :
            IF Peek(k) = "," THEN Bind(from[k + 1], LAMBDA xs, l : At(<<x>> \o xs, l))
                             ELSE At(<<x>>, k))
    IN  from[i]

InParens(i, Item(_)) ==
    After(i, <<"(">>, LAMBDA j :
    Bind(List(j, Item), LAMBDA xs, k :
    After(k, <<")">>, LAMBDA l : At(xs, l))))

-----------------------------------------------------------------------------
(* Expressions                                                             *)

RECURSIVE ParseExpression(_), ComputeMathOperator(_, _), ComputeRest(_, _, _)

ParseExpression(i) ==
    CASE Peek(i) = "Ident" /\ Peek(i + 1) = "(" ->
           Bind(NextIdent(i + 2), LAMBDA c, j :
           After(j, <<")">>, LAMBDA k : At(Function(text[i].name, c), k)))
      [] Peek(i) = "Ident" /\ Peek(i + 1) # "(" -> At(Field(text[i].name), i + 1)
      [] Peek(i) = "(" ->
           Bind(ComputeMathOperator(i + 1, 1), LAMBDA e, j :
           After(j, <<")">>, LAMBDA k : At(e, k)))
      [] Peek(i) \in {"Number", "String"} -> At(Const(text[i].value), i + 1)
      [] Peek(i) \in {"TRUE", "FALSE"}    -> At(Const(Boolean(Peek(i) = "TRUE")), i + 1)
      [] Peek(i) = "NULL"                 -> At(Const(Null), i + 1)
      [] OTHER -> Err

\* An operand and the operators after it that bind at least as strongly as
\* min_prec; what is to the right of an operator binds more strongly still.
ComputeMathOperator(i, min_prec) ==
    Bind(ParseExpression(i), LAMBDA left, j : ComputeRest(left, j, min_prec))

ComputeRestRightFirst(left, i, min_prec) ==
    IF Precedence(Peek(i)) < min_prec THEN At(left, i)
    ELSE Bind(ComputeMathOperator(i + 1, Precedence(Peek(i))), LAMBDA right, j :
         Then(ComputeExpr(Peek(i), left, right), LAMBDA e : ComputeRest(e, j, min_prec)))
ComputeRest(left, i, min_prec) ==
    IF Precedence(Peek(i)) < min_prec THEN At(left, i)
    ELSE Bind(ComputeMathOperator(i + 1, Precedence(Peek(i)) + 1), LAMBDA right, j :
         Then(ComputeExpr(Peek(i), left, right), LAMBDA e : ComputeRest(e, j, min_prec)))

ParseOperationExpr(i) ==
    Bind(ParseExpression(i), LAMBDA left, j :
    IF Peek(j) \notin {"=", ">", "<"} THEN Err
    ELSE Bind(ComputeMathOperator(j + 1, 1), LAMBDA right, k :
         At(Operation(Peek(j), left, right), k)))

-----------------------------------------------------------------------------
(* Clauses                                                                 *)

ParseWhereClause(i) == Optional(i, "WHERE", ParseOperationExpr, None)
ParseHavingClause(i) == Optional(i, "HAVING", ParseOperationExpr, None)
ParseGroupClause(i) ==
    Optional(i, "GROUP", LAMBDA j : After(j, <<"BY">>, ParseExpression), None)
ParseLimit(i) == Optional(i, "LIMIT", ParseExpression, None)
ParseOffset(i) == Optional(i, "OFFSET", ParseExpression, None)

ParseOrderItem(i) ==
    Bind(NextIdent(i), LAMBDA c, j :
    IF Peek(j) \in {"ASC", "DESC"} THEN At(<<c, Peek(j)>>, j + 1) ELSE At(<<c, "ASC">>, j))
ParseOrderClause(i) ==
    Optional(i, "ORDER",
             LAMBDA j : After(j, <<"BY">>, LAMBDA k : List(k, ParseOrderItem)), << >>)

ParseSelectItem(i) ==
    Bind(ParseExpression(i), LAMBDA e, j :
    Bind(Optional(j, "AS", NextIdent, None), LAMBDA alias, k : At(<<e, alias>>, k)))
ParseSelectClause(i) ==
    After(i, <<"SELECT">>, LAMBDA j :
    IF Peek(j) = "*" THEN At(<< >>, j + 1) ELSE List(j, ParseSelectItem))

ParseFromTableClause(i) == Bind(NextIdent(i), LAMBDA t, j : At([from |-> "Table", name |-> t], j))

\* The type of the next join, None when there is none.
ParseFromClauseJoinLax(i) ==
    CASE Peek(i) = "JOIN" -> At("INNER", i + 1)
      [] Peek(i) \in {"CROSS", "LEFT", "RIGHT"} ->
           At(Peek(i), IF Peek(i + 1) = "JOIN" THEN i + 2 ELSE i + 1)
      [] OTHER -> At(None, i)
ParseFromClauseJoin(i) ==
    CASE Peek(i) = "JOIN" -> At("INNER", i + 1)
      [] Peek(i) \in {"CROSS", "LEFT", "RIGHT"} ->
           After(i + 1, <<"JOIN">>, LAMBDA j : At(Peek(i), j))
      [] OTHER -> At(None, i)

\* For a right join the sides of the condition are swapped.
ParseJoinPredicate(i, type) ==
    IF type = "CROSS" THEN At(None, i)
    ELSE After(i, <<"ON">>, LAMBDA j :
         Bind(ParseExpression(j), LAMBDA l, k :
         After(k, <<"=">>, LAMBDA m :
         Bind(ParseExpression(m), LAMBDA r, n :
         At(IF type = "RIGHT" THEN Operation("=", r, l) ELSE Operation("=", l, r), n)))))

RECURSIVE ParseJoins(_, _)
ParseJoins(item, i) ==
    Bind(ParseFromClauseJoin(i), LAMBDA type, j :
    IF j = i THEN At(item, i)
    ELSE Bind(ParseFromTableClause(j), LAMBDA right, k :
         Bind(ParseJoinPredicate(k, type), LAMBDA predicate, l :
         ParseJoins([from |-> "Join", left |-> item, right |-> right,
                     join_type |-> type, predicate |-> predicate], l))))
ParseFromClause(i) == After(i, <<"FROM">>, LAMBDA j : Bind(ParseFromTableClause(j), ParseJoins))

RECURSIVE ParseConstraints(_, _)
ParseConstraints(column, i) ==
    CASE ~IsKeyword(Peek(i)) -> At(column, i)
      [] Peek(i) = "NULL"    -> ParseConstraints([column EXCEPT !.nullable = "Null"], i + 1)
      [] Peek(i) = "NOT"     -> After(i + 1, <<"NULL">>, LAMBDA j :
                                  ParseConstraints([column EXCEPT !.nullable = "NotNull"], j))
      [] Peek(i) = "DEFAULT" -> Bind(ParseExpression(i + 1), LAMBDA e, j :
                                  ParseConstraints([column EXCEPT !.default = e], j))
      [] Peek(i) = "PRIMARY" -> After(i + 1, <<"KEY">>, LAMBDA j :
                                  ParseConstraints([column EXCEPT !.primary_key = TRUE], j))
      [] Peek(i) = "INDEX"   -> ParseConstraints([column EXCEPT !.index = TRUE], i + 1)
      [] OTHER -> Err
ParseDdlColumn(i) ==
    Bind(NextIdent(i), LAMBDA c, j :
    Bind(NextDatatype(j), LAMBDA type, k :
    ParseConstraints([name |-> c, datatype |-> type, nullable |-> "Unsaid", default |-> None,
                      primary_key |-> FALSE, index |-> FALSE], k)))

-----------------------------------------------------------------------------
(* Statements                                                              *)

ParseSelect(i) ==
    Bind(ParseSelectClause(i), LAMBDA select, i1 :
    Bind(ParseFromClause(i1), LAMBDA from, i2 :
    Bind(ParseWhereClause(i2), LAMBDA where, i3 :
    Bind(ParseGroupClause(i3), LAMBDA group_by, i4 :
    Bind(ParseHavingClause(i4), LAMBDA having, i5 :
    Bind(ParseOrderClause(i5), LAMBDA order_by, i6 :
    Bind(ParseLimit(i6), LAMBDA limit, i7 :
    Bind(ParseOffset(i7), LAMBDA offset, i8 :
    At([kind |-> "Select", select |-> select, from |-> from, where |-> where,
        group_by |-> group_by, having |-> having, order_by |-> order_by,
        limit |-> limit, offset |-> offset], i8)))))))))

ParseInsert(i) ==
    After(i, <<"INSERT", "INTO">>, LAMBDA j :
    Bind(NextIdent(j), LAMBDA t, k :
    Bind(IF Peek(k) = "(" THEN InParens(k, NextIdent) ELSE At(None, k), LAMBDA names, l :
    After(l, <<"VALUES">>, LAMBDA m :
    Bind(List(m, LAMBDA n : InParens(n, ParseExpression)), LAMBDA rows, o :
    At([kind |-> "Insert", table |-> t, names |-> names, rows |-> rows], o))))))

ParseAssignment(i) ==
    Bind(NextIdent(i), LAMBDA c, j :
    After(j, <<"=">>, LAMBDA k :
    Bind(ParseExpression(k), LAMBDA e, l : At(<<c, e>>, l))))

\* A column may be assigned once.
ParseUpdate(i) ==
    After(i, <<"UPDATE">>, LAMBDA j :
    Bind(NextIdent(j), LAMBDA t, k :
    After(k, <<"SET">>, LAMBDA l :
    Bind(List(l, ParseAssignment), LAMBDA set, m :
    IF \E a, b \in DOMAIN set : a # b /\ set[a][1] = set[b][1] THEN Err
    ELSE Bind(ParseWhereClause(m), LAMBDA where, n :
         At([kind |-> "Update", table |-> t, set |-> ToSet(set), where |-> where], n))))))

ParseDelete(i) ==
    After(i, <<"DELETE", "FROM">>, LAMBDA j :
    Bind(NextIdent(j), LAMBDA t, k :
    Bind(ParseWhereClause(k), LAMBDA where, l :
    At([kind |-> "Delete", table |-> t, where |-> where], l))))

ParseCreate(i) ==
    After(i, <<"CREATE", "TABLE">>, LAMBDA j :
    Bind(NextIdent(j), LAMBDA t, k :
    Bind(InParens(k, ParseDdlColumn), LAMBDA columns, l :
    At([kind |-> "CreateTable", table |-> t, columns |-> columns], l))))

ParseDrop(i) ==
    After(i, <<"DROP", "TABLE">>, LAMBDA j :
    Bind(NextIdent(j), LAMBDA t, k : At([kind |-> "DropTable", table |-> t], k)))

ParseStatement(i) ==
    CASE Peek(i) = "CREATE" -> ParseCreate(i)
      [] Peek(i) = "SELECT" -> ParseSelect(i)
      [] Peek(i) = "INSERT" -> ParseInsert(i)
      [] Peek(i) = "UPDATE" -> ParseUpdate(i)
      [] Peek(i) = "DELETE" -> ParseDelete(i)
      [] Peek(i) = "DROP"   -> ParseDrop(i)
      [] Peek(i) \in {"BEGIN", "COMMIT", "ROLLBACK"} -> At([kind |-> Peek(i)], i + 1)
      [] OTHER -> Err

\* EXPLAIN is refused inside EXPLAIN.
ParseExplain(i) ==
    IF Peek(i) # "EXPLAIN" THEN ParseStatement(i)
    ELSE Bind(ParseStatement(i + 1), LAMBDA stmt, j : At([kind |-> "Explain", stmt |-> stmt], j))

\* The statement of the text, or Err: it ends in a semicolon and nothing follows.
Parse ==
    Bind(ParseExplain(1), LAMBDA stmt, i :
    After(i, <<";">>, LAMBDA j : IF Peek(j) = "End" THEN stmt ELSE Err))

=============================================================================
