------------------------------- MODULE Grammar -------------------------------
(***************************************************************************)
(* The language of the README and of the comments in parser/mod.rs, from   *)
(* the writer's side: how a statement is written down, with no more        *)
(* parentheses than arithmetic needs, and what it then means.  Queries     *)
(* compares the parser with it.                                            *)
(*                                                                         *)
(* A statement to be written is a record like the parser's, in which       *)
(* arithmetic is still a tree and the condition of a RIGHT JOIN is in the  *)
(* order it is written in.                                                 *)
(***************************************************************************)
EXTENDS Expressions, SequencesExt

Math(op, l, r) == [expr |-> "Math", op |-> op, l |-> l, r |-> r]

Word(w) == << [tok |-> w, name |-> "", value |-> Null] >>
Words(ws) == FlattenSeq([i \in DOMAIN ws |-> Word(ws[i])])
Name(n) == << [tok |-> "Ident", name |-> n, value |-> Null] >>
Literal(x) ==
    CASE x.t = "Null"    -> Word("NULL")
      [] x.t = "Boolean" -> Word(IF x.v = 1 THEN "TRUE" ELSE "FALSE")
      [] x.t = "String"  -> << [tok |-> "String", name |-> "", value |-> x] >>
      [] OTHER           -> << [tok |-> "Number", name |-> "", value |-> x] >>

\* The members of ss with `between' between them.
Joined(ss, between) ==
    FlattenSeq([i \in DOMAIN ss |-> IF i = 1 THEN ss[i] ELSE between \o ss[i]])
Commas(ss) == Joined(ss, Word(","))
Parens(s) == Word("(") \o s \o Word(")")
Clause(present, s) == IF present THEN s ELSE << >>

-----------------------------------------------------------------------------
(* Writing                                                                 *)

Binds(op) == IF op \in {"*", "/"} THEN 2 ELSE 1

\* Arithmetic where an operator must bind at least as strongly as p.
RECURSIVE WrittenMath(_, _)
WrittenMath(e, p) ==
    CASE e.expr = "Math" ->
           LET s == WrittenMath(e.l, Binds(e.op)) \o Word(e.op) \o WrittenMath(e.r, Binds(e.op) + 1)
           IN  IF Binds(e.op) < p THEN Parens(s) ELSE s
      [] e.expr = "Const"    -> Literal(e.value)
      [] e.expr = "Field"    -> Name(e.name)
      [] e.expr = "Function" -> Name(e.func) \o Parens(Name(e.column))

WrittenExpr(e) == WrittenMath(e, 3)
Comparison(e) == WrittenExpr(e.l) \o Word(e.op) \o WrittenMath(e.r, 1)

WrittenItem(item) ==
    WrittenExpr(item[1]) \o Clause(item[2] # None, Word("AS") \o Name(item[2]))

RECURSIVE WrittenFrom(_)
WrittenFrom(item) ==
    IF item.from = "Table" THEN Name(item.name)
    ELSE WrittenFrom(item.left)
         \o (IF item.join_type = "INNER" THEN Word("JOIN") ELSE Words(<<item.join_type, "JOIN">>))
         \o WrittenFrom(item.right)
         \o Clause(item.join_type # "CROSS", Word("ON") \o Comparison(item.predicate))

TypeWord(t) ==
    CASE t = "Boolean" -> "BOOL" [] t = "Integer" -> "INT" [] t = "Float" -> "DOUBLE"
      [] t = "String" -> "VARCHAR"

WrittenColumn(c) ==
    Name(c.name) \o Word(TypeWord(c.datatype))
    \o Clause(c.primary_key, Words(<<"PRIMARY", "KEY">>))
    \o Clause(c.index, Word("INDEX"))
    \o Clause(c.default # None, Word("DEFAULT") \o WrittenExpr(c.default))
    \o Clause(c.nullable = "NotNull", Words(<<"NOT", "NULL">>))
    \o Clause(c.nullable = "Null", Word("NULL"))

WhereWritten(e) == Clause(e # None, Word("WHERE") \o Comparison(e))

RECURSIVE WrittenStatement(_)
WrittenStatement(s) ==
    CASE s.kind = "Select" ->
           Word("SELECT")
           \o (IF s.select = << >> THEN Word("*")
               ELSE Commas([i \in DOMAIN s.select |-> WrittenItem(s.select[i])]))
           \o Word("FROM") \o WrittenFrom(s.from)
           \o WhereWritten(s.where)
           \o Clause(s.group_by # None, Words(<<"GROUP", "BY">>) \o WrittenExpr(s.group_by))
           \o Clause(s.having # None, Word("HAVING") \o Comparison(s.having))
           \o Clause(s.order_by # << >>, Words(<<"ORDER", "BY">>) \o
                Commas([i \in DOMAIN s.order_by |-> Name(s.order_by[i][1]) \o Word(s.order_by[i][2])]))
           \o Clause(s.limit # None, Word("LIMIT") \o WrittenExpr(s.limit))
           \o Clause(s.offset # None, Word("OFFSET") \o WrittenExpr(s.offset))
      [] s.kind = "Insert" ->
           Words(<<"INSERT", "INTO">>) \o Name(s.table)
           \o Clause(s.names # None, Parens(Commas([i \in DOMAIN s.names |-> Name(s.names[i])])))
           \o Word("VALUES")
           \o Commas([i \in DOMAIN s.rows |->
                Parens(Commas([j \in DOMAIN s.rows[i] |-> WrittenExpr(s.rows[i][j])]))])
      [] s.kind = "Update" ->
           LET set == SetToSeq(s.set)
           IN  Word("UPDATE") \o Name(s.table) \o Word("SET")
               \o Commas([i \in DOMAIN set |->
                    Name(set[i][1]) \o Word("=") \o WrittenExpr(set[i][2])])
               \o WhereWritten(s.where)
      [] s.kind = "Delete" ->
           Words(<<"DELETE", "FROM">>) \o Name(s.table) \o WhereWritten(s.where)
      [] s.kind = "CreateTable" ->
           Words(<<"CREATE", "TABLE">>) \o Name(s.table)
           \o Parens(Commas([i \in DOMAIN s.columns |-> WrittenColumn(s.columns[i])]))
      [] s.kind = "DropTable" -> Words(<<"DROP", "TABLE">>) \o Name(s.table)
      [] s.kind = "Explain"   -> Word("EXPLAIN") \o WrittenStatement(s.stmt)
      [] OTHER -> Word(s.kind)

Written(s) == WrittenStatement(s) \o Word(";")

-----------------------------------------------------------------------------
(* Meaning                                                                 *)

\* Arithmetic has the value of its tree, a Float.
RECURSIVE ValueOf(_)
ValueOf(e) ==
    IF e.expr = "Const" THEN e.value.v
    ELSE LET l == ValueOf(e.l)
             r == ValueOf(e.r)
         IN  CASE e.op = "+" -> l + r
               [] e.op = "-" -> l - r
               [] e.op = "*" -> (l * r) \div Unit
               [] e.op = "/" -> (l * Unit) \div r

Simple(e) ==
    CASE e = None -> None
      [] e # None -> IF e.expr = "Math" THEN Const(Float(ValueOf(e))) ELSE e
Compared(e) == IF e = None THEN None ELSE [e EXCEPT !.l = Simple(@), !.r = Simple(@)]

RECURSIVE MeantFrom(_)
MeantFrom(item) ==
    IF item.from = "Table" THEN item
    ELSE [item EXCEPT !.left = MeantFrom(@),
                      !.predicate = IF item.join_type = "RIGHT" THEN Operation("=", @.r, @.l) ELSE @]

RECURSIVE Meaning(_)
Meaning(s) ==
    CASE s.kind = "Select" ->
           [s EXCEPT !.from = MeantFrom(@), !.where = Compared(@), !.having = Compared(@)]
      [] s.kind = "Insert" ->
           [s EXCEPT !.rows = [i \in DOMAIN @ |-> [j \in DOMAIN @[i] |-> Simple(@[i][j])]]]
      [] s.kind = "Update" ->
           [s EXCEPT !.set = {<<a[1], Simple(a[2])>> : a \in @}, !.where = Compared(@)]
      [] s.kind = "Delete" -> [s EXCEPT !.where = Compared(@)]
      [] s.kind = "CreateTable" ->
           [s EXCEPT !.columns = [i \in DOMAIN @ |-> [@[i] EXCEPT !.default = Simple(@)]]]
      [] s.kind = "Explain" -> [s EXCEPT !.stmt = Meaning(@)]
      [] OTHER -> s

=============================================================================
