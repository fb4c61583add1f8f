----------------------------- MODULE Expressions -----------------------------
(***************************************************************************)
(* Values (src/src/sql/types/mod.rs) and the evaluation of expressions on  *)
(* rows (src/src/sql/parser/ast.rs, the arithmetic of parser/lexer.rs).    *)
(*                                                                         *)
(* A value is a type and a number.  Strings are their rank in the order of *)
(* strings, Booleans are 0 and 1, and numbers are counted in twelfths, so  *)
(* that an average of up to four whole numbers is exact.                   *)
(***************************************************************************)
EXTENDS Integers, Sequences

CONSTANTS
    None,     \* no value: an Option that is None
    Err,      \* Err(_): the statement ends with an error
    Panic     \* unwrap of nothing: the task that executes the statement dies

Unit == 12
Numeric == {"Integer", "Float"}
DataType == Numeric \cup {"Boolean", "String"}

Null == [t |-> "Null", v |-> 0]
Integer(n) == [t |-> "Integer", v |-> n * Unit]
Float(x) == [t |-> "Float", v |-> x]
Boolean(b) == [t |-> "Boolean", v |-> IF b THEN 1 ELSE 0]
Text(rank) == [t |-> "String", v |-> rank]

Value == {Null} \cup [t : DataType, v : Int]

\* Goes on with F unless r is an error or a panic: the `?' of the code.
Then(r, F(_)) == IF r = Err \/ r = Panic THEN r ELSE F(r)

-----------------------------------------------------------------------------
(* Order and equality                                                      *)

Sign(n) == IF n < 0 THEN -1 ELSE IF n > 0 THEN 1 ELSE 0

\* Values of one type, or both numbers.  HashMap and `==' know nothing of the
\* second case: they take 1 and 1.0 for different.
Comparable(a, b) == a.t = b.t \/ {a.t, b.t} \subseteq Numeric

\* -1, 0 or 1 for less, equal and greater; None where there is no order.
PartialCmp(a, b) ==
    CASE a = Null /\ b = Null -> 0
      [] a = Null /\ b # Null -> -1
      [] a # Null /\ b = Null -> 1
      [] OTHER -> IF Comparable(a, b) THEN Sign(a.v - b.v) ELSE None

-----------------------------------------------------------------------------
(* Expressions: fields, constants, functions of a column, comparisons      *)

Field(c) == [expr |-> "Field", name |-> c]
Const(x) == [expr |-> "Const", value |-> x]
Function(f, c) == [expr |-> "Function", func |-> f, column |-> c]
Operation(op, l, r) == [expr |-> "Operation", op |-> op, l |-> l, r |-> r]

Operand == [expr : {"Field"}, name : STRING] \cup [expr : {"Const"}, value : Value]
             \cup [expr : {"Function"}, func : STRING, column : STRING]
Expression == Operand \cup [expr : {"Operation"}, op : {"=", "<", ">"}, l : Operand, r : Operand]

\* Nothing, an error and a panic are told from each other and from what is
\* there: values, expressions, names, the outcome of a comparison, rows and lists
\* of rows, the column (which may have no name) and the value of a filter.
ASSUME OptionAssumption ==
    /\ None # Err /\ None # Panic /\ Err # Panic
    /\ \A x \in {None, Err, Panic} :
          /\ x \notin Value \cup Expression \cup STRING \cup {-1, 0, 1}
          /\ x \notin Seq(Value) \cup Seq(Seq(Value))
          /\ x \notin (STRING \cup {""}) \X (Value \cup STRING)

\* Iterator::position: the first place of x in s, 0 if there is none.
Position(s, x) ==
    IF \E i \in DOMAIN s : s[i] = x
    THEN CHOOSE i \in DOMAIN s : s[i] = x /\ \A j \in 1..(i - 1) : s[j] # x
    ELSE 0

\* An operand is a field or a constant; the parser nests nothing deeper.
EvaluateOperand(e, cols, row) ==
    CASE e.expr = "Const" -> e.value
      [] e.expr = "Field" -> LET i == Position(cols, e.name) IN IF i = 0 THEN Err ELSE row[i]
      [] OTHER -> Err

HoldsFor(op, sign) ==
    CASE op = "=" -> sign = 0
      [] op = ">" -> sign = 1
      [] op = "<" -> sign = -1

\* What is compared with NULL is NULL, whatever the types; the right operand is
\* looked up in the right columns.
Compare(op, a, b) ==
    CASE a = Null \/ b = Null -> Null
      [] OTHER -> IF Comparable(a, b) THEN Boolean(HoldsFor(op, Sign(a.v - b.v))) ELSE Err

EvaluateExpr(e, lcols, lrow, rcols, rrow) ==
    IF e.expr # "Operation" THEN EvaluateOperand(e, lcols, lrow)
    ELSE Then(EvaluateOperand(e.l, lcols, lrow), LAMBDA a :
         Then(EvaluateOperand(e.r, rcols, rrow), LAMBDA b : Compare(e.op, a, b)))

-----------------------------------------------------------------------------
(* Arithmetic: constants only, computed while parsing                      *)

Precedence(op) == CASE op \in {"+", "-"} -> 1 [] op \in {"*", "/"} -> 2 [] OTHER -> 0

\* f64 in the code; whole twelfths here, and no division by zero.
Compute(op, a, b) ==
    CASE op = "+" -> a + b
      [] op = "-" -> a - b
      [] op = "*" -> (a * b) \div Unit
      [] op = "/" -> (a * Unit) \div b

\* The result is a Float, also of two Integers.
ComputeExpr(op, l, r) ==
    IF /\ l.expr = "Const" /\ l.value.t \in Numeric
       /\ r.expr = "Const" /\ r.value.t \in Numeric
    THEN Const(Float(Compute(op, l.value.v, r.value.v)))
    ELSE Err

=============================================================================
