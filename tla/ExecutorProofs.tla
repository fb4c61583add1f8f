--------------------------- MODULE ExecutorProofs ---------------------------
(***************************************************************************)
(* Proofs about the nodes of a SELECT: the choice of a scan, joins, order, *)
(* pages and groups, for any tables, rows and values.                      *)
(***************************************************************************)
EXTENDS Nodes, FiniteSetTheorems, SequenceTheorems, TLAPS

Plain(c, r, x) == c
Never(c, n, r) == FALSE
Induct == INSTANCE Induction WITH Step <- Plain, Holds <- Never

(* An instance has its own names for the operators on finite sets.         *)
LEMMA SameSets == \A S : /\ IsFiniteSet(S) <=> Induct!IsFiniteSet(S)
                         /\ Cardinality(S) = Induct!Cardinality(S)
BY DEF IsFiniteSet, Induct!IsFiniteSet, Cardinality, Induct!Cardinality

-----------------------------------------------------------------------------
(* Elements in order, and what stands at some places                       *)

RankIn(S, R, x) == Cardinality({y \in S : << y, x >> \in R})

(* In a list, the number of elements before the k-th is k - 1.             *)
LEMMA RankInList ==
  ASSUME NEW S, IsFiniteSet(S), NEW R, Induct!Orders(S, R), NEW seq, Induct!Lists(S, R, seq),
         NEW k \in 1..Cardinality(S)
  PROVE  RankIn(S, R, seq[k]) = k - 1
<1>. DEFINE n == Cardinality(S)
            B == {y \in S : << y, seq[k] >> \in R}
            f == [i \in 1..(k - 1) |-> seq[i]]
<1>1. /\ n \in Nat /\ seq \in [1..n -> S]
      /\ \A x \in S : \E i \in 1..n : seq[i] = x
      /\ \A i, j \in 1..n : i # j => seq[i] # seq[j]
  BY SameSets, Induct!ListsAll
<1>2. \A i, j \in 1..n : i < j => << seq[i], seq[j] >> \in R
  BY SameSets, Zenon DEF Induct!Lists
<1>3. /\ \A x, y \in S : x # y <=> << x, y >> \in R \/ << y, x >> \in R
      /\ \A x, y, z \in S : << x, y >> \in R /\ << y, z >> \in R => << x, z >> \in R
  BY DEF Induct!Orders
<1>. HIDE DEF n
<1>4. k \in 1..n /\ k - 1 \in Nat
  BY <1>1 DEF n
<1>5. f \in [1..(k - 1) -> B]
  BY <1>1, <1>2, <1>4
<1>6. \A i, j \in 1..(k - 1) : i # j => f[i] # f[j]
  BY <1>1, <1>4
<1>7. ASSUME NEW y \in B PROVE \E i \in 1..(k - 1) : f[i] = y
  <2>1. PICK i \in 1..n : seq[i] = y
    BY <1>1
  <2>2. y # seq[k]
    BY <1>1, <1>3, <1>4
  <2>3. ~(k < i)
    <3>1. SUFFICES ASSUME k < i PROVE FALSE
      OBVIOUS
    <3>2. << seq[k], y >> \in R /\ << y, seq[k] >> \in R /\ y \in S /\ seq[k] \in S
      BY <1>1, <1>2, <1>4, <2>1, <3>1
    <3>3. << y, y >> \in R
      BY <1>3, <3>2
    <3>. QED BY <1>3, <3>2, <3>3
  <2>4. i \in 1..(k - 1)
    BY <1>1, <1>4, <2>1, <2>2, <2>3
  <2>5. f[i] = seq[i]
    BY <2>4
  <2>. HIDE DEF f
  <2>. QED BY <2>1, <2>4, <2>5
<1>. HIDE DEF f, B
<1>8. f \in Bijection(1..(k - 1), B)
  BY <1>5, <1>6, <1>7 DEF Bijection, Injection, Surjection, IsInjective
<1>9. IsFiniteSet(1..(k - 1)) /\ Cardinality(1..(k - 1)) = k - 1
  BY <1>4, FS_Interval
<1>10. Cardinality(B) = k - 1
  BY <1>8, <1>9, FS_Bijection DEF ExistsBijection
<1>. QED BY <1>10 DEF RankIn, B

Ranked(S, R) == [k \in 1..Cardinality(S) |-> CHOOSE x \in S : RankIn(S, R, x) = k - 1]

(* Picking the elements by their ranks lists them in order.                *)
LEMMA RankedLists ==
  ASSUME NEW S, IsFiniteSet(S), NEW R, Induct!Orders(S, R)
  PROVE  Induct!Lists(S, R, Ranked(S, R))
<1>1. PICK seq : Induct!Lists(S, R, seq)
  BY SameSets, Induct!ListExists
<1>. DEFINE n == Cardinality(S)
<1>2. /\ n \in Nat /\ seq \in [1..n -> S]
      /\ \A x \in S : \E i \in 1..n : seq[i] = x
  BY <1>1, SameSets, Induct!ListsAll
<1>3. \A k \in 1..n : RankIn(S, R, seq[k]) = k - 1
  BY <1>1, RankInList
<1>. HIDE DEF n
<1>4. ASSUME NEW k \in 1..n
      PROVE  (CHOOSE x \in S : RankIn(S, R, x) = k - 1) = seq[k]
  <2>1. seq[k] \in S /\ RankIn(S, R, seq[k]) = k - 1
    BY <1>2, <1>3
  <2>2. ASSUME NEW x \in S, RankIn(S, R, x) = k - 1 PROVE x = seq[k]
    <3>1. PICK i \in 1..n : seq[i] = x
      BY <1>2
    <3>2. i - 1 = k - 1
      BY <1>3, <2>2, <3>1
    <3>3. i = k
      BY <1>2, <3>2
    <3>. QED BY <3>1, <3>3
  <2>. QED BY <2>1, <2>2, Zenon
<1>5. Ranked(S, R) = seq
  <2>1. seq = [k \in 1..n |-> seq[k]]
    BY <1>2
  <2>. QED BY <1>4, <2>1, Zenon DEF Ranked, n
<1>. QED BY <1>1, <1>5

RankedBy(S, rank) == [k \in 1..Cardinality(S) |-> CHOOSE x \in S : rank[x] = k - 1]

(* InOrder by its definition, with the ranks of an order.                  *)
LEMMA ListedByRank ==
  ASSUME NEW S, IsFiniteSet(S), NEW R, Induct!Orders(S, R),
         NEW rank, \A x \in S : rank[x] = RankIn(S, R, x)
  PROVE  /\ Cardinality(S) \in Nat
         /\ RankedBy(S, rank) \in [1..Cardinality(S) -> S]
         /\ \A x \in S : \E k \in 1..Cardinality(S) : RankedBy(S, rank)[k] = x
         /\ \A k, l \in 1..Cardinality(S) :
              k < l => << RankedBy(S, rank)[k], RankedBy(S, rank)[l] >> \in R
<1>. DEFINE f(k) == CHOOSE x \in S : rank[x] = k - 1
            g(k) == CHOOSE x \in S : RankIn(S, R, x) = k - 1
            q == Ranked(S, R)
<1>1. RankedBy(S, rank) = q
  <2>1. \A k : f(k) = g(k)
    OBVIOUS
  <2>2. RankedBy(S, rank) = [k \in 1..Cardinality(S) |-> f(k)]
    BY DEF RankedBy
  <2>3. q = [k \in 1..Cardinality(S) |-> g(k)]
    BY DEF Ranked
  <2>. HIDE DEF f, g, q
  <2>. QED BY <2>1, <2>2, <2>3
<1>2. Induct!Lists(S, R, q)
  BY RankedLists
<1>. HIDE DEF f, g, q
<1>3. /\ Cardinality(S) \in Nat /\ q \in [1..Cardinality(S) -> S]
      /\ \A x \in S : \E k \in 1..Cardinality(S) : q[k] = x
  BY <1>2, SameSets, Induct!ListsAll
<1>4. \A k, l \in 1..Cardinality(S) : k < l => << q[k], q[l] >> \in R
  BY <1>2, SameSets, Zenon DEF Induct!Lists
<1>. QED BY <1>1, <1>3, <1>4

LessPairs == {p \in Nat \X Nat : p[1] < p[2]}

(* Any set of numbers is ordered by <.                                     *)
LEMMA LessOrders ==
  ASSUME NEW K \in SUBSET Nat
  PROVE  /\ \A i, j \in K : << i, j >> \in LessPairs <=> i < j
         /\ Induct!Orders(K, LessPairs)
<1>1. \A i, j \in K : << i, j >> \in LessPairs <=> i < j
  BY DEF LessPairs
<1>. QED BY <1>1 DEF Induct!Orders

Nth(K) == InOrder(K, <)

(* A finite set of numbers in their order: each once, the smaller first.   *)
LEMMA NthOf ==
  ASSUME NEW K \in SUBSET Nat, IsFiniteSet(K)
  PROVE  /\ Cardinality(K) \in Nat
         /\ Nth(K) \in [1..Cardinality(K) -> K]
         /\ \A i \in K : \E k \in 1..Cardinality(K) : Nth(K)[k] = i
         /\ \A k, l \in 1..Cardinality(K) : k < l => Nth(K)[k] < Nth(K)[l]
<1>1. /\ \A i, j \in K : << i, j >> \in LessPairs <=> i < j
      /\ Induct!Orders(K, LessPairs)
  BY LessOrders
<1>. DEFINE q == Nth(K)
            rank == [x \in K |-> Cardinality({y \in K : y < x})]
<1>2. q = RankedBy(K, rank)
  BY DEF Nth, InOrder, RankedBy
<1>3. \A x \in K : rank[x] = RankIn(K, LessPairs, x)
  <2>. SUFFICES ASSUME NEW x \in K PROVE rank[x] = RankIn(K, LessPairs, x)
    OBVIOUS
  <2>1. {y \in K : y < x} = {y \in K : << y, x >> \in LessPairs}
    BY <1>1
  <2>. QED BY <2>1, Zenon DEF RankIn
<1>. HIDE DEF q, rank
<1>4. /\ Cardinality(K) \in Nat
      /\ q \in [1..Cardinality(K) -> K]
      /\ \A i \in K : \E k \in 1..Cardinality(K) : q[k] = i
      /\ \A k, l \in 1..Cardinality(K) : k < l => << q[k], q[l] >> \in LessPairs
  <2>1. Induct!Orders(K, LessPairs)
    BY <1>1
  <2>. DEFINE r == RankedBy(K, rank)
  <2>2. /\ Cardinality(K) \in Nat
        /\ r \in [1..Cardinality(K) -> K]
        /\ \A i \in K : \E k \in 1..Cardinality(K) : r[k] = i
        /\ \A k, l \in 1..Cardinality(K) : k < l => << r[k], r[l] >> \in LessPairs
    BY <1>3, <2>1, ListedByRank
  <2>. HIDE DEF r
  <2>3. q = r
    BY <1>2 DEF r
  <2>. QED BY <2>2, <2>3
<1>6. ASSUME NEW k \in 1..Cardinality(K), NEW l \in 1..Cardinality(K), k < l
      PROVE  q[k] < q[l]
  BY <1>1, <1>4, <1>6
<1>. QED BY <1>4, <1>6 DEF q

(* The part of a sequence at some places.                                  *)
LEMMA AtPlacesOf ==
  ASSUME NEW A, NEW s \in Seq(A), NEW K \in SUBSET (DOMAIN s)
  PROVE  /\ IsFiniteSet(K) /\ Cardinality(K) \in Nat
         /\ AtPlaces(s, K) \in Seq(A) /\ Len(AtPlaces(s, K)) = Cardinality(K)
         /\ Nth(K) \in [1..Cardinality(K) -> K]
         /\ \A k \in 1..Cardinality(K) : AtPlaces(s, K)[k] = s[Nth(K)[k]]
         /\ \A i \in K : \E k \in 1..Cardinality(K) : Nth(K)[k] = i
         /\ \A k, l \in 1..Cardinality(K) : k < l => Nth(K)[k] < Nth(K)[l]
<1>1. DOMAIN s = 1..Len(s) /\ Len(s) \in Nat /\ \A i \in DOMAIN s : s[i] \in A
  BY LenProperties, ElementOfSeq
<1>2. IsFiniteSet(DOMAIN s)
  BY <1>1, FS_Interval
<1>3. K \in SUBSET Nat /\ IsFiniteSet(K)
  BY <1>1, <1>2, FS_Subset
<1>. DEFINE q == Nth(K)
            n == Cardinality(K)
<1>4. /\ n \in Nat /\ q \in [1..n -> K]
      /\ \A i \in K : \E k \in 1..n : q[k] = i
      /\ \A k, l \in 1..n : k < l => q[k] < q[l]
  BY <1>3, NthOf
<1>5. AtPlaces(s, K) = [k \in DOMAIN q |-> s[q[k]]]
  BY DEF AtPlaces, Nth
<1>. HIDE DEF q, n
<1>6. AtPlaces(s, K) = [k \in 1..n |-> s[q[k]]]
  BY <1>4, <1>5
<1>7. \A k \in 1..n : s[q[k]] \in A
  BY <1>1, <1>4
<1>8. AtPlaces(s, K) \in Seq(A) /\ Len(AtPlaces(s, K)) = n
  BY <1>4, <1>6, <1>7, IsASeq, LenProperties
<1>9. \A k \in 1..n : AtPlaces(s, K)[k] = s[q[k]]
  BY <1>6
<1>. QED BY <1>3, <1>4, <1>8, <1>9 DEF q, n

-----------------------------------------------------------------------------
(* Tables and comparisons                                                  *)

Column == [name : STRING, datatype : DataType, nullable : BOOLEAN, default : Value \cup {None},
           primary_key : BOOLEAN, index : BOOLEAN]

\* What a column of this type may hold: an Integer counts whole units.
Fits(x, type) == x = Null \/ (x.t = type /\ (type = "Integer" => x.v % Unit = 0))

\* A table as CREATE TABLE and INSERT leave it, no two of its columns with the
\* same name.
ProperTable(table) ==
    /\ table.columns \in Seq(Column)
    /\ \A i, j \in DOMAIN table.columns : table.columns[i].name = table.columns[j].name => i = j
    /\ \E i \in DOMAIN table.columns : table.columns[i].primary_key
    /\ \A i, j \in DOMAIN table.columns :
          table.columns[i].primary_key /\ table.columns[j].primary_key => i = j
    /\ table.rows \in Seq([DOMAIN table.columns -> Value])
    /\ \A i \in DOMAIN table.rows, c \in DOMAIN table.columns :
          Fits(table.rows[i][c], table.columns[c].datatype)

\* The comparison is true: both sides are there and stand in that order.
Holds(op, a, b) == a # Null /\ b # Null /\ HoldsFor(op, Sign(a.v - b.v))

(* Values are records, and never an error.                                 *)
LEMMA Values ==
  ASSUME NEW x \in Value
  PROVE  /\ x # Err /\ x # Panic /\ x # None
         /\ x.v \in Int
         /\ x = Null \/ x.t \in DataType
         /\ \A y \in Value : x = y <=> x.t = y.t /\ x.v = y.v
         /\ x # Null => x.t # "Null"
<1>1. x # Err /\ x # Panic /\ x # None
  BY OptionAssumption
<1>2. x.v \in Int /\ (x = Null \/ x.t \in DataType) /\ (x # Null => x.t # "Null")
  BY DEF Value, Null, DataType, Numeric
<1>3. \A y \in Value : x = y <=> x.t = y.t /\ x.v = y.v
  BY DEF Value, Null, DataType, Numeric
<1>. QED BY <1>1, <1>2, <1>3

(* TRUE, FALSE and NULL are three values.                                  *)
LEMMA Booleans ==
  /\ Boolean(TRUE) \in Value /\ Boolean(FALSE) \in Value /\ Null \in Value
  /\ Boolean(TRUE) # Boolean(FALSE) /\ Boolean(TRUE) # Null
BY DEF Boolean, Value, Null, DataType, Numeric

(* Two values that can be compared.                                        *)
LEMMA Compared ==
  ASSUME NEW a \in Value, NEW b \in Value, NEW op \in {"=", "<", ">"},
         a = Null \/ b = Null \/ Comparable(a, b)
  PROVE  /\ Compare(op, a, b) \in Value
         /\ Compare(op, a, b) = Boolean(TRUE) <=> Holds(op, a, b)
<1>1. CASE a = Null \/ b = Null
  BY <1>1, Booleans DEF Compare, Holds
<1>2. CASE ~(a = Null \/ b = Null)
  <2>1. Compare(op, a, b) = Boolean(HoldsFor(op, Sign(a.v - b.v)))
    BY <1>2 DEF Compare
  <2>2. HoldsFor(op, Sign(a.v - b.v)) \in BOOLEAN
    BY DEF HoldsFor
  <2>. QED BY <1>2, <2>1, <2>2, Booleans DEF Holds
<1>. QED BY <1>1, <1>2

(* The place of a column that is there once.                               *)
LEMMA PositionOf ==
  ASSUME NEW n \in Nat, NEW s, DOMAIN s = 1..n, NEW i \in 1..n, \A j \in 1..n : s[j] = s[i] => i = j
  PROVE  Position(s, s[i]) = i
<1>1. \A j \in 1..(i - 1) : s[j] # s[i]
  OBVIOUS
<1>2. \A k \in 1..n : s[k] = s[i] => k = i
  OBVIOUS
<1>. QED BY <1>1, <1>2 DEF Position

(* Each, where nothing fails.                                              *)
LEMMA NoneFails ==
  ASSUME NEW ys, \A i \in DOMAIN ys : ys[i] \in Value
  PROVE  {i \in DOMAIN ys : ys[i] = Err \/ ys[i] = Panic} = {}
BY Values

-----------------------------------------------------------------------------
(* Scans and filters                                                       *)

(* A filter whose predicate has a value for every row.                     *)
LEMMA FilterOf ==
  ASSUME NEW columns, NEW X, NEW rows \in Seq(X), NEW predicate,
         \A i \in DOMAIN rows : EvaluateExpr(predicate, columns, rows[i], columns, rows[i]) \in Value,
         NEW kept \in SUBSET (DOMAIN rows),
         \A i \in DOMAIN rows :
            i \in kept <=> EvaluateExpr(predicate, columns, rows[i], columns, rows[i]) = Boolean(TRUE)
  PROVE  FilterRows(columns, rows, predicate) = ResultSet(columns, AtPlaces(rows, kept))
<1>. DEFINE Test(i) == EvaluateExpr(predicate, columns, rows[i], columns, rows[i])
            ys == [i \in DOMAIN rows |-> Test(i)]
            each == Each(rows, LAMBDA row : EvaluateExpr(predicate, columns, row, columns, row))
<1>1. \A i \in DOMAIN rows : Test(i) \in Value
  OBVIOUS
<1>2. each = IF {i \in DOMAIN ys : ys[i] = Err \/ ys[i] = Panic} = {} THEN ys
             ELSE ys[Min({i \in DOMAIN ys : ys[i] = Err \/ ys[i] = Panic})]
  BY DEF Each
<1>3. FilterRows(columns, rows, predicate) =
        IF each = Err \/ each = Panic THEN each
        ELSE ResultSet(columns, AtPlaces(rows, {i \in DOMAIN rows : each[i] = Boolean(TRUE)}))
  BY DEF FilterRows, Then
<1>. HIDE DEF Test, each
<1>4. \A i \in DOMAIN ys : ys[i] \in Value
  BY <1>1
<1>5. ys \in Seq(Value)
  <2>1. DOMAIN rows = 1..Len(rows) /\ Len(rows) \in Nat
    BY LenProperties
  <2>. QED BY <1>1, <2>1, IsASeq
<1>6. \A i \in DOMAIN rows : ys[i] = Test(i)
  OBVIOUS
<1>. HIDE DEF ys
<1>7. each = ys
  BY <1>2, <1>4, NoneFails
<1>8. each # Err /\ each # Panic
  BY <1>5, <1>7, OptionAssumption
<1>9. {i \in DOMAIN rows : each[i] = Boolean(TRUE)} = kept
  <2>1. \A i \in DOMAIN rows : i \in kept <=> Test(i) = Boolean(TRUE)
    BY DEF Test
  <2>. QED BY <1>6, <1>7, <2>1
<1>. QED BY <1>3, <1>8, <1>9, Zenon

(* The names of a table's columns and the rows it has.                     *)
LEMMA TableOf ==
  ASSUME NEW table, ProperTable(table), NEW c \in DOMAIN table.columns
  PROVE  /\ table.columns[c] \in Column
         /\ table.rows \in Seq([DOMAIN table.columns -> Value])
         /\ Position(ColumnNames(table), table.columns[c].name) = c /\ c # 0
         /\ {i \in DOMAIN table.columns : table.columns[i].name = table.columns[c].name} = {c}
         /\ \A i \in DOMAIN table.rows :
              table.rows[i][c] \in Value /\ Fits(table.rows[i][c], table.columns[c].datatype)
<1>. DEFINE names == ColumnNames(table)
            n == Len(table.columns)
<1>1. n \in Nat /\ DOMAIN table.columns = 1..n /\ table.columns[c] \in Column
  BY LenProperties, ElementOfSeq DEF ProperTable
<1>2. DOMAIN names = 1..n /\ \A i \in 1..n : names[i] = table.columns[i].name
  BY <1>1 DEF ColumnNames
<1>3. \A i \in 1..n : table.columns[i].name = table.columns[c].name => i = c
  BY <1>1 DEF ProperTable
<1>. HIDE DEF names, n
<1>4. Position(names, names[c]) = c
  BY <1>1, <1>2, <1>3, PositionOf
<1>5. \A i \in DOMAIN table.rows : table.rows[i] \in [DOMAIN table.columns -> Value]
  BY ElementOfSeq, LenProperties DEF ProperTable
<1>6. \A i \in DOMAIN table.rows :
        table.rows[i][c] \in Value /\ Fits(table.rows[i][c], table.columns[c].datatype)
  BY <1>5 DEF ProperTable
<1>7. {i \in DOMAIN table.columns : table.columns[i].name = table.columns[c].name} = {c}
  BY <1>1, <1>3
<1>8. Position(names, table.columns[c].name) = c /\ c # 0
  BY <1>1, <1>2, <1>4
<1>9. table.rows \in Seq([DOMAIN table.columns -> Value])
  BY DEF ProperTable
<1>. QED BY <1>1, <1>6, <1>7, <1>8, <1>9 DEF names

\* The constant has the type of the column; or both are numbers, which a scan
\* compares by their size but an index does not, and a lookup by primary key
\* only where the key is an Integer.
Suits(op, x, column) ==
    /\ x # Null /\ (x.t = column.datatype \/ {x.t, column.datatype} \subseteq Numeric)
    /\ op = "=" /\ column.primary_key => column.datatype # "Float"
    /\ op = "=" /\ ~column.primary_key /\ column.index => x.t = column.datatype

Comparison(op, name, x) == Operation(op, Field(name), Const(x))

(* A comparison of a column with a constant, evaluated on a row.           *)
LEMMA EvaluatesTo ==
  ASSUME NEW table, ProperTable(table), NEW c \in DOMAIN table.columns,
         NEW op \in {"=", "<", ">"}, NEW x \in Value, Suits(op, x, table.columns[c]),
         NEW i \in DOMAIN table.rows
  PROVE  LET cols == ColumnNames(table)
             r == EvaluateExpr(Comparison(op, table.columns[c].name, x), cols, table.rows[i],
                               cols, table.rows[i])
         IN  r \in Value /\ (r = Boolean(TRUE) <=> Holds(op, table.rows[i][c], x))
<1>. DEFINE cols == ColumnNames(table)
            row == table.rows[i]
            e == Comparison(op, table.columns[c].name, x)
<1>1. /\ Position(cols, table.columns[c].name) = c /\ c # 0
      /\ row[c] \in Value /\ Fits(row[c], table.columns[c].datatype)
  BY TableOf
<1>. HIDE DEF cols, row
<1>2. EvaluateOperand(e.l, cols, row) = row[c] /\ EvaluateOperand(e.r, cols, row) = x
      /\ e.expr = "Operation" /\ e.op = op
  BY <1>1 DEF Comparison, Operation, Field, Const, EvaluateOperand
<1>. HIDE DEF e
<1>3. row[c] # Err /\ row[c] # Panic /\ x # Err /\ x # Panic
  BY <1>1, Values
<1>4. EvaluateExpr(e, cols, row, cols, row) = Compare(op, row[c], x)
  BY <1>2, <1>3 DEF EvaluateExpr, Then
<1>5. row[c] = Null \/ x = Null \/ Comparable(row[c], x)
  BY <1>1 DEF Suits, Fits, Comparable
<1>6. /\ Compare(op, row[c], x) \in Value
      /\ Compare(op, row[c], x) = Boolean(TRUE) <=> Holds(op, row[c], x)
  BY <1>1, <1>5, Compared
<1>. QED BY <1>4, <1>6 DEF cols, row, e

(* A comparison is an expression, and a filter if it is an equality.       *)
LEMMA ComparisonType ==
  ASSUME NEW op \in {"=", "<", ">"}, NEW name \in STRING, NEW x \in Value
  PROVE  /\ Comparison(op, name, x) \in Expression /\ Comparison(op, name, x) # None
         /\ Comparison(op, name, x).op = op
         /\ ParseScanFilter(Comparison(op, name, x)) = IF op = "=" THEN << name, x >> ELSE None
         /\ LET f == << name, x >> IN f # Err /\ f # Panic /\ f # None
<1>. DEFINE e == Comparison(op, name, x)
<1>1. Field(name) \in Operand
  BY DEF Field, Operand
<1>12. Const(x) \in Operand
  BY DEF Const, Operand
<1>2. e \in Expression
  BY <1>1, <1>12 DEF Comparison, Operation, Expression
<1>3. e # None
  BY <1>2, OptionAssumption
<1>4. /\ e.op = op /\ e.l = Field(name) /\ e.r = Const(x)
  BY DEF Comparison, Operation
<1>5. FilterSide(Field(name)) = << name, Null >> /\ FilterSide(Const(x)) = << "", x >>
  BY DEF FilterSide, Field, Const
<1>6. \A y \in STRING \cup {""}, z \in Value :
         << y, z >> # Err /\ << y, z >> # Panic /\ << y, z >> # None
  <2>. SUFFICES ASSUME NEW y \in STRING \cup {""}, NEW z \in Value
                PROVE  << y, z >> # Err /\ << y, z >> # Panic /\ << y, z >> # None
    OBVIOUS
  <2>1. << y, z >> \in (STRING \cup {""}) \X Value
    OBVIOUS
  <2>. QED BY <2>1, OptionAssumption
<1>. HIDE DEF e
<1>7. ParseScanFilter(e) = IF op = "=" THEN << name, x >> ELSE None
  <2>. DEFINE l == << name, Null >>
              r == << "", x >>
  <2>1. ParseScanFilter(e) = IF e = None \/ e.op # "=" THEN None
                             ELSE IF l = None \/ r = None THEN Panic ELSE << l[1], r[2] >>
    BY <1>4, <1>5, Zenon DEF ParseScanFilter
  <2>2. l # None /\ r # None
    BY <1>6, Booleans
  <2>3. l[1] = name /\ r[2] = x
    OBVIOUS
  <2>. HIDE DEF l, r
  <2>. QED BY <1>3, <1>4, <2>1, <2>2, <2>3
<1>. QED BY <1>2, <1>3, <1>4, <1>6, <1>7 DEF e

\* The rows of which the comparison of column c with x is true.
Matching(table, op, c, x) ==
    AtPlaces(table.rows, {i \in DOMAIN table.rows : Holds(op, table.rows[i][c], x)})

(* A filter keeps the rows the comparison is true of.                      *)
LEMMA Filtering ==
  ASSUME NEW table, ProperTable(table), NEW c \in DOMAIN table.columns,
         NEW op \in {"=", "<", ">"}, NEW x \in Value, Suits(op, x, table.columns[c])
  PROVE  FilterRows(ColumnNames(table), table.rows, Comparison(op, table.columns[c].name, x)) =
         ResultSet(ColumnNames(table), Matching(table, op, c, x))
<1>. DEFINE cols == ColumnNames(table)
            e == Comparison(op, table.columns[c].name, x)
            Eval(i) == EvaluateExpr(e, cols, table.rows[i], cols, table.rows[i])
<1>1. \A i \in DOMAIN table.rows :
         Eval(i) \in Value /\ (Eval(i) = Boolean(TRUE) <=> Holds(op, table.rows[i][c], x))
  BY EvaluatesTo
<1>2. table.rows \in Seq([DOMAIN table.columns -> Value])
  BY TableOf
<1>. DEFINE kept == {i \in DOMAIN table.rows : Holds(op, table.rows[i][c], x)}
<1>3. \A i \in DOMAIN table.rows : i \in kept <=> Eval(i) = Boolean(TRUE)
  BY <1>1
<1>. HIDE DEF cols, e
<1>4. kept \in SUBSET (DOMAIN table.rows)
  OBVIOUS
<1>. HIDE DEF kept
<1>5. FilterRows(cols, table.rows, e) = ResultSet(cols, AtPlaces(table.rows, kept))
  BY <1>1, <1>2, <1>3, <1>4, FilterOf
<1>. QED BY <1>5 DEF Matching, kept, cols, e

(* A value looked up by its bytes is found exactly where it is equal.      *)
LEMMA LooksUp ==
  ASSUME NEW table, ProperTable(table), NEW c \in DOMAIN table.columns, NEW x \in Value, NEW y \in Value,
         x # Null, y # Null,
         \A i \in DOMAIN table.rows : table.rows[i][c] = y <=> Holds("=", table.rows[i][c], x)
  PROVE  RowsAt(table, c, y) =
         ResultSet(ColumnNames(table), Matching(table, "=", c, x))
<1>1. {i \in DOMAIN table.rows : table.rows[i][c] = y} =
      {i \in DOMAIN table.rows : Holds("=", table.rows[i][c], x)}
  OBVIOUS
<1>2. RowsAt(table, c, y) = ResultSet(ColumnNames(table),
          AtPlaces(table.rows, {i \in DOMAIN table.rows : table.rows[i][c] = y}))
  BY DEF RowsAt, Filtered
<1>. QED BY <1>1, <1>2 DEF Matching

(* Equality of values, NULL apart.                                         *)
LEMMA EqualHolds ==
  ASSUME NEW a \in Value, NEW x \in Value, x # Null
  PROVE  Holds("=", a, x) <=> a # Null /\ a.v = x.v
BY Values DEF Holds, HoldsFor, Sign

(* Whatever the planner chooses - a scan, the index or the primary key - a *)
(* comparison of a column with a constant finds the rows it is true of, no *)
(* more and no fewer, in the order of the keys.                            *)
THEOREM ScanFindsMatches ==
  ASSUME NEW t \in DOMAIN tables, ProperTable(tables[t]), NEW c \in DOMAIN tables[t].columns,
         NEW op \in {"=", "<", ">"}, NEW x \in Value, Suits(op, x, tables[t].columns[c])
  PROVE  ExecuteScan(BuildScan(t, Comparison(op, tables[t].columns[c].name, x))) =
           ResultSet(ColumnNames(tables[t]), Matching(tables[t], op, c, x))
<1>. DEFINE table == tables[t]
            col == table.columns[c]
            e == Comparison(op, col.name, x)
            found == ResultSet(ColumnNames(table), Matching(table, op, c, x))
            n == BuildScan(t, e)
            scan == [node |-> "Scan", table |-> t, filter |-> e]
<1>1. /\ col \in Column
      /\ Position(ColumnNames(table), col.name) = c
      /\ {i \in DOMAIN table.columns : table.columns[i].name = col.name} = {c}
      /\ \A i \in DOMAIN table.rows :
           table.rows[i][c] \in Value /\ Fits(table.rows[i][c], col.datatype)
  BY TableOf
<1>2. /\ e # None /\ ParseScanFilter(e) = IF op = "=" THEN << col.name, x >> ELSE None
      /\ LET f == << col.name, x >> IN f # Err /\ f # Panic /\ f # None
  BY <1>1, ComparisonType DEF Column
<1>3. FilterRows(ColumnNames(table), table.rows, e) = found
  BY Filtering
<1>4. x # Null
  BY DEF Suits
<1>. HIDE DEF e, found
<1>5. op # "=" => n = scan
  BY <1>2, OptionAssumption DEF BuildScan, Then
<1>6. op = "=" => n = IF col.primary_key THEN [node |-> "PrimaryKeyScan", table |-> t, value |-> x]
                      ELSE IF col.index THEN [node |-> "IndexScan", table |-> t, field |-> col.name, value |-> x]
                      ELSE scan
  <2>. DEFINE f == << col.name, x >>
              named == {i \in DOMAIN table.columns : table.columns[i].name = f[1]}
  <2>1. SUFFICES ASSUME op = "=" PROVE n = IF col.primary_key THEN [node |-> "PrimaryKeyScan", table |-> t, value |-> x]
                      ELSE IF col.index THEN [node |-> "IndexScan", table |-> t, field |-> col.name, value |-> x]
                      ELSE scan
    OBVIOUS
  <2>2. named = {c} /\ f[2] = x /\ f[1] = col.name
    BY <1>1
  <2>3. n = CASE \E i \in named : table.columns[i].primary_key ->
                        [node |-> "PrimaryKeyScan", table |-> t, value |-> f[2]]
                   [] /\ \A i \in named : ~table.columns[i].primary_key
                      /\ \E i \in named : table.columns[i].index ->
                        [node |-> "IndexScan", table |-> t, field |-> f[1], value |-> f[2]]
                   [] OTHER -> scan
    BY <1>2, <2>1 DEF BuildScan, Then, MustGetTable
  <2>4. (\E i \in named : table.columns[i].primary_key) <=> col.primary_key
    BY <2>2
  <2>5. (\A i \in named : ~table.columns[i].primary_key) <=> ~col.primary_key
    BY <2>2
  <2>6. (\E i \in named : table.columns[i].index) <=> col.index
    BY <2>2
  <2>7. col.primary_key \in BOOLEAN /\ col.index \in BOOLEAN
    BY <1>1 DEF Column
  <2>. HIDE DEF named, f, col
  <2>. QED BY <2>2, <2>3, <2>4, <2>5, <2>6, <2>7
<1>7. CASE n = scan
  <2>1. ExecuteScan(n) = Scan(t, e)
    BY <1>7 DEF ExecuteScan
  <2>2. Scan(t, e) = FilterRows(ColumnNames(table), table.rows, e)
    BY <1>2 DEF Scan, MustGetTable
  <2>. QED BY <1>3, <2>1, <2>2 DEF found, e
<1>8. CASE op = "=" /\ col.primary_key
  <2>1. n = [node |-> "PrimaryKeyScan", table |-> t, value |-> x]
    BY <1>6, <1>8
  <2>. DEFINE y == IF x.t = "Float" /\ x.v % Unit = 0 THEN [t |-> "Integer", v |-> x.v] ELSE x
  <2>2. ExecuteScan(n) = PrimaryKeyScan(t, x)
    BY <2>1 DEF ExecuteScan
  <2>3. (CHOOSE i \in DOMAIN table.columns : table.columns[i].primary_key) = c
    BY <1>8 DEF ProperTable
  <2>4. PrimaryKeyScan(t, x) = RowsAt(table, c, y)
    BY <2>3 DEF PrimaryKeyScan, MustGetTable
  <2>5. y \in Value /\ y # Null
    BY <1>4 DEF Value, Null, DataType, Numeric
  <2>6. ASSUME NEW i \in DOMAIN table.rows
        PROVE  table.rows[i][c] = y <=> Holds("=", table.rows[i][c], x)
    <3>. DEFINE a == table.rows[i][c]
    <3>1. a \in Value /\ Fits(a, col.datatype)
      BY <1>1
    <3>. HIDE DEF a, y
    <3>2. Holds("=", a, x) <=> a # Null /\ a.v = x.v
      BY <1>4, <3>1, EqualHolds
    <3>3. a = y <=> a.t = y.t /\ a.v = y.v
      BY <2>5, <3>1, Values
    <3>4. y.v = x.v
      BY DEF y
    <3>5. a # Null /\ a.v = x.v => a.t = y.t
      BY <1>4, <1>8, <3>1 DEF Suits, Fits, Numeric, y
    <3>6. a = y => a # Null
      BY <2>5
    <3>. QED BY <3>2, <3>3, <3>4, <3>5, <3>6 DEF a
  <2>. HIDE DEF y
  <2>7. RowsAt(table, c, y) = found
    BY <1>4, <1>8, <2>5, <2>6, LooksUp DEF found
  <2>. QED BY <2>2, <2>4, <2>7 DEF found, e
<1>9. CASE op = "=" /\ ~col.primary_key /\ col.index
  <2>1. n = [node |-> "IndexScan", table |-> t, field |-> col.name, value |-> x]
    BY <1>6, <1>9
  <2>2. ExecuteScan(n) = IndexScan(t, col.name, x)
    BY <2>1 DEF ExecuteScan
  <2>3. IndexScan(t, col.name, x) = RowsAt(table, c, x)
    BY <1>1 DEF IndexScan, MustGetTable
  <2>4. ASSUME NEW i \in DOMAIN table.rows
        PROVE  table.rows[i][c] = x <=> Holds("=", table.rows[i][c], x)
    <3>. DEFINE a == table.rows[i][c]
    <3>1. a \in Value /\ Fits(a, col.datatype)
      BY <1>1
    <3>. HIDE DEF a
    <3>2. Holds("=", a, x) <=> a # Null /\ a.v = x.v
      BY <1>4, <3>1, EqualHolds
    <3>3. a = x <=> a.t = x.t /\ a.v = x.v
      BY <3>1, Values
    <3>4. a # Null => a.t = x.t
      BY <1>9, <3>1 DEF Suits, Fits
    <3>. QED BY <1>4, <3>2, <3>3, <3>4 DEF a
  <2>5. RowsAt(table, c, x) = found
    BY <1>4, <1>9, <2>4, LooksUp DEF found
  <2>. QED BY <2>2, <2>3, <2>5 DEF found, e
<1>. QED BY <1>5, <1>6, <1>7, <1>8, <1>9 DEF e, found

-----------------------------------------------------------------------------
(* Joins                                                                   *)

\* The result of a node: the names of the columns and rows of that length.
ProperResult(rs) ==
    /\ rs = ResultSet(rs.columns, rs.rows)
    /\ rs.columns \in Seq(STRING)
    /\ rs.rows \in Seq([DOMAIN rs.columns -> Value])

(* A set of numbers that is not empty has a first one.                     *)
LEMMA FirstExists ==
  ASSUME NEW n \in Nat, NEW K \in SUBSET (1..n), K # {}
  PROVE  \E m \in K : \A i \in K : m <= i
<1>1. K \in SUBSET Nat /\ IsFiniteSet(K)
  <2>1. IsFiniteSet(1..n) /\ K \in SUBSET Nat
    BY FS_Interval
  <2>. QED BY <2>1, FS_Subset
<1>. DEFINE q == Nth(K)
            c == Cardinality(K)
<1>2. /\ c \in Nat /\ q \in [1..c -> K]
      /\ \A i \in K : \E k \in 1..c : q[k] = i
      /\ \A k, l \in 1..c : k < l => q[k] < q[l]
  BY <1>1, NthOf
<1>. HIDE DEF q, c
<1>3. 1 \in 1..c
  <2>1. PICK i \in K : TRUE
    OBVIOUS
  <2>2. PICK k \in 1..c : q[k] = i
    BY <1>2, <2>1
  <2>. QED BY <1>2, <2>2
<1>4. ASSUME NEW i \in K PROVE q[1] <= i
  <2>1. PICK k \in 1..c : q[k] = i
    BY <1>2
  <2>2. k = 1 \/ 1 < k
    BY <1>2
  <2>3. q[1] \in Nat /\ q[k] \in Nat
    BY <1>1, <1>2, <1>3
  <2>. QED BY <1>2, <1>3, <2>1, <2>2, <2>3
<1>. QED BY <1>2, <1>3, <1>4

(* The first place of an element, 0 if it is not there.                    *)
LEMMA PositionFirst ==
  ASSUME NEW n \in Nat, NEW s, DOMAIN s = 1..n, NEW x
  PROVE  /\ Position(s, x) \in 0..n
         /\ Position(s, x) # 0 => s[Position(s, x)] = x
         /\ Position(s, x) = 0 <=> \A i \in 1..n : s[i] # x
<1>. DEFINE K == {i \in 1..n : s[i] = x}
<1>1. CASE K = {}
  BY <1>1 DEF Position
<1>2. CASE K # {}
  <2>1. PICK m \in K : \A i \in K : m <= i
    BY <1>2, FirstExists
  <2>2. m \in DOMAIN s /\ s[m] = x
    OBVIOUS
  <2>3. \A j \in 1..(m - 1) : s[j] # x
    BY <2>1
  <2>4. Position(s, x) = CHOOSE i \in DOMAIN s : s[i] = x /\ \A j \in 1..(i - 1) : s[j] # x
    BY <2>2 DEF Position
  <2>5. Position(s, x) \in DOMAIN s /\ s[Position(s, x)] = x
    BY <2>2, <2>3, <2>4
  <2>. QED BY <2>2, <2>5
<1>. QED BY <1>1, <1>2

(* The values of a column of a result.                                     *)
LEMMA ResultOf ==
  ASSUME NEW rs, ProperResult(rs), NEW name, Position(rs.columns, name) # 0
  PROVE  /\ name \in STRING
         /\ Position(rs.columns, name) \in DOMAIN rs.columns
         /\ \A i \in DOMAIN rs.rows : rs.rows[i][Position(rs.columns, name)] \in Value
<1>. DEFINE c == Position(rs.columns, name)
            n == Len(rs.columns)
<1>1. n \in Nat /\ DOMAIN rs.columns = 1..n
  BY LenProperties DEF ProperResult
<1>2. c \in 1..n /\ rs.columns[c] = name
  BY <1>1, PositionFirst
<1>. HIDE DEF c, n
<1>3. rs.columns[c] \in STRING
  BY <1>1, <1>2, ElementOfSeq DEF ProperResult, n
<1>4. \A i \in DOMAIN rs.rows : rs.rows[i] \in [DOMAIN rs.columns -> Value]
  BY ElementOfSeq, LenProperties DEF ProperResult
<1>. QED BY <1>1, <1>2, <1>3, <1>4 DEF c

\* The columns joined on hold values of one type, and NULL is not on both sides.
Joinable(L, l, R, r) ==
    /\ \E type \in DataType :
          /\ \A i \in DOMAIN L.rows : L.rows[i][l] = Null \/ L.rows[i][l].t = type
          /\ \A j \in DOMAIN R.rows : R.rows[j][r] = Null \/ R.rows[j][r].t = type
    /\ \A i \in DOMAIN L.rows, j \in DOMAIN R.rows : L.rows[i][l] # Null \/ R.rows[j][r] # Null

(* The planner makes a hash join of every join with a condition: it is the *)
(* nested loop on the same condition, row for row.                         *)
THEOREM HashJoinIsNestedLoop ==
  ASSUME NEW L, ProperResult(L), NEW R, ProperResult(R), NEW outer, NEW a, NEW b,
         Position(L.columns, a) # 0, Position(R.columns, b) # 0,
         Joinable(L, Position(L.columns, a), R, Position(R.columns, b))
  PROVE  HashJoin(L, R, Operation("=", Field(a), Field(b)), outer) =
         NestedLoopJoin(L, R, Operation("=", Field(a), Field(b)), outer)
<1>. DEFINE l == Position(L.columns, a)
            r == Position(R.columns, b)
            e == Operation("=", Field(a), Field(b))
            Test(p) == EvaluateExpr(e, L.columns, L.rows[p[1]], R.columns, R.rows[p[2]])
            Same == {p \in RowPairs(L, R) : L.rows[p[1]][l] = R.rows[p[2]][r]}
<1>1. /\ a \in STRING /\ l # 0 /\ \A i \in DOMAIN L.rows : L.rows[i][l] \in Value
      /\ b \in STRING /\ r # 0 /\ \A j \in DOMAIN R.rows : R.rows[j][r] \in Value
  BY ResultOf
<1>2. Joinable(L, l, R, r)
  OBVIOUS
<1>3. ASSUME NEW p \in RowPairs(L, R)
      PROVE  /\ Test(p) \in Value
             /\ Test(p) = Boolean(TRUE) <=> L.rows[p[1]][l] = R.rows[p[2]][r]
  <2>. DEFINE x == L.rows[p[1]][l]
              y == R.rows[p[2]][r]
  <2>1. x \in Value /\ y \in Value
    BY <1>1 DEF RowPairs
  <2>2. (x # Null \/ y # Null) /\ (x = Null \/ y = Null \/ x.t = y.t)
    BY <1>2 DEF Joinable, RowPairs
  <2>. HIDE DEF l, r
  <2>3. EvaluateOperand(e.l, L.columns, L.rows[p[1]]) = x /\ EvaluateOperand(e.r, R.columns, R.rows[p[2]]) = y
    BY <1>1 DEF Operation, Field, EvaluateOperand, l, r
  <2>4. e.expr = "Operation" /\ e.op = "="
    BY DEF Operation
  <2>. HIDE DEF x, y, e
  <2>5. x # Err /\ x # Panic /\ y # Err /\ y # Panic
    BY <2>1, Values
  <2>6. Test(p) = Compare("=", x, y)
    BY <2>3, <2>4, <2>5 DEF EvaluateExpr, Then
  <2>7. Test(p) \in Value /\ (Test(p) = Boolean(TRUE) <=> Holds("=", x, y))
    BY <2>1, <2>2, <2>6, Compared DEF Comparable
  <2>8. Holds("=", x, y) <=> x = y
    <3>1. CASE y = Null
      BY <2>2, <3>1 DEF Holds
    <3>2. CASE y # Null
      BY <2>1, <2>2, <3>2, EqualHolds, Values
    <3>. QED BY <3>1, <3>2
  <2>. QED BY <2>7, <2>8 DEF x, y
<1>. HIDE DEF l, r
<1>4. e # None
  <2>1. Field(a) \in Operand /\ Field(b) \in Operand
    BY <1>1 DEF Field, Operand
  <2>2. e \in Expression
    BY <2>1 DEF Operation, Expression
  <2>. QED BY <2>2, OptionAssumption
<1>5. ParseJoin(e) = << a, b >>
  BY DEF ParseJoin, Operation, Field
<1>6. << a, b >> # Err /\ << a, b >> # Panic
  <2>1. << a, b >> \in (STRING \cup {""}) \X (Value \cup STRING)
    BY <1>1
  <2>. QED BY <2>1, OptionAssumption
<1>7. HashJoin(L, R, e, outer) = JoinRows(L, R, outer, Same)
  <2>. DEFINE f == ParseJoin(e)
              Joined(x, y) == {p \in RowPairs(L, R) : L.rows[p[1]][x] = R.rows[p[2]][y]}
  <2>1. HashJoin(L, R, e, outer) =
          IF f = Err \/ f = Panic THEN f
          ELSE IF Position(L.columns, f[1]) = 0 \/ Position(R.columns, f[2]) = 0 THEN Err
          ELSE JoinRows(L, R, outer, Joined(Position(L.columns, f[1]), Position(R.columns, f[2])))
    BY Zenon DEF HashJoin, Then
  <2>2. Same = Joined(l, r)
    OBVIOUS
  <2>3. f[1] = a /\ f[2] = b
    BY <1>5
  <2>. HIDE DEF f, Joined, e, Same
  <2>. QED BY <1>1, <1>5, <1>6, <2>1, <2>2, <2>3 DEF f, l, r
<1>. HIDE DEF e, Test
<1>8. \A p \in RowPairs(L, R) : Test(p) # Err
  BY <1>3, Values
<1>9. {p \in RowPairs(L, R) : Test(p) = Boolean(TRUE)} = Same
  BY <1>3
<1>. HIDE DEF Same
<1>10. NestedLoopJoin(L, R, e, outer) = JoinRows(L, R, outer, Same)
  <2>1. NestedLoopJoin(L, R, e, outer) =
          IF \E p \in RowPairs(L, R) : Test(p) = Err THEN Err
          ELSE JoinRows(L, R, outer, {p \in RowPairs(L, R) : Test(p) = Boolean(TRUE)})
    BY <1>4 DEF NestedLoopJoin, Test
  <2>. QED BY <1>8, <1>9, <2>1
<1>. QED BY <1>7, <1>10 DEF e

PairOrder == {pq \in (Nat \X Nat) \X (Nat \X Nat) : PairBefore(pq[1], pq[2])}

(* Pairs are ordered by their first number, then by their second.          *)
LEMMA PairsOrdered ==
  ASSUME NEW S \in SUBSET (Nat \X Nat)
  PROVE  /\ \A p, q \in S : << p, q >> \in PairOrder <=> PairBefore(p, q)
         /\ Induct!Orders(S, PairOrder)
<1>1. \A p, q \in S : << p, q >> \in PairOrder <=> PairBefore(p, q)
  BY DEF PairOrder
<1>2. ASSUME NEW p \in S, NEW q \in S PROVE p # q <=> PairBefore(p, q) \/ PairBefore(q, p)
  <2>1. p = << p[1], p[2] >> /\ q = << q[1], q[2] >> /\ p[1] \in Nat /\ p[2] \in Nat /\ q[1] \in Nat /\ q[2] \in Nat
    OBVIOUS
  <2>2. p = q <=> p[1] = q[1] /\ p[2] = q[2]
    BY <2>1
  <2>. QED BY <2>1, <2>2 DEF PairBefore
<1>3. ASSUME NEW p \in S, NEW q \in S, NEW o \in S, PairBefore(p, q), PairBefore(q, o)
      PROVE  PairBefore(p, o)
  BY <1>3 DEF PairBefore
<1>. QED BY <1>1, <1>2, <1>3, Zenon DEF Induct!Orders

(* Pairs of numbers, each once, by the first and then by the second.       *)
LEMMA PairsListed ==
  ASSUME NEW S \in SUBSET (Nat \X Nat), IsFiniteSet(S)
  PROVE  /\ Cardinality(S) \in Nat
         /\ InOrder(S, PairBefore) \in [1..Cardinality(S) -> S]
         /\ \A p \in S : \E k \in 1..Cardinality(S) : InOrder(S, PairBefore)[k] = p
         /\ \A k, l \in 1..Cardinality(S) :
              k < l => PairBefore(InOrder(S, PairBefore)[k], InOrder(S, PairBefore)[l])
<1>. DEFINE q == InOrder(S, PairBefore)
            rank == [x \in S |-> Cardinality({y \in S : PairBefore(y, x)})]
<1>1. /\ \A x, y \in S : << x, y >> \in PairOrder <=> PairBefore(x, y)
      /\ Induct!Orders(S, PairOrder)
  BY PairsOrdered
<1>2. q = RankedBy(S, rank)
  BY DEF InOrder, RankedBy
<1>3. \A x \in S : rank[x] = RankIn(S, PairOrder, x)
  <2>. SUFFICES ASSUME NEW x \in S PROVE rank[x] = RankIn(S, PairOrder, x)
    OBVIOUS
  <2>1. {y \in S : PairBefore(y, x)} = {y \in S : << y, x >> \in PairOrder}
    BY <1>1
  <2>. QED BY <2>1, Zenon DEF RankIn
<1>. HIDE DEF q, rank
<1>4. /\ Cardinality(S) \in Nat
      /\ q \in [1..Cardinality(S) -> S]
      /\ \A p \in S : \E k \in 1..Cardinality(S) : q[k] = p
      /\ \A k, l \in 1..Cardinality(S) : k < l => << q[k], q[l] >> \in PairOrder
  BY <1>1, <1>2, <1>3, ListedByRank
<1>5. ASSUME NEW k \in 1..Cardinality(S), NEW l \in 1..Cardinality(S), k < l
      PROVE  PairBefore(q[k], q[l])
  <2>1. q[k] \in S /\ q[l] \in S
    BY <1>4
  <2>. QED BY <1>1, <1>4, <1>5, <2>1
<1>. QED BY <1>4, <1>5 DEF q

(* The pairs of a join: those that match, and the left rows left alone.    *)
LEMMA JoinPairsOf ==
  ASSUME NEW L, ProperResult(L), NEW R, ProperResult(R), NEW outer \in BOOLEAN,
         NEW matched \in SUBSET RowPairs(L, R)
  PROVE  /\ JoinPairs(L, R, outer, matched) \in SUBSET (Nat \X Nat)
         /\ IsFiniteSet(JoinPairs(L, R, outer, matched))
         /\ \A p \in JoinPairs(L, R, outer, matched) :
              p[1] \in DOMAIN L.rows /\ p[2] \in 0..Len(R.rows) /\ p = << p[1], p[2] >>
         /\ \A i \in DOMAIN L.rows, j \in DOMAIN R.rows :
              << i, j >> \in JoinPairs(L, R, outer, matched) <=> << i, j >> \in matched
         /\ \A i \in DOMAIN L.rows :
              << i, 0 >> \in JoinPairs(L, R, outer, matched) <=>
                outer /\ \A j \in DOMAIN R.rows : << i, j >> \notin matched
<1>. DEFINE P == JoinPairs(L, R, outer, matched)
            n == Len(L.rows)
            m == Len(R.rows)
            alone == {i \in DOMAIN L.rows : \A j \in DOMAIN R.rows : << i, j >> \notin matched}
<1>1. n \in Nat /\ DOMAIN L.rows = 1..n /\ m \in Nat /\ DOMAIN R.rows = 1..m
  BY LenProperties DEF ProperResult
<1>. HIDE DEF n, m
<1>2. matched \in SUBSET ((1..n) \X (1..m)) /\ 0 \notin 1..m /\ alone \in SUBSET (1..n)
  BY <1>1 DEF RowPairs
<1>3. P = IF outer THEN matched \cup {<< i, 0 >> : i \in alone} ELSE matched
  BY DEF JoinPairs
<1>4. \A i \in 1..n : i \in alone <=> \A j \in DOMAIN R.rows : << i, j >> \notin matched
  BY <1>1
<1>. HIDE DEF alone
<1>5. \A i \in 1..n, j \in 1..m : << i, j >> \in P <=> << i, j >> \in matched
  <2>. SUFFICES ASSUME NEW i \in 1..n, NEW j \in 1..m
                PROVE  << i, j >> \in P <=> << i, j >> \in matched
    OBVIOUS
  <2>1. \A k \in alone : << i, j >> # << k, 0 >>
    BY <1>2
  <2>. HIDE DEF P
  <2>. QED BY <1>3, <2>1
<1>6. \A i \in 1..n : << i, 0 >> \in P <=> outer /\ i \in alone
  <2>. SUFFICES ASSUME NEW i \in 1..n
                PROVE  << i, 0 >> \in P <=> outer /\ i \in alone
    OBVIOUS
  <2>1. << i, 0 >> \notin matched
    BY <1>2
  <2>2. \A k \in alone : << i, 0 >> = << k, 0 >> <=> i = k
    OBVIOUS
  <2>. HIDE DEF P
  <2>. QED BY <1>3, <2>1, <2>2
<1>7. P \in SUBSET ((1..n) \X (0..m))
  <2>1. matched \in SUBSET ((1..n) \X (0..m))
    BY <1>1, <1>2
  <2>2. {<< i, 0 >> : i \in alone} \in SUBSET ((1..n) \X (0..m))
    BY <1>1, <1>2
  <2>. HIDE DEF P
  <2>. QED BY <1>3, <2>1, <2>2
<1>. HIDE DEF P
<1>8. IsFiniteSet(P)
  <2>1. IsFiniteSet(1..n) /\ IsFiniteSet(0..m)
    BY <1>1, FS_Interval
  <2>2. IsFiniteSet((1..n) \X (0..m))
    BY <2>1, FS_Product
  <2>. QED BY <1>7, <2>2, FS_Subset
<1>9. P \in SUBSET (Nat \X Nat)
  BY <1>1, <1>7
<1>10. \A p \in P : p[1] \in 1..n /\ p[2] \in 0..m /\ p = << p[1], p[2] >>
  BY <1>7
<1>. QED BY <1>1, <1>4, <1>5, <1>6, <1>8, <1>9, <1>10 DEF P, m

\* The row of the result that a pair of places stands for.
JoinedRow(L, R, p) == L.rows[p[1]] \o (IF p[2] = 0 THEN Nulls(R.columns) ELSE R.rows[p[2]])

(* A join has one row for every two rows that match, and if it is an outer *)
(* one, for every left row that matches none - and no others, the left     *)
(* rows in their order, each with its right rows in theirs.                *)
THEOREM JoinListsPairs ==
  ASSUME NEW L, ProperResult(L), NEW R, ProperResult(R), NEW outer \in BOOLEAN,
         NEW matched \in SUBSET RowPairs(L, R)
  PROVE  LET pairs == JoinPairs(L, R, outer, matched)
             rows  == JoinRows(L, R, outer, matched).rows
         IN  \E nth \in [1..Cardinality(pairs) -> pairs] :
               /\ rows = [k \in 1..Cardinality(pairs) |-> JoinedRow(L, R, nth[k])]
               /\ \A p \in pairs : \E k \in 1..Cardinality(pairs) : nth[k] = p
               /\ \A k, l \in 1..Cardinality(pairs) : k < l => PairBefore(nth[k], nth[l])
<1>. DEFINE pairs == JoinPairs(L, R, outer, matched)
            nth == InOrder(pairs, PairBefore)
            n == Cardinality(pairs)
<1>1. pairs \in SUBSET (Nat \X Nat) /\ IsFiniteSet(pairs)
  BY JoinPairsOf
<1>. HIDE DEF pairs
<1>2. /\ nth \in [1..n -> pairs]
      /\ \A p \in pairs : \E k \in 1..n : nth[k] = p
      /\ \A k, l \in 1..n : k < l => PairBefore(nth[k], nth[l])
  BY <1>1, PairsListed
<1>3. JoinRows(L, R, outer, matched).rows = [k \in DOMAIN nth |-> JoinedRow(L, R, nth[k])]
  BY Zenon DEF JoinRows, ResultSet, JoinedRow, pairs
<1>. HIDE DEF nth, n
<1>4. JoinRows(L, R, outer, matched).rows = [k \in 1..n |-> JoinedRow(L, R, nth[k])]
  BY <1>2, <1>3
<1>. QED BY <1>2, <1>4 DEF pairs, n

-----------------------------------------------------------------------------
(* Order, offset and limit                                                 *)

(* The parts of a result.                                                  *)
LEMMA RowsOf == \A c, r : ResultSet(c, r).columns = c /\ ResultSet(c, r).rows = r
BY DEF ResultSet

(* A result with other rows.                                               *)
LEMMA RowsReplaced == \A c, r, s : [ResultSet(c, r) EXCEPT !.rows = s] = ResultSet(c, s)
BY DEF ResultSet

\* NULL comes before every value.
Less(x, y) == y # Null /\ (x = Null \/ x.v < y.v)

\* The value by which row i is ordered in the k-th place of ORDER BY.
At(rs, by, i, k) == rs.rows[i][Position(rs.columns, by[k][1])]

Ahead(by, k, x, y) == IF by[k][2] = "ASC" THEN Less(x, y) ELSE Less(y, x)

\* Row i comes before row j in the order that was asked for; rows that are alike
\* in it keep their order.
Precedes(rs, by, i, j) ==
    \/ /\ \A k \in DOMAIN by : At(rs, by, i, k) = At(rs, by, j, k)
       /\ i < j
    \/ \E k \in DOMAIN by :
          /\ \A l \in 1..(k - 1) : At(rs, by, i, l) = At(rs, by, j, l)
          /\ Ahead(by, k, At(rs, by, i, k), At(rs, by, j, k))

\* The columns of ORDER BY are there, and each holds values of one type.
Sortable(rs, by) ==
    /\ by \in Seq(STRING \X {"ASC", "DESC"})
    /\ \A k \in DOMAIN by :
          /\ Position(rs.columns, by[k][1]) # 0
          /\ \E type \in DataType : \A i \in DOMAIN rs.rows :
                At(rs, by, i, k) = Null \/ At(rs, by, i, k).t = type

OneType(A) == A \subseteq Value /\ \E type \in DataType : \A x \in A : x = Null \/ x.t = type

(* partial_cmp on values of one type.                                      *)
LEMMA CmpOf ==
  ASSUME NEW A, OneType(A), NEW x \in A, NEW y \in A
  PROVE  /\ PartialCmp(x, y) \in {-1, 0, 1} /\ None \notin {-1, 0, 1}
         /\ PartialCmp(x, y) = 0 <=> x = y
         /\ PartialCmp(x, y) = -1 <=> Less(x, y)
         /\ PartialCmp(x, y) = 1 <=> Less(y, x)
<1>1. x \in Value /\ y \in Value /\ (x = Null \/ y = Null \/ x.t = y.t)
  BY DEF OneType
<1>2. None \notin {-1, 0, 1}
  BY OptionAssumption
<1>3. x.v \in Int /\ y.v \in Int /\ (x = y <=> x.t = y.t /\ x.v = y.v)
  BY <1>1, Values
<1>4. CASE x = Null \/ y = Null
  BY <1>2, <1>4 DEF PartialCmp, Less
<1>5. CASE x # Null /\ y # Null
  <2>1. PartialCmp(x, y) = Sign(x.v - y.v)
    BY <1>1, <1>5 DEF PartialCmp, Comparable
  <2>. QED BY <1>1, <1>2, <1>3, <1>5, <2>1 DEF Sign, Less
<1>. QED BY <1>4, <1>5

(* Values of one type are in a strict order, in both directions.           *)
LEMMA AheadOrders ==
  ASSUME NEW A, OneType(A), NEW by, NEW k
  PROVE  /\ \A x, y \in A : x # y <=> Ahead(by, k, x, y) \/ Ahead(by, k, y, x)
         /\ \A x, y, z \in A : Ahead(by, k, x, y) /\ Ahead(by, k, y, z) => Ahead(by, k, x, z)
<1>1. \A x \in A : x \in Value /\ x.v \in Int
  BY Values DEF OneType
<1>2. \A x, y \in A : (x = Null \/ y = Null \/ x.t = y.t) /\ (x = y <=> x.t = y.t /\ x.v = y.v)
  BY <1>1, Values DEF OneType
<1>3. \A x, y \in A : x # y <=> Less(x, y) \/ Less(y, x)
  BY <1>1, <1>2 DEF Less
<1>4. \A x, y, z \in A : Less(x, y) /\ Less(y, z) => Less(x, z)
  BY <1>1 DEF Less
<1>. QED BY <1>3, <1>4 DEF Ahead

\* The values in the k-th place of ORDER BY.
ValuesAt(rs, by, k) == {At(rs, by, i, k) : i \in DOMAIN rs.rows}

(* What ORDER BY compares are values of one type in each place.            *)
LEMMA SortableOf ==
  ASSUME NEW rs, ProperResult(rs), NEW by, Sortable(rs, by)
  PROVE  /\ Len(by) \in Nat /\ DOMAIN by = 1..Len(by)
         /\ \A k \in DOMAIN by : /\ OneType(ValuesAt(rs, by, k))
                                 /\ by[k][2] \in {"ASC", "DESC"}
                                 /\ \A i \in DOMAIN rs.rows : At(rs, by, i, k) \in ValuesAt(rs, by, k)
<1>1. Len(by) \in Nat /\ DOMAIN by = 1..Len(by)
  BY LenProperties DEF Sortable
<1>. SUFFICES ASSUME NEW k \in DOMAIN by
              PROVE  /\ OneType(ValuesAt(rs, by, k)) /\ by[k][2] \in {"ASC", "DESC"}
                     /\ \A i \in DOMAIN rs.rows : At(rs, by, i, k) \in ValuesAt(rs, by, k)
  BY <1>1
<1>2. by[k] \in STRING \X {"ASC", "DESC"}
  BY <1>1, ElementOfSeq DEF Sortable
<1>3. \A i \in DOMAIN rs.rows : At(rs, by, i, k) \in Value
  BY ResultOf DEF Sortable, At
<1>4. PICK type \in DataType : \A i \in DOMAIN rs.rows :
          At(rs, by, i, k) = Null \/ At(rs, by, i, k).t = type
  BY DEF Sortable
<1>. QED BY <1>2, <1>3, <1>4 DEF OneType, ValuesAt

(* The comparison of two rows in the code, and the order asked for.        *)
LEMMA ComparesRows ==
  ASSUME NEW rs, ProperResult(rs), NEW by, Sortable(rs, by),
         NEW i \in DOMAIN rs.rows, NEW j \in DOMAIN rs.rows
  PROVE  RowBefore(by, rs.columns, rs.rows[i], rs.rows[j]) <=>
           \E k \in DOMAIN by :
             /\ \A l \in 1..(k - 1) : At(rs, by, i, l) = At(rs, by, j, l)
             /\ Ahead(by, k, At(rs, by, i, k), At(rs, by, j, k))
<1>. DEFINE n == Len(by)
            x(k) == At(rs, by, i, k)
            y(k) == At(rs, by, j, k)
            Cmp(k) == PartialCmp(x(k), y(k))
            differ == {k \in 1..n : Cmp(k) \notin {0, None}}
            first == Min(differ)
            Decides(k) == (\A l \in 1..(k - 1) : x(l) = y(l)) /\ Ahead(by, k, x(k), y(k))
<1>1. /\ n \in Nat /\ DOMAIN by = 1..n
      /\ \A k \in 1..n : /\ OneType(ValuesAt(rs, by, k)) /\ by[k][2] \in {"ASC", "DESC"}
                         /\ x(k) \in ValuesAt(rs, by, k) /\ y(k) \in ValuesAt(rs, by, k)
  BY SortableOf
<1>2. \A k \in 1..n : /\ Cmp(k) \in {-1, 0, 1} /\ None \notin {-1, 0, 1}
                      /\ (Cmp(k) = 0 <=> x(k) = y(k))
                      /\ (Cmp(k) = -1 <=> Less(x(k), y(k)))
                      /\ (Cmp(k) = 1 <=> Less(y(k), x(k)))
  <2>. HIDE DEF x, y
  <2>. SUFFICES ASSUME NEW k \in 1..n
                PROVE  /\ Cmp(k) \in {-1, 0, 1} /\ None \notin {-1, 0, 1}
                       /\ (Cmp(k) = 0 <=> x(k) = y(k))
                       /\ (Cmp(k) = -1 <=> Less(x(k), y(k)))
                       /\ (Cmp(k) = 1 <=> Less(y(k), x(k)))
    OBVIOUS
  <2>. QED BY <1>1, CmpOf
<1>3. RowBefore(by, rs.columns, rs.rows[i], rs.rows[j]) <=>
        differ # {} /\ Cmp(first) = (IF by[first][2] = "ASC" THEN -1 ELSE 1)
  BY <1>1 DEF RowBefore, At
<1>. HIDE DEF n, x, y
<1>4. \A k \in 1..n : k \in differ <=> x(k) # y(k)
  BY <1>2
<1>. HIDE DEF Cmp, differ, first
<1>5. ASSUME differ # {}
      PROVE  first \in differ /\ first \in 1..n /\ \A l \in 1..(first - 1) : x(l) = y(l)
  <2>1. differ \in SUBSET (1..n)
    BY DEF differ
  <2>2. \E m \in differ : \A l \in differ : m <= l
    BY <1>1, <1>5, <2>1, FirstExists
  <2>3. first \in differ /\ \A l \in differ : first <= l
    BY <2>2 DEF first, Min
  <2>4. ASSUME NEW l \in 1..(first - 1) PROVE x(l) = y(l)
    <3>1. l \in 1..n /\ ~(first <= l)
      BY <1>1, <2>1, <2>3
    <3>. QED BY <1>4, <2>3, <3>1
  <2>. QED BY <2>1, <2>3, <2>4
<1>6. ASSUME differ # {}, Cmp(first) = (IF by[first][2] = "ASC" THEN -1 ELSE 1)
      PROVE  Decides(first)
  BY <1>2, <1>5, <1>6 DEF Ahead
<1>7. ASSUME NEW k \in 1..n, Decides(k)
      PROVE  differ # {} /\ Cmp(first) = (IF by[first][2] = "ASC" THEN -1 ELSE 1)
  <2>1. x(k) # y(k)
    BY <1>1, <1>7, AheadOrders
  <2>2. differ # {}
    BY <1>4, <2>1
  <2>3. first \in 1..n /\ x(first) # y(first) /\ \A l \in 1..(first - 1) : x(l) = y(l)
    BY <1>4, <1>5, <2>2
  <2>4. first = k
    <3>1. ~(k < first)
      BY <1>1, <2>1, <2>3
    <3>2. ~(first < k)
      BY <1>1, <1>7, <2>3
    <3>. QED BY <1>1, <2>3, <3>1, <3>2
  <2>. QED BY <1>1, <1>2, <1>7, <2>2, <2>3, <2>4 DEF Ahead
<1>. QED BY <1>1, <1>3, <1>5, <1>6, <1>7 DEF x, y

PrecedesPairs(rs, by) ==
    {p \in (DOMAIN rs.rows) \X (DOMAIN rs.rows) : Precedes(rs, by, p[1], p[2])}

(* The order asked for is a strict total order of the rows.                *)
LEMMA PrecedesOrders ==
  ASSUME NEW rs, ProperResult(rs), NEW by, Sortable(rs, by)
  PROVE  Induct!Orders(DOMAIN rs.rows, PrecedesPairs(rs, by))
<1>. DEFINE S == DOMAIN rs.rows
            n == Len(by)
            v(i, k) == At(rs, by, i, k)
            Same(i, j) == \A k \in 1..n : v(i, k) = v(j, k)
            Decides(k, i, j) == (\A l \in 1..(k - 1) : v(i, l) = v(j, l)) /\ Ahead(by, k, v(i, k), v(j, k))
            B(i, j) == (Same(i, j) /\ i < j) \/ \E k \in 1..n : Decides(k, i, j)
<1>1. /\ n \in Nat /\ DOMAIN by = 1..n
      /\ \A k \in 1..n : OneType(ValuesAt(rs, by, k)) /\ \A i \in S : v(i, k) \in ValuesAt(rs, by, k)
  BY SortableOf
<1>2. S \in SUBSET Nat
  BY LenProperties DEF ProperResult
<1>3. \A i, j \in S : << i, j >> \in PrecedesPairs(rs, by) <=> B(i, j)
  BY <1>1 DEF PrecedesPairs, Precedes
<1>. HIDE DEF v, S, n
<1>4. \A k \in 1..n :
        /\ \A i, j \in S : v(i, k) # v(j, k) <=> Ahead(by, k, v(i, k), v(j, k)) \/ Ahead(by, k, v(j, k), v(i, k))
        /\ \A i, j, m \in S : Ahead(by, k, v(i, k), v(j, k)) /\ Ahead(by, k, v(j, k), v(m, k))
                                => Ahead(by, k, v(i, k), v(m, k))
  BY <1>1, AheadOrders
<1>5. ASSUME NEW i \in S, NEW j \in S, NEW k \in 1..n, Decides(k, i, j)
      PROVE  ~Same(i, j) /\ i # j
  BY <1>4, <1>5
<1>6. ASSUME NEW i \in S, NEW j \in S, ~Same(i, j)
      PROVE  B(i, j) \/ B(j, i)
  <2>. DEFINE K == {k \in 1..n : v(i, k) # v(j, k)}
  <2>1. PICK k \in K : \A l \in K : k <= l
    BY <1>1, <1>6, FirstExists
  <2>2. \A l \in 1..(k - 1) : v(i, l) = v(j, l)
    BY <1>1, <2>1
  <2>3. Ahead(by, k, v(i, k), v(j, k)) \/ Ahead(by, k, v(j, k), v(i, k))
    BY <1>4
  <2>. QED BY <2>2, <2>3
<1>7. ASSUME NEW i \in S, NEW j \in S PROVE i # j <=> B(i, j) \/ B(j, i)
  <2>1. CASE Same(i, j)
    <3>1. \A k \in 1..n : ~Decides(k, i, j) /\ ~Decides(k, j, i)
      BY <1>5, <2>1
    <3>. QED BY <1>2, <2>1, <3>1
  <2>2. CASE ~Same(i, j)
    BY <1>6, <2>2
  <2>. QED BY <2>1, <2>2
<1>8. ASSUME NEW i \in S, NEW j \in S, NEW m \in S, B(i, j), B(j, m) PROVE B(i, m)
  <2>1. CASE Same(i, j) /\ i < j /\ Same(j, m) /\ j < m
    BY <1>2, <2>1
  <2>2. ASSUME Same(i, j), NEW k \in 1..n, Decides(k, j, m) PROVE Decides(k, i, m)
    BY <1>1, <2>2
  <2>3. ASSUME Same(j, m), NEW k \in 1..n, Decides(k, i, j) PROVE Decides(k, i, m)
    BY <1>1, <2>3
  <2>4. ASSUME NEW k \in 1..n, NEW l \in 1..n, Decides(k, i, j), Decides(l, j, m)
        PROVE  B(i, m)
    <3>1. CASE k < l
      BY <1>1, <2>4, <3>1
    <3>2. CASE k = l
      <4>1. Ahead(by, k, v(i, k), v(m, k))
        BY <1>4, <2>4, <3>2
      <4>2. \A h \in 1..(k - 1) : v(i, h) = v(m, h)
        BY <2>4, <3>2
      <4>. QED BY <4>1, <4>2
    <3>3. CASE l < k
      BY <1>1, <2>4, <3>3
    <3>. QED BY <1>1, <3>1, <3>2, <3>3
  <2>. QED BY <1>8, <2>1, <2>2, <2>3, <2>4
<1>. HIDE DEF B
<1>. QED BY <1>3, <1>7, <1>8, Zenon DEF Induct!Orders, S

(* ORDER BY lists the rows there are, each once, in the order asked for:   *)
(* by the first column, where that is alike by the next, NULL first and    *)
(* DESC turned round, and rows that are alike in all as they came.         *)
THEOREM OrderSortsStably ==
  ASSUME NEW rs, ProperResult(rs), NEW by, Sortable(rs, by)
  PROVE  LET n == Len(rs.rows)
         IN  \E nth \in [1..n -> 1..n] :
               /\ Order(rs, by) = ResultSet(rs.columns, [k \in 1..n |-> rs.rows[nth[k]]])
               /\ \A i \in 1..n : \E k \in 1..n : nth[k] = i
               /\ \A k, l \in 1..n : k < l => Precedes(rs, by, nth[k], nth[l])
<1>. DEFINE n == Len(rs.rows)
            S == DOMAIN rs.rows
            B(i, j) == \/ RowBefore(by, rs.columns, rs.rows[i], rs.rows[j])
                       \/ ~RowBefore(by, rs.columns, rs.rows[j], rs.rows[i]) /\ i < j
            rank == [x \in S |-> Cardinality({y \in S : B(y, x)})]
            q == RankedBy(S, rank)
            R == PrecedesPairs(rs, by)
<1>1. n \in Nat /\ S = 1..n /\ IsFiniteSet(S) /\ Cardinality(S) = n
  <2>1. n \in Nat /\ S = 1..n
    BY LenProperties DEF ProperResult
  <2>. HIDE DEF n, S
  <2>. QED BY <2>1, FS_Interval
<1>2. Order(rs, by) = [rs EXCEPT !.rows = [k \in DOMAIN q |-> rs.rows[q[k]]]]
  <2>1. ~\E i \in DOMAIN by : Position(rs.columns, by[i][1]) = 0
    BY DEF Sortable
  <2>. QED BY <2>1 DEF Order, InOrder, RankedBy
<1>. HIDE DEF n, q
<1>3. \A i, j \in S : B(i, j) <=> << i, j >> \in R
  <2>. SUFFICES ASSUME NEW i \in S, NEW j \in S PROVE B(i, j) <=> << i, j >> \in R
    OBVIOUS
  <2>. DEFINE Same == \A k \in DOMAIN by : At(rs, by, i, k) = At(rs, by, j, k)
              Up == RowBefore(by, rs.columns, rs.rows[i], rs.rows[j])
              Down == RowBefore(by, rs.columns, rs.rows[j], rs.rows[i])
  <2>1. Induct!Orders(S, R)
    BY PrecedesOrders
  <2>2. << i, j >> \in R <=> (Same /\ i < j) \/ Up
    BY ComparesRows DEF PrecedesPairs, Precedes
  <2>3. << j, i >> \in R <=> (Same /\ j < i) \/ Down
    BY ComparesRows DEF PrecedesPairs, Precedes
  <2>. HIDE DEF Same, R
  <2>4. /\ i # j <=> << i, j >> \in R \/ << j, i >> \in R
        /\ << i, j >> \in R /\ << j, i >> \in R => << i, i >> \in R
        /\ << i, i >> \notin R
    BY <2>1, Zenon DEF Induct!Orders
  <2>5. i \in Nat /\ j \in Nat
    BY <1>1
  <2>6. B(i, j) <=> Up \/ (~Down /\ i < j)
    OBVIOUS
  <2>. HIDE DEF Up, Down, B
  <2>7. CASE i < j
    BY <2>2, <2>3, <2>4, <2>5, <2>6, <2>7
  <2>8. CASE ~(i < j)
    BY <2>2, <2>3, <2>4, <2>5, <2>6, <2>8
  <2>. QED BY <2>7, <2>8
<1>4. \A x \in S : rank[x] = RankIn(S, R, x)
  <2>. SUFFICES ASSUME NEW x \in S PROVE rank[x] = RankIn(S, R, x)
    OBVIOUS
  <2>. HIDE DEF B, R
  <2>1. {y \in S : B(y, x)} = {y \in S : << y, x >> \in R}
    BY <1>3
  <2>. QED BY <2>1, Zenon DEF RankIn
<1>5. Induct!Orders(S, R)
  BY PrecedesOrders
<1>. HIDE DEF rank, R, S
<1>6. /\ q \in [1..n -> S]
      /\ \A x \in S : \E k \in 1..n : q[k] = x
      /\ \A k, l \in 1..n : k < l => << q[k], q[l] >> \in R
  <2>. DEFINE r == RankedBy(S, rank)
  <2>1. /\ r \in [1..Cardinality(S) -> S]
        /\ \A x \in S : \E k \in 1..Cardinality(S) : r[k] = x
        /\ \A k, l \in 1..Cardinality(S) : k < l => << r[k], r[l] >> \in R
    BY SMTT(30), <1>1, <1>4, <1>5, ListedByRank
  <2>. HIDE DEF r
  <2>2. q = r
    BY DEF q, r
  <2>. QED BY <1>1, <2>1, <2>2
<1>7. \A k, l \in 1..n : k < l => Precedes(rs, by, q[k], q[l])
  BY <1>6 DEF R, PrecedesPairs
<1>8. Order(rs, by) = ResultSet(rs.columns, [k \in 1..n |-> rs.rows[q[k]]])
  <2>. DEFINE f == [k \in 1..n |-> rs.rows[q[k]]]
              g == ResultSet(rs.columns, rs.rows)
  <2>1. Order(rs, by) = [rs EXCEPT !.rows = f]
    BY <1>2, <1>6
  <2>2. rs = g
    BY DEF ProperResult
  <2>3. [g EXCEPT !.rows = f] = ResultSet(rs.columns, f)
    BY RowsReplaced
  <2>. HIDE DEF f, g
  <2>4. Order(rs, by) = [g EXCEPT !.rows = f]
    BY <2>1, <2>2
  <2>. QED BY <2>3, <2>4 DEF f
<1>. QED BY <1>1, <1>6, <1>7, <1>8 DEF n

(* OFFSET f LIMIT l after ORDER BY: the page that the rows have in the     *)
(* order asked for, shorter only where the rows end.                       *)
THEOREM PageOfSortedRows ==
  ASSUME NEW rs, ProperResult(rs), NEW by, Sortable(rs, by), NEW f \in Nat, NEW l \in Nat
  PROVE  LET n    == Len(rs.rows)
             page == Limit(Offset(Order(rs, by), f), l)
         IN  /\ page.columns = rs.columns
             /\ Len(page.rows) = IF n <= f THEN 0 ELSE IF l < n - f THEN l ELSE n - f
             /\ \E nth \in [1..n -> 1..n] :
                  /\ \A k \in 1..Len(page.rows) : page.rows[k] = rs.rows[nth[f + k]]
                  /\ \A i \in 1..n : \E k \in 1..n : nth[k] = i
                  /\ \A j, k \in 1..n : j < k => Precedes(rs, by, nth[j], nth[k])
<1>. DEFINE n == Len(rs.rows)
            sorted(nth) == [k \in 1..n |-> rs.rows[nth[k]]]
<1>1. PICK nth \in [1..n -> 1..n] :
        /\ Order(rs, by) = ResultSet(rs.columns, sorted(nth))
        /\ \A i \in 1..n : \E k \in 1..n : nth[k] = i
        /\ \A j, k \in 1..n : j < k => Precedes(rs, by, nth[j], nth[k])
  BY OrderSortsStably
<1>. DEFINE s == sorted(nth)
            a == SubSeq(s, f + 1, Len(s))
            b == SubSeq(a, 1, IF l < Len(a) THEN l ELSE Len(a))
            X == [DOMAIN rs.columns -> Value]
<1>2. n \in Nat /\ \A k \in 1..n : rs.rows[k] \in X
  BY LenProperties, ElementOfSeq DEF ProperResult
<1>3. Limit(Offset(Order(rs, by), f), l) = ResultSet(rs.columns, b)
  <2>. HIDE DEF s
  <2>. DEFINE r == ResultSet(rs.columns, s)
              o == ResultSet(rs.columns, a)
  <2>5. r.rows = s /\ o.rows = a
    BY RowsOf
  <2>6. Offset(r, f) = [r EXCEPT !.rows = SubSeq(r.rows, f + 1, Len(r.rows))]
    BY Zenon DEF Offset
  <2>7. Limit(o, l) = [o EXCEPT !.rows = SubSeq(o.rows, 1, IF l < Len(o.rows) THEN l ELSE Len(o.rows))]
    BY Zenon DEF Limit
  <2>8. [r EXCEPT !.rows = a] = o /\ [o EXCEPT !.rows = b] = ResultSet(rs.columns, b)
    BY RowsReplaced
  <2>1. Order(rs, by) = ResultSet(rs.columns, s)
    BY <1>1 DEF s
  <2>2. Offset(ResultSet(rs.columns, s), f) = ResultSet(rs.columns, a)
    BY <2>5, <2>6, <2>8
  <2>3. Limit(ResultSet(rs.columns, a), l) = ResultSet(rs.columns, b)
    BY <2>5, <2>7, <2>8
  <2>. QED BY <2>1, <2>2, <2>3
<1>4. s \in Seq(X) /\ Len(s) = n /\ \A k \in 1..n : s[k] = rs.rows[nth[k]]
  <2>. HIDE DEF n, X
  <2>1. \A k \in 1..n : rs.rows[nth[k]] \in X
    BY <1>1, <1>2
  <2>2. s \in Seq(X)
    BY <1>2, <2>1, IsASeq
  <2>3. DOMAIN s = 1..n /\ \A k \in 1..n : s[k] = rs.rows[nth[k]]
    OBVIOUS
  <2>. HIDE DEF s
  <2>. QED BY <1>2, <2>2, <2>3, LenProperties
<1>. HIDE DEF s, n, X
<1>5. /\ Len(a) = IF n <= f THEN 0 ELSE n - f
      /\ \A k \in 1..Len(a) : a[k] = s[f + k]
      /\ a \in Seq(X)
  <2>1. \A k \in (f + 1)..n : s[k] \in X
    BY <1>2, <1>4, ElementOfSeq
  <2>2. /\ a \in Seq(X) /\ Len(a) = IF f + 1 <= n THEN n - (f + 1) + 1 ELSE 0
        /\ \A k \in 1..(n - (f + 1) + 1) : a[k] = s[(f + 1) + k - 1]
    BY <1>2, <1>4, <2>1, SubSeqProperties
  <2>. HIDE DEF a
  <2>. QED BY SMTT(30), <1>2, <2>2
<1>. HIDE DEF a
<1>6. /\ Len(b) = IF n <= f THEN 0 ELSE IF l < n - f THEN l ELSE n - f
      /\ \A k \in 1..Len(b) : k \in 1..Len(a) /\ b[k] = a[k]
  <2>. DEFINE m == IF l < Len(a) THEN l ELSE Len(a)
  <2>1. m \in Nat /\ m <= Len(a) /\ m = IF n <= f THEN 0 ELSE IF l < n - f THEN l ELSE n - f
    BY SMTT(30), <1>2, <1>5
  <2>. HIDE DEF m
  <2>2. \A k \in 1..m : a[k] \in X
    BY <1>2, <1>5, <2>1, ElementOfSeq
  <2>3. Len(SubSeq(a, 1, m)) = (IF 1 <= m THEN m - 1 + 1 ELSE 0)
        /\ \A k \in 1..(m - 1 + 1) : SubSeq(a, 1, m)[k] = a[1 + k - 1]
    BY <2>1, <2>2, SubSeqProperties
  <2>4. b = SubSeq(a, 1, m)
    BY DEF m
  <2>. HIDE DEF b
  <2>5. Len(a) \in Nat
    BY <1>2, <1>5
  <2>6. Len(b) = m /\ \A k \in 1..m : b[k] = a[k]
    BY <2>1, <2>3, <2>4
  <2>7. \A k \in 1..m : k \in 1..Len(a)
    BY <2>1, <2>5
  <2>. QED BY <2>1, <2>6, <2>7
<1>. HIDE DEF b
<1>7. ASSUME NEW k \in 1..Len(b) PROVE b[k] = rs.rows[nth[f + k]]
  <2>1. k \in 1..Len(a) /\ b[k] = a[k]
    BY <1>6
  <2>2. a[k] = s[f + k]
    BY <1>5, <2>1
  <2>3. Len(a) = IF n <= f THEN 0 ELSE n - f
    BY <1>5
  <2>4. f + k \in 1..n
    BY <1>2, <2>1, <2>3
  <2>. QED BY <1>4, <2>1, <2>2, <2>4
<1>. DEFINE page == Limit(Offset(Order(rs, by), f), l)
<1>8. page.columns = rs.columns /\ page.rows = b
  BY <1>3, RowsOf
<1>9. Len(page.rows) = IF n <= f THEN 0 ELSE IF l < n - f THEN l ELSE n - f
  BY <1>6, <1>8
<1>10. \A k \in 1..Len(page.rows) : page.rows[k] = rs.rows[nth[f + k]]
  BY <1>7, <1>8
<1>. HIDE DEF page
<1>11. /\ nth \in [1..n -> 1..n]
       /\ \A i \in 1..n : \E k \in 1..n : nth[k] = i
       /\ \A j, k \in 1..n : j < k => Precedes(rs, by, nth[j], nth[k])
  BY <1>1 DEF n
<1>12. \E m \in [1..n -> 1..n] :
         /\ \A k \in 1..Len(page.rows) : page.rows[k] = rs.rows[m[f + k]]
         /\ \A i \in 1..n : \E k \in 1..n : m[k] = i
         /\ \A j, k \in 1..n : j < k => Precedes(rs, by, m[j], m[k])
  BY <1>10, <1>11, Zenon
<1>. QED BY <1>8, <1>9, <1>12, Zenon DEF n, page

-----------------------------------------------------------------------------
(* Groups and the functions of a column                                    *)

\* What COUNT, MIN and MAX of column c say of the rows at the places K: how many
\* values there are, and the least and the greatest of them, NULL of none.
Says(f, rs, c, K, x) ==
    LET there == {i \in K : rs.rows[i][c] # Null}
    IN  \/ f = "COUNT" /\ x = Integer(Cardinality(there))
        \/ f \in {"MIN", "MAX"} /\ there = {} /\ x = Null
        \/ f = "MIN" /\ \E i \in there : /\ x = rs.rows[i][c]
                                         /\ \A j \in there : x.v <= rs.rows[j][c].v
        \/ f = "MAX" /\ \E i \in there : /\ x = rs.rows[i][c]
                                         /\ \A j \in there : x.v >= rs.rows[j][c].v

\* The function can be computed: the column is there, and for MIN and MAX of one
\* type.
Computable(f, rs, a) ==
    /\ f \in {"COUNT", "MIN", "MAX"} /\ Position(rs.columns, a) # 0
    /\ f # "COUNT" => OneType({rs.rows[i][Position(rs.columns, a)] : i \in DOMAIN rs.rows})

\* The rows G are those of the result at the places K, each once.
Picks(G, rs, K) ==
    /\ K \subseteq DOMAIN rs.rows /\ G \in Seq([DOMAIN rs.columns -> Value])
    /\ \E nth \in [DOMAIN G -> K] :
          /\ \A k \in DOMAIN G : G[k] = rs.rows[nth[k]]
          /\ \A i \in K : \E k \in DOMAIN G : nth[k] = i
          /\ \A k, l \in DOMAIN G : k # l => nth[k] # nth[l]

(* A count is a value.                                                     *)
LEMMA IntegerOf == \A n \in Nat : Integer(n) \in Value
BY DEF Integer, Value, DataType, Numeric, Unit

(* The values a function looks at: the rows where the column is not NULL.  *)
LEMMA NonNullOf ==
  ASSUME NEW A, NEW rows \in Seq(A), NEW c, NEW there \in SUBSET (DOMAIN rows),
         \A i \in DOMAIN rows : i \in there <=> rows[i][c] # Null
  PROVE  NonNull(c, rows) = AtPlaces(rows, there)
<1>1. NonNull(c, rows) = AtPlaces(rows, {i \in DOMAIN rows : rows[i][c] # Null})
  BY DEF NonNull, Filtered
<1>2. {i \in DOMAIN rows : rows[i][c] # Null} = there
  OBVIOUS
<1>. QED BY <1>1, <1>2

(* COUNT is the number of rows where the column is not NULL.               *)
LEMMA CountOf ==
  ASSUME NEW A, NEW rows \in Seq(A), NEW c, NEW there \in SUBSET (DOMAIN rows),
         \A i \in DOMAIN rows : i \in there <=> rows[i][c] # Null
  PROVE  CountValues(c, rows) = Integer(Cardinality(there)) /\ Cardinality(there) \in Nat
<1>1. NonNull(c, rows) = AtPlaces(rows, there)
  BY NonNullOf
<1>2. Len(AtPlaces(rows, there)) = Cardinality(there) /\ Cardinality(there) \in Nat
  BY AtPlacesOf
<1>. QED BY <1>1, <1>2 DEF CountValues

(* Among values of one type there is a first one.                          *)
LEMMA ExtremeExists ==
  ASSUME NEW n \in Nat, n # 0, NEW v, \A i \in 1..n : v[i] \in Int, NEW sign \in {-1, 1}
  PROVE  \E i \in 1..n : \A j \in 1..n \ {i} :
            Sign(v[i] - v[j]) = sign \/ (Sign(v[i] - v[j]) = 0 /\ i < j)
<1>. DEFINE S == 1..n
            B(i, j) == Sign(v[i] - v[j]) = sign \/ (Sign(v[i] - v[j]) = 0 /\ i < j)
            R == {p \in S \X S : B(p[1], p[2])}
            rank == [x \in S |-> RankIn(S, R, x)]
            q == RankedBy(S, rank)
<1>1. IsFiniteSet(S) /\ Cardinality(S) = n
  BY FS_Interval
<1>2. \A i, j \in S : << i, j >> \in R <=> B(i, j)
  OBVIOUS
<1>3. \A i, j \in S : i # j <=> B(i, j) \/ B(j, i)
  BY DEF Sign
<1>4. \A i, j, k \in S : B(i, j) /\ B(j, k) => B(i, k)
  BY DEF Sign
<1>. HIDE DEF B, R
<1>5. Induct!Orders(S, R)
  BY <1>2, <1>3, <1>4, Zenon DEF Induct!Orders
<1>6. \A x \in S : rank[x] = RankIn(S, R, x)
  OBVIOUS
<1>. HIDE DEF rank, S
<1>7. /\ RankedBy(S, rank) \in [1..n -> S]
      /\ \A x \in S : \E k \in 1..n : RankedBy(S, rank)[k] = x
      /\ \A k, l \in 1..n : k < l => << RankedBy(S, rank)[k], RankedBy(S, rank)[l] >> \in R
  BY SMTT(30), <1>1, <1>5, <1>6, ListedByRank
<1>. HIDE DEF q
<1>8. q[1] \in S
  BY <1>7 DEF q
<1>9. ASSUME NEW j \in S \ {q[1]} PROVE B(q[1], j)
  <2>1. PICK k \in 1..n : q[k] = j
    BY <1>7 DEF q
  <2>2. 1 < k /\ 1 \in 1..n
    BY <1>9, <2>1
  <2>3. << q[1], q[k] >> \in R
    BY <1>7, <2>2 DEF q
  <2>. QED BY <1>2, <1>8, <2>1, <2>3
<1>. QED BY <1>8, <1>9 DEF B, S

\* The value is the least (sign -1) or the greatest (1) of column c at the places
\* where it is there, NULL if there are none.
IsExtreme(rows, c, there, sign, x) ==
    IF there = {} THEN x = Null
    ELSE \E i \in there :
           /\ x = rows[i][c]
           /\ \A j \in there : IF sign = -1 THEN rows[i][c].v <= rows[j][c].v
                               ELSE rows[i][c].v >= rows[j][c].v

(* MIN and MAX are attained, and nothing is beyond them.                   *)
LEMMA ExtremeOf ==
  ASSUME NEW A, NEW rows \in Seq(A), NEW c, NEW V, OneType(V),
         \A i \in DOMAIN rows : rows[i][c] \in V,
         NEW there \in SUBSET (DOMAIN rows),
         \A i \in DOMAIN rows : i \in there <=> rows[i][c] # Null,
         NEW sign \in {-1, 1}
  PROVE  IsExtreme(rows, c, there, sign, Extreme(c, rows, sign))
<1>. DEFINE xs == NonNull(c, rows)
            n == Cardinality(there)
            q == Nth(there)
            x(i) == xs[i][c]
            B(i, j) == LET s == PartialCmp(x(i), x(j)) IN s = sign \/ (s = 0 /\ i < j)
            First(i) == \A j \in DOMAIN xs \ {i} : B(i, j)
<1>1. xs = AtPlaces(rows, there)
  BY NonNullOf
<1>2. /\ n \in Nat /\ xs \in Seq(A) /\ Len(xs) = n
      /\ q \in [1..n -> there]
      /\ \A k \in 1..n : xs[k] = rows[q[k]]
      /\ \A i \in there : \E k \in 1..n : q[k] = i
  <2>. HIDE DEF xs
  <2>1. /\ n \in Nat /\ AtPlaces(rows, there) \in Seq(A)
        /\ Len(AtPlaces(rows, there)) = n
        /\ q \in [1..n -> there]
        /\ \A k \in 1..n : AtPlaces(rows, there)[k] = rows[q[k]]
        /\ \A i \in there : \E k \in 1..n : q[k] = i
    BY AtPlacesOf
  <2>. QED BY <1>1, <2>1
<1>3. Extreme(c, rows, sign) =
        CASE xs = << >> -> Null
          [] \E i, j \in DOMAIN xs : PartialCmp(x(i), x(j)) = None -> Panic
          [] OTHER -> x(CHOOSE i \in DOMAIN xs : First(i))
  BY DEF Extreme
<1>. HIDE DEF xs, n, q
<1>4. DOMAIN xs = 1..n
  BY <1>2, LenProperties
<1>5. \A k \in 1..n : /\ x(k) = rows[q[k]][c] /\ x(k) \in V /\ x(k) # Null
                      /\ x(k) \in Value /\ x(k).v \in Int
  BY <1>2, Values DEF OneType
<1>6. \A i, j \in 1..n : PartialCmp(x(i), x(j)) = Sign(x(i).v - x(j).v)
  <2>. HIDE DEF x
  <2>. SUFFICES ASSUME NEW i \in 1..n, NEW j \in 1..n
                PROVE  PartialCmp(x(i), x(j)) = Sign(x(i).v - x(j).v)
    OBVIOUS
  <2>1. x(i).t = x(j).t
    BY <1>5 DEF OneType
  <2>. QED BY <1>5, <2>1 DEF PartialCmp, Comparable
<1>. HIDE DEF x
<1>7. CASE there = {}
  <2>1. n = 0
    BY <1>7, FS_EmptySet DEF n
  <2>2. xs = << >>
    BY <1>2, <2>1, EmptySeq
  <2>. QED BY <1>3, <1>7, <2>2 DEF IsExtreme
<1>8. CASE there # {}
  <2>1. n # 0 /\ xs # << >>
    <3>1. PICK k \in 1..n : TRUE
      BY <1>2, <1>8
    <3>2. 1 \in DOMAIN xs
      BY <1>2, <1>4, <3>1
    <3>. QED BY <1>2, <1>4, <3>1, <3>2
  <2>. DEFINE v == [i \in 1..n |-> x(i).v]
  <2>2. \E i \in 1..n : \A j \in 1..n \ {i} :
            Sign(v[i] - v[j]) = sign \/ (Sign(v[i] - v[j]) = 0 /\ i < j)
    <3>1. \A i \in 1..n : v[i] \in Int
      BY <1>5
    <3>. HIDE DEF v
    <3>2. n \in Nat /\ n # 0
      BY <1>2, <2>1
    <3>. QED BY <3>1, <3>2, ExtremeExists, Zenon
  <2>3. \E i \in DOMAIN xs : First(i)
    BY <1>4, <1>6, <2>2
  <2>. DEFINE i == CHOOSE k \in DOMAIN xs : First(k)
  <2>4. i \in 1..n /\ First(i)
    BY <1>4, <2>3
  <2>5. ~\E k, l \in DOMAIN xs : PartialCmp(x(k), x(l)) = None
    <3>1. None \notin {-1, 0, 1}
      BY OptionAssumption
    <3>2. \A k, l \in 1..n : Sign(x(k).v - x(l).v) \in {-1, 0, 1}
      BY <1>5 DEF Sign
    <3>. QED BY <1>4, <1>6, <3>1, <3>2
  <2>6. Extreme(c, rows, sign) = x(i)
    BY <1>3, <2>1, <2>5
  <2>. HIDE DEF i
  <2>7. ASSUME NEW k \in 1..n
        PROVE  IF sign = -1 THEN x(i).v <= x(k).v ELSE x(i).v >= x(k).v
    <3>1. CASE k = i
      BY <1>5, <3>1
    <3>2. CASE k # i
      <4>1. Sign(x(i).v - x(k).v) = sign \/ Sign(x(i).v - x(k).v) = 0
        BY <1>4, <1>6, <2>4, <3>2
      <4>. QED BY <1>5, <2>4, <4>1 DEF Sign
    <3>. QED BY <3>1, <3>2
  <2>8. ASSUME NEW j \in there
        PROVE  IF sign = -1 THEN rows[q[i]][c].v <= rows[j][c].v ELSE rows[q[i]][c].v >= rows[j][c].v
    <3>1. PICK k \in 1..n : q[k] = j
      BY <1>2
    <3>2. x(k) = rows[j][c] /\ x(i) = rows[q[i]][c]
      BY <1>5, <2>4, <3>1
    <3>. QED BY <2>7, <3>2
  <2>9. q[i] \in there /\ Extreme(c, rows, sign) = rows[q[i]][c]
    BY <1>2, <1>5, <2>4, <2>6
  <2>. QED BY <1>8, <2>8, <2>9 DEF IsExtreme
<1>. QED BY <1>7, <1>8

(* A function of a column of some of the rows, whatever their order.       *)
LEMMA CalcOf ==
  ASSUME NEW rs, ProperResult(rs), NEW K, NEW G, Picks(G, rs, K),
         NEW f, NEW a, Computable(f, rs, a)
  PROVE  /\ Calc(f, a, rs.columns, G) \in Value
         /\ Says(f, rs, Position(rs.columns, a), K, Calc(f, a, rs.columns, G))
<1>. DEFINE c == Position(rs.columns, a)
            A == [DOMAIN rs.columns -> Value]
            x == Calc(f, a, rs.columns, G)
            there == {i \in K : rs.rows[i][c] # Null}
            inG == {k \in DOMAIN G : G[k][c] # Null}
            V == {rs.rows[i][c] : i \in DOMAIN rs.rows}
<1>1. f \in {"COUNT", "MIN", "MAX"} /\ c # 0 /\ (f # "COUNT" => OneType(V))
  BY DEF Computable
<1>2. \A i \in DOMAIN rs.rows : rs.rows[i][c] \in Value /\ rs.rows[i][c] \in V
  BY <1>1, ResultOf
<1>3. K \subseteq DOMAIN rs.rows /\ G \in Seq(A)
  BY DEF Picks
<1>4. PICK nth \in [DOMAIN G -> K] :
        /\ \A k \in DOMAIN G : G[k] = rs.rows[nth[k]]
        /\ \A i \in K : \E k \in DOMAIN G : nth[k] = i
        /\ \A k, l \in DOMAIN G : k # l => nth[k] # nth[l]
  BY DEF Picks
<1>5. x = CASE f = "COUNT" -> CountValues(c, G)
            [] f = "MIN" -> Extreme(c, G, -1)
            [] f = "MAX" -> Extreme(c, G, 1)
  BY <1>1 DEF Calc
<1>. HIDE DEF c, x, V
<1>6. \A k \in DOMAIN G : /\ nth[k] \in K /\ G[k][c] = rs.rows[nth[k]][c]
                          /\ (k \in inG <=> nth[k] \in there)
  BY <1>4
<1>7. inG \in SUBSET (DOMAIN G) /\ \A k \in DOMAIN G : k \in inG <=> G[k][c] # Null
  OBVIOUS
<1>8. there \in SUBSET K /\ \A i \in there : \E k \in inG : nth[k] = i
  BY <1>4, <1>6
<1>9. Cardinality(inG) = Cardinality(there) /\ Cardinality(there) \in Nat
  <2>. DEFINE h == [k \in inG |-> nth[k]]
  <2>1. h \in [inG -> there] /\ \A i \in there : \E k \in inG : h[k] = i
    BY <1>6, <1>8
  <2>2. \A k, l \in inG : k # l => h[k] # h[l]
    BY <1>4
  <2>3. IsFiniteSet(inG) /\ Cardinality(inG) \in Nat
    BY <1>3, <1>7, AtPlacesOf
  <2>. HIDE DEF h, inG, there
  <2>4. h \in Bijection(inG, there)
    BY <2>1, <2>2 DEF Bijection, Injection, Surjection, IsInjective
  <2>. QED BY <2>3, <2>4, FS_Bijection DEF ExistsBijection
<1>. HIDE DEF inG, there
<1>10. CASE f = "COUNT"
  <2>1. x = Integer(Cardinality(there))
    <3>1. CountValues(c, G) = Integer(Cardinality(inG))
      BY <1>3, <1>7, CountOf
    <3>. QED BY <1>5, <1>9, <1>10, <3>1
  <2>2. x \in Value
    BY <1>9, <2>1, IntegerOf
  <2>3. x = Integer(Cardinality({i \in K : rs.rows[i][c] # Null}))
    BY <2>1 DEF there
  <2>4. Says(f, rs, c, K, x)
    BY <1>10, <2>3, Zenon DEF Says
  <2>. QED BY <2>2, <2>4 DEF c, x
<1>11. ASSUME NEW sign \in {-1, 1}, x = Extreme(c, G, sign), OneType(V)
       PROVE  \/ there = {} /\ x = Null
              \/ \E i \in there :
                   /\ x = rs.rows[i][c]
                   /\ \A j \in there : IF sign = -1 THEN rs.rows[i][c].v <= rs.rows[j][c].v
                                       ELSE rs.rows[i][c].v >= rs.rows[j][c].v
  <2>1. \A k \in DOMAIN G : G[k][c] \in V
    BY <1>2, <1>3, <1>6
  <2>2. IF inG = {} THEN x = Null
        ELSE \E k \in inG :
               /\ x = G[k][c]
               /\ \A l \in inG : IF sign = -1 THEN G[k][c].v <= G[l][c].v ELSE G[k][c].v >= G[l][c].v
    <3>. HIDE DEF A
    <3>1. G \in Seq(A) /\ OneType(V) /\ inG \in SUBSET (DOMAIN G)
      BY <1>3, <1>7, <1>11
    <3>2. \A k \in DOMAIN G : k \in inG <=> G[k][c] # Null
      BY <1>7
    <3>3. IsExtreme(G, c, inG, sign, Extreme(c, G, sign))
      BY <2>1, <3>1, <3>2, ExtremeOf
    <3>. QED BY <1>11, <3>3 DEF IsExtreme
  <2>3. CASE inG = {}
    BY <1>8, <2>2, <2>3
  <2>4. CASE inG # {}
    <3>1. PICK k \in inG :
            /\ x = G[k][c]
            /\ \A l \in inG : IF sign = -1 THEN G[k][c].v <= G[l][c].v ELSE G[k][c].v >= G[l][c].v
      BY <2>2, <2>4
    <3>2. nth[k] \in there /\ x = rs.rows[nth[k]][c]
      BY <1>6, <1>7, <3>1
    <3>3. ASSUME NEW j \in there
          PROVE  IF sign = -1 THEN rs.rows[nth[k]][c].v <= rs.rows[j][c].v
                 ELSE rs.rows[nth[k]][c].v >= rs.rows[j][c].v
      <4>1. PICK l \in inG : nth[l] = j
        BY <1>8
      <4>2. G[l][c] = rs.rows[j][c] /\ G[k][c] = rs.rows[nth[k]][c]
        BY <1>6, <1>7, <4>1
      <4>. QED BY <3>1, <4>2
    <3>. QED BY <3>2, <3>3
  <2>. QED BY <2>3, <2>4
<1>12. \A i \in there : rs.rows[i][c] \in Value
  BY <1>2, <1>3, <1>8
<1>13. CASE f = "MIN"
  <2>1. x = Extreme(c, G, -1) /\ OneType(V) /\ -1 \in {-1, 1}
    BY <1>1, <1>5, <1>13
  <2>2. \/ there = {} /\ x = Null
        \/ \E i \in there : x = rs.rows[i][c] /\ \A j \in there : x.v <= rs.rows[j][c].v
    BY <1>11, <2>1
  <2>. QED BY <1>12, <1>13, <2>2, Booleans DEF Says, c, x, there
<1>14. CASE f = "MAX"
  <2>1. x = Extreme(c, G, 1) /\ OneType(V) /\ 1 \in {-1, 1}
    BY <1>1, <1>5, <1>14
  <2>2. \/ there = {} /\ x = Null
        \/ \E i \in there : x = rs.rows[i][c] /\ \A j \in there : x.v >= rs.rows[j][c].v
    BY <1>11, <2>1
  <2>. QED BY <1>12, <1>14, <2>2, Booleans DEF Says, c, x, there
<1>. QED BY <1>1, <1>10, <1>13, <1>14

\* What may be listed with GROUP BY g (without, g is None): that column, and
\* functions of a column.
Listed(e, rs, g) ==
    \/ g # None /\ g \in STRING /\ e[1] = Field(g)
    \/ \E f \in {"COUNT", "MIN", "MAX"}, a \in STRING : e[1] = Function(f, a) /\ Computable(f, rs, a)

\* The value that item e has for the group with this key, the rows at places K.
Shows(e, rs, g, key, K, x) ==
    \/ g # None /\ e[1] = Field(g) /\ x = key
    \/ \E f \in {"COUNT", "MIN", "MAX"}, a \in STRING :
          e[1] = Function(f, a) /\ Says(f, rs, Position(rs.columns, a), K, x)

AllListed(exprs, rs, g) == \A e \in DOMAIN exprs : Listed(exprs[e], rs, g)

AllShown(exprs, rs, g, key, K, row) ==
    /\ DOMAIN row = DOMAIN exprs
    /\ \A e \in DOMAIN exprs : Shows(exprs[e], rs, g, key, K, row[e])

Items == Seq(Expression \X (STRING \cup {None}))

(* The row of one group.                                                   *)
LEMMA GroupRowOf ==
  ASSUME NEW rs, ProperResult(rs), NEW exprs \in Items, NEW g, AllListed(exprs, rs, g),
         NEW K, NEW G, Picks(G, rs, K), NEW key \in Value
  PROVE  /\ GroupRow(exprs, g, rs.columns, key, G) \in Seq(Value)
         /\ AllShown(exprs, rs, g, key, K, GroupRow(exprs, g, rs.columns, key, G))
<1>. DEFINE F(e) == CASE e[1].expr = "Function" -> Calc(e[1].func, e[1].column, rs.columns, G)
                      [] e[1].expr = "Field" /\ g = None -> Panic
                      [] e[1].expr = "Field" /\ g # None -> IF e[1].name = g THEN key ELSE Err
                      [] OTHER -> Err
            ys == [e \in DOMAIN exprs |-> F(exprs[e])]
            row == GroupRow(exprs, g, rs.columns, key, G)
<1>1. row = IF {i \in DOMAIN ys : ys[i] = Err \/ ys[i] = Panic} = {} THEN ys
            ELSE ys[Min({i \in DOMAIN ys : ys[i] = Err \/ ys[i] = Panic})]
  BY DEF GroupRow, Each
<1>2. ASSUME NEW e \in DOMAIN exprs
      PROVE  F(exprs[e]) \in Value /\ Shows(exprs[e], rs, g, key, K, F(exprs[e]))
  <2>. DEFINE i == exprs[e]
  <2>1. Listed(i, rs, g)
    BY DEF AllListed
  <2>. HIDE DEF i
  <2>2. CASE g # None /\ i[1] = Field(g)
    <3>1. F(i) = key
      BY <2>2 DEF Field
    <3>. QED BY <2>2, <3>1 DEF Shows, i
  <2>3. ASSUME NEW f \in {"COUNT", "MIN", "MAX"}, NEW a \in STRING, i[1] = Function(f, a), Computable(f, rs, a)
        PROVE  F(i) \in Value /\ Shows(i, rs, g, key, K, F(i))
    <3>1. F(i) = Calc(f, a, rs.columns, G)
      BY <2>3 DEF Function
    <3>. HIDE DEF F
    <3>2. F(i) \in Value /\ Says(f, rs, Position(rs.columns, a), K, F(i))
      BY <2>3, <3>1, CalcOf
    <3>. QED BY <2>3, <3>2 DEF Shows
  <2>. QED BY <2>1, <2>2, <2>3 DEF Listed, i
<1>. HIDE DEF F, row
<1>3. DOMAIN ys = DOMAIN exprs /\ \A e \in DOMAIN exprs : ys[e] = F(exprs[e])
  OBVIOUS
<1>4. ys \in Seq(Value)
  <2>1. Len(exprs) \in Nat /\ DOMAIN exprs = 1..Len(exprs)
    BY LenProperties DEF Items
  <2>. QED BY <1>2, <2>1, IsASeq
<1>. HIDE DEF ys
<1>5. row = ys
  BY <1>1, <1>2, <1>3, NoneFails
<1>. QED BY <1>2, <1>3, <1>4, <1>5 DEF row, AllShown

(* All rows, as they are.                                                  *)
LEMMA WholePicked ==
  ASSUME NEW rs, ProperResult(rs)
  PROVE  Picks(rs.rows, rs, DOMAIN rs.rows)
<1>. DEFINE nth == [k \in DOMAIN rs.rows |-> k]
<1>1. /\ nth \in [DOMAIN rs.rows -> DOMAIN rs.rows]
      /\ \A k \in DOMAIN rs.rows : nth[k] = k
  OBVIOUS
<1>. HIDE DEF nth
<1>2. /\ \A k \in DOMAIN rs.rows : rs.rows[k] = rs.rows[nth[k]]
      /\ \A i \in DOMAIN rs.rows : \E k \in DOMAIN rs.rows : nth[k] = i
      /\ \A k, l \in DOMAIN rs.rows : k # l => nth[k] # nth[l]
  BY <1>1
<1>3. rs.rows \in Seq([DOMAIN rs.columns -> Value])
  BY DEF ProperResult
<1>. QED BY <1>1, <1>2, <1>3, Zenon DEF Picks

(* The rows at some places.                                                *)
LEMMA PlacesPicked ==
  ASSUME NEW rs, ProperResult(rs), NEW K \in SUBSET (DOMAIN rs.rows)
  PROVE  Picks(AtPlaces(rs.rows, K), rs, K)
<1>. DEFINE G == AtPlaces(rs.rows, K)
            n == Cardinality(K)
            q == Nth(K)
            X == [DOMAIN rs.columns -> Value]
<1>1. rs.rows \in Seq(X)
  BY DEF ProperResult
<1>. HIDE DEF X
<1>2. /\ n \in Nat /\ G \in Seq(X) /\ Len(G) = n
      /\ q \in [1..n -> K]
      /\ \A k \in 1..n : G[k] = rs.rows[q[k]]
      /\ \A i \in K : \E k \in 1..n : q[k] = i
      /\ \A k, l \in 1..n : k < l => q[k] < q[l]
  BY <1>1, AtPlacesOf
<1>3. DOMAIN rs.rows \in SUBSET Nat
  BY LenProperties DEF ProperResult
<1>. HIDE DEF G, q, n
<1>4. DOMAIN G = 1..n
  BY <1>2, LenProperties
<1>5. \A k, l \in 1..n : k # l => q[k] # q[l]
  <2>. SUFFICES ASSUME NEW k \in 1..n, NEW l \in 1..n, k < l PROVE q[k] # q[l]
    BY <1>2
  <2>1. q[k] < q[l] /\ q[k] \in Nat /\ q[l] \in Nat
    BY <1>2, <1>3
  <2>. QED BY <2>1
<1>6. /\ q \in [DOMAIN G -> K]
      /\ \A k \in DOMAIN G : G[k] = rs.rows[q[k]]
      /\ \A i \in K : \E k \in DOMAIN G : q[k] = i
      /\ \A k, l \in DOMAIN G : k # l => q[k] # q[l]
  BY <1>2, <1>4, <1>5
<1>7. K \subseteq DOMAIN rs.rows /\ G \in Seq([DOMAIN rs.columns -> Value])
  BY <1>2 DEF X
<1>. QED BY <1>6, <1>7, Zenon DEF Picks, G

(* Without GROUP BY there is one row, with the functions of all rows.      *)
THEOREM AllRowsAreOneGroup ==
  ASSUME NEW rs, ProperResult(rs), NEW exprs \in Items, NEW order, AllListed(exprs, rs, None)
  PROVE  LET answer == Aggregate(rs, exprs, None, order)
         IN  /\ answer.columns = [i \in DOMAIN exprs |-> OutputName(exprs[i])]
             /\ Len(answer.rows) = 1
             /\ AllShown(exprs, rs, None, Null, DOMAIN rs.rows, answer.rows[1])
<1>. DEFINE row == GroupRow(exprs, None, rs.columns, Null, rs.rows)
            names == [i \in DOMAIN exprs |-> OutputName(exprs[i])]
<1>1. row \in Seq(Value) /\ AllShown(exprs, rs, None, Null, DOMAIN rs.rows, row)
  <2>1. Picks(rs.rows, rs, DOMAIN rs.rows) /\ Null \in Value
    BY WholePicked, Booleans
  <2>. QED BY <2>1, GroupRowOf
<1>2. Aggregate(rs, exprs, None, order) = IF row = Err \/ row = Panic THEN row ELSE ResultSet(names, << row >>)
  BY DEF Aggregate, GroupColumn, Then
<1>. HIDE DEF row, names
<1>3. row # Err /\ row # Panic
  BY <1>1, OptionAssumption
<1>4. Aggregate(rs, exprs, None, order) = ResultSet(names, << row >>)
  BY <1>2, <1>3
<1>5. ResultSet(names, << row >>).columns = names /\ ResultSet(names, << row >>).rows = << row >>
  BY RowsOf
<1>. QED BY <1>1, <1>4, <1>5 DEF names

\* The order in which the groups come names each group once.
NamesGroups(order, rs, c) ==
    /\ order \in Seq(Value)
    /\ \A k, l \in DOMAIN order : k # l => order[k] # order[l]
    /\ \A i \in DOMAIN rs.rows : \E k \in DOMAIN order : order[k] = rs.rows[i][c]

SameAt(rs, c, x) == {i \in DOMAIN rs.rows : rs.rows[i][c] = x}

(* GROUP BY a column gives one row for each of its values, NULL among      *)
(* them, with the functions of the rows that have it: COUNT, MIN and MAX   *)
(* pass over the NULLs of their own column.                                *)
THEOREM OneRowPerGroup ==
  ASSUME NEW rs, ProperResult(rs), NEW exprs \in Items, NEW g, Position(rs.columns, g) # 0,
         AllListed(exprs, rs, g), NEW order, NamesGroups(order, rs, Position(rs.columns, g))
  PROVE  LET answer == Aggregate(rs, exprs, Field(g), order)
             c      == Position(rs.columns, g)
             groups == {rs.rows[i][c] : i \in DOMAIN rs.rows}
             n      == Len(answer.rows)
         IN  \E keys \in [1..n -> groups] :
               /\ \A x \in groups : \E k \in 1..n : keys[k] = x
               /\ \A k, l \in 1..n : k # l => keys[k] # keys[l]
               /\ \A k \in 1..n : AllShown(exprs, rs, g, keys[k], SameAt(rs, c, keys[k]), answer.rows[k])
               /\ n # 0 => answer.columns = [i \in DOMAIN exprs |-> OutputName(exprs[i])]
<1>. DEFINE c == Position(rs.columns, g)
            groups == {rs.rows[i][c] : i \in DOMAIN rs.rows}
            P == {k \in DOMAIN order : \E i \in DOMAIN rs.rows : rs.rows[i][c] = order[k]}
            keys == AtPlaces(order, P)
            n == Cardinality(P)
            q == Nth(P)
            R(x) == GroupRow(exprs, g, rs.columns, x, AtPlaces(rs.rows, SameAt(rs, c, x)))
            ys == [k \in DOMAIN keys |-> R(keys[k])]
            each == IF {k \in DOMAIN ys : ys[k] = Err \/ ys[k] = Panic} = {} THEN ys
                    ELSE ys[Min({k \in DOMAIN ys : ys[k] = Err \/ ys[k] = Panic})]
            names == [i \in DOMAIN exprs |-> OutputName(exprs[i])]
            answer == Aggregate(rs, exprs, Field(g), order)
<1>1. g \in STRING /\ c # 0 /\ \A i \in DOMAIN rs.rows : rs.rows[i][c] \in Value
  BY ResultOf
<1>2. /\ order \in Seq(Value)
      /\ \A k, l \in DOMAIN order : k # l => order[k] # order[l]
      /\ \A i \in DOMAIN rs.rows : \E k \in DOMAIN order : order[k] = rs.rows[i][c]
  BY DEF NamesGroups
<1>3. g # None /\ GroupColumn(Field(g)) = g
  <2>1. Field(g) \in Expression /\ Field(g).expr = "Field" /\ Field(g).name = g
    BY <1>1 DEF Field, Expression, Operand
  <2>. QED BY <1>1, <2>1, OptionAssumption DEF GroupColumn
<1>4. answer = IF each = Err \/ each = Panic THEN each
               ELSE ResultSet(IF each = << >> THEN << >> ELSE names, each)
  <2>. DEFINE Keys(p) == AtPlaces(order, {k \in DOMAIN order : \E i \in DOMAIN rs.rows : rs.rows[i][p] = order[k]})
              Row(h, p, x) == GroupRow(exprs, h, rs.columns, x, AtPlaces(rs.rows, {i \in DOMAIN rs.rows : rs.rows[i][p] = x}))
              Rows(h, p) == [k \in DOMAIN Keys(p) |-> Row(h, p, Keys(p)[k])]
              Bad(h, p) == {k \in DOMAIN Rows(h, p) : Rows(h, p)[k] = Err \/ Rows(h, p)[k] = Panic}
              All(h, p) == IF Bad(h, p) = {} THEN Rows(h, p) ELSE Rows(h, p)[Min(Bad(h, p))]
              Answer(h, p) == IF All(h, p) = Err \/ All(h, p) = Panic THEN All(h, p)
                              ELSE ResultSet(IF All(h, p) = << >> THEN << >> ELSE names, All(h, p))
              col == GroupColumn(Field(g))
              pos == IF col = None THEN 0 ELSE Position(rs.columns, col)
              row == GroupRow(exprs, None, rs.columns, Null, rs.rows)
              whole == IF row = Err \/ row = Panic THEN row ELSE ResultSet(names, << row >>)
  <2>1. answer = CASE col = None -> whole
                   [] col # None /\ pos = 0 -> Err
                   [] col # None /\ pos # 0 -> Answer(col, pos)
    BY Zenon DEF Aggregate, Filtered, Each, Then
  <2>2. \A x : SameAt(rs, c, x) = {i \in DOMAIN rs.rows : rs.rows[i][c] = x}
    BY DEF SameAt
  <2>3. \A x : R(x) = Row(g, c, x)
    BY <2>2
  <2>4. keys = Keys(c)
    OBVIOUS
  <2>. HIDE DEF R, Row, Keys, keys
  <2>5. ys = Rows(g, c)
    BY <2>3, <2>4
  <2>. HIDE DEF ys, Rows
  <2>6. each = All(g, c)
    BY <2>5
  <2>. HIDE DEF each, All, answer, whole
  <2>7. answer = Answer(g, c)
    <3>. HIDE DEF Answer
    <3>1. col = g /\ col # None /\ pos = c
      BY <1>3
    <3>. HIDE DEF col, pos
    <3>. QED BY <1>1, <2>1, <3>1
  <2>. QED BY <2>6, <2>7
<1>. HIDE DEF c, answer, names, each
<1>5. P \in SUBSET (DOMAIN order)
  OBVIOUS
<1>6. \A k \in DOMAIN order : k \in P <=> order[k] \in groups
  OBVIOUS
<1>7. \A x \in groups : \E k \in P : order[k] = x
  BY <1>2, <1>6
<1>. HIDE DEF P, groups
<1>8. /\ n \in Nat /\ keys \in Seq(Value) /\ Len(keys) = n
      /\ q \in [1..n -> P]
      /\ \A k \in 1..n : keys[k] = order[q[k]]
      /\ \A i \in P : \E k \in 1..n : q[k] = i
      /\ \A k, l \in 1..n : k < l => q[k] < q[l]
  BY <1>2, <1>5, AtPlacesOf
<1>9. DOMAIN order \in SUBSET Nat
  BY <1>2, LenProperties
<1>. HIDE DEF keys, n, q
<1>10. DOMAIN keys = 1..n
  BY <1>8, LenProperties
<1>11. keys \in [1..n -> groups] /\ \A k \in 1..n : keys[k] \in Value
  <2>1. keys = [k \in 1..n |-> keys[k]]
    BY <1>8, <1>10
  <2>2. \A k \in 1..n : keys[k] \in groups
    BY <1>5, <1>6, <1>8
  <2>3. \A k \in 1..n : keys[k] \in Value
    BY <1>2, <1>5, <1>8, ElementOfSeq, LenProperties
  <2>. QED BY <2>1, <2>2, <2>3
<1>12. \A x \in groups : \E k \in 1..n : keys[k] = x
  BY <1>7, <1>8
<1>13. \A k, l \in 1..n : k # l => keys[k] # keys[l]
  <2>. SUFFICES ASSUME NEW k \in 1..n, NEW l \in 1..n, k < l PROVE keys[k] # keys[l]
    BY <1>8
  <2>1. q[k] \in DOMAIN order /\ q[l] \in DOMAIN order /\ q[k] < q[l]
    BY <1>5, <1>8
  <2>2. q[k] # q[l]
    BY <1>9, <2>1
  <2>. QED BY <1>2, <1>8, <2>1, <2>2
<1>14. ASSUME NEW k \in 1..n
       PROVE  /\ ys[k] \in Seq(Value)
              /\ AllShown(exprs, rs, g, keys[k], SameAt(rs, c, keys[k]), ys[k])
  <2>. DEFINE K == SameAt(rs, c, keys[k])
              G == AtPlaces(rs.rows, K)
  <2>1. K \in SUBSET (DOMAIN rs.rows)
    BY DEF SameAt
  <2>. HIDE DEF K
  <2>2. Picks(G, rs, K)
    BY <2>1, PlacesPicked
  <2>. HIDE DEF G
  <2>3. /\ GroupRow(exprs, g, rs.columns, keys[k], G) \in Seq(Value)
        /\ AllShown(exprs, rs, g, keys[k], K, GroupRow(exprs, g, rs.columns, keys[k], G))
    BY <1>11, <2>2, GroupRowOf
  <2>4. ys[k] = GroupRow(exprs, g, rs.columns, keys[k], G)
    BY <1>10 DEF G, K
  <2>. HIDE DEF ys
  <2>. QED BY <2>3, <2>4 DEF K
<1>15. DOMAIN ys = 1..n
  BY <1>10
<1>16. ys \in Seq(Seq(Value))
  BY <1>8, <1>10, <1>14, IsASeq
<1>. HIDE DEF ys
<1>17. each = ys
  <2>1. \A k \in DOMAIN ys : ys[k] # Err /\ ys[k] # Panic
    BY <1>14, <1>15, OptionAssumption
  <2>. QED BY <2>1 DEF each
<1>18. each # Err /\ each # Panic
  BY <1>16, <1>17, OptionAssumption
<1>19. answer.rows = ys /\ answer.columns = (IF ys = << >> THEN << >> ELSE names)
  BY <1>4, <1>17, <1>18, RowsOf
<1>20. Len(answer.rows) = n
  BY <1>8, <1>15, <1>16, <1>19, LenProperties
<1>21. n # 0 => answer.columns = names
  <2>1. SUFFICES ASSUME n # 0 PROVE ys # << >>
    BY <1>19
  <2>2. 1 \in DOMAIN ys
    BY <1>8, <1>15, <2>1
  <2>. QED BY <2>2
<1>22. \A k \in 1..n : AllShown(exprs, rs, g, keys[k], SameAt(rs, c, keys[k]), answer.rows[k])
  BY <1>14, <1>19
<1>. QED BY ZenonT(30), <1>11, <1>12, <1>13, <1>20, <1>21, <1>22 DEF c, groups, names, answer

=============================================================================
