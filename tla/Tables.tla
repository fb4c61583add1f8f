------------------------------- MODULE Tables -------------------------------
(***************************************************************************)
(* Tables, rows and indexes as keys of a transactional store:              *)
(* src/src/sql/engine/kv.rs with the statements of executor/mutation.rs    *)
(* and executor/schema.rs that are built on it.                            *)
(*                                                                         *)
(* A statement reads and writes through one transaction.  What it reads    *)
(* does not change under it (StableReads of Mvcc), so a statement is a     *)
(* function of the transaction's view, a map from keys to stored values;   *)
(* its result is an outcome: the writes in the order in which they are     *)
(* made, and whether it ends in Ok.                                        *)
(***************************************************************************)
EXTENDS Naturals, FiniteSets, SequencesExt

CONSTANTS
    TableName,    \* names are sequences of letters, as prefixes matter
    ColumnName,   \* likewise
    Datum,        \* column values, Null included
    Null,         \* Value::Null
    None,         \* nothing stored; no filter; no default
    Datatype(_),  \* the type of a value other than Null
    Whole(_),     \* the Integer that a Float without fraction equals; any other value itself
    KeyBefore(_, _),  \* the order of the keys of rows in the store
    IdBefore(_, _)    \* the order of primary keys as values

\* The three kinds of keys.  The codec writes a name as its letters and nothing
\* after them: a table name and a column name run together, and the prefix of
\* the rows of a table is also a prefix of those of any table whose name
\* extends it.
TableKey(t) == [kind |-> "Table", name |-> t, value |-> Null]
RowKey(t, id) == [kind |-> "Row", name |-> t, value |-> id]
IndexKey(t, c, x) == [kind |-> "Index", name |-> t \o c, value |-> x]

StoreKey ==
    {TableKey(t) : t \in TableName}
      \cup {RowKey(t, id) : t \in TableName, id \in Datum \ {Null}}
      \cup {IndexKey(t, c, x) : t \in TableName, c \in ColumnName, x \in Datum}

Ids == Datum \ {Null}
RowKeySet == {RowKey(t, id) : t \in TableName, id \in Ids}

ASSUME DataAssumption ==
    /\ IsFiniteSet(TableName) /\ IsFiniteSet(Datum)
    /\ \A name \in TableName : name \in Seq(ToSet(name))

ASSUME OrdersAssumption ==
    LET TotalOrder(S, Before(_, _)) ==
          /\ \A x, y \in S : x # y <=> Before(x, y) \/ Before(y, x)
          /\ \A x, y, z \in S : Before(x, y) /\ Before(y, z) => Before(x, z)
    IN  TotalOrder(RowKeySet, KeyBefore) /\ TotalOrder(Ids, IdBefore)

\* The elements of a set, one after the other.
InOrder(S, Before(_, _)) ==
    CHOOSE seq \in [1..Cardinality(S) -> S] :
        \A i, j \in DOMAIN seq : i < j => Before(seq[i], seq[j])

\* txn.get of the key of a row, which may be one that cannot be stored.
ReadById(view, t, id) ==
    IF id \in Ids THEN view[RowKey(t, id)] ELSE None

-----------------------------------------------------------------------------
(* Outcomes                                                                *)

Start(view) == [view |-> view, writes |-> << >>, ok |-> TRUE, count |-> 0]

Err(o) == [o EXCEPT !.ok = FALSE]

\* txn.set, or txn.delete when x is None; nothing happens after an error.
Put(o, key, x) ==
    IF o.ok THEN [o EXCEPT !.view[key] = x,
                           !.writes = Append(@, [key |-> key, data |-> x])]
            ELSE o

-----------------------------------------------------------------------------
(* Schemas: a table is stored as the sequence of its columns               *)

Column == [name : ColumnName, datatype : {Datatype(x) : x \in Ids},
           nullable : BOOLEAN, default : Datum \cup {None},
           primary_key : BOOLEAN, index : BOOLEAN]

PrimaryKeyPos(cols) == CHOOSE i \in DOMAIN cols : cols[i].primary_key
GetPrimaryKey(cols, row) == row[PrimaryKeyPos(cols)]

IndexCols(cols) == InOrder({i \in DOMAIN cols : cols[i].index}, <)

Validate(cols) ==
    /\ cols # << >>
    /\ Cardinality({i \in DOMAIN cols : cols[i].primary_key}) = 1
    /\ \A i \in DOMAIN cols :
          /\ cols[i].primary_key => ~cols[i].nullable
          /\ cols[i].default \notin {None, Null} => Datatype(cols[i].default) = cols[i].datatype

\* The check of a new row, column by column.
Fits(cols, row) ==
    \A i \in DOMAIN cols :
        IF row[i] = Null THEN cols[i].nullable ELSE Datatype(row[i]) = cols[i].datatype

-----------------------------------------------------------------------------
(* Indexes: column value -> set of primary keys                            *)

LoadIndex(view, t, c, x) ==
    LET ids == view[IndexKey(t, c, x)] IN IF ids = None THEN {} ELSE ids

SaveIndex(o, t, c, x, ids) ==
    Put(o, IndexKey(t, c, x), IF ids = {} THEN None ELSE ids)

AddToIndex(o, t, c, x, id) == SaveIndex(o, t, c, x, LoadIndex(o.view, t, c, x) \cup {id})
RemoveFromIndex(o, t, c, x, id) == SaveIndex(o, t, c, x, LoadIndex(o.view, t, c, x) \ {id})

-----------------------------------------------------------------------------
(* Rows                                                                    *)

\* The rows a prefix scan for table t finds: its own, and those of tables whose
\* names extend its own.
RowKeys(view, t) ==
    {k \in DOMAIN view : k.kind = "Row" /\ IsPrefix(t, k.name) /\ view[k] # None}

CreateRowUnchecked(o, t, row) ==
    LET cols == o.view[TableKey(t)]
        id   == GetPrimaryKey(cols, row)
        Add(p, i) == AddToIndex(p, t, cols[i].name, row[i], id)
    IN  IF cols = None \/ ReadById(o.view, t, id) # None
        THEN Err(o)
        ELSE FoldLeft(Add, Put(o, RowKey(t, id), row), IndexCols(cols))
CreateRow(o, t, row) ==
    LET cols == o.view[TableKey(t)]
        id   == GetPrimaryKey(cols, row)
        Add(p, i) == AddToIndex(p, t, cols[i].name, row[i], id)
    IN  IF cols = None \/ ~Fits(cols, row) \/ ReadById(o.view, t, id) # None
        THEN Err(o)
        ELSE FoldLeft(Add, Put(o, RowKey(t, id), row), IndexCols(cols))

\* The indexes are loaded, changed in memory, and loaded again: not saved.
DeleteRow(o, t, cols, id) == Put(o, RowKey(t, id), None)

UpdateRowAddsOnly(o, t, cols, id, row) ==
    LET old == ReadById(o.view, t, id)
        Move(p, i) == IF old = None \/ old[i] = row[i] THEN p
                      ELSE AddToIndex(p, t, cols[i].name, row[i], id)
    IN  IF GetPrimaryKey(cols, row) # id THEN CreateRow(DeleteRow(o, t, cols, id), t, row)
        ELSE Put(FoldLeft(Move, o, IndexCols(cols)), RowKey(t, id), row)
UpdateRowRemovesOnly(o, t, cols, id, row) ==
    LET old == ReadById(o.view, t, id)
        Move(p, i) == IF old = None \/ old[i] = row[i] THEN p
                      ELSE RemoveFromIndex(p, t, cols[i].name, old[i], id)
    IN  IF GetPrimaryKey(cols, row) # id THEN CreateRow(DeleteRow(o, t, cols, id), t, row)
        ELSE Put(FoldLeft(Move, o, IndexCols(cols)), RowKey(t, id), row)
\* A changed primary key is a deletion and a creation; a changed column moves
\* the id from one index entry to another; the row is written last, unchecked.
UpdateRow(o, t, cols, id, row) ==
    LET old == ReadById(o.view, t, id)
        Move(p, i) == IF old = None \/ old[i] = row[i] THEN p
                      ELSE AddToIndex(RemoveFromIndex(p, t, cols[i].name, old[i], id),
                                      t, cols[i].name, row[i], id)
    IN  IF GetPrimaryKey(cols, row) # id THEN CreateRow(DeleteRow(o, t, cols, id), t, row)
        ELSE Put(FoldLeft(Move, o, IndexCols(cols)), RowKey(t, id), row)

CreateTable(o, t, cols) ==
    IF o.view[TableKey(t)] # None \/ ~Validate(cols) THEN Err(o) ELSE Put(o, TableKey(t), cols)

DropTableOnly(o, t) == Put(o, TableKey(t), None)
\* The rows a prefix scan finds, and the table; no index, and no check that
\* there is such a table.
DropTable(o, t) ==
    LET keys == InOrder(RowKeys(o.view, t), KeyBefore)
    IN  Put(FoldLeft(LAMBDA p, k : Put(p, k, None), o, keys), TableKey(t), None)

-----------------------------------------------------------------------------
(* Where the rows of a statement come from                                 *)

\* `l = r': Null, a Boolean, or None for the error that types do not match.
\* Numbers of both types are compared as numbers.
EvaluateEqual(l, r) ==
    CASE l = Null \/ r = Null                                  -> Null
      [] {Datatype(l), Datatype(r)} = {"Integer", "Float"}     -> Whole(l) = Whole(r)
      [] Datatype(l) # Datatype(r)                             -> None
      [] OTHER                                                 -> l = r

ColumnPos(cols, c) == {i \in DOMAIN cols : cols[i].name = c}

\* The rows with these keys, in the order of the keys.
RowsAt(view, keys) ==
    LET seq == InOrder(keys, KeyBefore) IN [i \in DOMAIN seq |-> view[seq[i]]]

\* The rows of a scan that a filter lets through, or None when its evaluation
\* fails on one of them: it is evaluated for rows only, so that a column that
\* does not exist is no error in an empty table.
ScanTable(view, t, where) ==
    LET keys == RowKeys(view, t)
        pos  == ColumnPos(view[TableKey(t)], where.field)
        Test(k) == EvaluateEqual(view[k][CHOOSE i \in pos : TRUE], where.value)
    IN  IF where = None \/ keys = {} THEN RowsAt(view, keys)
        ELSE IF pos = {} \/ \E k \in keys : Test(k) = None THEN None
        ELSE RowsAt(view, {k \in keys : Test(k) = TRUE})

\* An index scan trusts the index: rows that exist, whatever their column says.
IndexScan(view, t, c, x) ==
    LET seq == InOrder({id \in LoadIndex(view, t, c, x) : ReadById(view, t, id) # None}, IdBefore)
    IN  [i \in DOMAIN seq |-> ReadById(view, t, seq[i])]

\* A Float without fraction is looked up as an Integer, whatever the key's type.
PrimaryKeyScan(view, t, x) ==
    LET row == ReadById(view, t, Whole(x)) IN IF row = None THEN << >> ELSE << row >>

\* build_scan looks for the table only when there is a filter to plan for.
PlanFails(view, stmt) ==
    /\ stmt.kind \in {"Update", "Delete"}
    /\ stmt.where # None
    /\ view[TableKey(stmt.table)] = None

\* The rows of the scan node that build_scan chooses, or None for an error.
SourceRows(view, t, where) ==
    LET cols == view[TableKey(t)]
        pos  == ColumnPos(cols, where.field)
    IN  IF cols = None THEN None
        ELSE IF where = None THEN ScanTable(view, t, where)
        ELSE IF \E i \in pos : cols[i].primary_key THEN PrimaryKeyScan(view, t, where.value)
        ELSE IF \E i \in pos : cols[i].index THEN IndexScan(view, t, where.field, where.value)
        ELSE ScanTable(view, t, where)

-----------------------------------------------------------------------------
(* Statements                                                              *)

Condition == [field : ColumnName, value : Datum] \cup {None}

Statement ==
    [kind : {"CreateTable"}, table : TableName, columns : Seq(Column)]
      \cup [kind : {"DropTable"}, table : TableName]
      \cup [kind : {"Insert"}, table : TableName, names : Seq(ColumnName), rows : Seq(Seq(Datum))]
      \cup [kind : {"Update"}, table : TableName, where : Condition,
             set : UNION {[C -> Datum] : C \in SUBSET ColumnName}]
      \cup [kind : {"Delete"}, table : TableName, where : Condition]

\* A row without column names is filled up with defaults on the right; one
\* that is too long is left as it is.
PadRow(cols, values) ==
    IF \E i \in DOMAIN cols : i > Len(values) /\ cols[i].default = None THEN None
    ELSE values \o [j \in 1..(IF Len(values) < Len(cols) THEN Len(cols) - Len(values) ELSE 0) |->
                      cols[Len(values) + j].default]

\* With column names, each column takes the last value given for its name.
MakeRow(cols, names, values) ==
    LET given(c) == {i \in DOMAIN names : names[i] = c}
    IN  IF \/ Len(names) # Len(values)
           \/ \E i \in DOMAIN cols : given(cols[i].name) = {} /\ cols[i].default = None
        THEN None
        ELSE [i \in DOMAIN cols |->
                IF given(cols[i].name) # {} THEN values[Max(given(cols[i].name))]
                                            ELSE cols[i].default]

Insert(o, t, names, rows) ==
    LET cols == o.view[TableKey(t)]
        InsertRow(p, values) ==
          LET row == IF names = << >> THEN PadRow(cols, values) ELSE MakeRow(cols, names, values)
          IN  IF ~p.ok THEN p ELSE IF row = None THEN Err(p) ELSE CreateRow(p, t, row)
    IN  IF cols = None THEN Err(o)
        ELSE [FoldLeft(InsertRow, o, rows) EXCEPT !.count = Len(rows)]

\* (A row shorter than the columns, which a scan can only find among those of
\* another table, makes the server's task panic; the columns it lacks are left
\* alone here, and the instances have tables of one width.)
Update(o, t, where, set) ==
    LET cols == o.view[TableKey(t)]
        rows == SourceRows(o.view, t, where)
        Changed(row) == [i \in DOMAIN row |->
                           IF i \in DOMAIN cols /\ cols[i].name \in DOMAIN set
                           THEN set[cols[i].name] ELSE row[i]]
        UpdateOne(p, row) ==
          IF p.ok THEN UpdateRow(p, t, cols, GetPrimaryKey(cols, row), Changed(row)) ELSE p
    IN  IF rows = None THEN Err(o)
        ELSE [FoldLeft(UpdateOne, o, rows) EXCEPT !.count = Len(rows)]

Delete(o, t, where) ==
    LET cols == o.view[TableKey(t)]
        rows == SourceRows(o.view, t, where)
        DeleteOne(p, row) == DeleteRow(p, t, cols, GetPrimaryKey(cols, row))
    IN  IF rows = None THEN Err(o)
        ELSE [FoldLeft(DeleteOne, o, rows) EXCEPT !.count = Len(rows)]

\* Plan and execution of a statement on a view.
Execute(view, stmt) ==
    LET o == Start(view)
    IN  CASE stmt.kind = "CreateTable" -> CreateTable(o, stmt.table, stmt.columns)
          [] stmt.kind = "DropTable"   -> DropTable(o, stmt.table)
          [] stmt.kind = "Insert"      -> Insert(o, stmt.table, stmt.names, stmt.rows)
          [] stmt.kind = "Update"      -> Update(o, stmt.table, stmt.where, stmt.set)
          [] stmt.kind = "Delete"      -> Delete(o, stmt.table, stmt.where)

=============================================================================
