------------------------------ MODULE SqlTidy ------------------------------
(***************************************************************************)
(* A store whose indexes are exact, and instances whose statements keep    *)
(* them so.                                                                *)
(***************************************************************************)
EXTENDS Sql

\* The keys of the rows of a table, and of its index entries, are not those of
\* another one, nor found in a scan of its rows.
NamesApart ==
    /\ \A t, u \in TableName : IsPrefix(t, u) => t = u
    /\ \A t, u \in TableName, c, d \in ColumnName, x \in Datum :
          IndexKey(t, c, x) = IndexKey(u, d, x) => t = u /\ c = d

\* Statements on rows only.
OnlyRows == \A stmt \in Statements : stmt.kind \in {"Insert", "Update", "Delete"}

\* A table has a primary key, and no two indexed columns of one name.
WellFormed(cols) ==
    /\ cols \in Seq(Column)
    /\ PrimaryKeyPos(cols) \in DOMAIN cols /\ ~cols[PrimaryKeyPos(cols)].nullable
    /\ \A i, j \in DOMAIN cols :
          cols[i].index /\ cols[j].index /\ cols[i].name = cols[j].name => i = j

EntriesTyped(view) ==
    \A t \in TableName, c \in ColumnName, x \in Datum :
        view[IndexKey(t, c, x)] = None \/ view[IndexKey(t, c, x)] \subseteq Ids

\* A row is stored under its primary key, and is as wide as its table.
RowOf(cols, id, row) ==
    cols # None /\ row \in Seq(Datum) /\ Len(cols) <= Len(row) /\ GetPrimaryKey(cols, row) = id

\* The row is in the index entries of its values.
Indexed(view, t, id, cols, row) ==
    \A i \in DOMAIN cols : cols[i].index => id \in LoadIndex(view, t, cols[i].name, row[i])

\* And in no others, unless it was deleted.
OnlyIndexed(view, t, id, cols, row) ==
    \A i \in DOMAIN cols, x \in Datum :
        cols[i].index /\ id \in LoadIndex(view, t, cols[i].name, x) => row # None /\ row[i] = x

\* Of a row that may have been left half-written the index entries say nothing.
TidyRow(view, gone, bad, t, id) ==
    LET cols == view[TableKey(t)]
        row  == view[RowKey(t, id)]
    IN  /\ row # None => RowOf(cols, id, row)
        /\ row # None /\ RowKey(t, id) \notin bad => Indexed(view, t, id, cols, row)
        /\ cols # None /\ RowKey(t, id) \notin gone \cup bad => OnlyIndexed(view, t, id, cols, row)

\* But for the rows deleted and those left half-written.
Tidy(view, gone, bad) ==
    /\ \A t \in TableName : view[TableKey(t)] # None => WellFormed(view[TableKey(t)])
    /\ EntriesTyped(view)
    /\ \A t \in TableName, id \in Ids : TidyRow(view, gone, bad, t, id)

=============================================================================
