-------------------------------- MODULE Sql --------------------------------
(***************************************************************************)
(* SQL sessions (src/src/sql/engine/mod.rs) that run the statements of     *)
(* Tables in transactions of the store, explicit ones and autocommit.      *)
(*                                                                         *)
(* The store is SnapshotIsolation, which Mvcc implements.  Each write of a *)
(* statement is a step of its own, as each takes the engine's mutex: the   *)
(* statements of concurrent sessions run into each other.                  *)
(***************************************************************************)
EXTENDS Tables

CONSTANTS
    Session,            \* connections
    Unwritten,          \* see SnapshotIsolation
    Idle,               \* no statement is being executed
    Statements,         \* the statements clients send
    InitialStatements,  \* a sequence of them, executed before
    MaxStatements,      \* bound on the statements in a behaviour
    ConnectionsEnd      \* whether connections and the process may end

ASSUME StatementsAssumption == Statements \subseteq Statement

ASSUME SqlBoundsAssumption == MaxStatements \in Nat /\ ConnectionsEnd \in BOOLEAN

VARIABLES
    db, live, snapshot, own, missed, locked,  \* the store
    in_txn,      \* Session::txn is some: an explicit transaction is open
    running,     \* the statement being executed: what it has still to do
    gained,      \* history: rows inserted less rows deleted by the open transaction, as the
                 \*          results of its statements report them; of a statement that
                 \*          failed, which reports none, those it has left in the store
    reported,    \* history: the same, of the committed transactions
    broken,      \* history: keys of the rows that statements of the open transaction, cut
                 \*          by a conflict after some of their writes, were to write
    halfway,     \* history: the same, of the transactions committed all the same
    deleted,     \* history: keys of rows that were deleted, committed or not
    misfits,     \* history: keys of rows that were written though they do not fit their
                 \*          table, committed or not
    skewed,      \* history: tables dropped or created by one transaction while another,
                 \*          that did not see it, wrote rows of them: both committed
    statements   \* statements so far

store == <<db, live, snapshot, own, missed, locked>>
session == <<in_txn, running, gained, reported, broken, halfway,
             deleted, misfits, skewed, statements>>
vars == <<store, session>>

\* What the store holds beside None: schemas, rows and sets of primary keys.
Stored == Seq(Column) \cup Seq(Datum) \cup SUBSET (Datum \ {Null})

ASSUME SqlMarkersAssumption ==
    /\ None # Unwritten
    /\ {None, Unwritten} \cap (Seq(Column) \cup Seq(Datum)) = {}
    /\ \A ids \in SUBSET Ids : ids \notin {None, Unwritten}

Store == INSTANCE SnapshotIsolation WITH Key <- StoreKey, Value <- Stored

View(s) == [k \in StoreKey |-> Store!Read(s, k)]

\* The row is one of a table with these columns.
IsRowOf(cols, row) == Len(row) = Len(cols) /\ Fits(cols, row)

InitialDb ==
    FoldLeft(LAMBDA view, stmt : Execute(view, stmt).view,
             [k \in StoreKey |-> None], InitialStatements)

\* Clients find a database without the flaws looked for here: every row is one
\* of a table.
ASSUME InitialDbAssumption ==
    /\ InitialDb = [k \in StoreKey |-> InitialDb[k]]
    /\ \A t \in TableName : InitialDb[TableKey(t)] \in Seq(Column) \cup {None}
    /\ \A t \in TableName, id \in Ids :
          InitialDb[RowKey(t, id)] # None =>
              /\ InitialDb[TableKey(t)] # None
              /\ InitialDb[RowKey(t, id)] \in Seq(Datum)
              /\ IsRowOf(InitialDb[TableKey(t)], InitialDb[RowKey(t, id)])

Init ==
    /\ db = InitialDb
    /\ live = {}
    /\ snapshot = [s \in Session |-> [k \in StoreKey |-> None]]
    /\ own = [s \in Session |-> [k \in StoreKey |-> Unwritten]]
    /\ missed = [s \in Session |-> {}]
    /\ locked = {}
    /\ in_txn = [s \in Session |-> FALSE]
    /\ running = [s \in Session |-> Idle]
    /\ gained = [s \in Session |-> 0]
    /\ reported = 0
    /\ broken = [s \in Session |-> {}]
    /\ halfway = {}
    /\ deleted = {}
    /\ misfits = {}
    /\ skewed = {}
    /\ statements = 0

\* What is known to be let through: any row that an UPDATE makes, and values
\* beyond the last column.
Unchecked(kind, cols, row) ==
    /\ cols # None
    /\ \/ kind = "Update" /\ ~IsRowOf(cols, row)
       \/ Len(row) > Len(cols) /\ Fits(cols, row)

-----------------------------------------------------------------------------
(* Transaction commands                                                    *)

\* The session's transaction is over, explicit or not.
Over(s) ==
    /\ in_txn' = [in_txn EXCEPT ![s] = FALSE]
    /\ running' = [running EXCEPT ![s] = Idle]
    /\ gained' = [gained EXCEPT ![s] = 0]
    /\ broken' = [broken EXCEPT ![s] = {}]
    /\ UNCHANGED <<deleted, misfits, statements>>

\* The tables of which the session's transaction writes rows and somebody else
\* has committed the definition since it began, or the other way round.
Skew(s) ==
    LET Row(t, k) == k.kind = "Row" /\ k.name = t
        wrote == Store!Written(s)
    IN  {t \in TableName :
            \/ TableKey(t) \in missed[s] /\ \E k \in wrote : Row(t, k)
            \/ TableKey(t) \in wrote /\ \E k \in missed[s] : Row(t, k)}

\* The end that publishes what the transaction wrote.
CommitStore(s, gain) ==
    /\ Store!Commit(s)
    /\ skewed' = skewed \cup Skew(s)
    /\ reported' = reported + gain

Begin(s) ==
    /\ running[s] = Idle
    /\ ~in_txn[s]
    /\ Store!Begin(s)
    /\ in_txn' = [in_txn EXCEPT ![s] = TRUE]
    /\ UNCHANGED <<running, gained, reported, broken, halfway,
                   deleted, misfits, skewed, statements>>

\* COMMIT is accepted whatever became of the transaction's statements.
Commit(s) ==
    /\ running[s] = Idle
    /\ in_txn[s]
    /\ CommitStore(s, gained[s])
    /\ halfway' = halfway \cup broken[s]
    /\ Over(s)

Rollback(s) ==
    /\ running[s] = Idle
    /\ in_txn[s]
    /\ Store!Rollback(s)
    /\ UNCHANGED <<reported, halfway, skewed>>
    /\ Over(s)

-----------------------------------------------------------------------------
(* Statements                                                              *)

Gain(stmt, count) ==
    CASE stmt.kind = "Insert" -> count
      [] stmt.kind = "Delete" -> 0 - count
      [] OTHER                -> 0

RowCount(view) == Cardinality({k \in StoreKey : k.kind = "Row" /\ view[k] # None})

\* The keys of rows among those to be written.
RowsWritten(todo) == {k \in {todo[i].key : i \in DOMAIN todo} : k.kind = "Row"}

\* Beside what is left to do and the result: the rows a conflict would leave
\* half-written, none before the first write, and how many there were before.
Run(s, stmt, view) ==
    LET o == Execute(view, stmt)
    IN  running' = [running EXCEPT ![s] =
                      [kind |-> stmt.kind, todo |-> o.writes, ok |-> o.ok,
                       gain |-> IF o.ok THEN Gain(stmt, o.count) ELSE 0,
                       rows |-> {}, before |-> RowCount(view)]]

\* A statement inside an explicit transaction.
ExecuteInTxn(s, stmt) ==
    /\ running[s] = Idle
    /\ in_txn[s]
    /\ statements < MaxStatements
    /\ statements' = statements + 1
    /\ Run(s, stmt, View(s))
    /\ UNCHANGED <<store, in_txn, gained, reported, broken, halfway, deleted, misfits, skewed>>

\* One outside: a transaction is begun for it.  Where planning fails, it is
\* dropped on the spot, neither committed nor rolled back; having written
\* nothing, it leaves no trace in the store.
Autocommit(s, stmt) ==
    /\ running[s] = Idle
    /\ ~in_txn[s]
    /\ statements < MaxStatements
    /\ statements' = statements + 1
    /\ \/ /\ PlanFails(db, stmt)
          /\ UNCHANGED <<store, running>>
       \/ /\ ~PlanFails(db, stmt)
          /\ Store!Begin(s)
          /\ Run(s, stmt, db)
    /\ UNCHANGED <<in_txn, gained, reported, broken, halfway, deleted, misfits, skewed>>

\* The next write of the statement, or the conflict that ends it.
Write(s) ==
    /\ running[s] # Idle
    /\ running[s].todo # << >>
    /\ LET w == Head(running[s].todo)
       IN  \/ /\ Store!Write(s, w.key, w.data)
              /\ running' = [running EXCEPT ![s].todo = Tail(@),
                                            ![s].rows = @ \cup RowsWritten(running[s].todo)]
              /\ deleted' = IF w.key.kind = "Row" /\ w.data = None
                            THEN deleted \cup {w.key} ELSE deleted
              /\ misfits' = IF w.key.kind = "Row" /\ w.data # None
                               /\ Unchecked(running[s].kind, View(s)[TableKey(w.key.name)], w.data)
                            THEN misfits \cup {w.key} ELSE misfits
              /\ UNCHANGED broken
           \/ /\ ~Store!Free(s, w.key)
              /\ running' = [running EXCEPT ![s].todo = << >>, ![s].rows = {},
                                            ![s].ok = FALSE, ![s].gain = 0]
              /\ broken' = [broken EXCEPT ![s] = @ \cup running[s].rows]
              /\ UNCHANGED <<store, deleted, misfits>>
    /\ UNCHANGED <<in_txn, gained, reported, halfway, skewed, statements>>

\* By how many rows there are more after the statement.
Gained(s) ==
    IF running[s].ok THEN running[s].gain ELSE RowCount(View(s)) - running[s].before

\* The result goes to the client; autocommit ends its transaction first.
FinishCommitsAlways(s) ==
    /\ running[s] # Idle
    /\ running[s].todo = << >>
    /\ \/ /\ in_txn[s]
          /\ running' = [running EXCEPT ![s] = Idle]
          /\ gained' = [gained EXCEPT ![s] = @ + Gained(s)]
          /\ UNCHANGED <<store, in_txn, reported, broken, halfway,
                         deleted, misfits, skewed, statements>>
       \/ /\ ~in_txn[s]
          /\ CommitStore(s, running[s].gain)
          /\ UNCHANGED halfway
          /\ Over(s)
Finish(s) ==
    /\ running[s] # Idle
    /\ running[s].todo = << >>
    /\ \/ /\ in_txn[s]
          /\ running' = [running EXCEPT ![s] = Idle]
          /\ gained' = [gained EXCEPT ![s] = @ + Gained(s)]
          /\ UNCHANGED <<store, in_txn, reported, broken, halfway,
                         deleted, misfits, skewed, statements>>
       \/ /\ ~in_txn[s]
          /\ running[s].ok
          /\ CommitStore(s, running[s].gain)
          /\ UNCHANGED halfway
          /\ Over(s)
       \/ /\ ~in_txn[s]
          /\ ~running[s].ok
          /\ Store!Rollback(s)
          /\ UNCHANGED <<reported, halfway, skewed>>
          /\ Over(s)

-----------------------------------------------------------------------------
(* Connections and the process                                             *)

\* The connection ends between two requests, with a transaction open.
Disconnect(s) ==
    /\ ConnectionsEnd
    /\ running[s] = Idle
    /\ in_txn[s]
    /\ Store!Abandon(s)
    /\ UNCHANGED <<reported, halfway, skewed>>
    /\ Over(s)

\* The process dies and is started again, at any point of any statement.
Restart ==
    /\ ConnectionsEnd
    /\ live # {}
    /\ Store!Crash(UNION {Store!Written(s) : s \in live})
    /\ in_txn' = [s \in Session |-> FALSE]
    /\ running' = [s \in Session |-> Idle]
    /\ gained' = [s \in Session |-> 0]
    /\ broken' = [s \in Session |-> {}]
    /\ UNCHANGED <<reported, halfway, deleted, misfits, skewed, statements>>

Next ==
    \/ \E s \in Session :
          \/ Begin(s)
          \/ Commit(s)
          \/ Rollback(s)
          \/ \E stmt \in Statements : ExecuteInTxn(s, stmt) \/ Autocommit(s, stmt)
          \/ Write(s)
          \/ Finish(s)
          \/ Disconnect(s)
    \/ Restart

Spec == Init /\ [][Next]_vars

-----------------------------------------------------------------------------
(* Properties                                                              *)

TablesIn(view) == {t \in TableName : view[TableKey(t)] # None}
RowsIn(view, t) == {id \in Datum \ {Null} : view[RowKey(t, id)] # None}
IndexedColumns(view, t) == {i \in DOMAIN view[TableKey(t)] : view[TableKey(t)][i].index}

\* The database as it is committed and as each open transaction sees it
\* between two of its statements, with the rows that a statement cut half-way
\* by a conflict may have left with wrong index entries.
Views ==
    {[map |-> db, broken |-> halfway]}
      \cup {[map |-> View(s), broken |-> halfway \cup broken[s]] :
              s \in {r \in Session : in_txn[r] /\ running[r] = Idle}}

\* Every row is in every index of its table under its value, so that an index
\* scan misses nothing, whatever statements ran into each other, failed or were
\* rolled back by autocommit - but for the rows of a statement that met a
\* conflict after its first write, in a transaction that goes on or is
\* committed all the same: the session lets COMMIT follow a failed statement.
IndexComplete ==
    \A view \in Views : \A t \in TablesIn(view.map) :
        \A id \in RowsIn(view.map, t), i \in IndexedColumns(view.map, t) :
            \/ id \in LoadIndex(view.map, t, view.map[TableKey(t)][i].name,
                                view.map[RowKey(t, id)][i])
            \/ RowKey(t, id) \in view.broken

\* An index lists no row under a value that is not the row's, unless the row,
\* or one before it with its primary key, was deleted or was, as above, one of
\* a statement cut half-way whose transaction goes on or was committed.
IndexExactUntilDeleted ==
    \A view \in Views : \A t \in TablesIn(view.map) :
        \A i \in IndexedColumns(view.map, t), x \in Datum :
            \A id \in LoadIndex(view.map, t, view.map[TableKey(t)][i].name, x) :
                \/ RowKey(t, id) \in deleted \cup view.broken
                \/ id \in RowsIn(view.map, t) /\ view.map[RowKey(t, id)][i] = x

\* Selecting by an indexed column finds the rows that have the value and no
\* others.  (= NULL is left out: it selects nothing by definition.)
IndexScanExact ==
    \A view \in Views : \A t \in TablesIn(view.map) :
        \A i \in IndexedColumns(view.map, t), x \in Datum \ {Null} :
            LET found == IndexScan(view.map, t, view.map[TableKey(t)][i].name, x)
            IN  ToSet(found) = {view.map[RowKey(t, id)] :
                                  id \in {j \in RowsIn(view.map, t) :
                                            view.map[RowKey(t, j)][i] = x}}

\* The numbers of rows that INSERT and DELETE report add up, with what failed
\* statements of committed transactions left in the store, which no result
\* reports: no row is inserted over another, deleted twice or lost by a
\* concurrent UPDATE, and a failed statement outside a transaction changes
\* nothing.
CountsAddUp == RowCount(db) = RowCount(InitialDb) + reported

\* A row outlives its table only if the table was dropped by one transaction
\* while another, that still saw it, inserted the row, and both committed.
RowsBelongToTable ==
    \A t \in TableName \ skewed : RowsIn(db, t) # {} => t \in TablesIn(db)

\* Every row has the width, the types and the NOT NULL columns of the table
\* there is now, however often it was dropped and created with others - but
\* for the rows UPDATE writes, which it does not check, those INSERT without
\* column names is given too many values for, and the skewed tables.
RowsFitTable ==
    \A t \in TablesIn(db) \ skewed : \A id \in RowsIn(db, t) :
        \/ IsRowOf(db[TableKey(t)], db[RowKey(t, id)])
        \/ RowKey(t, id) \in misfits

=============================================================================
