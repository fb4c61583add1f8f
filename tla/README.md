# sqldb: TLA+ models, model checking and proofs

This directory specifies the SQL database whose Rust sources are in the
repository: an SQL front end over tables, kept in an ordered key-value store
under multi-version concurrency control, on a log-structured disk engine,
served over TCP.

Paths such as `storage/mvcc.rs` are relative to the crate's `src/`.

## 1. The system

```
 bin/client.rs --TCP lines--> bin/server.rs  one task per connection
                                   |
                              sql/engine/mod.rs   Session: at most one open transaction
                                   |
       parser -> plan/planner.rs -> plan -> executor/*     one statement
                                   |
                              sql/engine/kv.rs    tables, rows and indexes as keys
                                   |
                              storage/mvcc.rs     versions, snapshots, conflicts
                                   |
             storage/disk.rs or storage/memory.rs     an ordered map of byte strings
```

Every connection owns a `Session`; all sessions share one `Mvcc`, which is an
`Arc<Mutex<engine>>`.  Each transactional operation (begin, get, set, delete,
scan, commit, rollback) takes that mutex on its first line and keeps it until it
returns; nothing is held between two operations.  So the unit of interleaving is
one operation of `mvcc.rs`, not a statement and not a transaction.

### Components

| Component | State | Operations | What makes it correct |
|---|---|---|---|
| MVCC transactions, `storage/mvcc.rs` | engine keys `NextVersion`, `TxnActive(v)`, `TxnWrite(v,k)`, `Version(k,v)`; the handle (version, active versions) each session holds | begin, get, set, delete, scan_prefix, commit, rollback; dropping a handle; reopening | snapshot isolation; get and scan agree; the one-version conflict check is exact; the undo log is complete; commit and rollback are atomic under crashes |
| Disk engine, `storage/disk.rs` | the log file, the `.compact` file, the in-memory index (`keydir`) | set, delete, get, scan, open, open with compaction | the log with its index is a map; nothing acknowledged is lost; a deleted key stays deleted |
| Engine trait, memory engine, `storage/engine.rs`, `storage/memory.rs` | a `BTreeMap` | set, get, delete, scan, scan_prefix | is a map; prefix scan returns exactly the keys with the prefix |
| Key codec, `storage/keycode.rs` | none | encode, decode | order-preserving, injective, a prefix encodes to a prefix of exactly the intended keys |
| Tables, `sql/engine/kv.rs`, `sql/schema.rs` | keys `Table`, `Row`, `Index` inside a transaction | create/drop table, create/update/delete row, scan, index load/save | primary keys are unique; an index lists exactly the rows it should; a dropped table leaves nothing |
| Session, `sql/engine/mod.rs` | the open transaction, or none | execute (BEGIN, COMMIT, ROLLBACK, EXPLAIN, autocommit), SHOW TABLE(S) | a transaction that was begun is ended; a failed autocommit statement has no effect |
| Server and client, `bin/*.rs` | connections; the client's idea of its open transaction | connect, request, reply, disconnect, quit | one reply per request, in order; client and server agree on whether a transaction is open |
| Lexer, parser, AST, `sql/parser/*` | the position in the text | parse; `evaluate_expr` | expressions evaluate as SQL says; NULL is neither true nor false |
| Planner, `sql/plan/*` | none | build a plan tree, choose the scan | an index or key lookup returns what the table scan with the filter would |
| Executors, `sql/executor/*` | none of their own | insert, update, delete, scan, join, aggregate, order, limit, offset | joins equal their relational definition; groups partition the rows |
| Values, results, errors, `sql/types`, `error.rs` | none | comparison, formatting | equality, hash and order of values agree |

### How they interact, and what is hard

* **Concurrency.** Sessions interleave operation by operation.  A transaction
  reads through a list of versions that was current when it began, while others
  begin, write, commit and roll back.  The conflict check looks at *one* version
  of the key, whatever the number of versions above the transaction's horizon.
* **Partial failure.** `begin`, `write_inner`, `commit` and `rollback` make
  several engine writes each and return at the first that fails; the session
  keeps its handle if `commit` or `rollback` fails, and may try again.
* **Crashes.** The process may stop between any two engine writes.  Nothing
  cleans up at a restart: correctness rests on the order of the writes.
  The disk engine may die between two entries of a compaction, around its
  rename, or in the middle of an append.
* **Lost handles.** A connection that ends drops its session.  There is no
  `Drop` for a transaction, so what it wrote stays, invisible and locking.
* **Write skew.** Snapshot isolation lets two transactions act on what they
  read; the table layer's invariants (no row without a table, indexes that match
  rows) relate several keys.
* **Time.** There are no timeouts and no retries in the code.

The full list of hazards, line by line, with the properties that cover each, is
in `PROJECT.json` under `hazards`.

## 2. The modules

| Module | Models | Depends on |
|---|---|---|
| `SnapshotIsolation` | abstract: what a transaction layer promises | |
| `Mvcc` | `storage/mvcc.rs`, one action per operation | `SnapshotIsolation` (refinement) |
| `MvccSteps` | `storage/mvcc.rs`, one action per engine write | `Mvcc`, `SnapshotIsolation` |
| `MvccProofs` | invariants of `Mvcc`, that `scan_prefix` agrees with `get`, and that `Mvcc` implements `SnapshotIsolation`; the same for `MvccSteps`: proved | `MvccSteps` |
| `Keycode` | `storage/keycode.rs` and `Engine::scan_prefix`: keys as byte strings, in the engine's order | |
| `KeycodeProofs` | invariants of `Keycode`, proved | `Keycode`, `Induction` |
| `KvEngine` | abstract: what an operation of the `Engine` trait does; `storage/memory.rs` | |
| `DiskEngine` | `storage/disk.rs`, one action per operation, per copied entry of a compaction, and per way of dying | `KvEngine` (refinement) |
| `DiskEngineProofs` | invariants of `DiskEngine`, and that it implements `KvEngine`, proved | `DiskEngine` |
| `Tables` | `sql/engine/kv.rs`, `sql/executor/mutation.rs` and `schema.rs`, the scans of `query.rs`, the choice of a scan in `planner.rs`: pure operators | |
| `Sql` | `sql/engine/mod.rs`: sessions that run the statements of `Tables` on a snapshot-isolated store, one action per write | `Tables`, `SnapshotIsolation` (composition) |
| `SqlProofs` | invariants of `Sql` over the operators of `Tables`, proved | `Sql`, `Induction` |
| `SqlTidy` | a store whose indexes are exact, but for given rows: what the next module's theorems ask of an instance | `Sql` |
| `SqlIndexProofs` | indexes and reported numbers of `Sql`, proved | `SqlProofs`, `SqlTidy` |
| `Induction` | induction over numbers, finite sets listed in an order, and folds of sequences, proved | |
| `Expressions` | `sql/types/mod.rs`, the expressions of `parser/ast.rs`, the arithmetic of `parser/lexer.rs`: values, their order, evaluation | |
| `Parser` | `sql/parser/mod.rs` on the tokens of a statement | `Expressions` |
| `Scans` | tables as a SELECT sees them, the choice of a scan in `planner.rs`, the scans and the filter of `executor/query.rs` | `Expressions` |
| `Nodes` | `executor/join.rs`, `agg.rs`, and order, offset, limit and projection of `query.rs`: what a node makes of its sources' results | `Scans` |
| `Planner` | `sql/plan/planner.rs`, the nodes of `sql/plan/mod.rs` and their display | `Scans` |
| `Executor` | `Executor::build`: the nodes of a SELECT at work | `Planner`, `Nodes` |
| `ExecutorProofs` | the choice of a scan and the nodes of a SELECT, proved | `Nodes`, `Induction` |
| `Grammar` | reference: the statements there are, how each is written and what it means; no code | `Expressions` |
| `Queries` | one call of `Session::execute`: text, statement, plan, answer | `Parser`, `Executor` (composition), `Grammar` (reference) |
| `Server` | `bin/server.rs`, `bin/client.rs` and the transactions of `Session`: requests, answers, connections, one action per line sent or read | |
| `ServerProofs` | invariants of `Server`, proved | `Server` |
| `MCMvcc`, `MCMvccSteps`, `MCDiskEngine`, `MCKeycode`, `MCSql`, `MCQueries`, `MCServer` | instances for TLC | |

A definition written `Xyz` next to one called, say, `XyzKeepsData` or
`XyzDataFirst` is the code's; the other is `Xyz` with a plausible bug in it.
No specification uses those: they show that a property would notice.

### `SnapshotIsolation`

The abstract store has no versions: a committed database `db`, and for each open
transaction its private `snapshot`, its `own` writes, and the keys it `missed`
because somebody committed them after the snapshot.  A write is allowed exactly
when the key is `Free`; a commit publishes all own writes in one step.
`locked` is the price of having no clean-up: keys written by a transaction whose
handle is gone.  A crash ends all transactions; of what they had written, a part
may have been released already by a rollback that was under way.

### `Mvcc`

The ordered map is split by kind of key, because the four kinds never meet in a
scan (`Keycode` checks that): `next_version`, `txn_active`, `txn_write[v]`, `versions[k][v]` with
`Absent` for a key that is not there and `None` for the stored deletion.  `txn`
holds the handles.

| Action or operator | Code |
|---|---|
| `Begin` | `MvccTransaciton::begin` |
| `WriteConflict`, `ConflictFrom`, `WriteInner` | `write_inner`: the scanned range, the look at its last version, the two writes |
| `Set`, `Delete` | `set`, `delete` (a delete stores `None`) |
| `Commit`, `Rollback` | `commit`, `rollback` |
| `Get` | `get`: the reverse walk to the first visible version |
| `ScanPrefix` | `scan_prefix`: the forward replay of inserts and removals |
| `IsVisible` | `TransactionState::is_visible` |
| `Abandon` | a `Session` dropped when `handle_request` returns |
| `Restart` | the process ends and `Mvcc::new` wraps the old data |

A refused write (`WriteConflict`) changes nothing and is therefore no step; that
it is refused *exactly* when it must be is `ConflictCheckExact`, and also half of
the refinement.  A rollback under `Mvcc` is one step, as the mutex makes it.

`AbsDb`, `AbsSnapshot`, `AbsOwn`, `AbsMissed` and `AbsLocked` read the abstract
state off the concrete one.  They use the set of versions, not `Get`; `ReadsSnapshot`
then says that `get` computes what the abstraction says.

### `MvccSteps`

`Lock` takes the mutex and works out the list of engine writes the operation is
going to make; `EngineStep` makes the next one; `EngineError` is an engine write
that answers `Err`, upon which the operation returns and the handle stays as it
was; `Crash` drops every handle and the operation under way.  A failing write
leaves no trace: the failure of an append that did reach the file is a torn
append and is looked at in `DiskEngine`.  All reads of an operation precede its
first write in the code and nobody else can write in between, so reading at
`Lock` loses nothing.  `rolled_back`, `unlogged` (writes a failed commit took off the undo log),
and `before` inside `op`, are history.

### `Keycode`

The engine orders byte strings.  `Mvcc` takes for granted that the keys of its four kinds stay
apart, that a range between two versions of a key finds the versions of that key in
their order, and that a prefix finds the keys that begin with it; `Tables` takes for granted
which of its keys coincide and what the prefix of a table's rows finds.  `Keycode` translates
the encoding byte by byte and checks each of these on whatever is stored.  `Encode`, `EncodeSql`,
`EncodeValue` are the serializer on `MvccKey`, `Key` and `Value`; `NextBytes` and `Decode` the
deserializer; `Scan` and `ScanPrefix` the engine's, with the carry over bytes of 255.
Strings of `kv.rs` (names, string values) have no terminator and `RowScanCovers` says how far
the scan of a table is right all the same: all its rows, and those of tables whose name begins with its own.

### `DiskEngine`

A file is a sequence of cells: one per key byte, one per value byte, and one for
each size in the header.  Offsets and sizes are counted as in the code, so the
index (`keydir`) holds real positions and a wrong one reads the wrong cells.  Keys
and values include the empty string, because `TxnActive` and `TxnWrite` store
empty values.  A size read at the wrong place is whatever cell is there; this is
coarser than the code, where the sizes are four bytes each.

| Action | Code |
|---|---|
| `Set`, `Delete` | `set`, `delete`: append, then the index |
| `New` | `new`: replay the file (`build_keydir`) |
| `NewCompact`, `CompactEntry`, `CompactRename` | `new_compact` and the loop and the rename of `compact` |
| `Crash` | the engine dropped, or the process gone, with the file as it is |
| `CrashInWrite` | the machine gone in the middle of `write_entry` |

`build_keydir` is a loop; `Turn` is one turn of it, from an offset and the index so far, and `Loop` takes as many turns
as the file has cells, which is more than it needs.  A file that ends in the middle of an entry ends the loop with
an error, and the engine does not open.  `engine` says whether there is one (and whether it is compacting); the index of
a closed engine is empty.

`ImplementsKvEngine` ties each action to the map's operation of the same name; opening, every step of a
compaction and dying must leave the map as it is (`Internal`), so that a restart that lost or brought back a key would not pass for a `set` or a `delete`.

`acked`, `torn` and `fresh` (keys written since the engine was opened) are history.  The `.compact` file survives in `compact_log`
when a compaction dies; `Log::new` opens it without truncating it, and so does
`NewCompact`.

### `Tables` and `Sql`

`Tables` turns a statement into what it does: a function from a transaction's view
(key to stored value) to an *outcome*, the list of writes in their order, and
whether the statement ends in Ok.  This is where `StableReads` and `ReadsSnapshot`
pay off: as nothing a transaction reads changes under it, a statement may read
everything at its start, although in the code reads and writes alternate.  Each
method of `KVTransaction` is an operator on outcomes (`CreateRow`, `UpdateRow`,
`DeleteRow`, `CreateTable`, `DropTable`, `LoadIndex`, `SaveIndex`), as is each
executor (`Insert`, `Update`, `Delete`).  Keys are records, but names are sequences
of letters: the codec puts no terminator after them, so the prefix of one table's
rows may be a prefix of another's, and table and column names of an index key run
together.  Values are integers, Floats and NULL; a schema is a sequence of
columns.  A Float without fraction equals an Integer in a comparison and finds the row of an Integer key (`Whole`, a constant function: the
Integer it equals).  The two orders that decide in which order rows are visited, that of the encoded keys of rows (`KeyBefore`, a prefix
scan) and that of primary keys as values (`IdBefore`, the sort in `IndexScan`), are constants, of which is only known that they are
total orders (`OrdersAssumption`); `MCSql` gives them.  `InOrder` lists a set in such an order.  The other assumptions on the
constants: there are finitely many names and values, and names are sequences (`DataAssumption`); statements are those the parser makes
(`StatementsAssumption`); the markers for "nothing stored" and "not written" are no schema and no row
(`SqlMarkersAssumption`); and the statements executed before leave a database in which every row is one of a table
(`InitialDbAssumption`).  TLC evaluates each in every `sql_*` run.

`Sql` is the session.  `Begin`, `Commit`, `Rollback` are the commands; `ExecuteInTxn` and
`Autocommit` start a statement; `Write` makes its next write or meets a conflict, which ends it;
`Finish` answers and, under autocommit, commits or rolls back.  The store is an
instance of `SnapshotIsolation`: every action conjoins the store's own action, so
the chain is `Sql` over `SnapshotIsolation`, which `Mvcc` implements by proof.
A statement that fails inside an explicit transaction leaves the transaction open with what was written of it, and `Commit`
has no condition on that, as in the code.  `gained`, `reported`, `broken`, `halfway`, `deleted`, `misfits`, `skewed` are
history: the numbers of rows; the rows that a statement cut by a conflict after one of its writes was to write, in the open
transaction and in those committed all the same; the rows deleted; the rows the code lets through unchecked; and the tables that one transaction dropped
or created while another, which did not see it, wrote rows of them.  The running statement's `rows` and `before` serve
`broken` and `gained`.  `SELECT`, `EXPLAIN` and `SHOW TABLE(S)` write
nothing and are no actions here: what a `SELECT` by index answers is looked at by the properties, in the
committed state and in each open transaction's view; what any `SELECT` answers is the subject of `Queries`, and the
transactions they begin and end that of `Server`.

### `Expressions`, `Parser`, `Scans`, `Nodes`, `Planner`, `Executor`, `Queries`

A statement on its way.  `Queries` has one action per stage: `ParseText`, `BuildPlan`, `Execute`; EXPLAIN ends after the
second.  The text is a sequence of tokens; how characters make tokens is left out.  Each function of
`Parser` takes the place of the next token and returns what it has read with the place after it, or `Err`: the
position of the code's lexer, handed on.  `Planner` maps statements to nodes as `build_statement` does,
including what is refused and what panics (`Panic` is an unwrap of nothing).  `Scans` and `Nodes` have what each node
makes of its table or of its sources' results; `Executor` puts them together along the plan.  The one choice in it is the order of a
`HashMap` of groups (`HashOrders`).  What calls itself on a plan or a statement, `build_node` and `Executor::build`, is recursive and is
in `Planner` and `Executor`; `Scans` and `Nodes` are not, and `ExecutorProofs` is about them.  `InOrder` lists a
set by the rank of each element, which says of the code's loops and of its stable sort in what order they leave the rows.

Numbers are counted in twelfths, so that averages of up to four whole numbers and the quotients in the
statements are exact; strings are ranks.  Rounding of `f64`, overflow of `i64` and division by zero are left out.
The tables hold no stale index entries: what these do is in `Sql`.

`Grammar` is the reference, which knows nothing of how the parser works: `Written` puts a statement
into tokens, `Meaning` says which statement those should be read as, arithmetic computed.  Likewise the properties
of `Queries` compute each answer from the statement that was written, with rows as functions from names
to values and joins as sets.

### `Server`

| Action | Code |
|---|---|
| `Type`, `SendFails` | `Client::execute_sql`, the send |
| `Begins`, `BeginFails` | `MvccTransaciton::begin`, and what it may leave when it fails: nothing, the next version, the active transaction |
| `ReadEnd`, `ReadLine`, `ReadPanics`, `FindEnd` | its loop over the lines of the answer |
| `Quit`, `DropClient` | the end of `main` and `Drop for Client` |
| `Reject`, `BeginTxn`, `EndTxn`, `RunInTxn`, `Autocommit` | the cases of `Session::execute` |
| `Show` | `get_table`, `get_table_names` |
| `SendEnd` | the second send of `handle_request` |
| `TaskPanics`, `EndOfStream` | the end of the task, with its session |
| `Kill`, `Break` | the environment: a client is killed, a connection breaks |

A line the user may type is known by what becomes of it (`Line`): the transaction statements, text the parser
refuses, statements that succeed, that an executor refuses, that the planner refuses, that panic, and SELECTs one row of
which looks like the answer to a transaction statement.  The server serves one line at a time, so `Answer` (the result) and
`SendEnd` are its steps.  `mark` is history: what befell each client.

## 3. What the runs show

All runs but `server` check safety and need no fairness: operations are started by clients
that may stop at any time, and none of them waits for anything but the mutex, which it always gives back.

`server` also checks liveness, under `Fairness`: weak fairness, for each client, of `Serve` and of `Read`.  The first
is what the tokio runtime gives: a task whose socket has a line, or has ended, is polled again.  The second is the
client's own loop, which does nothing but wait for the next line.  Typing, quitting, breaking and
killing are not fair, as nobody has to do them.

| Run | Module, cfg | Shows |
|---|---|---|
| `mvcc` | `MCMvcc`, `MCMvcc.cfg` | `Mvcc` implements snapshot isolation; each operation is the abstract one of its name; get and scan agree; the conflict check is exact; one uncommitted version at most, and the newest; the undo log lists what the active transactions wrote and nothing else; answers are stable |
| `steps_crash` | `MCMvccSteps`, `MCMvccStepsCrash.cfg` | with crashes between any two engine writes, and failing writes in begin, set and delete: still snapshot isolation, a complete undo log |
| `steps_fail` | `MCMvccSteps`, `MCMvccStepsFail.cfg` | with failing writes everywhere, commit and rollback included: other transactions stay isolated, and a rollback undoes all except what a failed commit had taken off the undo log (`RollbackUndoesTheRest`) |
| `keycode` | `MCKeycode`, `MCKeycode.cfg` | stored keys do not collide and decode to themselves; ranges and prefixes find what `mvcc.rs` takes them to find, in order; which keys of the table layer coincide, and what the scan of a table finds |
| `disk` | `MCDiskEngine`, `MCDiskEngine.cfg` | over writes, restarts and complete compactions, set and delete are those of the map, and nothing else changes what it holds; the index equals the one a restart rebuilds |
| `disk_crash` | `MCDiskEngine`, `MCDiskEngineCrash.cfg` | no acknowledged value is lost although compactions die anywhere, repeatedly; a torn append keeps the engine from opening or changes the index for its own key only; what is written after it is read back until the next start (`FreshWritesRead`) |
| `disk_leftover` | `MCDiskEngine`, `MCDiskEngineLeftover.cfg` | **violation** of `DeletedStaysDeleted` (finding 1) |
| `sql_dml` | `MCSql`, `MCSqlDml.cfg` | inserts, updates (of keys too) and deletes of two sessions interleaved write by write, with conflicts, duplicates, disconnects, restarts and COMMITs after failed statements: no row is missing from an index, in any view, but those that a statement cut half-way was to write; and what is reported, with what failed statements left, adds up to the rows there are |
| `sql_ddl` | `MCSql`, `MCSqlDdl.cfg` | two sessions that create, fill, update, drop and recreate tables whose names are prefixes of each other, committing even after errors: a row outlives its table only by write skew with a DROP or CREATE, a row misfits its table only by an UPDATE or by surplus values, and an index names a row under a value it does not have only if it was deleted or a statement that was to write it was cut half-way |
| `sql_stale_index` | `MCSql`, `MCSqlStaleIndex.cfg` | **violation** of `IndexScanExact` (finding 2) |
| `queries` | `MCQueries`, `MCQueries.cfg` | what is written is what is read, precedence and associativity included; no token but `ASC` can be missing unnoticed; an EXPLAIN can be read back to the plan; WHERE answers the same by key, index or scan; pages are cut from ordered rows; joins, nested or not, are the relational ones; groups partition the rows in whatever order they come |
| `server` | `MCServer`, `MCServer.cfg` | a client at its prompt has read all answers to its requests; its prompt names its session's transaction unless a row misled it; sessions share no transaction; a transaction is left active for ever for four known reasons only, quitting not being one; every request ends, and every connection whose client leaves or that breaks |

In both `sql_*` runs and in all theorems about `Sql`, a client may send COMMIT after a statement failed: neither the session nor the
client prevents it (`sql/engine/mod.rs:106`).  The code then keeps half of that statement.  The properties on indexes hold for all rows
but those that such a statement was to write, if a conflict cut it after one of its writes (`broken`, `halfway`; the rows it had finished
are among them): rows of other statements, of statements that fail for another reason or before their first write, and of any transaction that was
rolled back, by autocommit or by the client, are no exception.  `CountsAddUp` takes what such a statement left as counted; it does say that under autocommit a
failed statement leaves nothing, and that no result and no COMMIT of others makes the number of rows differ.

### Bounds, and why they are enough

* `mvcc`: three sessions, two keys, one value, `MaxVersion = 5`, so four
  transactions, at most three at a time.  The interesting shapes are: a
  transaction older than the one that writes and still active, one that
  committed before it, one that commits after its snapshot, and a fourth that
  meets the result.  Reads tell apart "this value", "deleted" and "never there";
  as every version of a key holds one of two outcomes, a wrong version shows
  whenever its neighbour differs, and both orders occur.
  `MaxVersion` bounds the number of transactions, no more: the code adds 1 to a `u64` whatever it is, and nothing is
  claimed about its overflow.
* `steps_*`: two sessions, two keys, `MaxVersion = 4` (three transactions), with
  every order in which the scan may list the written keys.  Two keys are what it
  takes for an operation to be cut in the middle of its work.  `MaxFailures` is 2
  in `steps_fail`: a failed commit followed by a failed rollback; 1 elsewhere.
* `keycode`: at most two keys at a time (every property is about one key or a pair of
  them), of byte strings of length 0 to 2 over 0, 1 and 255, which are the bytes the encoding
  treats apart and one it does not; a number takes two bytes instead of eight, and
  the versions 255, 256 and the largest cross the boundary between them.
  `KeycodeProofs` covers byte strings of any length and any number of keys.
* `disk*`: keys and values of length 0 and 1; no append starts when the
  log has more than `MaxLog` cells (5 to 8), which leaves room for a key
  that is written, deleted and written again with a compaction between.  One torn
  append in a behaviour.
* Sessions, keys and values are symmetric in the MVCC runs, sessions in the SQL runs; the properties checked
  there are all safety properties, for which that is sound.
* `sql_*`: one table (two in `sql_ddl`, `t` and `tt`) with a primary key, an indexed column and a third one, two ids
  and two values besides NULL (and a Float in `sql_dml`), two sessions, and 4 statements in a behaviour.  The third column lets one session's UPDATE move
  a row from index entry to index entry and then meet another's at the row itself.  Two statements suffice for every conflict, one more to see its effect; the
  statements in `MCSql` include those that touch several rows, change keys, give several rows the same
  key, fail half-way, and select by key, by index and by scan.
* `queries`: tables of 0 to 4 rows with NULLs, ties, a zero and a fraction, one indexed column, one key, a Float column,
  and two more tables to join; about 90 SELECTs, and one or more of every other kind of statement, each whole and with
  each of its tokens missing.  Joins of three tables combine every type with every other.  No rows, one group, all-NULL groups,
  several partners and none occur.
* `server`: two clients, three lines typed between them, one fault.  Three lines are BEGIN, something, and one more
  to meet its consequences; the second user types BEGIN only, to have a transaction beside the first one's.  The lines left out of
  `MCServer` end like one of those in it.  `ServerProofs` covers the safety properties for any numbers.
* `CHECK_DEADLOCK FALSE` where behaviours may end: in the MVCC runs when
  no version is left and no transaction open; in `disk_crash` when the torn entry
  keeps the log from opening, as it does in the code; in `queries` after the answer; in `server` when the users type no more.

## 4. What is proved

Of `Spec` in `Mvcc`, for any set of sessions, keys and values and any number of transactions (`MaxVersion`).  The assumptions are `MaxVersionAssumption` (a positive
natural), `MarkersAssumption` and `NoTxnAssumption` (the three markers are not
themselves values or handles), and nothing else.

| Theorem | States |
|---|---|
| `MvccProofs!Invariant` | `Inv` is an invariant |
| `MvccProofs!ConflictCheckCorrect` | `ConflictCheckExact` |
| `MvccProofs!FirstWriterWins` | `OnlyNewestUncommitted` |
| `MvccProofs!WriteLogCorrect` | `WriteLogExact` |
| `MvccProofs!ScanCorrect` | `ScanAgreesWithGet` |
| `MvccProofs!SnapshotIsolationCorrect` | `Mvcc` implements `SnapshotIsolation` |
| `MvccProofs!OperationsCorrect` | `EachAsPromised` |
| `MvccProofs!ReadsCorrect` | `ReadsSnapshot` |
| `MvccProofs!RepeatableReads` | `StableReads` |

Of `Spec` in `Server`, for any set of clients, any lines they may type and any bounds, from `ServerAssumption` (the
bounds are naturals, `None` is no version and no word, `Requests` are lines):

| Theorem | States |
|---|---|
| `ServerProofs!TypeCorrect` | `TypeOK` (not checked by a run of its own) |
| `ServerProofs!SessionsCorrect` | `SessionsApart` |
| `ServerProofs!InStepCorrect` | `InStep` |
| `ServerProofs!PromptCorrect` | `PromptTellsTransaction` |
| `ServerProofs!LeftCorrect` | `LeftActiveForKnownReasons` |

Of `Spec` in `MvccSteps`, for any sets and bounds, from the assumptions of `Mvcc` and those that `MvccSteps` names (bounds are naturals,
`MayFail` is a set of kinds of operation, `Idle` is no operation):

| Theorem | States | Needs |
|---|---|---|
| `MvccProofs!StepsInvariant` | `StepsInv` is an invariant | |
| `MvccProofs!RollbackUndoes` | `RollbackUndoesTheRest` | |
| `MvccProofs!UncommittedStaysNewest` | `OnlyNewestUncommitted` | |
| `MvccProofs!CheckStaysExact` | `ConflictCheckExact` | |
| `MvccProofs!ReadsStaySnapshots` | `ReadsSnapshot` | |
| `MvccProofs!ReadsStayRepeatable` | `StableReads` | |
| `MvccProofs!UndoLogStaysComplete` | `UndoLogComplete` | no failing write in a commit |
| `MvccProofs!CrashesAreAtomic` | `CrashAtomic`: it implements `SnapshotIsolation` | no failing write in a commit or a rollback |

What the last two need is what `steps_crash`, the run that checks them, has; without it they are false, as a commit that fails
leaves a transaction that is open and has lost part of its undo log (section 5).  Crashes are unrestricted in all of them.

Of `Spec` in `DiskEngine`, for any sets of keys and values and any length of the log, from `BytesAssumption` (keys and
values are sequences of bytes), `MarkersAssumption` (`None` and `Failed` are no values, sequences or results) and `BoundsAssumption`:

| Theorem | States | Needs |
|---|---|---|
| `DiskEngineProofs!EngineInvariant` | `DInv` is an invariant | |
| `DiskEngineProofs!AckedValuesStayKept` | `AckedValuesKept` | |
| `DiskEngineProofs!FreshWritesStayRead` | `FreshWritesRead` | |
| `DiskEngineProofs!TornTailsAreContained` | `TornTailContained` | |
| `DiskEngineProofs!KeydirStaysExact` | `KeydirMatchesLog` | no compaction and no append cut short |
| `DiskEngineProofs!EngineIsAMap` | `ImplementsKvEngine` | no compaction and no append cut short |

Again the needs are those of the run `disk`, which checks the two; with compactions cut short they are false (finding 1).

Of `Spec` in `Sql`, for any tables, columns, values, statements and sessions, from the assumptions that `Tables` and `Sql` name:

| Theorem | States |
|---|---|
| `Induction!FoldHolds` | what holds of the base of a fold and is kept by each step holds of its result |
| `SqlProofs!SqlInvariant` | `SqlInv` is an invariant |
| `SqlProofs!RowsBelong` | `RowsBelongToTable` |
| `SqlProofs!RowsFit` | `RowsFitTable` |

They hold for names that are prefixes of each other, statements that fail half-way, clients that commit after errors, disconnects and restarts.

Of the same, for statements on rows:

| Theorem | States |
|---|---|
| `SqlIndexProofs!IndexInvariant` | `IndexInv` is an invariant |
| `SqlIndexProofs!IndexesStayComplete` | `IndexComplete` |
| `SqlIndexProofs!IndexesStayExact` | `IndexExactUntilDeleted` |
| `SqlIndexProofs!CountsStayExact` | `CountsAddUp` |

These four need the following, each of which `MCSqlDml` has:

* `OnlyRows`: any INSERT, UPDATE and DELETE, on any number of tables that are there at the start.  A DROP leaves index entries behind,
  and a table created again inherits them (section 5).
* `NamesApart`: no table's name begins with another's, and no two columns' index entries have the same key.  As names are encoded without a
  terminator, an UPDATE of `t` would otherwise write the rows of `tt`.
* `Tidy(InitialDb, {}, {})`: the database is tidy at the start: every table has a primary key that is not nullable (as `validate` in
  `sql/schema.rs` requires) and no two indexed columns of one name, and every row is in the index entries of its values and no others.
* `IdleApart`: the marker `Idle` is not a running statement, as the markers of `Sql` are model values.

Disconnects, restarts, write conflicts, write skew and COMMITs after failed statements are unrestricted.  TLC evaluates `NamesApart` and
`Tidy(InitialDb, {}, {})` for every run of `Sql` that has `OnlyRows` (`MCTidyAssumption`).

Of `Spec` in `Keycode`, for any keys, names, values and prefixes, of any bytes and any length, and any number of stored keys:

| Theorem | States |
|---|---|
| `KeycodeProofs!KeysStored` | `Stored` is an invariant: the engine holds the encodings of the stored keys, and nothing else |
| `KeycodeProofs!KeysDecodeBack` | `DecodesBack` |
| `KeycodeProofs!VersionRangesExact` | `VersionRangeExact` |
| `KeycodeProofs!PrefixScansExact` | `PrefixScanExact` |
| `KeycodeProofs!SqlKeysStayApart` | `SqlKeysApart` |
| `KeycodeProofs!RowScansCover` | `RowScanCovers` |

The assumptions are `MaxKeysAssumption` and `KeysAssumption`: the keys are made of bytes and numbers as `MvccKey`, `Key` and `Value`
are, the bytes of names are 5 or more (the lexer lets letters, digits and underscores into a name, `parser/lexer.rs:377`, and the numbers of the
types of values are 0 to 4), and the marker `Malformed` is no result of `NextBytes`.

Of the nodes of a SELECT (`Scans`, `Nodes`), for any tables, rows, columns and values:

| Theorem | States | Hypotheses |
|---|---|---|
| `ExecutorProofs!ScanFindsMatches` | whatever the planner chooses for *column op constant*, a scan, the index or the primary key, finds the rows it is true of, in the order of the keys | `ProperTable`, `Suits` |
| `ExecutorProofs!HashJoinIsNestedLoop` | a hash join is the nested loop on the same condition, row for row | `Joinable` |
| `ExecutorProofs!JoinListsPairs` | a join has one row for each pair that matches, an outer join one for each left row that matches none, left rows in order, right rows in order for each | |
| `ExecutorProofs!OrderSortsStably` | ORDER BY lists each row once, by the first column, where that is alike by the next, NULL first and DESC turned round, rows alike in all as they came | `Sortable` |
| `ExecutorProofs!PageOfSortedRows` | OFFSET and LIMIT give the page of the sorted rows, short only where the rows end | `Sortable` |
| `ExecutorProofs!AllRowsAreOneGroup` | without GROUP BY there is one row, of no rows as well: COUNT counts the values of the column, MIN and MAX are attained and bound them | `AllListed` |
| `ExecutorProofs!OneRowPerGroup` | GROUP BY gives each value of the column, NULL included, one row, with the functions of the rows that have it, in whatever order the hash map is walked | `AllListed`, `NamesGroups` |

The assumption is `OptionAssumption`: `None`, `Err` and `Panic` are three things, and none of them a value, a row, an expression or a name.  The
hypotheses that say what the rows are like:

* `ProperTable`: what CREATE TABLE and INSERT leave: one primary key, names of columns apart, every value of its column's
  type.  The tables of the run `queries` are proper; what an UPDATE may do to types is the exception of `RowsFitTable`.
* `ProperResult`, of every source: names, and rows of values of that length.
* `Suits`, `Joinable`, `Sortable`, `Computable` (part of `AllListed`): values compared with each other are of one type, but for a scan that compares a
  Float with an Integer.  They leave out what section 5 lists, and no more: a lookup by stored bytes, NULL joined with NULL, a column that holds values of several types.
* `AllListed`: what is listed beside GROUP BY is the column grouped by, COUNT, MIN or MAX; a bare column panics or names the first row (section 5).
* `NamesGroups`: the order of the hash map names each value that occurs, once, which is all that is known of it.

**The inductive invariant of `Mvcc`.**  `write_inner` scans the versions from the oldest
transaction that was active when this one began, and looks at the last of them
only.  Why can the others not matter?  Suppose some version `u` of the key is
not visible.  Either it is above the transaction's own version, and then so is
the last one, which is not visible either; or its transaction was active at the
snapshot.  Then `NothingSeenOverUnseen` says that no version above `u` is
visible, so the last one is not.  That part is itself kept because a transaction
that writes passed its own conflict check, so all versions of the key are visible
to it and its version becomes the newest (`OnlyNewestUncommitted`), and because a
transaction that sees `m` above `u` would have to have begun when `u` was over.
`VersionsAllocated`, `HandlesActive` and `OlderActiveKnown` tie the counter, the
active list and the handles together; `WriteLogExact` is needed because
`rollback` removes what the log lists and nothing else.

Each operation keeps `Inv` by a lemma of its own (`BeginKeepsInv`, ...), with one
step for each part it can disturb.  `OneVersionDecides` is the argument above.

**The refinement.**  Under `Inv`, each operation maps to the abstract action of
the same name (`BeginRefines`, `WriteInnerRefines`, `CommitRefines`, ...); a restart
maps to a `Crash` that locks everything the open transactions had written.
`EndForgets` serves the four ways a transaction ends.  The heart of `CommitRefines`
is that a committing version is the newest of each key it wrote, so that removing
it from the active list makes exactly the own writes the new database.

**The inductive invariant of `Server`** is `TypeOK`, `SessionsApart` and, for each client, `ClientInv`: `Phase` says where
the one request under way, or its answer, is (on its way to the server, in the task's hands, on its way back with or
without its last line), and `Knows` that what the client takes for its transaction, or is about to read off the
lines under way, is what its session holds, unless it was misled.  `InStep` and `PromptTellsTransaction` are its instances
at the prompt.  `Phase` must allow two requests when a panic in `ReadPanics` sends ROLLBACK before the answer is read;
that client is misled, and `Knows` says nothing of it.  `EnvKeeps` deals once with the actions that touch another client only;
`ServeKeeps`, `AnswerKeeps` and one lemma per action of the client do the rest.

**Why transactions stay active.**  `LeftCorrect` strengthens that invariant by two parts.  `Accounted`: an active transaction
is held by the session it was begun for, unless there is one of the excuses that the property names.  `Orderly`: a client that
nothing befell does not go before its ROLLBACK is answered, so that its session holds no transaction when it is dropped.

**`scan_prefix` and `get`.**  Both recurse over versions, in opposite directions.  `ReplayOneMore` says what one more version
does to the newest visible one of a key; from it, what the replay has after `v` versions is written down for every `v`
(`Rep`), and this function is shown to be *the* function the recursion defines.

**The inductive invariant of `MvccSteps`**, `StepsInv`, keeps `Ordered`, the part of `Mvcc`'s invariant that is true between
any two engine writes, and adds what the operation under way has still to do (`UnderWay`, about `op.todo`): while a key is written,
the undo log names it before the version exists; while a transaction ends, its last write is the removal of `TxnActive`, and in a
rollback every version that is left is on the list before its entry in the log.  `LoggedOrTaken` is what remains of `WriteLogExact`: a
version that is not on the log was taken off it by a commit, failed or under way.  `CrashesAreAtomic` maps every engine write to a
stutter but the one that counts: the removal of `TxnActive` for a commit and for a rollback (`StepsOwn` reads what a
rollback is removing off `before`), the version for a write.

**The inductive invariant of `DiskEngine`**, `DInv`, needs to speak of files.  A file is `Whole` when turns of `build_keydir`
lead from its start to its exact end; the turns are written down as a witness (`Run`, `Reads`: a function from the number of turns to where the loop is),
so that nothing has to be computed by recursion.  `Appended` says what one more entry at the end of a whole
file does: one more turn, the index entered as `set` enters it, everything read before read as before.  As long as no
append was cut (`Sound`): both files are whole, the index agrees with the log, every acknowledged value is where
the index of the file says, and a compaction under way has copied what it has taken off its list.  A `.compact` file
that survives a crash is whole too, with old entries at its start, whence `Agrees` instead of equality: an index
may lack keys that the file has.  `Uncut` adds that this does not happen when compactions are not cut short.  After a cut (`Cut`), the log is
a whole file and the first cells of one entry, of which `TornTailsAreContained` works out what the next start makes.

**The inductive invariant of `Sql`**, `SqlInv`, calls a view `Sound` when what it holds has the type of its key (`Typed`), no row is
without its table (`Belong`), and every row fits its table (`Fit`), but for the `skewed` tables and the `misfits`.  The
database is sound, and so is what each open transaction sees.  Two things are hard.  A statement in the middle of its writes: `UnderWay` says of
what is left to write (`ToDo`) that every row in it is one that may be written to the table the view has now, and that a table is
written last of all and is deleted only after all its rows; so every single write keeps the view sound (`WriteIsSound`), and so
does the conflict that cuts the list short.  That each statement starts with such a list is what the lemmas on the
executors show (`InsertKeeps`, `UpdateKeeps`, ..., `DropTableToDo`), by induction over their loops.  And a commit: the new
database is a mix, under each key what the transaction wrote or what others committed since.  A row from one side under a table from the
other is sound all the same, unless one side wrote the row and the other the table, and that is what `Skew` records
(`SnapshotsKnown` says that what nobody committed since is as the transaction saw it).

**Rows, index entries and numbers.**  `update_row` and `delete_row` are several writes each (the old key's entry, the new one's, the row), so
that in the middle of a statement no index agrees with its rows.  `ViewInv` says two things of what a session sees.  `Midway`: as it is now, its view is
`Tidy` but for the rows that the statement under way is writing (`rows`), because what is left to write touches no others
(`AllNear`).  `Leading`: what is left to write *leads* (`Leads`: the last write to a key decides) from there to a view that is tidy without
that exception, and that has, if all goes well, the rows that the snapshot had and those reported since.  For each executor, the second is shown once of the
whole list of writes it starts with; each write consumes one of them.  A conflict throws the rest of the list away: what
remains is the first, and the rows go to `broken`, with COMMIT to `halfway`.  Of any session, `Held` says that it holds what it wrote: its
write set is disjoint from those of the other sessions and from the keys it `missed`.  A commit merges:
under each key what was written, or what others committed since.  An entry of an index is one key for many rows; so that this
merge is tidy, `SameButFor` says that a transaction's view has the ids of the snapshot in an entry but for the rows it
wrote or left half-written, and the database likewise but for the keys that the transaction missed and the rows committed
half-way; as the two sets are disjoint but for rows that are exceptions anyway, every row has its entries from
one side.  `CountsStayExact` counts the rows of both sides in the same way.

**Byte strings.**  `KeycodeProofs` takes a string apart at its first byte (`Cons`, `TakeApart`) and does induction over strings
by writing the claim as a set (`EachString`).  Prefixes, the order (`BeforeCons`), concatenation and escaping (`EscapedCons`, from the recursion
of `FlattenSeq`) are brought into this form once; then each fact about the codec is an induction on a string.  `EscapedStarts`:
escaped bytes and a terminator start with other escaped bytes only if the strings do, so that
serialized strings are no parts of each other (`SerializedApart`).  `NextBytesOf`: `next_bytes` reads back what `serialize_bytes`
wrote and stops at its end, whatever follows; with it, `Decode` undoes `Encode` (`DecodesEncoded`).  A range: what lies between two strings with a
common start has it, too (`BetweenStarts`), and among the versions of a key the order is that of the numbers, as their highest byte comes
first.  A prefix scan: its bound, with the carry, is where the strings with the prefix end (`WithinBound`).
Both give sets; that `Decoded` of a scan is *the* list of these keys in their order needs that a finite set has one listing in a strict total order
(`OneList` in `Induction`).  The table layer's keys have no terminators: a name ends where a byte below 5 comes (`NameStarts`), which parts a
row's name from its value, but not an index entry's table from its column.

**Nodes of a SELECT.**  `Nodes` lists rows by rank: the place of an element is how many come before it, counted by `Cardinality`.  That this is a
list at all, with each element at one place and in the order given, is shown once for any strict total order on a finite set
(`RankInList`, `ListedByRank`, on `ListExists` of `Induction`), and serves the pairs of a join, the rows of an ORDER BY and the places a filter keeps (`AtPlaces`).
What is left is that the order is one.  For ORDER BY, the code compares column after column and returns at the first that
differs: `Precedes` says so with a quantifier, and `PrecedesOrders` that this, with places to part equal rows, is a strict
total order of values of one type.  For a hash join, the rows of a bucket are those whose values are equal, and the nested loop's
condition is true of the same pairs once NULL and mixed types are set apart.  For groups, the rows of a group are those at some places;
COUNT counts them through a bijection with the places that are not NULL, and `ExtremeExists` finds the least of finitely many numbers
for MIN and MAX.

**Induction over data.**  The library's induction theorems take an operator, which the provers cannot instantiate.
`Upwards` in `DiskEngineProofs` is induction over a *set* of numbers up to a bound, from the well-foundedness of `<`, and serves
where the claim can be written as a set.  `Induction` goes one step further: the step of a fold and the claim about
it are constant operators of a module of its own, in which induction over the fold is proved once (`FoldHolds`), and each loop of `Tables`
gets an instance of that module with its own step and claim named (`AddFold`, `InsertFold`, `DropFold`, ...).

**Only model-checked:**

* Liveness of `Server` (`EveryRequestAnswered`, `EveryConnectionEnds`): the prover has no rule for fairness.
* The seven invariants of `Queries`.  Parsing, planning and executing a whole statement are recursions over a statement or a plan, out
  of the prover's reach; what each node does is proved (above), that plans put the nodes together as the statement says is for the run to show.
* SUM and AVG, which are sums over the rows of a group.
* Of `Sql`, `IndexExactUntilDeleted` with CREATE and DROP TABLE (run `sql_ddl`).

## 5. Findings

1. *A deleted key is back* (`disk_leftover`).  A `.compact` file left by a compaction that
   died is appended to by the next one; keys deleted in between return once the
   index is rebuilt from the file.
2. *A deleted row's index entry stays* (`sql_stale_index`).  `delete_row` loads the index where it should save it.  Once
   the primary key is used again, a selection by the old value returns the new row.

Known, in the model, and stated as the exact exceptions of properties that hold:

* *A rollback after a failed commit undoes only a part* (`RollbackUndoesTheRest`).  `commit`
  takes keys off the undo log one at a time and returns at the first engine error (`storage/mvcc.rs:136`);
  the session keeps the transaction; a `ROLLBACK` that follows removes what the log still
  lists, answers Ok, and makes the rest visible.
* *A row outlives its table* (`RowsBelongToTable`): write skew between `DROP TABLE` and `INSERT` (`sql/engine/kv.rs:291`).
* `UPDATE` checks neither NOT NULL nor types (`sql/engine/kv.rs:208`), and `INSERT` without column names keeps surplus
  values (`sql/executor/mutation.rs:36`): the exceptions of `RowsFitTable`.
* *A COMMIT after a failed statement publishes half of it* (`sql/engine/mod.rs:106`).  An UPDATE that meets a conflict between its index writes
  leaves a row in no entry, one that meets it at the row (`sql/engine/kv.rs:211`) leaves the row under a value it does not have, and one
  that changes the primary key has deleted the old row when creating the new one fails (`sql/engine/kv.rs:180`).  The first two are the exceptions of
  `IndexComplete` and `IndexExactUntilDeleted`, the third is in what `CountsAddUp` counts.
* `DROP TABLE` leaves index entries behind; a table created again inherits them (the exception of `IndexExactUntilDeleted`).
* A row that begins with TRANSACTION is taken by the client for the answer to a transaction statement
  (`bin/client.rs:42`): the exception of `PromptTellsTransaction`.
* A transaction stays active for ever after a planning error under autocommit (`sql/engine/mod.rs:144`), SHOW TABLE
  for a table that does not exist (`:160`), a panic, a connection that ends with a BEGIN open, an engine error
  (`LeftActiveForKnownReasons`).  What it wrote stays locked: every later write to its keys is
  refused, with an error that suggests another try (`error.rs:76`), which cannot help.
* Dropping `t` also deletes the rows of `tt`, an UPDATE of `t` without WHERE writes them, and a scan of `t` returns
  them, as names are encoded without a terminator (`storage/keycode.rs:93`): `RowScanCovers`.

What `Queries` excludes by its preconditions (`ProperWhere`, `ProperJoin`, `ProperList`), each an answer the code gives otherwise
than a filter or a join would; the model does the same as the code:

* A lookup by index or key compares stored bytes: with an index on the Integer `b`, `b = 2 - 1` finds nothing, as arithmetic
  yields Floats; a Float key is never found by a whole number; `b = NULL` finds the rows that have none; `a = b` on
  a key or an index looks for NULL (`plan/planner.rs:235`).
* A hash join takes NULL for equal to NULL and 1 for different from 1.0 (`executor/join.rs:148`).
* WHERE on a join is applied to every table of it by itself (`plan/planner.rs:163`).
* A bare column beside a function without GROUP BY panics (`executor/agg.rs:68`), as do a constant in ON and a function in
  WHERE with `=`.  GROUP BY over no rows yields no column names, so that ORDER BY refuses them.
* RIGHT JOIN puts the columns of the right table first (the property compares by names).  EXPLAIN does not tell outer joins
  from inner ones, nor the column grouped by, nor the value looked up in an index.

No text of the repository says otherwise of these, so they are not counted as findings.

## 6. Plan

In order of importance; the lines marked *done* are what this directory holds now.

1. *Done*: transactions (`SnapshotIsolation`, `Mvcc`, `MvccSteps`) with their proofs.
2. *Done*: storage (`KvEngine`, `DiskEngine`).
3. *Done*: sessions and tables (`Tables`, `Sql`), model-checked.
4. *Done*: `Keycode`, its properties proved.
5. *Done*: the front end (`Expressions`, `Parser`, `Scans`, `Nodes`, `Planner`, `Executor`, `Queries`), model-checked against reference definitions.
6. *Done*: `Server`, model-checked with liveness; its safety invariants proved.
7. *Done*: proofs of all safety properties of `Mvcc`, `MvccSteps` and `DiskEngine`.
8. *Done*: proofs about `Sql`: rows belong to tables and fit them.
9. *Done*: proofs about the indexes and counts of `Sql`.
10. *Done*: proofs about the nodes of a SELECT (`ExecutorProofs`).
11. Two processes on one file, with the lock of `Log::new` and the rename of `compact`.

## 7. Not modelled

* The file lock of `Log::new` and a second process on the same file; `fsync`, which the
  code never calls, hence power failures that lose a suffix of the log.
* The cutting of characters into tokens; the wording of results, plans and errors; logging; the terminal.
* Rounding of `f64` (in arithmetic and where an `i64` is compared with it), overflow of `i64` in values and of `u64` in versions, division by zero.
* A peer that dies without a word.  Neither server nor client has a timeout or a keepalive: the server's read
  (`bin/server.rs:56`) then waits for ever, the session keeps its transaction and the keys it wrote stay locked.
  `Break` is the break that both sides are told of, and `EveryRequestAnswered` and `EveryConnectionEnds` hold for those only.
* A first line sent into a connection that the other side has closed may go out before the client learns of it (`bin/client.rs:34`); `execute_sql` then
  returns without an answer, with the client at the prompt it was at.
* An UPDATE that finds rows shorter than its table's columns panics (`sql/executor/mutation.rs:132`).  Only a scan that returns another,
  narrower table's rows finds such; the tables of the `sql_*` runs are of one width (`MCWidthAssumption`).
* Request lines that are no UTF-8 text: what becomes of the connection then is up to `LinesCodec` and `Framed`.
* Poisoning of the mutex: it needs a panic inside an operation of `mvcc.rs`.
