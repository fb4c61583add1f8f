----------------------------- MODULE DiskEngine -----------------------------
(***************************************************************************)
(* src/src/storage/disk.rs: an append-only log with an in-memory index of  *)
(* where each key's last value starts (Bitcask), rebuilt from the log when *)
(* the engine is opened, and a compaction that copies the live entries to  *)
(* a second file and renames it over the first.                            *)
(*                                                                         *)
(* A file is a sequence of cells, each an integer.  A key and a value take *)
(* a cell per byte, the key size and the value size of the header one cell *)
(* each, so that LOG_HEADER_SIZE is 2 here.  Offsets count cells from 0,   *)
(* as the code's count bytes, and a read that is out of step with the      *)
(* entries takes for a size whatever cell it finds, as the code does.      *)
(***************************************************************************)
EXTENDS Integers, Sequences, Functions

CONSTANTS
    Key,              \* keys: sequences of bytes, the empty one included
    Value,            \* values: likewise
    None,             \* no value
    Failed,           \* a read that ends in Err
    MaxLog,           \* bound: no write starts when the log has more cells
    CrashInCompact,   \* whether the process may die while it compacts
    TornWrites        \* whether an append may reach the disk in part

LOG_HEADER_SIZE == 2

\* What a cell holds: a byte, or a size.  The size -1 marks a deletion.
Byte == 0..255
Cell == Nat \cup {-1}

\* An offset and a size, as the index keeps them.
Position == [offset : Nat, size : Nat]

ASSUME BoundsAssumption ==
    MaxLog \in Nat /\ CrashInCompact \in BOOLEAN /\ TornWrites \in BOOLEAN

ASSUME BytesAssumption == Key \subseteq Seq(Byte) /\ Value \subseteq Seq(Byte)

\* None and Failed are none of the values they stand beside.
ASSUME MarkersAssumption ==
    /\ None \notin Seq(Cell)
    /\ None \notin [key : Key, cut : Nat, log : Seq(Cell)]
    /\ Failed \notin Seq(Cell)
    /\ Failed \notin [key : Seq(Cell), val_size : Cell, val_offset : Nat]
    /\ \A S \in SUBSET Key : Failed \notin [S -> Position]

VARIABLES
    log,          \* the data file
    compact_log,  \* the file <name>.compact; empty when there is none
    engine,       \* "closed", "open" or "compacting"
    keydir,       \* key -> [offset, size] of its value, empty while closed
    compaction,   \* the copy under way: keys still to copy and the new index
    acked,        \* history: the last acknowledged write of every key
    torn,         \* history: the append that was cut short, None if there was none
    fresh         \* history: the keys written since the engine was opened

vars == <<log, compact_log, engine, keydir, compaction, acked, torn, fresh>>

Empty == [k \in {} |-> None]

NoCompaction == [todo |-> {}, new_keydir |-> Empty]

Init ==
    /\ log = << >>
    /\ compact_log = << >>
    /\ engine = "closed"
    /\ keydir = Empty
    /\ compaction = NoCompaction
    /\ acked = [k \in Key |-> None]
    /\ torn = None
    /\ fresh = {}

-----------------------------------------------------------------------------
(* The file format                                                         *)

\* The cells write_entry appends; a deletion is an entry of value size -1.
Entry(k, x) ==
    << Len(k), IF x = None THEN -1 ELSE Len(x) >>
      \o k \o (IF x = None THEN << >> ELSE x)

\* read_exact: n cells or an error.  A size of -1 is the largest u32 there is.
ReadExact(file, offset, n) ==
    IF n >= 0 /\ offset + n <= Len(file) THEN SubSeq(file, offset + 1, offset + n)
                                         ELSE Failed

ReadValue(file, at) == ReadExact(file, at.offset, at.size)

\* read_entry reads the sizes and the key, not the value.
ReadEntry(file, offset) ==
    LET header == ReadExact(file, offset, LOG_HEADER_SIZE)
        key    == ReadExact(file, offset + LOG_HEADER_SIZE, header[1])
    IN  IF header = Failed \/ key = Failed THEN Failed
        ELSE [key |-> key, val_size |-> header[2],
              val_offset |-> offset + LOG_HEADER_SIZE + Len(key)]

\* BTreeMap::insert and remove.
Insert(index, k, position) ==
    [j \in DOMAIN index \cup {k} |-> IF j = k THEN position ELSE index[j]]
Remove(index, k) == Restrict(index, DOMAIN index \ {k})

\* What one entry does to the index.
ReplayEmptyIsTombstone(index, e) ==
    IF e.val_size <= 0
    THEN Remove(index, e.key)
    ELSE Insert(index, e.key, [offset |-> e.val_offset, size |-> e.val_size])
Replay(index, e) ==
    IF e.val_size = -1
    THEN Remove(index, e.key)
    ELSE Insert(index, e.key, [offset |-> e.val_offset, size |-> e.val_size])

\* One turn of build_keydir's loop, from the offset and the index so far.  A
\* value is skipped without being read; an entry that cannot be read ends it.
TurnStopsQuietly(file, at) ==
    IF at.offset >= Len(file) \/ at.index = Failed THEN at
    ELSE LET e == ReadEntry(file, at.offset)
         IN  IF e = Failed THEN [at EXCEPT !.offset = Len(file)]
             ELSE [offset |-> e.val_offset + (IF e.val_size = -1 THEN 0 ELSE e.val_size),
                   index |-> Replay(at.index, e)]
Turn(file, at) ==
    IF at.offset >= Len(file) \/ at.index = Failed THEN at
    ELSE LET e == ReadEntry(file, at.offset)
         IN  IF e = Failed THEN [at EXCEPT !.index = Failed]
             ELSE [offset |-> e.val_offset + (IF e.val_size = -1 THEN 0 ELSE e.val_size),
                   index |-> Replay(at.index, e)]

\* Where the loop ends.  A turn takes two cells or more, the header's, or none.
\* (The set has one element: TLC evaluates after[i - 1] once for it.)
Loop(file) ==
    LET after[i \in 0..Len(file)] ==
          IF i = 0 THEN [offset |-> 0, index |-> Empty]
          ELSE CHOOSE next \in {Turn(file, at) : at \in {after[i - 1]}} : TRUE
    IN  after[Len(file)]

BuildKeydir(file) == Loop(file).index

EntryAtTracked(file, k, x) == [offset |-> Loop(file).offset, size |-> Len(Entry(k, x))]
\* write_entry's answer: where the entry starts and how long it is.
EntryAt(file, k, x) == [offset |-> Len(file), size |-> Len(Entry(k, x))]

\* The position of the value, counted back from the end of the entry.
ValueAt(e, x) == [offset |-> e.offset + e.size - Len(x), size |-> Len(x)]

-----------------------------------------------------------------------------
(* Operations of an open engine                                            *)

Open == engine = "open"

Set(k, x) ==
    /\ Open
    /\ Len(log) <= MaxLog
    /\ log' = log \o Entry(k, x)
    /\ keydir' = Insert(keydir, k, ValueAt(EntryAt(log, k, x), x))
    /\ acked' = [acked EXCEPT ![k] = x]
    /\ fresh' = fresh \cup {k}
    /\ UNCHANGED <<compact_log, engine, compaction, torn>>

Get(k) == IF k \in DOMAIN keydir THEN ReadValue(log, keydir[k]) ELSE None

\* A tombstone is written whether or not the key exists.
DeleteWithoutTombstone(k) ==
    /\ Open
    /\ Len(log) <= MaxLog
    /\ keydir' = Remove(keydir, k)
    /\ acked' = [acked EXCEPT ![k] = None]
    /\ fresh' = fresh \cup {k}
    /\ UNCHANGED <<log, compact_log, engine, compaction, torn>>
Delete(k) ==
    /\ Open
    /\ Len(log) <= MaxLog
    /\ log' = log \o Entry(k, None)
    /\ keydir' = Remove(keydir, k)
    /\ acked' = [acked EXCEPT ![k] = None]
    /\ fresh' = fresh \cup {k}
    /\ UNCHANGED <<compact_log, engine, compaction, torn>>

-----------------------------------------------------------------------------
(* Opening, compacting, dying                                              *)

New ==
    /\ engine = "closed"
    /\ BuildKeydir(log) # Failed
    /\ engine' = "open"
    /\ keydir' = BuildKeydir(log)
    /\ fresh' = {}
    /\ UNCHANGED <<log, compact_log, compaction, acked, torn>>

\* new_compact: open as New does, then open the .compact file as it is.
NewCompact ==
    /\ engine = "closed"
    /\ Len(compact_log) <= MaxLog
    /\ BuildKeydir(log) # Failed
    /\ engine' = "compacting"
    /\ keydir' = BuildKeydir(log)
    /\ compaction' = [todo |-> DOMAIN BuildKeydir(log), new_keydir |-> Empty]
    /\ fresh' = {}
    /\ UNCHANGED <<log, compact_log, acked, torn>>

\* One turn of compact's loop.  A value that cannot be read ends it with Err:
\* new_compact fails and what has been copied so far stays behind.
CompactEntry ==
    /\ engine = "compacting"
    /\ \E k \in compaction.todo :
       LET x == ReadValue(log, keydir[k])
           e == EntryAt(compact_log, k, x)
       IN  \/ /\ x # Failed
              /\ compact_log' = compact_log \o Entry(k, x)
              /\ compaction' = [todo |-> compaction.todo \ {k},
                                new_keydir |-> Insert(compaction.new_keydir, k, ValueAt(e, x))]
              /\ UNCHANGED <<engine, keydir>>
           \/ /\ x = Failed
              /\ engine' = "closed"
              /\ keydir' = Empty
              /\ compaction' = NoCompaction
              /\ UNCHANGED compact_log
    /\ UNCHANGED <<log, acked, torn, fresh>>

\* The rename, and the switch to the new file and index.
CompactRenameEarly ==
    /\ engine = "compacting"
    /\ engine' = "open"
    /\ log' = compact_log
    /\ compact_log' = << >>
    /\ keydir' = compaction.new_keydir
    /\ compaction' = NoCompaction
    /\ UNCHANGED <<acked, torn, fresh>>
CompactRename ==
    /\ engine = "compacting"
    /\ compaction.todo = {}
    /\ engine' = "open"
    /\ log' = compact_log
    /\ compact_log' = << >>
    /\ keydir' = compaction.new_keydir
    /\ compaction' = NoCompaction
    /\ UNCHANGED <<acked, torn, fresh>>

\* The engine is dropped or the process dies: the files stay as they are.
Crash ==
    /\ engine # "closed"
    /\ engine = "compacting" => CrashInCompact
    /\ engine' = "closed"
    /\ keydir' = Empty
    /\ compaction' = NoCompaction
    /\ UNCHANGED <<log, compact_log, acked, torn, fresh>>

\* The machine dies during write_entry and n cells of the entry are on disk.
\* Bound: once in a behaviour.
CrashInWrite(k, x, n) ==
    /\ TornWrites
    /\ Open
    /\ Len(log) <= MaxLog
    /\ n \in 1..(Len(Entry(k, x)) - 1)
    /\ log' = log \o SubSeq(Entry(k, x), 1, n)
    /\ torn = None
    /\ torn' = [key |-> k, cut |-> n, log |-> log']
    /\ engine' = "closed"
    /\ keydir' = Empty
    /\ UNCHANGED <<compact_log, compaction, acked, fresh>>

Next ==
    \/ New
    \/ NewCompact
    \/ \E k \in Key :
          \/ \E x \in Value : Set(k, x)
          \/ Delete(k)
          \/ \E x \in Value \cup {None} : \E n \in 1..(Len(Entry(k, x)) - 1) :
                CrashInWrite(k, x, n)
    \/ CompactEntry
    \/ CompactRename
    \/ Crash

Spec == Init /\ [][Next]_vars

-----------------------------------------------------------------------------
(* Properties                                                              *)

\* What the index says now, or would say if the engine were opened.
Index == IF engine = "closed" THEN BuildKeydir(log) ELSE keydir

Content ==
    [k \in Key |-> IF k \in DOMAIN Index THEN ReadValue(log, Index[k]) ELSE None]

\* The index kept up to date by set, delete and compact is, to the offset, the
\* one build_keydir would read back from the file.
KeydirMatchesLog == engine # "closed" => keydir = BuildKeydir(log)

Map == INSTANCE KvEngine WITH data <- Content

\* The log with its index is an ordered map that survives restarts: set and
\* delete do to it what the map's operations of these names do, and opening,
\* each step of a compaction and dying change nothing of what it holds, so that
\* none loses a key or brings back a deleted one.
ImplementsKvEngine ==
    /\ Map!Init
    /\ [][/\ \A k \in Key : /\ \A x \in Value : Set(k, x) => Map!Set(k, x)
                            /\ Delete(k) => Map!Delete(k)
          /\ New \/ NewCompact \/ CompactEntry \/ CompactRename \/ Crash => Map!Internal]_vars

\* No acknowledged value is ever lost, whenever the process dies: in
\* particular not while compact is copying entries or renames the file.
AckedValuesKept ==
    torn = None => \A k \in Key : acked[k] # None => Content[k] = acked[k]

\* What was written since the engine was opened is read back, deletions too -
\* also when the file it appends to ends in the middle of an entry, whose value
\* the new entries then fill in.
FreshWritesRead ==
    engine # "closed" => \A k \in fresh : Get(k) = acked[k]

\* A key that was deleted is not found.
DeletedStaysDeleted ==
    engine # "closed" => \A k \in Key : acked[k] = None => Get(k) = None

\* After an append that was cut short, and before the next one, either the
\* engine does not open, when the cut is in the header or in the key, or its
\* index is the one of the file before the append, but for the key written.
TornTailContained ==
    (torn # None /\ log = torn.log) =>
        LET before == BuildKeydir(SubSeq(log, 1, Len(log) - torn.cut))
            after  == BuildKeydir(log)
            Others(index) == Remove(index, torn.key)
        IN  IF torn.cut < LOG_HEADER_SIZE + Len(torn.key)
            THEN after = Failed
            ELSE after # Failed /\ Others(after) = Others(before)

=============================================================================
