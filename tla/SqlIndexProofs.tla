--------------------------- MODULE SqlIndexProofs ---------------------------
(***************************************************************************)
(* Proofs about the indexes and the numbers reported by SQL sessions that  *)
(* insert, update and delete rows, for any tables, columns and values, and *)
(* any statements of any number of sessions.                               *)
(***************************************************************************)
EXTENDS SqlProofs, SqlTidy

-----------------------------------------------------------------------------
(* What the theorems need                                                  *)

\* A statement under way is not taken for none.
IdleApart ==
    \A kind, todo, ok, gain, rows, before :
        [kind |-> kind, todo |-> todo, ok |-> ok, gain |-> gain,
         rows |-> rows, before |-> before] # Idle

-----------------------------------------------------------------------------
(* The inductive invariant                                                 *)

\* The id is in the same entries of the table.
SameEntries(v, w, t, id) ==
    \A c \in ColumnName, x \in Datum : id \in LoadIndex(v, t, c, x) <=> id \in LoadIndex(w, t, c, x)

\* As those are whose rows were not written.
SameButFor(v, w, wrote) ==
    \A t \in TableName, id \in Ids : RowKey(t, id) \notin wrote => SameEntries(v, w, t, id)

RowsOf(view) == {k \in StoreKey : k.kind = "Row" /\ view[k] # None}
Total(view) == Cardinality(RowsOf(view))

\* The keys written, and those of rows deleted.
KeysIn(todo) == {todo[i].key : i \in 1..Len(todo)}
GoneIn(todo) ==
    {todo[i].key : i \in {j \in 1..Len(todo) : todo[j].key.kind = "Row" /\ todo[j].data = None}}

\* What a view becomes: the last write to a key decides.
Leads(view, todo, final) ==
    /\ final = [k \in StoreKey |-> final[k]]
    /\ \A k \in StoreKey :
          /\ k \notin KeysIn(todo) => final[k] = view[k]
          /\ \A i \in 1..Len(todo) :
                todo[i].key = k /\ (\A j \in (i + 1)..Len(todo) : todo[j].key # k) =>
                    final[k] = todo[i].data

Writable(w) ==
    /\ w.key \in StoreKey /\ w.key.kind # "Table" /\ w.data # Unwritten
    /\ w.key.kind = "Index" => w.data = None \/ w.data \subseteq Ids

\* The write is of a row under its primary key, or of an index entry in which
\* only ids of these rows come or go.
Entry(ids) == IF ids = None THEN {} ELSE ids
Near(v, w, rows) ==
    /\ \A t \in TableName, id \in Ids :
          w.key = RowKey(t, id) /\ w.data # None => RowOf(v[TableKey(t)], id, w.data)
    /\ \A t \in TableName, c \in ColumnName, x \in Datum, id \in Ids :
          w.key = IndexKey(t, c, x) /\ RowKey(t, id) \notin rows =>
              (id \in Entry(w.data) <=> id \in LoadIndex(v, t, c, x))
AllNear(v, todo, rows) == \A i \in 1..Len(todo) : Near(v, todo[i], rows)

Todo(s) == IF running[s] = Idle THEN << >> ELSE running[s].todo
Rows(s) == IF running[s] = Idle THEN {} ELSE running[s].rows
Pending(s) == IF running[s] = Idle THEN 0 ELSE running[s].gain
AllWell(s) == running[s] # Idle => running[s].ok

\* What is left to write leads from a view to one that is tidy, has so many
\* rows if all went well, and differs from the snapshot only for rows that were
\* written.
Leading(view, todo, snap, wrote, gone, bad, ok, n) ==
    \E final : /\ Leads(view, todo, final)
               /\ Tidy(final, gone \cup GoneIn(todo), bad)
               /\ SameButFor(snap, final, wrote \cup KeysIn(todo))
               /\ ok => Total(final) = n

\* The write is made.
Makes(w, view, new) ==
    (\A k \in StoreKey : k # w.key => new[k] = view[k]) /\ new[w.key] = w.data

\* A view in which a statement may be half-way.
Midway(view, todo, snap, wrote, gone, bad, rows) ==
    /\ \A t \in TableName : view[TableKey(t)] = InitialDb[TableKey(t)]
    /\ \A i \in 1..Len(todo) : Writable(todo[i])
    /\ AllNear(view, todo, rows \cup RowsWritten(todo))
    /\ Tidy(view, gone, bad \cup rows)
    /\ SameButFor(snap, view, wrote \cup rows)

\* Of the view of a session.
ViewInv(s) ==
    LET wrote == Store!Written(s) \cup broken[s]
        bad   == halfway \cup broken[s]
        n     == Total(snapshot[s]) + gained[s]
    IN  /\ Midway(View(s), Todo(s), snapshot[s], wrote, deleted, bad, Rows(s))
        /\ Leading(View(s), Todo(s), snapshot[s], wrote, deleted, bad, AllWell(s), n + Pending(s))
        /\ running[s] # Idle =>
              running[s].before = n /\ (running[s].ok => running[s].gain \in Int)

\* Of any session with an open transaction.
Held(s) ==
    /\ Store!Written(s) \cap missed[s] = {}
    /\ \A r \in live \ {s} : Store!Written(s) \cap Store!Written(r) = {}
    /\ SameButFor(snapshot[s], db, missed[s] \cup halfway)

DbInv ==
    /\ \A t \in TableName : db[TableKey(t)] = InitialDb[TableKey(t)]
    /\ Tidy(db, deleted, halfway)
    /\ reported \in Int /\ Total(db) = Total(InitialDb) + reported

SessionsInv ==
    /\ gained = [s \in Session |-> gained[s]] /\ broken = [s \in Session |-> broken[s]]
    /\ in_txn = [s \in Session |-> in_txn[s]]
    /\ \A s \in Session :
          /\ gained[s] \in Int
          /\ in_txn[s] \/ running[s] # Idle => s \in live
          /\ ~in_txn[s] => gained[s] = 0
          /\ ~in_txn[s] /\ AllWell(s) => broken[s] = {}

IndexInv ==
    /\ DbInv
    /\ SessionsInv
    /\ \A s \in live : Held(s) /\ ViewInv(s)

-----------------------------------------------------------------------------
(* Keys                                                                    *)

LEMMA IndexKeys ==
  ASSUME NEW t \in TableName, NEW c \in ColumnName, NEW x \in Datum
  PROVE  IndexKey(t, c, x) \in StoreKey /\ IndexKey(t, c, x).kind = "Index"
BY DEF IndexKey, StoreKey

LEMMA IndexKeysApart ==
  ASSUME NamesApart, NEW t \in TableName, NEW c \in ColumnName, NEW x \in Datum,
         NEW u \in TableName, NEW d \in ColumnName, NEW y \in Datum,
         IndexKey(t, c, x) = IndexKey(u, d, y)
  PROVE  t = u /\ c = d /\ x = y
<1>1. IndexKey(t, c, x).value = x /\ IndexKey(u, d, y).value = y
  BY DEF IndexKey
<1>2. x = y
  BY <1>1
<1>3. \A t1, t2 \in TableName, c1, c2 \in ColumnName, z \in Datum :
         IndexKey(t1, c1, z) = IndexKey(t2, c2, z) => t1 = t2 /\ c1 = c2
  BY DEF NamesApart
<1>. QED BY <1>2, <1>3

(* An entry is a set, or nothing.                                          *)
LEMMA EntryIsSet ==
  ASSUME NEW view, EntriesTyped(view), NEW t \in TableName, NEW c \in ColumnName, NEW x \in Datum
  PROVE  LoadIndex(view, t, c, x) \subseteq Ids
BY DEF EntriesTyped, LoadIndex

-----------------------------------------------------------------------------
(* Outcomes                                                                *)

\* What a statement has done so far led from view v here, and left the tables
\* alone.
Going(v, o) ==
    /\ o = [view |-> o.view, writes |-> o.writes, ok |-> o.ok, count |-> o.count]
    /\ o.view = [k \in StoreKey |-> o.view[k]]
    /\ IsSeq(o.writes)
    /\ Leads(v, o.writes, o.view)
    /\ EntriesTyped(o.view)
    /\ \A i \in 1..Len(o.writes) : Writable(o.writes[i])
    /\ \A t \in TableName : o.view[TableKey(t)] = v[TableKey(t)]

\* Only in the entries of these rows has anything changed.
Tame(v, o, rows) == SameButFor(v, o.view, rows) /\ AllNear(v, o.writes, rows)

\* Nor does it change in those of others on the way from o to p.
StaysTame(v, o, p, key) == \A rows : key \in rows /\ Tame(v, o, rows) => Tame(v, p, rows)

\* One more write, from o to p.
Written1(v, o, key, x, p) ==
    /\ Going(v, p) /\ p.ok /\ p.count = o.count
    /\ p.view = [o.view EXCEPT ![key] = x]
    /\ KeysIn(o.writes) \cup {key} \subseteq KeysIn(p.writes)
    /\ GoneIn(o.writes) \subseteq GoneIn(p.writes)
    /\ key.kind = "Row" /\ x = None => key \in GoneIn(p.writes)
    /\ \A rows : AllNear(v, o.writes, rows) /\ Near(v, [key |-> key, data |-> x], rows) =>
                   AllNear(v, p.writes, rows)

LEMMA LeadsOn ==
  ASSUME NEW v, NEW o, NEW w, NEW n \in Nat, IsSeq(o), Len(o) = n,
         NEW view, view = [k \in StoreKey |-> view[k]], Leads(v, o, view),
         NEW p, p = Append(o, w), NEW key, NEW x, w.key = key, w.data = x,
         NEW new, new = [view EXCEPT ![key] = x]
  PROVE  Leads(v, p, new)
<1>1. /\ IsSeq(p) /\ Len(p) = n + 1 /\ p[n + 1] = w /\ \A i \in 1..n : p[i] = o[i]
  BY AppendIsSeq
<1>2. new = [k \in StoreKey |-> new[k]] /\ (key \in StoreKey => new[key] = x)
      /\ \A k \in StoreKey : k # key => new[k] = view[k]
  OBVIOUS
<1>3. ASSUME NEW k \in StoreKey, k \notin KeysIn(p) PROVE new[k] = v[k]
  <2>1. \A i \in 1..(n + 1) : p[i].key # k
    BY <1>1, <1>3 DEF KeysIn
  <2>2. k # key /\ \A i \in 1..n : o[i].key # k
    BY <1>1, <2>1
  <2>3. k \notin KeysIn(o)
    BY <2>2 DEF KeysIn
  <2>. QED BY <1>2, <2>2, <2>3 DEF Leads
<1>4. ASSUME NEW k \in StoreKey, NEW i \in 1..Len(p), p[i].key = k,
             \A j \in (i + 1)..Len(p) : p[j].key # k
      PROVE  new[k] = p[i].data
  <2>1. CASE i = n + 1
    BY <1>1, <1>2, <1>4, <2>1
  <2>2. CASE i # n + 1
    <3>1. i \in 1..n /\ n + 1 \in (i + 1)..(n + 1)
      BY <2>2
    <3>2. k # key
      BY <1>1, <1>4, <3>1
    <3>3. \A j \in (i + 1)..n : o[j].key # k
      BY <1>1, <1>4, <3>1
    <3>4. view[k] = o[i].data
      BY <1>1, <1>4, <3>1, <3>3 DEF Leads
    <3>. QED BY <1>1, <1>2, <3>1, <3>2, <3>4
  <2>. QED BY <2>1, <2>2
<1>. QED BY <1>2, <1>3, <1>4, Zenon DEF Leads

LEMMA PutGoes ==
  ASSUME NEW v, NEW o, Going(v, o), o.ok, NEW key \in StoreKey, key.kind # "Table",
         NEW x, x # Unwritten, key.kind = "Index" => x = None \/ x \subseteq Ids
  PROVE  Written1(v, o, key, x, Put(o, key, x))
<1>. DEFINE p == Put(o, key, x)
            w == [key |-> key, data |-> x]
            n == Len(o.writes)
<1>1. /\ o = [view |-> o.view, writes |-> o.writes, ok |-> o.ok, count |-> o.count]
      /\ o.view = [k \in StoreKey |-> o.view[k]] /\ IsSeq(o.writes) /\ n \in Nat
      /\ Leads(v, o.writes, o.view) /\ EntriesTyped(o.view)
      /\ \A i \in 1..n : Writable(o.writes[i])
      /\ \A t \in TableName : o.view[TableKey(t)] = v[TableKey(t)]
  BY DEF Going, IsSeq
<1>2. /\ p = [view |-> p.view, writes |-> p.writes, ok |-> p.ok, count |-> p.count]
      /\ p.view = [o.view EXCEPT ![key] = x]
      /\ p.writes = Append(o.writes, w)
      /\ p.ok = o.ok /\ p.count = o.count
  BY <1>1 DEF Put
<1>3. w.key = key /\ w.data = x
  OBVIOUS
<1>. HIDE DEF p, w, n
<1>4. /\ p.view = [k \in StoreKey |-> p.view[k]] /\ p.view[key] = x
      /\ \A k \in StoreKey : k # key => p.view[k] = o.view[k]
  BY <1>1, <1>2
<1>5. /\ IsSeq(p.writes) /\ Len(p.writes) = n + 1 /\ p.writes[n + 1] = w
      /\ \A i \in 1..n : p.writes[i] = o.writes[i]
  BY <1>1, <1>2, AppendIsSeq DEF n
<1>6. Leads(v, p.writes, p.view)
  <2>. DEFINE a == o.writes
              b == o.view
              pw == p.writes
              pv == p.view
  <2>1. /\ n \in Nat /\ IsSeq(a) /\ Len(a) = n /\ b = [k \in StoreKey |-> b[k]] /\ Leads(v, a, b)
        /\ pw = Append(a, w) /\ pv = [b EXCEPT ![key] = x]
    BY <1>1, <1>2 DEF n
  <2>. HIDE DEF a, b, pw, pv
  <2>2. Leads(v, pw, pv)
    BY <1>3, <2>1, LeadsOn, Zenon
  <2>. QED BY <2>2 DEF pw, pv
<1>7. EntriesTyped(p.view)
  <2>. SUFFICES ASSUME NEW t \in TableName, NEW c \in ColumnName, NEW y \in Datum
                PROVE  p.view[IndexKey(t, c, y)] = None \/ p.view[IndexKey(t, c, y)] \subseteq Ids
    BY DEF EntriesTyped
  <2>1. IndexKey(t, c, y) \in StoreKey /\ IndexKey(t, c, y).kind = "Index"
    BY IndexKeys
  <2>2. o.view[IndexKey(t, c, y)] = None \/ o.view[IndexKey(t, c, y)] \subseteq Ids
    BY <1>1 DEF EntriesTyped
  <2>3. CASE IndexKey(t, c, y) = key
    BY <1>4, <2>1, <2>3
  <2>4. CASE IndexKey(t, c, y) # key
    BY <1>4, <2>1, <2>2, <2>4
  <2>. QED BY <2>3, <2>4
<1>8. \A i \in 1..(n + 1) : i = n + 1 \/ i \in 1..n
  BY <1>1
<1>9. \A i \in 1..Len(p.writes) : Writable(p.writes[i])
  <2>1. Writable(w)
    BY <1>3 DEF Writable
  <2>. QED BY <1>1, <1>5, <1>8, <2>1
<1>18. ASSUME NEW rows, AllNear(v, o.writes, rows), Near(v, w, rows)
       PROVE  AllNear(v, p.writes, rows)
  BY <1>1, <1>5, <1>8, <1>18, Zenon DEF AllNear, n
<1>10. \A t \in TableName : p.view[TableKey(t)] = v[TableKey(t)]
  BY <1>1, <1>4, KeysOfStore, KeysApart
<1>11. Going(v, p)
  BY <1>2, <1>4, <1>5, <1>6, <1>7, <1>9, <1>10, Zenon DEF Going
<1>12. \A i \in 1..n : i \in 1..(n + 1) /\ p.writes[i] = o.writes[i]
  BY <1>1, <1>5
<1>13. n + 1 \in 1..(n + 1)
  BY <1>1
<1>14. KeysIn(o.writes) \cup {key} \subseteq KeysIn(p.writes)
  BY SMTT(30), <1>3, <1>5, <1>12, <1>13 DEF KeysIn, n
<1>15. GoneIn(o.writes) \subseteq GoneIn(p.writes)
  BY <1>5, <1>12 DEF GoneIn, n
<1>16. key.kind = "Row" /\ x = None => key \in GoneIn(p.writes)
  BY <1>3, <1>5, <1>13 DEF GoneIn
<1>17. Written1(v, o, key, x, p)
  BY <1>2, <1>11, <1>14, <1>15, <1>16, <1>18, Zenon DEF Written1, w
<1>. QED BY <1>17 DEF p

-----------------------------------------------------------------------------
(* Index entries                                                           *)

\* All but the indexes is as it was.
SameRows(v, w) == \A k \in StoreKey : k.kind # "Index" => w[k] = v[k]

\* The write of an index entry of a row, from o to p.
Filed(v, o, p, t, id) ==
    /\ Going(v, p) /\ p.ok /\ p.count = o.count
    /\ SameRows(o.view, p.view)
    /\ KeysIn(o.writes) \subseteq KeysIn(p.writes)
    /\ GoneIn(o.writes) \subseteq GoneIn(p.writes)
    /\ StaysTame(v, o, p, RowKey(t, id))

\* What is in the entries of a view: the id in this one too, or in this one no more.
EntryIs(v, w, t, c, x, ids) ==
    /\ LoadIndex(w, t, c, x) = ids
    /\ \A u \in TableName, d \in ColumnName, y \in Datum :
          u # t \/ d # c \/ y # x => LoadIndex(w, u, d, y) = LoadIndex(v, u, d, y)

LEMMA SaveGoes ==
  ASSUME NamesApart, NEW v, NEW o, Going(v, o), o.ok,
         NEW t \in TableName, NEW c \in ColumnName, NEW x \in Datum, NEW ids \in SUBSET Ids,
         NEW id \in Ids, \A j \in Ids \ {id} : j \in ids <=> j \in LoadIndex(o.view, t, c, x)
  PROVE  /\ Filed(v, o, SaveIndex(o, t, c, x, ids), t, id)
         /\ EntryIs(o.view, SaveIndex(o, t, c, x, ids).view, t, c, x, ids)
<1>. DEFINE p == SaveIndex(o, t, c, x, ids)
            key == IndexKey(t, c, x)
            y == IF ids = {} THEN None ELSE ids
<1>1. key \in StoreKey /\ key.kind = "Index"
  BY IndexKeys
<1>2. y # Unwritten /\ (y = None \/ y \subseteq Ids)
      /\ (y = None => ids = {}) /\ (y # None => y = ids)
  BY SqlMarkersAssumption
<1>3. p = Put(o, key, y)
  BY DEF SaveIndex
<1>. HIDE DEF key, y, p
<1>4. Written1(v, o, key, y, p)
  <2>1. key.kind # "Table"
    BY <1>1
  <2>. QED BY <1>1, <1>2, <1>3, <2>1, PutGoes
<1>5. /\ Going(v, p) /\ p.ok /\ p.count = o.count /\ p.view = [o.view EXCEPT ![key] = y]
      /\ KeysIn(o.writes) \subseteq KeysIn(p.writes) /\ GoneIn(o.writes) \subseteq GoneIn(p.writes)
  BY <1>4 DEF Written1
<1>6. o.view = [k \in StoreKey |-> o.view[k]]
  BY DEF Going
<1>7. p.view[key] = y /\ \A k \in StoreKey : k # key => p.view[k] = o.view[k]
  BY <1>1, <1>5, <1>6
<1>8. SameRows(o.view, p.view)
  BY <1>1, <1>7 DEF SameRows
<1>9. LoadIndex(p.view, t, c, x) = ids
  BY <1>2, <1>7 DEF LoadIndex, key
<1>10. ASSUME NEW u \in TableName, NEW d \in ColumnName, NEW z \in Datum, u # t \/ d # c \/ z # x
       PROVE  LoadIndex(p.view, u, d, z) = LoadIndex(o.view, u, d, z)
  <2>1. IndexKey(u, d, z) \in StoreKey /\ IndexKey(u, d, z) # key
    BY <1>10, IndexKeys, IndexKeysApart DEF key
  <2>. QED BY <1>7, <2>1, Zenon DEF LoadIndex
<1>12. ASSUME NEW rows, RowKey(t, id) \in rows, Tame(v, o, rows) PROVE Tame(v, p, rows)
  <2>1. SameButFor(v, o.view, rows) /\ AllNear(v, o.writes, rows)
    BY <1>12 DEF Tame
  <2>2. ASSUME NEW u \in TableName, NEW j \in Ids, RowKey(u, j) \notin rows
        PROVE  SameEntries(o.view, p.view, u, j)
    <3>1. u # t \/ j # id
      BY <1>12, <2>2
    <3>2. ASSUME NEW d \in ColumnName, NEW z \in Datum
          PROVE  j \in LoadIndex(o.view, u, d, z) <=> j \in LoadIndex(p.view, u, d, z)
      <4>1. CASE u = t /\ d = c /\ z = x
        <5>1. j \in Ids \ {id}
          BY <3>1, <4>1
        <5>. QED BY <1>9, <4>1, <5>1
      <4>2. CASE u # t \/ d # c \/ z # x
        BY <1>10, <4>2
      <4>. QED BY <4>1, <4>2
    <3>. QED BY <3>2, Zenon DEF SameEntries
  <2>3. SameButFor(v, p.view, rows)
    <3>1. \A u \in TableName, j \in Ids : RowKey(u, j) \notin rows => SameEntries(v, p.view, u, j)
      BY <2>1, <2>2 DEF SameButFor, SameEntries
    <3>. QED BY <3>1 DEF SameButFor
  <2>. DEFINE w == [key |-> key, data |-> y]
  <2>4. w.key = key /\ w.data = y /\ Entry(y) = ids
    BY <1>2 DEF Entry
  <2>. HIDE DEF w
  <2>5. ASSUME NEW u \in TableName, NEW d \in ColumnName, NEW z \in Datum, NEW j \in Ids,
               key = IndexKey(u, d, z), RowKey(u, j) \notin rows
        PROVE  j \in Entry(y) <=> j \in LoadIndex(v, u, d, z)
    <3>1. u = t /\ d = c /\ z = x
      BY <2>5, IndexKeysApart DEF key
    <3>2. j \in Ids \ {id}
      BY <1>12, <2>5, <3>1
    <3>3. j \in LoadIndex(v, t, c, x) <=> j \in LoadIndex(o.view, t, c, x)
      BY <2>1, <2>5, <3>1 DEF SameButFor, SameEntries
    <3>. QED BY <2>4, <3>1, <3>2, <3>3
  <2>6. \A u, j : key # RowKey(u, j)
    BY <1>1 DEF RowKey
  <2>7. Near(v, w, rows)
    BY <2>4, <2>5, <2>6, Zenon DEF Near
  <2>8. AllNear(v, p.writes, rows)
    BY <1>4, <2>1, <2>7, Zenon DEF Written1, w
  <2>. QED BY <2>3, <2>8 DEF Tame
<1>13. StaysTame(v, o, p, RowKey(t, id))
  BY <1>12, Zenon DEF StaysTame
<1>11. Filed(v, o, p, t, id) /\ EntryIs(o.view, p.view, t, c, x, ids)
  BY <1>5, <1>8, <1>9, <1>10, <1>13, Zenon DEF Filed, EntryIs
<1>. QED BY <1>11 DEF p

LEMMA EntryOfGoing ==
  ASSUME NEW v, NEW o, Going(v, o), o.ok, NEW t \in TableName, NEW c \in ColumnName, NEW x \in Datum
  PROVE  LoadIndex(o.view, t, c, x) \in SUBSET Ids
BY EntryIsSet DEF Going

LEMMA AddGoes ==
  ASSUME NamesApart, NEW v, NEW o, Going(v, o), o.ok,
         NEW t \in TableName, NEW c \in ColumnName, NEW x \in Datum, NEW id \in Ids
  PROVE  /\ Filed(v, o, AddToIndex(o, t, c, x, id), t, id)
         /\ EntryIs(o.view, AddToIndex(o, t, c, x, id).view, t, c, x,
                    LoadIndex(o.view, t, c, x) \cup {id})
<1>1. LoadIndex(o.view, t, c, x) \cup {id} \in SUBSET Ids
  BY EntryOfGoing
<1>2. \A j \in Ids \ {id} : j \in LoadIndex(o.view, t, c, x) \cup {id} <=> j \in LoadIndex(o.view, t, c, x)
  OBVIOUS
<1>. QED BY <1>1, <1>2, SaveGoes, Zenon DEF AddToIndex

LEMMA RemoveGoes ==
  ASSUME NamesApart, NEW v, NEW o, Going(v, o), o.ok,
         NEW t \in TableName, NEW c \in ColumnName, NEW x \in Datum, NEW id \in Ids
  PROVE  /\ Filed(v, o, RemoveFromIndex(o, t, c, x, id), t, id)
         /\ EntryIs(o.view, RemoveFromIndex(o, t, c, x, id).view, t, c, x,
                    LoadIndex(o.view, t, c, x) \ {id})
<1>1. LoadIndex(o.view, t, c, x) \ {id} \in SUBSET Ids
  BY EntryOfGoing
<1>2. \A j \in Ids \ {id} : j \in LoadIndex(o.view, t, c, x) \ {id} <=> j \in LoadIndex(o.view, t, c, x)
  OBVIOUS
<1>. QED BY <1>1, <1>2, SaveGoes, Zenon DEF RemoveFromIndex

LEMMA FiledTwice ==
  ASSUME NEW v, NEW o, NEW p, NEW q, NEW t, NEW id, Filed(v, o, p, t, id), Filed(v, p, q, t, id)
  PROVE  Filed(v, o, q, t, id)
<1>1. SameRows(o.view, q.view)
  BY DEF Filed, SameRows
<1>2. StaysTame(v, o, q, RowKey(t, id))
  BY Zenon DEF Filed, StaysTame
<1>. QED BY <1>1, <1>2 DEF Filed

-----------------------------------------------------------------------------
(* The index entries of a row                                              *)

LEMMA IndexColsList ==
  ASSUME NEW cols \in Seq(Column)
  PROVE  \E n \in Nat :
            /\ DOMAIN IndexCols(cols) = 1..n
            /\ \A m \in 1..n : IndexCols(cols)[m] \in DOMAIN cols /\ cols[IndexCols(cols)[m]].index
            /\ \A i \in DOMAIN cols : cols[i].index => \E m \in 1..n : IndexCols(cols)[m] = i
<1>. DEFINE S == {i \in DOMAIN cols : cols[i].index}
<1>1. Len(cols) \in Nat /\ S \in SUBSET (1..Len(cols))
  BY LenProperties
<1>2. \A i : i \in S <=> i \in DOMAIN cols /\ cols[i].index
  OBVIOUS
<1>. HIDE DEF S
<1>3. Induct!Listing(S, InOrder(S, <))
  BY <1>1, PositionsInOrder
<1>. DEFINE seq == InOrder(S, <)
<1>4. IndexCols(cols) = seq
  BY DEF IndexCols, S
<1>. HIDE DEF seq
<1>5. PICK n \in Nat : seq \in [1..n -> S] /\ \A x \in S : \E i \in 1..n : seq[i] = x
  BY <1>3 DEF Induct!Listing, seq
<1>. QED BY <1>2, <1>4, <1>5

LEMMA ColumnValue ==
  ASSUME NEW cols \in Seq(Column), NEW row \in Seq(Datum), Len(cols) <= Len(row),
         NEW i \in DOMAIN cols
  PROVE  cols[i].name \in ColumnName /\ row[i] \in Datum /\ i \in DOMAIN row
<1>1. Len(cols) \in Nat /\ Len(row) \in Nat /\ DOMAIN cols = 1..Len(cols) /\ DOMAIN row = 1..Len(row)
      /\ cols[i] \in Column
  BY LenProperties
<1>2. cols[i].name \in ColumnName
  BY <1>1 DEF Column
<1>3. i \in DOMAIN row
  BY <1>1
<1>4. row[i] \in Datum
  BY <1>1, <1>3
<1>. QED BY <1>2, <1>3, <1>4

\* The id was added to the entries of these columns.
AddedTo(v, base, t, id, cols, row, S, p) ==
    /\ Filed(v, base, p, t, id)
    /\ \A u \in TableName, d \in ColumnName, y \in Datum, j \in Ids :
          j \in LoadIndex(p.view, u, d, y) <=>
              \/ j \in LoadIndex(base.view, u, d, y)
              \/ u = t /\ j = id /\ \E i \in S : d = cols[i].name /\ y = row[i]

LEMMA AddedOne ==
  ASSUME NamesApart, NEW v, NEW base, NEW t \in TableName, NEW id \in Ids,
         NEW cols \in Seq(Column), NEW row \in Seq(Datum), Len(cols) <= Len(row),
         NEW S, NEW p, AddedTo(v, base, t, id, cols, row, S, p), NEW i \in DOMAIN cols
  PROVE  AddedTo(v, base, t, id, cols, row, S \cup {i}, AddToIndex(p, t, cols[i].name, row[i], id))
<1>. DEFINE q == AddToIndex(p, t, cols[i].name, row[i], id)
            c == cols[i].name
            x == row[i]
<1>1. c \in ColumnName /\ x \in Datum
  BY ColumnValue
<1>2. Filed(v, base, p, t, id) /\ Going(v, p) /\ p.ok
  BY DEF AddedTo, Filed
<1>. HIDE DEF c, x
<1>3. Filed(v, p, q, t, id) /\ EntryIs(p.view, q.view, t, c, x, LoadIndex(p.view, t, c, x) \cup {id})
  BY <1>1, <1>2, AddGoes DEF c, x
<1>. HIDE DEF q
<1>4. Filed(v, base, q, t, id)
  BY <1>2, <1>3, FiledTwice
<1>5. ASSUME NEW u \in TableName, NEW d \in ColumnName, NEW y \in Datum, NEW j \in Ids
      PROVE  j \in LoadIndex(q.view, u, d, y) <=>
                \/ j \in LoadIndex(base.view, u, d, y)
                \/ u = t /\ j = id /\ \E k \in S \cup {i} : d = cols[k].name /\ y = row[k]
  <2>1. j \in LoadIndex(q.view, u, d, y) <=>
           j \in LoadIndex(p.view, u, d, y) \/ (u = t /\ d = c /\ y = x /\ j = id)
    BY <1>3 DEF EntryIs
  <2>2. j \in LoadIndex(p.view, u, d, y) <=>
           \/ j \in LoadIndex(base.view, u, d, y)
           \/ u = t /\ j = id /\ \E k \in S : d = cols[k].name /\ y = row[k]
    BY DEF AddedTo
  <2>3. (\E k \in S \cup {i} : d = cols[k].name /\ y = row[k]) <=>
           (\E k \in S : d = cols[k].name /\ y = row[k]) \/ (d = c /\ y = x)
    BY DEF c, x
  <2>. QED BY <2>1, <2>2, <2>3
<1>6. AddedTo(v, base, t, id, cols, row, S \cup {i}, q)
  BY <1>4, <1>5, Zenon DEF AddedTo
<1>. QED BY <1>6 DEF q, c, x

\* The id was moved to the entries of these columns from those of the old row.
MovedTo(v, o, t, id, cols, row, old, S, p) ==
    /\ Filed(v, o, p, t, id)
    /\ \A u \in TableName, d \in ColumnName, y \in Datum, j \in Ids :
          u # t \/ j # id => (j \in LoadIndex(p.view, u, d, y) <=> j \in LoadIndex(o.view, u, d, y))
    /\ Indexed(o.view, t, id, cols, old) => \A i \in DOMAIN cols : cols[i].index =>
          /\ i \in S \/ id \in LoadIndex(o.view, t, cols[i].name, row[i]) =>
                id \in LoadIndex(p.view, t, cols[i].name, row[i])
          /\ \A y \in Datum : y # row[i] /\ id \in LoadIndex(p.view, t, cols[i].name, y) =>
                id \in LoadIndex(o.view, t, cols[i].name, y) /\ (i \in S => y # old[i])

LEMMA MovedSame ==
  ASSUME NEW v, NEW o, NEW t, NEW id, NEW cols, NEW row, NEW old, NEW S, NEW p,
         MovedTo(v, o, t, id, cols, row, old, S, p), NEW i \in DOMAIN cols, old[i] = row[i]
  PROVE  MovedTo(v, o, t, id, cols, row, old, S \cup {i}, p)
BY DEF MovedTo, Indexed

LEMMA MovedOne ==
  ASSUME NamesApart, NEW v, NEW o, NEW t \in TableName, NEW id \in Ids,
         NEW cols, WellFormed(cols), NEW row \in Seq(Datum), Len(cols) <= Len(row),
         NEW old \in Seq(Datum), Len(cols) <= Len(old),
         NEW S, NEW p, MovedTo(v, o, t, id, cols, row, old, S, p),
         NEW i \in DOMAIN cols, cols[i].index, old[i] # row[i]
  PROVE  MovedTo(v, o, t, id, cols, row, old, S \cup {i},
                 AddToIndex(RemoveFromIndex(p, t, cols[i].name, old[i], id),
                            t, cols[i].name, row[i], id))
<1>. DEFINE c == cols[i].name
            x == row[i]
            z == old[i]
            q == RemoveFromIndex(p, t, c, z, id)
            r == AddToIndex(q, t, c, x, id)
<1>1. cols \in Seq(Column)
  BY DEF WellFormed
<1>2. c \in ColumnName /\ x \in Datum /\ z \in Datum /\ x # z
  BY <1>1, ColumnValue
<1>3. Filed(v, o, p, t, id) /\ Going(v, p) /\ p.ok
  BY DEF MovedTo, Filed
<1>. HIDE DEF c, x, z
<1>4. Filed(v, p, q, t, id) /\ EntryIs(p.view, q.view, t, c, z, LoadIndex(p.view, t, c, z) \ {id})
  BY <1>2, <1>3, RemoveGoes
<1>. HIDE DEF q
<1>5. Filed(v, q, r, t, id) /\ EntryIs(q.view, r.view, t, c, x, LoadIndex(q.view, t, c, x) \cup {id})
  <2>1. Going(v, q) /\ q.ok
    BY <1>4 DEF Filed
  <2>. QED BY <1>2, <2>1, AddGoes
<1>. HIDE DEF r
<1>6. Filed(v, o, r, t, id)
  BY <1>3, <1>4, <1>5, FiledTwice
<1>7. ASSUME NEW u \in TableName, NEW d \in ColumnName, NEW y \in Datum, NEW j \in Ids
      PROVE  j \in LoadIndex(r.view, u, d, y) <=>
                \/ u = t /\ d = c /\ y = x /\ j = id
                \/ j \in LoadIndex(p.view, u, d, y) /\ ~(u = t /\ d = c /\ y = z /\ j = id)
  <2>1. j \in LoadIndex(r.view, u, d, y) <=>
           j \in LoadIndex(q.view, u, d, y) \/ (u = t /\ d = c /\ y = x /\ j = id)
    BY <1>5 DEF EntryIs
  <2>2. j \in LoadIndex(q.view, u, d, y) <=>
           j \in LoadIndex(p.view, u, d, y) /\ ~(u = t /\ d = c /\ y = z /\ j = id)
    BY <1>4 DEF EntryIs
  <2>. QED BY <2>1, <2>2
<1>8. ASSUME NEW u \in TableName, NEW d \in ColumnName, NEW y \in Datum, NEW j \in Ids, u # t \/ j # id
      PROVE  j \in LoadIndex(r.view, u, d, y) <=> j \in LoadIndex(o.view, u, d, y)
  <2>1. j \in LoadIndex(p.view, u, d, y) <=> j \in LoadIndex(o.view, u, d, y)
    BY <1>8 DEF MovedTo
  <2>. QED BY <1>7, <1>8, <2>1
<1>9. ASSUME Indexed(o.view, t, id, cols, old), NEW k \in DOMAIN cols, cols[k].index
      PROVE  /\ k \in S \cup {i} \/ id \in LoadIndex(o.view, t, cols[k].name, row[k]) =>
                   id \in LoadIndex(r.view, t, cols[k].name, row[k])
             /\ \A y \in Datum : y # row[k] /\ id \in LoadIndex(r.view, t, cols[k].name, y) =>
                   id \in LoadIndex(o.view, t, cols[k].name, y) /\ (k \in S \cup {i} => y # old[k])
  <2>1. cols[k].name \in ColumnName /\ row[k] \in Datum
    BY <1>1, ColumnValue
  <2>2. /\ k \in S \/ id \in LoadIndex(o.view, t, cols[k].name, row[k]) =>
              id \in LoadIndex(p.view, t, cols[k].name, row[k])
        /\ \A y \in Datum : y # row[k] /\ id \in LoadIndex(p.view, t, cols[k].name, y) =>
              id \in LoadIndex(o.view, t, cols[k].name, y) /\ (k \in S => y # old[k])
    BY <1>9 DEF MovedTo
  <2>3. \A y \in Datum : id \in LoadIndex(r.view, t, cols[k].name, y) <=>
           \/ cols[k].name = c /\ y = x
           \/ id \in LoadIndex(p.view, t, cols[k].name, y) /\ ~(cols[k].name = c /\ y = z)
    BY <1>7, <2>1
  <2>4. CASE k = i
    BY <1>2, <2>1, <2>2, <2>3, <2>4 DEF c, x, z
  <2>5. CASE k # i
    <3>1. cols[k].name # c
      BY <1>9, <2>5 DEF WellFormed, c
    <3>. QED BY <2>1, <2>2, <2>3, <2>5, <3>1
  <2>. QED BY <2>4, <2>5
<1>10. MovedTo(v, o, t, id, cols, row, old, S \cup {i}, r)
  BY <1>6, <1>8, <1>9, Zenon DEF MovedTo
<1>. QED BY <1>10 DEF r, q, c, x, z

-----------------------------------------------------------------------------
(* Counting rows                                                           *)

LEMMA RowsFinite ==
  ASSUME NEW view
  PROVE  IsFiniteSet(RowsOf(view)) /\ Total(view) \in Nat /\ RowsOf(view) \subseteq RowKeySet
<1>1. RowsOf(view) \subseteq RowKeySet
  BY KindsOfKeys DEF RowsOf, RowKeySet
<1>2. IsFiniteSet(RowsOf(view))
  BY <1>1, FiniteKeys, FS_Subset
<1>. QED BY <1>1, <1>2, FS_CardinalityType DEF Total

LEMMA RowComes ==
  ASSUME NEW v, NEW w, NEW key \in StoreKey, key.kind = "Row",
         \A k \in StoreKey : k.kind = "Row" /\ k # key => w[k] = v[k],
         v[key] = None, w[key] # None
  PROVE  Total(w) = Total(v) + 1 /\ Total(v) = Total(w) - 1
<1>1. RowsOf(w) = RowsOf(v) \cup {key} /\ key \notin RowsOf(v)
  BY DEF RowsOf
<1>2. IsFiniteSet(RowsOf(v)) /\ Total(v) \in Nat /\ Total(w) \in Nat
  BY RowsFinite
<1>3. Cardinality(RowsOf(v) \cup {key}) = Cardinality(RowsOf(v)) + 1
  BY <1>1, <1>2, FS_AddElement
<1>. QED BY <1>1, <1>2, <1>3 DEF Total

LEMMA RowStays ==
  ASSUME NEW v, NEW w, \A k \in StoreKey : k.kind = "Row" => (w[k] = None <=> v[k] = None)
  PROVE  Total(w) = Total(v)
<1>1. RowsOf(w) = RowsOf(v)
  BY DEF RowsOf
<1>. QED BY <1>1 DEF Total

-----------------------------------------------------------------------------
(* One row                                                                 *)

\* From o to p this row was written, and its entries, and nothing else.
RowStep(v, o, p, t, id) ==
    /\ Going(v, p) /\ p.ok /\ p.count = o.count
    /\ \A k \in StoreKey : k.kind # "Index" /\ k # RowKey(t, id) => p.view[k] = o.view[k]
    /\ \A u \in TableName, j \in Ids : u # t \/ j # id => SameEntries(o.view, p.view, u, j)
    /\ KeysIn(o.writes) \cup {RowKey(t, id)} \subseteq KeysIn(p.writes)
    /\ GoneIn(o.writes) \subseteq GoneIn(p.writes)
    /\ StaysTame(v, o, p, RowKey(t, id))

\* The outcome is tidy, and has this many rows if there was no error.
Kept(v, gone, bad, n, o) ==
    /\ Going(v, o)
    /\ Tidy(o.view, gone \cup GoneIn(o.writes), bad)
    /\ Tame(v, o, KeysIn(o.writes))
    /\ o.ok => Total(o.view) = n

(* A row is tidy as long as it, its table and its entries are as they were. *)
LEMMA TidyRowStays ==
  ASSUME NEW v, NEW w, NEW A, NEW B, NEW bad, NEW worse, bad \subseteq worse,
         NEW t \in TableName, NEW id \in Ids, TidyRow(v, A, bad, t, id),
         v[TableKey(t)] # None => WellFormed(v[TableKey(t)]),
         w[TableKey(t)] = v[TableKey(t)], w[RowKey(t, id)] = v[RowKey(t, id)],
         SameEntries(v, w, t, id), RowKey(t, id) \in A => RowKey(t, id) \in B
  PROVE  TidyRow(w, B, worse, t, id)
<1>. DEFINE cols == v[TableKey(t)]
            row == v[RowKey(t, id)]
<1>1. /\ row # None => RowOf(cols, id, row)
      /\ row # None /\ RowKey(t, id) \notin bad => Indexed(v, t, id, cols, row)
      /\ cols # None /\ RowKey(t, id) \notin A \cup bad => OnlyIndexed(v, t, id, cols, row)
      /\ cols # None => WellFormed(cols)
  BY DEF TidyRow
<1>2. w[TableKey(t)] = cols /\ w[RowKey(t, id)] = row
  OBVIOUS
<1>. HIDE DEF cols, row
<1>3. ASSUME row # None, RowKey(t, id) \notin worse PROVE Indexed(w, t, id, cols, row)
  <2>1. cols \in Seq(Column) /\ row \in Seq(Datum) /\ Len(cols) <= Len(row)
    BY <1>1, <1>3 DEF WellFormed, RowOf
  <2>2. \A i \in DOMAIN cols : cols[i].name \in ColumnName /\ row[i] \in Datum
    BY <2>1, ColumnValue
  <2>. QED BY <1>1, <1>3, <2>2 DEF Indexed, SameEntries
<1>4. ASSUME cols # None, RowKey(t, id) \notin B \cup worse
      PROVE  OnlyIndexed(w, t, id, cols, row)
  <2>1. cols \in Seq(Column)
    BY <1>1, <1>4 DEF WellFormed
  <2>2. \A i \in DOMAIN cols : cols[i].name \in ColumnName
    <3>. SUFFICES ASSUME NEW i \in DOMAIN cols PROVE cols[i].name \in ColumnName
      OBVIOUS
    <3>1. cols[i] \in Column
      BY <2>1, LenProperties
    <3>. QED BY <3>1 DEF Column
  <2>. QED BY <1>1, <1>4, <2>2 DEF OnlyIndexed, SameEntries
<1>. QED BY <1>1, <1>2, <1>3, <1>4, Zenon DEF TidyRow

LEMMA NearGrows ==
  ASSUME NEW v, NEW todo, NEW A, NEW B, AllNear(v, todo, A),
         \A t \in TableName, id \in Ids : RowKey(t, id) \in A => RowKey(t, id) \in B
  PROVE  AllNear(v, todo, B)
<1>. SUFFICES ASSUME NEW i \in 1..Len(todo) PROVE Near(v, todo[i], B)
  BY DEF AllNear
<1>. DEFINE w == todo[i]
<1>1. Near(v, w, A)
  BY DEF AllNear
<1>. HIDE DEF w
<1>2. \A t \in TableName, id \in Ids : RowKey(t, id) \notin B => RowKey(t, id) \notin A
  OBVIOUS
<1>3. Near(v, w, B)
  BY <1>1, <1>2, Zenon DEF Near
<1>. QED BY <1>3 DEF w

LEMMA TameGrows ==
  ASSUME NEW v, NEW o, NEW A, NEW B, A \subseteq B, Tame(v, o, A)
  PROVE  Tame(v, o, B)
<1>1. AllNear(v, o.writes, B)
  BY NearGrows DEF Tame
<1>2. SameButFor(v, o.view, B)
  BY DEF Tame, SameButFor
<1>. QED BY <1>1, <1>2 DEF Tame

LEMMA RowStepKept ==
  ASSUME NEW v, NEW gone, NEW bad, NEW n, NEW o, Kept(v, gone, bad, n, o),
         NEW p, NEW t \in TableName, NEW id \in Ids, RowStep(v, o, p, t, id),
         TidyRow(p.view, gone \cup GoneIn(p.writes), bad, t, id)
  PROVE  Kept(v, gone, bad, Total(p.view), p)
<1>. DEFINE A == gone \cup GoneIn(o.writes)
            B == gone \cup GoneIn(p.writes)
<1>1. A \subseteq B
  BY DEF RowStep
<1>2. /\ Tidy(o.view, A, bad)
      /\ Tame(v, o, KeysIn(o.writes))
  BY DEF Kept
<1>. HIDE DEF A, B
<1>3. \A u \in TableName : p.view[TableKey(u)] = o.view[TableKey(u)]
  BY KeysOfStore, KeysApart DEF RowStep
<1>4. ASSUME NEW u \in TableName, NEW j \in Ids PROVE TidyRow(p.view, B, bad, u, j)
  <2>1. CASE u = t /\ j = id
    BY <2>1 DEF B
  <2>2. CASE u # t \/ j # id
    <3>1. RowKey(u, j) \in StoreKey /\ RowKey(u, j).kind # "Index" /\ RowKey(u, j) # RowKey(t, id)
      BY <2>2, KeysOfStore, KeysApart
    <3>2. p.view[RowKey(u, j)] = o.view[RowKey(u, j)] /\ SameEntries(o.view, p.view, u, j)
      BY <2>2, <3>1 DEF RowStep
    <3>3. TidyRow(o.view, A, bad, u, j) /\ (o.view[TableKey(u)] # None => WellFormed(o.view[TableKey(u)]))
      BY <1>2 DEF Tidy
    <3>. QED BY <1>1, <1>3, <3>2, <3>3, TidyRowStays
  <2>. QED BY <2>1, <2>2
<1>5. Tidy(p.view, B, bad)
  <2>1. \A u \in TableName : p.view[TableKey(u)] # None => WellFormed(p.view[TableKey(u)])
    BY <1>2, <1>3 DEF Tidy
  <2>2. EntriesTyped(p.view)
    BY DEF RowStep, Going
  <2>. QED BY <1>4, <2>1, <2>2, Zenon DEF Tidy
<1>6. Tame(v, p, KeysIn(p.writes))
  <2>1. KeysIn(o.writes) \subseteq KeysIn(p.writes) /\ RowKey(t, id) \in KeysIn(p.writes)
        /\ StaysTame(v, o, p, RowKey(t, id))
    BY DEF RowStep
  <2>2. Tame(v, o, KeysIn(p.writes))
    BY <1>2, <2>1, TameGrows, Zenon
  <2>. QED BY <2>1, <2>2, Zenon DEF StaysTame
<1>7. Going(v, p)
  BY DEF RowStep
<1>. QED BY <1>5, <1>6, <1>7 DEF Kept, B

-----------------------------------------------------------------------------
(* Deletion, creation and change of a row                                  *)

LEMMA RowKeyOf ==
  ASSUME NEW t \in TableName, NEW id \in Ids
  PROVE  RowKey(t, id) \in StoreKey /\ RowKey(t, id).kind = "Row"
         /\ \A u, c, x : IndexKey(u, c, x) # RowKey(t, id)
BY KeysOfStore DEF RowKey, IndexKey

LEMMA PutRow ==
  ASSUME NEW v, NEW o, Going(v, o), o.ok, NEW t \in TableName, NEW id \in Ids,
         NEW x, x # Unwritten, x # None => RowOf(v[TableKey(t)], id, x)
  PROVE  /\ RowStep(v, o, Put(o, RowKey(t, id), x), t, id)
         /\ Put(o, RowKey(t, id), x).view[RowKey(t, id)] = x
         /\ \A u \in TableName, c \in ColumnName, y \in Datum :
               LoadIndex(Put(o, RowKey(t, id), x).view, u, c, y) = LoadIndex(o.view, u, c, y)
         /\ x = None => RowKey(t, id) \in GoneIn(Put(o, RowKey(t, id), x).writes)
<1>. DEFINE key == RowKey(t, id)
            p == Put(o, key, x)
<1>1. key \in StoreKey /\ key.kind = "Row" /\ \A u, c, y : IndexKey(u, c, y) # key
  BY RowKeyOf
<1>. HIDE DEF key
<1>2. Written1(v, o, key, x, p)
  <2>1. key.kind # "Table" /\ (key.kind = "Index" => x = None \/ x \subseteq Ids)
    BY <1>1
  <2>. QED BY <1>1, <2>1, PutGoes
<1>. HIDE DEF p
<1>3. /\ Going(v, p) /\ p.ok /\ p.count = o.count /\ p.view = [o.view EXCEPT ![key] = x]
      /\ KeysIn(o.writes) \cup {key} \subseteq KeysIn(p.writes)
      /\ GoneIn(o.writes) \subseteq GoneIn(p.writes)
      /\ x = None => key \in GoneIn(p.writes)
      /\ \A rows : AllNear(v, o.writes, rows) /\ Near(v, [key |-> key, data |-> x], rows) =>
                     AllNear(v, p.writes, rows)
  BY <1>1, <1>2 DEF Written1
<1>4. p.view[key] = x /\ \A k \in StoreKey : k # key => p.view[k] = o.view[k]
  <2>1. o.view = [k \in StoreKey |-> o.view[k]]
    BY DEF Going
  <2>. QED BY <1>1, <1>3, <2>1
<1>5. ASSUME NEW u \in TableName, NEW c \in ColumnName, NEW y \in Datum
      PROVE  LoadIndex(p.view, u, c, y) = LoadIndex(o.view, u, c, y)
  <2>1. IndexKey(u, c, y) \in StoreKey /\ IndexKey(u, c, y) # key
    BY <1>1, IndexKeys
  <2>. QED BY <1>4, <2>1, Zenon DEF LoadIndex
<1>6. \A u \in TableName, j \in Ids : SameEntries(o.view, p.view, u, j)
  BY <1>5 DEF SameEntries
<1>. DEFINE w == [key |-> key, data |-> x]
<1>8. w.key = key /\ w.data = x
  OBVIOUS
<1>. HIDE DEF w
<1>9. ASSUME NEW rows, Tame(v, o, rows) PROVE Tame(v, p, rows)
  <2>1. SameButFor(v, o.view, rows) /\ AllNear(v, o.writes, rows)
    BY <1>9 DEF Tame
  <2>2. SameButFor(v, p.view, rows)
    BY <1>6, <2>1 DEF SameButFor, SameEntries
  <2>3. ASSUME NEW u \in TableName, NEW j \in Ids, key = RowKey(u, j), x # None
        PROVE  RowOf(v[TableKey(u)], j, x)
    <3>1. u = t /\ j = id
      BY <2>3, KeysApart DEF key
    <3>. QED BY <2>3, <3>1
  <2>4. Near(v, w, rows)
    BY <1>1, <1>8, <2>3, Zenon DEF Near
  <2>5. AllNear(v, p.writes, rows)
    BY <1>3, <2>1, <2>4, Zenon DEF w
  <2>. QED BY <2>2, <2>5 DEF Tame
<1>10. StaysTame(v, o, p, key)
  BY <1>9, Zenon DEF StaysTame
<1>7. RowStep(v, o, p, t, id)
  BY <1>3, <1>4, <1>6, <1>10, Zenon DEF RowStep, key
<1>. QED BY <1>3, <1>4, <1>5, <1>7, Zenon DEF p, key

LEMMA RowStepTwice ==
  ASSUME NEW v, NEW o, NEW p, NEW q, NEW t \in TableName, NEW id \in Ids,
         RowStep(v, o, p, t, id), Filed(v, p, q, t, id),
         \A u \in TableName, j \in Ids : u # t \/ j # id => SameEntries(p.view, q.view, u, j)
  PROVE  RowStep(v, o, q, t, id)
<1>1. \A k \in StoreKey : k.kind # "Index" /\ k # RowKey(t, id) => q.view[k] = o.view[k]
  BY DEF RowStep, Filed, SameRows
<1>2. \A u \in TableName, j \in Ids : u # t \/ j # id => SameEntries(o.view, q.view, u, j)
  BY DEF RowStep, SameEntries
<1>3. /\ Going(v, q) /\ q.ok /\ q.count = o.count
      /\ KeysIn(o.writes) \cup {RowKey(t, id)} \subseteq KeysIn(q.writes)
      /\ GoneIn(o.writes) \subseteq GoneIn(q.writes)
  BY DEF RowStep, Filed
<1>4. StaysTame(v, o, q, RowKey(t, id))
  BY Zenon DEF RowStep, Filed, StaysTame
<1>. QED BY <1>1, <1>2, <1>3, <1>4, Zenon DEF RowStep

\* The rows of other keys that were there are there.
OthersStay(o, p, t, id) ==
    \A u \in TableName, j \in Ids :
        (u # t \/ j # id) /\ o.view[RowKey(u, j)] # None => p.view[RowKey(u, j)] # None

LEMMA OtherRows ==
  ASSUME NEW v, NEW o, NEW p, NEW t \in TableName, NEW id \in Ids, RowStep(v, o, p, t, id)
  PROVE  /\ OthersStay(o, p, t, id)
         /\ \A k \in StoreKey : k.kind = "Row" /\ k # RowKey(t, id) => p.view[k] = o.view[k]
         /\ \A u \in TableName : p.view[TableKey(u)] = o.view[TableKey(u)]
<1>1. \A k \in StoreKey : k.kind = "Row" /\ k # RowKey(t, id) => p.view[k] = o.view[k]
  BY DEF RowStep
<1>2. \A u \in TableName : p.view[TableKey(u)] = o.view[TableKey(u)]
  BY KeysOfStore, KeysApart DEF RowStep
<1>3. OthersStay(o, p, t, id)
  BY <1>1, KeysOfStore, KeysApart DEF OthersStay
<1>. QED BY <1>1, <1>2, <1>3

(* One row less.                                                           *)
LEMMA DeleteRowKept ==
  ASSUME NEW v, NEW gone, NEW bad, NEW n \in Int, NEW o, o.ok, Kept(v, gone, bad, n, o),
         NEW t \in TableName, NEW id \in Ids, NEW cols, o.view[RowKey(t, id)] # None
  PROVE  /\ Kept(v, gone, bad, n - 1, DeleteRow(o, t, cols, id)) /\ DeleteRow(o, t, cols, id).ok
         /\ RowStep(v, o, DeleteRow(o, t, cols, id), t, id)
         /\ DeleteRow(o, t, cols, id).view[RowKey(t, id)] = None
<1>. DEFINE p == DeleteRow(o, t, cols, id)
            key == RowKey(t, id)
<1>1. p = Put(o, key, None) /\ None # Unwritten
  BY SqlMarkersAssumption DEF DeleteRow
<1>2. Going(v, o) /\ Total(o.view) = n
  BY DEF Kept
<1>3. RowStep(v, o, p, t, id) /\ p.view[key] = None /\ key \in GoneIn(p.writes)
  <2>. HIDE DEF p
  <2>. QED BY <1>1, <1>2, PutRow
<1>. HIDE DEF p
<1>4. key \in StoreKey /\ key.kind = "Row" /\ o.view[key] # None
  BY RowKeyOf
<1>5. \A k \in StoreKey : k.kind = "Row" /\ k # key => p.view[k] = o.view[k]
  BY <1>3 DEF RowStep
<1>6. Total(p.view) = n - 1
  <2>1. \A k \in StoreKey : k.kind = "Row" /\ k # key => o.view[k] = p.view[k]
    BY <1>5
  <2>. DEFINE a == p.view
              b == o.view
  <2>2. a[key] = None /\ b[key] # None
    BY <1>3, <1>4
  <2>3. \A k \in StoreKey : k.kind = "Row" /\ k # key => b[k] = a[k]
    BY <2>1
  <2>. HIDE DEF key, a, b
  <2>4. Total(a) = Total(b) - 1
    BY <1>4, <2>2, <2>3, RowComes
  <2>. QED BY <1>2, <2>4 DEF a, b
<1>7. TidyRow(p.view, gone \cup GoneIn(p.writes), bad, t, id)
  BY <1>3 DEF TidyRow
<1>8. Kept(v, gone, bad, Total(p.view), p)
  BY <1>3, <1>7, RowStepKept
<1>9. p.ok
  BY <1>3 DEF RowStep
<1>. QED BY <1>3, <1>6, <1>8, <1>9 DEF p

\* The fold over the indexed columns of a new row.
Added(c, n, p) ==
    AddedTo(c.v, c.base, c.t, c.id, c.cols, c.row, {IndexCols(c.cols)[m] : m \in 1..n}, p)

Adding == INSTANCE Induction WITH Step <- AddStep, Holds <- Added

LEMMA CreateRowAdds ==
  ASSUME NEW c, c.o.view[TableKey(c.t)] # None, Fits(c.o.view[TableKey(c.t)], c.row),
         ReadById(c.o.view, c.t, GetPrimaryKey(c.o.view[TableKey(c.t)], c.row)) = None
  PROVE  CreateRow(c.o, c.t, c.row)
            = Adding!Fold(c, Put(c.o, RowKey(c.t, GetPrimaryKey(c.o.view[TableKey(c.t)], c.row)),
                                 c.row),
                          IndexCols(c.o.view[TableKey(c.t)]))
BY Zenon DEF CreateRow, Adding!Fold, Adding!Folds, Adding!Last, FoldLeft, MapThenFoldSet, Max,
             AddStep

(* The id of a new row is in the entries of its values, beside what was    *)
(* there before.                                                           *)
LEMMA CreateRowFiles ==
  ASSUME NamesApart, NEW v, NEW o, Going(v, o), o.ok, NEW t \in TableName, NEW cols,
         cols = o.view[TableKey(t)], cols # None, cols \in Seq(Column),
         NEW row \in Seq(Datum), Len(cols) <= Len(row), Fits(cols, row),
         NEW id \in Ids, id = GetPrimaryKey(cols, row), ReadById(o.view, t, id) = None,
         NEW base, base = Put(o, RowKey(t, id), row)
  PROVE  AddedTo(v, base, t, id, cols, row, {i \in DOMAIN cols : cols[i].index},
                 CreateRow(o, t, row))
<1>. DEFINE c == [v |-> v, o |-> o, base |-> base, t |-> t, id |-> id, cols |-> cols, row |-> row]
            p == Adding!Fold(c, base, IndexCols(cols))
            Some(n) == {IndexCols(cols)[m] : m \in 1..n}
<1>1. c.v = v /\ c.o = o /\ c.base = base /\ c.t = t /\ c.id = id /\ c.cols = cols /\ c.row = row
  OBVIOUS
<1>. HIDE DEF c
<1>2. CreateRow(o, t, row) = p
  <2>1. c.o.view[TableKey(c.t)] = cols
    BY <1>1
  <2>. QED BY <1>1, <2>1, CreateRowAdds, Zenon
<1>3. PICK n \in Nat :
         /\ DOMAIN IndexCols(cols) = 1..n
         /\ \A m \in 1..n : IndexCols(cols)[m] \in DOMAIN cols /\ cols[IndexCols(cols)[m]].index
         /\ \A i \in DOMAIN cols : cols[i].index => \E m \in 1..n : IndexCols(cols)[m] = i
  BY IndexColsList
<1>4. Filed(v, base, base, t, id)
  <2>1. row # Unwritten
    BY SqlMarkersAssumption
  <2>2. RowOf(v[TableKey(t)], id, row)
    BY DEF Going, RowOf
  <2>3. RowStep(v, o, base, t, id)
    BY <2>1, <2>2, PutRow
  <2>. QED BY <2>3 DEF RowStep, Filed, SameRows, StaysTame
<1>5. AddedTo(v, base, t, id, cols, row, Some(0), base)
  <2>1. Some(0) = {}
    OBVIOUS
  <2>. HIDE DEF Some
  <2>2. AddedTo(v, base, t, id, cols, row, {}, base)
    BY <1>4 DEF AddedTo
  <2>. QED BY <2>1, <2>2
<1>6. ASSUME NEW m \in 0..(n - 1), NEW q, AddedTo(v, base, t, id, cols, row, Some(m), q)
      PROVE  AddedTo(v, base, t, id, cols, row, Some(m + 1), AddStep(c, q, IndexCols(cols)[m + 1]))
  <2>. DEFINE i == IndexCols(cols)[m + 1]
  <2>1. i \in DOMAIN cols
    BY <1>3, m + 1 \in 1..n
  <2>2. AddStep(c, q, i) = AddToIndex(q, t, cols[i].name, row[i], id)
    BY <1>1, Zenon DEF AddStep
  <2>3. Some(m + 1) = Some(m) \cup {i}
    <3>1. \A k \in 1..(m + 1) : k \in 1..m \/ k = m + 1
      OBVIOUS
    <3>2. \A k \in 1..m : k \in 1..(m + 1)
      OBVIOUS
    <3>3. m + 1 \in 1..(m + 1)
      OBVIOUS
    <3>. QED BY <3>1, <3>2, <3>3
  <2>. HIDE DEF i, Some
  <2>4. AddedTo(v, base, t, id, cols, row, Some(m) \cup {i},
                AddToIndex(q, t, cols[i].name, row[i], id))
    BY <1>6, <2>1, AddedOne
  <2>. QED BY <2>2, <2>3, <2>4, Zenon DEF i
<1>. HIDE DEF Some
<1>7. Added(c, 0, base)
      /\ \A m \in 0..(n - 1) : \A q : Added(c, m, q) =>
             Added(c, m + 1, AddStep(c, q, IndexCols(cols)[m + 1]))
  BY <1>1, <1>5, <1>6, Zenon DEF Added, Some
<1>8. Added(c, n, p)
  BY <1>3, <1>7, Adding!FoldHolds, Zenon
<1>9. AddedTo(v, base, t, id, cols, row, Some(n), p)
  BY <1>1, <1>8, Zenon DEF Added, Some
<1>10. Some(n) = {i \in DOMAIN cols : cols[i].index}
  BY <1>3 DEF Some
<1>. QED BY <1>2, <1>9, <1>10, Zenon

\* The rows that were there are there.
AllStay(o, p) ==
    \A u \in TableName, j \in Ids : o.view[RowKey(u, j)] # None => p.view[RowKey(u, j)] # None

LEMMA ErrKept ==
  ASSUME NEW v, NEW o, NEW gone, NEW bad, NEW m, NEW n, Kept(v, gone, bad, m, o)
  PROVE  Kept(v, gone, bad, n, Err(o)) /\ ~Err(o).ok
<1>. DEFINE p == Err(o)
            no == FALSE
<1>1. o = [view |-> o.view, writes |-> o.writes, ok |-> o.ok, count |-> o.count]
  BY DEF Kept, Going
<1>2. p = [o EXCEPT !.ok = no]
  BY DEF Err
<1>. HIDE DEF no, p
<1>3. /\ p.ok = no /\ p = [view |-> p.view, writes |-> p.writes, ok |-> p.ok, count |-> p.count]
      /\ p.view = o.view /\ p.writes = o.writes
  BY <1>1, <1>2
<1>4. ~p.ok
  BY <1>3 DEF no
<1>5. Going(v, p)
  BY <1>3 DEF Kept, Going
<1>6. Tame(v, p, KeysIn(p.writes))
  BY <1>3 DEF Kept, Tame
<1>. QED BY <1>3, <1>4, <1>5, <1>6 DEF Kept, p

(* One row more.                                                           *)
LEMMA CreateRowKept ==
  ASSUME NamesApart, NEW v, NEW gone, NEW bad, NEW n \in Int, NEW o, o.ok, Kept(v, gone, bad, n, o),
         NEW t \in TableName, NEW row \in Seq(Datum),
         o.view[TableKey(t)] # None => Len(o.view[TableKey(t)]) <= Len(row)
  PROVE  /\ Kept(v, gone, bad, n + 1, CreateRow(o, t, row))
         /\ CreateRow(o, t, row).ok => AllStay(o, CreateRow(o, t, row))
<1>. DEFINE cols == o.view[TableKey(t)]
            id == GetPrimaryKey(cols, row)
            key == RowKey(t, id)
            base == Put(o, key, row)
            p == CreateRow(o, t, row)
            fails == cols = None \/ ~Fits(cols, row) \/ ReadById(o.view, t, id) # None
            B == gone \cup GoneIn(p.writes)
<1>1. Going(v, o) /\ Tidy(o.view, gone \cup GoneIn(o.writes), bad) /\ Total(o.view) = n
  BY DEF Kept
<1>2. CASE fails
  <2>1. p = Err(o)
    BY <1>2 DEF CreateRow
  <2>2. Kept(v, gone, bad, n + 1, Err(o)) /\ ~Err(o).ok
    BY ErrKept
  <2>. QED BY <2>1, <2>2
<1>3. CASE ~fails
  <2>1. cols # None /\ Fits(cols, row) /\ WellFormed(cols) /\ Len(cols) <= Len(row)
    BY <1>1, <1>3 DEF Tidy
  <2>. HIDE DEF cols
  <2>2. cols \in Seq(Column) /\ PrimaryKeyPos(cols) \in DOMAIN cols
        /\ ~cols[PrimaryKeyPos(cols)].nullable
    BY <2>1 DEF WellFormed
  <2>3. id \in Ids
    <3>1. row[PrimaryKeyPos(cols)] \in Datum
      BY <2>1, <2>2, ColumnValue
    <3>2. row[PrimaryKeyPos(cols)] # Null
      BY <2>1, <2>2 DEF Fits
    <3>. QED BY <3>1, <3>2 DEF GetPrimaryKey, Ids
  <2>4. ReadById(o.view, t, id) = None
    BY <1>3
  <2>. HIDE DEF id
  <2>5. key \in StoreKey /\ key.kind = "Row"
    BY <2>3, RowKeyOf
  <2>6. o.view[key] = None
    BY <2>3, <2>4 DEF ReadById
  <2>7. row # Unwritten /\ row # None
    BY SqlMarkersAssumption
  <2>21. RowOf(v[TableKey(t)], id, row)
    BY <1>1, <2>1 DEF Going, RowOf, cols, id
  <2>8. /\ RowStep(v, o, base, t, id) /\ base.view[key] = row
        /\ \A u \in TableName, c \in ColumnName, y \in Datum :
              LoadIndex(base.view, u, c, y) = LoadIndex(o.view, u, c, y)
    BY <1>1, <2>3, <2>7, <2>21, PutRow
  <2>9. AddedTo(v, base, t, id, cols, row, {i \in DOMAIN cols : cols[i].index}, p)
    BY <1>1, <2>1, <2>2, <2>3, <2>4, CreateRowFiles DEF cols, id
  <2>. HIDE DEF p, base
  <2>10. Filed(v, base, p, t, id)
         /\ \A u \in TableName, d \in ColumnName, y \in Datum, j \in Ids :
              j \in LoadIndex(p.view, u, d, y) <=>
                 \/ j \in LoadIndex(o.view, u, d, y)
                 \/ /\ u = t /\ j = id
                    /\ \E i \in DOMAIN cols : cols[i].index /\ d = cols[i].name /\ y = row[i]
    BY <2>8, <2>9 DEF AddedTo
  <2>11. RowStep(v, o, p, t, id)
    <3>1. \A u \in TableName, j \in Ids : u # t \/ j # id => SameEntries(base.view, p.view, u, j)
      BY <2>8, <2>10 DEF SameEntries
    <3>. QED BY <2>3, <2>8, <2>10, <3>1, RowStepTwice
  <2>12. p.view[key] = row /\ p.view[TableKey(t)] = cols
    <3>1. p.view[key] = row
      BY <2>5, <2>8, <2>10 DEF Filed, SameRows
    <3>2. p.view[TableKey(t)] = o.view[TableKey(t)]
      BY <2>3, <2>11, OtherRows
    <3>. QED BY <3>1, <3>2 DEF cols
  <2>13. \A i \in DOMAIN cols : cols[i].name \in ColumnName /\ row[i] \in Datum
    BY <2>1, <2>2, ColumnValue
  <2>14. Indexed(p.view, t, id, cols, row)
    BY <2>3, <2>10, <2>13 DEF Indexed
  <2>15. ASSUME key \notin B \cup bad PROVE OnlyIndexed(p.view, t, id, cols, row)
    <3>1. OnlyIndexed(o.view, t, id, cols, None)
      <4>1. key \notin gone \cup GoneIn(o.writes) \cup bad
        BY <2>11, <2>15 DEF RowStep
      <4>2. TidyRow(o.view, gone \cup GoneIn(o.writes), bad, t, id)
        BY <1>1, <2>3 DEF Tidy
      <4>3. o.view[TableKey(t)] = cols /\ o.view[RowKey(t, id)] = None
        BY <2>6 DEF cols
      <4>. QED BY <2>1, <4>1, <4>2, <4>3 DEF TidyRow
    <3>2. ASSUME NEW i \in DOMAIN cols, NEW x \in Datum, cols[i].index,
                 id \in LoadIndex(p.view, t, cols[i].name, x)
          PROVE  row[i] = x
      <4>1. id \notin LoadIndex(o.view, t, cols[i].name, x)
        BY <3>1, <3>2 DEF OnlyIndexed
      <4>2. PICK k \in DOMAIN cols : cols[k].index /\ cols[i].name = cols[k].name /\ x = row[k]
        BY <2>3, <2>10, <2>13, <3>2, <4>1
      <4>3. k = i
        BY <2>1, <3>2, <4>2 DEF WellFormed
      <4>. QED BY <4>2, <4>3
    <3>. QED BY <2>7, <3>2 DEF OnlyIndexed
  <2>16. RowOf(cols, id, row)
    BY <2>1 DEF RowOf, id
  <2>17. TidyRow(p.view, B, bad, t, id)
    BY <2>12, <2>14, <2>15, <2>16, Zenon DEF TidyRow
  <2>18. Kept(v, gone, bad, Total(p.view), p)
    BY <1>1, <2>3, <2>11, <2>17, RowStepKept
  <2>19. Total(p.view) = n + 1
    <3>. DEFINE a == p.view
                b == o.view
    <3>1. \A k \in StoreKey : k.kind = "Row" /\ k # key => a[k] = b[k]
      BY <2>11 DEF RowStep
    <3>2. b[key] = None /\ a[key] # None
      BY <2>6, <2>7, <2>12
    <3>. HIDE DEF a, b, key
    <3>3. Total(a) = Total(b) + 1
      BY <2>5, <3>1, <3>2, RowComes
    <3>. QED BY <1>1, <3>3 DEF a, b
  <2>20. AllStay(o, p)
    <3>1. OthersStay(o, p, t, id)
      BY <2>3, <2>11, OtherRows
    <3>. QED BY <2>7, <2>12, <3>1 DEF AllStay, OthersStay
  <2>. QED BY <2>18, <2>19, <2>20 DEF p
<1>. QED BY <1>2, <1>3

\* The fold over the indexed columns of a changed row.
Moved(c, n, p) ==
    MovedTo(c.v, c.o, c.t, c.id, c.cols, c.row, c.old, {IndexCols(c.cols)[m] : m \in 1..n}, p)

Moving == INSTANCE Induction WITH Step <- MoveStep, Holds <- Moved

LEMMA UpdateRowMoves ==
  ASSUME NEW c, c.id = GetPrimaryKey(c.cols, c.row)
  PROVE  UpdateRow(c.o, c.t, c.cols, c.id, c.row)
            = Put(Moving!Fold(c, c.o, IndexCols(c.cols)), RowKey(c.t, c.id), c.row)
BY Zenon DEF UpdateRow, Moving!Fold, Moving!Folds, Moving!Last, FoldLeft, MapThenFoldSet, Max,
             MoveStep

\* The last write of a changed row, and what was done before it.
Rewritten(v, o, t, id, cols, row, old, p) ==
    \E q : /\ MovedTo(v, o, t, id, cols, row, old, {i \in DOMAIN cols : cols[i].index}, q)
           /\ p = Put(q, RowKey(t, id), row)

LEMMA UpdateRowFiles ==
  ASSUME NamesApart, NEW v, NEW o, Going(v, o), o.ok, NEW t \in TableName, NEW id \in Ids,
         NEW cols, WellFormed(cols), NEW row \in Seq(Datum), Len(cols) <= Len(row),
         id = GetPrimaryKey(cols, row),
         NEW old, old = ReadById(o.view, t, id), old # None, old \in Seq(Datum),
         Len(cols) <= Len(old)
  PROVE  Rewritten(v, o, t, id, cols, row, old, UpdateRow(o, t, cols, id, row))
<1>. DEFINE c == [v |-> v, o |-> o, t |-> t, id |-> id, cols |-> cols, row |-> row, old |-> old]
            q == Moving!Fold(c, o, IndexCols(cols))
            Some(n) == {IndexCols(cols)[m] : m \in 1..n}
<1>1. c.v = v /\ c.o = o /\ c.t = t /\ c.id = id /\ c.cols = cols /\ c.row = row /\ c.old = old
  OBVIOUS
<1>. HIDE DEF c
<1>2. UpdateRow(o, t, cols, id, row) = Put(q, RowKey(t, id), row)
  BY <1>1, UpdateRowMoves, Zenon
<1>3. cols \in Seq(Column)
  BY DEF WellFormed
<1>4. PICK n \in Nat :
         /\ DOMAIN IndexCols(cols) = 1..n
         /\ \A m \in 1..n : IndexCols(cols)[m] \in DOMAIN cols /\ cols[IndexCols(cols)[m]].index
         /\ \A i \in DOMAIN cols : cols[i].index => \E m \in 1..n : IndexCols(cols)[m] = i
  BY <1>3, IndexColsList
<1>5. MovedTo(v, o, t, id, cols, row, old, Some(0), o)
  <2>1. Some(0) = {}
    OBVIOUS
  <2>. HIDE DEF Some
  <2>2. Filed(v, o, o, t, id)
    BY DEF Filed, SameRows, StaysTame
  <2>3. MovedTo(v, o, t, id, cols, row, old, {}, o)
    BY <2>2, Zenon DEF MovedTo
  <2>. QED BY <2>1, <2>3
<1>6. ASSUME NEW m \in 0..(n - 1), NEW r, MovedTo(v, o, t, id, cols, row, old, Some(m), r)
      PROVE  MovedTo(v, o, t, id, cols, row, old, Some(m + 1), MoveStep(c, r, IndexCols(cols)[m + 1]))
  <2>. DEFINE i == IndexCols(cols)[m + 1]
              s == AddToIndex(RemoveFromIndex(r, t, cols[i].name, old[i], id),
                              t, cols[i].name, row[i], id)
  <2>1. i \in DOMAIN cols /\ cols[i].index
    BY <1>4, m + 1 \in 1..n
  <2>2. MoveStep(c, r, i) = IF old[i] = row[i] THEN r ELSE s
    <3>. HIDE DEF i
    <3>. QED BY <1>1, Zenon DEF MoveStep
  <2>3. Some(m + 1) = Some(m) \cup {i}
    <3>1. \A k \in 1..(m + 1) : k \in 1..m \/ k = m + 1
      OBVIOUS
    <3>2. \A k \in 1..m : k \in 1..(m + 1)
      OBVIOUS
    <3>3. m + 1 \in 1..(m + 1)
      OBVIOUS
    <3>. QED BY <3>1, <3>2, <3>3
  <2>. HIDE DEF i, Some
  <2>4. ASSUME old[i] = row[i] PROVE MovedTo(v, o, t, id, cols, row, old, Some(m) \cup {i}, r)
    BY <1>6, <2>1, <2>4, MovedSame
  <2>5. ASSUME old[i] # row[i] PROVE MovedTo(v, o, t, id, cols, row, old, Some(m) \cup {i}, s)
    BY <1>6, <2>1, <2>5, MovedOne
  <2>. HIDE DEF s
  <2>. QED BY <2>2, <2>3, <2>4, <2>5, Zenon DEF i
<1>. HIDE DEF Some
<1>7. Moved(c, 0, o)
      /\ \A m \in 0..(n - 1) : \A r : Moved(c, m, r) =>
             Moved(c, m + 1, MoveStep(c, r, IndexCols(cols)[m + 1]))
  BY <1>1, <1>5, <1>6, Zenon DEF Moved, Some
<1>8. Moved(c, n, q)
  BY <1>4, <1>7, Moving!FoldHolds, Zenon
<1>9. MovedTo(v, o, t, id, cols, row, old, Some(n), q)
  BY <1>1, <1>8, Zenon DEF Moved, Some
<1>10. Some(n) = {i \in DOMAIN cols : cols[i].index}
  BY <1>4 DEF Some
<1>. QED BY <1>2, <1>9, <1>10, Zenon DEF Rewritten

LEMMA RowAfterEntries ==
  ASSUME NEW v, NEW o, NEW q, NEW p, NEW t \in TableName, NEW id \in Ids,
         Filed(v, o, q, t, id), RowStep(v, q, p, t, id),
         \A u \in TableName, j \in Ids : u # t \/ j # id => SameEntries(o.view, q.view, u, j)
  PROVE  RowStep(v, o, p, t, id)
<1>1. \A k \in StoreKey : k.kind # "Index" /\ k # RowKey(t, id) => p.view[k] = o.view[k]
  BY DEF RowStep, Filed, SameRows
<1>2. \A u \in TableName, j \in Ids : u # t \/ j # id => SameEntries(o.view, p.view, u, j)
  BY DEF RowStep, SameEntries
<1>3. /\ Going(v, p) /\ p.ok /\ p.count = o.count
      /\ KeysIn(o.writes) \cup {RowKey(t, id)} \subseteq KeysIn(p.writes)
      /\ GoneIn(o.writes) \subseteq GoneIn(p.writes)
  BY DEF RowStep, Filed
<1>4. StaysTame(v, o, p, RowKey(t, id))
  BY Zenon DEF RowStep, Filed, StaysTame
<1>. QED BY <1>1, <1>2, <1>3, <1>4, Zenon DEF RowStep

(* A changed row, of the same key, is in the entries of its new values.    *)
LEMMA RewriteKept ==
  ASSUME NamesApart, NEW v, NEW gone, NEW bad, NEW n \in Int, NEW o, o.ok, Kept(v, gone, bad, n, o),
         NEW t \in TableName, NEW id \in Ids, NEW cols, cols = o.view[TableKey(t)],
         NEW old, old = o.view[RowKey(t, id)], old # None,
         NEW row \in Seq(Datum), Len(cols) <= Len(row), id = GetPrimaryKey(cols, row)
  PROVE  /\ Kept(v, gone, bad, n, UpdateRow(o, t, cols, id, row))
         /\ OthersStay(o, UpdateRow(o, t, cols, id, row), t, id)
<1>. DEFINE p == UpdateRow(o, t, cols, id, row)
            key == RowKey(t, id)
            A == gone \cup GoneIn(o.writes)
            B == gone \cup GoneIn(p.writes)
<1>1. Going(v, o) /\ Tidy(o.view, A, bad) /\ Total(o.view) = n
  BY DEF Kept
<1>2. TidyRow(o.view, A, bad, t, id) /\ (cols # None => WellFormed(cols))
  BY <1>1 DEF Tidy
<1>. HIDE DEF p, A
<1>3. /\ RowOf(cols, id, old) /\ cols # None
      /\ key \notin bad => Indexed(o.view, t, id, cols, old)
      /\ key \notin A \cup bad => OnlyIndexed(o.view, t, id, cols, old)
  BY <1>2 DEF TidyRow, RowOf
<1>4. WellFormed(cols) /\ cols \in Seq(Column)
  BY <1>2, <1>3 DEF WellFormed
<1>5. Rewritten(v, o, t, id, cols, row, old, p)
  <2>1. old = ReadById(o.view, t, id)
    BY DEF ReadById
  <2>. QED BY <1>1, <1>3, <1>4, <2>1, UpdateRowFiles DEF RowOf, p
<1>6. PICK q : /\ MovedTo(v, o, t, id, cols, row, old, {i \in DOMAIN cols : cols[i].index}, q)
               /\ p = Put(q, key, row)
  BY <1>5, Zenon DEF Rewritten
<1>7. /\ Filed(v, o, q, t, id)
      /\ \A u \in TableName, d \in ColumnName, y \in Datum, j \in Ids :
           u # t \/ j # id => (j \in LoadIndex(q.view, u, d, y) <=> j \in LoadIndex(o.view, u, d, y))
      /\ key \notin bad => \A i \in DOMAIN cols : cols[i].index =>
           /\ id \in LoadIndex(q.view, t, cols[i].name, row[i])
           /\ \A y \in Datum : y # row[i] /\ id \in LoadIndex(q.view, t, cols[i].name, y) =>
                 id \in LoadIndex(o.view, t, cols[i].name, y) /\ y # old[i]
  BY <1>3, <1>6 DEF MovedTo
<1>8. row # Unwritten /\ row # None
  BY SqlMarkersAssumption
<1>19. RowOf(v[TableKey(t)], id, row)
  BY <1>1, <1>3 DEF Going, RowOf
<1>9. /\ RowStep(v, q, p, t, id) /\ p.view[key] = row
      /\ \A u \in TableName, c \in ColumnName, y \in Datum :
            LoadIndex(p.view, u, c, y) = LoadIndex(q.view, u, c, y)
  BY <1>6, <1>7, <1>8, <1>19, PutRow DEF Filed
<1>10. RowStep(v, o, p, t, id)
  <2>1. \A u \in TableName, j \in Ids : u # t \/ j # id => SameEntries(o.view, q.view, u, j)
    BY <1>7 DEF SameEntries
  <2>. QED BY <1>7, <1>9, <2>1, RowAfterEntries
<1>11. OthersStay(o, p, t, id) /\ p.view[TableKey(t)] = cols
  BY <1>10, OtherRows
<1>12. \A i \in DOMAIN cols : cols[i].name \in ColumnName /\ row[i] \in Datum
  BY <1>4, ColumnValue
<1>13. key \notin bad => Indexed(p.view, t, id, cols, row)
  BY <1>7, <1>9, <1>12 DEF Indexed
<1>14. ASSUME key \notin B \cup bad PROVE OnlyIndexed(p.view, t, id, cols, row)
  <2>1. OnlyIndexed(o.view, t, id, cols, old)
    <3>1. key \notin A \cup bad
      BY <1>10, <1>14 DEF RowStep, A
    <3>. QED BY <1>3, <3>1
  <2>2. ASSUME NEW i \in DOMAIN cols, NEW x \in Datum, cols[i].index,
               id \in LoadIndex(p.view, t, cols[i].name, x)
        PROVE  row[i] = x
    <3>1. id \in LoadIndex(q.view, t, cols[i].name, x)
      BY <1>9, <1>12, <2>2
    <3>2. x # row[i] => id \in LoadIndex(o.view, t, cols[i].name, x) /\ x # old[i]
      BY <1>7, <1>14, <2>2, <3>1
    <3>. QED BY <2>1, <2>2, <3>2 DEF OnlyIndexed
  <2>. QED BY <1>8, <2>2 DEF OnlyIndexed
<1>15. RowOf(cols, id, row)
  BY <1>3 DEF RowOf
<1>16. TidyRow(p.view, B, bad, t, id)
  BY <1>9, <1>11, <1>13, <1>14, <1>15, Zenon DEF TidyRow
<1>17. Kept(v, gone, bad, Total(p.view), p)
  BY <1>10, <1>16, RowStepKept
<1>18. Total(p.view) = n
  <2>1. \A k \in StoreKey : k.kind = "Row" => (p.view[k] = None <=> o.view[k] = None)
    BY <1>8, <1>9, <1>10 DEF RowStep
  <2>2. Total(p.view) = Total(o.view)
    <3>. DEFINE a == p.view
                b == o.view
    <3>1. \A k \in StoreKey : k.kind = "Row" => (a[k] = None <=> b[k] = None)
      BY <2>1
    <3>. HIDE DEF a, b
    <3>2. Total(a) = Total(b)
      BY <3>1, RowStays
    <3>. QED BY <3>2 DEF a, b
  <2>. QED BY <1>1, <2>2
<1>. QED BY <1>11, <1>17, <1>18 DEF p

(* As many rows, if a changed key is not that of another row.              *)
LEMMA UpdateRowKept ==
  ASSUME NamesApart, NEW v, NEW gone, NEW bad, NEW n \in Int, NEW o, o.ok, Kept(v, gone, bad, n, o),
         NEW t \in TableName, NEW id \in Ids, NEW cols, cols = o.view[TableKey(t)],
         o.view[RowKey(t, id)] # None,
         NEW row \in Seq(Datum), Len(cols) <= Len(row)
  PROVE  /\ Kept(v, gone, bad, n, UpdateRow(o, t, cols, id, row))
         /\ UpdateRow(o, t, cols, id, row).ok =>
               OthersStay(o, UpdateRow(o, t, cols, id, row), t, id)
<1>1. CASE id = GetPrimaryKey(cols, row)
  BY <1>1, RewriteKept
<1>2. CASE GetPrimaryKey(cols, row) # id
  <2>. DEFINE q == DeleteRow(o, t, cols, id)
              p == CreateRow(q, t, row)
  <2>1. UpdateRow(o, t, cols, id, row) = p
    BY <1>2 DEF UpdateRow
  <2>2. Kept(v, gone, bad, n - 1, q) /\ q.ok /\ RowStep(v, o, q, t, id)
    BY DeleteRowKept
  <2>3. OthersStay(o, q, t, id) /\ q.view[TableKey(t)] = cols
    BY <2>2, OtherRows
  <2>4. n - 1 \in Int /\ n - 1 + 1 = n
    OBVIOUS
  <2>. HIDE DEF q
  <2>5. Kept(v, gone, bad, n - 1 + 1, p) /\ (p.ok => AllStay(q, p))
    BY <2>2, <2>3, <2>4, CreateRowKept
  <2>. HIDE DEF p
  <2>6. p.ok => OthersStay(o, p, t, id)
    BY <2>3, <2>5 DEF OthersStay, AllStay
  <2>. QED BY <2>1, <2>4, <2>5, <2>6
<1>. QED BY <1>1, <1>2

-----------------------------------------------------------------------------
(* The rows a statement goes through                                       *)

\* A row of the table, under its key.
IsRowAt(view, t, row) ==
    LET id == GetPrimaryKey(view[TableKey(t)], row)
    IN  /\ row \in Seq(Datum) /\ Len(view[TableKey(t)]) <= Len(row)
        /\ id \in Ids /\ view[RowKey(t, id)] = row

\* Rows of the table, each once.
Source(view, t, rows) ==
    /\ rows \in Seq(Seq(Datum))
    /\ \A i \in 1..Len(rows) : IsRowAt(view, t, rows[i])
    /\ \A i, j \in 1..Len(rows) : i # j =>
          GetPrimaryKey(view[TableKey(t)], rows[i]) # GetPrimaryKey(view[TableKey(t)], rows[j])

LEMMA RowIsAt ==
  ASSUME NEW view, NEW gone, NEW bad, Tidy(view, gone, bad), NEW t \in TableName, NEW id \in Ids,
         view[RowKey(t, id)] # None
  PROVE  /\ IsRowAt(view, t, view[RowKey(t, id)])
         /\ GetPrimaryKey(view[TableKey(t)], view[RowKey(t, id)]) = id
<1>1. RowOf(view[TableKey(t)], id, view[RowKey(t, id)])
  BY DEF Tidy, TidyRow
<1>. QED BY <1>1 DEF RowOf, IsRowAt

(* Rows listed by something that tells their keys.                         *)
LEMMA SourceListed ==
  ASSUME NEW view, NEW t, NEW S, NEW seq, Induct!Listing(S, seq),
         NEW rows, DOMAIN rows = DOMAIN seq, rows = [i \in DOMAIN rows |-> rows[i]],
         \A i \in DOMAIN seq : IsRowAt(view, t, rows[i]),
         \A i, j \in DOMAIN seq :
            GetPrimaryKey(view[TableKey(t)], rows[i]) = GetPrimaryKey(view[TableKey(t)], rows[j]) =>
                seq[i] = seq[j]
  PROVE  Source(view, t, rows)
<1>1. PICK n \in Nat : /\ seq \in [1..n -> S]
                       /\ \A i, j \in 1..n : i # j => seq[i] # seq[j]
  BY DEF Induct!Listing
<1>2. DOMAIN seq = 1..n
  BY <1>1
<1>3. \A i \in 1..n : rows[i] \in Seq(Datum)
  BY <1>2 DEF IsRowAt
<1>4. rows \in [1..n -> Seq(Datum)]
  BY <1>2, <1>3
<1>5. rows \in Seq(Seq(Datum)) /\ Len(rows) = n
  BY <1>4
<1>. QED BY <1>1, <1>2, <1>5 DEF Source

LEMMA RowsAtSource ==
  ASSUME NamesApart, NEW view, Typed(view), NEW gone, NEW bad, Tidy(view, gone, bad), NEW t \in TableName,
         NEW S \in SUBSET RowKeys(view, t)
  PROVE  Source(view, t, RowsAt(view, S))
<1>. DEFINE seq == InOrder(S, KeyBefore)
            rows == [i \in DOMAIN seq |-> view[seq[i]]]
<1>1. RowKeys(view, t) \in SUBSET RowKeySet
  BY RowKeysOfView
<1>2. ASSUME NEW k \in S PROVE \E id \in Ids : k = RowKey(t, id) /\ view[k] # None
  <2>1. k \in RowKeySet /\ IsPrefix(t, k.name) /\ view[k] # None
    BY <1>1 DEF RowKeys
  <2>2. PICK u \in TableName, id \in Ids : k = RowKey(u, id)
    BY <2>1 DEF RowKeySet
  <2>3. k.name = u
    BY <2>2, KeysApart
  <2>4. t = u
    BY <2>1, <2>3 DEF NamesApart
  <2>. QED BY <2>1, <2>2, <2>4
<1>3. ASSUME NEW k \in S
      PROVE  IsRowAt(view, t, view[k]) /\ k = RowKey(t, GetPrimaryKey(view[TableKey(t)], view[k]))
  BY <1>2, RowIsAt
<1>4. Induct!Listing(S, seq)
  BY <1>1, KeysInOrder
<1>5. RowsAt(view, S) = rows
  BY Zenon DEF RowsAt
<1>. HIDE DEF seq
<1>6. \A i \in DOMAIN seq : seq[i] \in S
  BY <1>4 DEF Induct!Listing
<1>7. /\ DOMAIN rows = DOMAIN seq /\ rows = [i \in DOMAIN rows |-> rows[i]]
      /\ \A i \in DOMAIN seq : rows[i] = view[seq[i]]
  OBVIOUS
<1>. HIDE DEF rows
<1>8. \A i \in DOMAIN seq : IsRowAt(view, t, rows[i])
  BY <1>3, <1>6, <1>7
<1>9. \A i \in DOMAIN seq : seq[i] = RowKey(t, GetPrimaryKey(view[TableKey(t)], rows[i]))
  BY <1>3, <1>6, <1>7
<1>10. \A i, j \in DOMAIN seq :
          GetPrimaryKey(view[TableKey(t)], rows[i]) = GetPrimaryKey(view[TableKey(t)], rows[j]) =>
              seq[i] = seq[j]
  BY <1>9
<1>. QED BY <1>4, <1>5, <1>7, <1>8, <1>10, SourceListed

LEMMA ScanTableSource ==
  ASSUME NamesApart, NEW view, Typed(view), NEW gone, NEW bad, Tidy(view, gone, bad), NEW t \in TableName,
         NEW where, ScanTable(view, t, where) # None
  PROVE  Source(view, t, ScanTable(view, t, where))
<1>. DEFINE keys == RowKeys(view, t)
            pos == ColumnPos(view[TableKey(t)], where.field)
            Test(k) == EvaluateEqual(view[k][CHOOSE i \in pos : TRUE], where.value)
            some == {k \in keys : Test(k) = TRUE}
<1>1. ScanTable(view, t, where) \in {RowsAt(view, keys), None, RowsAt(view, some)}
  BY Zenon DEF ScanTable
<1>2. some \in SUBSET keys
  <2>. HIDE DEF keys, Test
  <2>. QED OBVIOUS
<1>. HIDE DEF some
<1>3. Source(view, t, RowsAt(view, keys)) /\ Source(view, t, RowsAt(view, some))
  BY <1>2, RowsAtSource
<1>. QED BY <1>1, <1>3

LEMMA IndexScanSource ==
  ASSUME NEW view, NEW gone, NEW bad, Tidy(view, gone, bad), NEW t \in TableName, NEW c, NEW x
  PROVE  Source(view, t, IndexScan(view, t, c, x))
<1>. DEFINE S == {id \in LoadIndex(view, t, c, x) : ReadById(view, t, id) # None}
            seq == InOrder(S, IdBefore)
            rows == [i \in DOMAIN seq |-> ReadById(view, t, seq[i])]
<1>1. \A id \in S : id \in Ids /\ ReadById(view, t, id) = view[RowKey(t, id)]
                    /\ view[RowKey(t, id)] # None
  BY DEF ReadById
<1>2. IndexScan(view, t, c, x) = rows
  BY Zenon DEF IndexScan
<1>. HIDE DEF S
<1>3. Induct!Listing(S, seq)
  BY <1>1, IdsInOrder
<1>. HIDE DEF seq
<1>4. \A i \in DOMAIN seq : seq[i] \in S
  BY <1>3 DEF Induct!Listing
<1>5. /\ DOMAIN rows = DOMAIN seq /\ rows = [i \in DOMAIN rows |-> rows[i]]
      /\ \A i \in DOMAIN seq : rows[i] = ReadById(view, t, seq[i])
  OBVIOUS
<1>. HIDE DEF rows
<1>6. \A i \in DOMAIN seq : IsRowAt(view, t, rows[i]) /\ GetPrimaryKey(view[TableKey(t)], rows[i]) = seq[i]
  BY <1>1, <1>4, <1>5, RowIsAt
<1>7. /\ \A i \in DOMAIN seq : IsRowAt(view, t, rows[i])
      /\ \A i, j \in DOMAIN seq :
            GetPrimaryKey(view[TableKey(t)], rows[i]) = GetPrimaryKey(view[TableKey(t)], rows[j]) =>
                seq[i] = seq[j]
  BY <1>6
<1>. QED BY <1>2, <1>3, <1>5, <1>7, SourceListed

LEMMA PrimaryKeyScanSource ==
  ASSUME NEW view, NEW gone, NEW bad, Tidy(view, gone, bad), NEW t \in TableName, NEW x
  PROVE  Source(view, t, PrimaryKeyScan(view, t, x))
<1>. DEFINE row == ReadById(view, t, Whole(x))
<1>1. PrimaryKeyScan(view, t, x) = IF row = None THEN << >> ELSE << row >>
  BY Zenon DEF PrimaryKeyScan
<1>2. row # None => IsRowAt(view, t, row) /\ row \in Seq(Datum)
  <2>1. row # None => Whole(x) \in Ids /\ row = view[RowKey(t, Whole(x))]
    BY DEF ReadById
  <2>2. row # None => IsRowAt(view, t, row)
    BY <2>1, RowIsAt
  <2>. QED BY <2>2 DEF IsRowAt
<1>. HIDE DEF row
<1>3. CASE row = None
  <2>1. << >> \in Seq(Seq(Datum)) /\ Len(<< >>) = 0
    OBVIOUS
  <2>2. PrimaryKeyScan(view, t, x) = << >>
    BY <1>1, <1>3
  <2>3. Source(view, t, << >>)
    BY <2>1 DEF Source
  <2>. QED BY <2>2, <2>3
<1>4. CASE row # None
  <2>. DEFINE rows == << row >>
  <2>1. rows \in Seq(Seq(Datum)) /\ Len(rows) = 1 /\ rows[1] = row
    BY <1>2, <1>4
  <2>2. PrimaryKeyScan(view, t, x) = rows
    BY <1>1, <1>4
  <2>. HIDE DEF rows
  <2>3. \A i \in 1..Len(rows) : i = 1
    BY <2>1
  <2>4. Source(view, t, rows)
    BY <1>2, <1>4, <2>1, <2>3 DEF Source
  <2>. QED BY <2>2, <2>4
<1>. QED BY <1>3, <1>4

LEMMA SourceRowsSource ==
  ASSUME NamesApart, NEW view, Typed(view), NEW gone, NEW bad, Tidy(view, gone, bad), NEW t \in TableName,
         NEW where, SourceRows(view, t, where) # None
  PROVE  Source(view, t, SourceRows(view, t, where))
<1>1. SourceRows(view, t, where) \in
        {ScanTable(view, t, where), PrimaryKeyScan(view, t, where.value),
         IndexScan(view, t, where.field, where.value)}
  BY Zenon DEF SourceRows
<1>. QED BY <1>1, ScanTableSource, PrimaryKeyScanSource, IndexScanSource

-----------------------------------------------------------------------------
(* Statements                                                              *)

LEMMA StartKept ==
  ASSUME NEW view, NEW gone, NEW bad, Typed(view), Tidy(view, gone, bad)
  PROVE  Kept(view, gone, bad, Total(view), Start(view)) /\ Start(view).ok /\ Start(view).view = view
<1>. DEFINE o == Start(view)
<1>1. /\ o = [view |-> o.view, writes |-> o.writes, ok |-> o.ok, count |-> o.count]
      /\ o.ok /\ o.view = view /\ o.writes = << >>
  BY DEF Start
<1>. HIDE DEF o
<1>2. IsSeq(o.writes) /\ Len(o.writes) = 0 /\ \A i \in 1..Len(o.writes) : FALSE
  BY <1>1, EmptyIsSeq
<1>3. KeysIn(o.writes) = {} /\ GoneIn(o.writes) = {}
  BY <1>2 DEF KeysIn, GoneIn
<1>4. view = [k \in StoreKey |-> view[k]]
  BY DEF Typed
<1>5. Leads(view, o.writes, o.view)
  BY <1>1, <1>2, <1>4 DEF Leads
<1>6. EntriesTyped(view)
  BY DEF Tidy
<1>7. Going(view, o)
  BY <1>1, <1>2, <1>4, <1>5, <1>6, Zenon DEF Going
<1>8. Tame(view, o, {})
  <2>1. SameButFor(view, view, {})
    BY DEF SameButFor, SameEntries
  <2>2. AllNear(view, o.writes, {})
    BY <1>2 DEF AllNear
  <2>. QED BY <1>1, <2>1, <2>2 DEF Tame
<1>9. gone \cup {} = gone
  OBVIOUS
<1>10. Kept(view, gone, bad, Total(view), o)
  BY <1>1, <1>3, <1>7, <1>8, <1>9, Zenon DEF Kept
<1>. QED BY <1>1, <1>10 DEF o

LEMMA FailedKept ==
  ASSUME NEW v, NEW gone, NEW bad, NEW n, NEW m, NEW o, ~o.ok, Kept(v, gone, bad, n, o)
  PROVE  Kept(v, gone, bad, m, o)
BY DEF Kept

\* The number of rows is filled in.
Counted(o, m, p) == p = [o EXCEPT !.count = m]

LEMMA CountKept ==
  ASSUME NEW v, NEW gone, NEW bad, NEW n, NEW m, NEW o, Kept(v, gone, bad, n, o), NEW p, Counted(o, m, p)
  PROVE  Kept(v, gone, bad, n, p) /\ p.count = m
<1>1. o = [view |-> o.view, writes |-> o.writes, ok |-> o.ok, count |-> o.count]
  BY DEF Kept, Going
<1>2. p.view = o.view /\ p.writes = o.writes /\ p.ok = o.ok /\ p.count = m
      /\ p = [view |-> p.view, writes |-> p.writes, ok |-> p.ok, count |-> p.count]
  BY <1>1 DEF Counted
<1>3. Going(v, p)
  BY <1>2, Zenon DEF Kept, Going
<1>4. Tame(v, p, KeysIn(p.writes))
  BY <1>2, Zenon DEF Kept, Tame
<1>. QED BY <1>2, <1>3, <1>4, Zenon DEF Kept

\* The rows inserted so far.
Inserted(c, n, p) == Kept(c.v, c.gone, c.bad, Total(c.v) + n, p)

Inserting == INSTANCE Induction WITH Step <- InsertStep, Holds <- Inserted

LEMMA InsertInserts ==
  ASSUME NEW c, c.o.view[TableKey(c.t)] # None
  PROVE  Insert(c.o, c.t, c.names, c.rows)
            = [Inserting!Fold(c, c.o, c.rows) EXCEPT !.count = Len(c.rows)]
BY Zenon DEF Insert, Inserting!Fold, Inserting!Folds, Inserting!Last, FoldLeft, MapThenFoldSet,
             Max, InsertStep

LEMMA TableOfKept ==
  ASSUME NEW v, NEW gone, NEW bad, NEW n, NEW p, Kept(v, gone, bad, n, p), NEW t \in TableName
  PROVE  p.view[TableKey(t)] = v[TableKey(t)]
BY DEF Kept, Going

LEMMA CountsUp ==
  ASSUME NEW a \in Nat, NEW n \in Nat, NEW i \in 0..(n - 1)
  PROVE  a + i \in Int /\ a + i + 1 = a + (i + 1)
OBVIOUS

LEMMA InsertKept ==
  ASSUME NamesApart, NEW v, NEW gone, NEW bad, Typed(v), Tidy(v, gone, bad), NEW t \in TableName,
         NEW names \in Seq(ColumnName), NEW rows \in Seq(Seq(Datum)),
         NEW p, p = Insert(Start(v), t, names, rows)
  PROVE  Kept(v, gone, bad, Total(v) + Len(rows), p) /\ (p.ok => p.count = Len(rows))
<1>. DEFINE o == Start(v)
            cols == v[TableKey(t)]
            c == [v |-> v, gone |-> gone, bad |-> bad, o |-> o, t |-> t, names |-> names, rows |-> rows]
            q == Inserting!Fold(c, o, rows)
<1>1. Kept(v, gone, bad, Total(v), o) /\ o.view = v /\ Going(v, o)
  BY StartKept DEF Kept
<1>2. CASE cols = None
  <2>1. p = Err(o)
    BY <1>1, <1>2, Zenon DEF Insert
  <2>2. Kept(v, gone, bad, Total(v) + Len(rows), Err(o)) /\ ~Err(o).ok
    BY <1>1, ErrKept
  <2>. QED BY <2>1, <2>2
<1>3. CASE cols # None
  <2>1. c.v = v /\ c.gone = gone /\ c.bad = bad /\ c.o = o /\ c.t = t /\ c.names = names /\ c.rows = rows
    OBVIOUS
  <2>. HIDE DEF c, o
  <2>2. p = [q EXCEPT !.count = Len(rows)]
    <3>1. c.o.view[TableKey(c.t)] # None
      BY <1>1, <1>3, <2>1
    <3>2. Insert(c.o, c.t, c.names, c.rows)
            = [Inserting!Fold(c, c.o, c.rows) EXCEPT !.count = Len(c.rows)]
      BY <3>1, InsertInserts, Zenon
    <3>. QED BY <2>1, <3>2, Zenon DEF o
  <2>3. cols \in Seq(Column) /\ Len(cols) \in Nat
    BY <1>3, TableOfView, LenProperties
  <2>4. Total(v) \in Nat
    BY RowsFinite
  <2>5. ASSUME NEW values \in Seq(Datum), NEW n \in Int, NEW r, Kept(v, gone, bad, n, r)
        PROVE  Kept(v, gone, bad, n + 1, InsertStep(c, r, values))
    <3>. DEFINE row == IF names = << >> THEN PadRow(cols, values) ELSE MakeRow(cols, names, values)
    <3>1. InsertStep(c, r, values)
            = IF ~r.ok THEN r ELSE IF row = None THEN Err(r) ELSE CreateRow(r, t, row)
      BY <1>1, <2>1, Zenon DEF InsertStep
    <3>2. Kept(v, gone, bad, n + 1, Err(r))
      BY <2>5, ErrKept DEF Kept
    <3>3. ASSUME r.ok, row # None PROVE Kept(v, gone, bad, n + 1, CreateRow(r, t, row))
      <4>1. row \in Seq(Datum) /\ Len(row) >= Len(cols)
        BY <2>3, <3>3, PadRowIsWide, MakeRowIsWide
      <4>. HIDE DEF row
      <4>2. Len(cols) <= Len(row)
        BY <2>3, <4>1, LenProperties
      <4>3. r.view[TableKey(t)] = cols
        BY <2>5, <3>3, TableOfKept
      <4>. QED BY <2>5, <3>3, <4>1, <4>2, <4>3, CreateRowKept
    <3>4. ASSUME ~r.ok PROVE Kept(v, gone, bad, n + 1, r)
      BY <2>5, <3>4, FailedKept
    <3>. HIDE DEF row
    <3>. QED BY <3>1, <3>2, <3>3, <3>4, Zenon
  <2>6. Len(rows) \in Nat /\ DOMAIN rows = 1..Len(rows)
        /\ \A i \in 0..(Len(rows) - 1) : rows[i + 1] \in Seq(Datum)
    BY LenProperties
  <2>7. Kept(v, gone, bad, Total(v) + 0, o)
    BY <1>1, <2>4
  <2>8. ASSUME NEW i \in 0..(Len(rows) - 1), NEW r, Kept(v, gone, bad, Total(v) + i, r)
        PROVE  Kept(v, gone, bad, Total(v) + (i + 1), InsertStep(c, r, rows[i + 1]))
    <3>1. Total(v) + i \in Int /\ Total(v) + i + 1 = Total(v) + (i + 1)
      BY <2>4, <2>6, CountsUp
    <3>2. Kept(v, gone, bad, Total(v) + i + 1, InsertStep(c, r, rows[i + 1]))
      BY <2>5, <2>6, <2>8, <3>1
    <3>. QED BY <3>1, <3>2
  <2>9. Inserted(c, 0, o)
        /\ \A i \in 0..(Len(rows) - 1) : \A r :
              Inserted(c, i, r) => Inserted(c, i + 1, InsertStep(c, r, rows[i + 1]))
    BY <2>1, <2>7, <2>8, Zenon DEF Inserted
  <2>10. Inserted(c, Len(rows), q)
    BY <2>6, <2>9, Inserting!FoldHolds, Zenon
  <2>11. Kept(v, gone, bad, Total(v) + Len(rows), q)
    BY <2>1, <2>10, Zenon DEF Inserted
  <2>. HIDE DEF q
  <2>12. Counted(q, Len(rows), p)
    BY <2>2, Zenon DEF Counted
  <2>13. Kept(v, gone, bad, Total(v) + Len(rows), p) /\ p.count = Len(rows)
    BY <2>11, <2>12, CountKept
  <2>. QED BY <2>13
<1>. QED BY <1>2, <1>3

\* The rows of the source after the first n are still there.
Left(v, t, source, n, p) ==
    \A m \in (n + 1)..Len(source) :
        p.view[RowKey(t, GetPrimaryKey(v[TableKey(t)], source[m]))] # None

LEMMA AllLeft ==
  ASSUME NEW v, NEW gone, NEW bad, Tidy(v, gone, bad), NEW t \in TableName, NEW source, Source(v, t, source),
         NEW o, o.view = v
  PROVE  Left(v, t, source, 0, o)
<1>. SUFFICES ASSUME NEW m \in 1..Len(source)
              PROVE  v[RowKey(t, GetPrimaryKey(v[TableKey(t)], source[m]))] # None
  BY DEF Left
<1>1. IsRowAt(v, t, source[m])
  BY DEF Source
<1>2. source[m] \in Seq(Datum)
  BY <1>1 DEF IsRowAt
<1>. QED BY <1>1, <1>2, SqlMarkersAssumption DEF IsRowAt

LEMMA LeftOn ==
  ASSUME NEW v, NEW t \in TableName, NEW source, Source(v, t, source),
         NEW n \in 0..(Len(source) - 1), NEW p, Left(v, t, source, n, p),
         NEW id, id = GetPrimaryKey(v[TableKey(t)], source[n + 1]),
         NEW q, OthersStay(p, q, t, id)
  PROVE  Left(v, t, source, n + 1, q)
<1>. DEFINE Id(m) == GetPrimaryKey(v[TableKey(t)], source[m])
<1>0. Len(source) \in Nat
  BY LenProperties DEF Source
<1>1. SUFFICES ASSUME NEW m \in (n + 1 + 1)..Len(source) PROVE q.view[RowKey(t, Id(m))] # None
  BY DEF Left
<1>2. m \in (n + 1)..Len(source) /\ m \in 1..Len(source) /\ n + 1 \in 1..Len(source) /\ m # n + 1
  BY <1>0
<1>3. Id(m) # id /\ Id(m) \in Ids
  BY <1>2 DEF Source, IsRowAt
<1>4. p.view[RowKey(t, Id(m))] # None
  BY <1>2 DEF Left
<1>. HIDE DEF Id
<1>. QED BY <1>3, <1>4 DEF OthersStay

\* The rows changed so far.
Updated(c, n, p) ==
    Kept(c.v, c.gone, c.bad, c.total, p) /\ (p.ok => Left(c.v, c.t, c.source, n, p))

Updating == INSTANCE Induction WITH Step <- UpdateStep, Holds <- Updated

LEMMA UpdateUpdates ==
  ASSUME NEW c, SourceRows(c.o.view, c.t, c.where) # None
  PROVE  Update(c.o, c.t, c.where, c.set)
            = [Updating!Fold(c, c.o, SourceRows(c.o.view, c.t, c.where)) EXCEPT
                 !.count = Len(SourceRows(c.o.view, c.t, c.where))]
BY Zenon DEF Update, Updating!Fold, Updating!Folds, Updating!Last, FoldLeft, MapThenFoldSet, Max,
             UpdateStep

LEMMA UpdateKept ==
  ASSUME NamesApart, NEW v, NEW gone, NEW bad, Typed(v), Tidy(v, gone, bad), NEW t \in TableName, NEW where,
         NEW C, NEW set \in [C -> Datum], NEW p, p = Update(Start(v), t, where, set)
  PROVE  Kept(v, gone, bad, Total(v), p)
<1>. DEFINE o == Start(v)
            cols == v[TableKey(t)]
            rows == SourceRows(v, t, where)
            c == [v |-> v, gone |-> gone, bad |-> bad, o |-> o, t |-> t, where |-> where, set |-> set,
                  total |-> Total(v), source |-> rows]
            q == Updating!Fold(c, o, rows)
<1>1. Kept(v, gone, bad, Total(v), o) /\ o.ok /\ o.view = v /\ Going(v, o)
  BY StartKept DEF Kept
<1>2. CASE rows = None
  <2>1. p = Err(o)
    BY <1>1, <1>2, Zenon DEF Update
  <2>2. Kept(v, gone, bad, Total(v), Err(o))
    BY <1>1, ErrKept
  <2>. QED BY <2>1, <2>2
<1>3. CASE rows # None
  <2>1. /\ c.v = v /\ c.gone = gone /\ c.bad = bad /\ c.o = o /\ c.t = t /\ c.where = where /\ c.set = set
        /\ c.total = Total(v) /\ c.source = rows
    OBVIOUS
  <2>2. cols # None /\ Source(v, t, rows)
    BY <1>3, SourceRowsAreRows, SourceRowsSource
  <2>. HIDE DEF c, o, rows
  <2>3. p = [q EXCEPT !.count = Len(rows)]
    <3>1. SourceRows(c.o.view, c.t, c.where) = rows
      BY <1>1, <2>1, Zenon DEF rows
    <3>2. Update(c.o, c.t, c.where, c.set)
            = [Updating!Fold(c, c.o, SourceRows(c.o.view, c.t, c.where)) EXCEPT
                 !.count = Len(SourceRows(c.o.view, c.t, c.where))]
      BY <1>3, <3>1, UpdateUpdates, Zenon
    <3>. QED BY <2>1, <3>1, <3>2, Zenon DEF o
  <2>4. Total(v) \in Int
    BY RowsFinite
  <2>5. Len(rows) \in Nat /\ DOMAIN rows = 1..Len(rows)
        /\ \A i \in 0..(Len(rows) - 1) : i + 1 \in 1..Len(rows) /\ i + 1 \in (i + 1)..Len(rows)
    BY <2>2, LenProperties DEF Source
  <2>6. ASSUME NEW i \in 0..(Len(rows) - 1), NEW r, Kept(v, gone, bad, Total(v), r),
               r.ok => Left(v, t, rows, i, r), NEW s, s = UpdateStep(c, r, rows[i + 1])
        PROVE  Kept(v, gone, bad, Total(v), s) /\ (s.ok => Left(v, t, rows, i + 1, s))
    <3>. DEFINE row == rows[i + 1]
                new == [j \in DOMAIN row |->
                          IF j \in DOMAIN cols /\ cols[j].name \in DOMAIN set
                          THEN set[cols[j].name] ELSE row[j]]
                id == GetPrimaryKey(cols, row)
    <3>1. s = IF r.ok THEN UpdateRow(r, t, cols, id, new) ELSE r
      BY <1>1, <2>1, <2>6, Zenon DEF UpdateStep
    <3>2. IsRowAt(v, t, row)
      BY <2>2, <2>5 DEF Source
    <3>3. row \in Seq(Datum) /\ Len(cols) <= Len(row) /\ id \in Ids
      BY <3>2 DEF IsRowAt
    <3>4. new \in Seq(Datum) /\ Len(new) = Len(row)
      <4>1. Len(row) \in Nat /\ DOMAIN row = 1..Len(row) /\ \A j \in DOMAIN row : row[j] \in Datum
        BY <3>3, LenProperties
      <4>. HIDE DEF row
      <4>2. \A j \in DOMAIN row : new[j] \in Datum
        BY <4>1
      <4>. QED BY <4>1, <4>2
    <3>5. CASE r.ok
      <4>1. r.view[RowKey(t, id)] # None
        BY <2>5, <2>6, <3>5 DEF Left
      <4>2. r.view[TableKey(t)] = cols
        BY <2>6, <3>5, TableOfKept
      <4>3. s = UpdateRow(r, t, cols, id, new)
        BY <3>1, <3>5
      <4>4. id = GetPrimaryKey(v[TableKey(t)], rows[i + 1])
        OBVIOUS
      <4>. HIDE DEF row, new, id, cols
      <4>5. Kept(v, gone, bad, Total(v), s) /\ (s.ok => OthersStay(r, s, t, id))
        BY <2>4, <2>6, <3>3, <3>4, <3>5, <4>1, <4>2, <4>3, UpdateRowKept
      <4>6. s.ok => Left(v, t, rows, i + 1, s)
        BY <2>2, <2>6, <3>5, <4>4, <4>5, LeftOn
      <4>. QED BY <4>5, <4>6
    <3>6. CASE ~r.ok
      BY <2>6, <3>1, <3>6
    <3>. QED BY <3>5, <3>6
  <2>7. Left(v, t, rows, 0, o)
    BY <1>1, <2>2, AllLeft
  <2>8. Updated(c, 0, o)
        /\ \A i \in 0..(Len(rows) - 1) : \A r :
              Updated(c, i, r) => Updated(c, i + 1, UpdateStep(c, r, rows[i + 1]))
    BY <1>1, <2>1, <2>6, <2>7, Zenon DEF Updated
  <2>9. Updated(c, Len(rows), q)
    BY <2>5, <2>8, Updating!FoldHolds, Zenon
  <2>10. Kept(v, gone, bad, Total(v), q)
    BY <2>1, <2>9, Zenon DEF Updated
  <2>. HIDE DEF q
  <2>11. Counted(q, Len(rows), p)
    BY <2>3, Zenon DEF Counted
  <2>. QED BY <2>10, <2>11, CountKept
<1>. QED BY <1>2, <1>3

\* The rows deleted so far.
Deleted(c, n, p) ==
    p.ok /\ Kept(c.v, c.gone, c.bad, c.total - n, p) /\ Left(c.v, c.t, c.source, n, p)

Deleting == INSTANCE Induction WITH Step <- DeleteStep, Holds <- Deleted

LEMMA DeleteDeletes ==
  ASSUME NEW c, SourceRows(c.o.view, c.t, c.where) # None
  PROVE  Delete(c.o, c.t, c.where)
            = [Deleting!Fold(c, c.o, SourceRows(c.o.view, c.t, c.where)) EXCEPT
                 !.count = Len(SourceRows(c.o.view, c.t, c.where))]
BY Zenon DEF Delete, Deleting!Fold, Deleting!Folds, Deleting!Last, FoldLeft, MapThenFoldSet, Max,
             DeleteStep

LEMMA CountsDown ==
  ASSUME NEW a \in Nat, NEW n \in Nat, NEW i \in 0..(n - 1)
  PROVE  a - i \in Int /\ a - i - 1 = a - (i + 1)
OBVIOUS

LEMMA DeleteKept ==
  ASSUME NamesApart, NEW v, NEW gone, NEW bad, Typed(v), Tidy(v, gone, bad), NEW t \in TableName, NEW where,
         NEW p, p = Delete(Start(v), t, where)
  PROVE  Kept(v, gone, bad, Total(v) - p.count, p) /\ (p.ok => p.count \in Int)
<1>. DEFINE o == Start(v)
            cols == v[TableKey(t)]
            rows == SourceRows(v, t, where)
            c == [v |-> v, gone |-> gone, bad |-> bad, o |-> o, t |-> t, where |-> where,
                  total |-> Total(v), source |-> rows]
            q == Deleting!Fold(c, o, rows)
<1>1. Kept(v, gone, bad, Total(v), o) /\ o.ok /\ o.view = v /\ Going(v, o)
  BY StartKept DEF Kept
<1>2. CASE rows = None
  <2>1. p = Err(o)
    BY <1>1, <1>2, Zenon DEF Delete
  <2>2. Kept(v, gone, bad, Total(v) - Err(o).count, Err(o)) /\ ~Err(o).ok
    BY <1>1, ErrKept
  <2>. QED BY <2>1, <2>2
<1>3. CASE rows # None
  <2>1. /\ c.v = v /\ c.gone = gone /\ c.bad = bad /\ c.o = o /\ c.t = t /\ c.where = where
        /\ c.total = Total(v) /\ c.source = rows
    OBVIOUS
  <2>2. cols # None /\ Source(v, t, rows)
    BY <1>3, SourceRowsAreRows, SourceRowsSource
  <2>. HIDE DEF c, o, rows
  <2>3. p = [q EXCEPT !.count = Len(rows)]
    <3>1. SourceRows(c.o.view, c.t, c.where) = rows
      BY <1>1, <2>1, Zenon DEF rows
    <3>2. Delete(c.o, c.t, c.where)
            = [Deleting!Fold(c, c.o, SourceRows(c.o.view, c.t, c.where)) EXCEPT
                 !.count = Len(SourceRows(c.o.view, c.t, c.where))]
      BY <1>3, <3>1, DeleteDeletes, Zenon
    <3>. QED BY <2>1, <3>1, <3>2, Zenon DEF o
  <2>4. Total(v) \in Nat
    BY RowsFinite
  <2>5. Len(rows) \in Nat /\ DOMAIN rows = 1..Len(rows)
        /\ \A i \in 0..(Len(rows) - 1) : i + 1 \in 1..Len(rows) /\ i + 1 \in (i + 1)..Len(rows)
    BY <2>2, LenProperties DEF Source
  <2>6. ASSUME NEW i \in 0..(Len(rows) - 1), NEW r, r.ok, Kept(v, gone, bad, Total(v) - i, r),
               Left(v, t, rows, i, r), NEW s, s = DeleteStep(c, r, rows[i + 1])
        PROVE  s.ok /\ Kept(v, gone, bad, Total(v) - (i + 1), s) /\ Left(v, t, rows, i + 1, s)
    <3>. DEFINE id == GetPrimaryKey(cols, rows[i + 1])
                n == Total(v) - i
    <3>1. s = DeleteRow(r, t, cols, id)
      BY <1>1, <2>1, <2>6, Zenon DEF DeleteStep
    <3>2. IsRowAt(v, t, rows[i + 1])
      BY <2>2, <2>5 DEF Source
    <3>3. id \in Ids
      BY <3>2 DEF IsRowAt
    <3>4. r.view[RowKey(t, id)] # None
      BY <2>5, <2>6 DEF Left
    <3>5. id = GetPrimaryKey(v[TableKey(t)], rows[i + 1])
      OBVIOUS
    <3>6. n \in Int /\ n - 1 = Total(v) - (i + 1) /\ Kept(v, gone, bad, n, r)
      BY <2>4, <2>5, <2>6, CountsDown
    <3>. HIDE DEF id, cols, n
    <3>7. Kept(v, gone, bad, n - 1, s) /\ s.ok /\ RowStep(v, r, s, t, id)
      BY <2>6, <3>1, <3>3, <3>4, <3>6, DeleteRowKept
    <3>8. OthersStay(r, s, t, id)
      BY <3>3, <3>7, OtherRows
    <3>9. Left(v, t, rows, i + 1, s)
      BY <2>2, <2>6, <3>5, <3>8, LeftOn
    <3>. QED BY <3>6, <3>7, <3>9
  <2>7. Left(v, t, rows, 0, o)
    BY <1>1, <2>2, AllLeft
  <2>8. Kept(v, gone, bad, Total(v) - 0, o)
    BY <1>1, <2>4
  <2>9. Deleted(c, 0, o)
        /\ \A i \in 0..(Len(rows) - 1) : \A r :
              Deleted(c, i, r) => Deleted(c, i + 1, DeleteStep(c, r, rows[i + 1]))
    BY <1>1, <2>1, <2>6, <2>7, <2>8, Zenon DEF Deleted
  <2>10. Deleted(c, Len(rows), q)
    BY <2>5, <2>9, Deleting!FoldHolds, Zenon
  <2>11. Kept(v, gone, bad, Total(v) - Len(rows), q)
    BY <2>1, <2>10, Zenon DEF Deleted
  <2>. HIDE DEF q
  <2>12. Counted(q, Len(rows), p)
    BY <2>3, Zenon DEF Counted
  <2>13. Kept(v, gone, bad, Total(v) - Len(rows), p) /\ p.count = Len(rows)
    BY <2>11, <2>12, CountKept
  <2>. QED BY <2>5, <2>13
<1>. QED BY <1>2, <1>3

LEMMA ExecuteKept ==
  ASSUME NamesApart, NEW v, NEW gone, NEW bad, Typed(v), Tidy(v, gone, bad), NEW stmt \in Statement,
         stmt.kind \in {"Insert", "Update", "Delete"}, NEW p, p = Execute(v, stmt)
  PROVE  /\ Kept(v, gone, bad, Total(v) + Gain(stmt, p.count), p)
         /\ p.ok => Gain(stmt, p.count) \in Int
<1>. DEFINE gain == Gain(stmt, p.count)
<1>1. SUFFICES \E n : /\ Kept(v, gone, bad, n, p)
                      /\ p.ok => gain \in Int /\ n = Total(v) + gain
  <2>. HIDE DEF gain
  <2>1. PICK n : Kept(v, gone, bad, n, p) /\ (p.ok => gain \in Int /\ n = Total(v) + gain)
    BY <1>1
  <2>2. CASE p.ok
    BY <2>1, <2>2 DEF gain
  <2>3. CASE ~p.ok
    <3>1. Kept(v, gone, bad, Total(v) + gain, p)
      BY <2>1, <2>3, FailedKept
    <3>. QED BY <2>3, <3>1 DEF gain
  <2>. QED BY <2>2, <2>3
<1>2. Total(v) \in Int
  BY RowsFinite
<1>3. CASE stmt \in [kind : {"Insert"}, table : TableName, names : Seq(ColumnName),
                     rows : Seq(Seq(Datum))]
  <2>1. stmt.kind = "Insert" /\ stmt.table \in TableName /\ stmt.names \in Seq(ColumnName)
        /\ stmt.rows \in Seq(Seq(Datum))
    BY <1>3
  <2>2. p = Insert(Start(v), stmt.table, stmt.names, stmt.rows)
    BY <2>1 DEF Execute
  <2>3. Kept(v, gone, bad, Total(v) + Len(stmt.rows), p) /\ (p.ok => p.count = Len(stmt.rows))
    BY <2>1, <2>2, InsertKept
  <2>4. gain = p.count
    BY <2>1 DEF Gain
  <2>5. Len(stmt.rows) \in Int
    BY <2>1, LenProperties
  <2>. QED BY <2>3, <2>4, <2>5
<1>4. CASE stmt \in [kind : {"Update"}, table : TableName, where : Condition,
                     set : UNION {[C -> Datum] : C \in SUBSET ColumnName}]
  <2>1. stmt.kind = "Update" /\ stmt.table \in TableName
        /\ stmt.set \in UNION {[C -> Datum] : C \in SUBSET ColumnName}
    BY <1>4
  <2>2. PICK C \in SUBSET ColumnName : stmt.set \in [C -> Datum]
    BY <2>1
  <2>3. p = Update(Start(v), stmt.table, stmt.where, stmt.set)
    BY <2>1 DEF Execute
  <2>4. Kept(v, gone, bad, Total(v), p)
    BY <2>1, <2>2, <2>3, UpdateKept
  <2>5. gain = 0
    BY <2>1 DEF Gain
  <2>. QED BY <1>2, <2>4, <2>5
<1>5. CASE stmt \in [kind : {"Delete"}, table : TableName, where : Condition]
  <2>1. stmt.kind = "Delete" /\ stmt.table \in TableName
    BY <1>5
  <2>2. p = Delete(Start(v), stmt.table, stmt.where)
    BY <2>1 DEF Execute
  <2>3. Kept(v, gone, bad, Total(v) - p.count, p) /\ (p.ok => p.count \in Int)
    BY <2>1, <2>2, DeleteKept
  <2>4. gain = 0 - p.count
    BY <2>1 DEF Gain
  <2>. HIDE DEF gain
  <2>5. p.ok => gain \in Int /\ Total(v) - p.count = Total(v) + gain
    BY <1>2, <2>3, <2>4
  <2>. QED BY <2>3, <2>5
<1>6. CASE stmt \in [kind : {"CreateTable"}, table : TableName, columns : Seq(Column)]
  BY <1>6
<1>7. CASE stmt \in [kind : {"DropTable"}, table : TableName]
  BY <1>7
<1>. QED BY <1>3, <1>4, <1>5, <1>6, <1>7 DEF Statement

-----------------------------------------------------------------------------
(* What is left to write                                                   *)

LEMMA TidyGrows ==
  ASSUME NEW view, NEW A, NEW B, NEW bad, NEW worse, Tidy(view, A, bad), A \subseteq B,
         bad \subseteq worse
  PROVE  Tidy(view, B, worse)
<1>1. \A t \in TableName, id \in Ids : TidyRow(view, B, worse, t, id)
  BY DEF Tidy, TidyRow
<1>. QED BY <1>1 DEF Tidy

LEMMA SameGrows ==
  ASSUME NEW v, NEW w, NEW A, NEW B, SameButFor(v, w, A), A \subseteq B
  PROVE  SameButFor(v, w, B)
BY DEF SameButFor

LEMMA SameTwice ==
  ASSUME NEW u, NEW v, NEW w, NEW A, NEW B, SameButFor(u, v, A), SameButFor(v, w, B)
  PROVE  SameButFor(u, w, A \cup B)
BY DEF SameButFor, SameEntries

LEMMA LeadingGrows ==
  ASSUME NEW view, NEW todo, NEW snap, NEW W, NEW A, NEW bad, NEW ok, NEW n,
         Leading(view, todo, snap, W, A, bad, ok, n),
         NEW X, NEW B, NEW worse, NEW m,
         W \subseteq X, A \subseteq B, bad \subseteq worse, ok => m = n
  PROVE  Leading(view, todo, snap, X, B, worse, ok, m)
<1>1. PICK final : /\ Leads(view, todo, final)
                   /\ Tidy(final, A \cup GoneIn(todo), bad)
                   /\ SameButFor(snap, final, W \cup KeysIn(todo))
                   /\ ok => Total(final) = n
  BY DEF Leading
<1>2. Tidy(final, B \cup GoneIn(todo), worse)
  BY <1>1, TidyGrows
<1>3. SameButFor(snap, final, X \cup KeysIn(todo))
  BY <1>1, SameGrows
<1>. QED BY <1>1, <1>2, <1>3 DEF Leading

LEMMA MidwayGrows ==
  ASSUME NEW view, NEW todo, NEW snap, NEW W, NEW A, NEW bad, NEW rows,
         Midway(view, todo, snap, W, A, bad, rows),
         NEW X, NEW B, NEW worse, W \subseteq X, A \subseteq B, bad \subseteq worse
  PROVE  Midway(view, todo, snap, X, B, worse, rows)
<1>1. Tidy(view, A, bad \cup rows) /\ SameButFor(snap, view, W \cup rows)
  BY DEF Midway
<1>2. A \subseteq B /\ bad \cup rows \subseteq worse \cup rows /\ W \cup rows \subseteq X \cup rows
  OBVIOUS
<1>3. Tidy(view, B, worse \cup rows)
  BY <1>1, <1>2, TidyGrows
<1>4. SameButFor(snap, view, X \cup rows)
  BY <1>1, <1>2, SameGrows
<1>. QED BY <1>3, <1>4 DEF Midway

(* Nothing is left.                                                        *)
LEMMA NothingLeft ==
  ASSUME NEW view, view = [k \in StoreKey |-> view[k]], NEW snap, NEW W, NEW A, NEW bad,
         NEW ok, NEW n
  PROVE  Leading(view, << >>, snap, W, A, bad, ok, n) <=>
            /\ Tidy(view, A, bad)
            /\ SameButFor(snap, view, W)
            /\ ok => Total(view) = n
<1>. DEFINE todo == << >>
<1>1. KeysIn(todo) = {} /\ GoneIn(todo) = {} /\ \A i \in 1..Len(todo) : FALSE
  BY DEF KeysIn, GoneIn
<1>. HIDE DEF todo
<1>2. A \cup GoneIn(todo) = A /\ W \cup KeysIn(todo) = W
  BY <1>1
<1>3. ASSUME NEW final PROVE Leads(view, todo, final) <=> final = view
  <2>1. Leads(view, todo, final) => final = view
    <3>. SUFFICES ASSUME Leads(view, todo, final) PROVE final = view
      OBVIOUS
    <3>1. final = [k \in StoreKey |-> final[k]] /\ \A k \in StoreKey : final[k] = view[k]
      BY <1>1 DEF Leads
    <3>. QED BY <3>1
  <2>2. Leads(view, todo, view)
    BY <1>1 DEF Leads
  <2>. QED BY <2>1, <2>2
<1>4. Leading(view, todo, snap, W, A, bad, ok, n) <=>
            /\ Tidy(view, A, bad)
            /\ SameButFor(snap, view, W)
            /\ ok => Total(view) = n
  BY <1>2, <1>3 DEF Leading
<1>. QED BY <1>4 DEF todo

LEMMA NothingMidway ==
  ASSUME NEW view, NEW snap, NEW W, NEW A, NEW bad, Tidy(view, A, bad), SameButFor(snap, view, W),
         \A t \in TableName : view[TableKey(t)] = InitialDb[TableKey(t)]
  PROVE  Midway(view, << >>, snap, W, A, bad, {})
<1>. DEFINE todo == << >>
<1>1. \A i \in 1..Len(todo) : FALSE
  OBVIOUS
<1>. HIDE DEF todo
<1>2. bad \cup {} = bad /\ W \cup {} = W
  OBVIOUS
<1>3. Midway(view, todo, snap, W, A, bad, {})
  BY <1>1, <1>2 DEF Midway, AllNear
<1>. QED BY <1>3 DEF todo

(* A statement begins.                                                     *)
LEMMA ExecuteLeads ==
  ASSUME NamesApart, NEW view, Typed(view), NEW gone, NEW bad, Tidy(view, gone, bad),
         \A t \in TableName : view[TableKey(t)] = InitialDb[TableKey(t)],
         NEW stmt \in Statement, stmt.kind \in {"Insert", "Update", "Delete"},
         NEW snap, NEW wrote, SameButFor(snap, view, wrote),
         NEW p, p = Execute(view, stmt)
  PROVE  /\ Leading(view, p.writes, snap, wrote, gone, bad, p.ok, Total(view) + Gain(stmt, p.count))
         /\ Midway(view, p.writes, snap, wrote, gone, bad, {})
         /\ p.ok => Gain(stmt, p.count) \in Int
<1>. DEFINE n == Total(view) + Gain(stmt, p.count)
<1>1. Kept(view, gone, bad, n, p) /\ (p.ok => Gain(stmt, p.count) \in Int)
  BY ExecuteKept
<1>. HIDE DEF n
<1>2. /\ Going(view, p)
      /\ Tidy(p.view, gone \cup GoneIn(p.writes), bad)
      /\ SameButFor(view, p.view, KeysIn(p.writes)) /\ AllNear(view, p.writes, KeysIn(p.writes))
      /\ p.ok => Total(p.view) = n
  BY <1>1 DEF Kept, Tame
<1>3. /\ Leads(view, p.writes, p.view) /\ IsSeq(p.writes)
      /\ \A i \in 1..Len(p.writes) : Writable(p.writes[i])
  BY <1>2 DEF Going
<1>4. SameButFor(snap, p.view, wrote \cup KeysIn(p.writes))
  BY <1>2, SameTwice
<1>5. Leading(view, p.writes, snap, wrote, gone, bad, p.ok, n)
  BY <1>2, <1>3, <1>4 DEF Leading
<1>6. AllNear(view, p.writes, {} \cup RowsWritten(p.writes))
  <2>1. DOMAIN p.writes = 1..Len(p.writes)
    BY <1>3 DEF IsSeq
  <2>2. \A t \in TableName, id \in Ids :
           RowKey(t, id) \in KeysIn(p.writes) => RowKey(t, id) \in {} \cup RowsWritten(p.writes)
    BY <2>1, KeysApart DEF KeysIn, RowsWritten
  <2>. QED BY <1>2, <2>2, NearGrows
<1>7. bad \cup {} = bad /\ wrote \cup {} = wrote
  OBVIOUS
<1>8. Midway(view, p.writes, snap, wrote, gone, bad, {})
  BY <1>3, <1>6, <1>7 DEF Midway
<1>. QED BY <1>1, <1>5, <1>8 DEF n

(* The next write is made.                                                 *)
LEMMA WriteLeads ==
  ASSUME NEW view, NEW todo, NEW snap, NEW W, NEW A, NEW bad, NEW ok, NEW n,
         Leading(view, todo, snap, W, A, bad, ok, n),
         IsSeq(todo), todo # << >>, NEW w, w = Head(todo),
         NEW new, \A k \in StoreKey : k # w.key => new[k] = view[k], new[w.key] = w.data,
         NEW X, W \cup {w.key} \subseteq X,
         NEW B, A \subseteq B, w.key.kind = "Row" /\ w.data = None => w.key \in B
  PROVE  Leading(new, Tail(todo), snap, X, B, bad, ok, n)
<1>. DEFINE rest == Tail(todo)
<1>1. /\ IsSeq(rest) /\ Len(todo) \in Nat \ {0} /\ Len(rest) = Len(todo) - 1
      /\ w = todo[1] /\ \A i \in 1..Len(rest) : rest[i] = todo[i + 1]
  BY TailIsSeq
<1>. HIDE DEF rest
<1>2. /\ \A i \in 1..Len(rest) : i + 1 \in 1..Len(todo)
      /\ \A j \in 1..Len(todo) : j = 1 \/ (j - 1 \in 1..Len(rest) /\ rest[j - 1] = todo[j])
      /\ 1 \in 1..Len(todo)
  BY <1>1
<1>3. PICK final : /\ Leads(view, todo, final)
                   /\ Tidy(final, A \cup GoneIn(todo), bad)
                   /\ SameButFor(snap, final, W \cup KeysIn(todo))
                   /\ ok => Total(final) = n
  BY DEF Leading
<1>5. KeysIn(todo) \subseteq {w.key} \cup KeysIn(rest)
  BY <1>1, <1>2 DEF KeysIn
<1>6. GoneIn(todo) \subseteq B \cup GoneIn(rest)
  <2>. SUFFICES ASSUME NEW j \in 1..Len(todo), todo[j].key.kind = "Row", todo[j].data = None
                PROVE  todo[j].key \in B \cup GoneIn(rest)
    BY DEF GoneIn
  <2>1. CASE j = 1
    BY <1>1, <2>1
  <2>2. CASE j # 1
    BY <1>2, <2>2 DEF GoneIn
  <2>. QED BY <2>1, <2>2
<1>8. Leads(new, rest, final)
  <2>1. final = [k \in StoreKey |-> final[k]]
    BY <1>3 DEF Leads
  <2>2. ASSUME NEW k \in StoreKey, k \notin KeysIn(rest) PROVE final[k] = new[k]
    <3>1. \A i \in 1..Len(rest) : rest[i].key # k
      BY <2>2 DEF KeysIn
    <3>2. CASE k = w.key
      <4>1. \A j \in (1 + 1)..Len(todo) : todo[j].key # k
        <5>. SUFFICES ASSUME NEW j \in (1 + 1)..Len(todo) PROVE todo[j].key # k
          OBVIOUS
        <5>1. j \in 1..Len(todo) /\ j # 1
          BY <1>1
        <5>. QED BY <1>2, <3>1, <5>1
      <4>2. final[k] = todo[1].data
        BY <1>1, <1>2, <1>3, <3>2, <4>1 DEF Leads
      <4>. QED BY <1>1, <3>2, <4>2
    <3>3. CASE k # w.key
      <4>1. k \notin KeysIn(todo)
        BY <1>5, <2>2, <3>3
      <4>. QED BY <1>3, <3>3, <4>1 DEF Leads
    <3>. QED BY <3>2, <3>3
  <2>3. ASSUME NEW k \in StoreKey, NEW i \in 1..Len(rest), rest[i].key = k,
               \A j \in (i + 1)..Len(rest) : rest[j].key # k
        PROVE  final[k] = rest[i].data
    <3>1. i + 1 \in 1..Len(todo) /\ todo[i + 1].key = k
      BY <1>1, <1>2, <2>3
    <3>2. ASSUME NEW j \in (i + 1 + 1)..Len(todo) PROVE todo[j].key # k
      <4>1. j \in 1..Len(todo) /\ j # 1 /\ j - 1 \in (i + 1)..Len(rest)
        BY <1>1
      <4>. QED BY <1>2, <2>3, <4>1
    <3>3. final[k] = todo[i + 1].data
      BY <1>3, <3>1, <3>2 DEF Leads
    <3>. QED BY <1>1, <3>3
  <2>. QED BY <2>1, <2>2, <2>3, Zenon DEF Leads
<1>9. Tidy(final, B \cup GoneIn(rest), bad)
  <2>1. A \cup GoneIn(todo) \subseteq B \cup GoneIn(rest)
    BY <1>6
  <2>. QED BY <1>3, <2>1, TidyGrows
<1>10. SameButFor(snap, final, X \cup KeysIn(rest))
  <2>1. W \cup KeysIn(todo) \subseteq X \cup KeysIn(rest)
    BY <1>5
  <2>. QED BY <1>3, <2>1, SameGrows
<1>11. Leading(new, rest, snap, X, B, bad, ok, n)
  BY <1>3, <1>8, <1>9, <1>10 DEF Leading
<1>. QED BY <1>11 DEF rest

(* The rows of the statement are those it may leave half-written.          *)
LEMMA WriteMidway ==
  ASSUME NamesApart, NEW view, NEW todo, NEW snap, NEW W, NEW A, NEW bad, NEW rows,
         Midway(view, todo, snap, W, A, bad, rows),
         IsSeq(todo), todo # << >>, NEW w, w = Head(todo),
         NEW new, Makes(w, view, new), NEW X, W \subseteq X, NEW B, A \subseteq B
  PROVE  Midway(new, Tail(todo), snap, X, B, bad, rows \cup RowsWritten(todo))
<1>. USE DEF Makes
<1>. DEFINE rest == Tail(todo)
            R == rows \cup RowsWritten(todo)
<1>1. /\ IsSeq(rest) /\ Len(todo) \in Nat \ {0} /\ Len(rest) = Len(todo) - 1
      /\ w = todo[1] /\ \A i \in 1..Len(rest) : rest[i] = todo[i + 1]
  BY TailIsSeq
<1>2. DOMAIN todo = 1..Len(todo) /\ DOMAIN rest = 1..Len(rest)
  BY <1>1 DEF IsSeq
<1>. HIDE DEF rest
<1>3. 1 \in 1..Len(todo) /\ \A i \in 1..Len(rest) : i + 1 \in 1..Len(todo)
  BY <1>1
<1>4. /\ Near(view, w, R) /\ Writable(w)
      /\ \A i \in 1..Len(rest) : Near(view, rest[i], R) /\ Writable(rest[i])
  <2>1. \A i \in 1..Len(todo) : Near(view, todo[i], R) /\ Writable(todo[i])
    BY DEF Midway, AllNear
  <2>. HIDE DEF R
  <2>. QED BY <1>1, <1>3, <2>1
<1>5. w.key.kind = "Row" => w.key \in R
  BY <1>1, <1>2, <1>3 DEF RowsWritten
<1>6. R \cup RowsWritten(rest) = R
  <2>1. RowsWritten(rest) \subseteq RowsWritten(todo)
    BY <1>1, <1>2, <1>3 DEF RowsWritten
  <2>. QED BY <2>1
<1>7. /\ \A t \in TableName : view[TableKey(t)] = InitialDb[TableKey(t)]
      /\ Tidy(view, A, bad \cup rows) /\ SameButFor(snap, view, W \cup rows)
  BY DEF Midway
<1>8. \A t \in TableName : new[TableKey(t)] = view[TableKey(t)]
  <2>1. w.key.kind # "Table"
    BY <1>4 DEF Writable
  <2>2. \A t \in TableName : TableKey(t) \in StoreKey /\ TableKey(t) # w.key
    BY <2>1, KeysOfStore, KeysApart
  <2>. QED BY <2>2
<1>9. bad \cup rows \subseteq bad \cup R /\ W \cup rows \subseteq X \cup R /\ rows \subseteq R
  OBVIOUS
<1>. HIDE DEF R
<1>10. ASSUME NEW t \in TableName, NEW id \in Ids, RowKey(t, id) \notin R
       PROVE  SameEntries(view, new, t, id)
  <2>. SUFFICES ASSUME NEW c \in ColumnName, NEW x \in Datum
                PROVE  id \in LoadIndex(view, t, c, x) <=> id \in LoadIndex(new, t, c, x)
    BY DEF SameEntries
  <2>1. IndexKey(t, c, x) \in StoreKey
    BY IndexKeys
  <2>2. CASE w.key = IndexKey(t, c, x)
    <3>1. id \in Entry(w.data) <=> id \in LoadIndex(view, t, c, x)
      BY <1>4, <1>10, <2>2 DEF Near
    <3>2. LoadIndex(new, t, c, x) = Entry(w.data)
      BY <2>2, Zenon DEF LoadIndex, Entry
    <3>. QED BY <3>1, <3>2
  <2>3. CASE w.key # IndexKey(t, c, x)
    <3>1. new[IndexKey(t, c, x)] = view[IndexKey(t, c, x)]
      BY <2>1, <2>3
    <3>. QED BY <3>1, Zenon DEF LoadIndex
  <2>. QED BY <2>2, <2>3
<1>11. ASSUME NEW i \in 1..Len(rest) PROVE Near(new, rest[i], R)
  <2>. DEFINE z == rest[i]
  <2>1. Near(view, z, R)
    BY <1>4
  <2>. HIDE DEF z
  <2>2. \A t \in TableName, id \in Ids :
           z.key = RowKey(t, id) /\ z.data # None => RowOf(new[TableKey(t)], id, z.data)
    BY <1>8, <2>1 DEF Near
  <2>3. ASSUME NEW t \in TableName, NEW c \in ColumnName, NEW x \in Datum, NEW id \in Ids,
               z.key = IndexKey(t, c, x), RowKey(t, id) \notin R
        PROVE  id \in Entry(z.data) <=> id \in LoadIndex(new, t, c, x)
    <3>1. id \in LoadIndex(view, t, c, x) <=> id \in LoadIndex(new, t, c, x)
      BY <1>10, <2>3 DEF SameEntries
    <3>2. id \in Entry(z.data) <=> id \in LoadIndex(view, t, c, x)
      BY <2>1, <2>3 DEF Near
    <3>. QED BY <3>1, <3>2
  <2>4. Near(new, z, R)
    BY <2>2, <2>3, Zenon DEF Near
  <2>. QED BY <2>4 DEF z
<1>12. EntriesTyped(new)
  <2>. SUFFICES ASSUME NEW t \in TableName, NEW c \in ColumnName, NEW x \in Datum
                PROVE  new[IndexKey(t, c, x)] = None \/ new[IndexKey(t, c, x)] \subseteq Ids
    BY DEF EntriesTyped
  <2>. DEFINE k == IndexKey(t, c, x)
  <2>1. k \in StoreKey /\ k.kind = "Index"
    BY IndexKeys
  <2>2. view[k] = None \/ view[k] \subseteq Ids
    BY <1>7 DEF Tidy, EntriesTyped
  <2>. HIDE DEF k
  <2>3. new[k] = None \/ new[k] \subseteq Ids
    BY <1>4, <2>1, <2>2 DEF Writable
  <2>. QED BY <2>3 DEF k
<1>13. ASSUME NEW t \in TableName, NEW id \in Ids PROVE TidyRow(new, B, bad \cup R, t, id)
  <2>. DEFINE k == RowKey(t, id)
              cols == view[TableKey(t)]
  <2>1. k \in StoreKey /\ k.kind = "Row"
    BY RowKeyOf
  <2>2. TidyRow(view, A, bad \cup rows, t, id) /\ (cols # None => WellFormed(cols))
    BY <1>7 DEF Tidy
  <2>3. CASE k \notin R
    <3>1. new[k] = view[k]
      BY <1>5, <2>1, <2>3
    <3>2. SameEntries(view, new, t, id)
      BY <1>10, <2>3
    <3>. QED BY <1>8, <1>9, <2>2, <3>1, <3>2, TidyRowStays
  <2>4. CASE k \in R
    <3>1. view[k] # None => RowOf(cols, id, view[k])
      BY <2>2 DEF TidyRow
    <3>2. w.key = k /\ w.data # None => RowOf(cols, id, w.data)
      BY <1>4 DEF Near
    <3>. HIDE DEF cols, k
    <3>3. new[k] # None => RowOf(cols, id, new[k])
      BY <2>1, <3>1, <3>2
    <3>. QED BY <1>8, <2>4, <3>3 DEF TidyRow, k, cols
  <2>. QED BY <2>3, <2>4
<1>14. Tidy(new, B, bad \cup R)
  <2>1. \A t \in TableName : new[TableKey(t)] # None => WellFormed(new[TableKey(t)])
    BY <1>7, <1>8 DEF Tidy
  <2>. QED BY <1>12, <1>13, <2>1, Zenon DEF Tidy
<1>15. SameButFor(snap, new, X \cup R)
  <2>1. ASSUME NEW t \in TableName, NEW id \in Ids, RowKey(t, id) \notin X \cup R
        PROVE  SameEntries(snap, new, t, id)
    <3>1. SameEntries(view, new, t, id)
      BY <1>10, <2>1
    <3>2. SameEntries(snap, view, t, id)
      BY <1>7, <1>9, <2>1 DEF SameButFor
    <3>. QED BY <3>1, <3>2 DEF SameEntries
  <2>. QED BY <2>1 DEF SameButFor
<1>16. Midway(new, rest, snap, X, B, bad, R)
  BY <1>4, <1>6, <1>7, <1>8, <1>11, <1>14, <1>15 DEF Midway, AllNear
<1>. QED BY <1>16 DEF rest, R

-----------------------------------------------------------------------------
(* A commit                                                                *)

\* The database d takes over what a transaction wrote: W, where nobody else
\* wrote; what others committed since its snapshot is in M.
Merged(d, snap, view, W, M, new) ==
    /\ W \cap M = {}
    /\ \A k \in StoreKey :
          /\ k \notin M => snap[k] = d[k]
          /\ k \notin W => view[k] = snap[k] /\ new[k] = d[k]
          /\ k \in W => new[k] = view[k]

\* No table was created or dropped.
TablesKept(v) == \A t \in TableName : v[TableKey(t)] = InitialDb[TableKey(t)]

LEMMA MergedCounts ==
  ASSUME NEW d, NEW snap, NEW view, NEW W, NEW M, NEW new, Merged(d, snap, view, W, M, new),
         NEW n \in Int, Total(view) = Total(snap) + n
  PROVE  Total(new) = Total(d) + n
<1>. DEFINE D == RowsOf(d)
            S == RowsOf(snap)
            V == RowsOf(view)
            N == RowsOf(new)
            C(A) == Cardinality(A)
<1>1. \A k : k \in D <=> k \in StoreKey /\ k.kind = "Row" /\ d[k] # None
  BY DEF RowsOf
<1>2. \A k : k \in S <=> k \in StoreKey /\ k.kind = "Row" /\ snap[k] # None
  BY DEF RowsOf
<1>3. \A k : k \in V <=> k \in StoreKey /\ k.kind = "Row" /\ view[k] # None
  BY DEF RowsOf
<1>4. \A k : k \in N <=> k \in StoreKey /\ k.kind = "Row" /\ new[k] # None
  BY DEF RowsOf
<1>5. IsFiniteSet(D) /\ IsFiniteSet(S) /\ IsFiniteSet(V) /\ IsFiniteSet(N)
      /\ C(D) = Total(d) /\ C(S) = Total(snap) /\ C(V) = Total(view) /\ C(N) = Total(new)
      /\ C(D) \in Nat /\ C(S) \in Nat /\ C(V) \in Nat /\ C(N) \in Nat
  BY RowsFinite DEF Total
<1>. HIDE DEF D, S, V, N
<1>6. N \ W = D \ W /\ N \cap W = V \cap W /\ V \ W = S \ W /\ S \cap W = D \cap W
  BY <1>1, <1>2, <1>3, <1>4 DEF Merged
<1>7. /\ C(D \ W) = C(D) - C(D \cap W) /\ C(S \ W) = C(S) - C(S \cap W)
      /\ C(V \ W) = C(V) - C(V \cap W) /\ C(N \ W) = C(N) - C(N \cap W)
  BY <1>5, FS_Difference
<1>8. C(D \cap W) \in Nat /\ C(V \cap W) \in Nat
  BY <1>5, FS_Intersection, FS_CardinalityType
<1>9. C(D) - C(D \cap W) = C(N) - C(V \cap W) /\ C(V) - C(V \cap W) = C(S) - C(D \cap W)
  BY <1>6, <1>7
<1>. HIDE DEF C
<1>. QED BY <1>5, <1>8, <1>9

LEMMA MergedSame ==
  ASSUME NEW d, NEW snap, NEW view, NEW W, NEW M, NEW new, Merged(d, snap, view, W, M, new),
         NEW U, NEW H, SameButFor(snap, view, W \cup U), SameButFor(snap, d, M \cup H)
  PROVE  /\ SameButFor(d, new, W \cup U)
         /\ \A t \in TableName, id \in Ids :
               RowKey(t, id) \in W \ H => SameEntries(view, new, t, id)
<1>. DEFINE In(v, k, id) == id \in (IF v[k] = None THEN {} ELSE v[k])
<1>1. ASSUME NEW t \in TableName, NEW c \in ColumnName, NEW x \in Datum, NEW id \in Ids
      PROVE  /\ IndexKey(t, c, x) \in StoreKey
             /\ \A v : id \in LoadIndex(v, t, c, x) <=> In(v, IndexKey(t, c, x), id)
  BY IndexKeys DEF LoadIndex
<1>2. ASSUME NEW t \in TableName, NEW id \in Ids, NEW c \in ColumnName, NEW x \in Datum,
             RowKey(t, id) \notin W \cup U
      PROVE  id \in LoadIndex(d, t, c, x) <=> id \in LoadIndex(new, t, c, x)
  <2>. DEFINE k == IndexKey(t, c, x)
  <2>1. k \in StoreKey /\ \A v : id \in LoadIndex(v, t, c, x) <=> In(v, k, id)
    BY <1>1
  <2>2. In(snap, k, id) <=> In(view, k, id)
    BY <1>2, <2>1 DEF SameButFor, SameEntries
  <2>. HIDE DEF k
  <2>3. CASE k \in W
    BY <2>1, <2>2, <2>3 DEF Merged
  <2>4. CASE k \notin W
    BY <2>1, <2>4 DEF Merged
  <2>. QED BY <2>3, <2>4
<1>3. ASSUME NEW t \in TableName, NEW id \in Ids, NEW c \in ColumnName, NEW x \in Datum,
             RowKey(t, id) \in W \ H
      PROVE  id \in LoadIndex(view, t, c, x) <=> id \in LoadIndex(new, t, c, x)
  <2>. DEFINE k == IndexKey(t, c, x)
  <2>1. k \in StoreKey /\ \A v : id \in LoadIndex(v, t, c, x) <=> In(v, k, id)
    BY <1>1
  <2>2. RowKey(t, id) \notin M \cup H
    BY <1>3 DEF Merged
  <2>3. In(snap, k, id) <=> In(d, k, id)
    BY <2>1, <2>2 DEF SameButFor, SameEntries
  <2>. HIDE DEF k
  <2>4. CASE k \in W
    BY <2>1, <2>4 DEF Merged
  <2>5. CASE k \notin W
    BY <2>1, <2>3, <2>5 DEF Merged
  <2>. QED BY <2>4, <2>5
<1>. QED BY <1>2, <1>3, Zenon DEF SameButFor, SameEntries

LEMMA MergedTidy ==
  ASSUME NEW d, NEW snap, NEW view, NEW W, NEW M, NEW new, Merged(d, snap, view, W, M, new),
         NEW U, NEW H, SameButFor(snap, view, W \cup U), SameButFor(snap, d, M \cup H),
         NEW gone, Tidy(d, gone, H), Tidy(view, gone, H \cup U), TablesKept(d), TablesKept(view)
  PROVE  Tidy(new, gone, H \cup U) /\ TablesKept(new)
<1>. USE DEF TablesKept
<1>1. \A t \in TableName : new[TableKey(t)] = InitialDb[TableKey(t)]
  BY KeysOfStore DEF Merged
<1>2. \A t \in TableName : new[TableKey(t)] # None => WellFormed(new[TableKey(t)])
  BY <1>1 DEF Tidy
<1>3. EntriesTyped(new)
  <2>. SUFFICES ASSUME NEW t \in TableName, NEW c \in ColumnName, NEW x \in Datum
                PROVE  new[IndexKey(t, c, x)] = None \/ new[IndexKey(t, c, x)] \subseteq Ids
    BY DEF EntriesTyped
  <2>. DEFINE k == IndexKey(t, c, x)
  <2>1. k \in StoreKey
    BY IndexKeys
  <2>2. (d[k] = None \/ d[k] \subseteq Ids) /\ (view[k] = None \/ view[k] \subseteq Ids)
    BY DEF Tidy, EntriesTyped
  <2>. HIDE DEF k
  <2>3. new[k] = d[k] \/ new[k] = view[k]
    BY <2>1 DEF Merged
  <2>4. new[k] = None \/ new[k] \subseteq Ids
    BY <2>2, <2>3
  <2>. QED BY <2>4 DEF k
<1>4. /\ SameButFor(d, new, W \cup U)
      /\ \A t \in TableName, id \in Ids : RowKey(t, id) \in W \ H => SameEntries(view, new, t, id)
  BY MergedSame
<1>5. ASSUME NEW t \in TableName, NEW id \in Ids PROVE TidyRow(new, gone, H \cup U, t, id)
  <2>. DEFINE k == RowKey(t, id)
              cols == new[TableKey(t)]
  <2>1. k \in StoreKey
    BY RowKeyOf
  <2>2. /\ TidyRow(view, gone, H \cup U, t, id) /\ TidyRow(d, gone, H, t, id)
        /\ cols # None => WellFormed(cols)
        /\ view[TableKey(t)] = cols /\ d[TableKey(t)] = cols
    BY <1>1, <1>2 DEF Tidy
  <2>3. CASE k \in H \cup U
    <3>1. /\ view[k] # None => RowOf(cols, id, view[k])
          /\ d[k] # None => RowOf(cols, id, d[k])
      BY <2>2 DEF TidyRow
    <3>. HIDE DEF cols, k
    <3>2. new[k] = view[k] \/ new[k] = d[k]
      BY <2>1 DEF Merged
    <3>3. new[k] # None => RowOf(cols, id, new[k])
      BY <3>1, <3>2
    <3>. QED BY <2>3, <3>3 DEF TidyRow, k, cols
  <2>4. CASE k \in W \ (H \cup U)
    <3>1. new[k] = view[k] /\ SameEntries(view, new, t, id)
      BY <1>4, <2>1, <2>4 DEF Merged
    <3>. QED BY <2>2, <3>1, TidyRowStays
  <2>5. CASE k \notin W \cup H \cup U
    <3>1. new[k] = d[k] /\ SameEntries(d, new, t, id)
      BY <1>4, <2>1, <2>5 DEF Merged, SameButFor
    <3>2. H \subseteq H \cup U
      OBVIOUS
    <3>. QED BY <2>2, <3>1, <3>2, TidyRowStays
  <2>. QED BY <2>3, <2>4, <2>5
<1>. QED BY <1>1, <1>2, <1>3, <1>5, Zenon DEF Tidy

-----------------------------------------------------------------------------
(* Sessions                                                                *)

(* One of which nothing changes.                                           *)
LEMMA SessionStays ==
  ASSUME NEW r, ViewInv(r), own'[r] = own[r], snapshot'[r] = snapshot[r],
         running'[r] = running[r], broken'[r] = broken[r], gained'[r] = gained[r],
         deleted \subseteq deleted', halfway \subseteq halfway'
  PROVE  ViewInv(r)'
<1>1. /\ View(r)' = View(r) /\ Todo(r)' = Todo(r) /\ Pending(r)' = Pending(r)
      /\ Rows(r)' = Rows(r) /\ AllWell(r)' = AllWell(r) /\ Store!Written(r)' = Store!Written(r)
  BY ViewStays DEF Todo, Pending, Rows, AllWell, Store!Written
<1>. DEFINE v == View(r)
            todo == Todo(r)
            W == Store!Written(r) \cup broken[r]
            snap == snapshot[r]
            bad == halfway \cup broken[r]
            worse == halfway' \cup broken[r]
            ok == AllWell(r)
            rows == Rows(r)
            n == Total(snap) + gained[r]
            m == n + Pending(r)
<1>2. /\ Midway(v, todo, snap, W, deleted, bad, rows)
      /\ Leading(v, todo, snap, W, deleted, bad, ok, m)
      /\ running[r] # Idle =>
            running[r].before = n /\ (running[r].ok => running[r].gain \in Int)
  BY DEF ViewInv
<1>3. bad \subseteq worse
  OBVIOUS
<1>. DEFINE A == deleted
            B == deleted'
<1>4. /\ Midway(v, todo, snap, W, A, bad, rows) /\ Leading(v, todo, snap, W, A, bad, ok, m)
      /\ A \subseteq B
  BY <1>2
<1>. HIDE DEF v, todo, W, bad, worse, ok, rows, n, m, snap, A, B
<1>5. Midway(v, todo, snap, W, B, worse, rows)
  BY <1>3, <1>4, MidwayGrows
<1>6. Leading(v, todo, snap, W, B, worse, ok, m)
  BY <1>3, <1>4, LeadingGrows
<1>. QED BY <1>1, <1>2, <1>5, <1>6 DEF ViewInv, v, todo, W, worse, ok, rows, n, m, snap, B

(* A statement begins.                                                     *)
LEMMA RunLeads ==
  ASSUME NamesApart, IdleApart, OnlyRows, SqlInv, NEW s \in Session, NEW stmt \in Statements,
         NEW v, Run(s, stmt, v), View(s)' = v, Typed(v), Tidy(v, deleted, halfway \cup broken[s]),
         \A t \in TableName : v[TableKey(t)] = InitialDb[TableKey(t)],
         SameButFor(snapshot[s]', v, Store!Written(s)' \cup broken[s]),
         gained'[s] \in Int, Total(v) = Total(snapshot'[s]) + gained'[s],
         UNCHANGED << deleted, halfway, broken >>
  PROVE  ViewInv(s)' /\ running'[s] # Idle
<1>. DEFINE o == Execute(v, stmt)
            gain == Gain(stmt, o.count)
            rows == {}
            new == [kind |-> stmt.kind, todo |-> o.writes, ok |-> o.ok,
                    gain |-> IF o.ok THEN gain ELSE 0, rows |-> rows, before |-> RowCount(v)]
<1>1. running' = [running EXCEPT ![s] = new]
  BY DEF Run
<1>2. running = [r \in Session |-> running[r]]
  BY DEF SqlInv, UnderWay
<1>3. /\ new.todo = o.writes /\ new.ok = o.ok /\ (o.ok => new.gain = gain)
      /\ new.rows = rows /\ new.before = RowCount(v)
  OBVIOUS
<1>4. new # Idle
  BY Zenon DEF IdleApart
<1>. HIDE DEF new, o, gain, rows
<1>5. running'[s] = new
  BY <1>1, <1>2
<1>6. /\ Todo(s)' = o.writes /\ Rows(s)' = rows /\ Pending(s)' = new.gain /\ (AllWell(s)' <=> o.ok)
  BY <1>3, <1>4, <1>5 DEF Todo, Rows, Pending, AllWell
<1>. DEFINE snap == snapshot'[s]
            W == Store!Written(s)' \cup broken[s]
            bad == halfway \cup broken[s]
            n == Total(snap) + gained'[s]
            m == n + new.gain
            ok == AllWell(s)'
<1>7. SameButFor(snap, v, W) /\ Tidy(v, deleted, bad) /\ Total(v) = n
  OBVIOUS
<1>8. stmt \in Statement /\ stmt.kind \in {"Insert", "Update", "Delete"} /\ o = Execute(v, stmt)
  BY StatementsAssumption DEF OnlyRows, o
<1>. HIDE DEF snap, W, bad, n, m, ok
<1>9. /\ Leading(v, o.writes, snap, W, deleted, bad, o.ok, Total(v) + gain)
      /\ Midway(v, o.writes, snap, W, deleted, bad, {})
      /\ o.ok => gain \in Int
  BY <1>7, <1>8, ExecuteLeads DEF gain
<1>10. o.ok => m = Total(v) + gain
  BY <1>3, <1>7 DEF m
<1>. DEFINE A == deleted
            nn == Total(v) + gain
            y == o.ok
            todo == o.writes
<1>11. Leading(v, todo, snap, W, A, bad, y, m)
  <2>1. Leading(v, todo, snap, W, A, bad, y, nn) /\ (y => m = nn)
    BY <1>9, <1>10
  <2>. HIDE DEF A, nn, y, todo
  <2>. QED BY <2>1, LeadingGrows
<1>12. Leading(v, o.writes, snap, W, deleted, bad, ok, m)
  <2>1. ok <=> o.ok
    BY <1>6 DEF ok
  <2>. QED BY <1>11, <2>1 DEF Leading
<1>13. RowCount(v) = n
  BY <1>7 DEF RowCount, Total, RowsOf
<1>14. running'[s].before = n /\ (running'[s].ok => running'[s].gain \in Int)
  BY <1>3, <1>5, <1>9, <1>13
<1>. QED BY <1>4, <1>5, <1>6, <1>9, <1>12, <1>14 DEF ViewInv, snap, W, bad, n, m, ok, rows

(* Where nothing is left to write.                                         *)
LEMMA Settled ==
  ASSUME NEW s, ViewInv(s), Todo(s) = << >>
  PROVE  /\ \A t \in TableName : View(s)[TableKey(t)] = InitialDb[TableKey(t)]
         /\ Tidy(View(s), deleted, halfway \cup broken[s])
         /\ SameButFor(snapshot[s], View(s), Store!Written(s) \cup broken[s])
         /\ AllWell(s) => Total(View(s)) = Total(snapshot[s]) + gained[s] + Pending(s)
<1>. DEFINE v == View(s)
            m == Total(snapshot[s]) + gained[s] + Pending(s)
            W == Store!Written(s) \cup broken[s]
            bad == halfway \cup broken[s]
            ok == AllWell(s)
<1>1. v = [k \in StoreKey |-> v[k]]
  BY DEF View
<1>2. /\ Leading(v, << >>, snapshot[s], W, deleted, bad, ok, m)
      /\ \A t \in TableName : v[TableKey(t)] = InitialDb[TableKey(t)]
  BY DEF ViewInv, Midway
<1>. HIDE DEF v, m, W, bad, ok
<1>3. /\ Tidy(v, deleted, bad)
      /\ SameButFor(snapshot[s], v, W)
      /\ ok => Total(v) = m
  BY <1>1, <1>2, NothingLeft
<1>. QED BY <1>2, <1>3 DEF v, m, W, bad, ok

(* A view between two statements.                                          *)
LEMMA IdleView ==
  ASSUME NEW s, running'[s] = Idle, NEW v, View(s)' = v, v = [k \in StoreKey |-> v[k]],
         \A t \in TableName : v[TableKey(t)] = InitialDb[TableKey(t)],
         Tidy(v, deleted', halfway' \cup broken'[s]),
         SameButFor(snapshot'[s], v, Store!Written(s)' \cup broken'[s]),
         Total(v) = Total(snapshot'[s]) + gained'[s], gained'[s] \in Int
  PROVE  ViewInv(s)'
<1>. DEFINE snap == snapshot'[s]
            A == deleted'
            n == Total(snap) + gained'[s]
            m == n + 0
            W == Store!Written(s)' \cup broken'[s]
            bad == halfway' \cup broken'[s]
            ok == AllWell(s)'
<1>1. Todo(s)' = << >> /\ Rows(s)' = {} /\ Pending(s)' = 0
  BY DEF Todo, Rows, Pending
<1>2. Total(v) = m
  BY RowsFinite
<1>3. Tidy(v, A, bad) /\ SameButFor(snap, v, W)
  OBVIOUS
<1>. HIDE DEF snap, A, n, m, W, bad, ok
<1>4. Leading(v, << >>, snap, W, A, bad, ok, m)
  BY <1>2, <1>3, NothingLeft
<1>5. Midway(v, << >>, snap, W, A, bad, {})
  BY <1>3, NothingMidway
<1>. QED BY <1>1, <1>4, <1>5 DEF ViewInv, snap, A, n, m, W, bad, ok

(* Nothing changes in the store.                                           *)
LEMMA StoreStays ==
  ASSUME SqlInv, IndexInv, UNCHANGED << store, deleted, halfway, reported >>
  PROVE  /\ DbInv'
         /\ \A r \in live' : Held(r)'
         /\ \A r \in live' : running'[r] = running[r] /\ broken'[r] = broken[r]
                             /\ gained'[r] = gained[r] => ViewInv(r)'
<1>1. UNCHANGED << db, live, snapshot, own, missed >>
  BY DEF store
<1>2. DbInv'
  BY <1>1 DEF IndexInv, DbInv
<1>3. \A r \in live' : Held(r)'
  BY <1>1 DEF IndexInv, Held, Store!Written
<1>4. \A r \in live' : running'[r] = running[r] /\ broken'[r] = broken[r]
                       /\ gained'[r] = gained[r] => ViewInv(r)'
  BY <1>1, SessionStays DEF IndexInv
<1>. QED BY <1>2, <1>3, <1>4

(* A transaction begins.                                                   *)
LEMMA BeginHolds ==
  ASSUME SqlInv, IndexInv, NEW s \in Session, Store!Begin(s),
         UNCHANGED << deleted, halfway, reported, broken, gained >>
  PROVE  /\ DbInv'
         /\ \A r \in live' : Held(r)'
         /\ live' = live \cup {s} /\ s \notin live
         /\ snapshot'[s] = db /\ Store!Written(s)' = {}
         /\ \A r \in live' \ {s} : running'[r] = running[r] => ViewInv(r)'
<1>1. /\ s \notin live /\ live' = live \cup {s} /\ own' = own /\ db' = db /\ missed' = missed
      /\ snapshot' = [snapshot EXCEPT ![s] = db]
  BY DEF Store!Begin
<1>2. /\ snapshot = [r \in Session |-> snapshot[r]] /\ own[s] = Store!NoWrites
      /\ live \subseteq Session
  BY <1>1 DEF SqlInv, StoreTyped
<1>3. snapshot'[s] = db /\ \A r \in live : r # s /\ snapshot'[r] = snapshot[r]
  BY <1>1, <1>2
<1>4. Store!Written(s)' = {} /\ \A r \in live : Store!Written(r)' = Store!Written(r)
  BY <1>1, <1>2 DEF Store!Written, Store!NoWrites
<1>5. DbInv'
  BY <1>1 DEF IndexInv, DbInv
<1>6. ASSUME NEW r \in live' PROVE Held(r)'
  <2>1. CASE r = s
    <3>1. SameButFor(snapshot'[s], db', missed'[s] \cup halfway')
      BY <1>1, <1>3 DEF SameButFor, SameEntries
    <3>. QED BY <1>4, <2>1, <3>1 DEF Held
  <2>2. CASE r # s
    <3>1. r \in live
      BY <1>1, <2>2
    <3>2. Held(r)
      BY <3>1 DEF IndexInv
    <3>3. SameButFor(snapshot'[r], db', missed'[r] \cup halfway')
      BY <1>1, <1>3, <3>1, <3>2 DEF Held
    <3>4. Store!Written(r)' \cap missed'[r] = {}
      BY <1>1, <1>4, <3>1, <3>2 DEF Held
    <3>5. \A q \in live' \ {r} : Store!Written(r)' \cap Store!Written(q)' = {}
      BY <1>1, <1>4, <3>1, <3>2 DEF Held
    <3>. QED BY <3>3, <3>4, <3>5 DEF Held
  <2>. QED BY <2>1, <2>2
<1>7. ASSUME NEW r \in live' \ {s}, running'[r] = running[r] PROVE ViewInv(r)'
  <2>1. r \in live
    BY <1>1
  <2>. QED BY <1>1, <1>3, <1>7, <2>1, SessionStays DEF IndexInv
<1>. QED BY <1>1, <1>3, <1>4, <1>5, <1>6, <1>7

-----------------------------------------------------------------------------
(* The steps: statements                                                   *)

(* What a transaction sees when it begins.                                 *)
LEMMA DbTidy ==
  ASSUME SqlInv, IndexInv, NEW U
  PROVE  /\ Typed(db) /\ Tidy(db, deleted, halfway \cup U) /\ SameButFor(db, db, U)
         /\ \A t \in TableName : db[TableKey(t)] = InitialDb[TableKey(t)]
         /\ Total(db) \in Int /\ Total(db) = Total(db) + 0
<1>. DEFINE d == db
            A == deleted
            bad == halfway
<1>1. /\ Typed(d) /\ Tidy(d, A, bad)
      /\ \A t \in TableName : d[TableKey(t)] = InitialDb[TableKey(t)]
  BY DEF IndexInv, DbInv, SqlInv, Sound
<1>. HIDE DEF d, A, bad
<1>2. Tidy(d, A, bad \cup U)
  BY <1>1, TidyGrows
<1>3. SameButFor(d, d, U)
  BY DEF SameButFor, SameEntries
<1>4. Total(d) \in Int /\ Total(d) = Total(d) + 0
  BY RowsFinite
<1>. QED BY <1>1, <1>2, <1>3, <1>4 DEF d, A, bad

LEMMA BeginIndex ==
  ASSUME SqlInv, IndexInv, NEW s \in Session, Begin(s)
  PROVE  IndexInv'
<1>1. /\ running[s] = Idle /\ ~in_txn[s] /\ Store!Begin(s)
      /\ in_txn' = [in_txn EXCEPT ![s] = TRUE]
      /\ UNCHANGED << running, broken, gained, reported, deleted, halfway >>
  BY DEF Begin
<1>2. /\ DbInv'
      /\ \A r \in live' : Held(r)'
      /\ live' = live \cup {s} /\ s \notin live
      /\ snapshot'[s] = db /\ Store!Written(s)' = {}
      /\ \A r \in live' \ {s} : ViewInv(r)'
  BY <1>1, BeginHolds
<1>3. SessionsInv'
  <2>1. SessionsInv
    BY DEF IndexInv
  <2>. QED BY <1>1, <1>2, <2>1 DEF SessionsInv, AllWell
<1>4. ViewInv(s)'
  <2>1. View(s)' = db
    BY <1>1, BeginKeeps DEF Begin
  <2>2. gained'[s] = 0
    BY <1>1 DEF IndexInv, SessionsInv
  <2>. DEFINE d == db
              U == broken[s]
              W == Store!Written(s)' \cup broken'[s]
  <2>3. /\ Tidy(d, deleted, halfway \cup U) /\ SameButFor(d, d, U) /\ Total(d) = Total(d) + 0
        /\ \A t \in TableName : d[TableKey(t)] = InitialDb[TableKey(t)]
    BY DbTidy
  <2>4. W = U
    BY <1>1, <1>2
  <2>5. /\ running'[s] = Idle /\ View(s)' = d /\ d = [k \in StoreKey |-> d[k]]
        /\ \A t \in TableName : d[TableKey(t)] = InitialDb[TableKey(t)]
        /\ Tidy(d, deleted', halfway' \cup broken'[s])
        /\ SameButFor(snapshot'[s], d, W)
        /\ Total(d) = Total(snapshot'[s]) + gained'[s]
        /\ gained'[s] \in Int
    <3>1. running'[s] = Idle /\ deleted' = deleted /\ halfway' = halfway /\ broken'[s] = U
      BY <1>1
    <3>2. d = [k \in StoreKey |-> d[k]]
      BY DbTidy DEF Typed
    <3>. HIDE DEF d, U, W
    <3>3. 0 \in Int
      OBVIOUS
    <3>. QED BY ONLY <1>2, <2>1, <2>2, <2>3, <2>4, <3>1, <3>2, <3>3 DEF W, d
  <2>. HIDE DEF d
  <2>. QED BY <2>5, IdleView
<1>. QED BY <1>2, <1>3, <1>4 DEF IndexInv

LEMMA ExecuteInTxnIndex ==
  ASSUME NamesApart, IdleApart, OnlyRows, SqlInv, IndexInv, NEW s \in Session,
         NEW stmt \in Statements, ExecuteInTxn(s, stmt)
  PROVE  IndexInv'
<1>1. /\ running[s] = Idle /\ in_txn[s] /\ Run(s, stmt, View(s))
      /\ UNCHANGED << store, in_txn, broken, gained, reported, deleted, halfway >>
  BY DEF ExecuteInTxn
<1>2. s \in live
  BY <1>1 DEF IndexInv, SessionsInv
<1>3. \A r \in Session \ {s} : running'[r] = running[r]
  BY <1>1 DEF SqlInv, UnderWay, Run
<1>4. /\ DbInv'
      /\ \A r \in live' : Held(r)'
      /\ \A r \in live' : running'[r] = running[r] => ViewInv(r)'
  BY <1>1, StoreStays
<1>5. live' = live /\ live \subseteq Session /\ UNCHANGED << own, snapshot >>
  BY <1>1 DEF store, SqlInv, StoreTyped
<1>6. SessionsInv'
  <2>1. SessionsInv
    BY DEF IndexInv
  <2>. QED BY <1>1, <1>2, <1>3, <1>5, <2>1 DEF SessionsInv, AllWell
<1>7. ViewInv(s)'
  <2>1. ViewInv(s) /\ Todo(s) = << >> /\ Pending(s) = 0 /\ AllWell(s) /\ gained[s] \in Int
    BY <1>1, <1>2 DEF IndexInv, SessionsInv, Todo, Pending, AllWell
  <2>2. /\ \A t \in TableName : View(s)[TableKey(t)] = InitialDb[TableKey(t)]
        /\ Tidy(View(s), deleted, halfway \cup broken[s])
        /\ SameButFor(snapshot[s], View(s), Store!Written(s) \cup broken[s])
        /\ Total(View(s)) = Total(snapshot[s]) + gained[s] + 0
    BY <2>1, Settled
  <2>3. Total(View(s)) = Total(snapshot[s]) + gained[s]
    <3>1. Total(snapshot[s]) \in Int
      BY RowsFinite
    <3>. QED BY <2>1, <2>2, <3>1
  <2>4. View(s)' = View(s) /\ Store!Written(s)' = Store!Written(s) /\ Typed(View(s))
    BY <1>2, <1>5, ViewStays DEF Store!Written, SqlInv, Sound
  <2>. DEFINE v == View(s)
  <2>5. /\ Run(s, stmt, v) /\ View(s)' = v /\ Typed(v) /\ Tidy(v, deleted, halfway \cup broken[s])
        /\ \A t \in TableName : v[TableKey(t)] = InitialDb[TableKey(t)]
        /\ SameButFor(snapshot'[s], v, Store!Written(s)' \cup broken[s])
        /\ gained'[s] \in Int /\ Total(v) = Total(snapshot'[s]) + gained'[s]
    BY <1>1, <1>5, <2>1, <2>2, <2>3, <2>4
  <2>. HIDE DEF v
  <2>. QED BY <1>1, <2>5, RunLeads
<1>. QED BY <1>3, <1>4, <1>5, <1>6, <1>7 DEF IndexInv

LEMMA AutocommitIndex ==
  ASSUME NamesApart, IdleApart, OnlyRows, SqlInv, IndexInv, NEW s \in Session,
         NEW stmt \in Statements, Autocommit(s, stmt)
  PROVE  IndexInv'
<1>1. /\ running[s] = Idle /\ ~in_txn[s]
      /\ UNCHANGED << in_txn, broken, gained, reported, deleted, halfway, misfits, skewed >>
  BY DEF Autocommit
<1>2. CASE UNCHANGED << store, running >>
  <2>1. /\ DbInv'
        /\ \A r \in live' : Held(r)'
        /\ \A r \in live' : ViewInv(r)'
    BY <1>1, <1>2, StoreStays
  <2>2. SessionsInv'
    BY <1>1, <1>2 DEF IndexInv, SessionsInv, AllWell, store
  <2>. QED BY <2>1, <2>2 DEF IndexInv
<1>3. CASE Store!Begin(s) /\ Run(s, stmt, db)
  <2>1. \A r \in Session \ {s} : running'[r] = running[r]
    BY <1>3 DEF SqlInv, UnderWay, Run
  <2>2. /\ DbInv'
        /\ \A r \in live' : Held(r)'
        /\ live' = live \cup {s} /\ s \notin live
        /\ snapshot'[s] = db /\ Store!Written(s)' = {}
        /\ \A r \in live' \ {s} : running'[r] = running[r] => ViewInv(r)'
    BY <1>1, <1>3, BeginHolds
  <2>3. live' \subseteq Session
    BY <2>2 DEF SqlInv, StoreTyped
  <2>4. gained[s] = 0 /\ broken[s] = {}
    BY <1>1 DEF IndexInv, SessionsInv, AllWell
  <2>5. ViewInv(s)'
    <3>1. View(s)' = db
      BY <1>1, <1>3, BeginKeeps
    <3>. DEFINE v == db
                U == broken[s]
    <3>2. /\ Typed(v) /\ Tidy(v, deleted, halfway \cup U) /\ SameButFor(v, v, U)
          /\ \A t \in TableName : v[TableKey(t)] = InitialDb[TableKey(t)]
          /\ Total(v) = Total(v) + 0
      BY DbTidy
    <3>3. Store!Written(s)' \cup broken[s] = U
      BY <2>2
    <3>4. /\ Run(s, stmt, v) /\ View(s)' = v /\ Typed(v) /\ Tidy(v, deleted, halfway \cup broken[s])
          /\ \A t \in TableName : v[TableKey(t)] = InitialDb[TableKey(t)]
          /\ SameButFor(snapshot'[s], v, Store!Written(s)' \cup broken[s])
          /\ gained'[s] \in Int /\ Total(v) = Total(snapshot'[s]) + gained'[s]
      BY <1>1, <1>3, <2>2, <2>4, <3>1, <3>2, <3>3
    <3>. HIDE DEF v, U
    <3>. QED BY <1>1, <3>4, RunLeads
  <2>6. SessionsInv'
    <3>1. SessionsInv
      BY DEF IndexInv
    <3>. QED BY <1>1, <2>1, <2>2, <2>4, <3>1 DEF SessionsInv, AllWell
  <2>. QED BY <2>1, <2>2, <2>3, <2>5, <2>6 DEF IndexInv
<1>. QED BY <1>2, <1>3 DEF Autocommit


-----------------------------------------------------------------------------
(* The steps: writes and results                                           *)

(* The record of a statement that a conflict ends, and one of its fields.  *)
LEMMA RecordStops ==
  ASSUME NEW f, f = [r \in Session |-> f[r]], NEW s \in Session,
         NEW kind, NEW todo, NEW ok, NEW gain, NEW rows, NEW before,
         f[s] = [kind |-> kind, todo |-> todo, ok |-> ok, gain |-> gain,
                 rows |-> rows, before |-> before],
         NEW rest, NEW more, NEW no, NEW none,
         NEW h, h = [f EXCEPT ![s].todo = rest, ![s].rows = more, ![s].ok = no, ![s].gain = none]
  PROVE  h[s] = [kind |-> kind, todo |-> rest, ok |-> no, gain |-> none,
                 rows |-> more, before |-> before]
<1>. DEFINE g == [f EXCEPT ![s].todo = rest, ![s].rows = more]
            e == [g EXCEPT ![s].ok = no]
<1>1. h = [e EXCEPT ![s].gain = none]
  OBVIOUS
<1>2. /\ g = [r \in Session |-> g[r]]
      /\ g[s] = [kind |-> kind, todo |-> rest, ok |-> ok, gain |-> gain,
                 rows |-> more, before |-> before]
  <2>. DEFINE d == [f EXCEPT ![s].todo = rest]
  <2>1. g = [d EXCEPT ![s].rows = more]
    OBVIOUS
  <2>2. /\ d = [r \in Session |-> d[r]]
        /\ d[s] = [kind |-> kind, todo |-> rest, ok |-> ok, gain |-> gain,
                   rows |-> rows, before |-> before]
    OBVIOUS
  <2>. HIDE DEF d, g
  <2>. QED BY ONLY s \in Session, <2>1, <2>2
<1>. HIDE DEF g
<1>3. /\ e = [r \in Session |-> e[r]]
      /\ e[s] = [kind |-> kind, todo |-> rest, ok |-> no, gain |-> gain,
                 rows |-> more, before |-> before]
  BY ONLY s \in Session, <1>2
<1>. HIDE DEF e
<1>. QED BY ONLY s \in Session, <1>1, <1>3

LEMMA RecordFields ==
  ASSUME NEW z, NEW kind, NEW todo, NEW ok, NEW gain, NEW rows, NEW before,
         z = [kind |-> kind, todo |-> todo, ok |-> ok, gain |-> gain,
              rows |-> rows, before |-> before]
  PROVE  z.todo = todo /\ z.ok = ok /\ z.gain = gain /\ z.rows = rows /\ z.before = before
  OBVIOUS

LEMMA WrittenIndex ==
  ASSUME NamesApart, IdleApart, SqlInv, IndexInv, NEW s \in Session,
         running[s] # Idle, running[s].todo # << >>,
         NEW w, w = Head(running[s].todo), Store!Write(s, w.key, w.data),
         running' = [running EXCEPT ![s].todo = Tail(@),
                                    ![s].rows = @ \cup RowsWritten(running[s].todo)],
         deleted' = IF w.key.kind = "Row" /\ w.data = None THEN deleted \cup {w.key} ELSE deleted,
         UNCHANGED << in_txn, broken, halfway, gained, reported >>
  PROVE  IndexInv'
<1>1. /\ s \in live /\ own' = [own EXCEPT ![s][w.key] = w.data]
      /\ UNCHANGED << db, live, snapshot, missed >>
      /\ w.key \notin missed[s]
      /\ \A r \in live \ {s} : own[r][w.key] = Unwritten
  BY DEF Store!Write, Store!Free
<1>2. /\ own = [r \in Session |-> own[r]] /\ live \subseteq Session
      /\ \A r \in Session : own[r] = [k \in StoreKey |-> own[r][k]]
  BY DEF SqlInv, StoreTyped
<1>3. /\ own'[s] = [own[s] EXCEPT ![w.key] = w.data]
      /\ \A r \in Session \ {s} : own'[r] = own[r]
  BY <1>1, <1>2
<1>4. \A k \in StoreKey : /\ k # w.key => own'[s][k] = own[s][k]
                          /\ k = w.key => own'[s][k] = w.data
  BY SMTT(30), <1>2, <1>3
<1>5. /\ Store!Written(s)' \subseteq Store!Written(s) \cup {w.key}
      /\ \A r \in live \ {s} : Store!Written(r)' = Store!Written(r) /\ w.key \notin Store!Written(r)
  BY <1>1, <1>2, <1>3, <1>4 DEF Store!Written
<1>6. deleted \subseteq deleted' /\ (w.key.kind = "Row" /\ w.data = None => w.key \in deleted')
  BY SMTT(30)
<1>7. DbInv'
  <2>. DEFINE d == db
              A == deleted
              B == deleted'
              bad == halfway
  <2>1. Tidy(d, A, bad) /\ A \subseteq B
    BY <1>6 DEF IndexInv, DbInv
  <2>. HIDE DEF d, A, B, bad
  <2>2. Tidy(d, B, bad)
    BY <2>1, TidyGrows
  <2>. QED BY <1>1, <2>2 DEF IndexInv, DbInv, d, B, bad
<1>8. \A r \in live' : Held(r)'
  <2>1. ASSUME NEW r \in live PROVE Held(r)
    BY DEF IndexInv
  <2>2. SameButFor(snapshot[s], db, missed[s] \cup halfway) /\ Store!Written(s)' \cap missed[s] = {}
    BY <1>1, <1>5, <2>1 DEF Held
  <2>3. ASSUME NEW r \in live \ {s} PROVE Store!Written(s)' \cap Store!Written(r)' = {}
    <3>1. Store!Written(s) \cap Store!Written(r) = {}
      BY <1>1, <2>1 DEF Held
    <3>. QED BY <1>5, <3>1
  <2>4. Held(s)'
    BY <1>1, <2>2, <2>3 DEF Held
  <2>5. ASSUME NEW r \in live, r # s PROVE Held(r)'
    <3>1. \A q \in live \ {r} : Store!Written(r)' \cap Store!Written(q)' = {}
      BY <1>1, <1>5, <2>1, <2>3, <2>5 DEF Held
    <3>2. SameButFor(snapshot[r], db, missed[r] \cup halfway) /\ Store!Written(r)' \cap missed[r] = {}
      BY <1>5, <2>1, <2>5 DEF Held
    <3>. QED BY <1>1, <3>1, <3>2 DEF Held
  <2>. QED BY <1>1, <2>4, <2>5
<1>. DEFINE todo == running[s].todo
            rows == running[s].rows
            more == rows \cup RowsWritten(todo)
<1>9. running = [r \in Session |-> running[r]]
      /\ running[s] = [kind |-> running[s].kind, todo |-> todo,
                       ok |-> running[s].ok, gain |-> running[s].gain,
                       rows |-> rows, before |-> running[s].before]
      /\ IsSeq(todo)
  BY <1>1 DEF SqlInv, UnderWay, ToDo
<1>10. /\ \A r \in Session \ {s} : running'[r] = running[r]
       /\ running'[s] = [running[s] EXCEPT !.todo = Tail(@), !.rows = more]
  BY <1>9
<1>11. running'[s] = [kind |-> running[s].kind, todo |-> Tail(todo),
                      ok |-> running[s].ok, gain |-> running[s].gain,
                      rows |-> more, before |-> running[s].before]
  <2>. DEFINE rest == Tail(todo)
              kind == running[s].kind
              ok == running[s].ok
              gain == running[s].gain
              before == running[s].before
              now == running
              next == running'
              midway == [now EXCEPT ![s].todo = rest]
  <2>1. /\ next = [midway EXCEPT ![s].rows = more]
        /\ now = [r \in Session |-> now[r]]
    BY <1>9
  <2>2. now[s] = [kind |-> kind, todo |-> todo, ok |-> ok, gain |-> gain,
                  rows |-> rows, before |-> before]
    BY <1>9
  <2>. HIDE DEF todo, rows, more, rest, kind, ok, gain, before, now, next
  <2>3. /\ midway = [r \in Session |-> midway[r]]
        /\ midway[s] = [kind |-> kind, todo |-> rest, ok |-> ok, gain |-> gain,
                        rows |-> rows, before |-> before]
    BY ONLY s \in Session, <2>1, <2>2
  <2>. HIDE DEF midway
  <2>4. next[s] = [kind |-> kind, todo |-> rest, ok |-> ok, gain |-> gain,
                   rows |-> more, before |-> before]
    BY ONLY s \in Session, <2>1, <2>3
  <2>. QED BY <2>4 DEF next, rest, kind, ok, gain, before
<1>12. running'[s] # Idle
  BY <1>11, Zenon DEF IdleApart
<1>13. /\ running'[s].todo = Tail(todo) /\ running'[s].ok = running[s].ok
       /\ running'[s].gain = running[s].gain /\ running'[s].rows = more
       /\ running'[s].before = running[s].before
  BY ONLY <1>11, RecordFields
<1>14. \A r \in live' : r # s => ViewInv(r)'
  BY <1>1, <1>2, <1>3, <1>6, <1>10, SessionStays DEF IndexInv
<1>15. ViewInv(s)'
  <2>1. ViewInv(s)
    BY <1>1 DEF IndexInv
  <2>2. /\ Todo(s) = todo /\ Rows(s) = rows /\ Pending(s) = running[s].gain
        /\ Todo(s)' = Tail(todo) /\ Rows(s)' = more /\ Pending(s)' = running[s].gain
        /\ (AllWell(s) <=> running[s].ok) /\ (AllWell(s)' <=> running[s].ok)
    BY <1>12, <1>13 DEF Todo, Rows, Pending, AllWell
  <2>. DEFINE v == View(s)
              new == View(s)'
              U == broken[s]
              W == Store!Written(s) \cup U
              X == Store!Written(s)' \cup U
              bad == halfway \cup U
              n == Total(snapshot[s]) + gained[s]
              m == n + running[s].gain
              snap == snapshot[s]
              A == deleted
              B == deleted'
              ok == running[s].ok
  <2>3. /\ Leading(v, todo, snap, W, A, bad, ok, m)
        /\ Midway(v, todo, snap, W, A, bad, rows)
        /\ running[s].before = n /\ (ok => running[s].gain \in Int)
    BY <2>1, <2>2 DEF ViewInv, Leading
  <2>4. IsSeq(todo) /\ todo # << >> /\ w = Head(todo) /\ Writable(w)
    <3>1. /\ Len(todo) \in Nat \ {0} /\ w = todo[1]
      BY <1>9, TailIsSeq
    <3>2. 1 \in 1..Len(todo)
      BY <3>1
    <3>. HIDE DEF v, todo, W, n, m, snap, A, bad, ok, rows
    <3>3. Writable(todo[1])
      BY <2>3, <3>2 DEF Midway
    <3>. QED BY <1>9, <3>1, <3>3 DEF todo
  <2>5. w.key \in StoreKey /\ w.data # Unwritten
    BY SMTT(30), <2>4 DEF Writable
  <2>6. (\A k \in StoreKey : k # w.key => new[k] = v[k]) /\ new[w.key] = w.data
    <3>1. \A k \in StoreKey : new[k] = IF own'[s][k] # Unwritten THEN own'[s][k]
                                       ELSE snapshot'[s][k]
      BY DEF View, Store!Read
    <3>2. \A k \in StoreKey : v[k] = IF own[s][k] # Unwritten THEN own[s][k] ELSE snapshot[s][k]
      BY DEF View, Store!Read
    <3>. HIDE DEF v, new
    <3>. QED BY <1>1, <1>4, <2>5, <3>1, <3>2
  <2>7. W \cup {w.key} \subseteq X
    <3>1. \A k \in StoreKey : k \in Store!Written(s) => k \in Store!Written(s)'
      BY <1>4, <2>5 DEF Store!Written
    <3>2. Store!Written(s) \subseteq StoreKey /\ w.key \in Store!Written(s)'
      BY <1>4, <2>5 DEF Store!Written
    <3>. QED BY <3>1, <3>2
  <2>8. /\ A \subseteq B /\ (w.key.kind = "Row" /\ w.data = None => w.key \in B) /\ W \subseteq X
    BY <1>6, <2>7
  <2>. HIDE DEF v, new, U, todo, W, X, bad, n, m, snap, A, B, ok, rows
  <2>9. Leading(new, Tail(todo), snap, X, B, bad, ok, m)
    BY <2>3, <2>4, <2>6, <2>7, <2>8, WriteLeads, ZenonT(30)
  <2>10. Midway(new, Tail(todo), snap, X, B, bad, rows \cup RowsWritten(todo))
    <3>1. Makes(w, v, new)
      BY <2>6 DEF Makes
    <3>. QED BY ONLY NamesApart, <2>3, <2>4, <2>8, <3>1, WriteMidway, ZenonT(60)
  <2>11. /\ Midway(View(s)', Todo(s)', snapshot'[s], X, deleted', bad, Rows(s)')
         /\ Leading(View(s)', Todo(s)', snapshot'[s], X, deleted', bad, running[s].ok, n + Pending(s)')
         /\ running'[s].before = n /\ (running'[s].ok => running'[s].gain \in Int)
    BY <1>1, <1>13, <2>2, <2>3, <2>9, <2>10 DEF new, snap, B, m, ok
  <2>12. Leading(View(s)', Todo(s)', snapshot'[s], X, deleted', bad, AllWell(s)', n + Pending(s)')
    BY <2>2, <2>11 DEF Leading
  <2>. QED BY <1>1, <2>11, <2>12 DEF ViewInv, X, U, bad, n
<1>16. SessionsInv'
  <2>1. SessionsInv /\ (AllWell(s)' <=> AllWell(s))
    BY <1>12, <1>13 DEF IndexInv, AllWell
  <2>. QED BY <1>1, <1>10, <2>1 DEF SessionsInv, AllWell
<1>. QED BY <1>7, <1>8, <1>14, <1>15, <1>16, <1>1 DEF IndexInv

(* A conflict.  The rows of the statement join those half-written.         *)
LEMMA ConflictIndex ==
  ASSUME IdleApart, SqlInv, IndexInv, NEW s \in Session, running[s] # Idle,
         running' = [running EXCEPT ![s].todo = << >>, ![s].rows = {},
                                    ![s].ok = FALSE, ![s].gain = 0],
         broken' = [broken EXCEPT ![s] = @ \cup running[s].rows],
         UNCHANGED << store, in_txn, gained, reported, deleted, halfway >>
  PROVE  IndexInv'
<1>1. SessionsInv
  BY DEF IndexInv
<1>2. s \in live
  BY <1>1 DEF SessionsInv
<1>3. /\ DbInv'
      /\ \A r \in live' : Held(r)'
      /\ \A r \in live' : running'[r] = running[r] /\ broken'[r] = broken[r] => ViewInv(r)'
  BY StoreStays
<1>4. /\ running = [r \in Session |-> running[r]]
      /\ running[s] = [kind |-> running[s].kind, todo |-> running[s].todo,
                       ok |-> running[s].ok, gain |-> running[s].gain,
                       rows |-> running[s].rows, before |-> running[s].before]
  BY DEF SqlInv, UnderWay
<1>5. broken = [r \in Session |-> broken[r]]
  BY <1>1 DEF SessionsInv
<1>. DEFINE rows == running[s].rows
            U == broken[s]
<1>6. \A r \in Session \ {s} : running'[r] = running[r] /\ broken'[r] = broken[r]
  BY <1>4, <1>5
<1>7. broken'[s] = U \cup rows
  BY <1>5
<1>8. /\ running'[s] # Idle /\ ~running'[s].ok /\ running'[s].todo = << >> /\ running'[s].rows = {}
      /\ running'[s].gain = 0 /\ running'[s].before = running[s].before
  <2>. DEFINE no == FALSE
              empty == {}
  <2>1. running' = [running EXCEPT ![s].todo = << >>, ![s].rows = empty, ![s].ok = no, ![s].gain = 0]
    OBVIOUS
  <2>. HIDE DEF no, empty
  <2>2. running'[s] = [kind |-> running[s].kind, todo |-> << >>, ok |-> no, gain |-> 0,
                       rows |-> empty, before |-> running[s].before]
    BY ONLY s \in Session, <1>4, <2>1, RecordStops, ZenonT(30)
  <2>3. /\ running'[s].ok = no /\ running'[s].todo = << >> /\ running'[s].rows = empty
        /\ running'[s].gain = 0 /\ running'[s].before = running[s].before
    BY ONLY <2>2, RecordFields
  <2>4. running'[s] # Idle
    BY <2>2, Zenon DEF IdleApart
  <2>. QED BY <2>3, <2>4 DEF no, empty
<1>9. /\ Todo(s)' = << >> /\ Rows(s)' = {} /\ Pending(s)' = 0 /\ (AllWell(s)' <=> FALSE)
  BY <1>8 DEF Todo, Rows, Pending, AllWell
<1>10. /\ UNCHANGED << own, snapshot >> /\ live' = live /\ live \subseteq Session
       /\ View(s)' = View(s) /\ Store!Written(s)' = Store!Written(s)
  BY ViewStays DEF store, Store!Written, SqlInv, StoreTyped
<1>11. ViewInv(s)'
  <2>. DEFINE v == View(s)
              snap == snapshot[s]
              W == Store!Written(s) \cup (U \cup rows)
              bad == halfway \cup (U \cup rows)
              n == Total(snapshot[s]) + gained[s]
              A == deleted
  <2>1. ViewInv(s) /\ Rows(s) = rows
    BY <1>2 DEF IndexInv, Rows
  <2>2. /\ \A t \in TableName : v[TableKey(t)] = InitialDb[TableKey(t)]
        /\ Tidy(v, A, (halfway \cup U) \cup rows)
        /\ SameButFor(snap, v, (Store!Written(s) \cup U) \cup rows)
        /\ running[s].before = n
    BY <2>1 DEF ViewInv, Midway
  <2>3. /\ (halfway \cup U) \cup rows = bad /\ (Store!Written(s) \cup U) \cup rows = W
    OBVIOUS
  <2>4. Tidy(v, A, bad) /\ SameButFor(snap, v, W)
    BY <2>2, <2>3
  <2>5. v = [k \in StoreKey |-> v[k]]
    BY DEF View
  <2>. DEFINE no == FALSE
              m == n + 0
  <2>. HIDE DEF v, snap, W, bad, n, A, no, m
  <2>6. Midway(v, << >>, snap, W, A, bad, {})
    BY <2>2, <2>4, NothingMidway
  <2>7. Leading(v, << >>, snap, W, A, bad, no, m)
    <3>1. ~no
      BY DEF no
    <3>. QED BY <2>4, <2>5, <3>1, NothingLeft
  <2>8. /\ Midway(View(s)', Todo(s)', snapshot'[s], W, deleted', bad, Rows(s)')
        /\ Leading(View(s)', Todo(s)', snapshot'[s], W, deleted', bad, no, n + Pending(s)')
        /\ running'[s].before = n
    BY <1>8, <1>9, <1>10, <2>2, <2>6, <2>7 DEF v, snap, A, m
  <2>9. Leading(View(s)', Todo(s)', snapshot'[s], W, deleted', bad, AllWell(s)', n + Pending(s)')
    BY <1>9, <2>8 DEF Leading, no
  <2>. QED BY <1>7, <1>8, <1>10, <2>8, <2>9 DEF ViewInv, W, bad, n
<1>12. SessionsInv'
  <2>1. broken' = [r \in Session |-> broken'[r]]
    BY <1>5
  <2>. QED BY <1>1, <1>2, <1>6, <1>9, <1>10, <2>1 DEF SessionsInv, AllWell
<1>. QED BY <1>3, <1>6, <1>10, <1>11, <1>12 DEF IndexInv

LEMMA WriteIndex ==
  ASSUME NamesApart, IdleApart, SqlInv, IndexInv, NEW s \in Session, Write(s)
  PROVE  IndexInv'
<1>. DEFINE w == Head(running[s].todo)
<1>0. /\ running[s] # Idle /\ running[s].todo # << >>
      /\ UNCHANGED << in_txn, gained, reported, halfway >>
  BY DEF Write
<1>1. CASE /\ Store!Write(s, w.key, w.data)
           /\ running' = [running EXCEPT ![s].todo = Tail(@),
                                         ![s].rows = @ \cup RowsWritten(running[s].todo)]
           /\ deleted' = IF w.key.kind = "Row" /\ w.data = None
                         THEN deleted \cup {w.key} ELSE deleted
           /\ UNCHANGED broken
  BY <1>0, <1>1, WrittenIndex
<1>2. CASE /\ running' = [running EXCEPT ![s].todo = << >>, ![s].rows = {},
                                         ![s].ok = FALSE, ![s].gain = 0]
           /\ broken' = [broken EXCEPT ![s] = @ \cup running[s].rows]
           /\ UNCHANGED << store, deleted, misfits >>
  BY <1>0, <1>2, ConflictIndex
<1>. QED BY <1>1, <1>2 DEF Write

(* The result of a statement of an explicit transaction.                   *)
LEMMA ResultIndex ==
  ASSUME SqlInv, IndexInv, NEW s \in Session, running[s] # Idle, running[s].todo = << >>,
         in_txn[s], running' = [running EXCEPT ![s] = Idle],
         gained' = [gained EXCEPT ![s] = @ + Gained(s)],
         UNCHANGED << store, in_txn, broken, halfway, reported, deleted >>
  PROVE  IndexInv'
<1>1. /\ running = [r \in Session |-> running[r]] /\ SessionsInv
  BY DEF SqlInv, UnderWay, IndexInv
<1>2. /\ gained = [r \in Session |-> gained[r]] /\ s \in live /\ gained[s] \in Int
  BY <1>1 DEF SessionsInv
<1>3. \A r \in Session \ {s} : running'[r] = running[r] /\ gained'[r] = gained[r]
  BY <1>1, <1>2
<1>4. running'[s] = Idle /\ gained'[s] = gained[s] + Gained(s)
  BY <1>1, <1>2
<1>5. /\ DbInv'
      /\ \A r \in live' : Held(r)'
      /\ \A r \in live' : running'[r] = running[r] /\ broken'[r] = broken[r]
                          /\ gained'[r] = gained[r] => ViewInv(r)'
  BY StoreStays
<1>6. live' = live /\ live \subseteq Session /\ UNCHANGED << own, snapshot >>
      /\ View(s)' = View(s) /\ Store!Written(s)' = Store!Written(s)
  BY ViewStays DEF store, SqlInv, StoreTyped, Store!Written
<1>7. ViewInv(s) /\ Todo(s) = << >> /\ Pending(s) = running[s].gain /\ (AllWell(s) <=> running[s].ok)
  BY <1>2 DEF IndexInv, Todo, Pending, AllWell
<1>8. /\ \A t \in TableName : View(s)[TableKey(t)] = InitialDb[TableKey(t)]
      /\ Tidy(View(s), deleted, halfway \cup broken[s])
      /\ SameButFor(snapshot[s], View(s), Store!Written(s) \cup broken[s])
      /\ running[s].ok => Total(View(s)) = Total(snapshot[s]) + gained[s] + running[s].gain
  BY <1>7, Settled
<1>9. Gained(s) \in Int /\ Total(View(s)) = Total(snapshot[s]) + (gained[s] + Gained(s))
  <2>. DEFINE v == View(s)
              snap == snapshot[s]
              a == Total(snap)
              b == Total(v)
              before == running[s].before
              ok == running[s].ok
              gain == running[s].gain
  <2>1. a \in Int /\ b \in Int
    BY RowsFinite
  <2>6. RowCount(v) = b
    BY Zenon DEF RowCount, Total, RowsOf
  <2>2. before = a + gained[s] /\ (ok => gain \in Int)
    BY <1>7 DEF ViewInv
  <2>3. Gained(s) = IF ok THEN gain ELSE RowCount(v) - before
    BY DEF Gained
  <2>4. ok => b = a + gained[s] + gain
    BY <1>8
  <2>. HIDE DEF v, snap, a, b, before, ok, gain
  <2>5. Gained(s) \in Int /\ b = a + (gained[s] + Gained(s))
    BY <1>2, <2>1, <2>2, <2>3, <2>4, <2>6
  <2>. QED BY <2>5 DEF a, b, v, snap
<1>10. SessionsInv'
  <2>1. /\ gained' = [r \in Session |-> gained'[r]] /\ gained'[s] \in Int
    BY <1>2, <1>4, <1>9
  <2>. QED BY <1>1, <1>3, <1>4, <1>6, <2>1 DEF SessionsInv, AllWell
<1>11. ViewInv(s)'
  <2>. DEFINE v == View(s)
  <2>1. v = [k \in StoreKey |-> v[k]]
    BY DEF View
  <2>2. /\ running'[s] = Idle /\ View(s)' = v
        /\ \A t \in TableName : v[TableKey(t)] = InitialDb[TableKey(t)]
        /\ Tidy(v, deleted', halfway' \cup broken'[s])
        /\ SameButFor(snapshot'[s], v, Store!Written(s)' \cup broken'[s])
        /\ Total(v) = Total(snapshot'[s]) + gained'[s]
        /\ gained'[s] \in Int
    BY <1>2, <1>4, <1>6, <1>8, <1>9
  <2>. HIDE DEF v
  <2>. QED BY <2>1, <2>2, IdleView
<1>. QED BY <1>3, <1>5, <1>6, <1>10, <1>11 DEF IndexInv

-----------------------------------------------------------------------------
(* The steps: ends                                                         *)

\* The books after a transaction of the session is over.
LEMMA OverSessions ==
  ASSUME SqlInv, IndexInv, NEW s \in Session, Store!Forget(s), Over(s),
         halfway \subseteq halfway'
  PROVE  /\ SessionsInv'
         /\ \A r \in live' : /\ r \in live /\ r # s /\ Store!Written(r)' = Store!Written(r)
                             /\ snapshot'[r] = snapshot[r]
                             /\ ViewInv(r)'
<1>1. /\ live' = live \ {s} /\ own' = [own EXCEPT ![s] = Store!NoWrites]
      /\ snapshot' = [snapshot EXCEPT ![s] = Store!NoData]
      /\ in_txn' = [in_txn EXCEPT ![s] = FALSE]
      /\ running' = [running EXCEPT ![s] = Idle]
      /\ broken' = [broken EXCEPT ![s] = {}]
      /\ gained' = [gained EXCEPT ![s] = 0]
      /\ deleted' = deleted
  BY DEF Store!Forget, Over
<1>2. /\ own = [r \in Session |-> own[r]] /\ snapshot = [r \in Session |-> snapshot[r]]
      /\ running = [r \in Session |-> running[r]] /\ live \subseteq Session
  BY DEF SqlInv, StoreTyped, UnderWay
<1>3. SessionsInv
  BY DEF IndexInv
<1>4. /\ in_txn = [r \in Session |-> in_txn[r]]
      /\ broken = [r \in Session |-> broken[r]]
      /\ gained = [r \in Session |-> gained[r]]
  BY <1>3 DEF SessionsInv
<1>5. \A r \in Session \ {s} :
         /\ own'[r] = own[r] /\ snapshot'[r] = snapshot[r] /\ running'[r] = running[r]
         /\ broken'[r] = broken[r] /\ gained'[r] = gained[r] /\ in_txn'[r] = in_txn[r]
  BY <1>1, <1>2, <1>4
<1>6. running'[s] = Idle /\ gained'[s] = 0 /\ broken'[s] = {} /\ ~in_txn'[s]
  BY <1>1, <1>2, <1>4
<1>7. SessionsInv'
  <2>1. /\ gained' = [r \in Session |-> gained'[r]] /\ broken' = [r \in Session |-> broken'[r]]
        /\ in_txn' = [r \in Session |-> in_txn'[r]]
    BY <1>1, <1>4
  <2>2. ASSUME NEW r \in Session
        PROVE  /\ gained'[r] \in Int
               /\ in_txn'[r] \/ running'[r] # Idle => r \in live'
               /\ ~in_txn'[r] => gained'[r] = 0
               /\ ~in_txn'[r] /\ AllWell(r)' => broken'[r] = {}
    <3>1. CASE r = s
      BY <1>6, <3>1
    <3>2. CASE r # s
      BY <1>1, <1>3, <1>5, <3>2 DEF SessionsInv, AllWell
    <3>. QED BY <3>1, <3>2
  <2>. QED BY <2>1, <2>2, Zenon DEF SessionsInv
<1>8. ASSUME NEW r \in live'
      PROVE  /\ r \in live /\ r # s /\ Store!Written(r)' = Store!Written(r)
             /\ snapshot'[r] = snapshot[r]
             /\ ViewInv(r)'
  <2>1. r \in live /\ r \in Session \ {s}
    BY <1>1, <1>2
  <2>2. Store!Written(r)' = Store!Written(r)
    BY <1>5, <2>1 DEF Store!Written
  <2>. QED BY <1>1, <1>5, <2>1, <2>2, SessionStays DEF IndexInv
<1>. QED BY <1>7, <1>8

(* Nothing is published.                                                   *)
LEMMA NothingIndex ==
  ASSUME SqlInv, IndexInv, NEW s \in Session, Store!Forget(s), missed' = [missed EXCEPT ![s] = {}],
         UNCHANGED << db, reported, halfway >>, Over(s)
  PROVE  IndexInv'
<1>1. /\ SessionsInv'
      /\ \A r \in live' : /\ r \in live /\ r # s /\ Store!Written(r)' = Store!Written(r)
                          /\ snapshot'[r] = snapshot[r]
                          /\ ViewInv(r)'
  BY OverSessions
<1>2. DbInv'
  BY DEF IndexInv, DbInv, Over
<1>3. ASSUME NEW r \in live' PROVE Held(r)'
  <2>1. /\ r \in live /\ r # s /\ Store!Written(r)' = Store!Written(r) /\ Held(r)
        /\ snapshot'[r] = snapshot[r]
    BY <1>1 DEF IndexInv
  <2>2. missed'[r] = missed[r]
    BY <2>1 DEF SqlInv, StoreTyped
  <2>3. \A q \in live' \ {r} : q \in live \ {r} /\ Store!Written(q)' = Store!Written(q)
    BY <1>1
  <2>4. \A q \in live' \ {r} : Store!Written(r)' \cap Store!Written(q)' = {}
    BY <2>1, <2>3 DEF Held
  <2>. QED BY <2>1, <2>2, <2>4 DEF Held
<1>. QED BY <1>1, <1>2, <1>3 DEF IndexInv

(* What was written is published, by whatever statements.                  *)
LEMMA CommitIndex ==
  ASSUME SqlInv, IndexInv, NEW s \in Session, NEW gain \in Int, CommitStore(s, gain), Over(s),
         AllWell(s), Todo(s) = << >>, gain = gained[s] + Pending(s),
         halfway' = halfway \cup broken[s]
  PROVE  IndexInv'
<1>. DEFINE d == db
            new == db'
            view == View(s)
            snap == snapshot[s]
            W == Store!Written(s)
            M == missed[s]
            U == broken[s]
            H == halfway
<1>1. /\ s \in live /\ Store!Forget(s)
      /\ db' = [k \in StoreKey |-> IF own[s][k] = Unwritten THEN db[k] ELSE own[s][k]]
      /\ missed' = [r \in Session |-> IF r \in live \ {s} THEN missed[r] \cup W ELSE {}]
      /\ reported' = reported + gain /\ deleted' = deleted
  BY DEF CommitStore, Store!Commit, Over
<1>2. /\ SessionsInv'
      /\ \A r \in live' : /\ r \in live /\ r # s /\ Store!Written(r)' = Store!Written(r)
                          /\ snapshot'[r] = snapshot[r]
                          /\ ViewInv(r)'
  BY <1>1, OverSessions
<1>3. Held(s) /\ ViewInv(s) /\ DbInv /\ gained[s] \in Int
  BY <1>1 DEF IndexInv, SessionsInv
<1>4. Merged(d, snap, view, W, M, new)
  <2>1. W \cap M = {}
    BY <1>3 DEF Held
  <2>2. ASSUME NEW k \in StoreKey
        PROVE  /\ k \notin M => snap[k] = d[k]
               /\ k \notin W => view[k] = snap[k] /\ new[k] = d[k]
               /\ k \in W => new[k] = view[k]
    <3>1. k \notin M => snap[k] = d[k]
      BY <1>1 DEF SqlInv, SnapshotsKnown
    <3>2. k \in W <=> own[s][k] # Unwritten
      BY DEF Store!Written
    <3>. QED BY <1>1, <3>1, <3>2, ReadOfView
  <2>. HIDE DEF d, new, view, snap, W, M
  <2>. QED BY <2>1, <2>2 DEF Merged
<1>5. /\ \A t \in TableName : view[TableKey(t)] = InitialDb[TableKey(t)]
      /\ Tidy(view, deleted, H \cup U)
      /\ SameButFor(snap, view, W \cup U)
      /\ Total(view) = Total(snap) + gained[s] + Pending(s)
  BY <1>3, Settled
<1>6. /\ \A t \in TableName : d[TableKey(t)] = InitialDb[TableKey(t)]
      /\ Tidy(d, deleted, H) /\ reported \in Int /\ Total(d) = Total(InitialDb) + reported
      /\ SameButFor(snap, d, M \cup H)
  BY <1>3 DEF DbInv, Held
<1>7. Total(InitialDb) \in Int /\ Total(snap) \in Int
  BY RowsFinite
<1>8. /\ missed' = [r \in Session |-> missed'[r]]
      /\ \A r \in Session : missed'[r] = IF r \in live \ {s} THEN missed[r] \cup W ELSE {}
  BY <1>1
<1>9. Total(view) = Total(snap) + gain
  <2>. DEFINE a == Total(snap)
              b == Total(view)
  <2>1. /\ b = a + gained[s] + Pending(s) /\ a \in Int /\ gain \in Int
        /\ gain = gained[s] + Pending(s) /\ gained[s] \in Int
    BY <1>3, <1>5, <1>7
  <2>2. Pending(s) \in Int
    BY <1>3 DEF ViewInv, Pending, AllWell
  <2>. HIDE DEF a, b
  <2>3. b = a + gain
    BY <2>1, <2>2
  <2>. QED BY <2>3 DEF a, b
<1>. HIDE DEF d, new, view, snap, W, M, U, H
<1>10. /\ Tidy(new, deleted, H \cup U)
       /\ \A t \in TableName : new[TableKey(t)] = InitialDb[TableKey(t)]
  <2>1. TablesKept(d) /\ TablesKept(view)
    BY <1>5, <1>6 DEF TablesKept
  <2>. DEFINE gone == deleted
  <2>2. /\ Tidy(d, gone, H) /\ Tidy(view, gone, H \cup U)
        /\ SameButFor(snap, view, W \cup U) /\ SameButFor(snap, d, M \cup H)
    BY <1>5, <1>6
  <2>. HIDE DEF gone
  <2>3. Tidy(new, gone, H \cup U) /\ TablesKept(new)
    BY ONLY <1>4, <2>1, <2>2, MergedTidy, ZenonT(30)
  <2>. QED BY <2>3 DEF gone, TablesKept
<1>11. SameButFor(d, new, W \cup U)
  BY <1>4, <1>5, <1>6, MergedSame
<1>12. Total(new) = Total(d) + gain
  BY <1>4, <1>9, MergedCounts
<1>13. halfway' = H \cup U
  BY DEF H, U
<1>14. DbInv'
  <2>1. reported' \in Int /\ Total(new) = Total(InitialDb) + reported'
    BY <1>1, <1>6, <1>7, <1>12
  <2>. QED BY <1>1, <1>10, <1>13, <2>1 DEF DbInv, new
<1>15. ASSUME NEW r \in live' PROVE Held(r)'
  <2>1. /\ r \in live /\ r # s /\ Store!Written(r)' = Store!Written(r) /\ Held(r)
        /\ snapshot'[r] = snapshot[r] /\ r \in Session
    BY <1>2 DEF IndexInv, SqlInv, StoreTyped
  <2>2. missed'[r] = missed[r] \cup W
    BY <1>8, <2>1
  <2>3. Store!Written(r) \cap W = {}
    BY <1>1, <2>1 DEF Held, W
  <2>4. Store!Written(r)' \cap missed'[r] = {}
    BY <2>1, <2>2, <2>3 DEF Held
  <2>5. \A q \in live' \ {r} : q \in live \ {r} /\ Store!Written(q)' = Store!Written(q)
    BY <1>2
  <2>6. \A q \in live' \ {r} : Store!Written(r)' \cap Store!Written(q)' = {}
    BY <2>1, <2>5 DEF Held
  <2>7. SameButFor(snapshot'[r], new, missed'[r] \cup halfway')
    <3>. DEFINE u == snapshot[r]
                A == missed[r] \cup H
                B == W \cup U
                C == missed[r] \cup W \cup (H \cup U)
    <3>1. SameButFor(u, d, A)
      BY <2>1 DEF Held, d, H
    <3>2. A \cup B = C
      OBVIOUS
    <3>3. SameButFor(d, new, B)
      BY <1>11
    <3>. HIDE DEF u, A, B, C
    <3>4. SameButFor(u, new, C)
      BY <3>1, <3>2, <3>3, SameTwice
    <3>. QED BY <1>13, <2>1, <2>2, <3>4 DEF u, C
  <2>. QED BY <2>4, <2>6, <2>7 DEF Held, new
<1>. QED BY <1>2, <1>14, <1>15 DEF IndexInv

LEMMA FinishIndex ==
  ASSUME SqlInv, IndexInv, NEW s \in Session, Finish(s)
  PROVE  IndexInv'
<1>1. running[s] # Idle /\ running[s].todo = << >>
  BY DEF Finish
<1>2. CASE /\ in_txn[s]
           /\ running' = [running EXCEPT ![s] = Idle]
           /\ gained' = [gained EXCEPT ![s] = @ + Gained(s)]
           /\ UNCHANGED << store, in_txn, reported, broken, halfway,
                           deleted, misfits, skewed, statements >>
  BY <1>1, <1>2, ResultIndex
<1>3. CASE /\ ~in_txn[s]
           /\ running[s].ok
           /\ CommitStore(s, running[s].gain)
           /\ UNCHANGED halfway
           /\ Over(s)
  <2>1. AllWell(s) /\ Todo(s) = << >> /\ Pending(s) = running[s].gain
    BY <1>1, <1>3 DEF AllWell, Todo, Pending
  <2>2. broken[s] = {} /\ gained[s] = 0
    BY <1>3, <2>1 DEF IndexInv, SessionsInv
  <2>3. running[s].gain \in Int
    <3>1. ViewInv(s)
      BY <1>3 DEF CommitStore, Store!Commit, IndexInv
    <3>. QED BY <1>1, <1>3, <3>1 DEF ViewInv
  <2>4. running[s].gain = gained[s] + Pending(s) /\ halfway' = halfway \cup broken[s]
    BY <1>3, <2>1, <2>2, <2>3
  <2>. QED BY <1>3, <2>1, <2>3, <2>4, CommitIndex
<1>4. CASE Store!Rollback(s) /\ UNCHANGED << reported, halfway, skewed >> /\ Over(s)
  BY <1>4, NothingIndex DEF Store!Rollback
<1>. QED BY <1>1, <1>2, <1>3, <1>4 DEF Finish

LEMMA CommandIndex ==
  ASSUME SqlInv, IndexInv, NEW s \in Session, Commit(s) \/ Rollback(s) \/ Disconnect(s)
  PROVE  IndexInv'
<1>1. CASE Commit(s)
  <2>1. /\ running[s] = Idle /\ CommitStore(s, gained[s]) /\ Over(s)
        /\ halfway' = halfway \cup broken[s]
    BY <1>1 DEF Commit
  <2>2. /\ AllWell(s) /\ Todo(s) = << >> /\ Pending(s) = 0 /\ gained[s] \in Int
    BY <2>1 DEF AllWell, Todo, Pending, IndexInv, SessionsInv
  <2>3. gained[s] = gained[s] + Pending(s)
    BY <2>2
  <2>. QED BY <2>1, <2>2, <2>3, CommitIndex
<1>2. CASE Rollback(s)
  BY <1>2, NothingIndex DEF Rollback, Store!Rollback
<1>3. CASE Disconnect(s)
  BY <1>3, NothingIndex DEF Disconnect, Store!Abandon
<1>. QED BY <1>1, <1>2, <1>3

LEMMA RestartIndex ==
  ASSUME SqlInv, IndexInv, Restart
  PROVE  IndexInv'
<1>1. /\ live' = {} /\ UNCHANGED << db, deleted, reported, halfway >>
      /\ in_txn' = [s \in Session |-> FALSE]
      /\ running' = [s \in Session |-> Idle]
      /\ broken' = [s \in Session |-> {}]
      /\ gained' = [s \in Session |-> 0]
  BY DEF Restart, Store!Crash
<1>2. SessionsInv'
  BY <1>1 DEF SessionsInv
<1>3. DbInv'
  BY <1>1 DEF IndexInv, DbInv
<1>. QED BY <1>1, <1>2, <1>3 DEF IndexInv

-----------------------------------------------------------------------------
(* Theorems                                                                *)

LEMMA IndexInit ==
  ASSUME Tidy(InitialDb, {}, {}), Init
  PROVE  IndexInv
<1>. DEFINE v == InitialDb
<1>1. Total(v) \in Int
  BY RowsFinite
<1>. HIDE DEF v
<1>2. Total(v) = Total(v) + 0
  BY <1>1
<1>3. DbInv
  BY <1>2 DEF Init, DbInv, v
<1>4. SessionsInv /\ live = {}
  BY DEF Init, SessionsInv
<1>. QED BY <1>3, <1>4 DEF IndexInv

LEMMA IndexNext ==
  ASSUME NamesApart, IdleApart, OnlyRows, SqlInv, IndexInv, [Next]_vars
  PROVE  IndexInv'
<1>1. ASSUME NEW s \in Session, Begin(s) \/ Write(s) \/ Finish(s) PROVE IndexInv'
  BY <1>1, BeginIndex, WriteIndex, FinishIndex
<1>2. ASSUME NEW s \in Session, Commit(s) \/ Rollback(s) \/ Disconnect(s) PROVE IndexInv'
  BY <1>2, CommandIndex
<1>3. ASSUME NEW s \in Session, NEW stmt \in Statements, ExecuteInTxn(s, stmt) \/ Autocommit(s, stmt)
      PROVE  IndexInv'
  BY <1>3, ExecuteInTxnIndex, AutocommitIndex
<1>4. CASE Restart
  BY <1>4, RestartIndex
<1>5. CASE UNCHANGED vars
  <2>1. UNCHANGED << store, deleted, halfway, reported, running, broken, gained, in_txn >>
    BY <1>5 DEF vars, session
  <2>2. /\ DbInv'
        /\ \A r \in live' : Held(r)'
        /\ \A r \in live' : ViewInv(r)'
    BY <2>1, StoreStays
  <2>3. SessionsInv'
    BY <2>1 DEF IndexInv, SessionsInv, AllWell, store
  <2>. QED BY <2>2, <2>3 DEF IndexInv
<1>. QED BY <1>1, <1>2, <1>3, <1>4, <1>5 DEF Next

(* What clients can read is tidy.                                          *)
LEMMA ViewsTidy ==
  ASSUME SqlInv, IndexInv, NEW view \in Views
  PROVE  Tidy(view.map, deleted, view.broken)
<1>1. CASE view = [map |-> db, broken |-> halfway]
  <2>1. view.map = db /\ view.broken = halfway
    BY <1>1
  <2>. QED BY <2>1 DEF IndexInv, DbInv
<1>2. ASSUME NEW s \in Session, in_txn[s], running[s] = Idle,
             view = [map |-> View(s), broken |-> halfway \cup broken[s]]
      PROVE  Tidy(view.map, deleted, view.broken)
  <2>1. s \in live /\ Todo(s) = << >>
    BY <1>2 DEF IndexInv, SessionsInv, Todo
  <2>2. ViewInv(s)
    BY <2>1 DEF IndexInv
  <2>3. view.map = View(s) /\ view.broken = halfway \cup broken[s]
    BY <1>2
  <2>. QED BY <2>1, <2>2, <2>3, Settled
<1>. QED BY <1>1, <1>2 DEF Views

(* The committed database, and what every open transaction sees between    *)
(* two statements, has its rows in the entries of their values, and in     *)
(* others only where one was deleted; but for the rows of a statement that *)
(* a conflict cut half-way, and that the session lets the client go on     *)
(* with or commit.  A statement under way leads from what was written of   *)
(* it to such a view, whichever of its writes is the last.                 *)
THEOREM IndexInvariant ==
  ASSUME NamesApart, IdleApart, OnlyRows, Tidy(InitialDb, {}, {})
  PROVE  Spec => []IndexInv
<1>1. Init => IndexInv
  BY IndexInit
<1>2. SqlInv /\ IndexInv /\ [Next]_vars => IndexInv'
  BY IndexNext
<1>. QED BY <1>1, <1>2, SqlInvariant, PTL DEF Spec

(* IndexComplete: an index scan misses no row, whatever statements on rows *)
(* of whatever sessions ran into each other, and however an UPDATE moved   *)
(* rows from entry to entry or from key to key; but for the very rows that *)
(* a statement was to write when it met a conflict, in a transaction that   *)
(* goes on or is committed after it.                                       *)
THEOREM IndexesStayComplete ==
  ASSUME NamesApart, IdleApart, OnlyRows, Tidy(InitialDb, {}, {})
  PROVE  Spec => []IndexComplete
<1>1. ASSUME SqlInv, IndexInv PROVE IndexComplete
  <2>. SUFFICES ASSUME NEW view \in Views, NEW t \in TablesIn(view.map),
                       NEW id \in RowsIn(view.map, t),
                       NEW i \in IndexedColumns(view.map, t),
                       RowKey(t, id) \notin view.broken
                PROVE  id \in LoadIndex(view.map, t, view.map[TableKey(t)][i].name,
                                        view.map[RowKey(t, id)][i])
    BY DEF IndexComplete
  <2>. DEFINE v == view.map
              bad == view.broken
  <2>1. Tidy(v, deleted, bad)
    BY <1>1, ViewsTidy
  <2>2. t \in TableName /\ id \in Ids /\ v[RowKey(t, id)] # None
    BY DEF TablesIn, RowsIn, Ids
  <2>3. i \in DOMAIN v[TableKey(t)] /\ v[TableKey(t)][i].index
    BY DEF IndexedColumns
  <2>4. RowKey(t, id) \notin bad
    OBVIOUS
  <2>. HIDE DEF v, bad
  <2>5. Indexed(v, t, id, v[TableKey(t)], v[RowKey(t, id)])
    BY <2>1, <2>2, <2>4 DEF Tidy, TidyRow
  <2>6. id \in LoadIndex(v, t, v[TableKey(t)][i].name, v[RowKey(t, id)][i])
    BY <2>3, <2>5 DEF Indexed
  <2>. QED BY <2>6 DEF v
<1>. QED BY <1>1, IndexInvariant, SqlInvariant, PTL

(* IndexExactUntilDeleted: an index scan finds no row that does not have   *)
(* the value, but where a row of that key was deleted or, as above, a      *)
(* statement cut half-way: no UPDATE that succeeds leaves an id behind in  *)
(* an entry, nor does one that is rolled back, outside a transaction or    *)
(* with it.                                                                *)
THEOREM IndexesStayExact ==
  ASSUME NamesApart, IdleApart, OnlyRows, Tidy(InitialDb, {}, {})
  PROVE  Spec => []IndexExactUntilDeleted
<1>1. ASSUME SqlInv, IndexInv PROVE IndexExactUntilDeleted
  <2>. SUFFICES ASSUME NEW view \in Views, NEW t \in TablesIn(view.map),
                       NEW i \in IndexedColumns(view.map, t), NEW x \in Datum,
                       NEW id \in LoadIndex(view.map, t, view.map[TableKey(t)][i].name, x),
                       RowKey(t, id) \notin deleted \cup view.broken
                PROVE  id \in RowsIn(view.map, t) /\ view.map[RowKey(t, id)][i] = x
    BY DEF IndexExactUntilDeleted
  <2>. DEFINE v == view.map
              bad == view.broken
              cols == v[TableKey(t)]
  <2>1. Tidy(v, deleted, bad)
    BY <1>1, ViewsTidy
  <2>2. t \in TableName /\ cols # None /\ i \in DOMAIN cols /\ cols[i].index
    BY DEF TablesIn, IndexedColumns
  <2>3. id \in LoadIndex(v, t, cols[i].name, x) /\ RowKey(t, id) \notin deleted \cup bad
    OBVIOUS
  <2>. HIDE DEF v, bad
  <2>4. cols \in Seq(Column)
    BY <2>1, <2>2 DEF Tidy, WellFormed
  <2>5. cols[i].name \in ColumnName
    <3>. HIDE DEF cols
    <3>1. cols[i] \in Column
      BY <2>2, <2>4, LenProperties
    <3>. QED BY <3>1 DEF Column
  <2>6. id \in Ids
    BY <2>1, <2>2, <2>3, <2>5, EntryIsSet DEF Tidy
  <2>7. OnlyIndexed(v, t, id, cols, v[RowKey(t, id)])
    BY <2>1, <2>2, <2>3, <2>6 DEF Tidy, TidyRow
  <2>8. v[RowKey(t, id)] # None /\ v[RowKey(t, id)][i] = x
    BY <2>2, <2>3, <2>7 DEF OnlyIndexed
  <2>9. id \in RowsIn(v, t) /\ v[RowKey(t, id)][i] = x
    BY <2>6, <2>8 DEF RowsIn, Ids
  <2>. QED BY <2>9 DEF v
<1>. QED BY <1>1, IndexInvariant, SqlInvariant, PTL

(* CountsAddUp: the rows there are, are those that INSERT reported less    *)
(* those that DELETE reported, with what failed statements left, of all    *)
(* transactions that committed, whatever conflicts their statements met.   *)
THEOREM CountsStayExact ==
  ASSUME NamesApart, IdleApart, OnlyRows, Tidy(InitialDb, {}, {})
  PROVE  Spec => []CountsAddUp
<1>1. ASSUME IndexInv PROVE CountsAddUp
  BY <1>1 DEF IndexInv, DbInv, CountsAddUp, RowCount, Total, RowsOf
<1>. QED BY <1>1, IndexInvariant, PTL

=============================================================================
